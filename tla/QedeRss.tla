------------------------------- MODULE QedeRss -------------------------------
(***************************************************************************)
(* Receive-side scaling of the qede PMD                                    *)
(* (src/dpdk-17.02/drivers/net/qede/qede_ethdev.c): the hash               *)
(* configuration (qede_rss_hash_update, qede_rss_hash_conf_get), the       *)
(* redirection table (qede_rss_reta_update, qede_rss_reta_query) and the   *)
(* defaults qede_config_rss applies.  The driver keeps local copies for    *)
(* the query calls (rss_enable, rss_conf, rss_ind_table); the firmware of  *)
(* each hardware function (ecore, not in this tree) holds the state the    *)
(* NIC steers by, and is modelled by what ecore_sp_vport_update is asked   *)
(* to change: the enable bit always (update_rss_config), the hash types,   *)
(* key and table when the matching update flag is set.                     *)
(*                                                                         *)
(* A hash key is abstracted to the pair <<k, n>>: the first n octets of    *)
(* key k, zero-filled to ECORE_RSS_KEY_SIZE words.                         *)
(***************************************************************************)
EXTENDS Naturals

CONSTANTS
    NumHwfns,    \* edev->num_hwfns (2 on a 100G CMT device)
    TableSize,   \* ECORE_RSS_IND_TABLE_SIZE = ETH_RSS_RETA_SIZE_128
    RssCount,    \* QEDE_RSS_COUNT(qdev): the rx queues
    KeySize,     \* ECORE_RSS_KEY_SIZE * sizeof(uint32_t)
    Keys,        \* user-supplied key contents
    KeyLens,     \* rss_key_len values callers pass
    HashTypes,   \* rss_hf values callers pass (sets of ETH_RSS_* bits)
    Entries,     \* queue ids callers put in a RETA
    RetaSizes,   \* reta_size values callers pass
    RssHwMayFail,   \* whether ecore_sp_vport_update may fail
    MaxRssOps    \* bound on RSS configuration calls

NULL == "NULL"
Hwfns == 1..NumHwfns
Slots == 0..(TableSize - 1)

VARIABLES
    hw,         \* hw[h]: the RSS state of hardware function h's vport 0
    rssEnable,  \* qdev->rss_enable
    indTable,   \* qdev->rss_ind_table
    confHf,     \* qdev->rss_conf.rss_hf
    confKeyLen, \* qdev->rss_conf.rss_key_len
    keyBuf,     \* qdev->rss_conf.rss_key: whether set, its size, its key
    keyOverrun, \* a memcpy to or from keyBuf passed its allocation
    call,       \* the last call: its operation, argument, result and output
    rssOps

rssVars == <<hw, rssEnable, indTable, confHf, confKeyLen, keyBuf, keyOverrun,
             call, rssOps>>

\* A NULL rss_key.
NoKeyBuf == [ptr |-> FALSE, alloc |-> 0, key |-> NULL]

\* The random key qede_prandom_bytes fills def_rss_key with.
DefaultKey == "prandom"

\* The driver and firmware state the configuration calls change.
Cur == [hw |-> hw, enable |-> rssEnable, table |-> indTable, hf |-> confHf,
        keyLen |-> confKeyLen, keyBuf |-> keyBuf, overrun |-> keyOverrun]

(* qede_init_rss_caps: the ecore capability of each ETH_RSS type; the      *)
(* _EX variants share the plain IPv6 capabilities.                         *)
RssCapOf == [IPV4 |-> "IPV4", IPV6 |-> "IPV6", IPV6_EX |-> "IPV6",
             IPV4_TCP |-> "IPV4_TCP", IPV6_TCP |-> "IPV6_TCP",
             IPV6_TCP_EX |-> "IPV6_TCP", IPV4_UDP |-> "IPV4_UDP",
             IPV6_UDP |-> "IPV6_UDP"]

QedeInitRssCaps(hf) == {RssCapOf[t] : t \in hf}

(* ecore_sp_vport_update on the first n hardware functions of the          *)
(* for_each_hwfn loop, which returns at the first one that fails.          *)
VportUpdate(hws, n, p) ==
    [h \in Hwfns |->
        IF h > n THEN hws[h]
        ELSE [hws[h] EXCEPT !.enable = p.rss_enable,
                            !.caps  = IF p.update_caps THEN p.caps ELSE @,
                            !.key   = IF p.update_key THEN p.key ELSE @,
                            !.table = IF p.update_table THEN p.table ELSE @]]

\* How far the loop gets: every hardware function, or up to a failing one.
HwReach == IF RssHwMayFail THEN 0..NumHwfns ELSE {NumHwfns}

-----------------------------------------------------------------------------
(* qede_rss_hash_update on state s.  A user key longer than the firmware's *)
(* is refused before anything is sent.  After every hardware function took *)
(* the update, rss_enable, rss_hf and rss_key_len are written; then, when  *)
(* enabled, a NULL key buffer is malloc'ed with this call's length (memOK: *)
(* malloc succeeded) and a user key of non-zero length copied into it;     *)
(* when disabled with length 0, the buffer is freed.                       *)
QedeRssHashUpdate(s, conf, n, memOK) ==
    LET enable == conf.hf # {}
        p == [rss_enable |-> enable, update_caps |-> enable,
              caps |-> QedeInitRssCaps(conf.hf),
              update_key |-> enable /\ conf.key # NULL,
              key |-> <<conf.key, conf.len>>, update_table |-> FALSE]
        buf == IF ~s.keyBuf.ptr THEN [ptr |-> TRUE, alloc |-> conf.len, key |-> NULL]
               ELSE s.keyBuf
        copy == conf.key # NULL /\ conf.len > 0
        sent == [s EXCEPT !.hw = VportUpdate(s.hw, n, p)]
        local == [sent EXCEPT !.enable = enable, !.hf = conf.hf,
                              !.keyLen = conf.len]
    IN  CASE enable /\ conf.key # NULL /\ conf.len > KeySize ->
                 [rc |-> "EINVAL", s |-> s]
          [] n < NumHwfns ->
                 [rc |-> "EIO", s |-> sent]
          [] enable /\ ~s.keyBuf.ptr /\ ~memOK ->
                 [rc |-> "ENOMEM", s |-> local]
          [] enable ->
                 [rc |-> "OK",
                  s |-> [local EXCEPT
                           !.keyBuf = IF copy THEN [buf EXCEPT !.key = <<conf.key, conf.len>>]
                                      ELSE buf,
                           !.overrun = @ \/ (copy /\ conf.len > buf.alloc)]]
          [] OTHER ->
                 [rc |-> "OK",
                  s |-> [local EXCEPT !.keyBuf = IF conf.len = 0 THEN NoKeyBuf ELSE @]]

\* QedeRssRetaUpdate without line 1584: params.rss_enable stays 0.
QedeRssRetaUpdateNoEnable(s, req, n, cmtEnable) ==
    LET table == [i \in Slots |-> IF i < req.size /\ req.mask[i] THEN req.reta[i]
                                  ELSE 0]
        p == [rss_enable |-> FALSE, update_caps |-> FALSE, update_key |-> FALSE,
              update_table |-> TRUE, table |-> table]
        sent == [s EXCEPT !.hw = VportUpdate(s.hw, n, p)]
    IN  CASE req.size > TableSize -> [rc |-> "EINVAL", s |-> s]
          [] n < NumHwfns         -> [rc |-> "EIO", s |-> sent]
          [] OTHER                -> [rc |-> "OK", s |-> [sent EXCEPT !.table = table]]

(* qede_rss_reta_update on state s.  reta_size above 128 is refused.  The  *)
(* table sent is built in a zeroed params: a masked entry below reta_size  *)
(* takes the caller's queue, every other entry 0.  On a CMT device         *)
(* qed_update_rss_parm_cmt (ecore) rewrites the table per engine and sets  *)
(* rss_enable (cmtEnable).  The enable bit sent is rss_enable; the local   *)
(* copy is written once every hardware function took the table.           *)
QedeRssRetaUpdate(s, req, n, cmtEnable) ==
    LET table == [i \in Slots |-> IF i < req.size /\ req.mask[i] THEN req.reta[i]
                                  ELSE 0]
        enable == IF NumHwfns > 1 THEN cmtEnable ELSE s.enable
        p == [rss_enable |-> enable, update_caps |-> FALSE, update_key |-> FALSE,
              update_table |-> TRUE, table |-> table]
        sent == [s EXCEPT !.enable = enable, !.hw = VportUpdate(s.hw, n, p)]
    IN  CASE req.size > TableSize -> [rc |-> "EINVAL", s |-> s]
          [] n < NumHwfns         -> [rc |-> "EIO", s |-> sent]
          [] OTHER                -> [rc |-> "OK", s |-> [sent EXCEPT !.table = table]]

(* qede_config_rss: the application's rss_conf, with the driver's random   *)
(* key when it gives none; then the default RETA, entry i to queue         *)
(* i % QEDE_RSS_COUNT, every entry masked.                                 *)
DefaultReta == [mask |-> [i \in Slots |-> TRUE],
                reta |-> [i \in Slots |-> i % RssCount], size |-> TableSize]

QedeConfigRss(s, conf, n1, memOK, n2, cmtEnable) ==
    LET c  == IF conf.key = NULL THEN [conf EXCEPT !.key = DefaultKey, !.len = KeySize]
              ELSE conf
        r1 == QedeRssHashUpdate(s, c, n1, memOK)
        r2 == QedeRssRetaUpdate(r1.s, DefaultReta, n2, cmtEnable)
    IN  CASE r1.rc # "OK" -> [rc |-> "EINVAL", s |-> r1.s]
          [] r2.rc # "OK" -> [rc |-> "EINVAL", s |-> r2.s]
          [] OTHER     -> r2

-----------------------------------------------------------------------------
RssInit ==
    /\ hw = [h \in Hwfns |-> [enable |-> FALSE, caps |-> {}, key |-> <<NULL, 0>>,
                              table |-> [i \in Slots |-> 0]]]
    /\ rssEnable = FALSE
    /\ indTable = [i \in Slots |-> 0]
    /\ confHf = {}
    /\ confKeyLen = 0
    /\ keyBuf = NoKeyBuf
    /\ keyOverrun = FALSE
    /\ call = [op |-> "none"]
    /\ rssOps = 0

\* Write the state a configuration call left.
SetState(t) ==
    /\ hw' = t.hw
    /\ rssEnable' = t.enable
    /\ indTable' = t.table
    /\ confHf' = t.hf
    /\ confKeyLen' = t.keyLen
    /\ keyBuf' = t.keyBuf
    /\ keyOverrun' = t.overrun

RssConfs == [hf : HashTypes, key : Keys \cup {NULL}, len : KeyLens]
RetaReqs == [mask : [Slots -> BOOLEAN], reta : [Slots -> Entries], size : RetaSizes]
MemOutcomes == IF RssHwMayFail THEN BOOLEAN ELSE {TRUE}
CmtOutcomes == IF NumHwfns > 1 THEN BOOLEAN ELSE {FALSE}

\* The PMD's dev_start configures RSS from dev_conf.
ConfigRss(conf, n1, memOK, n2, cmt) ==
    LET r == QedeConfigRss(Cur, conf, n1, memOK, n2, cmt)
    IN  /\ SetState(r.s)
        /\ call' = [op |-> "config", arg |-> conf, rc |-> r.rc]

RssHashUpdate(conf, n, memOK) ==
    LET r == QedeRssHashUpdate(Cur, conf, n, memOK)
    IN  /\ SetState(r.s)
        /\ call' = [op |-> "hash_update", arg |-> conf, rc |-> r.rc]

RssRetaUpdate(req, n, cmt) ==
    LET r == QedeRssRetaUpdate(Cur, req, n, cmt)
    IN  /\ SetState(r.s)
        /\ call' = [op |-> "reta_update", arg |-> req, rc |-> r.rc]

(* qede_rss_hash_conf_get: rss_hf and rss_key_len from the local copy,     *)
(* and rss_key_len octets of the key buffer when both the caller's and the *)
(* driver's buffers exist.                                                 *)
RssHashConfGet(callerBuf) ==
    LET copy == callerBuf /\ keyBuf.ptr
    IN  /\ call' = [op |-> "hash_conf_get", arg |-> callerBuf, rc |-> "OK",
                    out |-> [hf |-> confHf, len |-> confKeyLen,
                             key |-> IF copy THEN keyBuf.key ELSE NULL]]
        /\ keyOverrun' = (keyOverrun \/ (copy /\ confKeyLen > keyBuf.alloc))
        /\ UNCHANGED <<hw, rssEnable, indTable, confHf, confKeyLen, keyBuf>>

(* qede_rss_reta_query: reta_size above 128 is refused; every masked entry *)
(* below reta_size is read from the local copy.                            *)
RssRetaQuery(mask, size) ==
    /\ call' = IF size > TableSize
               THEN [op |-> "reta_query", arg |-> size, rc |-> "EINVAL"]
               ELSE [op |-> "reta_query", arg |-> size, rc |-> "OK",
                     out |-> [i \in {j \in Slots : j < size /\ mask[j]} |-> indTable[i]]]
    /\ UNCHANGED <<hw, rssEnable, indTable, confHf, confKeyLen, keyBuf, keyOverrun>>

RssNext ==
    /\ rssOps < MaxRssOps
    /\ rssOps' = rssOps + 1
    /\ \/ \E c \in RssConfs, n1, n2 \in HwReach, m \in MemOutcomes, e \in CmtOutcomes :
             ConfigRss(c, n1, m, n2, e)
       \/ \E c \in RssConfs, n \in HwReach, m \in MemOutcomes : RssHashUpdate(c, n, m)
       \/ \E r \in RetaReqs, n \in HwReach, e \in CmtOutcomes : RssRetaUpdate(r, n, e)
       \/ \E b \in BOOLEAN : RssHashConfGet(b)
       \/ \E mask \in [Slots -> BOOLEAN], size \in RetaSizes : RssRetaQuery(mask, size)

RssSpec == RssInit /\ [][RssNext]_rssVars

-----------------------------------------------------------------------------
(* On a single-engine device (NumHwfns = 1) what the NIC steers by is     *)
(* what the driver reports: after any sequence of hash updates, RETA      *)
(* updates and qede_config_rss calls, some failing in the firmware or in  *)
(* malloc, the hardware function has the enable bit and the RETA of the   *)
(* local copy, and while RSS is enabled the hash capabilities of rss_hf.  *)
(* qede_rss_reta_update resends rss_enable with every table.  On a CMT    *)
(* device a failure on the second engine leaves the first updated and the *)
(* local copy not (MC_QedeRss_Cmt.cfg finds this).                        *)
RssShadowMatchesHw ==
    \A h \in Hwfns :
        /\ hw[h].enable = rssEnable
        /\ hw[h].table = indTable
        /\ rssEnable => hw[h].caps = QedeInitRssCaps(confHf)

(* A RETA update changes only the entries its mask selects, as the         *)
(* rte_eth_rss_reta_entry64 mask is documented to do; qede_rss_reta_update *)
(* sends 0 for every other entry.                                          *)
RetaUnmaskedKept ==
    [][call'.op = "reta_update" /\ call'.rc = "OK" =>
         \A i \in Slots : ~(i < call'.arg.size /\ call'.arg.mask[i]) =>
                             indTable'[i] = indTable[i]]_rssVars

(* Every memcpy into or out of qdev->rss_conf.rss_key stays within the     *)
(* malloc'ed buffer; the buffer is sized by the first enabling update's    *)
(* key length and never grown.                                             *)
RssKeyWithinAllocation == ~keyOverrun

=============================================================================
