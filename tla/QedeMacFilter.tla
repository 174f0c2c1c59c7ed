---------------------------- MODULE QedeMacFilter ----------------------------
(***************************************************************************)
(* The MAC, VLAN and VXLAN tunnel filters of the qede PMD                  *)
(* (src/dpdk-17.02/drivers/net/qede/qede_ethdev.c).  The driver keeps a    *)
(* shadow of the filters it installed: uc_list_head with num_uc_addr for   *)
(* unicast, mc_list_head with num_mc_addr for multicast, and counts its    *)
(* VXLAN filters in num_tunn_filters; VLAN filters are listed in           *)
(* vlan_list_head and counted in configured_vlans, and the vport's         *)
(* accept-any-VLAN mode is mirrored in accept_any_vlan.  The firmware's    *)
(* filter tables (ecore, not in this tree) are modelled by what a command  *)
(* does to them:                                                           *)
(* a unicast command adds or removes one typed filter, a multicast command *)
(* replaces the multicast set by the shadow list it is given.  The         *)
(* ethdev library's table of configured addresses (data->mac_addrs) is the *)
(* environment: it calls mac_addr_add for an address it does not hold yet  *)
(* and mac_addr_remove for one it holds.                                   *)
(***************************************************************************)
EXTENDS Naturals, Sequences, SequencesExt, FiniteSets

CONSTANTS
    UMacs,        \* unicast addresses the application configures
    MMacs,        \* multicast addresses
    ZeroMac,      \* the all-zero address of VNI and inner-VLAN filters
    Vlans,        \* inner VLAN ids of tunnel filters (contains 0)
    Vnis,         \* tenant ids of tunnel filters (contains 0)
    NumMacAddrs,  \* qdev->dev_info.num_mac_addrs
    MaxMcAddrs,   \* ECORE_MAX_MC_ADDRS
    HwMayFail,    \* whether a firmware filter command may fail
    TunnRequests, \* the rte filter-type bit sets tunnel requests carry
    VlanIds,      \* VLAN ids the application filters on (contains 0)
    NumVlanFilters, \* qdev->dev_info.num_vlan_filters
    MaxOps        \* bound on configuration calls

TunnBits == 16    \* uint16_t num_tunn_filters

ShadowKey(e) == [mac |-> e.mac, vlan |-> e.vlan, vni |-> e.vni]

(* qede_tunn_types: the rte filter-type bits a classification is made of,  *)
(* mapped to the ecore filter type; a combination not listed, or listed    *)
(* with MAX_ECORE_TUNN_CLSS, is refused.                                   *)
TunnTypes ==
    ({"OMAC"} :> "MAC") @@ ({"TENID"} :> "VNI") @@ ({"IMAC"} :> "INNER_MAC")
    @@ ({"IVLAN"} :> "INNER_VLAN") @@ ({"OMAC", "TENID"} :> "MAC_VNI_PAIR")
    @@ ({"TENID", "IMAC"} :> "INNER_MAC_VNI_PAIR")
    @@ ({"IMAC", "IVLAN"} :> "INNER_PAIR")

(* qede_set_ucast_tunn_cmn_param: the fields of the filter that each type  *)
(* takes from the request; the others keep the zeroes of the memset.       *)
TunnFilter(type, conf) ==
    [type |-> type,
     mac  |-> IF type \in {"VNI", "INNER_VLAN"} THEN ZeroMac ELSE conf.mac,
     vlan |-> IF type \in {"INNER_VLAN", "INNER_PAIR"} THEN conf.vlan ELSE 0,
     vni  |-> IF type \in {"VNI", "MAC_VNI_PAIR", "INNER_MAC_VNI_PAIR"}
              THEN conf.vni ELSE 0]

MacFilter(m) == [type |-> "MAC", mac |-> m, vlan |-> 0, vni |-> 0]

VARIABLES
    ucList,     \* qdev->uc_list_head, head first
    numUc,      \* qdev->num_uc_addr
    mcList,     \* qdev->mc_list_head, head first
    numMc,      \* qdev->num_mc_addr
    hwUc,       \* the firmware's unicast filters
    hwMc,       \* the firmware's multicast filter set
    rteMacs,    \* data->mac_addrs[1..]: the addresses ethdev holds as added
    numTunn,    \* qdev->num_tunn_filters
    vxlanType,  \* qdev->vxlan_filter_type, as a set of rte filter bits
    vxlanOn,    \* VXLAN tunnel mode as set by ecore_sp_pf_update_tunn_cfg
    tunnKeys,   \* ghost: shadow keys of the tunnel filters in place
    vlanList,   \* the vids of qdev->vlan_list_head
    configuredVlans, \* qdev->configured_vlans
    hwVlans,    \* the firmware's VLAN filters
    acceptAnyVlan,   \* qdev->accept_any_vlan, and the vport's mode
    appVlans,   \* ghost: VLANs whose filter_set on returned 0, not since removed
    ops

fvars == <<ucList, numUc, mcList, numMc, hwUc, hwMc>>
vlanVars == <<vlanList, configuredVlans, hwVlans, acceptAnyVlan, appVlans>>
vars == <<ucList, numUc, mcList, numMc, hwUc, hwMc, rteMacs, numTunn,
          vxlanType, vxlanOn, tunnKeys, vlanVars, ops>>

FilterState == [uc |-> ucList, nuc |-> numUc, mc |-> mcList, nmc |-> numMc,
                hwUc |-> hwUc, hwMc |-> hwMc]

ApplyFilters(st) ==
    /\ ucList' = st.uc
    /\ numUc' = st.nuc
    /\ mcList' = st.mc
    /\ numMc' = st.nmc
    /\ hwUc' = st.hwUc
    /\ hwMc' = st.hwMc

-----------------------------------------------------------------------------
\* Mutant: the add path does not look for the address already in the list.
QedeUcastFilterNoDupCheck(st, e, add) ==
    IF add
    THEN [st |-> [st EXCEPT !.uc = Cons(ShadowKey(e), @), !.nuc = @ + 1],
          rc |-> "ok"]
    ELSE LET i == SelectInSeq(st.uc, LAMBDA x : x = ShadowKey(e)) IN
         IF i = 0 THEN [st |-> st, rc |-> "EINVAL"]
         ELSE [st |-> [st EXCEPT !.uc = RemoveAt(@, i), !.nuc = @ - 1],
               rc |-> "ok"]

\* Mutant: the remove path counts an entry down whether or not it found one.
QedeUcastFilterBlindRemove(st, e, add) ==
    IF add
    THEN IF \E i \in 1..Len(st.uc) : st.uc[i].mac = e.mac /\ st.uc[i].vlan = e.vlan
         THEN [st |-> st, rc |-> "EEXIST"]
         ELSE [st |-> [st EXCEPT !.uc = Cons(ShadowKey(e), @), !.nuc = @ + 1],
               rc |-> "ok"]
    ELSE LET i == SelectInSeq(st.uc, LAMBDA x : x = ShadowKey(e)) IN
         [st |-> [st EXCEPT !.uc = IF i = 0 THEN @ ELSE RemoveAt(@, i),
                            !.nuc = @ - 1],
          rc |-> IF i = 0 THEN "EINVAL" ELSE "ok"]

(* qede_ucast_filter: an add is refused when an entry has the same MAC and *)
(* VLAN, else the entry goes on the head of the list; a remove unlinks the *)
(* first entry with the same MAC, VLAN and VNI.  The filter type is not    *)
(* part of the entry.                                                      *)
QedeUcastFilter(st, e, add) ==
    IF add
    THEN IF \E i \in 1..Len(st.uc) : st.uc[i].mac = e.mac /\ st.uc[i].vlan = e.vlan
         THEN [st |-> st, rc |-> "EEXIST"]
         ELSE [st |-> [st EXCEPT !.uc = Cons(ShadowKey(e), @), !.nuc = @ + 1],
               rc |-> "ok"]
    ELSE LET i == SelectInSeq(st.uc, LAMBDA x : x = ShadowKey(e)) IN
         IF i = 0 THEN [st |-> st, rc |-> "EINVAL"]
         ELSE [st |-> [st EXCEPT !.uc = RemoveAt(@, i), !.nuc = @ - 1],
               rc |-> "ok"]

(* qede_mcast_filter: the same for multicast addresses.                    *)
QedeMcastFilter(st, m, add) ==
    IF add
    THEN IF m \in ToSet(st.mc) THEN [st |-> st, rc |-> "EEXIST"]
         ELSE [st |-> [st EXCEPT !.mc = Cons(m, @), !.nmc = @ + 1], rc |-> "ok"]
    ELSE LET i == SelectInSeq(st.mc, LAMBDA x : x = m) IN
         IF i = 0 THEN [st |-> st, rc |-> "EINVAL"]
         ELSE [st |-> [st EXCEPT !.mc = RemoveAt(@, i), !.nmc = @ - 1],
               rc |-> "ok"]

(* ecore_filter_ucast_cmd with ADD or REMOVE of one typed filter.          *)
UcastCmd(st, e, add, hwOK) ==
    IF ~hwOK THEN [st |-> st, rc |-> "HWFAIL"]
    ELSE [st |-> [st EXCEPT !.hwUc = IF add THEN @ \cup {e} ELSE @ \ {e}],
          rc |-> "ok"]

(* ecore_filter_mcast_cmd with ADD and the whole shadow list.              *)
McastCmd(st, hwOK) ==
    IF ~hwOK THEN [st |-> st, rc |-> "HWFAIL"]
    ELSE [st |-> [st EXCEPT !.hwMc = ToSet(st.mc)], rc |-> "ok"]

\* The multicast limit test of qede_mac_int_ops.
McastLimitReached(n) == n >= MaxMcAddrs

(* qede_mac_int_ops: a multicast address goes to the multicast list, under *)
(* the ECORE_MAX_MC_ADDRS limit when added, and the whole list is then     *)
(* sent; a unicast one goes to the unicast list, under num_mac_addrs when  *)
(* added, and then to the firmware.  A failed firmware command leaves the  *)
(* list changed.                                                           *)
QedeMacIntOps(st, e, add, hwOK) ==
    IF e.mac \in MMacs
    THEN IF add /\ McastLimitReached(st.nmc) THEN [st |-> st, rc |-> "EINVAL"]
         ELSE LET r == QedeMcastFilter(st, e.mac, add)
              IN  IF r.rc = "ok" THEN McastCmd(r.st, hwOK) ELSE r
    ELSE IF add /\ st.nuc >= NumMacAddrs THEN [st |-> st, rc |-> "EINVAL"]
         ELSE LET r == QedeUcastFilter(st, e, add)
              IN  IF r.rc = "ok" THEN UcastCmd(r.st, e, add, hwOK) ELSE r

HwOutcomes == IF HwMayFail THEN BOOLEAN ELSE {TRUE}

Init ==
    /\ ucList = <<>>
    /\ numUc = 0
    /\ mcList = <<>>
    /\ numMc = 0
    /\ hwUc = {}
    /\ hwMc = {}
    /\ rteMacs = {}
    /\ numTunn = 0
    /\ vxlanType = {}
    /\ vxlanOn = FALSE
    /\ tunnKeys = {}
    /\ vlanList = {}
    /\ configuredVlans = 0
    /\ hwVlans = {}
    /\ acceptAnyVlan = FALSE
    /\ appVlans = {}
    /\ ops = 0

(* rte_eth_dev_mac_addr_add with a free slot calls qede_mac_addr_add,      *)
(* which ignores the result of qede_mac_int_ops; ethdev records the        *)
(* address either way.                                                     *)
QedeMacAddrAdd(m, hwOK) ==
    /\ ops < MaxOps
    /\ m \notin rteMacs
    /\ Cardinality(rteMacs) < NumMacAddrs - 1
    /\ ApplyFilters(QedeMacIntOps(FilterState, MacFilter(m), TRUE, hwOK).st)
    /\ rteMacs' = rteMacs \cup {m}
    /\ ops' = ops + 1
    /\ UNCHANGED <<numTunn, vxlanType, vxlanOn, tunnKeys, vlanVars>>

(* rte_eth_dev_mac_addr_remove calls qede_mac_addr_remove, which sends a   *)
(* unicast REMOVE of the address in the slot straight to the firmware and  *)
(* leaves the shadow list alone; ethdev then clears the slot.              *)
QedeMacAddrRemove(m, hwOK) ==
    /\ ops < MaxOps
    /\ m \in rteMacs
    /\ ApplyFilters(UcastCmd(FilterState, MacFilter(m), FALSE, hwOK).st)
    /\ rteMacs' = rteMacs \ {m}
    /\ ops' = ops + 1
    /\ UNCHANGED <<numTunn, vxlanType, vxlanOn, tunnKeys, vlanVars>>

(* qede_mac_addr_set on a PF: qede_mac_addr_add of the new primary         *)
(* address; the old primary's filter stays.                                *)
QedeMacAddrSet(m, hwOK) ==
    /\ ops < MaxOps
    /\ ApplyFilters(QedeMacIntOps(FilterState, MacFilter(m), TRUE, hwOK).st)
    /\ ops' = ops + 1
    /\ UNCHANGED <<rteMacs, numTunn, vxlanType, vxlanOn, tunnKeys, vlanVars>>

(* qede_vxlan_tunn_config: the request's type bits are or-ed with the      *)
(* previous ones and classified; a filter with the TENID bit goes to       *)
(* qede_ucast_filter and the firmware directly, any other through          *)
(* qede_mac_int_ops.  On success an add counts the filter and turns VXLAN  *)
(* on; a delete uncounts it and turns VXLAN off when the count is 0.       *)
(* qede_config_accept_any_vlan: a vport update when the mode changes; the  *)
(* driver's flag follows only when the update succeeds.                    *)
ConfigAcceptAnyVlan(action, hwOK) ==
    acceptAnyVlan' = IF acceptAnyVlan # action /\ hwOK THEN action
                     ELSE acceptAnyVlan

(* Plausible bug, used as a mutant: configured_vlans counted before the    *)
(* firmware command, so a failed add is counted too.                       *)
VlanAddCmdCountAlways(v, hwOK) ==
    /\ configuredVlans' = configuredVlans + 1
    /\ IF hwOK
       THEN /\ vlanList' = vlanList \cup {v}
            /\ hwVlans' = hwVlans \cup {v}
            /\ appVlans' = appVlans \cup {v}
       ELSE UNCHANGED <<vlanList, hwVlans, appVlans>>

(* The ECORE_FILTER_ADD of a VLAN: on success the entry goes on the list   *)
(* and is counted; on failure (or no memory for the entry) nothing         *)
(* changes.                                                                *)
VlanAddCmd(v, hwOK) ==
    IF hwOK
    THEN /\ vlanList' = vlanList \cup {v}
         /\ hwVlans' = hwVlans \cup {v}
         /\ configuredVlans' = configuredVlans + 1
         /\ appVlans' = appVlans \cup {v}
    ELSE UNCHANGED <<vlanList, hwVlans, configuredVlans, appVlans>>

(* The ECORE_FILTER_REMOVE of a listed VLAN: the entry leaves the list     *)
(* before the command; only a successful command uncounts it.              *)
VlanRemoveCmd(v, hwOK) ==
    /\ vlanList' = vlanList \ {v}
    /\ IF hwOK
       THEN /\ hwVlans' = hwVlans \ {v}
            /\ configuredVlans' = configuredVlans - 1
            /\ appVlans' = appVlans \ {v}
       ELSE UNCHANGED <<hwVlans, configuredVlans, appVlans>>

(* qede_vlan_filter_set(vlan_id, on).  Adding at the limit of              *)
(* num_vlan_filters turns accept-any-VLAN on instead and returns 0; adding *)
(* a listed VLAN is -EEXIST.  Removing an unlisted VLAN returns 0 when     *)
(* configured_vlans is 0 and -EINVAL otherwise.                            *)
VlanFilterSet(v, on, hwOK) ==
    IF on
    THEN IF configuredVlans = NumVlanFilters
         THEN /\ ConfigAcceptAnyVlan(TRUE, hwOK)
              /\ appVlans' = appVlans \cup {v}
              /\ UNCHANGED <<vlanList, configuredVlans, hwVlans>>
         ELSE IF v \in vlanList
         THEN UNCHANGED <<vlanList, configuredVlans, hwVlans, acceptAnyVlan,
                          appVlans>>
         ELSE VlanAddCmd(v, hwOK) /\ UNCHANGED acceptAnyVlan
    ELSE IF v \notin vlanList
         THEN /\ appVlans' = IF configuredVlans = 0 THEN appVlans \ {v}
                             ELSE appVlans
              /\ UNCHANGED <<vlanList, configuredVlans, hwVlans, acceptAnyVlan>>
         ELSE VlanRemoveCmd(v, hwOK) /\ UNCHANGED acceptAnyVlan

(* rte_eth_dev_vlan_filter: the ethdev call of qede_vlan_filter_set.       *)
QedeVlanFilterSet(v, on, hwOK) ==
    /\ ops < MaxOps
    /\ ops' = ops + 1
    /\ VlanFilterSet(v, on, hwOK)
    /\ UNCHANGED <<fvars, rteMacs, numTunn, vxlanType, vxlanOn, tunnKeys>>

(* qede_vlan_offload_set with ETH_VLAN_FILTER_MASK after the application   *)
(* set rxmode.hw_vlan_filter: filtering on adds VLAN 0; off removes it,    *)
(* and is refused while configured_vlans > 1.                              *)
QedeVlanOffloadSet(filter, hwOK) ==
    /\ ops < MaxOps
    /\ ops' = ops + 1
    /\ IF filter
       THEN VlanFilterSet(0, TRUE, hwOK)
       ELSE IF configuredVlans > 1
       THEN UNCHANGED vlanVars
       ELSE VlanFilterSet(0, FALSE, hwOK)
    /\ UNCHANGED <<fvars, rteMacs, numTunn, vxlanType, vxlanOn, tunnKeys>>

QedeVxlanTunnConfig(conf, add, hwOK, anyOK) ==
    LET ft == conf.flags \cup vxlanType
        e  == TunnFilter(TunnTypes[ft], conf)
        r  == IF "TENID" \in ft
              THEN LET u == QedeUcastFilter(FilterState, e, add)
                   IN  IF u.rc = "ok" THEN UcastCmd(u.st, e, add, hwOK) ELSE u
              ELSE QedeMacIntOps(FilterState, e, add, hwOK)
        cnt == IF add THEN (numTunn + 1) % 2^TunnBits
                      ELSE (numTunn + 2^TunnBits - 1) % 2^TunnBits
    IN
    /\ ops < MaxOps
    /\ ops' = ops + 1
    /\ ft \in DOMAIN TunnTypes
    /\ ApplyFilters(r.st)
    /\ IF r.rc # "ok"
       THEN UNCHANGED <<numTunn, vxlanType, vxlanOn, tunnKeys, acceptAnyVlan>>
       ELSE /\ vxlanType' = ft
            /\ numTunn' = cnt
            /\ vxlanOn' = (add \/ (vxlanOn /\ cnt # 0))
            /\ tunnKeys' = IF add THEN tunnKeys \cup {ShadowKey(e)}
                                  ELSE tunnKeys \ {ShadowKey(e)}
            /\ IF add /\ "TENID" \notin ft
               THEN ConfigAcceptAnyVlan(TRUE, anyOK)
               ELSE UNCHANGED acceptAnyVlan
    /\ UNCHANGED <<rteMacs, vlanList, configuredVlans, hwVlans, appVlans>>

(* A request whose or-ed type bits are not classified is refused with      *)
(* -EINVAL before anything changes.                                        *)
QedeVxlanTunnRefused(conf) ==
    /\ ops < MaxOps
    /\ ops' = ops + 1
    /\ conf.flags \cup vxlanType \notin DOMAIN TunnTypes
    /\ UNCHANGED <<fvars, rteMacs, numTunn, vxlanType, vxlanOn, tunnKeys,
                   vlanVars>>

Confs == [flags : TunnRequests, mac : UMacs \cup MMacs, vlan : Vlans, vni : Vnis]

Next ==
    \/ \E m \in UMacs \cup MMacs, ok \in HwOutcomes :
          \/ QedeMacAddrAdd(m, ok)
          \/ QedeMacAddrRemove(m, ok)
          \/ QedeMacAddrSet(m, ok)
    \/ \E c \in Confs, add \in BOOLEAN, ok, anyOK \in HwOutcomes :
          QedeVxlanTunnConfig(c, add, ok, anyOK)
    \/ \E v \in VlanIds, on \in BOOLEAN, ok \in HwOutcomes :
          QedeVlanFilterSet(v, on, ok)
    \/ \E filter \in BOOLEAN, ok \in HwOutcomes : QedeVlanOffloadSet(filter, ok)
    \/ \E c \in Confs : QedeVxlanTunnRefused(c)

Spec == Init /\ [][Next]_vars

-----------------------------------------------------------------------------
TypeOK ==
    /\ ucList \in Seq([mac : UMacs \cup MMacs \cup {ZeroMac}, vlan : Vlans,
                       vni : Vnis])
    /\ mcList \in Seq(MMacs)
    /\ {numUc, numMc} \subseteq Nat
    /\ rteMacs \subseteq UMacs \cup MMacs
    /\ numTunn \in 0..(2^TunnBits - 1)
    /\ vxlanOn \in BOOLEAN
    /\ {vlanList, hwVlans, appVlans} \subseteq SUBSET VlanIds
    /\ configuredVlans \in Nat
    /\ acceptAnyVlan \in BOOLEAN
    /\ ops \in 0..MaxOps

(* The shadow lists agree with their counters and hold no two entries the  *)
(* add path would call the same: num_uc_addr and num_mc_addr are the list  *)
(* lengths after any sequence of adds, removes and tunnel requests, failed *)
(* ones included.                                                          *)
ShadowListsConsistent ==
    /\ numUc = Len(ucList)
    /\ numMc = Len(mcList)
    /\ \A i, j \in 1..Len(ucList) :
          (i # j) => (ucList[i].mac # ucList[j].mac \/ ucList[i].vlan # ucList[j].vlan)
    /\ Len(mcList) = Cardinality(ToSet(mcList))

(* The unicast shadow list never holds more filters than the device has   *)
(* MAC slots (dev_info.num_mac_addrs), whichever path added them:          *)
(* mac_addr_add, mac_addr_set, or a tunnel filter with the TENID bit,     *)
(* which qede_vxlan_tunn_config sends to qede_ucast_filter directly.      *)
UcastTableBounded == numUc <= NumMacAddrs

(* Every address ethdev holds as added is filtered by the firmware: after *)
(* mac_addr_remove and a new mac_addr_add of the same address, the        *)
(* address is received again.                                              *)
RteMacsFiltered ==
    \A m \in rteMacs :
        IF m \in MMacs THEN m \in hwMc ELSE MacFilter(m) \in hwUc

(* VXLAN tunnelling is on exactly while a tunnel filter is in place: the  *)
(* delete of the last one turns it off, and num_tunn_filters counts them. *)
VxlanOnIffTunnelFilter ==
    /\ vxlanOn <=> tunnKeys # {}
    /\ numTunn = Cardinality(tunnKeys)

(* configured_vlans counts the VLAN filters in the firmware, and every     *)
(* listed VLAN has one, after any sequence of adds, removes, the add at    *)
(* the limit and filter offload changes, with firmware commands failing.   *)
VlanFiltersTracked ==
    /\ vlanList \subseteq hwVlans
    /\ configuredVlans = Cardinality(hwVlans)

(* Every VLAN filter in the firmware is on vlan_list_head, so the          *)
(* application can remove it.  A failed ECORE_FILTER_REMOVE takes the      *)
(* entry off the list but leaves the filter, and configured_vlans stays    *)
(* up: that VLAN cannot be removed again (-EINVAL), and filtering cannot   *)
(* be turned off while the count is above 1.                               *)
HwVlansListed == hwVlans \subseteq vlanList

(* A VLAN for which qede_vlan_filter_set(on) returned 0 is received, by a  *)
(* filter or by accept-any-VLAN, until a remove of it returns 0.  At the   *)
(* limit the driver returns 0 even when the vport update that turns        *)
(* accept-any-VLAN on fails.                                               *)
AcceptedVlansReceived ==
    \A v \in appVlans : v \in hwVlans \/ acceptAnyVlan

=============================================================================
