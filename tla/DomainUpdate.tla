---------------------------- MODULE DomainUpdate ----------------------------
(***************************************************************************)
(* Replication fan-out of authoritative records (src/src/domain_update.c). *)
(*                                                                         *)
(* Actors and the state each one owns:                                     *)
(*   - the web (admin API) thread: domaindata_parse builds a mutation and  *)
(*     send_domain_msg_to_master puts it on the master core's ring;        *)
(*   - the master core: doman_msg_master_process dequeues one mutation at  *)
(*     a time, drops it when g_domain_num is over the threshold, otherwise *)
(*     clones it onto every slave core's ring and applies a clone to the   *)
(*     TCP listener's table; only then does it store the original in the   *)
(*     admin hash table g_domian_hash_list under the write lock, so the    *)
(*     slaves may apply a mutation the admin table does not hold yet;      *)
(*   - each slave core: doman_msg_slave_process drains its own ring into   *)
(*     its private table dpdk_dns[cid].db.                                 *)
(* A record is abstracted to its match key (domain, zone, host); the zone  *)
(* is fixed, so a key is a pair of a domain and a host.  The admin table   *)
(* keeps its chains (a sequence per bucket, new nodes at the head) because *)
(* the code's listing and counting walk them.                              *)
(***************************************************************************)
EXTENDS Integers, Sequences, SequencesExt, FiniteSets, Bitwise

CONSTANTS
    Slaves,        \* the slave lcores that own a msg ring
    Domains,       \* domain names used in mutations
    Hosts,         \* host values used in mutations
    DomHash,       \* elfHash of each domain name: [Domains -> Nat]
    HashMask,      \* DOMAIN_HASH_SIZE, a mask 2^n - 1
    RingCap,       \* usable slots of one rte_ring (MSG_RING_SIZE - 1)
    Threshold,     \* EXTRA_DOMAIN_NUMBERS - 100
    MaxRequests    \* bound on the admin API calls of one behaviour

ASSUME /\ HashMask + 1 \in {2^n : n \in 0..8}
       /\ RingCap \in Nat \ {0}
       /\ Threshold \in Nat /\ MaxRequests \in Nat

VARIABLES
    masterRing,    \* domian_msg_ring[cid_master]
    slaveRing,     \* domian_msg_ring[s] for every slave s
    adminChains,   \* g_domian_hash_list: bucket -> chain of keys, head first
    domainNum,     \* g_domain_num
    tcpDb,         \* kdns_tcp.db, the TCP listener's table
    slaveDb,       \* dpdk_dns[s].db for every slave s
    requests,      \* admin API calls made so far (bounded by MaxRequests)
    lost,          \* ghost: slave s missed a clone because its ring was full
    getResult,     \* keys in the body of the last GET /kdns/domain
    inFlight       \* the master's msg between its dispatch and domain_info_store:
                   \* <<>> or <<m>>

vars == <<masterRing, slaveRing, adminChains, domainNum, tcpDb, slaveDb,
          requests, lost, getResult, inFlight>>

Key == Domains \X Hosts
Actions == {"add", "del"}
Msg == [action : Actions, key : Key]
Buckets == 0..HashMask

\* hashId = hashValue & DOMAIN_HASH_SIZE
BucketOf(k) == DomHash[k[1]] & HashMask

\* The keys stored in the admin table, over all of its chains.
AdminKeys == UNION {ToSet(adminChains[b]) : b \in Buckets}

\* The admin chains as one count of nodes, what g_domain_num should track.
ChainNodes == FoldFunction(LAMBDA c, n : Len(c) + n, 0, adminChains)

-----------------------------------------------------------------------------
(* The record-store update of a per-core table (domaindata_update, which   *)
(* is not under src/): Add inserts the key unless an entry with the same   *)
(* key is there, Delete removes a matching entry and is otherwise a no-op. *)
DbUpdate(db, m) ==
    IF m.action = "add" THEN db \cup {m.key} ELSE db \ {m.key}

\* Apply the mutations of a ring, oldest first, to a table.
DbReplay(db, ring) == FoldLeft(DbUpdate, db, ring)

(* Plausible bugs of domain_list_ops, used as mutants: the Delete branch  *)
(* without its "find != NULL" test, and the Add branch without the scan.   *)
DomainListOpsUncheckedDel(m) ==
    LET b     == BucketOf(m.key)
        chain == adminChains[b]
        find  == SelectInSeq(chain, LAMBDA x : x = m.key)
    IN  IF m.action = "add"
        THEN IF find = 0
             THEN /\ adminChains' = [adminChains EXCEPT ![b] = <<m.key>> \o chain]
                  /\ domainNum' = domainNum + 1
             ELSE UNCHANGED <<adminChains, domainNum>>
        ELSE /\ adminChains' = [adminChains EXCEPT ![b] =
                                   IF find # 0 THEN RemoveAt(chain, find) ELSE chain]
             /\ domainNum' = domainNum - 1

DomainListOpsNoScan(m) ==
    LET b     == BucketOf(m.key)
        chain == adminChains[b]
        find  == SelectInSeq(chain, LAMBDA x : x = m.key)
    IN  IF m.action = "add"
        THEN /\ adminChains' = [adminChains EXCEPT ![b] = <<m.key>> \o chain]
             /\ domainNum' = domainNum + 1
        ELSE IF find # 0
             THEN /\ adminChains' = [adminChains EXCEPT ![b] = RemoveAt(chain, find)]
                  /\ domainNum' = domainNum - 1
             ELSE UNCHANGED <<adminChains, domainNum>>

(* domain_list_ops: scan the bucket's chain for the key; an Add of a new   *)
(* key goes to the head of the chain and counts, an Add of a present key   *)
(* is freed; a Delete unlinks the first match and uncounts, and is freed.  *)
DomainListOps(m) ==
    LET b     == BucketOf(m.key)
        chain == adminChains[b]
        find  == SelectInSeq(chain, LAMBDA x : x = m.key)
    IN  IF m.action = "add"
        THEN IF find = 0
             THEN /\ adminChains' = [adminChains EXCEPT ![b] = <<m.key>> \o chain]
                  /\ domainNum' = domainNum + 1
             ELSE UNCHANGED <<adminChains, domainNum>>
        ELSE IF find # 0
             THEN /\ adminChains' = [adminChains EXCEPT ![b] = RemoveAt(chain, find)]
                  /\ domainNum' = domainNum - 1
             ELSE UNCHANGED <<adminChains, domainNum>>

-----------------------------------------------------------------------------
Init ==
    /\ masterRing = <<>>
    /\ slaveRing = [s \in Slaves |-> <<>>]
    /\ adminChains = [b \in Buckets |-> <<>>]
    /\ domainNum = 0
    /\ tcpDb = {}
    /\ slaveDb = [s \in Slaves |-> {}]
    /\ requests = 0
    /\ lost = [s \in Slaves |-> FALSE]
    /\ getResult = {}
    /\ inFlight = <<>>

(* POST or DELETE /kdns/domain with a well-formed body: domaindata_parse   *)
(* builds the mutation and send_domain_msg_to_master enqueues it; on       *)
(* -ENOBUFS the mutation is freed and the client still gets "OK".  A body  *)
(* that does not parse changes no state and is left out.                   *)
DomainDataParse(a, k) ==
    /\ requests < MaxRequests
    /\ requests' = requests + 1
    /\ IF Len(masterRing) < RingCap
       THEN masterRing' = Append(masterRing, [action |-> a, key |-> k])
       ELSE UNCHANGED masterRing
    /\ UNCHANGED <<slaveRing, adminChains, domainNum, tcpDb, slaveDb, lost,
                   getResult, inFlight>>

(* One iteration of doman_msg_master_process when g_domain_num is over the *)
(* threshold: the mutation, Add or Delete alike, is logged and freed.      *)
MasterDropOverThreshold ==
    /\ inFlight = <<>>
    /\ masterRing # <<>>
    /\ domainNum > Threshold
    /\ masterRing' = Tail(masterRing)
    /\ UNCHANGED <<slaveRing, adminChains, domainNum, tcpDb, slaveDb,
                   requests, lost, getResult, inFlight>>

(* Plausible bug of the dispatch loop, used as a mutant: a wrong skip test *)
(* that leaves one slave core out without logging a drop.                  *)
MasterDispatchSkipOne ==
    /\ inFlight = <<>>
    /\ masterRing # <<>>
    /\ domainNum <= Threshold
    /\ LET m == Head(masterRing)
           skipped == CHOOSE s \in Slaves : TRUE
           full == {s \in Slaves : Len(slaveRing[s]) >= RingCap}
       IN  /\ masterRing' = Tail(masterRing)
           /\ slaveRing' = [s \in Slaves |->
                              IF s \in full \/ s = skipped THEN slaveRing[s]
                              ELSE Append(slaveRing[s], m)]
           /\ lost' = [s \in Slaves |-> lost[s] \/ s \in full]
           /\ tcpDb' = DbUpdate(tcpDb, m)
           /\ inFlight' = <<m>>
    /\ UNCHANGED <<adminChains, domainNum, slaveDb, requests, getResult>>

(* One iteration of doman_msg_master_process under the threshold, up to    *)
(* its last call: a clone onto every slave ring (a full ring frees that    *)
(* clone only) and a clone to the TCP table (tcp_domian_databd_update).    *)
(* The slaves may dequeue their clones before the master goes on.          *)
MasterDispatch ==
    /\ inFlight = <<>>
    /\ masterRing # <<>>
    /\ domainNum <= Threshold
    /\ LET m == Head(masterRing)
           full == {s \in Slaves : Len(slaveRing[s]) >= RingCap}
       IN  /\ masterRing' = Tail(masterRing)
           /\ slaveRing' = [s \in Slaves |->
                              IF s \in full THEN slaveRing[s]
                              ELSE Append(slaveRing[s], m)]
           /\ lost' = [s \in Slaves |-> lost[s] \/ s \in full]
           /\ tcpDb' = DbUpdate(tcpDb, m)
           /\ inFlight' = <<m>>
    /\ UNCHANGED <<adminChains, domainNum, slaveDb, requests, getResult>>

(* The end of the iteration: domain_info_store takes the write lock and    *)
(* applies the original msg to the admin table with domain_list_ops.       *)
MasterStore ==
    /\ inFlight # <<>>
    /\ DomainListOps(Head(inFlight))
    /\ inFlight' = <<>>
    /\ UNCHANGED <<masterRing, slaveRing, tcpDb, slaveDb, requests, lost,
                   getResult>>

(* Plausible bug of the slave drain, used as a mutant: a dequeue that     *)
(* only succeeds while more than one mutation is waiting.                  *)
SlaveProcessMsgKeepsLast(s) ==
    /\ Len(slaveRing[s]) > 1
    /\ slaveDb' = [slaveDb EXCEPT ![s] = DbUpdate(@, Head(slaveRing[s]))]
    /\ slaveRing' = [slaveRing EXCEPT ![s] = Tail(@)]
    /\ UNCHANGED <<masterRing, adminChains, domainNum, tcpDb, requests, lost,
                   getResult, inFlight>>

(* doman_msg_slave_process on core s: one dequeued mutation applied to the *)
(* core's own table.                                                       *)
SlaveProcessMsg(s) ==
    /\ slaveRing[s] # <<>>
    /\ slaveDb' = [slaveDb EXCEPT ![s] = DbUpdate(@, Head(slaveRing[s]))]
    /\ slaveRing' = [slaveRing EXCEPT ![s] = Tail(@)]
    /\ UNCHANGED <<masterRing, adminChains, domainNum, tcpDb, requests, lost,
                   getResult, inFlight>>

(* GET /kdns/domain (domains_get): under the read lock, list the chain of  *)
(* every bucket i with i < DOMAIN_HASH_SIZE.                               *)
DomainsGet ==
    /\ getResult' = UNION {ToSet(adminChains[b]) : b \in 0..(HashMask - 1)}
    /\ UNCHANGED <<masterRing, slaveRing, adminChains, domainNum, tcpDb,
                   slaveDb, requests, lost, inFlight>>

(* GET /kdns/domain/<name> (domain_get): under the read lock, walk the     *)
(* chain of the name's bucket (elfHash & DOMAIN_HASH_SIZE) and list every  *)
(* node whose hashValue and domain_name match, one per host.               *)
DomainGet(d) ==
    /\ getResult' = {k \in ToSet(adminChains[DomHash[d] & HashMask]) : k[1] = d}
    /\ UNCHANGED <<masterRing, slaveRing, adminChains, domainNum, tcpDb,
                   slaveDb, requests, lost, inFlight>>

Next ==
    \/ \E a \in Actions, k \in Key : DomainDataParse(a, k)
    \/ \E d \in Domains : DomainGet(d)
    \/ MasterDropOverThreshold
    \/ MasterDispatch
    \/ MasterStore
    \/ \E s \in Slaves : SlaveProcessMsg(s)
    \/ DomainsGet

(* process_master and process_slave poll their rings forever, so a core    *)
(* with a non-empty ring keeps taking its step.                            *)
Fairness ==
    /\ WF_vars(MasterDropOverThreshold \/ MasterDispatch \/ MasterStore)
    /\ \A s \in Slaves : WF_vars(SlaveProcessMsg(s))

Spec == Init /\ [][Next]_vars /\ Fairness

-----------------------------------------------------------------------------
(* Properties *)

TypeOK ==
    /\ masterRing \in Seq(Msg) /\ Len(masterRing) <= RingCap
    /\ \A s \in Slaves : slaveRing[s] \in Seq(Msg) /\ Len(slaveRing[s]) <= RingCap
    /\ adminChains \in [Buckets -> Seq(Key)]
    /\ domainNum \in 0..MaxRequests
    /\ tcpDb \subseteq Key
    /\ slaveDb \in [Slaves -> SUBSET Key]
    /\ requests \in 0..MaxRequests
    /\ lost \in [Slaves -> BOOLEAN]
    /\ getResult \subseteq Key
    /\ inFlight \in Seq(Msg) /\ Len(inFlight) <= 1

(* The admin hash table of domain_list_ops stays a set of keys: each key   *)
(* is on at most one chain node, that node is in the key's own bucket, and *)
(* g_domain_num, which the master's threshold test reads, equals the       *)
(* number of nodes on the chains.                                          *)
AdminTableWellFormed ==
    /\ \A b \in Buckets :
          /\ \A i \in 1..Len(adminChains[b]) : BucketOf(adminChains[b][i]) = b
          /\ \A i, j \in 1..Len(adminChains[b]) :
                i # j => adminChains[b][i] # adminChains[b][j]
    /\ domainNum = ChainNodes

(* FIFO replication: for every slave core that never had a clone dropped   *)
(* on a full ring, applying the mutations still queued on its ring, in     *)
(* ring order, to its table gives the admin table as the master's pending  *)
(* domain_info_store will leave it.  A slave may lag the master by its     *)
(* ring, and run ahead of the admin table by the one mutation the master   *)
(* has dispatched and not yet stored, but never disagrees otherwise;       *)
(* across Adds and Deletes of the same key, threshold drops, and an Add of *)
(* a present key or a Delete of an absent one, which domain_list_ops frees *)
(* while the slaves' domaindata_update applies them.                       *)
ReplayConsistent ==
    LET admin == DbReplay(AdminKeys, inFlight)
    IN  \A s \in Slaves :
            ~lost[s] => DbReplay(slaveDb[s], slaveRing[s]) = admin

(* Convergence of doman_msg_slave_process: once the admin API stops, every *)
(* slave core that never lost a clone ends up with the admin table.        *)
EventuallyConsistent ==
    <>[](\A s \in Slaves : ~lost[s] => slaveDb[s] = AdminKeys)

(* A Delete for a stored key that the master core dequeues goes on to the  *)
(* tables: it becomes the master's dispatched msg, which domain_info_store *)
(* then removes from the admin table (spec section 8: a Delete empties     *)
(* every table of that entry).  doman_msg_master_process frees it unapplied*)
(* when g_domain_num is over the threshold.                                *)
DeleteTakesEffect ==
    [][ /\ masterRing # <<>>
        /\ masterRing' = Tail(masterRing)
        /\ Head(masterRing).action = "del"
        /\ Head(masterRing).key \in AdminKeys
        => inFlight' = <<Head(masterRing)>> ]_vars

(* GET /kdns/domain lists every record of the admin table (domains_get,    *)
(* which walks the buckets with i < DOMAIN_HASH_SIZE).                     *)
ListingComplete ==
    [][DomainsGet => getResult' = AdminKeys]_vars

=============================================================================
