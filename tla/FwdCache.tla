------------------------------ MODULE FwdCache ------------------------------
(***************************************************************************)
(* The forward cache and the forwarding threads (src/src/forward.c).       *)
(*                                                                         *)
(* The packet loop hands each query for a forwarded zone to               *)
(* dns_handle_remote, which puts it on fwd_pkt_to_process_ring or frees it *)
(* when the ring is full.  fwd_threads threads (thread_fwd_pkt_process)    *)
(* each take one query at a time off that ring and run                     *)
(* do_dns_handle_remote on it:                                             *)
(*   fwd_cache_lookup under the read lock (an expired entry has its        *)
(*   time_expired pushed forward, written under that read lock);           *)
(*   on a miss or an expired entry, the failover loop over the zone's      *)
(*   upstream servers (dns_do_remote_query, 2 s timeout each);             *)
(*   on an answer, fwd_cache_del of the expired entry and then             *)
(*   fwd_cache_insert, each under the write lock; on no answer, the stale  *)
(*   payload, if any, is the reply.                                        *)
(* A reply is put on master_fwd_pkt_ex_ring, or freed when the ring is     *)
(* full or there is no reply; the master takes replies off that ring in    *)
(* bulk with fwd_pkts_dequeue.                                             *)
(* A sweep thread (thread_fwd_cache_expired_cleanup) deletes, shard by     *)
(* shard under the write lock, entries past time_expired + 3600.           *)
(*                                                                         *)
(* A cached payload is abstracted to the version of the upstream answer it *)
(* holds; the upstream's answer for a key only grows newer.  Time is       *)
(* counted in units longer than one forwarded query, so a clock tick       *)
(* happens only while no thread is in the middle of a query.              *)
(***************************************************************************)
EXTENDS Integers, FiniteSets, Sequences, SequencesExt

CONSTANTS
    Threads,       \* the forwarding threads
    Keys,          \* (domain, qtype) cache keys
    KeyHash,       \* elfHash of each key's domain: [Keys -> Nat]
    HashSize,      \* FORWARD_HASH_SIZE (a mask 2^n - 1)
    ScanNum,       \* FORWARD_CACHE_TIME_OUT_SCAN_NUM
    Fresh,         \* the 60 s freshness and grace window, in time units
    Retain,        \* the 3600 s retention after time_expired, in time units
    MaxTime,       \* bound on the clock
    MaxVer,        \* bound on upstream answer versions
    MaxQueries,    \* bound on forwarded queries of one behaviour
    Servers,       \* servers_len of the zone each key forwards to: [Keys -> Nat]
    RingCap,       \* usable slots of fwd_pkt_to_process_ring
    ExRingCap,     \* usable slots of master_fwd_pkt_ex_ring
    Burst          \* the pkts_len the master passes to fwd_pkts_dequeue

ASSUME Fresh \in Nat \ {0} /\ Retain \in Nat /\ MaxTime \in Nat
       /\ MaxVer \in Nat \ {0} /\ MaxQueries \in Nat
       /\ RingCap \in Nat \ {0} /\ ExRingCap \in Nat \ {0}
       /\ Burst \in Nat \ {0} /\ Servers \in [Keys -> Nat]

VARIABLES
    cache,         \* g_fwd_cache_hash_list: key -> [ver, exp]; ver 0 = absent
    now,           \* time(NULL)
    upstream,      \* version of the upstream answer for each key
    lastIdx,       \* last_idx of the sweep thread
    pc,            \* where each forwarding thread is in do_dns_handle_remote
    tkey,          \* the key of the thread's current query
    status,        \* result of fwd_cache_lookup for it
    data,          \* payload the thread holds: buf_data / expired_recrds
    fetched,       \* upstream answer the thread received (0 = none)
    answer,        \* payload of the thread's last reply (0 = dropped)
    queries,       \* forwarded queries handed to dns_handle_remote so far
    highWater,     \* ghost: newest version ever inserted for each key
    qkey,          \* the cache key of each query (by arrival number)
    procRing,      \* fwd_pkt_to_process_ring: query numbers, oldest first
    tq,            \* the query each thread holds (etm)
    srv,           \* index i of the thread's failover loop
    exRing,        \* master_fwd_pkt_ex_ring: reply packets, oldest first
    delivered,     \* queries whose reply the master has dequeued
    freed          \* queries whose packet was freed without a reply

vars == <<cache, now, upstream, lastIdx, pc, tkey, status, data, fetched,
          answer, queries, highWater, qkey, procRing, tq, srv, exRing,
          delivered, freed>>
pipeVars == <<qkey, procRing, tq, srv, exRing, delivered, freed>>
QueryIds == 1..MaxQueries

\* The sweep cursor arithmetic, shared with the FwdSweep module.
Sweep == INSTANCE FwdSweep WITH covered <- 0

Versions == 0..MaxVer
NoEntry == [ver |-> 0, exp |-> 0]
Present(k) == cache[k].ver # 0
\* hashId = hashValue & FORWARD_HASH_SIZE, for a mask 2^n - 1
BucketOf(k) == KeyHash[k] % (HashSize + 1)

\* No thread is inside the read-locked part of fwd_cache_lookup.
ReadLockFree == \A t \in Threads : pc[t] # "push"

\* RTE_MIN
MinOf(a, b) == IF a < b THEN a ELSE b

Init ==
    /\ cache = [k \in Keys |-> NoEntry]
    /\ now = 0
    /\ upstream = [k \in Keys |-> 1]
    /\ lastIdx = 0
    /\ pc = [t \in Threads |-> "idle"]
    /\ tkey = [t \in Threads |-> CHOOSE k \in Keys : TRUE]
    /\ status = [t \in Threads |-> "notfound"]
    /\ data = [t \in Threads |-> 0]
    /\ fetched = [t \in Threads |-> 0]
    /\ answer = [t \in Threads |-> 0]
    /\ queries = 0
    /\ highWater = [k \in Keys |-> 0]
    /\ qkey = [q \in QueryIds |-> CHOOSE k \in Keys : TRUE]
    /\ procRing = << >>
    /\ tq = [t \in Threads |-> 0]
    /\ srv = [t \in Threads |-> 0]
    /\ exRing = << >>
    /\ delivered = {}
    /\ freed = {}

-----------------------------------------------------------------------------
(* dns_handle_remote for a query of key k: calloc of the fwd_pkt_input,   *)
(* then rte_ring_mp_enqueue on fwd_pkt_to_process_ring; the packet is      *)
(* freed when the calloc fails or the ring is full.                        *)
DnsHandleRemote(k, allocOK) ==
    /\ queries < MaxQueries
    /\ LET q == queries + 1 IN
       /\ queries' = q
       /\ qkey' = [qkey EXCEPT ![q] = k]
       /\ IF allocOK /\ Len(procRing) < RingCap
          THEN /\ procRing' = Append(procRing, q)
               /\ UNCHANGED freed
          ELSE /\ freed' = freed \cup {q}
               /\ UNCHANGED procRing
    /\ UNCHANGED <<cache, now, upstream, lastIdx, pc, tkey, status, data,
                   fetched, answer, highWater, tq, srv, exRing, delivered>>

(* rte_ring_mc_dequeue of the oldest query, then fwd_cache_lookup up to    *)
(* its test of time_expired: a fresh hit is copied into the packet and     *)
(* replied, an expired entry's payload is copied aside (the push of        *)
(* time_expired is the next step, still under the read lock), a miss goes  *)
(* to the failover loop.                                                   *)
LookupFind(t) ==
    /\ pc[t] = "idle"
    /\ procRing # << >>
    /\ LET q == Head(procRing)
           k == qkey[q]
       IN  /\ tq' = [tq EXCEPT ![t] = q]
           /\ tkey' = [tkey EXCEPT ![t] = k]
           /\ IF Present(k) /\ cache[k].exp > now
              THEN /\ status' = [status EXCEPT ![t] = "found"]
                   /\ data' = [data EXCEPT ![t] = cache[k].ver]
                   /\ answer' = [answer EXCEPT ![t] = cache[k].ver]
                   /\ pc' = [pc EXCEPT ![t] = "reply"]
              ELSE IF Present(k)
              THEN /\ status' = [status EXCEPT ![t] = "expired"]
                   /\ data' = [data EXCEPT ![t] = cache[k].ver]
                   /\ pc' = [pc EXCEPT ![t] = "push"]
                   /\ UNCHANGED answer
              ELSE /\ status' = [status EXCEPT ![t] = "notfound"]
                   /\ data' = [data EXCEPT ![t] = 0]
                   /\ pc' = [pc EXCEPT ![t] = "upstream"]
                   /\ UNCHANGED answer
    /\ procRing' = Tail(procRing)
    /\ fetched' = [fetched EXCEPT ![t] = 0]
    /\ srv' = [srv EXCEPT ![t] = 0]
    /\ UNCHANGED <<cache, now, upstream, lastIdx, queries, highWater, qkey,
                   exRing, delivered, freed>>

(* find->time_expired = time(NULL) + 60, then the read unlock.             *)
LookupPush(t) ==
    /\ pc[t] = "push"
    /\ cache' = [cache EXCEPT ![tkey[t]].exp = now + Fresh]
    /\ pc' = [pc EXCEPT ![t] = "upstream"]
    /\ UNCHANGED <<now, upstream, lastIdx, tkey, status, data, fetched,
                   answer, queries, highWater>>
    /\ UNCHANGED pipeVars

(* Server i of the zone (find_zone_fwd_addrs) answers dns_do_remote_query  *)
(* with retfwd > 0: the loop breaks.  An expired entry is deleted first,   *)
(* then the answer is inserted.                                            *)
UpstreamAnswer(t) ==
    /\ pc[t] = "upstream"
    /\ srv[t] < Servers[tkey[t]]
    /\ fetched' = [fetched EXCEPT ![t] = upstream[tkey[t]]]
    /\ pc' = [pc EXCEPT ![t] = IF status[t] = "expired" THEN "del" ELSE "insert"]
    /\ UNCHANGED <<cache, now, upstream, lastIdx, tkey, status, data,
                   answer, queries, highWater>>
    /\ UNCHANGED pipeVars

(* Server i times out (SO_RCVTIMEO of 2 s) or fails: retfwd <= 0, i++.     *)
UpstreamTimeout(t) ==
    /\ pc[t] = "upstream"
    /\ srv[t] < Servers[tkey[t]]
    /\ srv' = [srv EXCEPT ![t] = @ + 1]
    /\ UNCHANGED <<cache, now, upstream, lastIdx, pc, tkey, status, data,
                   fetched, answer, queries, highWater, qkey, procRing, tq,
                   exRing, delivered, freed>>

(* Plausible bug, used as a mutant: the failure path replies from the     *)
(* query buffer and loses the stale copy (data_len reset to 0).            *)
UpstreamFailNoStale(t) ==
    /\ pc[t] = "upstream"
    /\ srv[t] = Servers[tkey[t]]
    /\ answer' = [answer EXCEPT ![t] = 0]
    /\ pc' = [pc EXCEPT ![t] = "reply"]
    /\ UNCHANGED <<cache, now, upstream, lastIdx, tkey, status, data, fetched,
                   queries, highWater>>
    /\ UNCHANGED pipeVars

(* The loop ran past servers_len: the reply is the stale payload copied by *)
(* the lookup (memcpy of expired_recrds, data_len bytes), or nothing.      *)
UpstreamFail(t) ==
    /\ pc[t] = "upstream"
    /\ srv[t] = Servers[tkey[t]]
    /\ answer' = [answer EXCEPT ![t] = data[t]]
    /\ pc' = [pc EXCEPT ![t] = "reply"]
    /\ UNCHANGED <<cache, now, upstream, lastIdx, tkey, status, data, fetched,
                   queries, highWater>>
    /\ UNCHANGED pipeVars

(* fwd_cache_del under the write lock: unlink the key's entry if any.      *)
CacheDel(t) ==
    /\ pc[t] = "del"
    /\ ReadLockFree
    /\ cache' = [cache EXCEPT ![tkey[t]] = NoEntry]
    /\ pc' = [pc EXCEPT ![t] = "insert"]
    /\ UNCHANGED <<now, upstream, lastIdx, tkey, status, data, fetched,
                   answer, queries, highWater>>
    /\ UNCHANGED pipeVars

(* Plausible bug, used as a mutant: an insert that stores the payload     *)
(* copied by the lookup instead of the upstream answer.                    *)
CacheInsertLookupCopy(t) ==
    /\ pc[t] = "insert"
    /\ ReadLockFree
    /\ LET k == tkey[t] IN
       IF Present(k)
       THEN UNCHANGED <<cache, highWater>>
       ELSE /\ cache' = [cache EXCEPT ![k] = [ver |-> data[t], exp |-> now + Fresh]]
            /\ highWater' = [highWater EXCEPT ![k] = IF data[t] > @ THEN data[t] ELSE @]
    /\ answer' = [answer EXCEPT ![t] = fetched[t]]
    /\ pc' = [pc EXCEPT ![t] = "reply"]
    /\ UNCHANGED <<now, upstream, lastIdx, tkey, status, data, fetched, queries>>
    /\ UNCHANGED pipeVars

(* fwd_cache_insert under the write lock: a new node with a 60 s lifetime  *)
(* when the key has no entry, nothing when it has one.  data_len = retfwd: *)
(* the reply is the upstream answer either way.                            *)
CacheInsert(t) ==
    /\ pc[t] = "insert"
    /\ ReadLockFree
    /\ LET k == tkey[t] IN
       IF Present(k)
       THEN UNCHANGED <<cache, highWater>>
       ELSE /\ cache' = [cache EXCEPT ![k] = [ver |-> fetched[t], exp |-> now + Fresh]]
            /\ highWater' = [highWater EXCEPT ![k] = IF fetched[t] > @ THEN fetched[t] ELSE @]
    /\ answer' = [answer EXCEPT ![t] = fetched[t]]
    /\ pc' = [pc EXCEPT ![t] = "reply"]
    /\ UNCHANGED <<now, upstream, lastIdx, tkey, status, data, fetched, queries>>
    /\ UNCHANGED pipeVars

\* The locals of do_dns_handle_remote and the loop index end with the pass.
ReturnLocals(t) ==
    /\ tkey' = [tkey EXCEPT ![t] = CHOOSE k \in Keys : TRUE]
    /\ status' = [status EXCEPT ![t] = "notfound"]
    /\ data' = [data EXCEPT ![t] = 0]
    /\ fetched' = [fetched EXCEPT ![t] = 0]
    /\ answer' = [answer EXCEPT ![t] = 0]
    /\ srv' = [srv EXCEPT ![t] = 0]

(* Plausible bug, used as a mutant: the fwd_len <= 0 branch releases the  *)
(* fwd_pkt_input but not the packet it carries.                            *)
ThreadReplyLeak(t) ==
    /\ pc[t] = "reply"
    /\ IF answer[t] # 0 /\ Len(exRing) < ExRingCap
       THEN /\ exRing' = Append(exRing, tq[t])
            /\ UNCHANGED freed
       ELSE /\ freed' = IF answer[t] = 0 THEN freed ELSE freed \cup {tq[t]}
            /\ UNCHANGED exRing
    /\ pc' = [pc EXCEPT ![t] = "idle"]
    /\ tq' = [tq EXCEPT ![t] = 0]
    /\ ReturnLocals(t)
    /\ UNCHANGED <<cache, now, upstream, lastIdx, queries, highWater, qkey,
                   procRing, delivered>>

(* The rest of thread_fwd_pkt_process after do_dns_handle_remote: with     *)
(* fwd_len <= 0 the packet is freed; otherwise rte_ring_mp_enqueue on      *)
(* master_fwd_pkt_ex_ring, and the packet is freed when that ring is full. *)
ThreadReply(t) ==
    /\ pc[t] = "reply"
    /\ IF answer[t] # 0 /\ Len(exRing) < ExRingCap
       THEN /\ exRing' = Append(exRing, tq[t])
            /\ UNCHANGED freed
       ELSE /\ freed' = freed \cup {tq[t]}
            /\ UNCHANGED exRing
    /\ pc' = [pc EXCEPT ![t] = "idle"]
    /\ tq' = [tq EXCEPT ![t] = 0]
    /\ ReturnLocals(t)
    /\ UNCHANGED <<cache, now, upstream, lastIdx, queries, highWater, qkey,
                   procRing, delivered>>

(* Plausible bug, used as a mutant: fwd_pkts_dequeue without the retry     *)
(* that shrinks pkts_len to rte_ring_count, so a bulk of pkts_len fails    *)
(* while fewer replies are queued.                                         *)
FwdPktsDequeueNoShrink(n) ==
    /\ Len(exRing) >= n /\ n > 0
    /\ delivered' = delivered \cup ToSet(SubSeq(exRing, 1, n))
    /\ exRing' = SubSeq(exRing, n + 1, Len(exRing))
    /\ UNCHANGED <<cache, now, upstream, lastIdx, pc, tkey, status, data,
                   fetched, answer, queries, highWater, qkey, procRing, tq,
                   srv, freed>>

(* fwd_pkts_dequeue(mbufs, n) from the master loop: rte_ring_dequeue_bulk  *)
(* of n replies, retried with pkts_len = RTE_MIN(rte_ring_count, pkts_len) *)
(* until it succeeds, so it takes the min(n, count) oldest replies.  The   *)
(* master is the only consumer, so the count only grows during the retry;  *)
(* a call that returns 0 changes nothing and is left out.                  *)
FwdPktsDequeue(n) ==
    /\ LET got == MinOf(n, Len(exRing)) IN
       /\ got > 0
       /\ delivered' = delivered \cup ToSet(SubSeq(exRing, 1, got))
       /\ exRing' = SubSeq(exRing, got + 1, Len(exRing))
    /\ UNCHANGED <<cache, now, upstream, lastIdx, pc, tkey, status, data,
                   fetched, answer, queries, highWater, qkey, procRing, tq,
                   srv, freed>>

(* One wake-up of the sweep thread: do_fwd_cache_expired_cleanup over the  *)
(* shard [idx_start, idx_end) under the write lock, then the cursor moves. *)
SweepShard ==
    /\ ReadLockFree
    /\ LET shard == Sweep!ShardStart(lastIdx)..(Sweep!ShardEnd(lastIdx) - 1)
       IN  cache' = [k \in Keys |->
                       IF Present(k) /\ BucketOf(k) \in shard
                          /\ cache[k].exp + Retain < now
                       THEN NoEntry ELSE cache[k]]
    /\ lastIdx' = Sweep!NextLast(lastIdx)
    /\ UNCHANGED <<now, upstream, pc, tkey, status, data, fetched, answer,
                   queries, highWater>>
    /\ UNCHANGED pipeVars

(* The clock moves while no forwarded query is in flight.                  *)
Tick ==
    /\ now < MaxTime
    /\ \A t \in Threads : pc[t] = "idle"
    /\ now' = now + 1
    /\ UNCHANGED <<cache, upstream, lastIdx, pc, tkey, status, data, fetched,
                   answer, queries, highWater>>
    /\ UNCHANGED pipeVars

(* The upstream servers start giving a newer answer for key k.             *)
UpstreamChange(k) ==
    /\ upstream[k] < MaxVer
    /\ upstream' = [upstream EXCEPT ![k] = @ + 1]
    /\ UNCHANGED <<cache, now, lastIdx, pc, tkey, status, data, fetched,
                   answer, queries, highWater>>
    /\ UNCHANGED pipeVars

\* One pass of the while (1) loop of thread_fwd_pkt_process, step by step.
ThreadStep(t) ==
    \/ LookupFind(t)
    \/ LookupPush(t)
    \/ UpstreamAnswer(t)
    \/ UpstreamTimeout(t)
    \/ UpstreamFail(t)
    \/ CacheDel(t)
    \/ CacheInsert(t)
    \/ ThreadReply(t)

\* The master's call of fwd_pkts_dequeue with its burst size.
MasterDequeue == FwdPktsDequeue(Burst)

Next ==
    \/ \E k \in Keys, ok \in BOOLEAN : DnsHandleRemote(k, ok)
    \/ \E t \in Threads : ThreadStep(t)
    \/ MasterDequeue
    \/ SweepShard
    \/ Tick
    \/ \E k \in Keys : UpstreamChange(k)

Spec == Init /\ [][Next]_vars

(* The forwarding threads and the master loop poll their rings forever     *)
(* (while (1) with usleep, and the master's main loop), and no step of a   *)
(* thread blocks except on the cache lock, so each keeps taking its steps. *)
FairSpec ==
    /\ Spec
    /\ \A t \in Threads : WF_vars(ThreadStep(t))
    /\ WF_vars(MasterDequeue)

-----------------------------------------------------------------------------
(* Properties *)

TypeOK ==
    /\ cache \in [Keys -> {NoEntry} \cup [ver : 1..MaxVer, exp : 0..(MaxTime + Fresh)]]
    /\ now \in 0..MaxTime
    /\ upstream \in [Keys -> 1..MaxVer]
    /\ lastIdx \in 0..HashSize
    /\ pc \in [Threads -> {"idle", "push", "upstream", "del", "insert", "reply"}]
    /\ tkey \in [Threads -> Keys]
    /\ status \in [Threads -> {"found", "notfound", "expired"}]
    /\ data \in [Threads -> Versions]
    /\ fetched \in [Threads -> Versions]
    /\ answer \in [Threads -> Versions]
    /\ queries \in 0..MaxQueries
    /\ highWater \in [Keys -> Versions]
    /\ qkey \in [QueryIds -> Keys]
    /\ procRing \in Seq(QueryIds) /\ Len(procRing) <= RingCap
    /\ tq \in [Threads -> 0..MaxQueries]
    /\ srv \in [Threads -> Nat]
    /\ exRing \in Seq(QueryIds) /\ Len(exRing) <= ExRingCap
    /\ delivered \subseteq QueryIds
    /\ freed \subseteq QueryIds

(* The cache never goes back to an older upstream answer: an entry always  *)
(* holds the newest answer ever inserted for its key, across deletes by    *)
(* refreshes and sweeps and concurrent misses of several threads (spec     *)
(* 4.3: a stale entry is replaced by the refresh, linearizably).  Two      *)
(* threads can both find an entry expired, because fwd_cache_lookup tests  *)
(* and pushes time_expired under the read lock; the slower one's           *)
(* fwd_cache_del then removes the newer answer the faster one inserted.    *)
CacheNeverRegresses ==
    \A k \in Keys : Present(k) => cache[k].ver = highWater[k]

(* Stale serving (spec 4.3 step 4): a query whose lookup found an entry,   *)
(* fresh or expired, always gets a reply (data_len > 0); only a miss whose *)
(* upstream servers all failed goes without one.                           *)
StaleFallback ==
    [][\A t \in Threads :
         (pc[t] # "reply" /\ pc'[t] = "reply" /\ status'[t] # "notfound")
            => answer'[t] # 0]_vars

\* The number of places query q is in: the process ring, a thread, the
\* exchange ring, the master's hands, or the freed packets.
Copies(q) ==
    Len(SelectSeq(procRing, LAMBDA x : x = q))
    + Cardinality({t \in Threads : pc[t] # "idle" /\ tq[t] = q})
    + Len(SelectSeq(exRing, LAMBDA x : x = q))
    + (IF q \in delivered THEN 1 ELSE 0)
    + (IF q \in freed THEN 1 ELSE 0)

(* Every packet handed to dns_handle_remote is, at every moment, in        *)
(* exactly one place: queued for a forwarding thread, held by one, queued  *)
(* for the master, dequeued by it, or freed, across the calloc failure,    *)
(* both full rings, the unanswered query and concurrent threads taking     *)
(* from one ring with rte_ring_mc_dequeue.  A packet in two places is a    *)
(* double free or a reply sent twice; in none, a leaked mbuf.              *)
NoQueryLostOrDuplicated ==
    \A q \in QueryIds : Copies(q) = IF q <= queries THEN 1 ELSE 0

(* Every query that reaches fwd_pkt_to_process_ring is eventually settled: *)
(* its reply dequeued by the master through fwd_pkts_dequeue, or its       *)
(* packet freed.  It takes the failover loop ending after servers_len      *)
(* tries, the write lock being granted, and the master's bulk dequeue      *)
(* taking a tail of fewer replies than its burst.                          *)
QueryResolved ==
    \A q \in QueryIds :
        Contains(procRing, q)
            ~> (q \in delivered \cup freed)

=============================================================================
