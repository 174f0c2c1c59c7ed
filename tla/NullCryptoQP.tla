----------------------------- MODULE NullCryptoQP -----------------------------
(***************************************************************************)
(* One queue pair of the null crypto PMD                                   *)
(* (src/dpdk-17.02/drivers/crypto/null/null_crypto_pmd.c): the enqueue     *)
(* burst, which finds each operation's session and puts the operation on   *)
(* the processed_pkts ring, and the dequeue burst, which takes them off.   *)
(* The ring holds operations, not their contents, so it is a count.  An    *)
(* operation is one of four kinds: with a session of this PMD, with a      *)
(* missing or foreign session, sessionless with a null transform chain,    *)
(* or sessionless with a transform the PMD rejects.                        *)
(***************************************************************************)
EXTENDS Naturals, Sequences

CONSTANTS
    RingCap,       \* usable slots of processed_pkts (ring size - 1)
    PoolSize,      \* session objects in qp->sess_mp
    MaxBurst,      \* largest nb_ops of a burst
    MaxCalls       \* bound on enqueue and dequeue calls

OpKinds == {"session", "badSession", "sessionless", "badXform"}
Bursts == UNION {[1..n -> OpKinds] : n \in 1..MaxBurst}

VARIABLES
    inRing,        \* operations on processed_pkts
    poolFree,      \* free objects of sess_mp
    enqueuedCount, \* qp_stats.enqueued_count
    dequeuedCount, \* qp_stats.dequeued_count
    errCount,      \* qp_stats.enqueue_err_count
    accepted,      \* ghost: operations the enqueue bursts returned as taken
    lastBurst,     \* ghost: the last enqueue burst, the count it returned
                   \* and the call it was
    calls

nullVars == <<inRing, poolFree, enqueuedCount, dequeuedCount, errCount, accepted,
              lastBurst, calls>>

-----------------------------------------------------------------------------
\* Mutant: the sessionless path does not check that rte_mempool_get worked.
GetSessionNoPoolCheck(k, pool) ==
    CASE k = "session"     -> [ok |-> TRUE, pool |-> pool]
      [] k = "badSession"  -> [ok |-> FALSE, pool |-> pool]
      [] k = "sessionless" -> [ok |-> TRUE, pool |-> pool - 1]
      [] k = "badXform"    -> [ok |-> FALSE, pool |-> pool - 1]

(* get_session: a session operation needs a session of the null PMD; a     *)
(* sessionless one takes an object from sess_mp, which is never put back,  *)
(* and then has its transform chain checked                                *)
(* (null_crypto_set_session_parameters).                                   *)
GetSession(k, pool) ==
    CASE k = "session"    -> [ok |-> TRUE, pool |-> pool]
      [] k = "badSession" -> [ok |-> FALSE, pool |-> pool]
      [] pool = 0         -> [ok |-> FALSE, pool |-> pool]
      [] OTHER            -> [ok |-> k = "sessionless", pool |-> pool - 1]

\* process_op: rte_ring_enqueue succeeds while the ring has a free slot.
RingHasRoom(n) == n < RingCap

RECURSIVE EnqueueLoop(_, _, _)
(* The loop of null_crypto_pmd_enqueue_burst from operation i on: st.n is *)
(* the loop index reached, st.err whether it left by enqueue_err.         *)
EnqueueLoop(st, burst, i) ==
    IF i > Len(burst) THEN st
    ELSE LET g == GetSession(burst[i], st.pool) IN
         IF ~g.ok \/ ~RingHasRoom(st.ring)
         THEN [st EXCEPT !.pool = g.pool, !.err = TRUE]
         ELSE EnqueueLoop([st EXCEPT !.pool = g.pool, !.ring = @ + 1, !.n = @ + 1],
                          burst, i + 1)

NullInit ==
    /\ inRing = 0
    /\ poolFree = PoolSize
    /\ enqueuedCount = 0
    /\ dequeuedCount = 0
    /\ errCount = 0
    /\ accepted = 0
    /\ lastBurst = [burst |-> <<>>, ret |-> 0, call |-> 0]
    /\ calls = 0

(* null_crypto_pmd_enqueue_burst: the loop, then enqueued_count += i on    *)
(* the normal exit, or enqueue_err_count++ on the error exit; i is         *)
(* returned either way.                                                    *)
NullCryptoPmdEnqueueBurst(burst) ==
    /\ calls < MaxCalls
    /\ calls' = calls + 1
    /\ LET r == EnqueueLoop([ring |-> inRing, pool |-> poolFree, n |-> 0,
                             err |-> FALSE], burst, 1)
       IN  /\ inRing' = r.ring
           /\ poolFree' = r.pool
           /\ IF r.err
              THEN /\ errCount' = errCount + 1
                   /\ UNCHANGED enqueuedCount
              ELSE /\ enqueuedCount' = enqueuedCount + r.n
                   /\ UNCHANGED errCount
           /\ accepted' = accepted + r.n
           /\ lastBurst' = [burst |-> burst, ret |-> r.n, call |-> calls + 1]
    /\ UNCHANGED dequeuedCount

(* null_crypto_pmd_dequeue_burst: rte_ring_dequeue_burst takes up to       *)
(* nb_ops and dequeued_count grows by what it took.                        *)
NullCryptoPmdDequeueBurst(n) ==
    /\ calls < MaxCalls
    /\ calls' = calls + 1
    /\ LET got == IF n < inRing THEN n ELSE inRing
       IN  /\ inRing' = inRing - got
           /\ dequeuedCount' = dequeuedCount + got
    /\ UNCHANGED <<poolFree, enqueuedCount, errCount, accepted, lastBurst>>

NullNext ==
    \/ \E b \in Bursts : NullCryptoPmdEnqueueBurst(b)
    \/ \E n \in 1..MaxBurst : NullCryptoPmdDequeueBurst(n)

NullSpec == NullInit /\ [][NullNext]_nullVars

-----------------------------------------------------------------------------
NullTypeOK ==
    /\ inRing \in 0..RingCap
    /\ poolFree \in 0..PoolSize
    /\ {enqueuedCount, dequeuedCount, errCount, accepted} \subseteq Nat
    /\ calls \in 0..MaxCalls

(* qp_stats.enqueued_count counts every operation the enqueue bursts took. *)
EnqueuedCountExact == enqueuedCount = accepted

(* A well-formed sessionless operation is refused only when the ring is    *)
(* full: the session objects it takes from sess_mp are returned.           *)
SessionlessServed ==
    [][ LET b == lastBurst'.burst
            i == lastBurst'.ret
        IN  (lastBurst'.call = calls' /\ i < Len(b) /\ b[i + 1] = "sessionless")
               => inRing + i = RingCap ]_nullVars

=============================================================================
