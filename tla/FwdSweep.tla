------------------------------ MODULE FwdSweep ------------------------------
(***************************************************************************)
(* The shard cursor of the forward-cache sweep thread                      *)
(* (thread_fwd_cache_expired_cleanup, src/src/forward.c).  Every period    *)
(* the thread scans the buckets idx_start .. idx_end - 1 of a table whose  *)
(* buckets are 0 .. FORWARD_HASH_SIZE, then moves last_idx on or back to   *)
(* 0.  The module is the cursor alone, so it can be checked with the real  *)
(* constants as well as with the small ones FwdCache uses.                 *)
(***************************************************************************)
EXTENDS Naturals

CONSTANTS
    HashSize,      \* FORWARD_HASH_SIZE: the last bucket index (a mask)
    ScanNum        \* FORWARD_CACHE_TIME_OUT_SCAN_NUM

ASSUME HashSize \in Nat /\ ScanNum \in Nat \ {0}

(* The half-open shard [start, end) one wake-up scans, and the next value  *)
(* of last_idx, from the current last_idx.                                 *)
ShardStart(last) == last
ShardEnd(last) ==
    IF last + ScanNum > HashSize THEN HashSize ELSE last + ScanNum
NextLast(last) ==
    IF last + ScanNum > HashSize THEN 0 ELSE last + ScanNum

VARIABLES
    lastIdx,       \* last_idx
    covered        \* ghost: buckets 0 .. covered - 1 scanned in this pass

vars == <<lastIdx, covered>>

Init ==
    /\ lastIdx = 0
    /\ covered = 0

(* One wake-up of the sweep thread: do_fwd_cache_expired_cleanup over the  *)
(* shard, then the cursor moves.  The ghost restarts on a wrap.            *)
SweepWake ==
    /\ lastIdx' = NextLast(lastIdx)
    /\ covered' = IF NextLast(lastIdx) = 0 THEN 0
                  ELSE IF ShardStart(lastIdx) <= covered
                       THEN ShardEnd(lastIdx) ELSE covered

Next == SweepWake

Spec == Init /\ [][Next]_vars

-----------------------------------------------------------------------------
TypeOK ==
    /\ lastIdx \in 0..HashSize
    /\ covered \in 0..(HashSize + 1)

(* A full pass of the cursor, the wake-ups from last_idx = 0 until it      *)
(* wraps back to 0, scans every bucket 0 .. FORWARD_HASH_SIZE of the       *)
(* table, so every expired entry is eventually looked at.                  *)
FullPassCoversTable ==
    [][ NextLast(lastIdx) = 0 =>
          /\ ShardStart(lastIdx) <= covered
          /\ ShardEnd(lastIdx) = HashSize + 1 ]_vars

=============================================================================
