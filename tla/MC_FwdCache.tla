---------------------------- MODULE MC_FwdCache ----------------------------
(* Model values and small definitions for checking FwdCache with TLC.     *)
EXTENDS FwdCache, TLC

CONSTANTS t1, t2, k1, k2

MC_Threads == {t1, t2}
MC_Keys == {k1, k2}
MC_OneKey == {k1}

\* k1 in bucket 0, k2 in bucket 1 of a 4-bucket table.
MC_KeyHash == [k \in Keys |-> IF k = k1 THEN 4 ELSE 1]

\* k1's zone has two upstream servers, k2 falls to a one-server default.
MC_Servers == [k \in Keys |-> IF k = k1 THEN 2 ELSE 1]
=============================================================================
