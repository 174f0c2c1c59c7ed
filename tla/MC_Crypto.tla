------------------------------ MODULE MC_Crypto ------------------------------
(***************************************************************************)
(* The two crypto PMDs of the tree checked in one state graph: the         *)
(* scheduler's device, queue-pair and session operations (CryptoScheduler) *)
(* and one queue pair of the null PMD (NullCryptoQP).  They share no state *)
(* in the model, so a behaviour runs one of them, chosen by mode: a step   *)
(* of the scheduler leaves the null PMD's variables alone, and a step of   *)
(* the null PMD the scheduler's.                                           *)
(***************************************************************************)
EXTENDS CryptoScheduler, NullCryptoQP

VARIABLE mode

allVars == <<vars, nullVars, mode>>

MC_Init ==
    /\ Init
    /\ NullInit
    /\ mode \in {"scheduler", "null"}

MC_Next ==
    \/ mode = "scheduler" /\ Next /\ UNCHANGED <<nullVars, mode>>
    \/ mode = "null" /\ NullNext /\ UNCHANGED <<vars, mode>>

MC_Spec == MC_Init /\ [][MC_Next]_allVars
=============================================================================
