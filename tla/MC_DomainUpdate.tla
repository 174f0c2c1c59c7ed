--------------------------- MODULE MC_DomainUpdate ---------------------------
(* Model values and small definitions for checking DomainUpdate with TLC. *)
EXTENDS DomainUpdate, TLC

CONSTANTS s1, s2, d1, d2, h1, h2

MC_Slaves == {s1, s2}
MC_Domains == {d1, d2}
MC_Hosts == {h1, h2}

\* Both domains fall into bucket 0 of a 4-bucket table: one collision chain.
MC_DomHashCollide == [d \in MC_Domains |-> IF d = d1 THEN 4 ELSE 8]

\* d2 hashes into the last bucket, index DOMAIN_HASH_SIZE itself.
MC_DomHashLast == [d \in MC_Domains |-> IF d = d1 THEN 4 ELSE 7]
=============================================================================
