-------------------------- MODULE MC_QedeMacFilter --------------------------
(***************************************************************************)
(* The qede PMD's filter and RSS configuration.  The two touch disjoint    *)
(* driver and firmware state, so a behaviour runs one of them, chosen by   *)
(* mode at the start, rather than their product.                           *)
(***************************************************************************)
EXTENDS QedeMacFilter, QedeRss

CONSTANTS u1, m1, m2, zero

MC_UMacs == {u1}
MC_MMacs == {m1, m2}
MC_Vlans == {0}
MC_Vnis == {0, 1}
MC_VlanIds == {0, 1}
\* every classified combination, and one qede_tunn_types refuses
MC_TunnRequests == (DOMAIN TunnTypes) \cup {{"OMAC", "IMAC"}}
\* the application configures no tunnel filters
MC_NoTunnRequests == {}
\* no hashing, a plain type, and a type sharing its capability
MC_HashTypes == {{}, {"IPV4"}, {"IPV6_EX"}}

VARIABLE mode

allVars == <<vars, rssVars, mode>>

MC_Init == Init /\ RssInit /\ mode \in {"filters", "rss"}

MC_Next ==
    \/ mode = "filters" /\ Next /\ UNCHANGED <<rssVars, mode>>
    \/ mode = "rss" /\ RssNext /\ UNCHANGED <<vars, mode>>

MC_Spec == MC_Init /\ [][MC_Next]_allVars

\* The filter calls alone.
MC_FilterSpec ==
    /\ Init /\ RssInit /\ mode = "filters"
    /\ [][Next /\ UNCHANGED <<rssVars, mode>>]_allVars

\* The RSS calls alone.
MC_RssSpec ==
    /\ Init /\ RssInit /\ mode = "rss"
    /\ [][RssNext /\ UNCHANGED <<vars, mode>>]_allVars
=============================================================================
