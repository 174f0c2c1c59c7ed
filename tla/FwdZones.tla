------------------------------ MODULE FwdZones ------------------------------
(***************************************************************************)
(* The forward zone policy of src/src/forward.c: remote_sock_init builds   *)
(* the default policy and the zone table from the configuration strings    *)
(* (parse_dns_fwd_zones, resolve_dns_servers), and find_zone_fwd_addrs     *)
(* picks the upstream list for a query's domain.                           *)
(*                                                                         *)
(* Strings are sequences of one-character strings, because the parse and   *)
(* the suffix test work on characters.  An upstream address is one         *)
(* character: getaddrinfo's work on it is not modelled.                    *)
(***************************************************************************)
EXTENDS Integers, Sequences, SequencesExt

CONSTANTS
    FwdAddrs,    \* the fwd_addrs strings the configuration may give
    FwdDefAddr,  \* fwd_def_addrs
    QNames       \* the query domain names routed

VARIABLES
    status,   \* "boot", "up", or how remote_sock_init ended: "exit", "crash"
    zones,    \* zones_fwd_addrs[0 .. g_fwd_zone_num - 1]
    default,  \* default_fwd_addrs
    routed    \* the last find_zone_fwd_addrs call: its name and its policy

vars == <<status, zones, default, routed>>

\* An unused slot of server_addrs (calloc'ed, never filled).
NoAddr == "none"

\* "defulat.zone", the default policy's name (never compared), kept as one
\* symbol that no query name contains.
DefaultZoneName == <<"defulat.zone">>

\* find_zone_fwd_addrs found nothing yet.
NoRoute == [name |-> <<>>, policy |-> [domain_name |-> <<>>]]

-----------------------------------------------------------------------------
(* String helpers, by what the C library calls do.                         *)

\* The number of c in s: the strchr counting loops.
CountOf(s, c) == Len(SelectSeq(s, LAMBDA x : x = c))

\* strtok(s, c) repeated: the non-empty runs of s between separators c.
RECURSIVE Tokens(_, _)
Tokens(s, c) ==
    IF s = <<>> THEN <<>>
    ELSE LET i    == IF Contains(s, c) THEN SelectInSeq(s, LAMBDA x : x = c)
                     ELSE Len(s) + 1
             head == SubSeq(s, 1, i - 1)
             rest == SubSeq(s, i + 1, Len(s))
         IN  IF head = <<>> THEN Tokens(rest, c) ELSE <<head>> \o Tokens(rest, c)

-----------------------------------------------------------------------------
(* resolve_dns_servers: servers_len is one more than the number of commas, *)
(* and the strtok tokens fill server_addrs from the start; a slot with no  *)
(* token stays zero.                                                       *)
ResolveDnsServers(suffix, addrs) ==
    LET toks == Tokens(addrs, ",")
        n    == CountOf(addrs, ",") + 1
    IN  [domain_name  |-> suffix,
         servers_len  |-> n,
         server_addrs |-> [i \in 1..n |-> IF i <= Len(toks) THEN toks[i]
                                          ELSE NoAddr]]

(* parse_dns_fwd_zones: g_fwd_zone_num is one more than the number of '%'; *)
(* each strtok token is split at its last '@' into zone and addresses, and *)
(* a token without '@' exits.  The table is then filled for every index    *)
(* below g_fwd_zone_num: an index with no token passes NULL strings to     *)
(* resolve_dns_servers, whose strlen faults.                               *)
ParseDnsFwdZones(s) ==
    LET toks == Tokens(s, "%")
        num  == CountOf(s, "%") + 1
        At(t) == SelectLastInSeq(t, LAMBDA x : x = "@")
    IN  CASE s = <<>> ->
                 [rc |-> "up", zones |-> <<>>]
          [] \E i \in 1..Len(toks) : ~Contains(toks[i], "@") ->
                 [rc |-> "exit", zones |-> <<>>]
          [] num > Len(toks) ->
                 [rc |-> "crash", zones |-> <<>>]
          [] OTHER ->
                 [rc |-> "up",
                  zones |-> [i \in 1..num |->
                              ResolveDnsServers(SubSeq(toks[i], 1, At(toks[i]) - 1),
                                                SubSeq(toks[i], At(toks[i]) + 1,
                                                       Len(toks[i])))]]

-----------------------------------------------------------------------------
(* find_zone_fwd_addrs: the first zone, in declaration order, whose name   *)
(* ends the domain name (strncmp on the last zone_len characters); the     *)
(* default policy when none does.                                          *)
FindZoneFwdAddrs(zs, dflt, name) ==
    IF \E i \in 1..Len(zs) : IsSuffix(zs[i].domain_name, name)
    THEN zs[SelectInSeq(zs, LAMBDA z : IsSuffix(z.domain_name, name))]
    ELSE dflt

\* The policy spec.md 4.3 asks for: the longest matching suffix, ties
\* broken by declaration order, else the default.
LongestSuffixZone(zs, dflt, name) ==
    LET m == {i \in 1..Len(zs) : IsSuffix(zs[i].domain_name, name)}
    IN  IF m = {} THEN dflt
        ELSE zs[CHOOSE i \in m :
                  \A j \in m : \/ Len(zs[j].domain_name) < Len(zs[i].domain_name)
                               \/ Len(zs[j].domain_name) = Len(zs[i].domain_name)
                                  /\ i <= j]

-----------------------------------------------------------------------------
Init ==
    /\ status = "boot"
    /\ zones = <<>>
    /\ default = [domain_name |-> <<>>]
    /\ routed = NoRoute

(* remote_sock_init, as far as the zone policy goes: the default policy    *)
(* first, then the zone table.  The rings and threads it creates next are  *)
(* the subject of FwdCache.                                                *)
RemoteSockInit(s) ==
    LET p == ParseDnsFwdZones(s)
    IN  /\ status = "boot"
        /\ default' = ResolveDnsServers(DefaultZoneName, FwdDefAddr)
        /\ status' = p.rc
        /\ zones' = p.zones
        /\ UNCHANGED routed

\* A forwarding thread or the TCP thread routes a query.
RouteQuery(name) ==
    /\ status = "up"
    /\ routed' = [name |-> name, policy |-> FindZoneFwdAddrs(zones, default, name)]
    /\ UNCHANGED <<status, zones, default>>

Next ==
    \/ \E s \in FwdAddrs : RemoteSockInit(s)
    \/ \E n \in QNames : RouteQuery(n)

Spec == Init /\ [][Next]_vars

-----------------------------------------------------------------------------
(* Every query goes to the upstream list of the longest configured zone    *)
(* suffix of its name, as spec.md 4.3 step 2 says; find_zone_fwd_addrs     *)
(* returns the first declared zone that matches instead.                   *)
ZoneRoutingLongestSuffix ==
    routed # NoRoute =>
        routed.policy = LongestSuffixZone(zones, default, routed.name)

=============================================================================
