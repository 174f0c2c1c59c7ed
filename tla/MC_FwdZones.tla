---------------------------- MODULE MC_FwdZones ----------------------------
(* Zone configurations over the characters a, b and '.', with one-character *)
(* upstream addresses 1 and 2.                                              *)
EXTENDS FwdZones

\* "b@1%a.b@2": the zone b is declared before its subzone a.b
MC_FwdAddrs ==
    { <<"b", "@", "1", "%", "a", ".", "b", "@", "2">>,
      <<"a", ".", "b", "@", "1", "%", "b", "@", "2">> }

MC_FwdDefAddr == <<"1", ",", "2">>

\* a.b, ab, b, a
MC_QNames ==
    { <<"a", ".", "b">>, <<"a", "b">>, <<"b">>, <<"a">> }
=============================================================================
