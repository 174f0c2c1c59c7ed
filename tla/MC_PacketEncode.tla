-------------------------- MODULE MC_PacketEncode --------------------------
(* A small domain tree under example.com and answers that exercise        *)
(* compression, rotation and truncation at the UDP limit of 512 bytes.    *)
EXTENDS PacketEncode, PacketDecode, TcpFront, TLC

CONSTANTS root, com, ex, www, mail, big

MC_Nodes == {com, ex, www, mail, big}

\* com, example.com, www.example.com, mail.example.com, big.example.com
MC_Parent == (com :> root) @@ (ex :> com) @@ (www :> ex) @@ (mail :> ex)
             @@ (big :> ex)
MC_LabelLen == (com :> 3) @@ (ex :> 7) @@ (www :> 3) @@ (mail :> 4)
               @@ (big :> 3)

Raw(n)   == [kind |-> "raw", len |-> n, node |-> root]
CName(d) == [kind |-> "cdname", len |-> 0, node |-> d]
UName(d) == [kind |-> "udname", len |-> 0, node |-> d]

\* A records of www, a CNAME www -> mail, TXT records of 201 bytes of mail
\* and big, an SRV record of example.com naming mail, an A record of big.
MC_RRsets ==
    ("wwwA"   :> [owner |-> www,  rrs |-> <<<<Raw(4)>>, <<Raw(4)>>, <<Raw(4)>>>>])
 @@ ("wwwCN"  :> [owner |-> www,  rrs |-> <<<<CName(mail)>>>>])
 @@ ("mailTX" :> [owner |-> mail, rrs |-> <<<<Raw(201)>>, <<Raw(201)>>>>])
 @@ ("bigTX"  :> [owner |-> big,  rrs |-> <<<<Raw(201)>>, <<Raw(201)>>, <<Raw(201)>>>>])
 @@ ("exSRV"  :> [owner |-> ex,   rrs |-> <<<<Raw(6), UName(mail)>>>>])
 @@ ("bigA"   :> [owner |-> big,  rrs |-> <<<<Raw(4)>>>>])

E(r, s) == [rrset |-> r, section |-> s]

MC_AnswerSets ==
    { << E("wwwA", "answer"), E("exSRV", "authority") >>,
      << E("wwwCN", "answer"), E("mailTX", "answer"), E("wwwA", "additional") >>,
      << E("bigTX", "answer"), E("bigA", "additional"), E("wwwA", "additional") >>,
      << E("mailTX", "authority"), E("wwwCN", "answer"), E("bigA", "optauthority") >> }

\* www.example.com IN A in the question: 12 + 17 + 4
MC_HeaderLen == 33

\* The TCP clients.
CONSTANTS c1, c2
MC_Clients == {c1, c2}

(* The two halves of the query path, decoding a request and encoding a     *)
(* response, share no state in the model (the answers do not depend on the *)
(* question's octets), and the TCP front-end's framing and forwarding do   *)
(* not depend on either, so one state graph holds all three: a behaviour   *)
(* is one request decoded, a run of responses encoded, or a run of the TCP *)
(* thread.                                                                 *)
VARIABLE mode

allVars == <<vars, decVars, tcpVars, mode>>

\* Outside the TCP mode the servers' behaviour is never read: fix it, so
\* that it does not multiply the states of the other two modes.
IdleTcp == behaviour = [i \in Servers |-> "refuse"]

MC_Init ==
    /\ Init
    /\ DecInit
    /\ TcpInit
    /\ mode \in {"decode", "encode", "tcp"}
    /\ mode # "tcp" => IdleTcp

MC_Next ==
    \/ mode = "decode" /\ DecNext /\ UNCHANGED <<vars, tcpVars, mode>>
    \/ mode = "encode" /\ Next /\ UNCHANGED <<decVars, tcpVars, mode>>
    \/ mode = "tcp" /\ TcpNext /\ UNCHANGED <<vars, decVars, mode>>

MC_Spec == MC_Init /\ [][MC_Next]_allVars

\* The encoder alone, for the runs about one encoder property.
MC_EncodeSpec ==
    /\ Init /\ DecInit /\ TcpInit /\ IdleTcp /\ mode = "encode"
    /\ [][Next /\ UNCHANGED <<decVars, tcpVars, mode>>]_allVars

\* The TCP front-end alone.
MC_TcpSpec ==
    /\ Init /\ DecInit /\ TcpInit /\ mode = "tcp"
    /\ [][TcpNext /\ UNCHANGED <<vars, decVars, mode>>]_allVars
====
