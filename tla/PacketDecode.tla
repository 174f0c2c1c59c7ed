---------------------------- MODULE PacketDecode ----------------------------
(***************************************************************************)
(* The question decoder of src/core/packet.c, packet_read_query_section,   *)
(* as a pure operator over the bytes of a request from the start of its    *)
(* question section, checked against the question grammar of RFC 1035     *)
(* (4.1.2: QNAME QTYPE QCLASS; 3.1: a name is length-prefixed labels of    *)
(* 1 .. 63 octets ended by a zero octet, at most MAXDOMAINLEN long).       *)
(*                                                                         *)
(* The buffer's limit is the request length; the packet buffer goes on     *)
(* past it, and the bytes there are whatever an earlier packet left.  The  *)
(* decoder reads with offsets from the question's start, as the C code     *)
(* does with src - query_name; byte at offset o is mem[o + 1].             *)
(***************************************************************************)
EXTENDS Integers, Sequences, Bitwise

CONSTANTS
    MaxDomainLen,  \* MAXDOMAINLEN
    ByteVals,      \* the octet values requests are made of
    MaxQueryLen    \* longest question section enumerated

-----------------------------------------------------------------------------
(* The decoder as the code runs it.  A read past the bytes that exist      *)
(* (the request and the one stale octet after its limit) is "oob".         *)

\* LabelRejected without the buffer_end test
LabelRejectedNoEnd(mem, end, o) ==
    \/ (mem[o + 1] & 192) # 0
    \/ o + mem[o + 1] + 2 > MaxDomainLen

(* The test at the top of the loop: a pointer or extended label type       *)
(* [*src & 0xc0], a label that runs past the buffer's end, or one that     *)
(* runs past MAXDOMAINLEN from the name's start.                           *)
LabelRejected(mem, end, o) ==
    \/ (mem[o + 1] & 192) # 0
    \/ o + mem[o + 1] + 2 > end
    \/ o + mem[o + 1] + 2 > MaxDomainLen

(* while [*src] { test; memcpy the label; src += *src + 1 }: the offset of *)
(* the terminating zero octet, or how the walk stopped.                    *)
RECURSIVE ScanName(_, _, _)
ScanName(mem, end, o) ==
    IF o + 1 > Len(mem) THEN [rc |-> "oob"]
    ELSE IF mem[o + 1] = 0 THEN [rc |-> "ok", at |-> o]
    ELSE IF LabelRejected(mem, end, o) THEN [rc |-> "fail"]
    ELSE IF o + mem[o + 1] + 1 > Len(mem) THEN [rc |-> "oob"]
    ELSE ScanName(mem, end, o + mem[o + 1] + 1)

\* buffer_read_u16: network byte order
ReadU16(mem, o) == mem[o + 1] * 256 + mem[o + 2]

(* packet_read_query_section over the memory mem whose first end octets    *)
(* are the question section: the name copied to dst with its terminator,   *)
(* then the length and stripped-packet test, then QTYPE and QCLASS and the *)
(* buffer position after them.                                             *)
ReadQuerySection(mem, end) ==
    LET s == ScanName(mem, end, 0)
        len == s.at + 1
    IN  IF s.rc # "ok" THEN [rc |-> s.rc]
        ELSE IF len > MaxDomainLen \/ len + 4 > end THEN [rc |-> "fail"]
        ELSE [rc |-> "ok", name |-> SubSeq(mem, 1, len),
              qtype |-> ReadU16(mem, len), qclass |-> ReadU16(mem, len + 2),
              pos |-> len + 4]

-----------------------------------------------------------------------------
(* The reference: RFC 1035's grammar, stated on sequences.                 *)

\* A complete encoded name: a zero octet, or a label of 1 .. 63 octets
\* followed by a name.
RECURSIVE IsName(_)
IsName(s) ==
    \/ s = <<0>>
    \/ /\ Len(s) > 1
       /\ s[1] \in 1..63
       /\ Len(s) > s[1] + 1
       /\ IsName(SubSeq(s, s[1] + 2, Len(s)))

\* A question: a name of at most MAXDOMAINLEN octets, then QTYPE and QCLASS;
\* anything may follow (the other sections).
Question(b) ==
    LET ks == {k \in 1..Len(b) : IsName(SubSeq(b, 1, k))}
    IN  IF \E k \in ks : k <= MaxDomainLen /\ k + 4 <= Len(b)
        THEN LET k == CHOOSE k \in ks : TRUE
             IN  [rc |-> "ok", name |-> SubSeq(b, 1, k),
                  qtype |-> b[k + 1] * 256 + b[k + 2],
                  qclass |-> b[k + 3] * 256 + b[k + 4], pos |-> k + 4]
        ELSE [rc |-> "fail"]

\* Every question section of up to MaxQueryLen octets.
Requests == UNION {[1..n -> ByteVals] : n \in 0..MaxQueryLen}

-----------------------------------------------------------------------------
(* One request arriving in a packet buffer that an earlier packet used:    *)
(* req is the question section up to the buffer's limit, stale the octet   *)
(* the earlier packet left after it, query what the decoder returned       *)
(* (query_st's qname, qtype and qclass, and the buffer position).          *)
VARIABLES req, stale, query

decVars == <<req, stale, query>>

DecInit ==
    /\ req = <<>>
    /\ stale = 0
    /\ query = [rc |-> "none"]

\* The packet loop hands a request to packet_read_query_section.
Receive(b, x) ==
    /\ query.rc = "none"
    /\ req' = b
    /\ stale' = x
    /\ query' = ReadQuerySection(b \o <<x>>, Len(b))

DecNext ==
    /\ query.rc = "none"
    /\ \E b \in Requests, x \in ByteVals : Receive(b, x)

-----------------------------------------------------------------------------
(* packet_read_query_section accepts exactly the well-formed questions, and *)
(* returns their name, type, class and the position after them, whatever   *)
(* the stale octet after the request's limit holds: the loop reads *src    *)
(* before it knows the name is inside the request, the memcpy trusts the   *)
(* label length, and the two MAXDOMAINLEN tests are split between the loop *)
(* and the end.                                                            *)
DecoderMatchesReference ==
    query.rc # "none" => query = Question(req)

=============================================================================
