---------------------------- MODULE PacketEncode ----------------------------
(***************************************************************************)
(* The DNS response encoder of src/core/packet.c: do_dname_data_encode     *)
(* (name compression), packet_encode_rr (one RR, rolled back to its mark   *)
(* when the message outgrows maxMsgLen) and packet_encode_rrset (one       *)
(* RRset, rotated in the answer section by the process-wide counter        *)
(* round_robin_off, rolled back whole and flagged TC on truncation in the  *)
(* answer and authority sections).                                         *)
(*                                                                         *)
(* The message buffer is abstracted to its write position and the list of *)
(* name tokens in it: a label of a domain node written at an offset, or a  *)
(* compression pointer to a node.  Fixed-size fields and opaque rdata only *)
(* move the position.  Each domain node keeps its compressed_offset, the   *)
(* offset where its label was first written in the current message.        *)
(***************************************************************************)
EXTENDS Integers, Sequences

CONSTANTS
    Nodes,         \* domain tree nodes other than the root
    Root,          \* the root node (domain->parent == NULL)
    Parent,        \* [Nodes -> Nodes \cup {Root}]
    LabelLen,      \* length of each node's own label, [Nodes -> 1..63]
    RRsets,        \* [ids -> [owner : Nodes, rrs : Seq(Rdata)]]
    AnswerSets,    \* the answers query.c may ask to encode: Seq of entries
    MaxAnswers,    \* values query->maxAnswer may take (0 = no limit)
    HeaderLen,     \* position after the header and the question
    MaxMsgLen,     \* q->maxMsgLen (512 for UDP)
    PtrBits,       \* offset bits of a compression pointer (14)
    CounterBits,   \* width of the signed int round_robin_off
    MaxQueries     \* bound on encoded responses of one behaviour

Sections == {"answer", "authority", "additional", "optauthority"}
TruncSections == {"answer", "authority", "optauthority"}

\* A name token in the buffer.
Token == [kind : {"label", "ptr"}, node : Nodes, at : Nat, tgt : Nat]

VARIABLES
    answer,        \* the answer being encoded: Seq of [rrset, section]
    next,          \* index of the next entry of answer to encode
    pos,           \* buffer_get_position(q->packet)
    buf,           \* name tokens below pos
    off,           \* compressed_offset of every node (0 = none)
    tc,            \* the TC flag of the response header
    maxAnswer,     \* query->maxAnswer
    rrOff,         \* static round_robin_off
    oob,           \* an rrs[i] with i >= rr_count was read
    rolledBack,    \* ghost: a truncation rolled the buffer back this message
    queries        \* responses started so far

vars == <<answer, next, pos, buf, off, tc, maxAnswer, rrOff, oob, rolledBack,
          queries>>

-----------------------------------------------------------------------------
(* C arithmetic.                                                           *)

\* INT_MAX and INT_MIN of a signed int of CounterBits bits.
IntMax == (2^(CounterBits - 2) - 1) * 2 + 1
IntMin == -IntMax - 1

\* round_robin_off++ past INT_MAX wraps to INT_MIN (what the build does
\* for the signed overflow).
WrapInt(x) == IF x > IntMax THEN IntMin ELSE x

\* x % n in C: the remainder takes the sign of the dividend.
CRem(x, n) == IF x >= 0 THEN x % n ELSE -((-x) % n)

\* (uint16_t) x
U16(x) == x % 65536

\* The offset a 2-byte pointer 0xc000 | offset carries.
PtrTarget(o) == o % 2^PtrBits

RECURSIVE NameSize(_)
\* Wire length of a full uncompressed name (dname->name_size).
NameSize(d) == IF d = Root THEN 1 ELSE LabelLen[d] + 1 + NameSize(Parent[d])

-----------------------------------------------------------------------------
(* The encoder as operators on an encoding state                           *)
(* st = [pos, buf, off, ok, failed, added, oob].                           *)

RECURSIVE DnameEncode(_, _)
(* do_dname_data_encode: walk up from d while the node has no offset,      *)
(* recording its offset and writing its label; then a pointer to the first *)
(* node that has an offset, or the root's zero byte.                       *)
DnameEncode(st, d) ==
    IF d # Root /\ st.off[d] = 0
    THEN DnameEncode([st EXCEPT !.off[d] = st.pos,
                                !.buf = Append(@, [kind |-> "label", node |-> d,
                                                   at |-> st.pos, tgt |-> 0]),
                                !.pos = @ + LabelLen[d] + 1], Parent[d])
    ELSE IF d # Root
    THEN [st EXCEPT !.buf = Append(@, [kind |-> "ptr", node |-> d, at |-> st.pos,
                                        tgt |-> PtrTarget(st.off[d])]),
                    !.pos = @ + 2]
    ELSE [st EXCEPT !.pos = @ + 1]

\* Mutant: the buffer is reset to its start instead of to the mark.
RollbackToStart(st, mark) ==
    [st EXCEPT !.pos = 0, !.buf = <<>>]

\* buffer_set_position(q->packet, mark): the tokens at or past mark are gone,
\* the compressed offsets are left as they are.
Rollback(st, mark) ==
    [st EXCEPT !.pos = mark, !.buf = SelectSeq(@, LAMBDA t : t.at < mark)]

RECURSIVE RdataEncode(_, _, _)
\* The rdata atoms of rr from index j on, by wire-format kind.
RdataEncode(st, rr, j) ==
    IF j > Len(rr) THEN st
    ELSE LET a == rr[j] IN
         RdataEncode(CASE a.kind = "cdname" -> DnameEncode(st, a.node)
                       [] a.kind = "udname" -> [st EXCEPT !.pos = @ + NameSize(a.node)]
                       [] OTHER             -> [st EXCEPT !.pos = @ + a.len],
                     rr, j + 1)

\* Mutant: a record that does not fit is left in the buffer.
EncodeRRNoRollback(st, owner, rr) ==
    LET s == RdataEncode([DnameEncode(st, owner) EXCEPT !.pos = @ + 10], rr, 1)
    IN  IF s.pos <= MaxMsgLen THEN [s EXCEPT !.ok = TRUE]
        ELSE [s EXCEPT !.ok = FALSE]

(* packet_encode_rr: owner name, type, class, ttl and rdlength (10 bytes), *)
(* the rdata; kept if the position is within maxMsgLen, else rolled back.  *)
EncodeRR(st, owner, rr) ==
    LET s == RdataEncode([DnameEncode(st, owner) EXCEPT !.pos = @ + 10], rr, 1)
    IN  IF s.pos <= MaxMsgLen THEN [s EXCEPT !.ok = TRUE]
        ELSE [Rollback(s, st.pos) EXCEPT !.ok = FALSE]

RECURSIVE EncodeLoop(_, _, _, _, _)
(* One of the two loops of packet_encode_rrset: records i .. hi - 1 while  *)
(* added < cap, stopping at the first record that does not fit.  Reading   *)
(* rrs[i] for i >= rr_count is flagged and ends the loop.                  *)
EncodeLoop(st, R, i, hi, cap) ==
    IF i >= hi \/ st.added >= cap THEN st
    ELSE IF i >= Len(R.rrs) THEN [st EXCEPT !.oob = TRUE]
    ELSE LET s == EncodeRR(st, R.owner, R.rrs[i + 1]) IN
         IF s.ok THEN EncodeLoop([s EXCEPT !.added = @ + 1], R, i + 1, hi, cap)
         ELSE [s EXCEPT !.failed = TRUE]

\* Mutant: only the failing record is rolled back, not the whole RRset.
EncodeRRsetNoSetRollback(st, R, section, rr) ==
    LET n     == Len(R.rrs)
        cap   == IF maxAnswer > 0 THEN maxAnswer ELSE 65535
        start == IF section = "answer" THEN U16(CRem(rr, n)) ELSE 0
        s1    == EncodeLoop(st, R, start, n, cap)
    IN  IF s1.failed \/ s1.oob THEN s1 ELSE EncodeLoop(s1, R, 0, start, cap)

(* packet_encode_rrset from the encoding state st with counter value rr.   *)
EncodeRRset(st, R, section, rr) ==
    LET n     == Len(R.rrs)
        cap   == IF maxAnswer > 0 THEN maxAnswer ELSE 65535
        start == IF section = "answer" THEN U16(CRem(rr, n)) ELSE 0
        s1    == EncodeLoop(st, R, start, n, cap)
        s2    == IF s1.failed \/ s1.oob THEN s1 ELSE EncodeLoop(s1, R, 0, start, cap)
    IN  IF s2.failed /\ section \in TruncSections
        THEN [Rollback(s2, st.pos) EXCEPT !.added = 0]
        ELSE s2

-----------------------------------------------------------------------------
Init ==
    /\ answer = <<>>
    /\ next = 1
    /\ pos = HeaderLen
    /\ buf = <<>>
    /\ off = [d \in Nodes |-> 0]
    /\ tc = FALSE
    /\ maxAnswer = 0
    /\ rrOff = 0
    /\ oob = FALSE
    /\ rolledBack = FALSE
    /\ queries = 0

(* A new response once the previous one is complete: the header and the   *)
(* question are in the buffer and the compression offsets of the last      *)
(* message are cleared (query_reset / query_clear_dname_offsets).          *)
StartResponse(a, m) ==
    /\ next > Len(answer)
    /\ queries < MaxQueries
    /\ queries' = queries + 1
    /\ answer' = a
    /\ maxAnswer' = m
    /\ next' = 1
    /\ pos' = HeaderLen
    /\ buf' = <<>>
    /\ off' = [d \in Nodes |-> 0]
    /\ tc' = FALSE
    /\ rolledBack' = FALSE
    /\ UNCHANGED <<rrOff, oob>>

(* encode_answer calls packet_encode_rrset on the next RRset of the        *)
(* answer; round_robin_off++ happens for answer-section RRsets.            *)
EncodeNext ==
    /\ next <= Len(answer)
    /\ LET e  == answer[next]
           st == [pos |-> pos, buf |-> buf, off |-> off, ok |-> TRUE,
                  failed |-> FALSE, added |-> 0, oob |-> FALSE]
           s  == EncodeRRset(st, RRsets[e.rrset], e.section, rrOff)
       IN  /\ pos' = s.pos
           /\ buf' = s.buf
           /\ off' = s.off
           /\ tc' = (tc \/ (s.failed /\ e.section \in TruncSections))
           /\ oob' = (oob \/ s.oob)
           /\ rolledBack' = (rolledBack \/ s.failed)
           /\ rrOff' = IF e.section = "answer" THEN WrapInt(rrOff + 1) ELSE rrOff
    /\ next' = next + 1
    /\ UNCHANGED <<answer, maxAnswer, queries>>

Next ==
    \/ \E a \in AnswerSets, m \in MaxAnswers : StartResponse(a, m)
    \/ EncodeNext

Spec == Init /\ [][Next]_vars

-----------------------------------------------------------------------------
TypeOK ==
    /\ next \in 1..(Len(answer) + 1)
    /\ pos \in Nat /\ pos >= HeaderLen
    /\ buf \in Seq(Token)
    /\ off \in [Nodes -> Nat]
    /\ tc \in BOOLEAN /\ oob \in BOOLEAN /\ rolledBack \in BOOLEAN
    /\ rrOff \in IntMin..IntMax
    /\ queries \in 0..MaxQueries

\* Every compression pointer in the message leads back to a label of the
\* node it stands for, written earlier in the same message.
PointersResolve ==
    \A i \in DOMAIN buf : buf[i].kind = "ptr" =>
        \E j \in DOMAIN buf : /\ buf[j].kind = "label"
                             /\ buf[j].node = buf[i].node
                             /\ buf[j].at = buf[i].tgt
                             /\ buf[j].at < buf[i].at

(* The spec's round-trip requirement with truncation included: after       *)
(* packet_encode_rr or packet_encode_rrset rolls the buffer back, the       *)
(* compressed offsets recorded past the mark (query_clear_dname_offsets is  *)
(* commented out) must not be used by later pointers.                      *)
PointersResolveAfterRollback == PointersResolve

(* The message never grows past q->maxMsgLen: a record that does not fit   *)
(* is rolled back by packet_encode_rr.                                     *)
WithinMessageLimit == pos <= MaxMsgLen

(* When an answer or authority RRset does not fit, packet_encode_rrset     *)
(* sets TC and leaves none of its records in the message.                  *)
TruncationDropsWholeRRset ==
    [][ (next <= Len(answer) /\ next' = next + 1 /\ tc' /\ ~tc) => pos' = pos ]_vars

(* The rotated start of packet_encode_rrset never makes the second loop    *)
(* read rrs[i] past rr_count, however long the process has run.            *)
RRIndexInBounds == ~oob

=============================================================================
