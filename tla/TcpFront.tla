------------------------------ MODULE TcpFront ------------------------------
(***************************************************************************)
(* The TCP front-end of src/src/tcp_process.c.  dns_tcp_process_init       *)
(* starts one thread, dns_tcp_process, which opens its own record table    *)
(* (kdns_tcp), sleeps, listens on port 53 and then serves one connection   *)
(* at a time: it answers from its table, or, when query_process refuses,   *)
(* forwards the request with dns_handle_tcp_remote over one upstream       *)
(* socket to each configured server in turn.  The master thread hands it   *)
(* every admin update through tcp_domian_databd_update (domain_update.c),  *)
(* from the moment main starts it, with no handshake.                      *)
(*                                                                         *)
(* A message is a sequence of octets; a length prefix is two octets in     *)
(* network order, DNS message octets are abstract tokens.  query_process   *)
(* and the record table (core, not in this tree) are abstracted to: a name *)
(* in the table is answered locally, any other is refused.                 *)
(***************************************************************************)
EXTENDS Integers, Sequences

CONSTANTS
    Clients,      \* TCP clients, each with one connection and one query
    Names,        \* query names
    ZoneNames,    \* the names kdns_zones_soa_create puts in kdns_tcp.db
    UpdateNames,  \* the names admin updates add
    NumServers,   \* fwd_addrs->servers_len
    Behaviours,   \* what an upstream server may do with a connection
    MaxSegment,   \* the fewest octets an upstream reply's first segment has
    SysMayFail    \* whether socket, setsockopt, accept and recv may fail

Servers == 1..NumServers
NULL == "NULL"
NoReply == [prefix |-> -1, body |-> <<>>]

VARIABLES
    pc,         \* where dns_tcp_process is
    dbOpen,     \* kdns_tcp.db is not NULL
    db,         \* the names kdns_tcp.db holds
    behaviour,  \* behaviour[i]: what server_addrs[i] does
    conn,       \* conn[c]: "idle", "pending" (in the backlog), "served"
    asked,      \* asked[c]: the name client c asks for
    reply,      \* reply[c]: what client c received: a length prefix, a body
    leaked,     \* client sockets accept returned and nothing closed
    sentUpdates \* the names the master handed to tcp_domian_databd_update

tcpVars == <<pc, dbOpen, db, behaviour, conn, asked, reply, leaked, sentUpdates>>

\* htons(n) copied to the buffer's first two octets.
LenPrefix(n) == <<n \div 256, n % 256>>

\* The answer query_process writes for a name in the table.
Answer(q) == <<"answer", q>>

\* The DNS message server i answers with, and its TCP frame.
UpstreamMsg(i, q) == <<"upstream", i, q>>
UpstreamFrame(i, q) == LenPrefix(Len(UpstreamMsg(i, q))) \o UpstreamMsg(i, q)

\* n zero octets: the memset part of a buffer.
Zeros(n) == [k \in 1..n |-> 0]

\* How a client reads a reply: the prefix, then that many octets.
ReadFrame(s) ==
    IF Len(s) < 2 THEN NoReply
    ELSE [prefix |-> s[1] * 256 + s[2], body |-> SubSeq(s, 3, Len(s))]

SysOutcomes == IF SysMayFail THEN BOOLEAN ELSE {TRUE}

-----------------------------------------------------------------------------
(* dns_do_remote_tcp_query on one socket, for servers i .. servers_len, as *)
(* the loop of dns_handle_tcp_remote runs it: the set of ways it can end,  *)
(* each with retfwd and the octets recv put in recv_buf.  The socket is    *)
(* made once: a connect on a socket already connected fails with EISCONN,  *)
(* and on one whose earlier connect timed out (SO_SNDTIMEO) with EALREADY; *)
(* a refused connect leaves it free.  A connected server's reply comes in  *)
(* one recv, of at least MaxSegment octets of its frame; a silent server   *)
(* makes recv time out (SO_RCVTIMEO) with -1.                              *)
RECURSIVE TryServers(_, _, _)
TryServers(i, sock, q) ==
    IF i > NumServers THEN {[ret |-> 0, data |-> <<>>]}
    ELSE CASE sock # "fresh" \/ behaviour[i] = "refuse" ->
                  TryServers(i + 1, sock, q)
           [] behaviour[i] = "unreachable" ->
                  TryServers(i + 1, "connecting", q)
           [] behaviour[i] = "silent" ->
                  TryServers(i + 1, "connected", q)
           [] OTHER ->
                  {[ret |-> k, data |-> SubSeq(UpstreamFrame(i, q), 1, k)] :
                     k \in MaxSegment..Len(UpstreamFrame(i, q))}

(* The reply to the client: htons(retfwd) over the first two octets of     *)
(* recv_buf (zeroed past what recv wrote), and retfwd + 2 octets sent.     *)
ForwardReply(data, k) ==
    LenPrefix(k) \o SubSeq(data \o Zeros(2), 3, k + 2)

(* dns_handle_tcp_remote: socket() failing returns at once; either         *)
(* setsockopt failing closes the socket and returns; otherwise the         *)
(* failover loop, the reply when retfwd > 0, and close.  Each way it can   *)
(* end is the octets sent to the client.                                   *)
DnsHandleTcpRemote(q, sockOK, optOK) ==
    IF ~sockOK \/ ~optOK THEN {<<>>}
    ELSE {IF r.ret > 0 THEN ForwardReply(r.data, r.ret) ELSE <<>> :
            r \in TryServers(1, "fresh", q)}

-----------------------------------------------------------------------------
TcpInit ==
    /\ pc = "start"
    /\ dbOpen = FALSE
    /\ db = {}
    /\ behaviour \in [Servers -> Behaviours]
    /\ conn = [c \in Clients |-> "idle"]
    /\ asked = [c \in Clients |-> NULL]
    /\ reply = [c \in Clients |-> NoReply]
    /\ leaked = {}
    /\ sentUpdates = {}

(* dns_tcp_process up to its sleep: memset(&kdns_tcp), domain_store_open  *)
(* (exit(-1) when it fails), then the zones and their SOA records.        *)
TcpDbOpen(ok) ==
    /\ pc = "start"
    /\ pc' = IF ok THEN "sleep" ELSE "exit"
    /\ dbOpen' = ok
    /\ db' = IF ok THEN ZoneNames ELSE {}
    /\ UNCHANGED <<behaviour, conn, asked, reply, leaked, sentUpdates>>

\* After sleep(30): socket, bind and listen; exit(1) when bind or listen fails.
TcpListen(ok) ==
    /\ pc = "sleep"
    /\ pc' = IF ok THEN "accept" ELSE "exit"
    /\ UNCHANGED <<dbOpen, db, behaviour, conn, asked, reply, leaked, sentUpdates>>

(* process_master's fan-out calls tcp_domian_databd_update with a copy of  *)
(* every admin update; domaindata_update on a NULL table applies nothing. *)
MasterTcpUpdate(n) ==
    /\ pc # "exit"
    /\ n \notin sentUpdates
    /\ sentUpdates' = sentUpdates \cup {n}
    /\ db' = IF dbOpen THEN db \cup {n} ELSE db
    /\ UNCHANGED <<pc, dbOpen, behaviour, conn, asked, reply, leaked>>

\* A client connects to the listening socket and sends its query.
ClientConnect(c, q) ==
    /\ pc = "accept"
    /\ conn[c] = "idle"
    /\ conn' = [conn EXCEPT ![c] = "pending"]
    /\ asked' = [asked EXCEPT ![c] = q]
    /\ UNCHANGED <<pc, dbOpen, db, behaviour, reply, leaked, sentUpdates>>

(* One turn of the accept loop, for the pending connection of client c.    *)
Serving(c) == pc = "accept" /\ conn[c] = "pending"

\* accept fails (the client aborted): continue.
TcpAcceptFail(c) ==
    /\ SysMayFail
    /\ Serving(c)
    /\ conn' = [conn EXCEPT ![c] = "dropped"]
    /\ UNCHANGED <<pc, dbOpen, db, behaviour, asked, reply, leaked, sentUpdates>>

\* recv fails: continue, without closing temp_sock_descriptor.
TcpRecvFail(c) ==
    /\ SysMayFail
    /\ Serving(c)
    /\ conn' = [conn EXCEPT ![c] = "dropped"]
    /\ leaked' = leaked \cup {c}
    /\ UNCHANGED <<pc, dbOpen, db, behaviour, asked, reply, sentUpdates>>

(* query_process answers from kdns_tcp.db; the answer goes back behind     *)
(* htons(retLen), retLen + 2 octets, and the connection is closed.        *)
TcpAnswer(c) ==
    /\ Serving(c)
    /\ asked[c] \in db
    /\ conn' = [conn EXCEPT ![c] = "answered"]
    /\ reply' = [reply EXCEPT ![c] =
                   ReadFrame(LenPrefix(Len(Answer(asked[c]))) \o Answer(asked[c]))]
    /\ UNCHANGED <<pc, dbOpen, db, behaviour, asked, leaked, sentUpdates>>

(* query_process refuses: the original flags are put back and the request *)
(* goes to dns_handle_tcp_remote, which answers the client itself; then   *)
(* the connection is closed.                                               *)
TcpForward(c, sockOK, optOK) ==
    /\ Serving(c)
    /\ asked[c] \notin db
    /\ \E r \in DnsHandleTcpRemote(asked[c], sockOK, optOK) :
          /\ conn' = [conn EXCEPT ![c] = IF sockOK /\ optOK THEN "forwarded" ELSE "dropped"]
          /\ reply' = [reply EXCEPT ![c] = ReadFrame(r)]
    /\ UNCHANGED <<pc, dbOpen, db, behaviour, asked, leaked, sentUpdates>>

TcpNext ==
    \/ \E ok \in SysOutcomes : TcpDbOpen(ok) \/ TcpListen(ok)
    \/ \E n \in UpdateNames : MasterTcpUpdate(n)
    \/ \E c \in Clients, q \in Names : ClientConnect(c, q)
    \/ \E c \in Clients :
          \/ TcpAcceptFail(c)
          \/ TcpRecvFail(c)
          \/ TcpAnswer(c)
          \/ \E s, o \in SysOutcomes : TcpForward(c, s, o)

TcpSpec == TcpInit /\ [][TcpNext]_tcpVars

-----------------------------------------------------------------------------
(* Every connection accept returned is closed: a recv error `continue`s    *)
(* past close(temp_sock_descriptor).                                       *)
ClientSocketsClosed == leaked = {}

(* A forwarded reply carries the upstream's DNS message, as the TCP        *)
(* forwarding contract of spec.md 6 says: the client reads retfwd octets,  *)
(* which are the upstream message and the two zero octets past it, or a   *)
(* cut-off message when the first recv got part of the reply.              *)
ForwardedMessageIntact ==
    \A c \in Clients :
        conn[c] = "forwarded" /\ reply[c] # NoReply =>
            \E i \in Servers : reply[c].body = UpstreamMsg(i, asked[c])

(* Upstream transport errors are recovered by failover to the next         *)
(* configured upstream (spec.md 7): when some configured server answers,  *)
(* a forwarded query gets a reply.  The loop reuses one socket, so after a *)
(* server that accepted and then timed out, or one whose connect timed     *)
(* out, every later connect fails.                                         *)
FailoverReachesAnsweringServer ==
    \A c \in Clients :
        conn[c] = "forwarded" /\ (\E i \in Servers : behaviour[i] = "answer") =>
            reply[c] # NoReply

(* Every admin update the master handed to the TCP thread is in its table  *)
(* once the table is open; the thread opens it with no handshake with the  *)
(* master, which may already be fanning out updates.                       *)
TcpDbHasUpdates == dbOpen => sentUpdates \subseteq db

=============================================================================
