------------------------------ MODULE IfdServer ------------------------------
(***************************************************************************)
(* Requests and answers between the client library and an ifdhandler       *)
(* (ct/socket.c, ct/mainloop.c, ct/client.c, ifd/ifdhandler.c).            *)
(*                                                                         *)
(* A packet is a header fragment that says how many body fragments follow. *)
(* The two kernel queues of a connection carry fragments; a read or a      *)
(* short write moves any part of what is there.  The handler is one        *)
(* thread: it polls, then serves the sockets poll() named one by one,      *)
(* with the events poll() saw.                                             *)
(***************************************************************************)
EXTENDS Naturals, Sequences, FiniteSets

CONSTANTS Conn,        \* the connections, reused once both ends are closed
          Arg, NoArg,  \* what a request asks; no request
          Limits,      \* client connections IFD_MAX_SOCKETS may leave room for
          BufSize,     \* CT_SOCKET_BUFSIZ in fragments
          XidMod,      \* ifd_xid is an unsigned int: it wraps here
          Requests,    \* body lengths of requests
          Answers,     \* body lengths of answers
          Room         \* the body length the caller's buffer holds

ASSUME ServerAssumption ==
    /\ BufSize \in Nat \ {0} /\ XidMod \in Nat \ {0, 1} /\ Limits \subseteq Nat
    /\ Requests \subseteq 0 .. BufSize - 1 /\ Answers \subseteq Nat /\ Room \in Nat
    /\ NoArg \notin Arg /\ IsFiniteSet(Conn)

VARIABLES pc, ifd_xid, xid, arg, crbuf, ceof, ret,   \* the caller
          up, down,       \* the kernel queues, to the handler and back
          hungup, err,    \* the caller closed; it left an answer unread
          srv,            \* the handler process: up or dead
          con,            \* the handler's socket: free, backlog, open
          rbuf, sbuf,     \* its buffers
          events,         \* sock->events
          max_sockets,    \* how many sockets it polls; chosen once
          todo, listener, \* pfd[].revents still to be served
          runs            \* history: executions of the call in progress

caller == <<pc, ifd_xid, xid, arg, crbuf, ceof, ret>>
handler == <<con, rbuf, sbuf, events, todo, listener, max_sockets>>
vars == <<caller, up, down, hungup, err, srv, handler, runs>>

Frag == [h : BOOLEAN, xid : 0 .. XidMod - 1, n : Nat, val : Arg]

Packet(x, n, a) == [i \in 1 .. n + 1 |-> [h |-> i = 1, xid |-> x, n |-> n, val |-> a]]

TypeOK ==
    /\ pc \in [Conn -> {"off", "idle", "wait", "gone"}]
    /\ ifd_xid \in [Conn -> 0 .. XidMod - 1] /\ xid \in [Conn -> 0 .. XidMod - 1]
    /\ arg \in [Conn -> Arg \cup {NoArg}] /\ ret \in [Conn -> Arg \cup {NoArg}]
    /\ ceof \in [Conn -> BOOLEAN]
    /\ crbuf \in [Conn -> Seq(Frag)] /\ up \in [Conn -> Seq(Frag)] /\ down \in [Conn -> Seq(Frag)]
    /\ rbuf \in [Conn -> Seq(Frag)] /\ sbuf \in [Conn -> Seq(Frag)]
    /\ \A c \in Conn : Len(crbuf[c]) <= BufSize /\ Len(rbuf[c]) <= BufSize /\ Len(sbuf[c]) <= BufSize
    /\ hungup \in [Conn -> BOOLEAN] /\ err \in [Conn -> BOOLEAN]
    /\ srv \in {"up", "dead"}
    /\ con \in [Conn -> {"free", "backlog", "open"}]
    /\ events \in [Conn -> {"IN", "OUT"}]
    /\ todo \in [Conn -> SUBSET {"ERR", "OUT", "IN"}]
    /\ listener \in BOOLEAN /\ max_sockets \in Limits
    /\ runs \in [Conn -> Nat]

Empty == [c \in Conn |-> <<>>]

Init ==
    /\ pc = [c \in Conn |-> "off"]
    /\ ifd_xid = [c \in Conn |-> 1] /\ xid = [c \in Conn |-> 0]
    /\ arg = [c \in Conn |-> NoArg] /\ ret = [c \in Conn |-> NoArg]
    /\ crbuf = Empty /\ ceof = [c \in Conn |-> FALSE]
    /\ up = Empty /\ down = Empty
    /\ hungup = [c \in Conn |-> FALSE] /\ err = [c \in Conn |-> FALSE]
    /\ srv = "up"
    /\ con = [c \in Conn |-> "free"]
    /\ rbuf = Empty /\ sbuf = Empty
    /\ events = [c \in Conn |-> "IN"]
    /\ todo = [c \in Conn |-> {}] /\ listener = FALSE
    /\ max_sockets \in Limits
    /\ runs = [c \in Conn |-> 0]

-----------------------------------------------------------------------------
(* ct_socket_get_packet(): 1 with a packet, 0 not yet, -1 never *)

(* mutant: a request is executed as soon as its header is there *)
CompleteHeader(q) == q # <<>>

Complete(q) == q # <<>> /\ Len(q) >= 1 + Head(q).n
NeverFits(q) == q # <<>> /\ ~ Complete(q) /\ BufSize < 1 + Head(q).n

(* mutant: only the header is taken out of the buffer *)
AfterHeader(q) == Tail(q)

AfterPacket(q) == SubSeq(q, 2 + Head(q).n, Len(q))

(* What read() may give for a buffer that holds q. *)
Reads(q, queue) ==
    {k \in 1 .. Len(queue) : Len(q) + k <= BufSize}

Rest(s, k) == SubSeq(s, k + 1, Len(s))

-----------------------------------------------------------------------------
(* The caller *)

(* ct_reader_connect(): the connection waits in the listener's backlog. *)
Connect(c) ==
    /\ srv = "up"
    /\ pc[c] = "off" /\ con[c] = "free"
    /\ pc' = [pc EXCEPT ![c] = "idle"]
    /\ con' = [con EXCEPT ![c] = "backlog"]
    /\ ifd_xid' = [ifd_xid EXCEPT ![c] = 1]
    /\ arg' = [arg EXCEPT ![c] = NoArg] /\ ret' = [ret EXCEPT ![c] = NoArg]
    /\ crbuf' = [crbuf EXCEPT ![c] = <<>>] /\ ceof' = [ceof EXCEPT ![c] = FALSE]
    /\ up' = [up EXCEPT ![c] = <<>>] /\ down' = [down EXCEPT ![c] = <<>>]
    /\ hungup' = [hungup EXCEPT ![c] = FALSE] /\ err' = [err EXCEPT ![c] = FALSE]
    /\ runs' = [runs EXCEPT ![c] = 0]
    /\ UNCHANGED <<xid, srv, rbuf, sbuf, events, todo, listener, max_sockets>>

(* 0 is not a transaction id. *)
Fresh(x) == IF x = 0 THEN 1 ELSE x

Closed(c) == con[c] = "free"

(* The request goes out with one flsbuf(); it fails when the handler closed. *)
Call(c, a, n) ==
    /\ pc[c] = "idle"
    /\ LET x == Fresh(ifd_xid[c]) IN
         /\ ifd_xid' = [ifd_xid EXCEPT ![c] = (x + 1) % XidMod]
         /\ \/ /\ ~ Closed(c)
               /\ pc' = [pc EXCEPT ![c] = "wait"]
               /\ xid' = [xid EXCEPT ![c] = x]
               /\ arg' = [arg EXCEPT ![c] = a]
               /\ up' = [up EXCEPT ![c] = @ \o Packet(x, n, a)]
               /\ runs' = [runs EXCEPT ![c] = 0]
               /\ UNCHANGED ret
            \/ /\ Closed(c)
               /\ ret' = [ret EXCEPT ![c] = NoArg]
               /\ UNCHANGED <<pc, xid, arg, up, runs>>
    /\ UNCHANGED <<crbuf, ceof, down, hungup, err, srv, handler>>

(* What the loop of ct_socket_call() does with the packet at the head of q. *)
TakeReply(c, q) ==
    /\ crbuf' = [crbuf EXCEPT ![c] = AfterPacket(q)]
    /\ IF Head(q).xid # xid[c]
         THEN UNCHANGED <<pc, ret>>
         ELSE /\ pc' = [pc EXCEPT ![c] = "idle"]
              /\ ret' = [ret EXCEPT ![c] = IF Head(q).n > Room THEN NoArg ELSE Head(q).val]

CallFails(c) ==
    /\ pc' = [pc EXCEPT ![c] = "idle"]
    /\ ret' = [ret EXCEPT ![c] = NoArg]

(* ct_socket_filbuf(sock, -1) and one turn of the loop *)
CallRead(c) ==
    /\ pc[c] = "wait"
    /\ \/ \E k \in Reads(crbuf[c], down[c]) :
            LET q == crbuf[c] \o SubSeq(down[c], 1, k) IN
            /\ down' = [down EXCEPT ![c] = Rest(@, k)]
            /\ \/ Complete(q) /\ TakeReply(c, q)
               \/ NeverFits(q) /\ CallFails(c) /\ crbuf' = [crbuf EXCEPT ![c] = q]
               \/ /\ ~ Complete(q) /\ ~ NeverFits(q)
                  /\ crbuf' = [crbuf EXCEPT ![c] = q]
                  /\ UNCHANGED <<pc, ret>>
            /\ UNCHANGED ceof
       \/ /\ Closed(c) /\ down[c] = <<>>
          /\ ceof' = [ceof EXCEPT ![c] = TRUE]
          /\ IF ceof[c] THEN CallFails(c) ELSE UNCHANGED <<pc, ret>>
          /\ UNCHANGED <<down, crbuf>>
    /\ UNCHANGED <<ifd_xid, xid, arg, up, hungup, err, srv, handler, runs>>

(* ct_reader_disconnect(), or the process dies.  Unread answers make the
   kernel raise an error at the other end. *)
Leave(c) ==
    /\ pc[c] \in {"idle", "wait"}
    /\ pc' = [pc EXCEPT ![c] = "gone"]
    /\ hungup' = [hungup EXCEPT ![c] = TRUE]
    /\ err' = [err EXCEPT ![c] = down[c] # <<>>]
    /\ down' = [down EXCEPT ![c] = <<>>]
    /\ UNCHANGED <<ifd_xid, xid, arg, crbuf, ceof, ret, up, srv, handler, runs>>

(* A process that left makes room for another. *)
Forget(c) ==
    /\ pc[c] = "gone" /\ Closed(c)
    /\ pc' = [pc EXCEPT ![c] = "off"]
    /\ UNCHANGED <<ifd_xid, xid, arg, crbuf, ceof, ret, up, down, hungup, err, srv, handler, runs>>

-----------------------------------------------------------------------------
(* The handler's main loop *)

Open == {c \in Conn : con[c] = "open"}
Served == \A c \in Conn : todo[c] = {}

(* mutant: the listener is polled when the table is full, and the excess
   socket is killed in the next turn *)
ListeningWhenFull == Cardinality(Open) <= max_sockets

Listening == Cardinality(Open) < max_sockets

Revents(c) ==
    (IF err[c] THEN {"ERR"} ELSE {})
      \cup (IF events[c] = "OUT" THEN {"OUT"} ELSE {})
      \cup (IF events[c] = "IN" /\ (up[c] # <<>> \/ hungup[c]) THEN {"IN"} ELSE {})

Pending == \E c \in Conn : con[c] = "backlog"

(* ct_socket_free(): the close callback and close(); a socket the handler
   no longer has is not served. *)
Drop(dead) ==
    /\ con' = [c \in Conn |-> IF c \in dead THEN "free" ELSE con[c]]
    /\ rbuf' = [c \in Conn |-> IF c \in dead THEN <<>> ELSE rbuf[c]]
    /\ sbuf' = [c \in Conn |-> IF c \in dead THEN <<>> ELSE sbuf[c]]
    /\ events' = [c \in Conn |-> IF c \in dead THEN "IN" ELSE events[c]]

(* One turn of ct_mainloop() up to poll(), which waits for something to do. *)
Poll ==
    /\ srv = "up" /\ Served /\ ~ listener
    /\ \E excess \in SUBSET Open :
         /\ Cardinality(excess) = IF Cardinality(Open) > max_sockets
                                    THEN Cardinality(Open) - max_sockets ELSE 0
         /\ Drop(excess)
         /\ todo' = [c \in Conn |-> IF c \in Open \ excess THEN Revents(c) ELSE {}]
    /\ listener' = (Pending /\ Listening)
    /\ listener' \/ \E c \in Conn : todo'[c] # {}
    /\ UNCHANGED <<caller, up, down, hungup, err, srv, max_sockets, runs>>

(* ifdhandler_accept() *)
Accept(c) ==
    /\ srv = "up" /\ listener
    /\ con[c] = "backlog"
    /\ con' = [con EXCEPT ![c] = "open"]
    /\ rbuf' = [rbuf EXCEPT ![c] = <<>>] /\ sbuf' = [sbuf EXCEPT ![c] = <<>>]
    /\ events' = [events EXCEPT ![c] = "IN"]
    /\ listener' = FALSE
    /\ UNCHANGED <<caller, up, down, hungup, err, srv, todo, max_sockets, runs>>

(* An error is looked at before input and output. *)
Turn(c, ev) == srv = "up" /\ ev \in todo[c] /\ (ev = "ERR" \/ "ERR" \notin todo[c])

Serve(c, ev) ==
    /\ Turn(c, ev)
    /\ todo' = [todo EXCEPT ![c] = @ \ {ev}]
    /\ UNCHANGED listener

Free(c) ==
    /\ Drop({c})
    /\ todo' = [todo EXCEPT ![c] = {}]
    /\ UNCHANGED listener

(* POLLERR: sock->error is a null pointer for a client's socket. *)
OnError(c) ==
    /\ Serve(c, "ERR")
    /\ srv' = "dead"
    /\ con' = [d \in Conn |-> "free"]
    /\ UNCHANGED <<caller, up, down, hungup, err, rbuf, sbuf, events, max_sockets, runs>>

(* mutant: the answer is put into the buffer whatever its size *)
PutPacketUnchecked(c, x, n, a) ==
    /\ sbuf' = [sbuf EXCEPT ![c] = @ \o Packet(x, n, a)]
    /\ events' = [events EXCEPT ![c] = "OUT"]

(* mutant: a request is answered without POLLOUT being asked for *)
PutPacketSilently(c, x, n, a) ==
    /\ 1 + n <= BufSize - Len(sbuf[c])
    /\ sbuf' = [sbuf EXCEPT ![c] = @ \o Packet(x, n, a)]
    /\ UNCHANGED events

PutPacket(c, x, n, a) ==
    /\ 1 + n <= BufSize - Len(sbuf[c])
    /\ sbuf' = [sbuf EXCEPT ![c] = @ \o Packet(x, n, a)]
    /\ events' = [events EXCEPT ![c] = "OUT"]

(* ifdhandler_recv(): what was read completes a request, which is executed
   and answered, or it waits for more. *)
OnInput(c) ==
    /\ Serve(c, "IN")
    /\ \E k \in Reads(rbuf[c], up[c]) :
         LET q == rbuf[c] \o SubSeq(up[c], 1, k) IN
         /\ up' = [up EXCEPT ![c] = Rest(@, k)]
         /\ IF Complete(q)
              THEN /\ runs' = [runs EXCEPT ![c] = @ + 1]
                   /\ rbuf' = [rbuf EXCEPT ![c] = AfterPacket(q)]
                   /\ \E n \in Answers : PutPacket(c, Head(q).xid, n, Head(q).val)
              ELSE rbuf' = [rbuf EXCEPT ![c] = q] /\ UNCHANGED <<runs, sbuf, events>>
    /\ UNCHANGED <<caller, down, hungup, err, srv, con, max_sockets>>

(* The request was executed and its answer is too large for the buffer. *)
OnInputTooLarge(c) ==
    /\ Turn(c, "IN")
    /\ \E k \in Reads(rbuf[c], up[c]) :
         LET q == rbuf[c] \o SubSeq(up[c], 1, k) IN
         /\ Complete(q)
         /\ up' = [up EXCEPT ![c] = Rest(@, k)]
    /\ \E n \in Answers : 1 + n > BufSize
    /\ runs' = [runs EXCEPT ![c] = @ + 1]
    /\ Free(c)
    /\ UNCHANGED <<caller, down, hungup, err, srv, max_sockets>>

(* read() returns 0, or ECONNRESET *)
OnEof(c) ==
    /\ Turn(c, "IN")
    /\ up[c] = <<>> /\ hungup[c]
    /\ Free(c)
    /\ UNCHANGED <<caller, up, down, hungup, err, srv, max_sockets, runs>>

(* ct_socket_flsbuf(sock, 0) *)
Flsbuf(c) ==
    IF sbuf[c] = <<>>
      THEN /\ events' = [events EXCEPT ![c] = "IN"]
           /\ UNCHANGED <<sbuf, down>>
      ELSE /\ \E k \in 1 .. Len(sbuf[c]) :
                /\ down' = [down EXCEPT ![c] = @ \o SubSeq(sbuf[c], 1, k)]
                /\ sbuf' = [sbuf EXCEPT ![c] = Rest(@, k)]
           /\ UNCHANGED events

OnOutput(c) ==
    /\ Serve(c, "OUT")
    /\ ~ hungup[c] \/ sbuf[c] = <<>>
    /\ Flsbuf(c)
    /\ UNCHANGED <<caller, up, hungup, err, srv, con, rbuf, max_sockets, runs>>

(* EPIPE *)
OnOutputClosed(c) ==
    /\ Turn(c, "OUT")
    /\ hungup[c] /\ sbuf[c] # <<>>
    /\ Free(c)
    /\ UNCHANGED <<caller, up, down, hungup, err, srv, max_sockets, runs>>

Handler ==
    \/ Poll
    \/ \E c \in Conn :
         \/ Accept(c) \/ OnError(c) \/ OnInput(c) \/ OnInputTooLarge(c)
         \/ OnEof(c) \/ OnOutput(c) \/ OnOutputClosed(c)

Caller(c) ==
    \/ Connect(c) \/ CallRead(c) \/ Leave(c) \/ Forget(c)
    \/ \E a \in Arg, n \in Requests : Call(c, a, n)

Next == Handler \/ \E c \in Conn : Caller(c)

(* poll() always returns and the handler goes on; a waiting caller reads. *)
Spec == Init /\ [][Next]_vars /\ WF_vars(Handler) /\ \A c \in Conn : WF_vars(CallRead(c))

-----------------------------------------------------------------------------
(* ct_socket_call() keeps the promise of RpcService: one execution at most,
   and the answer of that execution, for requests and answers read and
   written piecemeal and callers that go away at any moment. *)
Rpc == INSTANCE RpcService
         WITH phase <- [c \in Conn |-> IF pc[c] = "wait" THEN "called" ELSE pc[c]]

RefinesRpc == Rpc!Spec

(* A call on an accepted connection comes back, whatever the other callers
   do, also when the handler dies or drops the connection. *)
CallReturns ==
    \A c \in Conn : pc[c] = "wait" /\ con[c] # "backlog" ~> pc[c] # "wait"

(* The main loop never has more sockets than it polls, so it never closes
   one of a caller that did nothing wrong (the comment of ct/mainloop.c:56
   "Kill any dead or excess sockets"). *)
NoExcess == Cardinality(Open) <= max_sockets

(* Between requests both buffers of the caller and of the handler start with
   a header: the two ends agree on where a packet begins. *)
InFrame ==
    \A c \in Conn :
        /\ rbuf[c] # <<>> => Head(rbuf[c]).h
        /\ crbuf[c] # <<>> => Head(crbuf[c]).h

(* The sockets of the server: each one is read from the start of a packet, the
   loop polls all that are open, and no buffer overflows (ct/mainloop.c,
   ct/socket.c). *)
SocketsSound == TypeOK /\ InFrame /\ NoExcess

(* ifdhandler.c:383 "Socket is closed - for whatever reason": the handler
   outlives any client. *)
HandlerSurvives == srv = "up"
=============================================================================
