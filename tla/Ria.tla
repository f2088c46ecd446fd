--------------------------------- MODULE Ria ---------------------------------
(***************************************************************************)
(* Remote access to a reader through ifdproxy: the application's device    *)
(* (ifd/ria.c), the proxy (ifd/ria-server.c with ct_socket_default_recv_cb *)
(* of ct/socket.c) and the process that exports a serial device            *)
(* (ifd/ria-device.c).                                                     *)
(*                                                                         *)
(* Packets are whole here.  Every application connects once; who and re    *)
(* tell which application and which command a packet goes back to.  Chunks *)
(* of bytes are numbered.  The reader behind the device answers a chunk    *)
(* with a chunk.                                                           *)
(***************************************************************************)
EXTENDS Naturals, Sequences, FiniteSets

CONSTANTS App,       \* applications
          Nobody,    \* no application
          Budget,    \* bound on the packets an application sends
          QueueLen,  \* RIA_QUEUE_LEN in chunks
          Chunks     \* chunks (RIA_SEND_CHUNK) of the largest ifd_remote_send()

ASSUME RiaAssumption ==
    Nobody \notin App /\ Budget \in [App -> Nat] /\ QueueLen \in Nat /\ Chunks \in Nat

VARIABLES pc, xid, expect,  \* the application: what ria_recv() waits for
          data,       \* clnt->data
          claimed,    \* what the application was told its claim came to
          refused,    \* history: what it did come to
          toProxy, toApp,   \* the connections of the applications
          toDev, fromDev,   \* the connection of the exporter
          peer,       \* the proxy's clnt->peer of an application
          devPeer,    \* the proxy's peer of the device, and
          exporter,   \* the exporter: off, registering, up
          queue,      \* ria->data of the exporter
          reader,     \* chunks the reader has been given and not answered
          mixed,      \* history: the device was claimed with another's traffic
          wrote,      \* history: the chunks an application asked to send
          got,        \* history: the numbers of its packets that reached the reader
          gotBytes    \* history: the chunks in them

application == <<pc, xid, expect, data, claimed, wrote>>
proxy == <<peer, devPeer, refused, mixed>>
export == <<exporter, queue, reader, got, gotBytes>>
wires == <<toProxy, toApp, toDev, fromDev>>
vars == <<application, proxy, export, wires>>

DevCmd == {"RESET", "CONFIG", "FLUSH"}
Packet == [cmd : DevCmd \cup {"LIST", "CLAIM", "REGISTER", "DATA", "RESPONSE"},
           re : DevCmd \cup {"LIST", "CLAIM", "REGISTER", "DATA"},
           xid : Nat, who : App \cup {Nobody}, bytes : Nat]

Msg(cmd, x, a) == [cmd |-> cmd, re |-> cmd, xid |-> x, who |-> a, bytes |-> 0]
Data(x, a, b) == [Msg("DATA", x, a) EXCEPT !.bytes = b]

TypeOK ==
    /\ pc \in [App -> {"off", "call", "open", "idle", "recv", "gone"}]
    /\ xid \in [App -> Nat]
    /\ expect \in [App -> DevCmd \cup {"LIST", "CLAIM", "DATA"}]
    /\ data \in [App -> Seq(Packet)] /\ \A a \in App : Len(data[a]) <= QueueLen
    /\ claimed \in [App -> BOOLEAN] /\ refused \in [App -> BOOLEAN]
    /\ toProxy \in [App -> Seq(Packet)] /\ toApp \in [App -> Seq(Packet)]
    /\ toDev \in Seq(Packet) /\ fromDev \in Seq(Packet)
    /\ peer \in [App -> BOOLEAN] /\ devPeer \in App \cup {Nobody}
    /\ exporter \in {"off", "registering", "up"}
    /\ queue \in Seq(Packet) /\ Len(queue) <= QueueLen
    /\ reader \in Seq(Packet)
    /\ mixed \in [App -> BOOLEAN]
    /\ wrote \in [App -> Seq(Nat)]
    /\ got \in [App -> Seq(Nat)] /\ gotBytes \in [App -> Seq(Nat)]

None == [a \in App |-> <<>>]

Init ==
    /\ pc = [a \in App |-> "off"] /\ xid = [a \in App |-> 0]
    /\ expect = [a \in App |-> "LIST"] /\ data = None
    /\ claimed = [a \in App |-> FALSE] /\ refused = [a \in App |-> FALSE]
    /\ toProxy = None /\ toApp = None /\ toDev = <<>> /\ fromDev = <<>>
    /\ peer = [a \in App |-> FALSE] /\ devPeer = Nobody
    /\ exporter = "off" /\ queue = <<>> /\ reader = <<>>
    /\ mixed = [a \in App |-> FALSE]
    /\ wrote = None /\ got = None /\ gotBytes = None

-----------------------------------------------------------------------------
(* ria.c: the application *)

Live(a) == pc[a] \notin {"off", "gone"}

(* ria_command(): ria_send(), and the flush at the start of ria_recv() *)
Request(a, cmd) ==
    /\ xid[a] < Budget[a]
    /\ xid' = [xid EXCEPT ![a] = @ + 1]
    /\ expect' = [expect EXCEPT ![a] = cmd]
    /\ pc' = [pc EXCEPT ![a] = "call"]
    /\ toProxy' = [toProxy EXCEPT ![a] = Append(@, Msg(cmd, xid[a] + 1, a))]
    /\ UNCHANGED <<data, claimed, wrote, proxy, export, toApp, toDev, fromDev>>

(* list_devices(), or ria_claim_device() of ifd_open_remote() *)
Connect(a) == pc[a] = "off" /\ \E cmd \in {"LIST", "CLAIM"} : Request(a, cmd)

(* ifd_remote_reset() ends ifd_open_remote() *)
OpenReset(a) == pc[a] = "open" /\ Request(a, "RESET")

(* ifd_remote_reset(), _get_params(), _set_params(), _flush(), _send_break() *)
Command(a) == pc[a] = "idle" /\ \E cmd \in DevCmd : Request(a, cmd)

(* ifd_remote_send(): n packets, and each takes its bytes from the start of
   buffer, which is chunk xid[a] + 1. *)
Send(a, n) ==
    /\ pc[a] = "idle" /\ xid[a] + n <= Budget[a]
    /\ xid' = [xid EXCEPT ![a] = @ + n]
    /\ toProxy' = [toProxy EXCEPT ![a] = @ \o [i \in 1 .. n |-> Data(xid[a] + i, a, xid[a] + 1)]]
    /\ wrote' = [wrote EXCEPT ![a] = @ \o [i \in 1 .. n |-> xid[a] + i]]
    /\ UNCHANGED <<pc, expect, data, claimed, proxy, export, toApp, toDev, fromDev>>

(* ifd_remote_recv(): takes what is queued, or waits in ria_recv() *)
Receive(a) ==
    /\ pc[a] = "idle"
    /\ IF data[a] # <<>>
         THEN data' = [data EXCEPT ![a] = Tail(@)] /\ UNCHANGED <<pc, expect>>
         ELSE /\ pc' = [pc EXCEPT ![a] = "recv"]
              /\ expect' = [expect EXCEPT ![a] = "DATA"]
              /\ UNCHANGED data
    /\ UNCHANGED <<xid, claimed, wrote, proxy, export, wires>>

(* mutant: the room is not looked at *)
EnqueueAlways(q, p) == Append(q, p)

(* ct_buf_put(): all or nothing *)
Enqueue(q, p) == IF Len(q) < QueueLen THEN Append(q, p) ELSE q

(* What a response means to the caller of ria_command().  header.error is
   never set by the proxy (see Reply), so a claim always succeeds; one that was
   refused leaves devinfo uninitialised, and its type may be any.  LIST is the
   end of list_devices(); FLUSH clears what is queued. *)
Finish(a) ==
    /\ \E next \in CASE expect[a] = "LIST" -> {"gone"}
                      [] expect[a] = "CLAIM" -> {"open"} \cup (IF refused[a] THEN {"gone"} ELSE {})
                      [] OTHER -> {"idle"} :
         pc' = [pc EXCEPT ![a] = next]
    /\ claimed' = [claimed EXCEPT ![a] = @ \/ expect[a] = "CLAIM"]
    /\ data' = [data EXCEPT ![a] = IF expect[a] = "FLUSH" THEN <<>> ELSE @]

(* mutant: any response will do *)
MatchesAny(a, p) == p.cmd = "RESPONSE" /\ pc[a] = "call"

Matches(a, p) == p.cmd = "RESPONSE" /\ pc[a] = "call" /\ p.xid = xid[a]

(* One packet in ria_recv(): data is queued if there is room, and ends a wait
   for data; the response ends a call; anything else is passed over. *)
RiaRecv(a) ==
    /\ pc[a] \in {"call", "recv"} /\ toApp[a] # <<>>
    /\ toApp' = [toApp EXCEPT ![a] = Tail(@)]
    /\ LET p == Head(toApp[a]) IN
         \/ /\ p.cmd = "DATA"
            /\ data' = [data EXCEPT ![a] = Enqueue(@, p)]
            /\ pc' = [pc EXCEPT ![a] = IF @ = "recv" THEN "idle" ELSE @]
            /\ UNCHANGED claimed
         \/ Matches(a, p) /\ Finish(a)
         \/ p.cmd # "DATA" /\ ~ Matches(a, p) /\ UNCHANGED <<pc, data, claimed>>
    /\ UNCHANGED <<xid, expect, wrote, proxy, export, toProxy, toDev, fromDev>>

(* Nothing came in time; ifd_open_remote() and list_devices() give up. *)
Timeout(a) ==
    /\ pc[a] \in {"call", "recv"} /\ toApp[a] = <<>>
    /\ expect[a] \notin {"LIST", "CLAIM"}
    /\ pc' = [pc EXCEPT ![a] = "idle"]
    /\ data' = [data EXCEPT ![a] = IF expect[a] = "FLUSH" THEN <<>> ELSE @]
    /\ UNCHANGED <<xid, expect, claimed, wrote, proxy, export, wires>>

-----------------------------------------------------------------------------
(* ria-server.c: the proxy *)

(* The application goes away: ria_svc_app_close(), ria_peer_free(clnt, 0). *)
Gone(a, detach) ==
    /\ pc' = [pc EXCEPT ![a] = "gone"]
    /\ toProxy' = [toProxy EXCEPT ![a] = <<>>] /\ toApp' = [toApp EXCEPT ![a] = <<>>]
    /\ data' = [data EXCEPT ![a] = <<>>]
    /\ peer' = [peer EXCEPT ![a] = FALSE]
    /\ devPeer' = detach

(* mutant: the device keeps its pointer to the freed peer *)
AppCloseDangling(a) ==
    /\ Live(a)
    /\ Gone(a, devPeer)
    /\ UNCHANGED <<xid, expect, claimed, wrote, refused, mixed, export, toDev, fromDev>>

AppClose(a) ==
    /\ Live(a)
    /\ Gone(a, IF devPeer = a THEN Nobody ELSE devPeer)
    /\ UNCHANGED <<xid, expect, claimed, wrote, refused, mixed, export, toDev, fromDev>>

(* The end of ct_socket_default_recv_cb(): the header goes back with dest set;
   a result below zero empties the answer and does not touch header.error. *)
Reply(a, p) == toApp' = [toApp EXCEPT ![a] = Append(@, [p EXCEPT !.cmd = "RESPONSE"])]

Traffic(a) ==
    LET other(q) == \E i \in DOMAIN q : q[i].who # a
    IN other(toDev) \/ other(fromDev) \/ other(queue) \/ other(reader)

(* mutant: a device that is claimed can be claimed again *)
ClaimableAlways(a) == exporter = "up"

Claimable(a) == exporter = "up" /\ devPeer = Nobody

(* ria_svc_app_handler() *)
AppHandler(a) ==
    /\ Live(a) /\ toProxy[a] # <<>>
    /\ toProxy' = [toProxy EXCEPT ![a] = Tail(@)]
    /\ LET p == Head(toProxy[a]) IN
         \/ /\ p.cmd = "LIST"
            /\ Reply(a, p)
            /\ UNCHANGED <<proxy, toDev>>
         \/ /\ p.cmd = "CLAIM" /\ Claimable(a)
            /\ peer' = [peer EXCEPT ![a] = TRUE] /\ devPeer' = a
            /\ mixed' = [mixed EXCEPT ![a] = Traffic(a)]
            /\ Reply(a, p)
            /\ UNCHANGED <<refused, toDev>>
         \/ /\ p.cmd = "CLAIM" /\ ~ Claimable(a)
            /\ refused' = [refused EXCEPT ![a] = TRUE]
            /\ Reply(a, p)
            /\ UNCHANGED <<peer, devPeer, mixed, toDev>>
         \/ /\ p.cmd \notin {"LIST", "CLAIM"} /\ peer[a]
            /\ toDev' = Append(toDev, p)
            /\ UNCHANGED <<proxy, toApp>>
         \/ /\ p.cmd \notin {"LIST", "CLAIM"} /\ ~ peer[a]
            /\ Reply(a, p)
            /\ UNCHANGED <<proxy, toDev>>
    /\ UNCHANGED <<application, export, fromDev>>

(* ria_svc_dev_handler(): registration, and what goes to the peer; the
   exporter drops the replies it gets for data nobody wants. *)
DevHandler ==
    /\ fromDev # <<>>
    /\ fromDev' = Tail(fromDev)
    /\ LET p == Head(fromDev) IN
         \/ /\ p.cmd = "REGISTER"
            /\ exporter' = "up"
            /\ UNCHANGED toApp
         \/ /\ p.cmd # "REGISTER" /\ devPeer # Nobody
            /\ toApp' = [toApp EXCEPT ![devPeer] = Append(@, p)]
            /\ UNCHANGED exporter
         \/ /\ p.cmd # "REGISTER" /\ devPeer = Nobody
            /\ UNCHANGED <<toApp, exporter>>
    /\ UNCHANGED <<application, proxy, queue, reader, got, gotBytes, toProxy, toDev>>

-----------------------------------------------------------------------------
(* ria-device.c: the exporter *)

(* ria_export_device(), ria_register_device() *)
Export ==
    /\ exporter = "off"
    /\ exporter' = "registering"
    /\ fromDev' = <<Msg("REGISTER", 0, Nobody)>>
    /\ UNCHANGED <<application, proxy, queue, reader, got, gotBytes, toProxy, toApp, toDev>>

(* The exporter or its device goes away: ria_svc_dev_close() shuts down the
   connection of the application. *)
DevClose ==
    /\ exporter = "up"
    /\ exporter' = "off"
    /\ toDev' = <<>> /\ fromDev' = <<>> /\ queue' = <<>> /\ reader' = <<>>
    /\ IF devPeer = Nobody
         THEN UNCHANGED <<pc, toProxy, toApp, data, peer, devPeer>>
         ELSE Gone(devPeer, Nobody)
    /\ UNCHANGED <<xid, expect, claimed, wrote, refused, mixed, got, gotBytes>>

(* ria_devsock_process(): RIA_RESET_DEVICE is not among its commands, and the
   error it is given does not leave default_recv_cb. *)
DevsockProcess ==
    /\ exporter = "up" /\ toDev # <<>>
    /\ toDev' = Tail(toDev)
    /\ LET p == Head(toDev) IN
         \/ /\ p.cmd = "DATA"
            /\ queue' = Enqueue(queue, p)
            /\ UNCHANGED <<reader, fromDev>>
         \/ /\ p.cmd # "DATA"
            /\ reader' = IF p.cmd = "FLUSH" THEN <<>> ELSE reader
            /\ fromDev' = Append(fromDev, [p EXCEPT !.cmd = "RESPONSE"])
            /\ UNCHANGED queue
    /\ UNCHANGED <<application, proxy, exporter, got, gotBytes, toProxy, toApp>>

(* mutant: what is left is written before what came first *)
PollOutLast ==
    /\ exporter = "up" /\ queue # <<>>
    /\ LET n == Len(queue) IN
         /\ queue' = SubSeq(queue, 1, n - 1)
         /\ reader' = Append(reader, queue[n])
         /\ got' = [got EXCEPT ![queue[n].who] = Append(@, queue[n].xid)]
         /\ gotBytes' = [gotBytes EXCEPT ![queue[n].who] = Append(@, queue[n].bytes)]
    /\ UNCHANGED <<application, proxy, exporter, wires>>

(* ria_poll_device(), POLLOUT: write() to the device *)
PollOut ==
    /\ exporter = "up" /\ queue # <<>>
    /\ queue' = Tail(queue)
    /\ reader' = Append(reader, Head(queue))
    /\ got' = [got EXCEPT ![Head(queue).who] = Append(@, Head(queue).xid)]
    /\ gotBytes' = [gotBytes EXCEPT ![Head(queue).who] = Append(@, Head(queue).bytes)]
    /\ UNCHANGED <<application, proxy, exporter, wires>>

(* ria_poll_device(), POLLIN: what the reader answered goes out as data *)
PollIn ==
    /\ exporter = "up" /\ reader # <<>>
    /\ reader' = Tail(reader)
    /\ fromDev' = Append(fromDev, Head(reader))
    /\ UNCHANGED <<application, proxy, exporter, queue, got, gotBytes, toProxy, toApp, toDev>>

Next ==
    \/ \E a \in App :
         \/ Connect(a) \/ OpenReset(a) \/ Command(a) \/ Receive(a)
         \/ RiaRecv(a) \/ Timeout(a) \/ AppClose(a) \/ AppHandler(a)
         \/ \E n \in 1 .. Chunks : Send(a, n)
    \/ DevHandler \/ Export \/ DevClose \/ DevsockProcess \/ PollOut \/ PollIn

Spec == Init /\ [][Next]_vars

-----------------------------------------------------------------------------
(* The proxy's two pointers agree, whichever end goes first: a packet is never
   handed to an application that is gone or that did not claim the device. *)
PeersMutual ==
    /\ \A a \in App : peer[a] <=> devPeer = a
    /\ devPeer # Nobody => Live(devPeer) /\ exporter = "up"

(* What the proxy brings an application was caused by that application, if the
   device had no traffic of an earlier one when it was claimed. *)
TrafficIsOwn ==
    \A a \in App : ~ mixed[a] =>
        \A q \in {toApp[a], data[a]} : \A i \in DOMAIN q : q[i].who = a

(* An application and the device it claimed belong together, and so does what
   the proxy passes between them (ria.c, ifdproxy.c). *)
PeersSound == TypeOK /\ PeersMutual /\ TrafficIsOwn

(* A call of ria_command() ends with the response to itself: a response to a
   call that timed out is not taken for that of a later one. *)
AnswerIsOwn ==
    [][\A a \in App :
         ~ mixed[a] /\ pc[a] = "call" /\ pc'[a] \in {"open", "idle"} /\ toApp'[a] # toApp[a]
             => Head(toApp[a]).re = expect[a]]_vars

(* g is a part of w, in order. *)
PartOf(g, w) ==
    \E S \in SUBSET DOMAIN w :
        /\ Cardinality(S) = Len(g)
        /\ \A i \in S : w[i] = g[Cardinality({j \in S : j <= i})]

(* The packets of ifd_remote_send() reach the reader in the order in which they
   were sent and none twice, however many a send takes: through the proxy's connections
   and the exporter's queue, whoever claims or closes meanwhile. *)
PacketsInOrder == \A a \in App : PartOf(got[a], wrote[a])

(* The bytes do, too.  driver.h, of a driver's send(), which kaan_send() hands on
   to here: "number of bytes sent if success". *)
SentIntact == \A a \in App : PartOf(gotBytes[a], wrote[a])

(* ct/socket.c:646 "Do not return an error to a reply": to anything else an
   error is returned, so a claim that was refused does not look granted. *)
RefusalIsTold == \A a \in App : refused[a] => ~ claimed[a]
=============================================================================
