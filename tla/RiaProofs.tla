------------------------------ MODULE RiaProofs ------------------------------
(***************************************************************************)
(* Remote access: the proxy's pointers agree, an application is only       *)
(* brought what it caused, a call ends with its own response, and the      *)
(* reader is given what was sent, for any number of applications, any      *)
(* queue length and any number of packets.                                 *)
(***************************************************************************)
EXTENDS Ria, SequenceTheorems, FiniteSetTheorems, TLAPS

Of(a) == {p \in Packet : p.who = a}

(* A packet that goes back to an application is not newer than what the
   application sent last, and while that is a call it is the only one with its
   xid. *)
Timely(p) ==
    p.who \in App =>
        /\ p.xid <= xid[p.who]
        /\ pc[p.who] = "call" /\ p.xid = xid[p.who] => p.re = expect[p.who]

Current == {p \in Packet : Timely(p)}

Order ==
    /\ toProxy \in [App -> Seq(Current)] /\ toApp \in [App -> Seq(Current)]
    /\ data \in [App -> Seq(Current)]
    /\ toDev \in Seq(Current) /\ fromDev \in Seq(Current)
    /\ queue \in Seq(Current) /\ reader \in Seq(Current)

(* the rest of TypeOK *)
Shape ==
    /\ pc \in [App -> {"off", "call", "open", "idle", "recv", "gone"}]
    /\ xid \in [App -> Nat]
    /\ expect \in [App -> DevCmd \cup {"LIST", "CLAIM", "DATA"}]
    /\ claimed \in [App -> BOOLEAN] /\ refused \in [App -> BOOLEAN]
    /\ peer \in [App -> BOOLEAN] /\ devPeer \in App \cup {Nobody}
    /\ exporter \in {"off", "registering", "up"}
    /\ mixed \in [App -> BOOLEAN]
    /\ wrote \in [App -> Seq(Nat)] /\ got \in [App -> Seq(Nat)]
    /\ gotBytes \in [App -> Seq(Nat)]

Bounds == Len(queue) <= QueueLen /\ \A a \in App : Len(data[a]) <= QueueLen

(* An application claims once, with its first packet. *)
Unclaimed(a) == ~ mixed[a] /\ ~ refused[a] /\ expect[a] # "LIST" /\ devPeer # a

ClaimFirst ==
    \A a \in App :
        /\ pc[a] = "off" => toProxy[a] = <<>> /\ ~ mixed[a] /\ ~ refused[a]
        /\ \A i \in 1 .. Len(toProxy[a]) : toProxy[a][i].cmd = "CLAIM" => i = 1 /\ Unclaimed(a)

Claimer == \A a \in App : devPeer = a => expect[a] # "LIST" /\ ~ refused[a]

(* What is under way because of an application alone *)
RequestsOwn == \A a \in App : toProxy[a] \in Seq(Of(a))

DeviceOwn ==
    \A a \in App : devPeer = a /\ ~ mixed[a] =>
        toDev \in Seq(Of(a)) /\ fromDev \in Seq(Of(a)) /\ queue \in Seq(Of(a)) /\ reader \in Seq(Of(a))

AnswersOwn == \A a \in App : ~ mixed[a] => toApp[a] \in Seq(Of(a)) /\ data[a] \in Seq(Of(a))

RiaInv ==
    /\ Shape /\ Order /\ Bounds
    /\ PeersMutual /\ Claimer /\ ClaimFirst
    /\ RequestsOwn /\ DeviceOwn /\ AnswersOwn

-----------------------------------------------------------------------------
(* Sequences of packets *)

LEMMA SeqGrows ==
  ASSUME NEW S, NEW T, S \subseteq T
  PROVE  Seq(S) \subseteq Seq(T)
  <1> SUFFICES ASSUME NEW s \in Seq(S) PROVE s \in Seq(T)
    OBVIOUS
  <1>1. Len(s) \in Nat /\ s \in [1 .. Len(s) -> S]
    BY LenProperties
  <1>2. s \in [1 .. Len(s) -> T]
    BY <1>1
  <1>. QED BY <1>1, <1>2, SeqDef

LEMMA TakeFirst ==
  ASSUME NEW S, NEW s \in Seq(S), s # <<>>
  PROVE  Head(s) \in S /\ Tail(s) \in Seq(S) /\ Len(Tail(s)) = Len(s) - 1 /\ Len(s) \in Nat \ {0}
  BY HeadTailProperties, EmptySeq

LEMMA PutLast ==
  ASSUME NEW S, NEW s \in Seq(S), NEW e \in S
  PROVE  Append(s, e) \in Seq(S) /\ Len(Append(s, e)) = Len(s) + 1 /\ Len(s) \in Nat
  BY AppendProperties, LenProperties

LEMMA EnqueueKeeps ==
  ASSUME NEW S, NEW s \in Seq(S), NEW e \in S, Len(s) <= QueueLen
  PROVE  Enqueue(s, e) \in Seq(S) /\ Len(Enqueue(s, e)) <= QueueLen
  <1>1. Append(s, e) \in Seq(S) /\ Len(Append(s, e)) = Len(s) + 1 /\ Len(s) \in Nat
    BY PutLast
  <1>. QED BY <1>1, RiaAssumption DEF Enqueue

LEMMA MsgIs ==
  ASSUME NEW cmd \in DevCmd \cup {"LIST", "CLAIM", "REGISTER", "DATA"}, NEW x \in Nat,
         NEW a \in App \cup {Nobody}
  PROVE  /\ Msg(cmd, x, a) \in Packet /\ Msg(cmd, x, a).cmd = cmd /\ Msg(cmd, x, a).re = cmd
         /\ Msg(cmd, x, a).xid = x /\ Msg(cmd, x, a).who = a
  BY DEF Msg, Packet

LEMMA DataIs ==
  ASSUME NEW x \in Nat, NEW a \in App, NEW b \in Nat
  PROVE  /\ Data(x, a, b) \in Packet /\ Data(x, a, b).cmd = "DATA" /\ Data(x, a, b).xid = x
         /\ Data(x, a, b).re = "DATA" /\ Data(x, a, b).who = a
  BY DEF Msg, Data, Packet

LEMMA Responses ==
  ASSUME NEW p \in Packet
  PROVE  /\ [p EXCEPT !.cmd = "RESPONSE"] \in Packet
         /\ [p EXCEPT !.cmd = "RESPONSE"].re = p.re /\ [p EXCEPT !.cmd = "RESPONSE"].xid = p.xid
         /\ [p EXCEPT !.cmd = "RESPONSE"].who = p.who
         /\ [p EXCEPT !.cmd = "RESPONSE"].cmd = "RESPONSE"
  BY DEF Packet

LEMMA ResponseKeeps ==
  /\ \A p \in Current : [p EXCEPT !.cmd = "RESPONSE"] \in Current
  /\ \A a : \A p \in Of(a) : [p EXCEPT !.cmd = "RESPONSE"] \in Of(a)
  BY Responses DEF Current, Timely, Of

LEMMA CurrentType == Current \subseteq Packet /\ \A a : Of(a) \subseteq Packet
  BY DEF Current, Of

LEMMA InvType ==
  ASSUME Shape, Order, Bounds
  PROVE  TypeOK
  <1>1. Seq(Current) \subseteq Seq(Packet)
    BY CurrentType, SeqGrows
  <1>2. /\ toDev \in Seq(Packet) /\ fromDev \in Seq(Packet) /\ queue \in Seq(Packet) /\ reader \in Seq(Packet)
    BY <1>1 DEF Order
  <1>3. toProxy \in [App -> Seq(Packet)] /\ toApp \in [App -> Seq(Packet)] /\ data \in [App -> Seq(Packet)]
    BY <1>1 DEF Order
  <1>. QED BY <1>2, <1>3 DEF Shape, Bounds, TypeOK

(* A call is made with a new number; otherwise nothing becomes untimely. *)
LEMMA CurrentGrows ==
  ASSUME Shape, Shape',
         \A a \in App :
            /\ xid[a] <= xid'[a]
            /\ pc'[a] = "call" => \/ pc[a] = "call" /\ xid'[a] = xid[a] /\ expect'[a] = expect[a]
                                  \/ xid[a] < xid'[a]
  PROVE  Current \subseteq Current' /\ Seq(Current) \subseteq Seq(Current')
  <1>1. ASSUME NEW p \in Current PROVE p \in Current'
    <2>1. p \in Packet /\ p.xid \in Nat /\ Timely(p)
      BY DEF Current, Packet
    <2>2. ASSUME p.who \in App
          PROVE  /\ p.xid <= xid'[p.who]
                 /\ pc'[p.who] = "call" /\ p.xid = xid'[p.who] => p.re = expect'[p.who]
      <3> DEFINE a == p.who
      <3>1. a \in App /\ xid[a] \in Nat /\ xid'[a] \in Nat
        BY <2>2 DEF Shape
      <3>2. p.xid <= xid[a] /\ (pc[a] = "call" /\ p.xid = xid[a] => p.re = expect[a])
        BY <2>1, <2>2 DEF Timely
      <3>3. /\ xid[a] <= xid'[a]
            /\ pc'[a] = "call" => \/ pc[a] = "call" /\ xid'[a] = xid[a] /\ expect'[a] = expect[a]
                                  \/ xid[a] < xid'[a]
        BY <3>1
      <3> HIDE DEF a
      <3>4. p.xid <= xid'[a] /\ (pc'[a] = "call" /\ p.xid = xid'[a] => p.re = expect'[a])
        BY <2>1, <3>1, <3>2, <3>3
      <3>. QED BY <3>4 DEF a
    <2>3. Timely(p)'
      BY <2>2 DEF Timely
    <2>. QED BY <2>1, <2>3 DEF Current
  <1>2. Current \subseteq Current'
    BY <1>1
  <1>. QED BY <1>2, SeqGrows

LEMMA CurrentNext ==
  ASSUME NEW p \in Packet, NEW a \in App, p.who = a, p.xid <= xid'[a],
         pc'[a] = "call" /\ p.xid = xid'[a] => p.re = expect'[a]
  PROVE  p \in Current'
  BY DEF Current, Timely

(* the seven families, seen from the next state *)
LEMMA OrderGrows ==
  ASSUME Order, Seq(Current) \subseteq Seq(Current')
  PROVE  /\ toProxy \in [App -> Seq(Current')] /\ toApp \in [App -> Seq(Current')]
         /\ data \in [App -> Seq(Current')]
         /\ toDev \in Seq(Current') /\ fromDev \in Seq(Current')
         /\ queue \in Seq(Current') /\ reader \in Seq(Current')
  BY DEF Order

LEMMA QuietGrows ==
  ASSUME Shape, Shape', UNCHANGED <<xid, expect>>,
         \A a \in App : pc'[a] = "call" => pc[a] = "call"
  PROVE  Current \subseteq Current' /\ Seq(Current) \subseteq Seq(Current')
  <1>1. \A a \in App : xid'[a] = xid[a] /\ xid[a] \in Nat /\ expect'[a] = expect[a]
    BY DEF Shape
  <1>2. \A a \in App :
          /\ xid[a] <= xid'[a]
          /\ pc'[a] = "call" => \/ pc[a] = "call" /\ xid'[a] = xid[a] /\ expect'[a] = expect[a]
                                \/ xid[a] < xid'[a]
    BY <1>1
  <1>. QED BY <1>2, CurrentGrows

-----------------------------------------------------------------------------
(* Types and order *)

Typed == Shape /\ Order /\ Bounds

LEMMA RequestTyped ==
  ASSUME Typed, NEW a \in App, NEW cmd \in DevCmd \cup {"LIST", "CLAIM"}, Request(a, cmd)
  PROVE  Typed'
  <1> USE DEF Typed
  <1>0. xid[a] \in Nat /\ xid[a] + 1 \in Nat
    BY DEF Shape
  <1>1. Shape'
    BY <1>0 DEF Shape, Request, proxy, export
  <1>2. /\ \A b \in App : xid'[b] = IF b = a THEN xid[a] + 1 ELSE xid[b]
        /\ \A b \in App : expect'[b] = IF b = a THEN cmd ELSE expect[b]
        /\ \A b \in App : pc'[b] = IF b = a THEN "call" ELSE pc[b]
        /\ \A b \in App : xid[b] \in Nat
    BY DEF Shape, Request
  <1>3. Current \subseteq Current' /\ Seq(Current) \subseteq Seq(Current')
    BY <1>0, <1>1, <1>2, CurrentGrows
  <1>4. Msg(cmd, xid[a] + 1, a) \in Current'
    <2> DEFINE p == Msg(cmd, xid[a] + 1, a)
    <2>0. cmd \in DevCmd \cup {"LIST", "CLAIM", "REGISTER", "DATA"} /\ a \in App \cup {Nobody}
      OBVIOUS
    <2>1. p \in Packet /\ p.who = a /\ p.xid = xid[a] + 1 /\ p.re = cmd
      BY <1>0, <2>0 DEF Msg, Packet
    <2>2. xid'[a] = xid[a] + 1 /\ expect'[a] = cmd
      BY <1>2
    <2> HIDE DEF p
    <2>3. p.xid <= xid'[a]
      BY <1>0, <2>1, <2>2
    <2>4. p \in Current'
      BY <2>1, <2>2, <2>3, CurrentNext
    <2>. QED BY <2>4 DEF p
  <1>5. toProxy' \in [App -> Seq(Current')]
    <2>1. toProxy \in [App -> Seq(Current')]
      BY <1>3, OrderGrows
    <2>2. Append(toProxy[a], Msg(cmd, xid[a] + 1, a)) \in Seq(Current')
      BY <1>4, <2>1, PutLast
    <2>. QED BY <2>1, <2>2 DEF Request
  <1>6. UNCHANGED <<toApp, data, toDev, fromDev, queue, reader>>
    BY DEF Request, export
  <1>7. Order'
    BY <1>3, <1>5, <1>6, OrderGrows DEF Order
  <1>8. Bounds'
    BY <1>6 DEF Bounds
  <1>. QED BY <1>1, <1>7, <1>8

LEMMA SendTyped ==
  ASSUME Typed, NEW a \in App, NEW n \in 1 .. Chunks, Send(a, n)
  PROVE  Typed'
  <1> USE DEF Typed
  <1>0. xid[a] \in Nat /\ n \in Nat /\ 1 <= n
    BY RiaAssumption DEF Shape
  <1>1. [i \in 1 .. n |-> xid[a] + i] \in Seq(Nat)
    <2>1. [i \in 1 .. n |-> xid[a] + i] \in [1 .. n -> Nat]
      BY <1>0
    <2>. QED BY <1>0, <2>1, SeqDef
  <1>2. wrote' \in [App -> Seq(Nat)]
    <2>1. wrote[a] \o [i \in 1 .. n |-> xid[a] + i] \in Seq(Nat)
      BY <1>1, ConcatProperties DEF Shape
    <2>. QED BY <2>1 DEF Send, Shape
  <1>3. xid' \in [App -> Nat] /\ \A b \in App : xid'[b] = IF b = a THEN xid[a] + n ELSE xid[b]
    BY <1>0 DEF Send, Shape
  <1>4. Shape' /\ UNCHANGED <<pc, expect>>
    BY <1>2, <1>3 DEF Shape, Send, proxy, export
  <1>5. pc[a] = "idle" /\ \A b \in App : xid[b] \in Nat
    BY DEF Send, Shape
  <1>6. Current \subseteq Current' /\ Seq(Current) \subseteq Seq(Current')
    BY <1>0, <1>3, <1>4, <1>5, CurrentGrows
  <1> DEFINE sent == [i \in 1 .. n |-> Data(xid[a] + i, a, xid[a] + 1)]
  <1>7. sent \in Seq(Current')
    <2>1. ASSUME NEW i \in 1 .. n PROVE Data(xid[a] + i, a, xid[a] + 1) \in Current'
      <3>1. xid[a] + i \in Nat /\ xid[a] + 1 \in Nat /\ xid[a] + i <= xid[a] + n
        BY <1>0
      <3> DEFINE p == Data(xid[a] + i, a, xid[a] + 1)
      <3>2. p \in Packet /\ p.xid = xid[a] + i /\ p.who = a
        BY <3>1, DataIs
      <3> HIDE DEF p
      <3>3. p.xid <= xid'[a] /\ pc'[a] # "call"
        BY <1>3, <1>4, <1>5, <3>1, <3>2
      <3>4. p \in Current'
        BY <3>2, <3>3, CurrentNext
      <3>. QED BY <3>4 DEF p
    <2>2. sent \in [1 .. n -> Current']
      BY <2>1
    <2>. QED BY <1>0, <2>2, SeqDef
  <1>8. toProxy' \in [App -> Seq(Current')]
    <2> HIDE DEF sent
    <2>1. toProxy \in [App -> Seq(Current')]
      BY <1>6, OrderGrows
    <2>2. toProxy[a] \o sent \in Seq(Current')
      BY <1>7, <2>1, ConcatProperties
    <2>. QED BY <2>1, <2>2 DEF Send, sent
  <1>9. UNCHANGED <<toApp, data, toDev, fromDev, queue, reader>>
    BY DEF Send, export
  <1>10. Order'
    BY <1>6, <1>8, <1>9, OrderGrows DEF Order
  <1>11. Bounds'
    BY <1>9 DEF Bounds
  <1>. QED BY <1>4, <1>10, <1>11

LEMMA ReceiveTyped ==
  ASSUME Typed, NEW a \in App, Receive(a)
  PROVE  Typed'
  <1> USE DEF Typed
  <1>1. Shape'
    BY DEF Shape, Receive, proxy, export
  <1>2. /\ pc[a] = "idle" /\ xid' = xid
        /\ \A b \in App : xid[b] \in Nat
        /\ \A b \in App : b # a => pc'[b] = pc[b] /\ expect'[b] = expect[b]
        /\ pc'[a] # "call"
    BY DEF Shape, Receive
  <1>3. Current \subseteq Current' /\ Seq(Current) \subseteq Seq(Current')
    <2>1. ASSUME NEW b \in App
          PROVE  /\ xid[b] <= xid'[b]
                 /\ pc'[b] = "call" => \/ pc[b] = "call" /\ xid'[b] = xid[b] /\ expect'[b] = expect[b]
                                       \/ xid[b] < xid'[b]
      <3>1. xid[b] \in Nat /\ xid'[b] = xid[b]
        BY <1>2
      <3>2. pc'[b] = "call" => pc[b] = "call" /\ expect'[b] = expect[b]
        BY <1>2
      <3>. QED BY <3>1, <3>2
    <2>. QED BY <1>1, <2>1, CurrentGrows
  <1>4. UNCHANGED <<toProxy, toApp, toDev, fromDev, queue, reader>>
    BY DEF Receive, export, wires
  <1>5. data' \in [App -> Seq(Current')] /\ \A b \in App : Len(data'[b]) <= QueueLen
    <2>1. data \in [App -> Seq(Current')] /\ \A b \in App : Len(data[b]) <= QueueLen
      BY <1>3, OrderGrows DEF Bounds
    <2>2. CASE data[a] # <<>>
      <3>1. Tail(data[a]) \in Seq(Current') /\ Len(Tail(data[a])) <= QueueLen
        <4>1. Tail(data[a]) \in Seq(Current') /\ Len(Tail(data[a])) = Len(data[a]) - 1 /\ Len(data[a]) \in Nat
          BY <2>1, <2>2, TakeFirst
        <4>. QED BY <2>1, <4>1, RiaAssumption
      <3>. QED BY <2>1, <2>2, <3>1 DEF Receive
    <2>3. CASE data[a] = <<>>
      BY <2>1, <2>3 DEF Receive
    <2>. QED BY <2>2, <2>3
  <1>6. Order'
    BY <1>3, <1>4, <1>5, OrderGrows DEF Order
  <1>7. Bounds'
    BY <1>4, <1>5 DEF Bounds
  <1>. QED BY <1>1, <1>6, <1>7

LEMMA FinishShape ==
  ASSUME Shape, NEW a \in App, Finish(a), UNCHANGED <<xid, expect, wrote, proxy, export>>
  PROVE  Shape'
  <1>1. pc' \in [App -> {"off", "call", "open", "idle", "recv", "gone"}]
    BY DEF Shape, Finish
  <1>2. claimed' \in [App -> BOOLEAN]
    BY DEF Shape, Finish
  <1>. QED BY <1>1, <1>2 DEF Shape, proxy, export

LEMMA RiaRecvTyped ==
  ASSUME Typed, NEW a \in App, RiaRecv(a)
  PROVE  Typed'
  <1> USE DEF Typed
  <1> DEFINE p == Head(toApp[a])
  <1>1. /\ pc[a] \in {"call", "recv"} /\ toApp[a] # <<>>
        /\ toApp' = [toApp EXCEPT ![a] = Tail(@)]
        /\ UNCHANGED <<xid, expect, wrote, proxy, export, toProxy, toDev, fromDev>>
    BY DEF RiaRecv
  <1>2. \/ /\ data' = [data EXCEPT ![a] = Enqueue(@, p)]
           /\ pc' = [pc EXCEPT ![a] = IF @ = "recv" THEN "idle" ELSE @]
           /\ UNCHANGED claimed
        \/ Matches(a, p) /\ Finish(a)
        \/ UNCHANGED <<pc, data, claimed>>
    BY DEF RiaRecv
  <1>3. p \in Current /\ Tail(toApp[a]) \in Seq(Current)
    BY <1>1, TakeFirst DEF Order
  <1> HIDE DEF p
  <1>4. Shape'
    <2>1. CASE Finish(a)
      BY <1>1, <2>1, FinishShape
    <2>2. CASE pc' = [pc EXCEPT ![a] = IF @ = "recv" THEN "idle" ELSE @] /\ UNCHANGED claimed
      BY <1>1, <2>2 DEF Shape, proxy, export
    <2>3. CASE UNCHANGED <<pc, claimed>>
      BY <1>1, <2>3 DEF Shape, proxy, export
    <2>. QED BY <1>2, <2>1, <2>2, <2>3
  <1>5. \A b \in App : pc'[b] = "call" => pc[b] = "call"
    <2>1. CASE Finish(a)
      BY <2>1 DEF Shape, Finish
    <2>. QED BY <1>2, <2>1 DEF Shape
  <1>6. Current \subseteq Current' /\ Seq(Current) \subseteq Seq(Current')
    BY <1>1, <1>4, <1>5, QuietGrows
  <1>7. data' \in [App -> Seq(Current)] /\ \A b \in App : Len(data'[b]) <= QueueLen
    <2>1. data \in [App -> Seq(Current)] /\ \A b \in App : Len(data[b]) <= QueueLen
      BY DEF Order, Bounds
    <2>2. Enqueue(data[a], p) \in Seq(Current) /\ Len(Enqueue(data[a], p)) <= QueueLen
      BY <1>3, <2>1, EnqueueKeeps
    <2>3. <<>> \in Seq(Current) /\ Len(<<>>) <= QueueLen
      BY RiaAssumption
    <2>4. data' \in {data, [data EXCEPT ![a] = Enqueue(data[a], p)], [data EXCEPT ![a] = <<>>]}
      BY <1>2, <2>1 DEF Finish
    <2>. QED BY <2>1, <2>2, <2>3, <2>4
  <1>8. toApp' \in [App -> Seq(Current)]
    BY <1>1, <1>3 DEF Order
  <1>9. Order'
    BY <1>1, <1>6, <1>7, <1>8, OrderGrows DEF Order, export
  <1>10. Bounds'
    BY <1>1, <1>7 DEF Bounds, export
  <1>. QED BY <1>4, <1>9, <1>10

LEMMA TimeoutTyped ==
  ASSUME Typed, NEW a \in App, Timeout(a)
  PROVE  Typed'
  <1> USE DEF Typed
  <1>1. Shape'
    BY DEF Shape, Timeout, proxy, export
  <1>2. \A b \in App : pc'[b] = "call" => pc[b] = "call"
    BY DEF Shape, Timeout
  <1>3. Current \subseteq Current' /\ Seq(Current) \subseteq Seq(Current')
    BY <1>1, <1>2, QuietGrows DEF Timeout
  <1>4. data' \in [App -> Seq(Current)] /\ \A b \in App : Len(data'[b]) <= QueueLen
    <2>1. data \in [App -> Seq(Current)] /\ \A b \in App : Len(data[b]) <= QueueLen
      BY DEF Order, Bounds
    <2>2. <<>> \in Seq(Current) /\ Len(<<>>) <= QueueLen
      BY RiaAssumption
    <2>3. data' \in {data, [data EXCEPT ![a] = <<>>]}
      BY <2>1 DEF Timeout
    <2>. QED BY <2>1, <2>2, <2>3
  <1>5. UNCHANGED <<toProxy, toApp, toDev, fromDev, queue, reader>>
    BY DEF Timeout, wires, export
  <1>6. Order'
    BY <1>3, <1>4, <1>5, OrderGrows DEF Order
  <1>7. Bounds'
    BY <1>4, <1>5 DEF Bounds
  <1>. QED BY <1>1, <1>6, <1>7

(* Steps that leave the applications' numbers alone leave Current alone. *)
LEMMA SameCurrent ==
  ASSUME Shape, Shape', UNCHANGED <<pc, xid, expect>>
  PROVE  Current' = Current
  BY DEF Current, Timely

LEMMA GoneTyped ==
  ASSUME Typed, NEW a \in App, NEW d \in App \cup {Nobody}, Gone(a, d),
         exporter' \in {"off", "registering", "up"},
         UNCHANGED <<xid, expect, claimed, wrote, refused, mixed, got, gotBytes>>,
         \/ UNCHANGED <<toDev, fromDev, queue, reader>>
         \/ toDev' = <<>> /\ fromDev' = <<>> /\ queue' = <<>> /\ reader' = <<>>
  PROVE  Typed'
  <1> USE DEF Typed
  <1>1. Shape'
    BY DEF Shape, Gone
  <1>2. \A b \in App : pc'[b] = "call" => pc[b] = "call"
    BY DEF Shape, Gone
  <1>3. Current \subseteq Current' /\ Seq(Current) \subseteq Seq(Current')
    BY <1>1, <1>2, QuietGrows
  <1>4. <<>> \in Seq(Current') /\ Len(<<>>) <= QueueLen
    BY RiaAssumption
  <1>5. /\ toProxy' \in [App -> Seq(Current')] /\ toApp' \in [App -> Seq(Current')]
        /\ data' \in [App -> Seq(Current')]
    <2>1. /\ toProxy \in [App -> Seq(Current')] /\ toApp \in [App -> Seq(Current')]
          /\ data \in [App -> Seq(Current')]
      BY <1>3, OrderGrows
    <2>. QED BY <1>4, <2>1 DEF Gone
  <1>6. /\ toDev' \in Seq(Current') /\ fromDev' \in Seq(Current')
        /\ queue' \in Seq(Current') /\ reader' \in Seq(Current')
    BY <1>3, <1>4, OrderGrows
  <1>7. Order'
    BY <1>5, <1>6 DEF Order
  <1>8. Bounds'
    <2>1. Len(queue') <= QueueLen
      BY <1>4 DEF Bounds
    <2>2. data' = [data EXCEPT ![a] = <<>>] /\ data \in [App -> Seq(Current)]
      BY DEF Gone, Order
    <2>3. \A b \in App : data'[b] = data[b] \/ data'[b] = <<>>
      BY <2>2
    <2>. QED BY <1>4, <2>1, <2>3 DEF Bounds
  <1>. QED BY <1>1, <1>7, <1>8

LEMMA AppHandlerTyped ==
  ASSUME Typed, NEW a \in App, AppHandler(a)
  PROVE  Typed'
  <1> USE DEF Typed
  <1> DEFINE p == Head(toProxy[a])
             r == [p EXCEPT !.cmd = "RESPONSE"]
  <1>1. /\ toProxy[a] # <<>> /\ toProxy' = [toProxy EXCEPT ![a] = Tail(@)]
        /\ UNCHANGED <<application, export, fromDev>>
    BY DEF AppHandler
  <1>2. \/ toApp' = [toApp EXCEPT ![a] = Append(@, r)] /\ toDev' = toDev
        \/ toApp' = toApp /\ toDev' = Append(toDev, p)
    BY DEF AppHandler, Reply
  <1>3. \/ UNCHANGED proxy
        \/ peer' = [peer EXCEPT ![a] = TRUE] /\ devPeer' = a
           /\ mixed' = [mixed EXCEPT ![a] = Traffic(a)] /\ UNCHANGED refused
        \/ refused' = [refused EXCEPT ![a] = TRUE] /\ UNCHANGED <<peer, devPeer, mixed>>
    BY DEF AppHandler
  <1>4. p \in Current /\ Tail(toProxy[a]) \in Seq(Current)
    BY <1>1, TakeFirst DEF Order
  <1>5. r \in Current
    BY <1>4, ResponseKeeps
  <1> HIDE DEF p, r
  <1>6. mixed' \in [App -> BOOLEAN]
    <2>1. Traffic(a) \in BOOLEAN
      BY Zenon DEF Traffic
    <2>. QED BY <1>3, <2>1 DEF Shape, proxy
  <1>7. Shape'
    BY <1>1, <1>3, <1>6 DEF Shape, proxy, application, export
  <1>8. Current' = Current
    BY <1>1, <1>7, SameCurrent DEF application
  <1>9. Append(toApp[a], r) \in Seq(Current) /\ Append(toDev, p) \in Seq(Current)
    BY <1>4, <1>5, PutLast DEF Order
  <1>10. toProxy' \in [App -> Seq(Current)] /\ toApp' \in [App -> Seq(Current)] /\ toDev' \in Seq(Current)
    BY <1>1, <1>2, <1>4, <1>9 DEF Order
  <1>11. Order'
    BY <1>1, <1>8, <1>10 DEF Order, application, export
  <1>12. Bounds'
    BY <1>1 DEF Bounds, application, export
  <1>. QED BY <1>7, <1>11, <1>12

LEMMA DevHandlerTyped ==
  ASSUME Typed, DevHandler
  PROVE  Typed'
  <1> USE DEF Typed
  <1>1. fromDev # <<>> /\ fromDev' = Tail(fromDev)
        /\ UNCHANGED <<application, proxy, queue, reader, got, gotBytes, toProxy, toDev>>
    BY DEF DevHandler
  <1>2. Head(fromDev) \in Current /\ Tail(fromDev) \in Seq(Current)
    BY <1>1, TakeFirst DEF Order
  <1>3. /\ exporter' \in {exporter, "up"}
        /\ toApp' = toApp \/ (devPeer # Nobody /\ toApp' = [toApp EXCEPT ![devPeer] = Append(@, Head(fromDev))])
    BY DEF DevHandler
  <1>4. Shape'
    BY <1>1, <1>3 DEF Shape, proxy, application
  <1>5. Current' = Current
    BY <1>1, <1>4, SameCurrent DEF application
  <1>6. toApp' \in [App -> Seq(Current)]
    <2>1. CASE devPeer # Nobody
      <3>1. devPeer \in App
        BY <2>1 DEF Shape
      <3>2. Append(toApp[devPeer], Head(fromDev)) \in Seq(Current)
        BY <1>2, <3>1, PutLast DEF Order
      <3>. QED BY <1>3, <3>1, <3>2 DEF Order
    <2>2. CASE devPeer = Nobody
      BY <1>3, <2>2 DEF Order
    <2>. QED BY <2>1, <2>2
  <1>7. Order'
    BY <1>1, <1>2, <1>5, <1>6 DEF Order, application
  <1>8. Bounds'
    BY <1>1 DEF Bounds, application
  <1>. QED BY <1>4, <1>7, <1>8

LEMMA ExportTyped ==
  ASSUME Typed, Export
  PROVE  Typed'
  <1> USE DEF Typed
  <1>1. Shape'
    BY DEF Shape, Export, proxy, application
  <1>2. Current' = Current
    BY <1>1, SameCurrent DEF Export, application
  <1>3. Msg("REGISTER", 0, Nobody) \in Packet /\ Msg("REGISTER", 0, Nobody).who = Nobody
    BY DEF Msg, Packet
  <1>4. Msg("REGISTER", 0, Nobody) \in Current
    BY <1>3, RiaAssumption DEF Current, Timely
  <1>5. fromDev' \in Seq(Current)
    BY <1>4 DEF Export
  <1>6. Order'
    BY <1>2, <1>5 DEF Order, Export, application
  <1>7. Bounds'
    BY DEF Bounds, Export, application
  <1>. QED BY <1>1, <1>6, <1>7

LEMMA DevCloseTyped ==
  ASSUME Typed, DevClose
  PROVE  Typed'
  <1> USE DEF Typed
  <1>1. CASE devPeer # Nobody
    <2>1. devPeer \in App /\ Nobody \in App \cup {Nobody} /\ Gone(devPeer, Nobody)
      BY <1>1 DEF Shape, DevClose
    <2>2. /\ exporter' \in {"off", "registering", "up"}
          /\ UNCHANGED <<xid, expect, claimed, wrote, refused, mixed, got, gotBytes>>
          /\ toDev' = <<>> /\ fromDev' = <<>> /\ queue' = <<>> /\ reader' = <<>>
      BY DEF DevClose
    <2>. QED BY <2>1, <2>2, GoneTyped
  <1>2. CASE devPeer = Nobody
    <2>1. Shape'
      BY <1>2 DEF Shape, DevClose
    <2>2. Current' = Current
      BY <1>2, <2>1, SameCurrent DEF DevClose
    <2>3. <<>> \in Seq(Current) /\ Len(<<>>) <= QueueLen
      BY RiaAssumption
    <2>4. Order'
      BY <1>2, <2>2, <2>3 DEF Order, DevClose
    <2>5. Bounds'
      BY <1>2, <2>3 DEF Bounds, DevClose
    <2>. QED BY <2>1, <2>4, <2>5
  <1>. QED BY <1>1, <1>2

LEMMA DevsockTyped ==
  ASSUME Typed, DevsockProcess
  PROVE  Typed'
  <1> USE DEF Typed
  <1> DEFINE p == Head(toDev)
             r == [p EXCEPT !.cmd = "RESPONSE"]
  <1>1. toDev # <<>> /\ toDev' = Tail(toDev)
        /\ UNCHANGED <<application, proxy, exporter, got, gotBytes, toProxy, toApp>>
    BY DEF DevsockProcess
  <1>2. /\ queue' = queue \/ queue' = Enqueue(queue, p)
        /\ reader' = reader \/ reader' = <<>>
        /\ fromDev' = fromDev \/ fromDev' = Append(fromDev, r)
    BY DEF DevsockProcess
  <1>3. p \in Current /\ Tail(toDev) \in Seq(Current)
    BY <1>1, TakeFirst DEF Order
  <1>4. r \in Current
    BY <1>3, ResponseKeeps
  <1> HIDE DEF p, r
  <1>5. Shape'
    BY <1>1 DEF Shape, proxy, application
  <1>6. Current' = Current
    BY <1>1, <1>5, SameCurrent DEF application
  <1>7. Enqueue(queue, p) \in Seq(Current) /\ Len(Enqueue(queue, p)) <= QueueLen
    BY <1>3, EnqueueKeeps DEF Order, Bounds
  <1>8. Append(fromDev, r) \in Seq(Current) /\ <<>> \in Seq(Current)
    BY <1>4, PutLast DEF Order
  <1>9. /\ queue' \in Seq(Current) /\ reader' \in Seq(Current)
        /\ fromDev' \in Seq(Current) /\ toDev' \in Seq(Current)
    BY <1>1, <1>2, <1>3, <1>7, <1>8 DEF Order
  <1>10. Order'
    BY <1>1, <1>6, <1>9 DEF Order, application
  <1>11. Bounds'
    BY <1>1, <1>2, <1>7 DEF Bounds, application
  <1>. QED BY <1>5, <1>10, <1>11

LEMMA PollOutTyped ==
  ASSUME Typed, PollOut
  PROVE  Typed'
  <1> USE DEF Typed
  <1>1. /\ queue # <<>> /\ queue' = Tail(queue) /\ reader' = Append(reader, Head(queue))
        /\ got' = [got EXCEPT ![Head(queue).who] = Append(@, Head(queue).xid)]
        /\ gotBytes' = [gotBytes EXCEPT ![Head(queue).who] = Append(@, Head(queue).bytes)]
        /\ UNCHANGED <<application, proxy, exporter, wires>>
    BY DEF PollOut
  <1>2. /\ Head(queue) \in Current /\ Tail(queue) \in Seq(Current)
        /\ Len(Tail(queue)) = Len(queue) - 1 /\ Len(queue) \in Nat
    BY <1>1, TakeFirst DEF Order
  <1>3. Head(queue).bytes \in Nat /\ Head(queue).xid \in Nat
    BY <1>2, CurrentType DEF Packet
  <1>4. got' \in [App -> Seq(Nat)] /\ gotBytes' \in [App -> Seq(Nat)]
    <2>1. CASE Head(queue).who \in App
      <3>1. /\ Append(got[Head(queue).who], Head(queue).xid) \in Seq(Nat)
            /\ Append(gotBytes[Head(queue).who], Head(queue).bytes) \in Seq(Nat)
        BY <1>3, <2>1, PutLast DEF Shape
      <3>. QED BY <1>1, <2>1, <3>1 DEF Shape
    <2>2. CASE Head(queue).who \notin App
      BY <1>1, <2>2 DEF Shape
    <2>. QED BY <2>1, <2>2
  <1>5. Shape'
    BY <1>1, <1>4 DEF Shape, proxy, application
  <1>6. Current' = Current
    BY <1>1, <1>5, SameCurrent DEF application
  <1>7. reader' \in Seq(Current)
    BY <1>1, <1>2, PutLast DEF Order
  <1>8. Order'
    BY <1>1, <1>2, <1>6, <1>7 DEF Order, application, wires
  <1>9. Bounds'
    <2>1. Len(queue') <= QueueLen
      BY <1>1, <1>2, RiaAssumption DEF Bounds
    <2>. QED BY <1>1, <2>1 DEF Bounds, application
  <1>. QED BY <1>5, <1>8, <1>9

LEMMA PollInTyped ==
  ASSUME Typed, PollIn
  PROVE  Typed'
  <1> USE DEF Typed
  <1>1. /\ reader # <<>> /\ reader' = Tail(reader) /\ fromDev' = Append(fromDev, Head(reader))
        /\ UNCHANGED <<application, proxy, exporter, queue, got, gotBytes, toProxy, toApp, toDev>>
    BY DEF PollIn
  <1>2. Head(reader) \in Current /\ Tail(reader) \in Seq(Current)
    BY <1>1, TakeFirst DEF Order
  <1>3. Shape'
    BY <1>1 DEF Shape, proxy, application
  <1>4. Current' = Current
    BY <1>1, <1>3, SameCurrent DEF application
  <1>5. fromDev' \in Seq(Current)
    BY <1>1, <1>2, PutLast DEF Order
  <1>6. Order'
    BY <1>1, <1>2, <1>4, <1>5 DEF Order, application
  <1>7. Bounds'
    BY <1>1 DEF Bounds, application
  <1>. QED BY <1>3, <1>6, <1>7

LEMMA NextTyped ==
  ASSUME Typed, Next
  PROVE  Typed'
  <1>1. ASSUME NEW a \in App, Connect(a) \/ OpenReset(a) \/ Command(a) PROVE Typed'
    <2>1. \E cmd \in DevCmd \cup {"LIST", "CLAIM"} : Request(a, cmd)
      BY <1>1 DEF Connect, OpenReset, Command, DevCmd
    <2>. QED BY <2>1, RequestTyped
  <1>2. ASSUME NEW a \in App, AppClose(a) PROVE Typed'
    <2>1. /\ Gone(a, IF devPeer = a THEN Nobody ELSE devPeer)
          /\ UNCHANGED <<xid, expect, claimed, wrote, refused, mixed, export, toDev, fromDev>>
      BY <1>2 DEF AppClose
    <2>2. (IF devPeer = a THEN Nobody ELSE devPeer) \in App \cup {Nobody}
          /\ exporter \in {"off", "registering", "up"}
      BY DEF Typed, Shape
    <2>. QED BY <2>1, <2>2, GoneTyped DEF export
  <1>. QED
    BY <1>1, <1>2, SendTyped, ReceiveTyped, RiaRecvTyped, TimeoutTyped, AppHandlerTyped,
       DevHandlerTyped, ExportTyped, DevCloseTyped, DevsockTyped, PollOutTyped, PollInTyped DEF Next

-----------------------------------------------------------------------------
(* Claims *)

ClaimInv == PeersMutual /\ Claimer /\ ClaimFirst

LEMMA StillClaims ==
  ASSUME Typed, ClaimInv, UNCHANGED <<toProxy, mixed, refused, peer, devPeer>>,
         exporter' \in {exporter, "up"},
         \A b \in App : /\ pc'[b] = "off" => pc[b] = "off"
                        /\ devPeer = b => Live(b)'
                        /\ expect'[b] = "LIST" => expect[b] = "LIST"
  PROVE  ClaimInv'
  <1>0. /\ toProxy' = toProxy /\ mixed' = mixed /\ refused' = refused
        /\ peer' = peer /\ devPeer' = devPeer
    OBVIOUS
  <1>1. PeersMutual'
    <2>1. devPeer \in App \cup {Nobody}
      BY DEF Typed, Shape
    <2>2. ASSUME devPeer # Nobody PROVE Live(devPeer)' /\ exporter' = "up"
      <3>1. exporter = "up" /\ devPeer \in App
        BY <2>1, <2>2 DEF ClaimInv, PeersMutual
      <3>2. pc'[devPeer] \notin {"off", "gone"}
        BY <3>1 DEF Live
      <3>. QED BY <1>0, <3>1, <3>2 DEF Live
    <2>3. ASSUME NEW b \in App PROVE peer'[b] <=> devPeer' = b
      BY <1>0 DEF ClaimInv, PeersMutual
    <2>. QED BY <1>0, <2>2, <2>3 DEF PeersMutual
  <1>2. Claimer'
    <2>1. ASSUME NEW b \in App, devPeer' = b PROVE expect'[b] # "LIST" /\ ~ refused'[b]
      <3>1. expect[b] # "LIST" /\ ~ refused[b]
        BY <1>0, <2>1 DEF ClaimInv, Claimer
      <3>. QED BY <1>0, <3>1
    <2>. QED BY <2>1 DEF Claimer
  <1>3. ClaimFirst'
    <2>1. ASSUME NEW b \in App, pc'[b] = "off" PROVE toProxy'[b] = <<>> /\ ~ mixed'[b] /\ ~ refused'[b]
      BY <1>0, <2>1 DEF ClaimInv, ClaimFirst
    <2>2. ASSUME NEW b \in App, NEW i \in 1 .. Len(toProxy'[b]), toProxy'[b][i].cmd = "CLAIM"
          PROVE  i = 1 /\ Unclaimed(b)'
      <3>1. i = 1 /\ Unclaimed(b)
        BY <1>0, <2>2 DEF ClaimInv, ClaimFirst
      <3>. QED BY <1>0, <3>1 DEF Unclaimed
    <2>. QED BY <2>1, <2>2 DEF ClaimFirst
  <1>. QED BY <1>1, <1>2, <1>3 DEF ClaimInv

LEMMA RequestClaims ==
  ASSUME Typed, ClaimInv, NEW a \in App, NEW cmd, Request(a, cmd),
         \/ pc[a] = "off" /\ cmd \in {"LIST", "CLAIM"}
         \/ pc[a] \in {"open", "idle"} /\ cmd \in DevCmd
  PROVE  ClaimInv'
  <1> USE DEF Typed, ClaimInv
  <1>1. /\ \A b \in App : expect'[b] = IF b = a THEN cmd ELSE expect[b]
        /\ \A b \in App : pc'[b] = IF b = a THEN "call" ELSE pc[b]
        /\ \A b \in App : b # a => toProxy'[b] = toProxy[b]
        /\ toProxy'[a] = Append(toProxy[a], Msg(cmd, xid[a] + 1, a))
        /\ UNCHANGED <<mixed, refused, peer, devPeer, exporter>>
    BY DEF Request, Shape, Order, proxy, export
  <1>2. devPeer = a => pc[a] # "off"
    BY RiaAssumption DEF PeersMutual, Live
  <1>3. PeersMutual'
    BY <1>1 DEF PeersMutual, Live, Shape
  <1>4. Claimer'
    BY <1>1, <1>2 DEF Claimer, DevCmd
  <1> DEFINE m == Msg(cmd, xid[a] + 1, a)
  <1>5. m.cmd = cmd
    BY DEF Msg
  <1>6. m \in Packet
    BY DEF Msg, Packet, Shape, DevCmd
  <1>7. /\ Len(toProxy'[a]) = Len(toProxy[a]) + 1 /\ Len(toProxy[a]) \in Nat
        /\ \A i \in 1 .. Len(toProxy[a]) : toProxy'[a][i] = toProxy[a][i]
        /\ toProxy'[a][Len(toProxy[a]) + 1] = m
    <2>1. toProxy[a] \in Seq(Packet)
      BY InvType DEF TypeOK
    <2> HIDE DEF m
    <2>. QED BY <1>1, <1>6, <2>1, AppendProperties, LenProperties DEF m
  <1> HIDE DEF m
  <1>8. ASSUME NEW b \in App PROVE pc'[b] = "off" => toProxy'[b] = <<>> /\ ~ mixed'[b] /\ ~ refused'[b]
    BY <1>1, <1>8 DEF ClaimFirst
  <1>9. ASSUME NEW i \in 1 .. Len(toProxy'[a]), toProxy'[a][i].cmd = "CLAIM"
        PROVE  i = 1 /\ Unclaimed(a)'
    <2>1. CASE pc[a] = "off" /\ cmd \in {"LIST", "CLAIM"}
      <3>1. toProxy[a] = <<>> /\ ~ mixed[a] /\ ~ refused[a]
        BY <2>1 DEF ClaimFirst
      <3>2. Len(toProxy[a]) = 0
        BY <3>1
      <3>3. i = 1 /\ cmd = "CLAIM"
        BY <1>5, <1>7, <1>9, <3>2
      <3>. QED BY <1>1, <1>2, <2>1, <3>1, <3>3 DEF Unclaimed
    <2>2. CASE pc[a] \in {"open", "idle"} /\ cmd \in DevCmd
      <3>1. cmd # "CLAIM" /\ cmd # "LIST"
        BY <2>2 DEF DevCmd
      <3>2. i \in 1 .. Len(toProxy[a]) /\ toProxy[a][i].cmd = "CLAIM"
        BY <1>5, <1>7, <1>9, <3>1
      <3>3. i = 1 /\ Unclaimed(a)
        BY <3>2 DEF ClaimFirst
      <3>. QED BY <1>1, <3>1, <3>3 DEF Unclaimed
    <2>. QED BY <2>1, <2>2
  <1>10. ASSUME NEW b \in App, b # a, NEW i \in 1 .. Len(toProxy'[b]), toProxy'[b][i].cmd = "CLAIM"
         PROVE  i = 1 /\ Unclaimed(b)'
    BY <1>1, <1>10 DEF ClaimFirst, Unclaimed
  <1>11. ClaimFirst'
    BY <1>8, <1>9, <1>10 DEF ClaimFirst
  <1>. QED BY <1>3, <1>4, <1>11

LEMMA SendClaims ==
  ASSUME Typed, ClaimInv, NEW a \in App, NEW n \in 1 .. Chunks, Send(a, n)
  PROVE  ClaimInv'
  <1> USE DEF Typed, ClaimInv
  <1> DEFINE sent == [i \in 1 .. n |-> Data(xid[a] + i, a, xid[a] + 1)]
  <1>1. /\ pc[a] = "idle" /\ UNCHANGED <<pc, expect, mixed, refused, peer, devPeer, exporter>>
        /\ toProxy' = [toProxy EXCEPT ![a] = @ \o sent]
    BY DEF Send, proxy, export
  <1>2. xid[a] \in Nat /\ n \in Nat
    BY RiaAssumption DEF Shape
  <1>3. \A i \in 1 .. n : Data(xid[a] + i, a, xid[a] + 1) \in Packet
                         /\ Data(xid[a] + i, a, xid[a] + 1).cmd = "DATA"
    BY <1>2, DataIs
  <1>4. sent \in Seq(Packet) /\ Len(sent) = n /\ \A i \in 1 .. n : sent[i].cmd = "DATA"
    <2>1. sent \in [1 .. n -> Packet] /\ \A i \in 1 .. n : sent[i].cmd = "DATA"
      BY <1>3
    <2>2. sent \in Seq(Packet)
      BY <1>2, <2>1, SeqDef
    <2>3. Len(sent) = n
      BY <1>2, <2>1, <2>2, LenProperties
    <2>. QED BY <2>1, <2>2, <2>3
  <1> HIDE DEF sent
  <1>5. toProxy[a] \in Seq(Packet) /\ toProxy \in [App -> Seq(Packet)]
    BY InvType DEF TypeOK
  <1>6. /\ toProxy'[a] = toProxy[a] \o sent
        /\ \A b \in App : b # a => toProxy'[b] = toProxy[b]
    BY <1>1, <1>5
  <1>7. /\ Len(toProxy'[a]) = Len(toProxy[a]) + n /\ Len(toProxy[a]) \in Nat
        /\ \A i \in 1 .. Len(toProxy[a]) + n :
             toProxy'[a][i] = IF i <= Len(toProxy[a]) THEN toProxy[a][i] ELSE sent[i - Len(toProxy[a])]
    <2>1. /\ Len(toProxy[a] \o sent) = Len(toProxy[a]) + Len(sent)
          /\ \A i \in 1 .. Len(toProxy[a]) + Len(sent) :
               (toProxy[a] \o sent)[i] = IF i <= Len(toProxy[a]) THEN toProxy[a][i] ELSE sent[i - Len(toProxy[a])]
      BY <1>4, <1>5, ConcatProperties
    <2>2. Len(toProxy[a]) \in Nat
      BY <1>5, LenProperties
    <2>. QED BY <1>4, <1>6, <2>1, <2>2
  <1>8. ASSUME NEW i \in 1 .. Len(toProxy'[a]), toProxy'[a][i].cmd = "CLAIM"
        PROVE  i = 1 /\ Unclaimed(a)'
    <2>1. i \in 1 .. Len(toProxy[a]) /\ toProxy[a][i].cmd = "CLAIM"
      BY <1>2, <1>4, <1>7, <1>8
    <2>. QED BY <1>1, <2>1 DEF ClaimFirst, Unclaimed
  <1>9. ASSUME NEW b \in App, b # a, NEW i \in 1 .. Len(toProxy'[b]), toProxy'[b][i].cmd = "CLAIM"
        PROVE  i = 1 /\ Unclaimed(b)'
    BY <1>1, <1>6, <1>9 DEF ClaimFirst, Unclaimed
  <1>10. ASSUME NEW b \in App PROVE pc'[b] = "off" => toProxy'[b] = <<>> /\ ~ mixed'[b] /\ ~ refused'[b]
    BY <1>1, <1>6 DEF ClaimFirst
  <1>11. ClaimFirst'
    BY <1>8, <1>9, <1>10 DEF ClaimFirst
  <1>12. PeersMutual' /\ Claimer'
    BY <1>1 DEF PeersMutual, Claimer, Live
  <1>. QED BY <1>11, <1>12

(* Behind the first packet there is no claim. *)
LEMMA TailHasNoClaim ==
  ASSUME Typed, ClaimFirst, NEW a \in App, toProxy[a] # <<>>
  PROVE  /\ \A i \in 1 .. Len(Tail(toProxy[a])) : Tail(toProxy[a])[i].cmd # "CLAIM"
         /\ Head(toProxy[a]).cmd = "CLAIM" => Unclaimed(a)
  <1>1. toProxy[a] \in Seq(Packet)
    BY InvType DEF TypeOK, Typed
  <1>2. /\ Len(Tail(toProxy[a])) = Len(toProxy[a]) - 1 /\ Len(toProxy[a]) \in Nat \ {0}
        /\ \A i \in 1 .. Len(Tail(toProxy[a])) : Tail(toProxy[a])[i] = toProxy[a][i + 1]
        /\ Head(toProxy[a]) = toProxy[a][1]
    BY <1>1, HeadTailProperties, EmptySeq
  <1>3. ASSUME NEW i \in 1 .. Len(Tail(toProxy[a])), Tail(toProxy[a])[i].cmd = "CLAIM" PROVE FALSE
    <2>1. i + 1 \in 1 .. Len(toProxy[a]) /\ toProxy[a][i + 1].cmd = "CLAIM"
      BY <1>2, <1>3
    <2>2. i + 1 = 1
      BY <2>1 DEF ClaimFirst
    <2>. QED BY <2>2
  <1>4. 1 \in 1 .. Len(toProxy[a])
    BY <1>2
  <1>. QED BY <1>2, <1>3, <1>4 DEF ClaimFirst

LEMMA AppHandlerClaims ==
  ASSUME Typed, ClaimInv, NEW a \in App, AppHandler(a)
  PROVE  ClaimInv'
  <1> USE DEF Typed, ClaimInv
  <1>1. /\ Live(a) /\ toProxy[a] # <<>> /\ toProxy' = [toProxy EXCEPT ![a] = Tail(@)]
        /\ UNCHANGED <<pc, expect, exporter>>
    BY DEF AppHandler, application, export
  <1>2. /\ toProxy'[a] = Tail(toProxy[a])
        /\ \A b \in App : b # a => toProxy'[b] = toProxy[b]
    BY <1>1 DEF Order
  <1>3. /\ \A i \in 1 .. Len(toProxy'[a]) : toProxy'[a][i].cmd # "CLAIM"
        /\ Head(toProxy[a]).cmd = "CLAIM" => Unclaimed(a)
    BY <1>1, <1>2, TailHasNoClaim
  <1>4. ASSUME \A b \in App : b # a => mixed'[b] = mixed[b] /\ refused'[b] = refused[b]
                                       /\ (devPeer' = b => devPeer = b)
        PROVE  ClaimFirst'
    <2>1. ASSUME NEW b \in App PROVE pc'[b] = "off" => toProxy'[b] = <<>> /\ ~ mixed'[b] /\ ~ refused'[b]
      <3>1. CASE b = a
        BY <1>1, <3>1 DEF Live
      <3>2. CASE b # a
        BY <1>1, <1>2, <1>4, <3>2 DEF ClaimFirst
      <3>. QED BY <3>1, <3>2
    <2>2. ASSUME NEW b \in App, NEW i \in 1 .. Len(toProxy'[b]), toProxy'[b][i].cmd = "CLAIM"
          PROVE  i = 1 /\ Unclaimed(b)'
      <3>1. b # a
        BY <1>3, <2>2
      <3>2. i = 1 /\ Unclaimed(b)
        BY <1>2, <2>2, <3>1 DEF ClaimFirst
      <3>. QED BY <1>1, <1>4, <3>1, <3>2 DEF Unclaimed
    <2>. QED BY <2>1, <2>2 DEF ClaimFirst
  <1>5. CASE UNCHANGED proxy
    <2>1. PeersMutual' /\ Claimer'
      BY <1>1, <1>5 DEF proxy, PeersMutual, Claimer, Live
    <2>. QED BY <1>4, <1>5, <2>1 DEF proxy
  <1>6. CASE /\ Head(toProxy[a]).cmd = "CLAIM" /\ Claimable(a)
             /\ peer' = [peer EXCEPT ![a] = TRUE] /\ devPeer' = a
             /\ mixed' = [mixed EXCEPT ![a] = Traffic(a)] /\ UNCHANGED refused
    <2>1. devPeer = Nobody /\ exporter = "up" /\ Unclaimed(a)
      BY <1>3, <1>6 DEF Claimable
    <2>2. PeersMutual'
      BY <1>1, <1>6, <2>1, RiaAssumption DEF PeersMutual, Shape, Live
    <2>3. Claimer'
      BY <1>1, <1>6, <2>1 DEF Claimer, Unclaimed
    <2>4. \A b \in App : b # a => mixed'[b] = mixed[b]
      BY <1>6 DEF Shape
    <2>. QED BY <1>4, <1>6, <2>2, <2>3, <2>4
  <1>7. CASE /\ Head(toProxy[a]).cmd = "CLAIM"
             /\ refused' = [refused EXCEPT ![a] = TRUE] /\ UNCHANGED <<peer, devPeer, mixed>>
    <2>1. devPeer # a
      BY <1>3, <1>7 DEF Unclaimed
    <2>2. \A b \in App : b # a => refused'[b] = refused[b]
      BY <1>7 DEF Shape
    <2>3. PeersMutual' /\ Claimer'
      BY <1>1, <1>7, <2>1, <2>2 DEF PeersMutual, Claimer, Live
    <2>. QED BY <1>4, <1>7, <2>2, <2>3
  <1>. QED BY <1>5, <1>6, <1>7 DEF AppHandler

LEMMA GoneClaims ==
  ASSUME Typed, ClaimInv, NEW a \in App, NEW d, Gone(a, d),
         d = IF devPeer = a THEN Nobody ELSE devPeer,
         d # Nobody => exporter' = exporter,
         UNCHANGED <<expect, refused, mixed>>
  PROVE  ClaimInv'
  <1> USE DEF Typed, ClaimInv
  <1>1. /\ \A b \in App : pc'[b] = IF b = a THEN "gone" ELSE pc[b]
        /\ \A b \in App : peer'[b] = IF b = a THEN FALSE ELSE peer[b]
        /\ \A b \in App : toProxy'[b] = IF b = a THEN <<>> ELSE toProxy[b]
        /\ devPeer' = d
    BY DEF Gone, Shape, Order
  <1>2. devPeer \in App \cup {Nobody} /\ Nobody \notin App
    BY RiaAssumption DEF Shape
  <1>3. PeersMutual'
    <2>1. ASSUME NEW b \in App PROVE peer'[b] <=> devPeer' = b
      <3>1. peer[b] <=> devPeer = b
        BY DEF PeersMutual
      <3>. QED BY <1>1, <1>2, <3>1
    <2>2. ASSUME devPeer' # Nobody PROVE Live(devPeer)' /\ exporter' = "up"
      <3>1. devPeer' = devPeer /\ devPeer # a /\ devPeer \in App
        BY <1>1, <1>2, <2>2
      <3>2. Live(devPeer) /\ exporter = "up"
        BY <2>2, <3>1 DEF PeersMutual
      <3>. QED BY <1>1, <2>2, <3>1, <3>2 DEF Live
    <2>. QED BY <2>1, <2>2 DEF PeersMutual
  <1>4. Claimer'
    BY <1>1, <1>2 DEF Claimer
  <1>5. \A i \in 1 .. Len(<<>>) : FALSE
    OBVIOUS
  <1>6. ClaimFirst'
    <2>1. ASSUME NEW b \in App PROVE pc'[b] = "off" => toProxy'[b] = <<>> /\ ~ mixed'[b] /\ ~ refused'[b]
      BY <1>1 DEF ClaimFirst
    <2>2. ASSUME NEW b \in App, NEW i \in 1 .. Len(toProxy'[b]), toProxy'[b][i].cmd = "CLAIM"
          PROVE  i = 1 /\ Unclaimed(b)'
      <3>1. b # a
        BY <1>1, <1>5, <2>2
      <3>2. i = 1 /\ Unclaimed(b)
        BY <1>1, <2>2, <3>1 DEF ClaimFirst
      <3>3. devPeer' # b
        BY <1>1, <1>2, <3>2 DEF Unclaimed
      <3>. QED BY <3>2, <3>3 DEF Unclaimed
    <2>. QED BY <2>1, <2>2 DEF ClaimFirst
  <1>. QED BY <1>3, <1>4, <1>6

LEMMA NextClaims ==
  ASSUME Typed, ClaimInv, Next
  PROVE  ClaimInv'
  <1>0. \A b \in App : devPeer = b => Live(b) /\ b # Nobody
    BY RiaAssumption DEF ClaimInv, PeersMutual
  <1>1. ASSUME NEW a \in App, Connect(a) \/ OpenReset(a) \/ Command(a) PROVE ClaimInv'
    <2>1. \E cmd : /\ Request(a, cmd)
                   /\ \/ pc[a] = "off" /\ cmd \in {"LIST", "CLAIM"}
                      \/ pc[a] \in {"open", "idle"} /\ cmd \in DevCmd
      BY <1>1 DEF Connect, OpenReset, Command, DevCmd
    <2>. QED BY <2>1, RequestClaims
  <1>2. ASSUME NEW a \in App, Receive(a) PROVE ClaimInv'
    <2>1. UNCHANGED <<toProxy, mixed, refused, peer, devPeer, exporter>>
      BY <1>2 DEF Receive, proxy, export, wires
    <2>2. \A b \in App : /\ pc'[b] = "off" => pc[b] = "off"
                         /\ Live(b) => Live(b)'
                         /\ expect'[b] = "LIST" => expect[b] = "LIST"
      BY <1>2 DEF Receive, Typed, Shape, Live
    <2>. QED BY <1>0, <2>1, <2>2, StillClaims
  <1>3. ASSUME NEW a \in App, Timeout(a) PROVE ClaimInv'
    <2>1. UNCHANGED <<toProxy, mixed, refused, peer, devPeer, exporter, expect>>
      BY <1>3 DEF Timeout, proxy, export, wires
    <2>2. \A b \in App : /\ pc'[b] = "off" => pc[b] = "off"
                         /\ Live(b) => Live(b)'
      BY <1>3 DEF Timeout, Typed, Shape, Live
    <2>. QED BY <1>0, <2>1, <2>2, StillClaims
  <1>4. ASSUME NEW a \in App, RiaRecv(a) PROVE ClaimInv'
    <2>1. UNCHANGED <<toProxy, mixed, refused, peer, devPeer, exporter, expect>>
      BY <1>4 DEF RiaRecv, proxy, export
    <2>2. pc[a] \in {"call", "recv"}
      BY <1>4 DEF RiaRecv
    <2>3. \/ \A b \in App : pc'[b] = pc[b] \/ (pc'[b] = "idle" /\ pc[b] = "recv")
          \/ Finish(a)
      <3>1. pc \in [App -> {"off", "call", "open", "idle", "recv", "gone"}]
        BY DEF Typed, Shape
      <3>2. \/ pc' = [pc EXCEPT ![a] = IF @ = "recv" THEN "idle" ELSE @]
            \/ Finish(a)
            \/ pc' = pc
        BY <1>4 DEF RiaRecv
      <3>3. ASSUME pc' = [pc EXCEPT ![a] = IF @ = "recv" THEN "idle" ELSE @], NEW b \in App
            PROVE  pc'[b] = pc[b] \/ (pc'[b] = "idle" /\ pc[b] = "recv")
        BY <3>1, <3>3
      <3>. QED BY <3>2, <3>3
    <2>4. ASSUME Finish(a), NEW b \in App
          PROVE  (pc'[b] = "off" => pc[b] = "off") /\ (devPeer = b => Live(b)')
      <3>1. pc \in [App -> {"off", "call", "open", "idle", "recv", "gone"}]
        BY DEF Typed, Shape
      <3>2. CASE b # a
        BY <1>0, <2>4, <3>1, <3>2 DEF Finish, Live
      <3>3. CASE b = a
        <4>1. pc'[a] \in {"gone", "open", "idle"}
          BY <2>4, <3>1 DEF Finish
        <4>2. devPeer = a => expect[a] # "LIST" /\ ~ refused[a]
          BY DEF ClaimInv, Claimer
        <4>3. devPeer = a => pc'[a] \in {"open", "idle"}
          BY <2>4, <3>1, <4>2 DEF Finish
        <4>. QED BY <3>3, <4>1, <4>3 DEF Live
      <3>. QED BY <3>2, <3>3
    <2>5. \A b \in App : /\ pc'[b] = "off" => pc[b] = "off"
                         /\ devPeer = b => Live(b)'
      BY <1>0, <2>3, <2>4 DEF Live
    <2>. QED BY <2>1, <2>5, StillClaims
  <1>5. ASSUME NEW a \in App, AppClose(a) PROVE ClaimInv'
    BY <1>5, GoneClaims DEF AppClose, export
  <1>6. CASE DevHandler \/ DevsockProcess \/ PollOut \/ PollIn
    <2>1. UNCHANGED <<toProxy, mixed, refused, peer, devPeer, expect, pc>> /\ exporter' \in {exporter, "up"}
      BY <1>6 DEF DevHandler, DevsockProcess, PollOut, PollIn, application, proxy, wires
    <2>. QED BY <1>0, <2>1, StillClaims DEF Live
  <1>7. CASE Export
    <2>1. /\ UNCHANGED <<toProxy, mixed, refused, peer, devPeer, expect, pc>> /\ exporter = "off"
      BY <1>7 DEF Export, application, proxy
    <2>2. devPeer = Nobody
      BY <2>1 DEF ClaimInv, PeersMutual
    <2>. QED BY <2>1, <2>2 DEF ClaimInv, PeersMutual, Claimer, ClaimFirst, Unclaimed
  <1>8. CASE DevClose
    <2>1. CASE devPeer = Nobody
      <3>1. UNCHANGED <<toProxy, mixed, refused, peer, devPeer, expect, pc>>
        BY <1>8, <2>1 DEF DevClose
      <3>. QED BY <2>1, <3>1 DEF ClaimInv, PeersMutual, Claimer, ClaimFirst, Unclaimed
    <2>2. CASE devPeer # Nobody
      <3>1. /\ devPeer \in App /\ Gone(devPeer, Nobody)
            /\ UNCHANGED <<expect, refused, mixed>>
        BY <1>8, <2>2 DEF DevClose, Typed, Shape
      <3>2. Nobody = IF devPeer = devPeer THEN Nobody ELSE devPeer
        OBVIOUS
      <3>. QED BY <3>1, <3>2, GoneClaims
    <2>. QED BY <2>1, <2>2
  <1>. QED
    BY <1>1, <1>2, <1>3, <1>4, <1>5, <1>6, <1>7, <1>8, SendClaims, AppHandlerClaims DEF Next

-----------------------------------------------------------------------------
(* Traffic *)

OwnInv == RequestsOwn /\ DeviceOwn /\ AnswersOwn

LEMMA MsgOf ==
  ASSUME NEW a \in App, NEW x \in Nat, NEW cmd \in DevCmd \cup {"LIST", "CLAIM", "REGISTER", "DATA"}
  PROVE  Msg(cmd, x, a) \in Of(a)
  BY DEF Msg, Of, Packet

(* What the application or its connection does, and the device does not see *)
LEMMA AnswersChange ==
  ASSUME OwnInv, UNCHANGED <<mixed, toDev, fromDev, queue, reader>>,
         \A b \in App : devPeer' = b => devPeer = b,
         RequestsOwn',
         \A b \in App : ~ mixed[b] => toApp'[b] \in Seq(Of(b)) /\ data'[b] \in Seq(Of(b))
  PROVE  OwnInv'
  <1>1. DeviceOwn'
    BY DEF OwnInv, DeviceOwn, Of
  <1>2. AnswersOwn'
    BY DEF AnswersOwn, Of
  <1>. QED BY <1>1, <1>2 DEF OwnInv

LEMMA RequestOwn ==
  ASSUME Typed, OwnInv, NEW a \in App, NEW cmd \in DevCmd \cup {"LIST", "CLAIM"}, Request(a, cmd)
  PROVE  OwnInv'
  <1>1. /\ toProxy' = [toProxy EXCEPT ![a] = Append(@, Msg(cmd, xid[a] + 1, a))]
        /\ UNCHANGED <<mixed, devPeer, toDev, fromDev, queue, reader, toApp, data>>
    BY DEF Request, proxy, export
  <1>2. xid[a] + 1 \in Nat /\ toProxy \in [App -> Seq(Current)]
    BY DEF Typed, Shape, Order
  <1>3. Msg(cmd, xid[a] + 1, a) \in Of(a)
    BY <1>2, MsgOf
  <1>4. ASSUME NEW b \in App PROVE toProxy'[b] \in Seq(Of(b))
    <2>1. toProxy[b] \in Seq(Of(b))
      BY DEF OwnInv, RequestsOwn
    <2>2. CASE b = a
      <3>1. toProxy'[a] = Append(toProxy[a], Msg(cmd, xid[a] + 1, a))
        BY <1>1, <1>2
      <3>. QED BY <1>3, <2>1, <2>2, <3>1, PutLast
    <2>3. CASE b # a
      BY <1>1, <1>2, <2>1, <2>3
    <2>. QED BY <2>2, <2>3
  <1>5. RequestsOwn'
    BY <1>4 DEF RequestsOwn, Of
  <1>6. \A b \in App : ~ mixed[b] => toApp'[b] \in Seq(Of(b)) /\ data'[b] \in Seq(Of(b))
    BY <1>1 DEF OwnInv, AnswersOwn
  <1>. QED BY <1>1, <1>5, <1>6, AnswersChange

LEMMA SendOwn ==
  ASSUME Typed, OwnInv, NEW a \in App, NEW n \in 1 .. Chunks, Send(a, n)
  PROVE  OwnInv'
  <1> DEFINE sent == [i \in 1 .. n |-> Data(xid[a] + i, a, xid[a] + 1)]
  <1>1. /\ toProxy' = [toProxy EXCEPT ![a] = @ \o sent]
        /\ UNCHANGED <<mixed, devPeer, toDev, fromDev, queue, reader, toApp, data>>
    BY DEF Send, proxy, export
  <1>2. xid[a] \in Nat /\ n \in Nat /\ toProxy \in [App -> Seq(Current)]
    BY RiaAssumption DEF Typed, Shape, Order
  <1>3. sent \in Seq(Of(a))
    <2>1. ASSUME NEW i \in 1 .. n PROVE Data(xid[a] + i, a, xid[a] + 1) \in Of(a)
      <3>1. xid[a] + i \in Nat /\ xid[a] + 1 \in Nat
        BY <1>2
      <3>2. Data(xid[a] + i, a, xid[a] + 1) \in Packet /\ Data(xid[a] + i, a, xid[a] + 1).who = a
        BY <3>1, DataIs
      <3>. QED BY <3>2 DEF Of
    <2>2. sent \in [1 .. n -> Of(a)]
      BY <2>1
    <2>. QED BY <1>2, <2>2, SeqDef
  <1> HIDE DEF sent
  <1>4. ASSUME NEW b \in App PROVE toProxy'[b] \in Seq(Of(b))
    <2>1. toProxy[b] \in Seq(Of(b))
      BY DEF OwnInv, RequestsOwn
    <2>2. CASE b = a
      <3>1. toProxy'[a] = toProxy[a] \o sent
        BY <1>1, <1>2
      <3>2. toProxy[a] \o sent \in Seq(Of(a))
        BY <1>3, <2>1, <2>2, ConcatProperties
      <3>. QED BY <2>2, <3>1, <3>2
    <2>3. CASE b # a
      BY <1>1, <1>2, <2>1, <2>3
    <2>. QED BY <2>2, <2>3
  <1>5. RequestsOwn'
    BY <1>4 DEF RequestsOwn, Of
  <1>6. \A b \in App : ~ mixed[b] => toApp'[b] \in Seq(Of(b)) /\ data'[b] \in Seq(Of(b))
    BY <1>1 DEF OwnInv, AnswersOwn
  <1>. QED BY <1>1, <1>5, <1>6, AnswersChange

(* toApp and data of one application lose their head, are emptied, or data
   takes the head of toApp. *)
LEMMA LocalOwn ==
  ASSUME Typed, OwnInv, NEW a \in App,
         UNCHANGED <<mixed, devPeer, toDev, fromDev, queue, reader, toProxy>>,
         \A b \in App : b # a => toApp'[b] = toApp[b] /\ data'[b] = data[b],
         ~ mixed[a] => toApp'[a] \in Seq(Of(a)) /\ data'[a] \in Seq(Of(a))
  PROVE  OwnInv'
  <1>1. RequestsOwn'
    BY DEF OwnInv, RequestsOwn, Of
  <1>2. \A b \in App : ~ mixed[b] => toApp'[b] \in Seq(Of(b)) /\ data'[b] \in Seq(Of(b))
    BY DEF OwnInv, AnswersOwn
  <1>. QED BY <1>1, <1>2, AnswersChange

LEMMA EmptyIsSeq == \A S : <<>> \in Seq(S)
  OBVIOUS

LEMMA ReceiveOwn ==
  ASSUME Typed, OwnInv, NEW a \in App, Receive(a)
  PROVE  OwnInv'
  <1>1. /\ UNCHANGED <<mixed, devPeer, toDev, fromDev, queue, reader, toProxy, toApp>>
        /\ (data[a] # <<>> /\ data' = [data EXCEPT ![a] = Tail(@)]) \/ data' = data
    BY DEF Receive, proxy, export, wires
  <1>2. data \in [App -> Seq(Current)]
    BY DEF Typed, Order
  <1>3. \A b \in App : b # a => data'[b] = data[b]
    BY <1>1, <1>2
  <1>4. ASSUME ~ mixed[a] PROVE toApp'[a] \in Seq(Of(a)) /\ data'[a] \in Seq(Of(a))
    <2>1. toApp[a] \in Seq(Of(a)) /\ data[a] \in Seq(Of(a))
      BY <1>4 DEF OwnInv, AnswersOwn
    <2>2. data[a] # <<>> => Tail(data[a]) \in Seq(Of(a))
      BY <2>1, TakeFirst
    <2>3. data'[a] = data[a] \/ (data[a] # <<>> /\ data'[a] = Tail(data[a]))
      BY <1>1, <1>2
    <2>. QED BY <1>1, <2>1, <2>2, <2>3
  <1>. QED BY <1>1, <1>3, <1>4, LocalOwn

LEMMA TimeoutOwn ==
  ASSUME Typed, OwnInv, NEW a \in App, Timeout(a)
  PROVE  OwnInv'
  <1>1. /\ UNCHANGED <<mixed, devPeer, toDev, fromDev, queue, reader, toProxy, toApp>>
        /\ data' = [data EXCEPT ![a] = IF expect[a] = "FLUSH" THEN <<>> ELSE @]
    BY DEF Timeout, proxy, export, wires
  <1>2. data \in [App -> Seq(Current)]
    BY DEF Typed, Order
  <1>3. /\ \A b \in App : b # a => data'[b] = data[b]
        /\ data'[a] = <<>> \/ data'[a] = data[a]
    BY <1>1, <1>2
  <1>4. ~ mixed[a] => toApp[a] \in Seq(Of(a)) /\ data[a] \in Seq(Of(a))
    BY DEF OwnInv, AnswersOwn
  <1>5. ~ mixed[a] => toApp'[a] \in Seq(Of(a)) /\ data'[a] \in Seq(Of(a))
    BY <1>1, <1>3, <1>4, EmptyIsSeq
  <1>. QED BY <1>1, <1>3, <1>5, LocalOwn

LEMMA RiaRecvOwn ==
  ASSUME Typed, OwnInv, NEW a \in App, RiaRecv(a)
  PROVE  OwnInv'
  <1> DEFINE p == Head(toApp[a])
  <1>1. /\ UNCHANGED <<mixed, devPeer, toDev, fromDev, queue, reader, toProxy>>
        /\ toApp[a] # <<>> /\ toApp' = [toApp EXCEPT ![a] = Tail(@)]
    BY DEF RiaRecv, proxy, export
  <1>2. \/ data' = [data EXCEPT ![a] = Enqueue(@, p)]
        \/ data' = [data EXCEPT ![a] = IF expect[a] = "FLUSH" THEN <<>> ELSE @]
        \/ data' = data
    BY DEF RiaRecv, Finish
  <1>3. data \in [App -> Seq(Current)] /\ toApp \in [App -> Seq(Current)] /\ Len(data[a]) <= QueueLen
    BY DEF Typed, Order, Bounds
  <1> HIDE DEF p
  <1>4. /\ \A b \in App : b # a => toApp'[b] = toApp[b] /\ data'[b] = data[b]
        /\ toApp'[a] = Tail(toApp[a])
        /\ data'[a] = Enqueue(data[a], p) \/ data'[a] = <<>> \/ data'[a] = data[a]
    BY <1>1, <1>2, <1>3
  <1>5. ASSUME ~ mixed[a] PROVE toApp'[a] \in Seq(Of(a)) /\ data'[a] \in Seq(Of(a))
    <2>1. toApp[a] \in Seq(Of(a)) /\ data[a] \in Seq(Of(a))
      BY <1>5 DEF OwnInv, AnswersOwn
    <2>2. p \in Of(a) /\ Tail(toApp[a]) \in Seq(Of(a))
      BY <1>1, <2>1, TakeFirst DEF p
    <2>3. Enqueue(data[a], p) \in Seq(Of(a))
      BY <1>3, <2>1, <2>2, EnqueueKeeps
    <2>. QED BY <1>4, <2>1, <2>2, <2>3, EmptyIsSeq
  <1>. QED BY <1>1, <1>4, <1>5, LocalOwn

LEMMA GoneOwn ==
  ASSUME Typed, OwnInv, NEW a \in App, NEW d, Gone(a, d), UNCHANGED mixed,
         \A b \in App : d = b => devPeer = b,
         d # Nobody => UNCHANGED <<toDev, fromDev, queue, reader>>
  PROVE  OwnInv'
  <1>1. /\ \A b \in App : toProxy'[b] = IF b = a THEN <<>> ELSE toProxy[b]
        /\ \A b \in App : toApp'[b] = IF b = a THEN <<>> ELSE toApp[b]
        /\ \A b \in App : data'[b] = IF b = a THEN <<>> ELSE data[b]
        /\ devPeer' = d
    BY DEF Gone, Typed, Order
  <1>2. RequestsOwn'
    <2>1. \A b \in App : toProxy'[b] \in Seq(Of(b))
      BY <1>1, EmptyIsSeq DEF OwnInv, RequestsOwn
    <2>. QED BY <2>1 DEF RequestsOwn, Of
  <1>3. AnswersOwn'
    <2>1. \A b \in App : ~ mixed'[b] => toApp'[b] \in Seq(Of(b)) /\ data'[b] \in Seq(Of(b))
      BY <1>1, EmptyIsSeq DEF OwnInv, AnswersOwn
    <2>. QED BY <2>1 DEF AnswersOwn, Of
  <1>4. DeviceOwn'
    <2>1. ASSUME NEW b \in App, devPeer' = b, ~ mixed'[b]
          PROVE  toDev' \in Seq(Of(b)) /\ fromDev' \in Seq(Of(b)) /\ queue' \in Seq(Of(b)) /\ reader' \in Seq(Of(b))
      <3>1. d = b /\ b # Nobody /\ devPeer = b
        BY <1>1, <2>1, RiaAssumption
      <3>2. toDev \in Seq(Of(b)) /\ fromDev \in Seq(Of(b)) /\ queue \in Seq(Of(b)) /\ reader \in Seq(Of(b))
        BY <2>1, <3>1 DEF OwnInv, DeviceOwn
      <3>. QED BY <3>1, <3>2
    <2>. QED BY <2>1 DEF DeviceOwn, Of
  <1>. QED BY <1>2, <1>3, <1>4 DEF OwnInv

(* The device and the proxy's side of it take a step; its claim stays. *)
LEMMA DeviceChange ==
  ASSUME Typed, OwnInv, UNCHANGED <<mixed, devPeer, toProxy, data>>,
         \A b \in App : devPeer = b /\ ~ mixed[b] =>
            toDev' \in Seq(Of(b)) /\ fromDev' \in Seq(Of(b)) /\ queue' \in Seq(Of(b)) /\ reader' \in Seq(Of(b)),
         \A b \in App : ~ mixed[b] => toApp'[b] \in Seq(Of(b))
  PROVE  OwnInv'
  <1>1. RequestsOwn'
    BY DEF OwnInv, RequestsOwn, Of
  <1>2. DeviceOwn'
    BY DEF DeviceOwn, Of
  <1>3. AnswersOwn'
    BY DEF OwnInv, AnswersOwn, Of
  <1>. QED BY <1>1, <1>2, <1>3 DEF OwnInv

LEMMA DevHandlerOwn ==
  ASSUME Typed, OwnInv, DevHandler
  PROVE  OwnInv'
  <1>1. /\ fromDev # <<>> /\ fromDev' = Tail(fromDev)
        /\ UNCHANGED <<mixed, devPeer, toProxy, data, toDev, queue, reader>>
        /\ \/ toApp' = toApp
           \/ devPeer # Nobody /\ toApp' = [toApp EXCEPT ![devPeer] = Append(@, Head(fromDev))]
    BY DEF DevHandler, application, proxy
  <1>2. toApp \in [App -> Seq(Current)]
    BY DEF Typed, Order
  <1>3. ASSUME NEW b \in App, devPeer = b, ~ mixed[b]
        PROVE  /\ toDev \in Seq(Of(b)) /\ Tail(fromDev) \in Seq(Of(b)) /\ Head(fromDev) \in Of(b)
               /\ queue \in Seq(Of(b)) /\ reader \in Seq(Of(b))
    <2>1. toDev \in Seq(Of(b)) /\ fromDev \in Seq(Of(b)) /\ queue \in Seq(Of(b)) /\ reader \in Seq(Of(b))
      BY <1>3 DEF OwnInv, DeviceOwn
    <2>. QED BY <1>1, <2>1, TakeFirst
  <1>4. \A b \in App : devPeer = b /\ ~ mixed[b] =>
          toDev' \in Seq(Of(b)) /\ fromDev' \in Seq(Of(b)) /\ queue' \in Seq(Of(b)) /\ reader' \in Seq(Of(b))
    BY <1>1, <1>3
  <1>5. ASSUME NEW b \in App, ~ mixed[b] PROVE toApp'[b] \in Seq(Of(b))
    <2>1. toApp[b] \in Seq(Of(b))
      BY <1>5 DEF OwnInv, AnswersOwn
    <2>2. CASE toApp'[b] = toApp[b]
      BY <2>1, <2>2
    <2>3. CASE devPeer = b /\ toApp'[b] = Append(toApp[b], Head(fromDev))
      BY <1>3, <1>5, <2>1, <2>3, PutLast
    <2>4. toApp'[b] = toApp[b] \/ (devPeer = b /\ toApp'[b] = Append(toApp[b], Head(fromDev)))
      BY <1>1, <1>2
    <2>. QED BY <2>2, <2>3, <2>4
  <1>. QED BY <1>1, <1>4, <1>5, DeviceChange

LEMMA DevsockOwn ==
  ASSUME Typed, OwnInv, DevsockProcess
  PROVE  OwnInv'
  <1> DEFINE p == Head(toDev)
             r == [p EXCEPT !.cmd = "RESPONSE"]
  <1>1. /\ toDev # <<>> /\ toDev' = Tail(toDev)
        /\ UNCHANGED <<mixed, devPeer, toProxy, data, toApp>>
        /\ \/ queue' = Enqueue(queue, p) /\ UNCHANGED <<reader, fromDev>>
           \/ /\ reader' = <<>> \/ reader' = reader
              /\ fromDev' = Append(fromDev, r) /\ UNCHANGED queue
    BY DEF DevsockProcess, application, proxy
  <1>2. Len(queue) <= QueueLen
    BY DEF Typed, Bounds
  <1>3. ASSUME NEW b \in App, devPeer = b, ~ mixed[b]
        PROVE  toDev' \in Seq(Of(b)) /\ fromDev' \in Seq(Of(b)) /\ queue' \in Seq(Of(b)) /\ reader' \in Seq(Of(b))
    <2>1. toDev \in Seq(Of(b)) /\ fromDev \in Seq(Of(b)) /\ queue \in Seq(Of(b)) /\ reader \in Seq(Of(b))
      BY <1>3 DEF OwnInv, DeviceOwn
    <2>2. p \in Of(b) /\ Tail(toDev) \in Seq(Of(b))
      BY <1>1, <2>1, TakeFirst
    <2>3. r \in Of(b)
      BY <2>2, ResponseKeeps
    <2> HIDE DEF p, r
    <2>4. Append(fromDev, r) \in Seq(Of(b))
      BY <2>1, <2>3, PutLast
    <2>5. Enqueue(queue, p) \in Seq(Of(b))
      BY <1>2, <2>1, <2>2, EnqueueKeeps
    <2>. QED BY <1>1, <2>1, <2>2, <2>4, <2>5, EmptyIsSeq
  <1>4. \A b \in App : ~ mixed[b] => toApp'[b] \in Seq(Of(b))
    BY <1>1 DEF OwnInv, AnswersOwn
  <1>. QED BY <1>1, <1>3, <1>4, DeviceChange

LEMMA PollOwn ==
  ASSUME Typed, OwnInv, PollOut \/ PollIn
  PROVE  OwnInv'
  <1>1. /\ UNCHANGED <<mixed, devPeer, toProxy, data, toApp, toDev>>
        /\ \/ queue # <<>> /\ queue' = Tail(queue) /\ reader' = Append(reader, Head(queue)) /\ UNCHANGED fromDev
           \/ reader # <<>> /\ reader' = Tail(reader) /\ fromDev' = Append(fromDev, Head(reader)) /\ UNCHANGED queue
    BY DEF PollOut, PollIn, application, proxy, wires
  <1>2. ASSUME NEW b \in App, devPeer = b, ~ mixed[b]
        PROVE  toDev' \in Seq(Of(b)) /\ fromDev' \in Seq(Of(b)) /\ queue' \in Seq(Of(b)) /\ reader' \in Seq(Of(b))
    <2>1. toDev \in Seq(Of(b)) /\ fromDev \in Seq(Of(b)) /\ queue \in Seq(Of(b)) /\ reader \in Seq(Of(b))
      BY <1>2 DEF OwnInv, DeviceOwn
    <2>2. queue # <<>> => Head(queue) \in Of(b) /\ Tail(queue) \in Seq(Of(b))
      BY <2>1, TakeFirst
    <2>3. reader # <<>> => Head(reader) \in Of(b) /\ Tail(reader) \in Seq(Of(b))
      BY <2>1, TakeFirst
    <2>4. queue # <<>> => Append(reader, Head(queue)) \in Seq(Of(b))
      BY <2>1, <2>2, PutLast
    <2>5. reader # <<>> => Append(fromDev, Head(reader)) \in Seq(Of(b))
      BY <2>1, <2>3, PutLast
    <2>. QED BY <1>1, <2>1, <2>2, <2>3, <2>4, <2>5
  <1>3. \A b \in App : ~ mixed[b] => toApp'[b] \in Seq(Of(b))
    BY <1>1 DEF OwnInv, AnswersOwn
  <1>. QED BY <1>1, <1>2, <1>3, DeviceChange

LEMMA ExportOwn ==
  ASSUME Typed, ClaimInv, OwnInv, Export
  PROVE  OwnInv'
  <1>1. exporter = "off" /\ UNCHANGED <<mixed, devPeer, toProxy, data, toApp>>
    BY DEF Export, application, proxy
  <1>2. devPeer = Nobody
    BY <1>1 DEF ClaimInv, PeersMutual
  <1>3. \A b \in App : ~ mixed[b] => toApp'[b] \in Seq(Of(b))
    BY <1>1 DEF OwnInv, AnswersOwn
  <1>4. \A b \in App : devPeer # b
    BY <1>2, RiaAssumption
  <1>. QED BY <1>1, <1>3, <1>4, DeviceChange

LEMMA DevCloseOwn ==
  ASSUME Typed, OwnInv, DevClose
  PROVE  OwnInv'
  <1>1. CASE devPeer = Nobody
    <2>1. UNCHANGED <<mixed, devPeer, toProxy, data, toApp>>
      BY <1>1 DEF DevClose
    <2>2. \A b \in App : ~ mixed[b] => toApp'[b] \in Seq(Of(b))
      BY <2>1 DEF OwnInv, AnswersOwn
    <2>3. \A b \in App : devPeer # b
      BY <1>1, RiaAssumption
    <2>. QED BY <2>1, <2>2, <2>3, DeviceChange
  <1>2. CASE devPeer # Nobody
    <2>1. devPeer \in App /\ Gone(devPeer, Nobody) /\ UNCHANGED mixed
      BY <1>2 DEF DevClose, Typed, Shape
    <2>2. \A b \in App : Nobody # b
      BY RiaAssumption
    <2>. QED BY <2>1, <2>2, GoneOwn
  <1>. QED BY <1>1, <1>2

(* ~ Traffic(a), said with sets *)
LEMMA NoTraffic ==
  ASSUME Typed, NEW a \in App, ~ Traffic(a)
  PROVE  toDev \in Seq(Of(a)) /\ fromDev \in Seq(Of(a)) /\ queue \in Seq(Of(a)) /\ reader \in Seq(Of(a))
  <1>1. ASSUME NEW q \in Seq(Packet), \A i \in DOMAIN q : q[i].who = a PROVE q \in Seq(Of(a))
    <2>1. Len(q) \in Nat /\ q \in [1 .. Len(q) -> Packet]
      BY LenProperties
    <2>2. q \in [1 .. Len(q) -> Of(a)]
      BY <1>1, <2>1 DEF Of
    <2>. QED BY <2>1, <2>2, SeqDef
  <1>2. toDev \in Seq(Packet) /\ fromDev \in Seq(Packet) /\ queue \in Seq(Packet) /\ reader \in Seq(Packet)
    BY InvType DEF TypeOK, Typed
  <1>3. /\ \A i \in DOMAIN toDev : toDev[i].who = a
        /\ \A i \in DOMAIN fromDev : fromDev[i].who = a
        /\ \A i \in DOMAIN queue : queue[i].who = a
        /\ \A i \in DOMAIN reader : reader[i].who = a
    BY DEF Traffic
  <1>. QED BY <1>1, <1>2, <1>3

LEMMA AppHandlerOwn ==
  ASSUME Typed, ClaimInv, OwnInv, NEW a \in App, AppHandler(a)
  PROVE  OwnInv'
  <1> DEFINE p == Head(toProxy[a])
             r == [p EXCEPT !.cmd = "RESPONSE"]
  <1>1. /\ toProxy[a] # <<>> /\ toProxy' = [toProxy EXCEPT ![a] = Tail(@)]
        /\ UNCHANGED <<data, fromDev, queue, reader>>
    BY DEF AppHandler, application, export
  <1>2. toProxy[a] \in Seq(Of(a)) /\ toProxy \in [App -> Seq(Current)] /\ toApp \in [App -> Seq(Current)]
    BY DEF OwnInv, RequestsOwn, Typed, Order
  <1>3. p \in Of(a) /\ Tail(toProxy[a]) \in Seq(Of(a))
    BY <1>1, <1>2, TakeFirst
  <1>4. r \in Of(a)
    BY <1>3, ResponseKeeps
  <1>5. RequestsOwn'
    <2> HIDE DEF p
    <2>1. ASSUME NEW b \in App PROVE toProxy'[b] \in Seq(Of(b))
      <3>1. toProxy'[b] = IF b = a THEN Tail(toProxy[a]) ELSE toProxy[b]
        BY <1>1, <1>2
      <3>. QED BY <1>3, <3>1 DEF OwnInv, RequestsOwn
    <2>. QED BY <2>1 DEF RequestsOwn, Of
  <1>6. ASSUME NEW b \in App, ~ mixed[b], toApp' = toApp \/ Reply(a, p)
        PROVE  toApp'[b] \in Seq(Of(b)) /\ data'[b] \in Seq(Of(b))
    <2>1. toApp[b] \in Seq(Of(b)) /\ data[b] \in Seq(Of(b))
      BY <1>6 DEF OwnInv, AnswersOwn
    <2>2. toApp'[b] = toApp[b] \/ (b = a /\ toApp'[b] = Append(toApp[b], r))
      <3>1. toApp' = toApp \/ toApp' = [toApp EXCEPT ![a] = Append(@, r)]
        BY <1>6 DEF Reply
      <3> HIDE DEF p, r
      <3>. QED BY <1>2, <3>1
    <2> HIDE DEF p, r
    <2>3. b = a => Append(toApp[b], r) \in Seq(Of(b))
      BY <1>4, <2>1, PutLast
    <2>. QED BY <1>1, <2>1, <2>2, <2>3
  <1>7. CASE UNCHANGED <<proxy, toDev>> /\ Reply(a, p)
    <2>1. UNCHANGED <<mixed, devPeer, toDev, fromDev, queue, reader>>
      BY <1>1, <1>7 DEF proxy
    <2>2. \A b \in App : ~ mixed[b] => toApp'[b] \in Seq(Of(b)) /\ data'[b] \in Seq(Of(b))
      BY <1>6, <1>7
    <2>. QED BY <1>5, <2>1, <2>2, AnswersChange
  <1>8. CASE /\ p.cmd = "CLAIM" /\ devPeer' = a
             /\ mixed' = [mixed EXCEPT ![a] = Traffic(a)] /\ Reply(a, p) /\ UNCHANGED toDev
    <2>1. mixed \in [App -> BOOLEAN]
      BY DEF Typed, Shape
    <2>2. /\ \A b \in App : b # a => mixed'[b] = mixed[b]
          /\ mixed'[a] <=> Traffic(a)
      BY <1>8, <2>1
    <2>3. ~ mixed[a]
      BY <1>1, <1>8, TailHasNoClaim DEF ClaimInv, Unclaimed
    <2>4. \A b \in App : ~ mixed'[b] => toApp'[b] \in Seq(Of(b)) /\ data'[b] \in Seq(Of(b))
      BY <1>6, <1>8, <2>2, <2>3
    <2>5. AnswersOwn'
      BY <2>4 DEF AnswersOwn, Of
    <2>6. ASSUME NEW b \in App, devPeer' = b, ~ mixed'[b]
          PROVE  toDev' \in Seq(Of(b)) /\ fromDev' \in Seq(Of(b)) /\ queue' \in Seq(Of(b)) /\ reader' \in Seq(Of(b))
      <3>1. b = a /\ ~ Traffic(a)
        BY <1>8, <2>2, <2>6
      <3>2. toDev \in Seq(Of(a)) /\ fromDev \in Seq(Of(a)) /\ queue \in Seq(Of(a)) /\ reader \in Seq(Of(a))
        BY <3>1, NoTraffic
      <3>. QED BY <1>1, <1>8, <3>1, <3>2
    <2>7. DeviceOwn'
      BY <2>6 DEF DeviceOwn, Of
    <2>. QED BY <1>5, <2>5, <2>7 DEF OwnInv
  <1>9. CASE Reply(a, p) /\ UNCHANGED <<peer, devPeer, mixed, toDev>>
    <2>1. \A b \in App : ~ mixed[b] => toApp'[b] \in Seq(Of(b)) /\ data'[b] \in Seq(Of(b))
      BY <1>6, <1>9
    <2>. QED BY <1>1, <1>5, <1>9, <2>1, AnswersChange
  <1>10. CASE peer[a] /\ toDev' = Append(toDev, p) /\ UNCHANGED <<proxy, toApp>>
    <2>1. devPeer = a /\ UNCHANGED <<mixed, devPeer, toApp>>
      BY <1>10 DEF ClaimInv, PeersMutual, proxy
    <2>2. \A b \in App : ~ mixed[b] => toApp'[b] \in Seq(Of(b)) /\ data'[b] \in Seq(Of(b))
      BY <1>6, <2>1
    <2>3. AnswersOwn'
      BY <2>1, <2>2 DEF AnswersOwn, Of
    <2>4. ASSUME NEW b \in App, devPeer' = b, ~ mixed'[b]
          PROVE  toDev' \in Seq(Of(b)) /\ fromDev' \in Seq(Of(b)) /\ queue' \in Seq(Of(b)) /\ reader' \in Seq(Of(b))
      <3>1. b = a /\ ~ mixed[a]
        BY <2>1, <2>4
      <3>2. toDev \in Seq(Of(a)) /\ fromDev \in Seq(Of(a)) /\ queue \in Seq(Of(a)) /\ reader \in Seq(Of(a))
        BY <2>1, <3>1 DEF OwnInv, DeviceOwn
      <3> HIDE DEF p
      <3>3. Append(toDev, p) \in Seq(Of(a))
        BY <1>3, <3>2, PutLast
      <3>. QED BY <1>1, <1>10, <3>1, <3>2, <3>3
    <2>5. DeviceOwn'
      BY <2>4 DEF DeviceOwn, Of
    <2>. QED BY <1>5, <2>3, <2>5 DEF OwnInv
  <1>. QED BY <1>7, <1>8, <1>9, <1>10 DEF AppHandler

LEMMA NextOwn ==
  ASSUME Typed, ClaimInv, OwnInv, Next
  PROVE  OwnInv'
  <1>1. ASSUME NEW a \in App, Connect(a) \/ OpenReset(a) \/ Command(a) PROVE OwnInv'
    <2>1. \E cmd \in DevCmd \cup {"LIST", "CLAIM"} : Request(a, cmd)
      BY <1>1 DEF Connect, OpenReset, Command, DevCmd
    <2>. QED BY <2>1, RequestOwn
  <1>2. ASSUME NEW a \in App, AppClose(a) PROVE OwnInv'
    <2> DEFINE d == IF devPeer = a THEN Nobody ELSE devPeer
    <2>1. Gone(a, d) /\ UNCHANGED <<mixed, toDev, fromDev, queue, reader>>
      BY <1>2 DEF AppClose, export
    <2>2. \A b \in App : d = b => devPeer = b
      BY RiaAssumption
    <2> HIDE DEF d
    <2>. QED BY <2>1, <2>2, GoneOwn
  <1>. QED
    BY <1>1, <1>2, SendOwn, ReceiveOwn, RiaRecvOwn, TimeoutOwn, AppHandlerOwn, DevHandlerOwn,
       ExportOwn, DevCloseOwn, DevsockOwn, PollOwn DEF Next

-----------------------------------------------------------------------------
(* The theorems *)

LEMMA InvParts == RiaInv <=> Typed /\ ClaimInv /\ OwnInv
  BY DEF RiaInv, Typed, ClaimInv, OwnInv

LEMMA InitInv ==
  ASSUME Init
  PROVE  RiaInv
  <1>1. /\ \A a \in App : /\ pc[a] = "off" /\ expect[a] = "LIST" /\ toProxy[a] = <<>> /\ toApp[a] = <<>>
                          /\ data[a] = <<>> /\ peer[a] = FALSE /\ mixed[a] = FALSE /\ refused[a] = FALSE
        /\ toDev = <<>> /\ fromDev = <<>> /\ queue = <<>> /\ reader = <<>> /\ devPeer = Nobody
    BY DEF Init, None
  <1>2. <<>> \in Seq(Current) /\ Len(<<>>) = 0 /\ <<>> \in Seq(Nat)
    OBVIOUS
  <1>3. Shape
    BY <1>2 DEF Init, None, Shape
  <1>4. Order
    BY <1>2 DEF Init, None, Order
  <1>5. Bounds
    BY <1>1, <1>2, RiaAssumption DEF Bounds
  <1>6. PeersMutual /\ Claimer
    BY <1>1, RiaAssumption DEF PeersMutual, Claimer
  <1>7. ClaimFirst
    <2>1. \A i \in 1 .. Len(<<>>) : FALSE
      OBVIOUS
    <2>. QED BY <1>1, <2>1 DEF ClaimFirst
  <1>8. RequestsOwn /\ DeviceOwn /\ AnswersOwn
    BY <1>1, EmptyIsSeq DEF RequestsOwn, DeviceOwn, AnswersOwn
  <1>. QED BY <1>3, <1>4, <1>5, <1>6, <1>7, <1>8 DEF RiaInv

LEMMA StutterInv ==
  ASSUME RiaInv, UNCHANGED vars
  PROVE  RiaInv'
  BY DEF RiaInv, vars, application, proxy, export, wires, Shape, Order, Current, Timely, Bounds,
         PeersMutual, Live, Claimer, ClaimFirst, Unclaimed, RequestsOwn, DeviceOwn, AnswersOwn, Of

LEMMA InvKept == Spec => []RiaInv
  <1>1. Init => RiaInv
    BY InitInv
  <1>2. RiaInv /\ [Next]_vars => RiaInv'
    <2>1. ASSUME RiaInv, Next PROVE RiaInv'
      <3>1. Typed /\ ClaimInv /\ OwnInv
        BY <2>1, InvParts
      <3>2. Typed' /\ ClaimInv' /\ OwnInv'
        BY <2>1, <3>1, NextTyped, NextClaims, NextOwn
      <3>. QED BY <3>2 DEF RiaInv, Typed, ClaimInv, OwnInv
    <2>. QED BY <2>1, StutterInv
  <1>. QED BY <1>1, <1>2, PTL DEF Spec

LEMMA OwnInSeq ==
  ASSUME NEW a \in App, NEW q \in Seq(Of(a))
  PROVE  \A i \in DOMAIN q : q[i].who = a
  <1>1. q \in [1 .. Len(q) -> Of(a)]
    BY LenProperties
  <1>2. \A i \in DOMAIN q : q[i] \in Of(a)
    BY <1>1
  <1>. QED BY <1>2 DEF Of

(* The proxy's pointers to an application and to the device it claimed agree
   whichever end goes first (ria_svc_app_close(), ria_svc_dev_close()), and the
   proxy brings an application only what that application caused, if the device
   was claimed without another's traffic. *)
THEOREM PeersAreSound == Spec => []PeersSound
  <1>1. ASSUME RiaInv PROVE PeersSound
    <2>1. TypeOK /\ PeersMutual
      BY <1>1, InvType DEF RiaInv
    <2>2. ASSUME NEW a \in App, ~ mixed[a], NEW q \in {toApp[a], data[a]}
          PROVE  \A i \in DOMAIN q : q[i].who = a
      <3>1. q \in Seq(Of(a))
        BY <1>1, <2>2 DEF RiaInv, AnswersOwn
      <3>. QED BY <3>1, OwnInSeq
    <2>3. TrafficIsOwn
      BY <2>2 DEF TrafficIsOwn
    <2>. QED BY <2>1, <2>3 DEF PeersSound
  <1>. QED BY <1>1, InvKept, PTL

(* Which steps end a call with something that was received *)
LEMMA OnlyRiaRecvEnds ==
  ASSUME Typed, Next, NEW a \in App, pc[a] = "call", pc'[a] \in {"open", "idle"}, toApp'[a] # toApp[a]
  PROVE  toApp[a] # <<>> /\ Matches(a, Head(toApp[a]))
  <1>0. pc \in [App -> {"off", "call", "open", "idle", "recv", "gone"}]
    BY DEF Typed, Shape
  <1>1. pc'[a] # pc[a]
    OBVIOUS
  <1>2. ASSUME NEW b \in App, Connect(b) \/ OpenReset(b) \/ Command(b) PROVE FALSE
    <2>1. PICK cmd : Request(b, cmd)
      BY <1>2 DEF Connect, OpenReset, Command
    <2>2. pc'[a] = "call"
      BY <1>0, <2>1 DEF Request
    <2>. QED BY <2>2
  <1>3. ASSUME NEW b \in App, Receive(b) PROVE FALSE
    BY <1>3 DEF Receive, wires
  <1>4. ASSUME NEW b \in App, Timeout(b) PROVE FALSE
    BY <1>4 DEF Timeout, wires
  <1>5. ASSUME NEW b \in App, NEW d, Gone(b, d) PROVE FALSE
    <2>1. pc'[a] = pc[a] \/ pc'[a] = "gone"
      BY <1>0, <1>5 DEF Gone
    <2>. QED BY <2>1
  <1>6. ASSUME NEW b \in App, AppHandler(b) \/ \E n \in 1 .. Chunks : Send(b, n) PROVE FALSE
    BY <1>6 DEF AppHandler, application, Send
  <1>7. ASSUME DevHandler \/ Export \/ DevsockProcess \/ PollOut \/ PollIn PROVE FALSE
    BY <1>7 DEF DevHandler, Export, DevsockProcess, PollOut, PollIn, application
  <1>8. ASSUME DevClose PROVE FALSE
    <2>1. devPeer \in App \cup {Nobody}
      BY DEF Typed, Shape
    <2>. QED BY <1>5, <1>8, <2>1 DEF DevClose
  <1>9. ASSUME NEW b \in App, RiaRecv(b) PROVE toApp[a] # <<>> /\ Matches(a, Head(toApp[a]))
    <2>1. CASE b # a
      <3>1. toApp \in [App -> Seq(Current)]
        BY DEF Typed, Order
      <3>2. toApp'[a] = toApp[a]
        BY <1>9, <2>1, <3>1 DEF RiaRecv
      <3>. QED BY <3>2
    <2>2. CASE b = a
      <3>1. toApp[a] # <<>>
        BY <1>9, <2>2 DEF RiaRecv
      <3>2. \/ pc' = [pc EXCEPT ![a] = IF @ = "recv" THEN "idle" ELSE @]
            \/ Matches(a, Head(toApp[a]))
            \/ pc' = pc
        BY <1>9, <2>2 DEF RiaRecv
      <3>3. pc' # [pc EXCEPT ![a] = IF @ = "recv" THEN "idle" ELSE @]
        BY <1>0
      <3>. QED BY <3>1, <3>2, <3>3
    <2>. QED BY <2>1, <2>2
  <1>10. ASSUME NEW b \in App, AppClose(b) PROVE FALSE
    BY <1>5, <1>10 DEF AppClose
  <1>. QED BY <1>2, <1>3, <1>4, <1>6, <1>7, <1>8, <1>9, <1>10 DEF Next

(* A call of ria_command() ends with the response to itself: ria_recv()
   compares the xid alone, and no earlier packet of the application has it. *)
THEOREM CallEndsWithItsAnswer == Spec => AnswerIsOwn
  <1> DEFINE A == \A a \in App :
                    ~ mixed[a] /\ pc[a] = "call" /\ pc'[a] \in {"open", "idle"} /\ toApp'[a] # toApp[a]
                        => Head(toApp[a]).re = expect[a]
  <1>1. ASSUME RiaInv, Next PROVE A
    <2> SUFFICES ASSUME NEW a \in App, ~ mixed[a], pc[a] = "call", pc'[a] \in {"open", "idle"},
                        toApp'[a] # toApp[a]
                 PROVE  Head(toApp[a]).re = expect[a]
      OBVIOUS
    <2>1. Typed
      BY <1>1, InvParts
    <2>2. toApp[a] # <<>> /\ Matches(a, Head(toApp[a]))
      BY <1>1, <2>1, OnlyRiaRecvEnds
    <2>3. toApp[a] \in Seq(Of(a)) /\ toApp[a] \in Seq(Current)
      BY <1>1 DEF RiaInv, AnswersOwn, Order
    <2>4. Head(toApp[a]) \in Of(a) /\ Head(toApp[a]) \in Current
      BY <2>2, <2>3, TakeFirst
    <2>. QED BY <2>2, <2>4 DEF Of, Current, Timely, Matches
  <1>2. RiaInv /\ [Next]_vars => [A]_vars
    BY <1>1
  <1>. QED BY <1>2, InvKept, PTL DEF Spec, AnswerIsOwn

-----------------------------------------------------------------------------
(* What was written reaches the reader *)

Rising(q) == \A i, j \in DOMAIN q : i < j => q[i] < q[j]

Firsts(f, k) == {f[l] : l \in 1 .. k}

LEMMA CountRising ==
  ASSUME NEW n \in Nat, NEW T, T \subseteq Nat, NEW f \in [1 .. n -> T], Rising(f), NEW k \in 0 .. n
  PROVE  Cardinality(Firsts(f, k)) = k
  <1> DEFINE S == Firsts(f, k)
  <1> USE DEF Firsts
  <1> DEFINE h == [l \in 1 .. k |-> f[l]]
  <1>1. k \in Nat /\ DOMAIN f = 1 .. n /\ 1 .. k \subseteq 1 .. n
    OBVIOUS
  <1>2. h \in [1 .. k -> S]
    OBVIOUS
  <1>3. ASSUME NEW a \in 1 .. k, NEW b \in 1 .. k, h[a] = h[b] PROVE a = b
    <2>1. a \in 1 .. n /\ b \in 1 .. n /\ f[a] = f[b] /\ f[a] \in Nat /\ f[b] \in Nat
      BY <1>1, <1>3
    <2>2. (a < b => f[a] < f[b]) /\ (b < a => f[b] < f[a])
      BY <1>1, <2>1 DEF Rising
    <2>. QED BY <2>1, <2>2
  <1>4. \A s \in S : \E a \in 1 .. k : h[a] = s
    OBVIOUS
  <1>5. h \in Bijection(1 .. k, S)
    <2> HIDE DEF h, S, Firsts
    <2>1. h \in Injection(1 .. k, S)
      BY <1>2, <1>3 DEF Injection, IsInjective
    <2>2. h \in Surjection(1 .. k, S)
      BY <1>2, <1>4 DEF Surjection
    <2>. QED BY <2>1, <2>2 DEF Bijection
  <1>6. ExistsBijection(1 .. k, S)
    BY <1>5 DEF ExistsBijection
  <1> HIDE DEF h, S, Firsts
  <1>7. Cardinality(S) = k
    BY <1>1, <1>6, FS_CountingElements
  <1>. QED BY <1>7 DEF S

(* A rising part of a rising sequence is a part of it in order. *)
LEMMA RisingPart ==
  ASSUME NEW w \in Seq(Nat), NEW g \in Seq(Nat), Rising(w), Rising(g),
         \A k \in DOMAIN g : \E j \in DOMAIN w : w[j] = g[k]
  PROVE  \E S \in SUBSET DOMAIN w :
            /\ Cardinality(S) = Len(g)
            /\ \A i \in S : w[i] = g[Cardinality({j \in S : j <= i})]
  <1> DEFINE n == Len(g)
             f == [k \in 1 .. n |-> CHOOSE j \in DOMAIN w : w[j] = g[k]]
             S == Firsts(f, n)
  <1>1. n \in Nat /\ DOMAIN g = 1 .. n /\ DOMAIN w = 1 .. Len(w) /\ Len(w) \in Nat
    OBVIOUS
  <1>2. \A k \in 1 .. n : g[k] \in Nat
    OBVIOUS
  <1>3. \A j \in DOMAIN w : w[j] \in Nat
    OBVIOUS
  <1>4. \A k \in 1 .. n : f[k] \in DOMAIN w /\ w[f[k]] = g[k]
    BY <1>1
  <1>5. f \in [1 .. n -> DOMAIN w] /\ DOMAIN f = 1 .. n
    BY <1>4
  <1> HIDE DEF f, n
  <1>6. ASSUME NEW i \in DOMAIN f, NEW j \in DOMAIN f, i < j PROVE f[i] < f[j]
    <2>1. g[i] < g[j] /\ g[i] \in Nat /\ g[j] \in Nat
      BY <1>1, <1>2, <1>5, <1>6 DEF Rising
    <2>2. w[f[i]] < w[f[j]] /\ f[i] \in DOMAIN w /\ f[j] \in DOMAIN w
      BY <1>4, <1>5, <2>1
    <2>3. f[j] < f[i] => w[f[j]] < w[f[i]]
      BY <2>2 DEF Rising
    <2>4. f[i] \in Nat /\ f[j] \in Nat /\ w[f[i]] \in Nat /\ w[f[j]] \in Nat
      BY <1>1, <1>3, <2>2
    <2>. QED BY <2>2, <2>3, <2>4
  <1>7. Rising(f) /\ DOMAIN w \subseteq Nat
    BY <1>1, <1>6 DEF Rising
  <1>10. ASSUME NEW k \in 0 .. n PROVE Cardinality(Firsts(f, k)) = k
    <2> DEFINE D == DOMAIN w
    <2>1. D \subseteq Nat /\ f \in [1 .. n -> D] /\ n \in Nat
      BY <1>1, <1>5, <1>7
    <2> HIDE DEF D
    <2>. QED BY <1>7, <2>1, CountRising
  <1>8. Cardinality(S) = n /\ S \in SUBSET DOMAIN w
    <2>1. n \in 0 .. n
      BY <1>1
    <2>2. Cardinality(S) = n
      BY <1>10, <2>1
    <2>. QED BY <1>1, <1>4, <2>2 DEF Firsts
  <1>9. ASSUME NEW i \in S PROVE w[i] = g[Cardinality({j \in S : j <= i})]
    <2>1. PICK k \in 1 .. n : i = f[k]
      BY DEF Firsts
    <2>2. k \in 0 .. n /\ k \in Nat
      BY <1>1
    <2>3. {j \in S : j <= i} = Firsts(f, k)
      <3>1. ASSUME NEW l \in 1 .. n PROVE f[l] <= i <=> l <= k
        <4>1. f[l] \in Nat /\ f[k] \in Nat
          BY <1>1, <1>4
        <4>2. (l < k => f[l] < f[k]) /\ (k < l => f[k] < f[l])
          BY <1>5, <1>7, <2>2 DEF Rising
        <4>. QED BY <1>1, <2>1, <2>2, <4>1, <4>2
      <3>2. \A l \in 1 .. n : l \in 1 .. k <=> l <= k
        BY <1>1, <2>2
      <3>3. 1 .. k \subseteq 1 .. n
        BY <1>1, <2>2
      <3>. QED BY <3>1, <3>2, <3>3 DEF Firsts
    <2>4. Cardinality(Firsts(f, k)) = k
      BY <1>10, <2>2
    <2>. QED BY <1>4, <2>1, <2>3, <2>4
  <1>. QED BY <1>8, <1>9 DEF n

(* The chunks of application a go from toProxy[a] to toDev, to queue, and to
   the reader.  Their numbers rise along the way. *)
In(p, q) == \E i \in DOMAIN q : p = q[i]
Chunk(p, a) == p.who = a /\ p.cmd = "DATA"
InOrder(q, a) ==
    \A i, j \in DOMAIN q : i < j /\ Chunk(q[i], a) /\ Chunk(q[j], a) => q[i].xid < q[j].xid
Before(q, r, a) ==
    \A p, s : In(p, q) /\ In(s, r) /\ Chunk(p, a) /\ Chunk(s, a) => p.xid < s.xid
Number(n, g) == \E i \in DOMAIN g : n = g[i]

(* How one queue stands to what has arrived (g) and what was written (w) *)
Stage(q, g, w, a) ==
    /\ q \in Seq(Packet) /\ InOrder(q, a)
    /\ \A p : In(p, q) /\ Chunk(p, a) => Number(p.xid, w) /\ \A n : Number(n, g) => n < p.xid

(* All of it: x is the number of the last packet, t, d and q the three queues. *)
Flow(g, w, x, q, d, t, a) ==
    /\ g \in Seq(Nat) /\ w \in Seq(Nat) /\ x \in Nat
    /\ Rising(w) /\ Rising(g)
    /\ \A n : Number(n, w) => n <= x
    /\ \A n : Number(n, g) => Number(n, w)
    /\ Stage(q, g, w, a) /\ Stage(d, g, w, a) /\ Stage(t, g, w, a)
    /\ Before(q, d, a) /\ Before(q, t, a) /\ Before(d, t, a)
    /\ \A p : In(p, q) => p.cmd = "DATA"

LEMMA TailIn ==
  ASSUME NEW q \in Seq(Packet), q # <<>>
  PROVE  /\ Tail(q) \in Seq(Packet) /\ In(Head(q), q)
         /\ \A p : In(p, Tail(q)) => In(p, q)
         /\ \A a : InOrder(q, a) =>
              /\ InOrder(Tail(q), a)
              /\ \A p : In(p, Tail(q)) /\ Chunk(p, a) /\ Chunk(Head(q), a) => Head(q).xid < p.xid
  <1>1. /\ Len(q) \in Nat \ {0} /\ DOMAIN q = 1 .. Len(q) /\ Head(q) = q[1]
        /\ Tail(q) \in Seq(Packet) /\ DOMAIN Tail(q) = 1 .. Len(q) - 1
        /\ \A i \in DOMAIN Tail(q) : Tail(q)[i] = q[i + 1] /\ i + 1 \in DOMAIN q /\ 1 < i + 1 /\ 1 \in DOMAIN q
    BY HeadTailProperties, EmptySeq
  <1>2. In(Head(q), q) /\ \A p : In(p, Tail(q)) => In(p, q)
    BY <1>1 DEF In
  <1>3. ASSUME NEW a, InOrder(q, a)
        PROVE  /\ InOrder(Tail(q), a)
               /\ \A p : In(p, Tail(q)) /\ Chunk(p, a) /\ Chunk(Head(q), a) => Head(q).xid < p.xid
    <2>1. ASSUME NEW i \in DOMAIN Tail(q), NEW j \in DOMAIN Tail(q), i < j,
                 Chunk(Tail(q)[i], a), Chunk(Tail(q)[j], a)
          PROVE  Tail(q)[i].xid < Tail(q)[j].xid
      <3>1. i + 1 < j + 1 /\ i + 1 \in DOMAIN q /\ j + 1 \in DOMAIN q
        BY <1>1, <2>1
      <3>2. Tail(q)[i] = q[i + 1] /\ Tail(q)[j] = q[j + 1]
        BY <1>1
      <3>. QED BY <1>3, <2>1, <3>1, <3>2 DEF InOrder
    <2>2. ASSUME NEW p, In(p, Tail(q)), Chunk(p, a), Chunk(Head(q), a) PROVE Head(q).xid < p.xid
      <3>1. PICK i \in DOMAIN Tail(q) : p = Tail(q)[i]
        BY <2>2 DEF In
      <3>2. p = q[i + 1] /\ i + 1 \in DOMAIN q /\ 1 < i + 1 /\ 1 \in DOMAIN q
        BY <1>1, <3>1
      <3>. QED BY <1>1, <1>3, <2>2, <3>2 DEF InOrder
    <2>. QED BY <2>1, <2>2 DEF InOrder
  <1>. QED BY <1>1, <1>2, <1>3

LEMMA AppendIn ==
  ASSUME NEW q \in Seq(Packet), NEW e \in Packet
  PROVE  /\ Append(q, e) \in Seq(Packet)
         /\ \A p : In(p, Append(q, e)) => In(p, q) \/ p = e
         /\ \A a : InOrder(q, a) /\ (\A p : In(p, q) /\ Chunk(p, a) /\ Chunk(e, a) => p.xid < e.xid)
                     => InOrder(Append(q, e), a)
  <1>1. /\ Len(q) \in Nat /\ DOMAIN q = 1 .. Len(q)
        /\ Append(q, e) \in Seq(Packet) /\ DOMAIN Append(q, e) = 1 .. Len(q) + 1
        /\ \A i \in 1 .. Len(q) : Append(q, e)[i] = q[i]
        /\ Append(q, e)[Len(q) + 1] = e
    BY AppendProperties, LenProperties
  <1>2. \A i \in DOMAIN Append(q, e) : i \in DOMAIN q \/ i = Len(q) + 1
    BY <1>1
  <1>3. \A p : In(p, Append(q, e)) => In(p, q) \/ p = e
    BY <1>1, <1>2 DEF In
  <1>4. ASSUME NEW a, InOrder(q, a), \A p : In(p, q) /\ Chunk(p, a) /\ Chunk(e, a) => p.xid < e.xid
        PROVE  InOrder(Append(q, e), a)
    <2> SUFFICES ASSUME NEW i \in DOMAIN Append(q, e), NEW j \in DOMAIN Append(q, e), i < j,
                        Chunk(Append(q, e)[i], a), Chunk(Append(q, e)[j], a)
                 PROVE  Append(q, e)[i].xid < Append(q, e)[j].xid
      BY DEF InOrder
    <2>1. i \in DOMAIN q
      BY <1>1
    <2>2. Append(q, e)[i] = q[i] /\ In(q[i], q)
      BY <1>1, <2>1 DEF In
    <2>3. CASE j \in DOMAIN q
      BY <1>1, <1>4, <2>1, <2>2, <2>3 DEF InOrder
    <2>4. CASE j = Len(q) + 1
      BY <1>1, <1>4, <2>2, <2>4
    <2>. QED BY <1>2, <2>3, <2>4
  <1>. QED BY <1>1, <1>3, <1>4

LEMMA EmptyIn == /\ <<>> \in Seq(Packet) /\ (\A p : ~ In(p, <<>>)) /\ \A a : InOrder(<<>>, a)
  BY EmptySeq DEF In, InOrder

(* Packets are lost: a queue is emptied or its first one dropped. *)
Shrinks(r, q) == r = q \/ r = <<>> \/ (q # <<>> /\ r = Tail(q))

LEMMA FlowShrinks ==
  ASSUME NEW g, NEW w, NEW x, NEW q, NEW d, NEW t, NEW a, Flow(g, w, x, q, d, t, a),
         NEW y \in Nat, x <= y,
         NEW q2, NEW d2, NEW t2, Shrinks(q2, q), Shrinks(d2, d), Shrinks(t2, t)
  PROVE  Flow(g, w, y, q2, d2, t2, a)
  <1>1. ASSUME NEW r, NEW s, Stage(r, g, w, a), Shrinks(s, r)
        PROVE  Stage(s, g, w, a) /\ \A p : In(p, s) => In(p, r)
    <2>1. CASE s = r
      BY <1>1, <2>1
    <2>2. CASE s = <<>>
      BY <2>2, EmptyIn DEF Stage
    <2>3. CASE r # <<>> /\ s = Tail(r)
      <3>1. r \in Seq(Packet) /\ InOrder(r, a)
        BY <1>1 DEF Stage
      <3>2. s \in Seq(Packet) /\ InOrder(s, a) /\ \A p : In(p, s) => In(p, r)
        BY <2>3, <3>1, TailIn
      <3>. QED BY <1>1, <3>2 DEF Stage
    <2>. QED BY <1>1, <2>1, <2>2, <2>3 DEF Shrinks
  <1>2. /\ Stage(q2, g, w, a) /\ \A p : In(p, q2) => In(p, q)
        /\ Stage(d2, g, w, a) /\ \A p : In(p, d2) => In(p, d)
        /\ Stage(t2, g, w, a) /\ \A p : In(p, t2) => In(p, t)
    BY <1>1 DEF Flow
  <1>3. Before(q2, d2, a) /\ Before(q2, t2, a) /\ Before(d2, t2, a)
    BY <1>2 DEF Flow, Before
  <1>4. \A n : Number(n, w) => n <= y
    <2> SUFFICES ASSUME NEW n, Number(n, w) PROVE n <= y
      OBVIOUS
    <2>1. n <= x /\ n \in Nat /\ x \in Nat
      BY DEF Flow, Number
    <2>. QED BY <2>1
  <1>. QED BY <1>2, <1>3, <1>4 DEF Flow

(* The first packet of a queue r moves to the end of the next one, s. *)
LEMMA StageMoves ==
  ASSUME NEW g, NEW w, NEW a, NEW r, NEW s, Stage(r, g, w, a), Stage(s, g, w, a), Before(s, r, a),
         r # <<>>
  PROVE  /\ Stage(Tail(r), g, w, a) /\ Stage(Append(s, Head(r)), g, w, a)
         /\ Before(Append(s, Head(r)), Tail(r), a)
         /\ Head(r) \in Packet /\ In(Head(r), r)
         /\ \A p : In(p, Tail(r)) => In(p, r)
         /\ \A p : In(p, Append(s, Head(r))) => In(p, s) \/ p = Head(r)
  <1>1. r \in Seq(Packet) /\ s \in Seq(Packet) /\ Head(r) \in Packet
    BY HeadTailProperties DEF Stage
  <1>2. /\ Tail(r) \in Seq(Packet) /\ In(Head(r), r)
        /\ \A p : In(p, Tail(r)) => In(p, r)
        /\ InOrder(Tail(r), a)
        /\ \A p : In(p, Tail(r)) /\ Chunk(p, a) /\ Chunk(Head(r), a) => Head(r).xid < p.xid
    BY <1>1, TailIn DEF Stage
  <1>3. \A p : In(p, s) /\ Chunk(p, a) /\ Chunk(Head(r), a) => p.xid < Head(r).xid
    BY <1>2 DEF Before
  <1>4. /\ Append(s, Head(r)) \in Seq(Packet) /\ InOrder(Append(s, Head(r)), a)
        /\ \A p : In(p, Append(s, Head(r))) => In(p, s) \/ p = Head(r)
    BY <1>1, <1>3, AppendIn DEF Stage
  <1>5. Stage(Tail(r), g, w, a)
    BY <1>2 DEF Stage
  <1>6. Stage(Append(s, Head(r)), g, w, a)
    BY <1>2, <1>4 DEF Stage
  <1>7. Before(Append(s, Head(r)), Tail(r), a)
    BY <1>2, <1>4 DEF Before
  <1>. QED BY <1>1, <1>2, <1>4, <1>5, <1>6, <1>7

LEMMA FlowToDev ==
  ASSUME NEW g, NEW w, NEW x, NEW q, NEW d, NEW t, NEW a, Flow(g, w, x, q, d, t, a), t # <<>>
  PROVE  Flow(g, w, x, q, Append(d, Head(t)), Tail(t), a)
  <1>1. /\ Stage(Tail(t), g, w, a) /\ Stage(Append(d, Head(t)), g, w, a)
        /\ Before(Append(d, Head(t)), Tail(t), a)
        /\ In(Head(t), t)
        /\ \A p : In(p, Tail(t)) => In(p, t)
        /\ \A p : In(p, Append(d, Head(t))) => In(p, d) \/ p = Head(t)
    BY StageMoves DEF Flow
  <1>2. Before(q, Append(d, Head(t)), a) /\ Before(q, Tail(t), a)
    BY <1>1 DEF Flow, Before
  <1>. QED BY <1>1, <1>2 DEF Flow

LEMMA FlowToQueue ==
  ASSUME NEW g, NEW w, NEW x, NEW q, NEW d, NEW t, NEW a, Flow(g, w, x, q, d, t, a),
         d # <<>>, Head(d).cmd = "DATA"
  PROVE  Flow(g, w, x, Append(q, Head(d)), Tail(d), t, a)
  <1>1. /\ Stage(Tail(d), g, w, a) /\ Stage(Append(q, Head(d)), g, w, a)
        /\ Before(Append(q, Head(d)), Tail(d), a)
        /\ In(Head(d), d)
        /\ \A p : In(p, Tail(d)) => In(p, d)
        /\ \A p : In(p, Append(q, Head(d))) => In(p, q) \/ p = Head(d)
    BY StageMoves DEF Flow
  <1>2. Before(Append(q, Head(d)), t, a) /\ Before(Tail(d), t, a)
    BY <1>1 DEF Flow, Before
  <1>. QED BY <1>1, <1>2 DEF Flow

LEMMA AppendNumber ==
  ASSUME NEW g \in Seq(Nat), NEW m \in Nat
  PROVE  /\ Append(g, m) \in Seq(Nat)
         /\ \A n : Number(n, Append(g, m)) <=> Number(n, g) \/ n = m
         /\ Rising(g) /\ (\A n : Number(n, g) => n < m) => Rising(Append(g, m))
  <1>1. /\ Len(g) \in Nat /\ DOMAIN g = 1 .. Len(g)
        /\ Append(g, m) \in Seq(Nat) /\ DOMAIN Append(g, m) = 1 .. Len(g) + 1
        /\ \A i \in 1 .. Len(g) : Append(g, m)[i] = g[i]
        /\ Append(g, m)[Len(g) + 1] = m
    BY AppendProperties, LenProperties
  <1>2. \A i : i \in DOMAIN Append(g, m) <=> i \in DOMAIN g \/ i = Len(g) + 1
    BY <1>1
  <1>3. \A n : Number(n, Append(g, m)) <=> Number(n, g) \/ n = m
    BY <1>1, <1>2 DEF Number
  <1>4. ASSUME Rising(g), \A n : Number(n, g) => n < m PROVE Rising(Append(g, m))
    <2> SUFFICES ASSUME NEW i \in DOMAIN Append(g, m), NEW j \in DOMAIN Append(g, m), i < j
                 PROVE  Append(g, m)[i] < Append(g, m)[j]
      BY DEF Rising
    <2>1. i \in DOMAIN g
      BY <1>1
    <2>2. Append(g, m)[i] = g[i] /\ Number(g[i], g)
      BY <1>1, <2>1 DEF Number
    <2>3. CASE j \in DOMAIN g
      BY <1>1, <1>4, <2>1, <2>2, <2>3 DEF Rising
    <2>4. CASE j = Len(g) + 1
      BY <1>1, <1>4, <2>2, <2>4
    <2>. QED BY <1>2, <2>3, <2>4
  <1>. QED BY <1>1, <1>3, <1>4

LEMMA FlowToReader ==
  ASSUME NEW g, NEW w, NEW x, NEW q, NEW d, NEW t, NEW a, Flow(g, w, x, q, d, t, a), q # <<>>,
         NEW h, h = IF Head(q).who = a THEN Append(g, Head(q).xid) ELSE g
  PROVE  Flow(h, w, x, Tail(q), d, t, a)
  <1>1. /\ q \in Seq(Packet) /\ InOrder(q, a)
        /\ Tail(q) \in Seq(Packet) /\ In(Head(q), q) /\ Head(q) \in Packet
        /\ \A p : In(p, Tail(q)) => In(p, q)
        /\ InOrder(Tail(q), a)
        /\ \A p : In(p, Tail(q)) /\ Chunk(p, a) /\ Chunk(Head(q), a) => Head(q).xid < p.xid
    BY TailIn, HeadTailProperties DEF Flow, Stage
  <1>2. Head(q).cmd = "DATA" /\ Head(q).xid \in Nat
    BY <1>1 DEF Flow, Packet
  <1>3. CASE Head(q).who # a
    <2>1. h = g /\ Shrinks(Tail(q), q) /\ Shrinks(d, d) /\ Shrinks(t, t) /\ x \in Nat /\ x <= x
      BY <1>3 DEF Shrinks, Flow
    <2>. QED BY <2>1, FlowShrinks
  <1>4. CASE Head(q).who = a
    <2> DEFINE m == Head(q).xid
    <2>1. Chunk(Head(q), a) /\ h = Append(g, m)
      BY <1>2, <1>4 DEF Chunk
    <2>2. Number(m, w) /\ \A n : Number(n, g) => n < m
      BY <1>1, <2>1 DEF Flow, Stage
    <2>3. h \in Seq(Nat) /\ Rising(h) /\ \A n : Number(n, h) <=> Number(n, g) \/ n = m
      BY <1>2, <2>1, <2>2, AppendNumber DEF Flow
    <2>4. Stage(Tail(q), h, w, a)
      BY <1>1, <2>1, <2>3 DEF Flow, Stage
    <2>5. Stage(d, h, w, a) /\ Stage(t, h, w, a)
      BY <1>1, <2>1, <2>3 DEF Flow, Stage, Before
    <2>6. Before(Tail(q), d, a) /\ Before(Tail(q), t, a)
      BY <1>1 DEF Flow, Before
    <2> HIDE DEF m
    <2>. QED BY <1>1, <2>2, <2>3, <2>4, <2>5, <2>6 DEF Flow
  <1>. QED BY <1>3, <1>4

(* A request without data, and a chunk with the next number *)
LEMMA FlowRequest ==
  ASSUME NEW g, NEW w, NEW x, NEW q, NEW d, NEW t, NEW a, Flow(g, w, x, q, d, t, a),
         NEW e \in Packet, e.cmd # "DATA"
  PROVE  Flow(g, w, x + 1, q, d, Append(t, e), a)
  <1>1. t \in Seq(Packet) /\ InOrder(t, a) /\ x \in Nat /\ ~ Chunk(e, a)
    BY DEF Flow, Stage, Chunk
  <1>2. /\ Append(t, e) \in Seq(Packet) /\ InOrder(Append(t, e), a)
        /\ \A p : In(p, Append(t, e)) /\ Chunk(p, a) => In(p, t)
    BY <1>1, AppendIn
  <1>3. Stage(Append(t, e), g, w, a) /\ Before(q, Append(t, e), a) /\ Before(d, Append(t, e), a)
    BY <1>2 DEF Flow, Stage, Before
  <1>4. Shrinks(q, q) /\ Shrinks(d, d) /\ Shrinks(t, t) /\ x + 1 \in Nat /\ x <= x + 1
    BY <1>1 DEF Shrinks
  <1>5. Flow(g, w, x + 1, q, d, t, a)
    BY <1>4, FlowShrinks
  <1>. QED BY <1>3, <1>5 DEF Flow

LEMMA ConcatIs ==
  ASSUME NEW S, NEW t \in Seq(S), NEW s \in Seq(S)
  PROVE  /\ t \o s \in Seq(S) /\ Len(t) \in Nat /\ Len(t \o s) = Len(t) + Len(s)
         /\ DOMAIN t = 1 .. Len(t) /\ DOMAIN (t \o s) = 1 .. Len(t) + Len(s)
         /\ \A i \in 1 .. Len(t) + Len(s) : (t \o s)[i] = IF i <= Len(t) THEN t[i] ELSE s[i - Len(t)]
  <1>1. /\ t \o s \in Seq(S) /\ Len(t \o s) = Len(t) + Len(s)
        /\ \A i \in 1 .. Len(t) + Len(s) : (t \o s)[i] = IF i <= Len(t) THEN t[i] ELSE s[i - Len(t)]
    BY ConcatProperties
  <1>2. Len(t) \in Nat /\ DOMAIN t = 1 .. Len(t) /\ DOMAIN (t \o s) = 1 .. Len(t \o s)
    BY <1>1, LenProperties
  <1>. QED BY <1>1, <1>2

(* The numbers that follow x, behind those of w *)
LEMMA ConcatNumber ==
  ASSUME NEW w \in Seq(Nat), NEW x \in Nat, NEW n \in Nat, Rising(w), \A m : Number(m, w) => m <= x
  PROVE  LET v == w \o [i \in 1 .. n |-> x + i]
         IN /\ v \in Seq(Nat) /\ Rising(v)
            /\ \A m : Number(m, w) => Number(m, v)
            /\ \A i \in 1 .. n : Number(x + i, v)
            /\ \A m : Number(m, v) => m <= x + n
  <1> DEFINE c == [i \in 1 .. n |-> x + i]
             v == w \o c
  <1>1. c \in Seq(Nat) /\ Len(c) = n /\ \A i \in 1 .. n : c[i] = x + i
    <2>1. c \in [1 .. n -> Nat] /\ DOMAIN c = 1 .. n
      OBVIOUS
    <2>. QED BY <2>1, SeqDef, LenProperties
  <1> HIDE DEF c
  <1>2. /\ v \in Seq(Nat) /\ Len(v) = Len(w) + n /\ Len(w) \in Nat
        /\ DOMAIN w = 1 .. Len(w) /\ DOMAIN v = 1 .. Len(w) + n
        /\ \A i \in 1 .. Len(w) + n : v[i] = IF i <= Len(w) THEN w[i] ELSE c[i - Len(w)]
    BY <1>1, ConcatIs
  <1> HIDE DEF v
  <1>3. ASSUME NEW i \in DOMAIN w PROVE i \in DOMAIN v /\ v[i] = w[i] /\ w[i] \in Nat /\ w[i] <= x
    <2>1. Number(w[i], w) /\ w[i] \in Nat
      BY <1>3 DEF Number
    <2>. QED BY <1>2, <2>1
  <1>4. ASSUME NEW i \in DOMAIN v, i \notin DOMAIN w
        PROVE  i - Len(w) \in 1 .. n /\ v[i] = x + (i - Len(w))
    BY <1>1, <1>2, <1>4
  <1>5. ASSUME NEW i \in 1 .. n PROVE Len(w) + i \in DOMAIN v /\ v[Len(w) + i] = x + i
    <2>1. Len(w) + i \in 1 .. Len(w) + n /\ ~ (Len(w) + i <= Len(w)) /\ (Len(w) + i) - Len(w) = i
      BY <1>2
    <2>. QED BY <1>1, <1>2, <2>1
  <1>6. Rising(v)
    <2> SUFFICES ASSUME NEW i \in DOMAIN v, NEW j \in DOMAIN v, i < j PROVE v[i] < v[j]
      BY DEF Rising
    <2>1. CASE j \in DOMAIN w
      <3>1. i \in DOMAIN w
        BY <1>2, <2>1
      <3>. QED BY <1>3, <2>1, <3>1 DEF Rising
    <2>2. CASE j \notin DOMAIN w /\ i \in DOMAIN w
      <3>1. j - Len(w) \in 1 .. n /\ v[j] = x + (j - Len(w)) /\ v[i] \in Nat /\ v[i] <= x
        BY <1>3, <1>4, <2>2
      <3>. QED BY <3>1
    <2>3. CASE j \notin DOMAIN w /\ i \notin DOMAIN w
      BY <1>2, <1>4, <2>3
    <2>. QED BY <2>1, <2>2, <2>3
  <1>7. \A m : Number(m, w) => Number(m, v)
    BY <1>3 DEF Number
  <1>8. \A i \in 1 .. n : Number(x + i, v)
    BY <1>5 DEF Number
  <1>9. ASSUME NEW i \in DOMAIN v PROVE v[i] <= x + n
    <2>1. CASE i \in DOMAIN w
      BY <1>3, <2>1
    <2>2. CASE i \notin DOMAIN w
      BY <1>4, <2>2
    <2>. QED BY <2>1, <2>2
  <1>10. \A m : Number(m, v) => m <= x + n
    BY <1>9 DEF Number
  <1>11. v \in Seq(Nat) /\ Rising(v)
    BY <1>2, <1>6
  <1>. QED BY <1>7, <1>8, <1>10, <1>11 DEF v, c

(* n packets with the numbers that follow x, behind those of t *)
Extended(t, s, x, n, a) ==
    /\ t \o s \in Seq(Packet) /\ InOrder(t \o s, a)
    /\ \A p : In(p, t \o s) => In(p, t) \/ \E i \in 1 .. n : p.xid = x + i
Following(s, x, n) == s \in Seq(Packet) /\ Len(s) = n /\ \A i \in 1 .. n : s[i].xid = x + i
UpTo(x, t, a) == \A p : In(p, t) /\ Chunk(p, a) => p.xid <= x

LEMMA ConcatIn ==
  ASSUME NEW t, t \in Seq(Packet), NEW x, x \in Nat, NEW n, n \in Nat, NEW s, Following(s, x, n),
         NEW a, InOrder(t, a), UpTo(x, t, a)
  PROVE  Extended(t, s, x, n, a)
  <1> USE DEF Following, UpTo
  <1> DEFINE v == t \o s
  <1>1. /\ v \in Seq(Packet) /\ Len(t) \in Nat
        /\ DOMAIN t = 1 .. Len(t) /\ DOMAIN v = 1 .. Len(t) + n
        /\ \A i \in 1 .. Len(t) + n : v[i] = IF i <= Len(t) THEN t[i] ELSE s[i - Len(t)]
    BY ConcatIs
  <1> HIDE DEF v
  <1>2. ASSUME NEW i \in DOMAIN t PROVE v[i] = t[i] /\ In(v[i], t) /\ v[i].xid \in Nat
    <2>1. v[i] = t[i] /\ t[i] \in Packet
      BY <1>1, <1>2
    <2>. QED BY <1>2, <2>1 DEF In, Packet
  <1>3. ASSUME NEW i \in DOMAIN v, i \notin DOMAIN t
        PROVE  i - Len(t) \in 1 .. n /\ v[i].xid = x + (i - Len(t))
    <2>1. i - Len(t) \in 1 .. n /\ v[i] = s[i - Len(t)]
      BY <1>1, <1>3
    <2>. QED BY <2>1
  <1>4. InOrder(v, a)
    <2> SUFFICES ASSUME NEW i \in DOMAIN v, NEW j \in DOMAIN v, i < j,
                        Chunk(v[i], a), Chunk(v[j], a)
                 PROVE  v[i].xid < v[j].xid
      BY DEF InOrder
    <2>1. CASE j \in DOMAIN t
      <3>1. i \in DOMAIN t
        BY <1>1, <2>1
      <3>. QED BY <1>2, <2>1, <3>1 DEF InOrder
    <2>2. CASE j \notin DOMAIN t /\ i \in DOMAIN t
      <3>1. v[i].xid \in Nat /\ v[i].xid <= x
        BY <1>2, <2>2
      <3>2. j - Len(t) \in 1 .. n /\ v[j].xid = x + (j - Len(t))
        BY <1>3, <2>2
      <3>. QED BY <3>1, <3>2
    <2>3. CASE j \notin DOMAIN t /\ i \notin DOMAIN t
      BY <1>1, <1>3, <2>3
    <2>. QED BY <2>1, <2>2, <2>3
  <1>5. ASSUME NEW p, In(p, v) PROVE In(p, t) \/ \E i \in 1 .. n : p.xid = x + i
    BY <1>2, <1>3, <1>5 DEF In
  <1>. QED BY <1>1, <1>4, <1>5 DEF v, Extended

LEMMA FlowSend ==
  ASSUME NEW g, NEW w, NEW x, NEW q, NEW d, NEW t, NEW a, Flow(g, w, x, q, d, t, a),
         NEW n \in Nat, NEW s, Following(s, x, n)
  PROVE  Flow(g, w \o [i \in 1 .. n |-> x + i], x + n, q, d, t \o s, a)
  <1> DEFINE v == w \o [i \in 1 .. n |-> x + i]
  <1>1. x \in Nat /\ x + n \in Nat /\ w \in Seq(Nat) /\ t \in Seq(Packet) /\ InOrder(t, a)
    BY DEF Flow, Stage
  <1>2. /\ v \in Seq(Nat) /\ Rising(v)
        /\ \A m : Number(m, w) => Number(m, v)
        /\ \A i \in 1 .. n : Number(x + i, v)
        /\ \A m : Number(m, v) => m <= x + n
    BY <1>1, ConcatNumber DEF Flow
  <1> HIDE DEF v
  <1>3. ASSUME NEW r, Stage(r, g, w, a)
        PROVE  /\ Stage(r, g, v, a)
               /\ \A p : In(p, r) /\ Chunk(p, a) => p.xid <= x /\ p.xid \in Nat
    <2>1. ASSUME NEW p, In(p, r), Chunk(p, a) PROVE p.xid <= x /\ p.xid \in Nat
      <3>1. Number(p.xid, w)
        BY <1>3, <2>1 DEF Stage
      <3>. QED BY <1>1, <3>1 DEF Flow, Number
    <2>2. r \in Seq(Packet) /\ InOrder(r, a)
      BY <1>3 DEF Stage
    <2>3. ASSUME NEW p, In(p, r), Chunk(p, a)
          PROVE  Number(p.xid, v) /\ \A m : Number(m, g) => m < p.xid
      BY <1>2, <1>3, <2>3 DEF Stage
    <2>. QED BY <2>1, <2>2, <2>3 DEF Stage
  <1>4. /\ t \o s \in Seq(Packet) /\ InOrder(t \o s, a)
        /\ \A p : In(p, t \o s) => In(p, t) \/ \E i \in 1 .. n : p.xid = x + i
    <2>1. UpTo(x, t, a)
      BY <1>3 DEF Flow, UpTo
    <2>2. Extended(t, s, x, n, a)
      BY <1>1, <2>1, ConcatIn
    <2>. QED BY <2>2 DEF Extended
  <1>5. Stage(t \o s, g, v, a)
    <2>1. ASSUME NEW m, Number(m, g), NEW i \in 1 .. n PROVE m < x + i
      <3>1. Number(m, w)
        BY <2>1 DEF Flow
      <3>2. m <= x /\ m \in Nat
        BY <3>1 DEF Flow, Number
      <3>. QED BY <1>1, <3>2
    <2>2. Stage(t, g, v, a)
      BY <1>3 DEF Flow
    <2>. QED BY <1>2, <1>4, <2>1, <2>2 DEF Stage
  <1>6. ASSUME NEW r, Stage(r, g, w, a), Before(r, t, a) PROVE Before(r, t \o s, a)
    <2> SUFFICES ASSUME NEW p, NEW u, In(p, r), In(u, t \o s), Chunk(p, a), Chunk(u, a)
                 PROVE  p.xid < u.xid
      BY DEF Before
    <2>1. CASE In(u, t)
      BY <1>6, <2>1 DEF Before
    <2>2. ASSUME NEW i \in 1 .. n, u.xid = x + i PROVE p.xid < u.xid
      <3>1. p.xid <= x /\ p.xid \in Nat
        BY <1>3, <1>6
      <3>. QED BY <1>1, <2>2, <3>1
    <2>. QED BY <1>4, <2>1, <2>2
  <1>7. Before(q, t \o s, a) /\ Before(d, t \o s, a)
    BY <1>6 DEF Flow
  <1>8. Stage(q, g, v, a) /\ Stage(d, g, v, a)
    BY <1>3 DEF Flow
  <1>9. \A m : Number(m, g) => Number(m, v)
    BY <1>2 DEF Flow
  <1>10. Flow(g, v, x + n, q, d, t \o s, a)
    BY <1>1, <1>2, <1>5, <1>7, <1>8, <1>9 DEF Flow
  <1>. QED BY <1>10 DEF v

LEMMA FlowForeign ==
  ASSUME NEW g, NEW w, NEW x, NEW q, NEW d, NEW t, NEW a, Flow(g, w, x, q, d, t, a),
         NEW e \in Packet, ~ Chunk(e, a)
  PROVE  Flow(g, w, x, q, Append(d, e), t, a)
  <1>1. d \in Seq(Packet) /\ InOrder(d, a)
    BY DEF Flow, Stage
  <1>2. /\ Append(d, e) \in Seq(Packet) /\ InOrder(Append(d, e), a)
        /\ \A p : In(p, Append(d, e)) /\ Chunk(p, a) => In(p, d)
    BY <1>1, AppendIn
  <1>3. Stage(Append(d, e), g, w, a) /\ Before(q, Append(d, e), a) /\ Before(Append(d, e), t, a)
    BY <1>2 DEF Flow, Stage, Before
  <1>. QED BY <1>3 DEF Flow

SentInv == \A a \in App : Flow(got[a], wrote[a], xid[a], queue, toDev, toProxy[a], a)

(* Nothing is sent and nothing arrives. *)
LEMMA SentLost ==
  ASSUME Typed, Typed', SentInv, UNCHANGED <<got, gotBytes, wrote, xid>>,
         Shrinks(queue', queue), Shrinks(toDev', toDev),
         \A a \in App : Shrinks(toProxy'[a], toProxy[a])
  PROVE  SentInv'
  <1> SUFFICES ASSUME NEW a \in App
               PROVE  Flow(got'[a], wrote'[a], xid'[a], queue', toDev', toProxy'[a], a)
    BY DEF SentInv
  <1>1. Flow(got[a], wrote[a], xid[a], queue, toDev, toProxy[a], a)
    BY DEF SentInv
  <1>2. xid[a] \in Nat /\ xid[a] <= xid[a]
    BY DEF Typed, Shape
  <1>3. Flow(got[a], wrote[a], xid[a], queue', toDev', toProxy'[a], a)
    BY <1>1, <1>2, FlowShrinks
  <1>. QED BY <1>3

LEMMA SentRequest ==
  ASSUME Typed, SentInv, NEW a \in App, NEW cmd \in DevCmd \cup {"LIST", "CLAIM"}, Request(a, cmd)
  PROVE  SentInv'
  <1> DEFINE e == Msg(cmd, xid[a] + 1, a)
  <1>1. /\ xid' = [xid EXCEPT ![a] = @ + 1] /\ toProxy' = [toProxy EXCEPT ![a] = Append(@, e)]
        /\ UNCHANGED <<wrote, got, gotBytes, queue, toDev>>
    BY DEF Request, export
  <1>2. xid \in [App -> Nat] /\ toProxy \in [App -> Seq(Current)]
    BY DEF Typed, Shape, Order
  <1>3. e \in Packet /\ e.cmd # "DATA"
    <2>1. cmd \in DevCmd \cup {"LIST", "CLAIM", "REGISTER", "DATA"} /\ xid[a] + 1 \in Nat
          /\ a \in App \cup {Nobody} /\ cmd # "DATA"
      BY <1>2 DEF DevCmd
    <2>2. Msg(cmd, xid[a] + 1, a) \in Packet /\ Msg(cmd, xid[a] + 1, a).cmd = cmd
      BY <2>1, MsgIs
    <2> HIDE DEF e
    <2>3. e \in Packet /\ e.cmd = cmd
      BY <2>2 DEF e
    <2>. QED BY <2>1, <2>3
  <1> HIDE DEF e
  <1>4. ASSUME NEW b \in App
        PROVE  Flow(got'[b], wrote'[b], xid'[b], queue', toDev', toProxy'[b], b)
    <2>1. Flow(got[b], wrote[b], xid[b], queue, toDev, toProxy[b], b)
      BY DEF SentInv
    <2>2. CASE b = a
      <3>1. Flow(got[a], wrote[a], xid[a] + 1, queue, toDev, Append(toProxy[a], e), a)
        BY <1>3, <2>1, <2>2, FlowRequest
      <3>2. xid'[a] = xid[a] + 1 /\ toProxy'[a] = Append(toProxy[a], e)
        BY <1>1, <1>2
      <3>. QED BY <1>1, <2>2, <3>1, <3>2
    <2>3. CASE b # a
      BY <1>1, <1>2, <2>1, <2>3
    <2>. QED BY <2>2, <2>3
  <1>. QED BY <1>4 DEF SentInv

LEMMA SentSend ==
  ASSUME Typed, SentInv, NEW a \in App, NEW n \in 1 .. Chunks, Send(a, n)
  PROVE  SentInv'
  <1> DEFINE x == xid[a]
             s == [i \in 1 .. n |-> Data(x + i, a, x + 1)]
             c == [i \in 1 .. n |-> x + i]
  <1>1. /\ xid \in [App -> Nat] /\ wrote \in [App -> Seq(Nat)] /\ toProxy \in [App -> Seq(Current)]
        /\ x \in Nat /\ n \in Nat
    <2>1. xid \in [App -> Nat] /\ wrote \in [App -> Seq(Nat)]
      BY DEF Typed, Shape
    <2>2. toProxy \in [App -> Seq(Current)]
      BY DEF Typed, Order
    <2>. QED BY <2>1, <2>2, RiaAssumption
  <1>2. Following(s, x, n)
    <2>1. ASSUME NEW i \in 1 .. n PROVE Data(x + i, a, x + 1) \in Packet /\ Data(x + i, a, x + 1).xid = x + i
      <3>1. x + i \in Nat /\ x + 1 \in Nat
        BY <1>1
      <3>. QED BY <3>1, DataIs
    <2>2. s \in [1 .. n -> Packet] /\ DOMAIN s = 1 .. n
      BY <2>1
    <2>3. s \in Seq(Packet) /\ Len(s) = n
      BY <1>1, <2>2, SeqDef, LenProperties
    <2>. QED BY <2>1, <2>3 DEF Following
  <1>3. /\ xid' = [xid EXCEPT ![a] = x + n] /\ wrote' = [wrote EXCEPT ![a] = @ \o c]
        /\ toProxy' = [toProxy EXCEPT ![a] = @ \o s] /\ UNCHANGED <<got, queue, toDev>>
    BY DEF Send, export
  <1> HIDE DEF s
  <1>4. ASSUME NEW b \in App
        PROVE  Flow(got'[b], wrote'[b], xid'[b], queue', toDev', toProxy'[b], b)
    <2>1. Flow(got[b], wrote[b], xid[b], queue, toDev, toProxy[b], b)
      BY DEF SentInv
    <2>2. CASE b = a
      <3>1. Flow(got[a], wrote[a] \o c, x + n, queue, toDev, toProxy[a] \o s, a)
        BY <1>1, <1>2, <2>1, <2>2, FlowSend
      <3>2. xid'[a] = x + n /\ toProxy'[a] = toProxy[a] \o s /\ wrote'[a] = wrote[a] \o c
        BY <1>1, <1>3
      <3>. QED BY <1>3, <2>2, <3>1, <3>2
    <2>3. CASE b # a
      BY <1>1, <1>3, <2>1, <2>3
    <2>. QED BY <2>2, <2>3
  <1>. QED BY <1>4 DEF SentInv

LEMMA SentAppHandler ==
  ASSUME Typed, Typed', OwnInv, SentInv, NEW a \in App, AppHandler(a)
  PROVE  SentInv'
  <1> DEFINE p == Head(toProxy[a])
  <1>1. /\ toProxy[a] # <<>> /\ toProxy' = [toProxy EXCEPT ![a] = Tail(@)]
        /\ UNCHANGED <<wrote, xid, got, gotBytes, queue>>
        /\ UNCHANGED toDev \/ toDev' = Append(toDev, p)
    BY DEF AppHandler, application, export
  <1>2. toProxy \in [App -> Seq(Current)]
    BY DEF Typed, Order
  <1>3. CASE UNCHANGED toDev
    <2>1. \A b \in App : Shrinks(toProxy'[b], toProxy[b])
      BY <1>1, <1>2 DEF Shrinks
    <2>2. Shrinks(queue', queue) /\ Shrinks(toDev', toDev)
      BY <1>1, <1>3 DEF Shrinks
    <2>. QED BY <1>1, <2>1, <2>2, SentLost
  <1>4. CASE toDev' = Append(toDev, p)
    <2>1. ASSUME NEW b \in App
          PROVE  Flow(got'[b], wrote'[b], xid'[b], queue', toDev', toProxy'[b], b)
      <3>1. Flow(got[b], wrote[b], xid[b], queue, toDev, toProxy[b], b)
        BY DEF SentInv
      <3>2. CASE b = a
        <4>1. Flow(got[a], wrote[a], xid[a], queue, Append(toDev, p), Tail(toProxy[a]), a)
          BY <1>1, <3>1, <3>2, FlowToDev
        <4>2. toProxy'[a] = Tail(toProxy[a])
          BY <1>1, <1>2
        <4>. QED BY <1>1, <1>4, <3>2, <4>1, <4>2
      <3>3. CASE b # a
        <4>1. p \in Of(a)
          BY <1>1, TakeFirst DEF OwnInv, RequestsOwn
        <4>2. p \in Packet /\ ~ Chunk(p, b)
          BY <3>3, <4>1 DEF Of, Chunk
        <4> HIDE DEF p
        <4>3. Flow(got[b], wrote[b], xid[b], queue, Append(toDev, p), toProxy[b], b)
          BY <3>1, <4>2, FlowForeign
        <4>4. toProxy'[b] = toProxy[b]
          BY <1>1, <1>2, <3>3
        <4>. QED BY <1>1, <1>4, <4>3, <4>4
      <3>. QED BY <3>2, <3>3
    <2>. QED BY <2>1 DEF SentInv
  <1>. QED BY <1>1, <1>3, <1>4

LEMMA SentDevsock ==
  ASSUME Typed, Typed', SentInv, DevsockProcess
  PROVE  SentInv'
  <1>1. /\ toDev # <<>> /\ toDev' = Tail(toDev) /\ UNCHANGED <<got, gotBytes, wrote, xid, toProxy>>
        /\ \/ Head(toDev).cmd = "DATA" /\ queue' = Enqueue(queue, Head(toDev))
           \/ queue' = queue
    BY DEF DevsockProcess, application
  <1>2. CASE queue' = queue
    BY <1>1, <1>2, SentLost DEF Shrinks
  <1>3. CASE Head(toDev).cmd = "DATA" /\ queue' = Append(queue, Head(toDev))
    <2>1. ASSUME NEW b \in App
          PROVE  Flow(got'[b], wrote'[b], xid'[b], queue', toDev', toProxy'[b], b)
      <3>1. Flow(got[b], wrote[b], xid[b], queue, toDev, toProxy[b], b)
        BY DEF SentInv
      <3>2. Flow(got[b], wrote[b], xid[b], Append(queue, Head(toDev)), Tail(toDev), toProxy[b], b)
        BY <1>1, <1>3, <3>1, FlowToQueue
      <3>. QED BY <1>1, <1>3, <3>2
    <2>. QED BY <2>1 DEF SentInv
  <1>. QED BY <1>1, <1>2, <1>3 DEF Enqueue

LEMMA SentPollOut ==
  ASSUME Typed, SentInv, PollOut
  PROVE  SentInv'
  <1>1. /\ queue # <<>> /\ queue' = Tail(queue)
        /\ got' = [got EXCEPT ![Head(queue).who] = Append(@, Head(queue).xid)]
        /\ UNCHANGED <<wrote, xid, toProxy, toDev>>
    BY DEF PollOut, application, wires
  <1>2. got \in [App -> Seq(Nat)]
    BY DEF Typed, Shape
  <1>3. ASSUME NEW b \in App
        PROVE  Flow(got'[b], wrote'[b], xid'[b], queue', toDev', toProxy'[b], b)
    <2> DEFINE h == IF Head(queue).who = b THEN Append(got[b], Head(queue).xid) ELSE got[b]
    <2>1. Flow(got[b], wrote[b], xid[b], queue, toDev, toProxy[b], b)
      BY DEF SentInv
    <2>2. Flow(h, wrote[b], xid[b], Tail(queue), toDev, toProxy[b], b)
      BY <1>1, <2>1, FlowToReader
    <2>3. got'[b] = h
      BY <1>1, <1>2
    <2>. QED BY <1>1, <2>2, <2>3
  <1>. QED BY <1>3 DEF SentInv

LEMMA SentGone ==
  ASSUME Typed, Typed', SentInv, NEW a \in App, NEW d, Gone(a, d), UNCHANGED <<got, gotBytes, wrote, xid>>,
         Shrinks(queue', queue), Shrinks(toDev', toDev)
  PROVE  SentInv'
  <1>1. toProxy' = [toProxy EXCEPT ![a] = <<>>] /\ toProxy \in [App -> Seq(Current)]
    BY DEF Gone, Typed, Order
  <1>2. \A b \in App : Shrinks(toProxy'[b], toProxy[b])
    BY <1>1 DEF Shrinks
  <1>. QED BY <1>2, SentLost

LEMMA NextSent ==
  ASSUME RiaInv, RiaInv', SentInv, Next
  PROVE  SentInv'
  <1>1. Typed /\ Typed' /\ OwnInv
    BY DEF RiaInv, Typed, OwnInv
  <1>2. ASSUME UNCHANGED <<got, gotBytes, wrote, xid, queue, toDev, toProxy>> PROVE SentInv'
    BY <1>1, <1>2, SentLost DEF Shrinks
  <1>3. ASSUME NEW a \in App, Connect(a) \/ OpenReset(a) \/ Command(a) PROVE SentInv'
    <2>1. \E cmd \in DevCmd \cup {"LIST", "CLAIM"} : Request(a, cmd)
      BY <1>3 DEF Connect, OpenReset, Command, DevCmd
    <2>. QED BY <1>1, <2>1, SentRequest
  <1>4. ASSUME NEW a \in App, Receive(a) \/ RiaRecv(a) \/ Timeout(a) PROVE SentInv'
    BY <1>2, <1>4 DEF Receive, RiaRecv, Timeout, export, wires
  <1>5. ASSUME NEW a \in App, AppClose(a) PROVE SentInv'
    <2>1. Gone(a, IF devPeer = a THEN Nobody ELSE devPeer) /\ UNCHANGED <<got, gotBytes, wrote, xid, queue, toDev>>
      BY <1>5 DEF AppClose, export
    <2>2. Shrinks(queue', queue) /\ Shrinks(toDev', toDev)
      BY <2>1 DEF Shrinks
    <2>. QED BY <1>1, <2>1, <2>2, SentGone
  <1>6. ASSUME NEW a \in App, AppHandler(a) PROVE SentInv'
    BY <1>1, <1>6, SentAppHandler
  <1>7. ASSUME NEW a \in App, NEW n \in 1 .. Chunks, Send(a, n) PROVE SentInv'
    BY <1>1, <1>7, SentSend
  <1>8. ASSUME DevHandler \/ Export \/ PollIn PROVE SentInv'
    BY <1>2, <1>8 DEF DevHandler, Export, PollIn, application, proxy
  <1>9. ASSUME DevClose PROVE SentInv'
    <2>1. /\ UNCHANGED <<got, gotBytes, wrote, xid>> /\ Shrinks(queue', queue) /\ Shrinks(toDev', toDev)
      BY <1>9 DEF DevClose, Shrinks
    <2>2. CASE devPeer = Nobody
      <3>1. \A b \in App : Shrinks(toProxy'[b], toProxy[b])
        BY <1>9, <2>2 DEF DevClose, Shrinks
      <3>. QED BY <1>1, <2>1, <3>1, SentLost
    <2>3. CASE devPeer # Nobody
      <3>1. devPeer \in App /\ Gone(devPeer, Nobody)
        BY <1>1, <1>9, <2>3 DEF DevClose, Typed, Shape
      <3>. QED BY <1>1, <2>1, <3>1, SentGone
    <2>. QED BY <2>2, <2>3
  <1>. QED BY <1>1, <1>3, <1>4, <1>5, <1>6, <1>7, <1>8, <1>9, SentDevsock, SentPollOut DEF Next

LEMMA InitSent == ASSUME Init PROVE SentInv
  <1>1. ASSUME NEW a \in App PROVE Flow(<<>>, <<>>, 0, <<>>, <<>>, <<>>, a)
    BY EmptyIn, EmptySeq DEF Flow, Stage, Before, Number, Rising
  <1>2. \A a \in App : got[a] = <<>> /\ wrote[a] = <<>> /\ xid[a] = 0 /\ toProxy[a] = <<>>
    BY DEF Init, None
  <1>3. queue = <<>> /\ toDev = <<>>
    BY DEF Init
  <1>. QED BY <1>1, <1>2, <1>3 DEF SentInv

LEMMA SentSuffices == ASSUME SentInv PROVE PacketsInOrder
  <1> SUFFICES ASSUME NEW a \in App PROVE PartOf(got[a], wrote[a])
    BY DEF PacketsInOrder
  <1> DEFINE w == wrote[a]
             g == got[a]
  <1>1. Flow(g, w, xid[a], queue, toDev, toProxy[a], a)
    BY DEF SentInv
  <1> HIDE DEF w, g
  <1>2. w \in Seq(Nat) /\ g \in Seq(Nat) /\ Rising(w) /\ Rising(g)
    BY <1>1 DEF Flow
  <1>3. ASSUME NEW k \in DOMAIN g PROVE \E j \in DOMAIN w : w[j] = g[k]
    <2>1. Number(g[k], g)
      BY <1>3 DEF Number
    <2>2. Number(g[k], w)
      BY <1>1, <2>1 DEF Flow
    <2>. QED BY <2>2 DEF Number
  <1>4. \E S \in SUBSET DOMAIN w :
            /\ Cardinality(S) = Len(g)
            /\ \A i \in S : w[i] = g[Cardinality({j \in S : j <= i})]
    BY <1>2, <1>3, RisingPart
  <1>. QED BY <1>4 DEF w, g, PartOf

(* The packets that reach the reader through ifd_remote_send(), the proxy and
   ria_poll_device() are a part of those the application sent, in order and none
   twice, through claims and ends of either side, however many packets a send
   takes.  (What a packet carries is another matter: see SentIntact.) *)
THEOREM PacketsArriveInOrder == Spec => []PacketsInOrder
  <1>1. Init => SentInv
    BY InitSent
  <1>2. RiaInv /\ RiaInv' /\ SentInv /\ [Next]_vars => SentInv'
    <2>1. ASSUME RiaInv, RiaInv', SentInv, Next PROVE SentInv'
      BY <2>1, NextSent
    <2>2. ASSUME SentInv, UNCHANGED vars PROVE SentInv'
      BY <2>2 DEF SentInv, vars, application, export, wires
    <2>. QED BY <2>1, <2>2
  <1>3. SentInv => PacketsInOrder
    BY SentSuffices
  <1>. QED BY <1>1, <1>2, <1>3, InvKept, PTL DEF Spec
============================================================================
