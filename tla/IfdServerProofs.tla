--------------------------- MODULE IfdServerProofs ---------------------------
(***************************************************************************)
(* Theorems about IfdServer: the sockets of the server stay sound, and the *)
(* client library with the ifdhandler behind it implements RpcService, for *)
(* every number of connections, every size of buffers, requests and        *)
(* answers, and every way in which packets are cut into pieces.            *)
(***************************************************************************)
EXTENDS IfdServer, SequenceTheorems, FiniteSetTheorems, TLAPS

-----------------------------------------------------------------------------
(* Packets and their pieces *)

Header(x, n, a) == [h |-> TRUE, xid |-> x, n |-> n, val |-> a]

LEMMA HeaderFields ==
  ASSUME NEW x, NEW n, NEW a, NEW f, f = Header(x, n, a)
  PROVE  f.xid = x /\ f.n = n /\ f.val = a
BY DEF Header

LEMMA HeaderFlag ==
  ASSUME NEW x, NEW n, NEW a, NEW f, f = Header(x, n, a)
  PROVE  f.h
BY DEF Header

LEMMA Fits ==
  ASSUME NEW k \in Nat, NEW l \in Nat, 1 + k <= BufSize - l, NEW p, p = k + 1, NEW m, m = l + p
  PROVE  m <= BufSize
BY ServerAssumption

LEMMA PacketType ==
  ASSUME NEW x \in 0 .. XidMod - 1, NEW n \in Nat, NEW a \in Arg
  PROVE  /\ Packet(x, n, a) \in Seq(Frag)
         /\ Len(Packet(x, n, a)) = n + 1
         /\ Packet(x, n, a) # <<>>
         /\ Packet(x, n, a)[1] = Header(x, n, a)
<1>1. \A i \in 1 .. n + 1 : [h |-> i = 1, xid |-> x, n |-> n, val |-> a] \in Frag
  BY DEF Frag
<1>2. Packet(x, n, a) \in Seq(Frag) /\ Len(Packet(x, n, a)) = n + 1
  BY <1>1, IsASeq DEF Packet
<1>3. Packet(x, n, a)[1] = Header(x, n, a)
  <2>1. 1 \in 1 .. n + 1
    OBVIOUS
  <2>2. Packet(x, n, a)[1] = [h |-> 1 = 1, xid |-> x, n |-> n, val |-> a]
    BY <2>1 DEF Packet
  <2>3. (1 = 1) = TRUE
    OBVIOUS
  <2> QED BY <2>2, <2>3 DEF Header
<1> QED BY <1>2, <1>3, EmptySeq

LEMMA Assoc ==
  ASSUME NEW s \in Seq(Frag), NEW t \in Seq(Frag), NEW u \in Seq(Frag)
  PROVE  (s \o t) \o u = s \o (t \o u)
BY ConcatAssociative

LEMMA Cut ==
  ASSUME NEW s \in Seq(Frag), NEW t \in Seq(Frag), NEW k \in 1 .. Len(t)
  PROVE  /\ SubSeq(t, 1, k) \in Seq(Frag) /\ Len(SubSeq(t, 1, k)) = k
         /\ Rest(t, k) \in Seq(Frag) /\ Len(Rest(t, k)) = Len(t) - k
         /\ s \o SubSeq(t, 1, k) \in Seq(Frag) /\ Len(s \o SubSeq(t, 1, k)) = Len(s) + k
         /\ s \o SubSeq(t, 1, k) # <<>>
         /\ (s \o SubSeq(t, 1, k)) \o Rest(t, k) = s \o t
<1>0. Len(t) \in Nat /\ Len(s) \in Nat /\ k \in 1 .. Len(t)
  BY LenProperties
<1>1. SubSeq(t, 1, k) \in Seq(Frag) /\ Len(SubSeq(t, 1, k)) = k
  <2>1. \A i \in 1 .. k : t[i] \in Frag
    BY <1>0, ElementOfSeq
  <2>2. /\ SubSeq(t, 1, k) \in Seq(Frag)
        /\ Len(SubSeq(t, 1, k)) = IF 1 <= k THEN k - 1 + 1 ELSE 0
    BY <1>0, <2>1, SubSeqProperties
  <2> QED BY <1>0, <2>2
<1>2. Rest(t, k) \in Seq(Frag) /\ Len(Rest(t, k)) = Len(t) - k
  <2>1. \A i \in k + 1 .. Len(t) : t[i] \in Frag
    BY <1>0, ElementOfSeq
  <2>2. /\ SubSeq(t, k + 1, Len(t)) \in Seq(Frag)
        /\ Len(SubSeq(t, k + 1, Len(t)))
             = IF k + 1 <= Len(t) THEN Len(t) - (k + 1) + 1 ELSE 0
    BY <1>0, <2>1, SubSeqProperties
  <2> QED BY <1>0, <2>2 DEF Rest
<1>3. SubSeq(t, 1, k) \o Rest(t, k) = t
  <2>1. SubSeq(t, 1, k) \o SubSeq(t, k + 1, Len(t)) = SubSeq(t, 1, Len(t))
    BY <1>0, ConcatAdjacentSubSeq
  <2>2. SubSeq(t, 1, Len(t)) = t
    BY SubSeqFull
  <2> QED BY <2>1, <2>2 DEF Rest
<1>4. /\ s \o SubSeq(t, 1, k) \in Seq(Frag) /\ Len(s \o SubSeq(t, 1, k)) = Len(s) + k
  BY <1>1, ConcatProperties
<1>5. s \o SubSeq(t, 1, k) # <<>>
  BY <1>0, <1>4, EmptySeq
<1>6. (s \o SubSeq(t, 1, k)) \o Rest(t, k) = s \o t
  <2>0. SubSeq(t, 1, k) \in Seq(Frag) /\ Rest(t, k) \in Seq(Frag) /\ s \in Seq(Frag)
    BY <1>1, <1>2
  <2>1. (s \o SubSeq(t, 1, k)) \o Rest(t, k) = s \o (SubSeq(t, 1, k) \o Rest(t, k))
    <3> DEFINE u == SubSeq(t, 1, k)
               v == Rest(t, k)
    <3>1. u \in Seq(Frag) /\ v \in Seq(Frag) /\ s \in Seq(Frag)
      BY <2>0
    <3> HIDE DEF u, v
    <3>2. (s \o u) \o v = s \o (u \o v)
      BY <3>1, ConcatAssociative
    <3> QED BY <3>2 DEF u, v
  <2> QED BY <1>3, <2>1
<1> QED BY <1>1, <1>2, <1>4, <1>5, <1>6

(* What is left when a packet was taken out is a sequence again. *)
LEMMA AfterPacketType ==
  ASSUME NEW q \in Seq(Frag), Complete(q)
  PROVE  /\ AfterPacket(q) \in Seq(Frag) /\ Len(AfterPacket(q)) <= Len(q)
         /\ Head(q) \in Frag
<1>0. Head(q) \in Frag /\ Len(q) \in Nat
  BY HeadTailProperties, LenProperties DEF Complete
<1>1. Head(q).n \in Nat
  BY <1>0 DEF Frag
<1>2. \A i \in 2 + Head(q).n .. Len(q) : q[i] \in Frag
  BY <1>0, <1>1, ElementOfSeq
<1>3. /\ AfterPacket(q) \in Seq(Frag)
      /\ Len(AfterPacket(q)) = IF 2 + Head(q).n <= Len(q) THEN Len(q) - (2 + Head(q).n) + 1 ELSE 0
  BY <1>0, <1>1, <1>2, SubSeqProperties DEF AfterPacket
<1> QED BY <1>0, <1>1, <1>3

-----------------------------------------------------------------------------
(* Type correctness *)

LEMMA DropType ==
  ASSUME TypeOK, NEW dead \in SUBSET Conn, Drop(dead)
  PROVE  /\ con' \in [Conn -> {"free", "backlog", "open"}]
         /\ rbuf' \in [Conn -> Seq(Frag)] /\ sbuf' \in [Conn -> Seq(Frag)]
         /\ \A c \in Conn : Len(rbuf'[c]) <= BufSize /\ Len(sbuf'[c]) <= BufSize
         /\ events' \in [Conn -> {"IN", "OUT"}]
<1>1. <<>> \in Seq(Frag) /\ Len(<<>>) <= BufSize
  BY ServerAssumption
<1> QED BY <1>1 DEF Drop, TypeOK

LEMMA FreeType ==
  ASSUME TypeOK, NEW c \in Conn, Free(c),
         UNCHANGED <<caller, down, hungup, err, srv, max_sockets>>,
         up' \in [Conn -> Seq(Frag)], runs' \in [Conn -> Nat]
  PROVE  TypeOK'
<1>1. Drop({c}) /\ {c} \in SUBSET Conn /\ todo' = [todo EXCEPT ![c] = {}] /\ listener' = listener
  BY DEF Free
<1>2. todo' \in [Conn -> SUBSET {"ERR", "OUT", "IN"}]
  BY <1>1 DEF TypeOK
<1> QED BY <1>1, <1>2, DropType DEF TypeOK, caller

LEMMA ServeType ==
  ASSUME TypeOK, NEW c \in Conn, NEW ev, Serve(c, ev)
  PROVE  todo' \in [Conn -> SUBSET {"ERR", "OUT", "IN"}] /\ listener' = listener
BY DEF Serve, TypeOK

(* What a read gives: the buffer holds a proper sequence that fits. *)
LEMMA ReadType ==
  ASSUME NEW s \in Seq(Frag), NEW t \in Seq(Frag), NEW k \in Reads(s, t)
  PROVE  /\ k \in 1 .. Len(t)
         /\ s \o SubSeq(t, 1, k) \in Seq(Frag)
         /\ Len(s \o SubSeq(t, 1, k)) <= BufSize
         /\ s \o SubSeq(t, 1, k) # <<>>
         /\ Rest(t, k) \in Seq(Frag)
         /\ (s \o SubSeq(t, 1, k)) \o Rest(t, k) = s \o t
<1>1. k \in 1 .. Len(t) /\ Len(s) + k <= BufSize
  BY DEF Reads
<1>2. /\ s \o SubSeq(t, 1, k) \in Seq(Frag)
      /\ Len(s \o SubSeq(t, 1, k)) = Len(s) + k
      /\ s \o SubSeq(t, 1, k) # <<>>
      /\ Rest(t, k) \in Seq(Frag)
      /\ (s \o SubSeq(t, 1, k)) \o Rest(t, k) = s \o t
  BY <1>1, Cut
<1> QED BY <1>1, <1>2

LEMMA ServerTypeStep == ASSUME TypeOK, [Next]_vars PROVE TypeOK'
<1> USE ServerAssumption
<1>0. <<>> \in Seq(Frag) /\ Len(<<>>) <= BufSize /\ Requests \subseteq Nat
  OBVIOUS
<1>1. ASSUME NEW c \in Conn, Connect(c) PROVE TypeOK'
  BY <1>0, <1>1 DEF Connect, TypeOK
<1>2. ASSUME NEW c \in Conn, NEW a \in Arg, NEW n \in Requests, Call(c, a, n) PROVE TypeOK'
  <2>1. Fresh(ifd_xid[c]) \in 0 .. XidMod - 1
    BY DEF Fresh, TypeOK
  <2>2. (Fresh(ifd_xid[c]) + 1) % XidMod \in 0 .. XidMod - 1
    BY <2>1
  <2>3. up[c] \o Packet(Fresh(ifd_xid[c]), n, a) \in Seq(Frag)
    BY <1>0, <2>1, PacketType, ConcatProperties DEF TypeOK
  <2> DEFINE p == Packet(Fresh(ifd_xid[c]), n, a)
  <2>4. /\ UNCHANGED <<crbuf, ceof, down, hungup, err, srv, handler>>
        /\ ifd_xid' = [ifd_xid EXCEPT ![c] = (Fresh(ifd_xid[c]) + 1) % XidMod]
        /\ \/ /\ pc' = [pc EXCEPT ![c] = "wait"]
              /\ xid' = [xid EXCEPT ![c] = Fresh(ifd_xid[c])]
              /\ arg' = [arg EXCEPT ![c] = a]
              /\ up' = [up EXCEPT ![c] = up[c] \o Packet(Fresh(ifd_xid[c]), n, a)]
              /\ runs' = [runs EXCEPT ![c] = 0]
              /\ UNCHANGED ret
           \/ /\ ret' = [ret EXCEPT ![c] = NoArg]
              /\ UNCHANGED <<pc, xid, arg, up, runs>>
    BY <1>2 DEF Call
  <2>5. /\ up' \in [Conn -> Seq(Frag)]
        /\ pc' \in [Conn -> {"off", "idle", "wait", "gone"}]
        /\ ifd_xid' \in [Conn -> 0 .. XidMod - 1] /\ xid' \in [Conn -> 0 .. XidMod - 1]
        /\ arg' \in [Conn -> Arg \cup {NoArg}] /\ ret' \in [Conn -> Arg \cup {NoArg}]
        /\ runs' \in [Conn -> Nat]
    <3> HIDE DEF p
    <3>1. CASE pc' = [pc EXCEPT ![c] = "wait"] /\ up' = [up EXCEPT ![c] = up[c] \o p]
               /\ xid' = [xid EXCEPT ![c] = Fresh(ifd_xid[c])] /\ arg' = [arg EXCEPT ![c] = a]
               /\ runs' = [runs EXCEPT ![c] = 0] /\ UNCHANGED ret
      <4>1. up[c] \o p \in Seq(Frag)
        BY <2>3 DEF p
      <4>2. up' \in [Conn -> Seq(Frag)]
        BY <3>1, <4>1, Zenon DEF TypeOK
      <4> QED BY <2>1, <2>2, <2>4, <3>1, <4>2 DEF TypeOK
    <3>2. CASE ret' = [ret EXCEPT ![c] = NoArg] /\ UNCHANGED <<pc, xid, arg, up, runs>>
      BY <2>2, <2>4, <3>2 DEF TypeOK
    <3> QED BY <2>4, <3>1, <3>2 DEF p
  <2> QED BY <2>4, <2>5 DEF TypeOK, handler
<1>3. ASSUME NEW c \in Conn, CallRead(c) PROVE TypeOK'
  <2>0. UNCHANGED <<ifd_xid, xid, arg, up, hungup, err, srv, handler, runs>>
    BY <1>3 DEF CallRead
  <2>1. ASSUME NEW k \in Reads(crbuf[c], down[c]),
               down' = [down EXCEPT ![c] = Rest(down[c], k)], UNCHANGED ceof,
               LET q == crbuf[c] \o SubSeq(down[c], 1, k) IN
                 \/ Complete(q) /\ TakeReply(c, q)
                 \/ NeverFits(q) /\ CallFails(c) /\ crbuf' = [crbuf EXCEPT ![c] = q]
                 \/ /\ ~ Complete(q) /\ ~ NeverFits(q)
                    /\ crbuf' = [crbuf EXCEPT ![c] = q]
                    /\ UNCHANGED <<pc, ret>>
        PROVE  TypeOK'
    <3> DEFINE q == crbuf[c] \o SubSeq(down[c], 1, k)
    <3>1. q \in Seq(Frag) /\ Len(q) <= BufSize /\ Rest(down[c], k) \in Seq(Frag) /\ Len(q) \in Nat
      BY ReadType, LenProperties DEF TypeOK
    <3>2. down' \in [Conn -> Seq(Frag)]
      BY <2>1, <3>1 DEF TypeOK
    <3>3. CASE Complete(q) /\ TakeReply(c, q)
      <4>1. AfterPacket(q) \in Seq(Frag) /\ Len(AfterPacket(q)) <= BufSize /\ Head(q) \in Frag
        <5>1. /\ AfterPacket(q) \in Seq(Frag) /\ Len(AfterPacket(q)) <= Len(q)
              /\ Head(q) \in Frag
          BY <3>1, <3>3, AfterPacketType, Zenon
        <5>2. Len(AfterPacket(q)) \in Nat
          BY <5>1, LenProperties, Zenon
        <5> HIDE DEF q
        <5> QED BY <3>1, <5>1, <5>2
      <4>2. Head(q).val \in Arg
        BY <4>1 DEF Frag
      <4> HIDE DEF q
      <4> QED BY <2>0, <2>1, <3>2, <3>3, <4>1, <4>2 DEF TypeOK, TakeReply, handler
    <3>4. CASE ~(Complete(q) /\ TakeReply(c, q))
      <4>1. /\ crbuf' = [crbuf EXCEPT ![c] = q]
            /\ CallFails(c) \/ UNCHANGED <<pc, ret>>
        BY <2>1, <3>4
      <4> HIDE DEF q
      <4> QED BY <2>0, <2>1, <3>1, <3>2, <4>1 DEF TypeOK, CallFails, handler
    <3> QED BY <3>3, <3>4
  <2>2. ASSUME Closed(c), ceof' = [ceof EXCEPT ![c] = TRUE],
               CallFails(c) \/ UNCHANGED <<pc, ret>>, UNCHANGED <<down, crbuf>>
        PROVE  TypeOK'
    BY <2>0, <2>2 DEF TypeOK, CallFails, handler
  <2> QED BY <1>3, <2>1, <2>2 DEF CallRead
<1>4. ASSUME NEW c \in Conn, Leave(c) \/ Forget(c) PROVE TypeOK'
  <2>1. CASE Leave(c)
    <3>1. (down[c] # <<>>) \in BOOLEAN
      OBVIOUS
    <3>2. err' = [err EXCEPT ![c] = down[c] # <<>>]
      BY <2>1 DEF Leave
    <3>3. err' \in [Conn -> BOOLEAN]
      BY <3>1, <3>2, Zenon DEF TypeOK
    <3> QED BY <1>0, <2>1, <3>3 DEF Leave, TypeOK, handler
  <2>2. CASE Forget(c)
    BY <2>2 DEF Forget, TypeOK, handler
  <2> QED BY <1>4, <2>1, <2>2
<1>5. CASE Poll
  <2>1. PICK excess \in SUBSET Open :
          /\ Drop(excess)
          /\ todo' = [c \in Conn |-> IF c \in Open \ excess THEN Revents(c) ELSE {}]
    BY <1>5 DEF Poll
  <2>2. excess \in SUBSET Conn
    BY DEF Open
  <2>3. todo' \in [Conn -> SUBSET {"ERR", "OUT", "IN"}]
    BY <2>1 DEF Revents
  <2>4. listener' \in BOOLEAN
    BY <1>5 DEF Poll
  <2>5. UNCHANGED <<caller, up, down, hungup, err, srv, max_sockets, runs>>
    BY <1>5 DEF Poll
  <2> QED BY <2>1, <2>2, <2>3, <2>4, <2>5, DropType DEF TypeOK, caller
<1>6. ASSUME NEW c \in Conn, Accept(c) PROVE TypeOK'
  BY <1>0, <1>6 DEF Accept, TypeOK, caller
<1>7. ASSUME NEW c \in Conn, OnError(c) PROVE TypeOK'
  BY <1>7, ServeType DEF OnError, TypeOK, caller
<1>8. ASSUME NEW c \in Conn, OnInput(c) PROVE TypeOK'
  <2>1. PICK k \in Reads(rbuf[c], up[c]) :
          LET q == rbuf[c] \o SubSeq(up[c], 1, k) IN
            /\ up' = [up EXCEPT ![c] = Rest(@, k)]
            /\ IF Complete(q)
                 THEN /\ runs' = [runs EXCEPT ![c] = @ + 1]
                      /\ rbuf' = [rbuf EXCEPT ![c] = AfterPacket(q)]
                      /\ \E n \in Answers : PutPacket(c, Head(q).xid, n, Head(q).val)
                 ELSE rbuf' = [rbuf EXCEPT ![c] = q] /\ UNCHANGED <<runs, sbuf, events>>
    BY <1>8 DEF OnInput
  <2> DEFINE q == rbuf[c] \o SubSeq(up[c], 1, k)
  <2>2. q \in Seq(Frag) /\ Len(q) <= BufSize /\ Rest(up[c], k) \in Seq(Frag) /\ Len(q) \in Nat
    BY ReadType, LenProperties DEF TypeOK
  <2>3. UNCHANGED <<caller, down, hungup, err, srv, con, max_sockets>> /\ Serve(c, "IN")
    BY <1>8 DEF OnInput
  <2>4. up' \in [Conn -> Seq(Frag)]
    BY <2>1, <2>2 DEF TypeOK
  <2>5. CASE Complete(q)
    <3>1. AfterPacket(q) \in Seq(Frag) /\ Len(AfterPacket(q)) <= BufSize /\ Head(q) \in Frag
      <4>1. /\ AfterPacket(q) \in Seq(Frag) /\ Len(AfterPacket(q)) <= Len(q)
            /\ Head(q) \in Frag
        BY <2>2, <2>5, AfterPacketType, Zenon
      <4>2. Len(AfterPacket(q)) \in Nat
        BY <4>1, LenProperties, Zenon
      <4> HIDE DEF q
      <4> QED BY <2>2, <4>1, <4>2
    <3>2. Head(q).xid \in 0 .. XidMod - 1 /\ Head(q).val \in Arg
      BY <3>1 DEF Frag
    <3>3. PICK n \in Answers : PutPacket(c, Head(q).xid, n, Head(q).val)
      BY <2>1, <2>5
    <3> DEFINE p == Packet(Head(q).xid, n, Head(q).val)
    <3>4. p \in Seq(Frag) /\ Len(p) = n + 1 /\ n \in Nat
      BY <3>2, PacketType
    <3>5. sbuf[c] \o p \in Seq(Frag) /\ Len(sbuf[c] \o p) <= BufSize
      <4>0. sbuf[c] \in Seq(Frag)
        BY DEF TypeOK
      <4>1. sbuf[c] \o p \in Seq(Frag) /\ Len(sbuf[c] \o p) = Len(sbuf[c]) + Len(p)
        BY <3>4, <4>0, ConcatProperties, Zenon
      <4>2. 1 + n <= BufSize - Len(sbuf[c]) /\ Len(sbuf[c]) \in Nat
        BY <3>3, <4>0, LenProperties DEF PutPacket
      <4>3. Len(sbuf[c] \o p) <= BufSize
        BY <3>4, <4>1, <4>2, Fits
      <4> QED BY <4>1, <4>3
    <3>6. sbuf' = [sbuf EXCEPT ![c] = sbuf[c] \o p] /\ events' = [events EXCEPT ![c] = "OUT"]
      BY <3>3 DEF PutPacket
    <3>7. runs' = [runs EXCEPT ![c] = @ + 1] /\ rbuf' = [rbuf EXCEPT ![c] = AfterPacket(q)]
      BY <2>1, <2>5
    <3>8. /\ sbuf' \in [Conn -> Seq(Frag)] /\ rbuf' \in [Conn -> Seq(Frag)]
          /\ \A d \in Conn : Len(rbuf'[d]) <= BufSize /\ Len(sbuf'[d]) <= BufSize
          /\ runs' \in [Conn -> Nat] /\ events' \in [Conn -> {"IN", "OUT"}]
      <4> HIDE DEF p, q
      <4>1. runs' \in [Conn -> Nat] /\ events' \in [Conn -> {"IN", "OUT"}]
        BY <3>6, <3>7 DEF TypeOK
      <4>2. /\ sbuf' \in [Conn -> Seq(Frag)] /\ rbuf' \in [Conn -> Seq(Frag)]
        BY <3>1, <3>5, <3>6, <3>7, Zenon DEF TypeOK
      <4>3. ASSUME NEW d \in Conn
            PROVE  Len(rbuf'[d]) <= BufSize /\ Len(sbuf'[d]) <= BufSize
        <5>1. CASE d = c
          <6>1. rbuf'[d] = AfterPacket(q) /\ sbuf'[d] = sbuf[c] \o p
            BY <3>6, <3>7, <5>1, Zenon DEF TypeOK
          <6> QED BY <3>1, <3>5, <6>1
        <5>2. CASE d # c
          <6>1. rbuf'[d] = rbuf[d] /\ sbuf'[d] = sbuf[d]
            BY <3>6, <3>7, <5>2, Zenon DEF TypeOK
          <6> QED BY <6>1 DEF TypeOK
        <5> QED BY <5>1, <5>2
      <4> QED BY <4>1, <4>2, <4>3
    <3> QED BY <2>3, <2>4, <3>8, ServeType DEF TypeOK, caller
  <2>6. CASE ~ Complete(q)
    <3>1. rbuf' = [rbuf EXCEPT ![c] = q] /\ UNCHANGED <<runs, sbuf, events>>
      BY <2>1, <2>6
    <3> HIDE DEF q
    <3> QED BY <2>2, <2>3, <2>4, <3>1, ServeType DEF TypeOK, caller
  <2> QED BY <2>5, <2>6
<1>9. ASSUME NEW c \in Conn, OnInputTooLarge(c) PROVE TypeOK'
  <2>1. PICK k \in Reads(rbuf[c], up[c]) : up' = [up EXCEPT ![c] = Rest(@, k)]
    BY <1>9 DEF OnInputTooLarge
  <2>2. up' \in [Conn -> Seq(Frag)]
    BY <2>1, ReadType DEF TypeOK
  <2>3. runs' \in [Conn -> Nat]
    BY <1>9 DEF OnInputTooLarge, TypeOK
  <2> QED BY <1>9, <2>2, <2>3, FreeType DEF OnInputTooLarge
<1>10. ASSUME NEW c \in Conn, OnEof(c) \/ OnOutputClosed(c) PROVE TypeOK'
  <2>1. Free(c) /\ UNCHANGED <<caller, down, hungup, err, srv, max_sockets>> /\ UNCHANGED <<up, runs>>
    BY <1>10 DEF OnEof, OnOutputClosed
  <2> QED BY <2>1, FreeType DEF TypeOK
<1>11. ASSUME NEW c \in Conn, OnOutput(c) PROVE TypeOK'
  <2>0. Serve(c, "OUT") /\ Flsbuf(c)
        /\ UNCHANGED <<caller, up, hungup, err, srv, con, rbuf, max_sockets, runs>>
    BY <1>11 DEF OnOutput
  <2>1. CASE sbuf[c] = <<>>
    BY <2>0, <2>1, ServeType DEF Flsbuf, TypeOK, caller
  <2>2. CASE sbuf[c] # <<>>
    <3>1. PICK k \in 1 .. Len(sbuf[c]) :
            /\ down' = [down EXCEPT ![c] = @ \o SubSeq(sbuf[c], 1, k)]
            /\ sbuf' = [sbuf EXCEPT ![c] = Rest(@, k)]
      BY <2>0, <2>2 DEF Flsbuf
    <3>2. /\ down[c] \o SubSeq(sbuf[c], 1, k) \in Seq(Frag)
          /\ Rest(sbuf[c], k) \in Seq(Frag)
          /\ Len(Rest(sbuf[c], k)) <= BufSize
      <4>1. down[c] \in Seq(Frag) /\ sbuf[c] \in Seq(Frag) /\ Len(sbuf[c]) <= BufSize
            /\ Len(sbuf[c]) \in Nat
        BY LenProperties DEF TypeOK
      <4>2. /\ Len(Rest(sbuf[c], k)) = Len(sbuf[c]) - k /\ Rest(sbuf[c], k) \in Seq(Frag)
            /\ down[c] \o SubSeq(sbuf[c], 1, k) \in Seq(Frag)
        BY <4>1, Cut, Zenon
      <4> QED BY <4>1, <4>2
    <3>3. UNCHANGED events
      BY <2>0, <2>2 DEF Flsbuf
    <3> QED BY <2>0, <3>1, <3>2, <3>3, ServeType DEF TypeOK, caller
  <2> QED BY <2>1, <2>2
<1>12. CASE UNCHANGED vars
  BY <1>12 DEF vars, caller, handler, TypeOK
<1> QED
  BY <1>1, <1>2, <1>3, <1>4, <1>5, <1>6, <1>7, <1>8, <1>9, <1>10, <1>11, <1>12
  DEF Next, Handler, Caller

-----------------------------------------------------------------------------
(* The part of a packet that was read so far *)

Asked(c) ==
    /\ runs[c] = 0 /\ arg[c] \in Arg
    /\ \E n \in Requests : rbuf[c] \o up[c] = Packet(xid[c], n, arg[c])

(* What the caller has of the answer, and t that it will never or later get. *)
AnswerWith(c, t) ==
    /\ runs[c] = 1 /\ arg[c] \in Arg
    /\ \E n \in Answers :
         n + 1 <= BufSize /\ crbuf[c] \o (down[c] \o t) = Packet(xid[c], n, arg[c])

Silent(c) == crbuf[c] = <<>> /\ down[c] = <<>>

AtRest(c) == Silent(c) /\ sbuf[c] = <<>> /\ rbuf[c] = <<>> /\ up[c] = <<>>
Waiting(c) == Asked(c) /\ Silent(c) /\ sbuf[c] = <<>>
Answered(c) == rbuf[c] = <<>> /\ up[c] = <<>> /\ AnswerWith(c, sbuf[c])

(* A request is on its way to the handler, or its only answer on its way back,
   or the connection is silent; a connection the handler closed brings at most
   a part of that answer. *)
ConnInv(c) ==
    /\ con[c] # "free" =>
         /\ pc[c] # "off"
         /\ pc[c] = "idle" => AtRest(c)
         /\ pc[c] = "wait" => Waiting(c) \/ Answered(c)
         /\ pc[c] = "gone" => Asked(c) \/ (rbuf[c] = <<>> /\ up[c] = <<>>)
    /\ con[c] = "free" /\ pc[c] = "wait" =>
         Silent(c) \/ \E t \in Seq(Frag) : AnswerWith(c, t)
    /\ srv = "up" /\ con[c] # "open" => rbuf[c] = <<>> /\ sbuf[c] = <<>> /\ todo[c] = {}
    /\ crbuf[c] # <<>> => Head(crbuf[c]).h
    /\ rbuf[c] # <<>> => Head(rbuf[c]).h

(* A socket that the listener announced still finds room. *)
RoomForOne == NoExcess /\ (srv = "up" /\ listener => Cardinality(Open) < max_sockets)

ServerInv == TypeOK /\ RoomForOne /\ \A c \in Conn : ConnInv(c)

(* A nonempty part q of a packet shows its header; r is what is missing. *)
LEMMA PartOfPacket ==
  ASSUME NEW q \in Seq(Frag), NEW r \in Seq(Frag), q # <<>>,
         NEW x \in 0 .. XidMod - 1, NEW n \in Nat, NEW a \in Arg,
         q \o r = Packet(x, n, a)
  PROVE  /\ Head(q) = Header(x, n, a)
         /\ Complete(q) => r = <<>> /\ AfterPacket(q) = <<>>
<1>1. Len(q) \in Nat \ {0} /\ Len(r) \in Nat
  BY EmptySeq, LenProperties
<1>2. /\ Len(q \o r) = Len(q) + Len(r)
      /\ \A i \in 1 .. Len(q) + Len(r) : (q \o r)[i] = IF i <= Len(q) THEN q[i] ELSE r[i - Len(q)]
  BY ConcatProperties
<1>3. (q \o r)[1] = q[1]
  BY <1>1, <1>2
<1>4. Head(q) = q[1]
  OBVIOUS
<1>p. /\ Len(Packet(x, n, a)) = n + 1
      /\ Packet(x, n, a)[1] = Header(x, n, a)
  BY PacketType
<1>5. Head(q) = Header(x, n, a)
  BY <1>3, <1>4, <1>p, Zenon
<1>6. Len(q) + Len(r) = n + 1
  BY <1>2, <1>p, Zenon
<1>7. ASSUME Complete(q) PROVE r = <<>> /\ AfterPacket(q) = <<>>
  <2>1. Head(q).n = n
    BY <1>5, HeaderFields
  <2>2. Len(q) >= 1 + n
    BY <1>7, <2>1 DEF Complete
  <2>3. Len(r) = 0 /\ Len(q) < 2 + n
    BY <1>1, <1>6, <2>2
  <2>4. r = <<>>
    BY <2>3, EmptySeq
  <2>5. SubSeq(q, 2 + n, Len(q)) = <<>>
    BY <1>1, <2>3, SubSeqEmpty
  <2> QED BY <2>1, <2>4, <2>5 DEF AfterPacket
<1> QED BY <1>5, <1>7

LEMMA CutBefore ==
  ASSUME NEW s \in Seq(Frag), NEW t \in Seq(Frag), NEW u \in Seq(Frag), NEW k \in 1 .. Len(t)
  PROVE  (s \o SubSeq(t, 1, k)) \o (Rest(t, k) \o u) = s \o (t \o u)
<1>0. /\ s \o SubSeq(t, 1, k) \in Seq(Frag) /\ Rest(t, k) \in Seq(Frag)
      /\ (s \o SubSeq(t, 1, k)) \o Rest(t, k) = s \o t
  BY Cut
<1> DEFINE v == s \o SubSeq(t, 1, k)
           w == Rest(t, k)
<1>1. v \in Seq(Frag) /\ w \in Seq(Frag) /\ v \o w = s \o t
  BY <1>0, Zenon
<1> HIDE DEF v, w
<1>2. (v \o w) \o u = v \o (w \o u)
  BY <1>1, Assoc, Zenon
<1>3. (s \o t) \o u = s \o (t \o u)
  BY ConcatAssociative
<1> QED BY <1>1, <1>2, <1>3 DEF v, w


(* What the buffer holds after a read. *)
Filled(s, t, k) == s \o SubSeq(t, 1, k)

ReadGives(s, t, u, k, x, n, a) ==
    LET q == Filled(s, t, k) IN
    /\ q \in Seq(Frag) /\ q # <<>> /\ Rest(t, k) \in Seq(Frag)
    /\ q \o (Rest(t, k) \o u) = Packet(x, n, a)
    /\ Head(q) = Header(x, n, a)
    /\ Complete(q) => Rest(t, k) = <<>> /\ u = <<>> /\ AfterPacket(q) = <<>>

(* A read of k fragments of t into a buffer with s, where s, t and u make up a
   packet: what the buffer holds then shows the header, and with a complete
   packet nothing is left. *)
LEMMA ReadPart ==
  ASSUME NEW s \in Seq(Frag), NEW t \in Seq(Frag), NEW u \in Seq(Frag), NEW k \in Reads(s, t),
         NEW x \in 0 .. XidMod - 1, NEW n \in Nat, NEW a \in Arg,
         s \o (t \o u) = Packet(x, n, a)
  PROVE  ReadGives(s, t, u, k, x, n, a)
<1> DEFINE q == Filled(s, t, k)
<1>1. k \in 1 .. Len(t) /\ q \in Seq(Frag) /\ q # <<>> /\ Rest(t, k) \in Seq(Frag)
  BY ReadType DEF Filled
<1>2. q \o (Rest(t, k) \o u) = s \o (t \o u)
  BY <1>1, CutBefore DEF Filled
<1> HIDE DEF q
<1> DEFINE v == Rest(t, k)
           r == v \o u
<1>3. v \in Seq(Frag)
  BY <1>1
<1>4. r \in Seq(Frag) /\ (r = <<>> => v = <<>> /\ u = <<>>)
  <2> HIDE DEF v
  <2> QED BY <1>3, ConcatProperties, ConcatEqualIffEmpty
<1>5. q \o r = Packet(x, n, a)
  BY <1>2
<1>6. ASSUME NEW p \in Seq(Frag), p # <<>>, NEW w \in Seq(Frag), p \o w = Packet(x, n, a)
      PROVE  /\ Head(p) = Header(x, n, a)
             /\ Complete(p) => w = <<>> /\ AfterPacket(p) = <<>>
  BY <1>6, PartOfPacket
<1> HIDE DEF r
<1>7. /\ Head(q) = Header(x, n, a)
      /\ Complete(q) => r = <<>> /\ AfterPacket(q) = <<>>
  BY <1>1, <1>4, <1>5, <1>6, Zenon
<1> QED BY <1>1, <1>4, <1>5, <1>7 DEF r, q, ReadGives

-----------------------------------------------------------------------------
(* A socket with work to do is open. *)
LEMMA ServedIsOpen ==
  ASSUME ServerInv, NEW c \in Conn, NEW ev, Turn(c, ev)
  PROVE  con[c] = "open" /\ srv = "up"
BY DEF ServerInv, ConnInv, Turn

(* What the handler reads is a part of the request of the caller's last call. *)
LEMMA RequestRead ==
  ASSUME ServerInv, NEW c \in Conn, con[c] = "open", NEW k \in Reads(rbuf[c], up[c])
  PROVE  LET q == Filled(rbuf[c], up[c], k) IN
         /\ pc[c] \in {"wait", "gone"} /\ Asked(c)
         /\ pc[c] = "wait" => Waiting(c)
         /\ q \in Seq(Frag) /\ q # <<>> /\ Rest(up[c], k) \in Seq(Frag)
         /\ q \o Rest(up[c], k) = rbuf[c] \o up[c]
         /\ Head(q).h /\ Head(q).xid = xid[c] /\ Head(q).val = arg[c]
         /\ Complete(q) => Rest(up[c], k) = <<>> /\ AfterPacket(q) = <<>>
<1> DEFINE q == Filled(rbuf[c], up[c], k)
<1>1. rbuf[c] \in Seq(Frag) /\ up[c] \in Seq(Frag) /\ xid[c] \in 0 .. XidMod - 1
  BY DEF ServerInv, TypeOK
<1>2. /\ k \in 1 .. Len(up[c]) /\ q \in Seq(Frag) /\ q # <<>> /\ Rest(up[c], k) \in Seq(Frag)
      /\ q \o Rest(up[c], k) = rbuf[c] \o up[c]
  BY <1>1, ReadType, Zenon DEF Filled
<1>3. up[c] # <<>>
  BY <1>1, <1>2, EmptySeq
<1>4. /\ pc[c] \in {"wait", "gone"} /\ Asked(c)
      /\ pc[c] = "wait" => Waiting(c)
  BY <1>3 DEF ServerInv, TypeOK, ConnInv, AtRest, Waiting, Answered
<1>5. PICK n \in Requests : rbuf[c] \o up[c] = Packet(xid[c], n, arg[c])
  BY <1>4 DEF Asked
<1>6. n \in Nat /\ arg[c] \in Arg
  BY <1>4, ServerAssumption DEF Asked
<1>7. <<>> \in Seq(Frag) /\ rbuf[c] \o (up[c] \o <<>>) = Packet(xid[c], n, arg[c])
  <2>1. up[c] \o <<>> = up[c]
    BY <1>1, ConcatEmptySeq
  <2> QED BY <1>5, <2>1, EmptySeq, Zenon
<1>8. /\ Head(q) = Header(xid[c], n, arg[c])
      /\ Complete(q) => Rest(up[c], k) = <<>> /\ AfterPacket(q) = <<>>
  <2>1. ReadGives(rbuf[c], up[c], <<>>, k, xid[c], n, arg[c])
    BY <1>1, <1>6, <1>7, ReadPart, Zenon
  <2> QED BY <2>1 DEF ReadGives
<1> HIDE DEF q
<1>9. Head(q).xid = xid[c] /\ Head(q).val = arg[c]
  BY <1>8, HeaderFields
<1>10. Head(q).h
  BY <1>8, HeaderFlag
<1> QED BY <1>2, <1>4, <1>8, <1>9, <1>10 DEF q

(* What a waiting caller reads is a part of the answer to its call, and t is
   the part of it that is not in the socket. *)
LEMMA ReplyRead ==
  ASSUME ServerInv, NEW c \in Conn, pc[c] = "wait", NEW k \in Reads(crbuf[c], down[c])
  PROVE  LET q == Filled(crbuf[c], down[c], k) IN
         /\ runs[c] = 1 /\ arg[c] \in Arg
         /\ q \in Seq(Frag) /\ q # <<>> /\ Rest(down[c], k) \in Seq(Frag)
         /\ con[c] # "free" => rbuf[c] = <<>> /\ up[c] = <<>>
         /\ \E t \in Seq(Frag) :
              /\ con[c] # "free" => t = sbuf[c]
              /\ \E n \in Answers :
                   n + 1 <= BufSize /\ q \o (Rest(down[c], k) \o t) = Packet(xid[c], n, arg[c])
              /\ Complete(q) => t = <<>>
         /\ Head(q).h /\ Head(q).xid = xid[c] /\ Head(q).val = arg[c]
         /\ Complete(q) => Rest(down[c], k) = <<>> /\ AfterPacket(q) = <<>>
         /\ ~ NeverFits(q)
<1> DEFINE q == Filled(crbuf[c], down[c], k)
<1>1. /\ crbuf[c] \in Seq(Frag) /\ down[c] \in Seq(Frag) /\ sbuf[c] \in Seq(Frag)
      /\ xid[c] \in 0 .. XidMod - 1
  BY DEF ServerInv, TypeOK
<1>2. /\ k \in 1 .. Len(down[c]) /\ q \in Seq(Frag) /\ q # <<>> /\ Rest(down[c], k) \in Seq(Frag)
  BY <1>1, ReadType, Zenon DEF Filled
<1>3. down[c] # <<>>
  BY <1>1, <1>2, EmptySeq
<1>4. ConnInv(c)
  BY DEF ServerInv
<1>5. PICK t \in Seq(Frag) : AnswerWith(c, t) /\ (con[c] # "free" => t = sbuf[c] /\ rbuf[c] = <<>> /\ up[c] = <<>>)
  <2>1. CASE con[c] = "free"
    BY <1>3, <1>4, <2>1 DEF ConnInv, Silent
  <2>2. CASE con[c] # "free"
    <3>1. Answered(c)
      BY <1>3, <1>4, <2>2 DEF ConnInv, Silent, Waiting
    <3> QED BY <1>1, <3>1 DEF Answered
  <2> QED BY <2>1, <2>2
<1>6. PICK n \in Answers :
        n + 1 <= BufSize /\ crbuf[c] \o (down[c] \o t) = Packet(xid[c], n, arg[c])
  BY <1>5 DEF AnswerWith
<1>7. n \in Nat /\ arg[c] \in Arg /\ runs[c] = 1
  BY <1>5, ServerAssumption DEF AnswerWith
<1>10. /\ q \o (Rest(down[c], k) \o t) = Packet(xid[c], n, arg[c])
       /\ Head(q) = Header(xid[c], n, arg[c])
       /\ Complete(q) => Rest(down[c], k) = <<>> /\ t = <<>> /\ AfterPacket(q) = <<>>
  <2>1. ReadGives(crbuf[c], down[c], t, k, xid[c], n, arg[c])
    BY <1>1, <1>6, <1>7, ReadPart, Zenon
  <2> QED BY <2>1 DEF ReadGives
<1> HIDE DEF q
<1>11. Head(q).xid = xid[c] /\ Head(q).val = arg[c] /\ Head(q).n = n
  BY <1>10, HeaderFields
<1>13. Head(q).h
  BY <1>10, HeaderFlag
<1>12. ~ NeverFits(q)
  BY <1>6, <1>7, <1>11, ServerAssumption DEF NeverFits
<1> QED BY <1>2, <1>5, <1>6, <1>7, <1>10, <1>11, <1>12, <1>13, Zenon DEF q

-----------------------------------------------------------------------------
(* The number of sockets *)

LEMMA OpenFinite ==
  /\ IsFiniteSet(Open) /\ Cardinality(Open) \in Nat
BY ServerAssumption, FS_Subset, FS_CardinalityType DEF Open

LEMMA OpenFiniteNext ==
  /\ IsFiniteSet(Open') /\ Cardinality(Open') \in Nat
BY ServerAssumption, FS_Subset, FS_CardinalityType DEF Open

LEMMA RoomKept ==
  ASSUME TypeOK, RoomForOne, Open' \subseteq Open, UNCHANGED max_sockets,
         srv' = "up" /\ listener' => srv = "up" /\ listener
  PROVE  RoomForOne'
<1>1. Cardinality(Open') <= Cardinality(Open)
  BY OpenFinite, FS_Subset
<1>2. Cardinality(Open') \in Nat /\ Cardinality(Open) \in Nat /\ max_sockets \in Nat
  BY OpenFinite, OpenFiniteNext, ServerAssumption DEF TypeOK
<1>3. Cardinality(Open) <= max_sockets /\ (srv = "up" /\ listener => Cardinality(Open) < max_sockets)
  BY DEF RoomForOne, NoExcess
<1>4. Cardinality(Open') <= max_sockets' /\ (srv' = "up" /\ listener' => Cardinality(Open') < max_sockets')
  BY <1>1, <1>2, <1>3
<1> QED BY <1>4 DEF RoomForOne, NoExcess

(* Nothing is excess: poll() closes no socket. *)
LEMMA PollDropsNone ==
  ASSUME TypeOK, RoomForOne, Poll
  PROVE  /\ UNCHANGED <<con, rbuf, sbuf, events>>
         /\ todo' = [c \in Conn |-> IF c \in Open THEN Revents(c) ELSE {}]
         /\ UNCHANGED <<caller, up, down, hungup, err, srv, max_sockets, runs>>
         /\ listener' => Cardinality(Open) < max_sockets
<1>1. PICK excess \in SUBSET Open :
        /\ Cardinality(excess) = IF Cardinality(Open) > max_sockets
                                   THEN Cardinality(Open) - max_sockets ELSE 0
        /\ Drop(excess)
        /\ todo' = [c \in Conn |-> IF c \in Open \ excess THEN Revents(c) ELSE {}]
  BY DEF Poll
<1>2. Cardinality(excess) = 0
  BY <1>1, OpenFinite, ServerAssumption DEF RoomForOne, NoExcess, TypeOK
<1>3. excess = {}
  BY <1>2, OpenFinite, FS_Subset, FS_EmptySet
<1>4. UNCHANGED <<con, rbuf, sbuf, events>>
  <2>1. /\ con' = [c \in Conn |-> con[c]] /\ rbuf' = [c \in Conn |-> rbuf[c]]
        /\ sbuf' = [c \in Conn |-> sbuf[c]] /\ events' = [c \in Conn |-> events[c]]
    BY <1>1, <1>3, Zenon DEF Drop
  <2> QED BY <2>1 DEF TypeOK
<1>5. listener' => Cardinality(Open) < max_sockets
  BY DEF Poll, Listening
<1> QED BY <1>1, <1>3, <1>4, <1>5 DEF Poll

-----------------------------------------------------------------------------
(* The invariant of a connection *)

SameConn(d) ==
    UNCHANGED <<pc[d], con[d], crbuf[d], down[d], sbuf[d], rbuf[d], up[d], runs[d], xid[d], arg[d],
                todo[d], srv>>

LEMMA Frame == ASSUME NEW d \in Conn, ConnInv(d), SameConn(d) PROVE ConnInv(d)'
BY DEF ConnInv, SameConn, AtRest, Waiting, Answered, AnswerWith, Asked, Silent

(* A socket the handler gives up: the caller keeps what was sent to it. *)
LEMMA Freed ==
  ASSUME TypeOK, NEW c \in Conn, ConnInv(c), con[c] # "free",
         pc[c] = "wait" => Waiting(c) \/ Answered(c),
         con'[c] = "free", pc'[c] = pc[c], crbuf'[c] = crbuf[c], down'[c] = down[c],
         xid'[c] = xid[c], arg'[c] = arg[c], runs'[c] = runs[c] \/ Waiting(c),
         srv' = "up" => rbuf'[c] = <<>> /\ sbuf'[c] = <<>> /\ todo'[c] = {},
         rbuf'[c] \in {<<>>, rbuf[c]}
  PROVE  ConnInv(c)'
<1>1. ASSUME pc[c] = "wait"
      PROVE  Silent(c)' \/ \E t \in Seq(Frag) : AnswerWith(c, t)'
  <2>1. CASE Waiting(c)
    BY <2>1 DEF Waiting, Silent
  <2>2. CASE Answered(c) /\ ~ Waiting(c)
    <3>1. AnswerWith(c, sbuf[c]) /\ sbuf[c] \in Seq(Frag)
      BY <2>2 DEF Answered, TypeOK
    <3>2. PICK t \in Seq(Frag) : AnswerWith(c, t)
      BY <3>1
    <3>3. AnswerWith(c, t)'
      BY <2>2, <3>2 DEF AnswerWith
    <3> QED BY <3>3
  <2> QED BY <1>1, <2>1, <2>2
<1> QED BY <1>1 DEF ConnInv

LEMMA ConnectInv ==
  ASSUME ServerInv, NEW c \in Conn, Connect(c)
  PROVE  RoomForOne' /\ \A d \in Conn : ConnInv(d)'
<1> USE DEF ServerInv
<1>1. ConnInv(c)'
  BY DEF Connect, ConnInv, TypeOK, AtRest, Silent
<1>2. ASSUME NEW d \in Conn, d # c PROVE ConnInv(d)'
  <2>1. SameConn(d)
    BY <1>2 DEF Connect, TypeOK, SameConn
  <2> QED BY <2>1, Frame
<1>3. Open' = Open
  BY DEF Open, Connect, TypeOK
<1>4. RoomForOne'
  BY <1>3, RoomKept DEF Connect
<1> QED BY <1>1, <1>2, <1>4

LEMMA CallInv ==
  ASSUME ServerInv, NEW c \in Conn, NEW a \in Arg, NEW n \in Requests, Call(c, a, n)
  PROVE  RoomForOne' /\ \A d \in Conn : ConnInv(d)'
<1> USE DEF ServerInv
<1> DEFINE x == Fresh(ifd_xid[c])
           p == Packet(x, n, a)
<1>0. UNCHANGED <<crbuf, ceof, down, hungup, err, srv, con, rbuf, sbuf, events, todo, listener, max_sockets>>
  BY DEF Call, handler
<1>1. CASE ~ Closed(c) /\ pc' = [pc EXCEPT ![c] = "wait"] /\ xid' = [xid EXCEPT ![c] = x]
           /\ arg' = [arg EXCEPT ![c] = a] /\ up' = [up EXCEPT ![c] = up[c] \o p]
           /\ runs' = [runs EXCEPT ![c] = 0]
  <2>1. con[c] # "free" /\ AtRest(c)
    BY <1>1 DEF Closed, Call, ConnInv
  <2>2. <<>> \o p = p /\ p \in Seq(Frag)
    <3>1. x \in 0 .. XidMod - 1 /\ n \in Nat
      BY ServerAssumption DEF Fresh, TypeOK
    <3>2. p \in Seq(Frag)
      BY <3>1, PacketType
    <3> HIDE DEF p
    <3> QED BY <3>2, ConcatEmptySeq
  <2>3. rbuf'[c] \o up'[c] = p
    <3> HIDE DEF p
    <3>1. up[c] = <<>> /\ rbuf'[c] = <<>>
      BY <1>0, <2>1 DEF AtRest
    <3>2. up'[c] = up[c] \o p
      BY <1>1, Zenon DEF TypeOK
    <3> QED BY <2>2, <3>1, <3>2
  <2>4. xid'[c] = x /\ arg'[c] = a /\ runs'[c] = 0 /\ pc'[c] = "wait"
    BY <1>1 DEF TypeOK
  <2>5. Asked(c)'
    BY <2>3, <2>4 DEF Asked
  <2>6. Waiting(c)'
    BY <1>0, <2>1, <2>5 DEF Waiting, AtRest, Silent
  <2>7. ConnInv(c)'
    BY <1>0, <2>1, <2>4, <2>6 DEF ConnInv, TypeOK
  <2>8. ASSUME NEW d \in Conn, d # c PROVE ConnInv(d)'
    <3>1. SameConn(d)
      BY <1>0, <1>1, <2>8 DEF TypeOK, SameConn
    <3> QED BY <3>1, Frame
  <2> QED BY <1>0, <2>7, <2>8, RoomKept DEF Open
<1>2. CASE UNCHANGED <<pc, xid, arg, up, runs>>
  <2>1. ASSUME NEW d \in Conn PROVE ConnInv(d)'
    <3>1. SameConn(d)
      BY <1>0, <1>2 DEF SameConn
    <3> QED BY <3>1, Frame
  <2> QED BY <1>0, <2>1, RoomKept DEF Open
<1> QED BY <1>1, <1>2 DEF Call

LEMMA LeaveInv ==
  ASSUME ServerInv, NEW c \in Conn, Leave(c) \/ Forget(c)
  PROVE  RoomForOne' /\ \A d \in Conn : ConnInv(d)'
<1> USE DEF ServerInv
<1>0. UNCHANGED <<xid, arg, crbuf, up, srv, con, rbuf, sbuf, todo, listener, max_sockets, runs>>
  BY DEF Leave, Forget, handler
<1>1. ConnInv(c)'
  <2>1. CASE Leave(c)
    <3>1. pc'[c] = "gone" /\ pc[c] \in {"idle", "wait"}
      BY <2>1 DEF Leave, TypeOK
    <3>2. con[c] # "free" => Asked(c) \/ (rbuf[c] = <<>> /\ up[c] = <<>>)
      BY <3>1 DEF ConnInv, AtRest, Waiting, Answered
    <3>3. con[c] # "free" => Asked(c)' \/ (rbuf'[c] = <<>> /\ up'[c] = <<>>)
      BY <1>0, <3>2 DEF Asked
    <3> QED BY <1>0, <3>1, <3>3 DEF ConnInv
  <2>2. CASE Forget(c)
    <3>1. pc'[c] = "off" /\ con[c] = "free"
      BY <2>2 DEF Forget, TypeOK, Closed
    <3> QED BY <1>0, <3>1 DEF ConnInv
  <2> QED BY <2>1, <2>2
<1>2. ASSUME NEW d \in Conn, d # c PROVE ConnInv(d)'
  <2>1. SameConn(d)
    BY <1>0, <1>2 DEF Leave, Forget, TypeOK, SameConn
  <2> QED BY <2>1, Frame
<1> QED BY <1>0, <1>1, <1>2, RoomKept DEF Open

(* What CallRead does: a read that is not a whole answer, the whole answer,
   or the end of the file. *)
LEMMA CallReadCases ==
  ASSUME ServerInv, NEW c \in Conn, CallRead(c)
  PROVE  \/ \E k \in Reads(crbuf[c], down[c]) :
              LET q == Filled(crbuf[c], down[c], k) IN
              /\ down' = [down EXCEPT ![c] = Rest(down[c], k)]
              /\ \/ /\ Complete(q)
                    /\ crbuf' = [crbuf EXCEPT ![c] = <<>>] /\ Rest(down[c], k) = <<>>
                    /\ pc' = [pc EXCEPT ![c] = "idle"]
                    /\ \/ ret' = [ret EXCEPT ![c] = arg[c]]
                       \/ ret' = [ret EXCEPT ![c] = NoArg]
                 \/ /\ ~ Complete(q)
                    /\ crbuf' = [crbuf EXCEPT ![c] = q]
                    /\ UNCHANGED <<pc, ret>>
         \/ /\ con[c] = "free" /\ UNCHANGED <<crbuf, down>>
            /\ CallFails(c) \/ UNCHANGED <<pc, ret>>
<1>0. pc[c] = "wait"
  BY DEF CallRead
<1>1. ASSUME NEW k \in Reads(crbuf[c], down[c]),
             down' = [down EXCEPT ![c] = Rest(down[c], k)],
             LET q == Filled(crbuf[c], down[c], k) IN
               \/ Complete(q) /\ TakeReply(c, q)
               \/ NeverFits(q) /\ CallFails(c) /\ crbuf' = [crbuf EXCEPT ![c] = q]
               \/ /\ ~ Complete(q) /\ ~ NeverFits(q)
                  /\ crbuf' = [crbuf EXCEPT ![c] = q]
                  /\ UNCHANGED <<pc, ret>>
      PROVE  LET q == Filled(crbuf[c], down[c], k) IN
               \/ /\ Complete(q)
                  /\ crbuf' = [crbuf EXCEPT ![c] = <<>>] /\ Rest(down[c], k) = <<>>
                  /\ pc' = [pc EXCEPT ![c] = "idle"]
                  /\ \/ ret' = [ret EXCEPT ![c] = arg[c]]
                     \/ ret' = [ret EXCEPT ![c] = NoArg]
               \/ /\ ~ Complete(q)
                  /\ crbuf' = [crbuf EXCEPT ![c] = q]
                  /\ UNCHANGED <<pc, ret>>
  <2> DEFINE q == Filled(crbuf[c], down[c], k)
  <2>1. /\ Head(q).xid = xid[c] /\ Head(q).val = arg[c] /\ ~ NeverFits(q)
        /\ Complete(q) => Rest(down[c], k) = <<>> /\ AfterPacket(q) = <<>>
    BY <1>0, ReplyRead
  <2>2. \/ Complete(q) /\ TakeReply(c, q)
        \/ /\ ~ Complete(q) /\ crbuf' = [crbuf EXCEPT ![c] = q] /\ UNCHANGED <<pc, ret>>
    BY <1>1, <2>1
  <2> HIDE DEF q
  <2>3. TakeReply(c, q) /\ Complete(q) =>
          /\ crbuf' = [crbuf EXCEPT ![c] = <<>>] /\ pc' = [pc EXCEPT ![c] = "idle"]
          /\ \/ ret' = [ret EXCEPT ![c] = arg[c]]
             \/ ret' = [ret EXCEPT ![c] = NoArg]
    BY <2>1 DEF TakeReply
  <2> QED BY <2>1, <2>2, <2>3 DEF q
<1>2. \/ \E k \in Reads(crbuf[c], down[c]) :
           LET q == Filled(crbuf[c], down[c], k) IN
           /\ down' = [down EXCEPT ![c] = Rest(down[c], k)]
           /\ \/ Complete(q) /\ TakeReply(c, q)
              \/ NeverFits(q) /\ CallFails(c) /\ crbuf' = [crbuf EXCEPT ![c] = q]
              \/ /\ ~ Complete(q) /\ ~ NeverFits(q)
                 /\ crbuf' = [crbuf EXCEPT ![c] = q]
                 /\ UNCHANGED <<pc, ret>>
      \/ /\ con[c] = "free" /\ UNCHANGED <<crbuf, down>>
         /\ CallFails(c) \/ UNCHANGED <<pc, ret>>
  BY DEF CallRead, Closed, Filled
<1> QED BY <1>1, <1>2

LEMMA CallReadInv ==
  ASSUME ServerInv, NEW c \in Conn, CallRead(c)
  PROVE  RoomForOne' /\ \A d \in Conn : ConnInv(d)'
<1> USE DEF ServerInv
<1>0. /\ UNCHANGED <<ifd_xid, xid, arg, up, hungup, err, srv, con, rbuf, sbuf, events, todo,
                     listener, max_sockets, runs>>
      /\ pc[c] = "wait"
  BY DEF CallRead, handler
<1>1. ASSUME NEW d \in Conn, d # c PROVE SameConn(d)
  BY <1>0, <1>1, CallReadCases DEF TypeOK, SameConn, CallFails
<1>2. ConnInv(c)'
  <2>1. ASSUME NEW k \in Reads(crbuf[c], down[c]),
               down' = [down EXCEPT ![c] = Rest(down[c], k)],
               LET q == Filled(crbuf[c], down[c], k) IN
               \/ /\ Complete(q)
                  /\ crbuf' = [crbuf EXCEPT ![c] = <<>>] /\ Rest(down[c], k) = <<>>
                  /\ pc' = [pc EXCEPT ![c] = "idle"]
               \/ /\ ~ Complete(q)
                  /\ crbuf' = [crbuf EXCEPT ![c] = q]
                  /\ UNCHANGED <<pc, ret>>
        PROVE  ConnInv(c)'
    <3> DEFINE q == Filled(crbuf[c], down[c], k)
    <3>1. /\ runs[c] = 1 /\ arg[c] \in Arg /\ Head(q).h
          /\ con[c] # "free" => rbuf[c] = <<>> /\ up[c] = <<>>
      BY <1>0, ReplyRead
    <3>2. PICK t \in Seq(Frag) :
            /\ con[c] # "free" => t = sbuf[c]
            /\ \E n \in Answers :
                 n + 1 <= BufSize /\ q \o (Rest(down[c], k) \o t) = Packet(xid[c], n, arg[c])
            /\ Complete(q) => t = <<>>
      BY <1>0, ReplyRead
    <3>3. down'[c] = Rest(down[c], k)
      BY <2>1, Zenon DEF TypeOK
    <3> HIDE DEF q
    <3>4. CASE Complete(q)
      <4>1. crbuf' = [crbuf EXCEPT ![c] = <<>>] /\ Rest(down[c], k) = <<>> /\ pc' = [pc EXCEPT ![c] = "idle"]
        BY <2>1, <3>4 DEF q
      <4>2. crbuf'[c] = <<>> /\ down'[c] = <<>> /\ pc'[c] = "idle"
        BY <3>3, <4>1 DEF TypeOK
      <4> QED BY <1>0, <3>1, <3>2, <3>4, <4>2 DEF ConnInv, AtRest, Silent
    <3>5. CASE ~ Complete(q)
      <4>1. crbuf' = [crbuf EXCEPT ![c] = q] /\ pc' = pc
        BY <2>1, <3>5 DEF q
      <4>2. crbuf'[c] = q
        BY <4>1, Zenon DEF TypeOK
      <4>3. AnswerWith(c, t)'
        BY <1>0, <3>1, <3>2, <3>3, <4>2 DEF AnswerWith
      <4>4. CASE con[c] # "free"
        <5>1. Answered(c)'
          BY <1>0, <3>1, <3>2, <4>3, <4>4 DEF Answered
        <5> QED BY <1>0, <3>1, <4>1, <4>2, <4>4, <5>1 DEF ConnInv
      <4>5. CASE con[c] = "free"
        BY <1>0, <3>1, <4>1, <4>2, <4>3, <4>5 DEF ConnInv
      <4> QED BY <4>4, <4>5
    <3> QED BY <3>4, <3>5
  <2>2. ASSUME con[c] = "free", UNCHANGED <<crbuf, down>>, CallFails(c) \/ UNCHANGED <<pc, ret>>
        PROVE  ConnInv(c)'
    <3>1. CASE UNCHANGED pc
      <4>1. SameConn(c)
        BY <1>0, <2>2, <3>1 DEF SameConn
      <4> QED BY <4>1, Frame
    <3>2. CASE pc' = [pc EXCEPT ![c] = "idle"]
      <4>1. pc'[c] = "idle"
        BY <3>2 DEF TypeOK
      <4> QED BY <1>0, <2>2, <4>1 DEF ConnInv
    <3> QED BY <2>2, <3>1, <3>2 DEF CallFails
  <2> QED BY <2>1, <2>2, CallReadCases
<1> QED BY <1>0, <1>1, <1>2, Frame, RoomKept DEF Open

LEMMA PollInv ==
  ASSUME ServerInv, Poll
  PROVE  RoomForOne' /\ \A d \in Conn : ConnInv(d)'
<1> USE DEF ServerInv
<1>1. /\ UNCHANGED <<con, rbuf, sbuf, pc, xid, arg, crbuf, up, down, srv, max_sockets, runs>>
      /\ todo' = [c \in Conn |-> IF c \in Open THEN Revents(c) ELSE {}]
      /\ listener' => Cardinality(Open) < max_sockets
  BY PollDropsNone DEF caller
<1>2. ASSUME NEW d \in Conn PROVE ConnInv(d)'
  <2>1. con[d] # "open" => todo'[d] = {}
    BY <1>1 DEF Open
  <2> QED BY <1>1, <2>1
          DEF ConnInv, AtRest, Waiting, Answered, AnswerWith, Asked, Silent
<1>3. Open' = Open
  BY <1>1 DEF Open
<1> QED BY <1>1, <1>2, <1>3 DEF RoomForOne, NoExcess

LEMMA AcceptInv ==
  ASSUME ServerInv, NEW c \in Conn, Accept(c)
  PROVE  RoomForOne' /\ \A d \in Conn : ConnInv(d)'
<1> USE DEF ServerInv
<1>0. /\ UNCHANGED <<pc, xid, arg, crbuf, up, down, srv, todo, max_sockets, runs>>
      /\ srv = "up" /\ listener /\ con[c] = "backlog" /\ listener' = FALSE
  BY DEF Accept, caller
<1>1. rbuf[c] = <<>> /\ sbuf[c] = <<>>
  BY <1>0 DEF ConnInv
<1>2. rbuf'[c] = rbuf[c] /\ sbuf'[c] = sbuf[c] /\ con'[c] = "open"
  BY <1>1 DEF Accept, TypeOK
<1>3. ConnInv(c)'
  BY <1>0, <1>2 DEF ConnInv, AtRest, Waiting, Answered, AnswerWith, Asked, Silent
<1>4. ASSUME NEW d \in Conn, d # c PROVE ConnInv(d)'
  <2>1. SameConn(d)
    BY <1>0, <1>4 DEF Accept, TypeOK, SameConn
  <2> QED BY <2>1, Frame
<1>5. Open' = Open \cup {c} /\ c \notin Open
  BY <1>0 DEF Open, Accept, TypeOK
<1>6. Cardinality(Open') = Cardinality(Open) + 1
  BY <1>5, OpenFinite, FS_AddElement
<1>7. Cardinality(Open') <= max_sockets'
  BY <1>0, <1>6, OpenFinite, ServerAssumption DEF RoomForOne, TypeOK
<1> QED BY <1>0, <1>3, <1>4, <1>7 DEF RoomForOne, NoExcess

LEMMA OnErrorInv ==
  ASSUME ServerInv, NEW c \in Conn, OnError(c)
  PROVE  RoomForOne' /\ \A d \in Conn : ConnInv(d)'
<1> USE DEF ServerInv
<1>0. /\ UNCHANGED <<pc, xid, arg, crbuf, up, down, rbuf, sbuf, max_sockets, runs>>
      /\ srv' = "dead" /\ con' = [d \in Conn |-> "free"]
  BY DEF OnError, caller
<1>1. ASSUME NEW d \in Conn PROVE ConnInv(d)'
  <2>1. CASE con[d] = "free"
    BY <1>0, <2>1 DEF ConnInv, Silent, AnswerWith
  <2>2. CASE con[d] # "free"
    BY <1>0, <2>2, Freed DEF ConnInv
  <2> QED BY <2>1, <2>2
<1>2. Open' = {}
  BY <1>0 DEF Open
<1> QED BY <1>0, <1>1, <1>2, RoomKept

(* What OnInput does: the whole request is there and is executed, or not. *)
LEMMA OnInputCases ==
  ASSUME ServerInv, NEW c \in Conn, OnInput(c)
  PROVE  /\ con[c] = "open" /\ pc[c] \in {"wait", "gone"} /\ Asked(c)
         /\ pc[c] = "wait" => Waiting(c)
         /\ \/ /\ runs' = [runs EXCEPT ![c] = 1] /\ rbuf'[c] = <<>> /\ up'[c] = <<>>
               /\ \E n \in Answers : n + 1 <= BufSize /\ sbuf'[c] = sbuf[c] \o Packet(xid[c], n, arg[c])
            \/ /\ UNCHANGED <<runs, sbuf>> /\ rbuf'[c] \o up'[c] = rbuf[c] \o up[c]
               /\ Head(rbuf'[c]).h
         /\ \A d \in Conn \ {c} : rbuf'[d] = rbuf[d] /\ up'[d] = up[d] /\ sbuf'[d] = sbuf[d]
<1>0. TypeOK
  BY DEF ServerInv
<1>1. con[c] = "open"
  BY ServedIsOpen DEF OnInput, Serve
<1>2. PICK k \in Reads(rbuf[c], up[c]) :
        LET q == Filled(rbuf[c], up[c], k) IN
          /\ up' = [up EXCEPT ![c] = Rest(up[c], k)]
          /\ IF Complete(q)
               THEN /\ runs' = [runs EXCEPT ![c] = runs[c] + 1]
                    /\ rbuf' = [rbuf EXCEPT ![c] = AfterPacket(q)]
                    /\ \E n \in Answers : PutPacket(c, Head(q).xid, n, Head(q).val)
               ELSE rbuf' = [rbuf EXCEPT ![c] = q] /\ UNCHANGED <<runs, sbuf, events>>
  BY DEF OnInput, Filled
<1> DEFINE q == Filled(rbuf[c], up[c], k)
           w == Rest(up[c], k)
<1>3. /\ pc[c] \in {"wait", "gone"} /\ Asked(c)
      /\ pc[c] = "wait" => Waiting(c)
      /\ q \in Seq(Frag) /\ q # <<>> /\ w \in Seq(Frag) /\ q \o w = rbuf[c] \o up[c]
      /\ Head(q).h /\ Head(q).xid = xid[c] /\ Head(q).val = arg[c]
      /\ Complete(q) => w = <<>> /\ AfterPacket(q) = <<>>
  BY <1>1, RequestRead
<1>4. up' = [up EXCEPT ![c] = w]
  BY <1>2
<1>5. CASE Complete(q)
  <2>1. runs' = [runs EXCEPT ![c] = runs[c] + 1] /\ rbuf' = [rbuf EXCEPT ![c] = <<>>]
        /\ \E n \in Answers : PutPacket(c, xid[c], n, arg[c])
    <3> HIDE DEF w
    <3> QED BY <1>2, <1>3, <1>5
  <2>2. PICK n \in Answers : PutPacket(c, xid[c], n, arg[c])
    BY <2>1
  <2>3. /\ 1 + n <= BufSize - Len(sbuf[c])
        /\ sbuf' = [sbuf EXCEPT ![c] = sbuf[c] \o Packet(xid[c], n, arg[c])]
    BY <2>2 DEF PutPacket
  <2>4. n + 1 <= BufSize
    <3>1. n \in Nat /\ BufSize \in Nat /\ Len(sbuf[c]) \in Nat
      BY <1>0, ServerAssumption, LenProperties DEF TypeOK
    <3>2. 1 + n <= BufSize - Len(sbuf[c])
      BY <2>3
    <3>3. \A m, b, l \in Nat : 1 + m <= b - l => m + 1 <= b
      OBVIOUS
    <3> QED BY <3>1, <3>2, <3>3, Zenon
  <2>5. runs[c] + 1 = 1
    BY <1>3 DEF Asked
  <2>6. w = <<>>
    BY <1>3, <1>5
  <2> HIDE DEF q, w
  <2>7. up'[c] = <<>> /\ rbuf'[c] = <<>>
    BY <1>0, <1>4, <2>1, <2>6 DEF TypeOK
  <2> DEFINE p == Packet(xid[c], n, arg[c])
  <2>8. sbuf'[c] = sbuf[c] \o p
    <3>1. sbuf' = [sbuf EXCEPT ![c] = sbuf[c] \o p]
      BY <2>3
    <3> HIDE DEF p
    <3> QED BY <1>0, <3>1, Zenon DEF TypeOK
  <2>9. ASSUME NEW d \in Conn \ {c} PROVE rbuf'[d] = rbuf[d] /\ up'[d] = up[d] /\ sbuf'[d] = sbuf[d]
    <3>1. sbuf' = [sbuf EXCEPT ![c] = sbuf[c] \o p]
      BY <2>3
    <3> HIDE DEF p
    <3> QED BY <1>0, <1>4, <2>1, <3>1 DEF TypeOK
  <2> QED BY <1>1, <1>3, <2>1, <2>4, <2>5, <2>7, <2>8, <2>9
<1>6. CASE ~ Complete(q)
  <2>1. rbuf' = [rbuf EXCEPT ![c] = q] /\ UNCHANGED <<runs, sbuf>>
    BY <1>2, <1>6
  <2> HIDE DEF q, w
  <2>2. rbuf'[c] = q /\ up'[c] = w
    BY <1>0, <1>4, <2>1 DEF TypeOK
  <2>3. ASSUME NEW d \in Conn \ {c} PROVE rbuf'[d] = rbuf[d] /\ up'[d] = up[d] /\ sbuf'[d] = sbuf[d]
    BY <1>0, <1>4, <2>1 DEF TypeOK
  <2> QED BY <1>1, <1>3, <2>1, <2>2, <2>3
<1> QED BY <1>5, <1>6

LEMMA OnInputInv ==
  ASSUME ServerInv, NEW c \in Conn, OnInput(c)
  PROVE  RoomForOne' /\ \A d \in Conn : ConnInv(d)'
<1> USE DEF ServerInv
<1>0. /\ UNCHANGED <<pc, xid, arg, crbuf, down, srv, con, listener, max_sockets>>
      /\ todo' = [todo EXCEPT ![c] = @ \ {"IN"}]
      /\ con[c] = "open" /\ pc[c] \in {"wait", "gone"} /\ Asked(c)
      /\ pc[c] = "wait" => Waiting(c)
  BY OnInputCases DEF OnInput, Serve, caller
<1>1. ASSUME runs' = [runs EXCEPT ![c] = 1], rbuf'[c] = <<>>, up'[c] = <<>>,
             \E n \in Answers : n + 1 <= BufSize /\ sbuf'[c] = sbuf[c] \o Packet(xid[c], n, arg[c])
      PROVE  ConnInv(c)'
  <2>1. PICK n \in Answers : n + 1 <= BufSize /\ sbuf'[c] = sbuf[c] \o Packet(xid[c], n, arg[c])
    BY <1>1
  <2>2. runs'[c] = 1 /\ arg[c] \in Arg
    BY <1>0, <1>1 DEF TypeOK, Asked
  <2>3. ASSUME pc[c] = "wait" PROVE Answered(c)'
    <3> DEFINE p == Packet(xid[c], n, arg[c])
    <3>0. p \in Seq(Frag)
      BY <2>2, PacketType, ServerAssumption DEF TypeOK
    <3>1. crbuf[c] = <<>> /\ down[c] = <<>> /\ sbuf[c] = <<>> /\ sbuf'[c] = sbuf[c] \o p
      BY <1>0, <2>1, <2>3 DEF Waiting, Silent
    <3> HIDE DEF p
    <3>2. sbuf'[c] = p /\ <<>> \o (<<>> \o p) = p
      BY <3>0, <3>1, ConcatEmptySeq
    <3>3. crbuf'[c] \o (down'[c] \o sbuf'[c]) = p
      BY <1>0, <3>1, <3>2
    <3>4. AnswerWith(c, sbuf[c])'
      BY <1>0, <2>1, <2>2, <3>3 DEF AnswerWith, p
    <3> QED BY <1>1, <3>4 DEF Answered
  <2> QED BY <1>0, <1>1, <2>3 DEF ConnInv
<1>2. ASSUME UNCHANGED <<runs, sbuf>>, rbuf'[c] \o up'[c] = rbuf[c] \o up[c], Head(rbuf'[c]).h
      PROVE  ConnInv(c)'
  <2>1. Asked(c)'
    BY <1>0, <1>2 DEF Asked
  <2>2. pc[c] = "wait" => Waiting(c)'
    BY <1>0, <1>2, <2>1 DEF Waiting, Silent
  <2> QED BY <1>0, <1>2, <2>1, <2>2 DEF ConnInv
<1>3. ASSUME NEW d \in Conn, d # c PROVE ConnInv(d)'
  <2>1. rbuf'[d] = rbuf[d] /\ up'[d] = up[d] /\ sbuf'[d] = sbuf[d]
    BY <1>3, OnInputCases
  <2>2. runs'[d] = runs[d]
    <3>1. UNCHANGED runs \/ runs' = [runs EXCEPT ![c] = 1]
      BY OnInputCases
    <3> QED BY <1>3, <3>1 DEF TypeOK
  <2>3. SameConn(d)
    BY <1>0, <1>3, <2>1, <2>2 DEF TypeOK, SameConn
  <2> QED BY <2>3, Frame
<1>4. ConnInv(c)'
  BY <1>1, <1>2, OnInputCases
<1> QED BY <1>0, <1>3, <1>4, RoomKept DEF Open

(* The handler gives up a socket it serves. *)
LEMMA FreeInv ==
  ASSUME ServerInv, NEW c \in Conn, con[c] = "open", Free(c),
         UNCHANGED <<caller, down, srv, max_sockets>>,
         runs' = runs \/ (runs' = [runs EXCEPT ![c] = 1] /\ (pc[c] = "wait" => Waiting(c))),
         \A d \in Conn \ {c} : up'[d] = up[d]
  PROVE  RoomForOne' /\ \A d \in Conn : ConnInv(d)'
<1> USE DEF ServerInv
<1>0. /\ UNCHANGED <<pc, xid, arg, crbuf, down, srv, listener, max_sockets>>
      /\ con'[c] = "free" /\ rbuf'[c] = <<>> /\ sbuf'[c] = <<>> /\ todo'[c] = {}
      /\ \A d \in Conn \ {c} : /\ con'[d] = con[d] /\ rbuf'[d] = rbuf[d] /\ sbuf'[d] = sbuf[d]
                               /\ todo'[d] = todo[d]
  BY DEF Free, Drop, caller, TypeOK
<1>1. ConnInv(c)'
  <2>1. pc[c] = "wait" => Silent(c)' \/ \E t \in Seq(Frag) : AnswerWith(c, t)'
    <3>1. CASE Waiting(c)
      BY <1>0, <3>1 DEF Waiting, Silent
    <3>2. CASE Answered(c) /\ runs' = runs
      <4>1. PICK t \in Seq(Frag) : AnswerWith(c, t)
        BY <3>2 DEF Answered, TypeOK
      <4>2. AnswerWith(c, t)'
        BY <1>0, <3>2, <4>1 DEF AnswerWith
      <4> QED BY <4>2
    <3> QED BY <3>1, <3>2 DEF ConnInv
  <2> QED BY <1>0, <2>1 DEF ConnInv
<1>2. ASSUME NEW d \in Conn, d # c PROVE ConnInv(d)'
  <2>1. SameConn(d)
    BY <1>0, <1>2 DEF TypeOK, SameConn
  <2> QED BY <2>1, Frame
<1>3. Open' \subseteq Open
  BY <1>0 DEF Open
<1> QED BY <1>0, <1>1, <1>2, <1>3, RoomKept

(* The request of OnInputTooLarge was complete and is executed once. *)
LEMMA TooLargeRuns ==
  ASSUME ServerInv, NEW c \in Conn, OnInputTooLarge(c)
  PROVE  /\ con[c] = "open" /\ pc[c] \in {"wait", "gone"} /\ runs[c] = 0
         /\ runs' = [runs EXCEPT ![c] = 1]
         /\ pc[c] = "wait" => Waiting(c)
         /\ \A d \in Conn \ {c} : up'[d] = up[d]
<1>1. con[c] = "open"
  BY ServedIsOpen DEF OnInputTooLarge
<1>2. PICK k \in Reads(rbuf[c], up[c]) : up' = [up EXCEPT ![c] = Rest(up[c], k)]
  BY DEF OnInputTooLarge
<1>3. pc[c] \in {"wait", "gone"} /\ runs[c] = 0 /\ (pc[c] = "wait" => Waiting(c))
  BY <1>1, RequestRead DEF Asked
<1> QED BY <1>1, <1>2, <1>3 DEF OnInputTooLarge, ServerInv, TypeOK

LEMMA OnOutputInv ==
  ASSUME ServerInv, NEW c \in Conn, OnOutput(c)
  PROVE  RoomForOne' /\ \A d \in Conn : ConnInv(d)'
<1> USE DEF ServerInv
<1>0. /\ UNCHANGED <<pc, xid, arg, crbuf, up, srv, con, rbuf, listener, max_sockets, runs>>
      /\ todo' = [todo EXCEPT ![c] = @ \ {"OUT"}] /\ Flsbuf(c) /\ con[c] = "open"
  BY ServedIsOpen DEF OnOutput, Serve, caller
<1>1. ASSUME NEW d \in Conn, d # c PROVE ConnInv(d)'
  <2>1. down'[d] = down[d] /\ sbuf'[d] = sbuf[d]
    BY <1>0, <1>1 DEF TypeOK, Flsbuf
  <2>2. SameConn(d)
    BY <1>0, <1>1, <2>1 DEF TypeOK, SameConn
  <2> QED BY <2>2, Frame
<1>2. ConnInv(c)'
  <2>1. CASE sbuf[c] = <<>>
    <3>1. UNCHANGED <<sbuf, down>>
      BY <1>0, <2>1 DEF Flsbuf
    <3> QED BY <1>0, <3>1 DEF ConnInv, AtRest, Waiting, Answered, AnswerWith, Asked, Silent
  <2>2. CASE sbuf[c] # <<>>
    <3>1. PICK k \in 1 .. Len(sbuf[c]) :
            /\ down' = [down EXCEPT ![c] = down[c] \o SubSeq(sbuf[c], 1, k)]
            /\ sbuf' = [sbuf EXCEPT ![c] = Rest(sbuf[c], k)]
      BY <1>0, <2>2 DEF Flsbuf
    <3>2. down'[c] = down[c] \o SubSeq(sbuf[c], 1, k) /\ sbuf'[c] = Rest(sbuf[c], k)
      BY <3>1 DEF TypeOK
    <3>3. down'[c] \o sbuf'[c] = down[c] \o sbuf[c]
      <4>1. down[c] \in Seq(Frag) /\ sbuf[c] \in Seq(Frag)
        BY DEF TypeOK
      <4>2. (down[c] \o SubSeq(sbuf[c], 1, k)) \o Rest(sbuf[c], k) = down[c] \o sbuf[c]
        BY <4>1, Cut
      <4> QED BY <3>2, <4>2
    <3>4. pc[c] # "idle" /\ (pc[c] = "wait" => Answered(c))
      BY <1>0, <2>2 DEF ConnInv, AtRest, Waiting
    <3>5. pc[c] = "wait" => Answered(c)'
      BY <1>0, <3>3, <3>4 DEF Answered, AnswerWith
    <3>6. pc[c] = "gone" => Asked(c)' \/ (rbuf'[c] = <<>> /\ up'[c] = <<>>)
      BY <1>0 DEF ConnInv, Asked
    <3> QED BY <1>0, <3>4, <3>5, <3>6 DEF ConnInv, TypeOK
  <2> QED BY <2>1, <2>2
<1> QED BY <1>0, <1>1, <1>2, RoomKept DEF Open

-----------------------------------------------------------------------------
LEMMA ServerInvInit == ASSUME Init PROVE ServerInv
<1>1. <<>> \in Seq(Frag) /\ Len(<<>>) <= BufSize /\ 1 \in 0 .. XidMod - 1 /\ 0 \in 0 .. XidMod - 1
  BY ServerAssumption
<1>2. TypeOK
  BY <1>1 DEF Init, Empty, TypeOK
<1>3. Open = {}
  BY DEF Init, Open
<1>4. RoomForOne
  BY <1>2, <1>3, FS_EmptySet, ServerAssumption DEF RoomForOne, NoExcess, Init, TypeOK
<1>5. ASSUME NEW c \in Conn PROVE ConnInv(c)
  BY DEF Init, Empty, ConnInv
<1> QED BY <1>2, <1>4, <1>5 DEF ServerInv

LEMMA ServerInvStep == ASSUME ServerInv, [Next]_vars PROVE ServerInv'
<1>0. TypeOK'
  BY ServerTypeStep DEF ServerInv
<1> SUFFICES RoomForOne' /\ \A d \in Conn : ConnInv(d)'
  BY <1>0 DEF ServerInv
<1>1. ASSUME NEW c \in Conn, Caller(c) PROVE RoomForOne' /\ \A d \in Conn : ConnInv(d)'
  <2>1. CASE Connect(c)
    BY <2>1, ConnectInv
  <2>2. CASE CallRead(c)
    BY <2>2, CallReadInv
  <2>3. CASE Leave(c) \/ Forget(c)
    BY <2>3, LeaveInv
  <2>4. CASE \E a \in Arg, n \in Requests : Call(c, a, n)
    BY <2>4, CallInv
  <2> QED BY <1>1, <2>1, <2>2, <2>3, <2>4 DEF Caller
<1>2. CASE Poll
  BY <1>2, PollInv
<1>3. ASSUME NEW c \in Conn, Accept(c) PROVE RoomForOne' /\ \A d \in Conn : ConnInv(d)'
  BY <1>3, AcceptInv
<1>4. ASSUME NEW c \in Conn, OnError(c) PROVE RoomForOne' /\ \A d \in Conn : ConnInv(d)'
  BY <1>4, OnErrorInv
<1>5. ASSUME NEW c \in Conn, OnInput(c) PROVE RoomForOne' /\ \A d \in Conn : ConnInv(d)'
  BY <1>5, OnInputInv
<1>6. ASSUME NEW c \in Conn, OnInputTooLarge(c)
      PROVE  RoomForOne' /\ \A d \in Conn : ConnInv(d)'
  <2>1. Free(c) /\ UNCHANGED <<caller, down, srv, max_sockets>>
    BY <1>6 DEF OnInputTooLarge
  <2> QED BY <1>6, <2>1, TooLargeRuns, FreeInv
<1>7. ASSUME NEW c \in Conn, OnEof(c) \/ OnOutputClosed(c)
      PROVE  RoomForOne' /\ \A d \in Conn : ConnInv(d)'
  <2>1. con[c] = "open"
    BY <1>7, ServedIsOpen DEF OnEof, OnOutputClosed
  <2>2. Free(c) /\ UNCHANGED <<caller, down, srv, max_sockets>> /\ UNCHANGED runs /\ up' = up
    BY <1>7 DEF OnEof, OnOutputClosed
  <2> QED BY <2>1, <2>2, FreeInv
<1>8. ASSUME NEW c \in Conn, OnOutput(c) PROVE RoomForOne' /\ \A d \in Conn : ConnInv(d)'
  BY <1>8, OnOutputInv
<1>9. CASE UNCHANGED vars
  <2>1. ASSUME NEW d \in Conn PROVE ConnInv(d)'
    <3>1. SameConn(d)
      BY <1>9 DEF vars, caller, handler, SameConn
    <3> QED BY <3>1, Frame DEF ServerInv
  <2>2. RoomForOne'
    BY <1>9 DEF vars, handler, RoomForOne, NoExcess, Open, ServerInv
  <2> QED BY <2>1, <2>2
<1> QED
  BY <1>1, <1>2, <1>3, <1>4, <1>5, <1>6, <1>7, <1>8, <1>9 DEF Next, Handler

LEMMA ServerAlways == Spec => []ServerInv
BY ServerInvInit, ServerInvStep, PTL DEF Spec

(* Both ends of every connection read packets from their first fragment on,
   no buffer overflows, and the main loop never has more sockets than it
   polls, so that it never closes one as excess (ct/socket.c,
   ct/mainloop.c:56). *)
THEOREM ServerSound == Spec => []SocketsSound
<1>1. ServerInv => SocketsSound
  BY DEF ServerInv, SocketsSound, InFrame, RoomForOne, ConnInv
<1> QED BY <1>1, ServerAlways, PTL

-----------------------------------------------------------------------------
(* The refinement of RpcService *)

Phase == [c \in Conn |-> IF pc[c] = "wait" THEN "called" ELSE pc[c]]

LEMMA PhaseMoves ==
  ASSUME TypeOK, NEW c \in Conn, NEW v \in {"off", "idle", "wait", "gone"},
         pc' = [pc EXCEPT ![c] = v]
  PROVE  Phase' = [Phase EXCEPT ![c] = IF v = "wait" THEN "called" ELSE v]
BY DEF Phase, TypeOK

LEMMA RpcInit == ASSUME Init PROVE Rpc!Init
BY DEF Init, Rpc!Init

LEMMA RpcStep == ASSUME ServerInv, [Next]_vars PROVE [Rpc!Next]_(Rpc!vars)
<1> USE DEF ServerInv
<1>0. \A c \in Conn : Phase[c] = IF pc[c] = "wait" THEN "called" ELSE pc[c]
  BY DEF Phase
<1>1. ASSUME NEW c \in Conn, Connect(c) PROVE Rpc!Connect(c)
  <2>1. pc' = [pc EXCEPT ![c] = "idle"] /\ pc[c] = "off"
    BY <1>1 DEF Connect
  <2>2. Phase' = [Phase EXCEPT ![c] = "idle"] /\ Phase[c] = "off"
    BY <1>0, <2>1, PhaseMoves
  <2> QED BY <1>1, <2>2 DEF Connect, Rpc!Connect, Phase
<1>2. ASSUME NEW c \in Conn, NEW a \in Arg, NEW n \in Requests, Call(c, a, n)
      PROVE  Rpc!Call(c, a) \/ Rpc!Fail(c)
  <2>0. pc[c] = "idle" /\ Phase[c] = "idle"
    BY <1>0, <1>2 DEF Call
  <2>1. CASE /\ pc' = [pc EXCEPT ![c] = "wait"] /\ arg' = [arg EXCEPT ![c] = a]
             /\ runs' = [runs EXCEPT ![c] = 0] /\ UNCHANGED ret
    <3>1. Phase' = [Phase EXCEPT ![c] = "called"]
      BY <2>1, PhaseMoves
    <3> QED BY <2>0, <2>1, <3>1 DEF Rpc!Call, Phase
  <2>2. CASE ret' = [ret EXCEPT ![c] = NoArg] /\ UNCHANGED <<pc, arg, runs>>
    <3>1. Phase' = [Phase EXCEPT ![c] = "idle"]
      BY <2>0, <2>2 DEF Phase
    <3> QED BY <2>0, <2>2, <3>1 DEF Rpc!Fail, Phase
  <2> QED BY <1>2, <2>1, <2>2 DEF Call
<1>3. ASSUME NEW c \in Conn, CallRead(c)
      PROVE  Rpc!Return(c) \/ Rpc!Fail(c) \/ UNCHANGED <<pc, arg, runs, ret>>
  <2>0. UNCHANGED <<arg, runs>> /\ Phase[c] = "called" /\ pc[c] = "wait"
    BY <1>0, <1>3 DEF CallRead
  <2>1. ASSUME pc' = [pc EXCEPT ![c] = "idle"], ret' = [ret EXCEPT ![c] = NoArg]
        PROVE  Rpc!Fail(c)
    <3>1. Phase' = [Phase EXCEPT ![c] = "idle"]
      BY <2>1, PhaseMoves
    <3> QED BY <2>0, <2>1, <3>1 DEF Rpc!Fail, Phase
  <2>2. ASSUME pc' = [pc EXCEPT ![c] = "idle"], ret' = [ret EXCEPT ![c] = arg[c]],
               NEW k \in Reads(crbuf[c], down[c])
        PROVE  Rpc!Return(c)
    <3>1. Phase' = [Phase EXCEPT ![c] = "idle"]
      BY <2>2, PhaseMoves
    <3>2. runs[c] = 1
      BY <2>0, <2>2, ReplyRead
    <3> QED BY <2>0, <2>2, <3>1, <3>2 DEF Rpc!Return, Phase
  <2> QED BY <1>3, <2>0, <2>1, <2>2, CallReadCases DEF CallFails
<1>4. ASSUME NEW c \in Conn, Leave(c) PROVE Rpc!Leave(c)
  <2>1. pc' = [pc EXCEPT ![c] = "gone"] /\ pc[c] \in {"idle", "wait"}
    BY <1>4 DEF Leave
  <2>2. Phase' = [Phase EXCEPT ![c] = "gone"] /\ Phase[c] \in {"idle", "called"}
    BY <1>0, <2>1, PhaseMoves
  <2> QED BY <1>4, <2>2 DEF Leave, Rpc!Leave, Phase
<1>5. ASSUME NEW c \in Conn, Forget(c) PROVE Rpc!Forget(c)
  <2>1. pc' = [pc EXCEPT ![c] = "off"] /\ pc[c] = "gone"
    BY <1>5 DEF Forget
  <2>2. Phase' = [Phase EXCEPT ![c] = "off"] /\ Phase[c] = "gone"
    BY <1>0, <2>1, PhaseMoves
  <2> QED BY <1>5, <2>2 DEF Forget, Rpc!Forget, Phase
<1>6. ASSUME NEW c \in Conn, pc[c] \in {"wait", "gone"}, runs[c] = 0,
             runs' = [runs EXCEPT ![c] = 1], UNCHANGED <<pc, arg, ret>>
      PROVE  Rpc!Run(c)
  BY <1>0, <1>6 DEF Rpc!Run, Phase
<1>7. ASSUME NEW c \in Conn, OnInput(c) PROVE Rpc!Run(c) \/ UNCHANGED <<pc, arg, runs, ret>>
  <2>1. UNCHANGED <<pc, arg, ret>>
    BY <1>7 DEF OnInput, caller
  <2>2. pc[c] \in {"wait", "gone"} /\ runs[c] = 0
        /\ (UNCHANGED runs \/ runs' = [runs EXCEPT ![c] = 1])
    BY <1>7, OnInputCases DEF Asked
  <2> QED BY <1>6, <2>1, <2>2
<1>8. ASSUME NEW c \in Conn, OnInputTooLarge(c) PROVE Rpc!Run(c)
  <2>1. UNCHANGED <<pc, arg, ret>>
    BY <1>8 DEF OnInputTooLarge, caller
  <2> QED BY <1>6, <1>8, <2>1, TooLargeRuns
<1>9. ASSUME \/ Poll
             \/ \E c \in Conn : Accept(c) \/ OnError(c) \/ OnEof(c) \/ OnOutput(c) \/ OnOutputClosed(c)
             \/ UNCHANGED vars
      PROVE  UNCHANGED <<pc, arg, runs, ret>>
  BY <1>9 DEF Poll, Accept, OnError, OnEof, OnOutput, OnOutputClosed, caller, vars
<1>10. UNCHANGED <<pc, arg, runs, ret>> => UNCHANGED Rpc!vars
  BY DEF Rpc!vars
<1> QED
  BY <1>1, <1>2, <1>3, <1>4, <1>5, <1>7, <1>8, <1>9, <1>10
  DEF Next, Handler, Caller, Rpc!Next

(* ct_socket_call() over the sockets implements RpcService: a call runs at
   most once in the ifdhandler and returns the answer of that run, or fails
   (ct/socket.c:353, ifd/ifdhandler.c:340). *)
THEOREM RpcRefined == Spec => RefinesRpc
<1>1. Init => Rpc!Init
  BY RpcInit
<1>2. ServerInv /\ [Next]_vars => [Rpc!Next]_(Rpc!vars)
  BY RpcStep
<1> QED BY <1>1, <1>2, ServerAlways, PTL DEF Spec, RefinesRpc, Rpc!Spec
=============================================================================
