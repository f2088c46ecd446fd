---------------------------- MODULE T1LinkProofs ----------------------------
(***************************************************************************)
(* T=1: what t1_transceive() delivers is the whole response to the command *)
(* the card executed, the command is executed once unless something was    *)
(* resynchronized or aborted, the sequence numbers agree between calls and *)
(* no block is too long for the card; for any number of damaged and lost   *)
(* blocks, any lengths, retries, and requests of the card.                 *)
(***************************************************************************)
EXTENDS T1Link, SequenceTheorems, TLAPS

RspByte == {"rsp"} \X Seq(CmdByte) \X Nat

(* The blocks of the two sides *)
IOf(T) == [k : {"I"}, s : {0, 1}, x : {"more", "last"}, d : Seq(T)]
HostI == IOf(CmdByte)
CardI == IOf(RspByte)
RBlocks == [k : {"R"}, s : {0, 1}, x : {"ok", "edc", "other"}, d : {<<>>}]
SBlocks == {SRequest("wtx", Param(1)), SRequest("abort", <<>>)}
             \cup {SRequest("ifs", Param(w)) : w \in CardIfsc}
ResyncReq == SRequest("resync", <<>>)
ResyncRsp == SResponse("resync", <<>>)

(* the card's answer, which an S request may be holding back *)
Answer == IF Waiting THEN owed ELSE clast

HostType ==
    /\ pc \in {"idle", "xcv", "rsy"}
    /\ state \in {"SENDING", "RECEIVING", "RESYNCH", "DEAD"}
    /\ ns \in {0, 1} /\ nr \in {0, 1} /\ ifsc \in Nat \ {0}
    /\ sbuf \in Seq(CmdByte) /\ apdu \in Seq(CmdByte)
    /\ last_send \in 0 .. Len(sbuf)
    /\ sent_length \in Nat /\ sent_length + Len(sbuf) <= Len(apdu)
    /\ rcv_len \in Nat /\ rbuf \in Seq(RspByte) /\ Len(rbuf) <= rcv_len
    /\ retries \in 0 .. RetryMod - 1 /\ resyncs \in 0 .. Resyncs
    /\ ret \in {"none", "received", "synced", "error"}
    /\ call \in {0, 1} /\ quiet \in BOOLEAN /\ mixed \in BOOLEAN

CardType ==
    /\ cns \in {0, 1} /\ cnr \in {0, 1}
    /\ cin \in Seq(CmdByte) /\ cout \in Seq(RspByte) /\ runs \in Seq(Seq(CmdByte))
    /\ limit \in Nat /\ reqs \in Nat
    /\ clast \in CardI \cup RBlocks \cup SBlocks \cup {ResyncRsp, NoBlock}
    /\ Waiting => owed \in CardI \cup RBlocks /\ owed.x \notin {"edc", "other"}

(* One block at a time: to the host goes what the card sent last, and an S
   response to the card answers the request it waits with. *)
LineType ==
    /\ to \in {"card", "host"} /\ faults \in 0 .. MaxFaults
    /\ to = "host" => line \in {Bad, NoBlock, clast}
    /\ to = "card" => \/ line \in HostI \cup RBlocks \cup {Bad, NoBlock, ResyncReq}
                      \/ Waiting /\ line = SResponse(clast.x, clast.d)
    /\ pc = "idle" => line = NoBlock

TypeInv == HostType /\ CardType /\ LineType

(* The block size in use is one the card can take; a grant under way is already
   in use. *)
Granting == to = "card" /\ line.k = "SRsp"

FitInv ==
    /\ ifsc <= limit
    /\ Waiting /\ clast.x = "ifs" => clast.d[1][2] <= limit
    /\ Granting /\ clast.x = "ifs" => ifsc = clast.d[1][2]
    /\ Granting /\ clast.x = "abort" => ~ quiet
    /\ BlocksFit

CardInv ==
    /\ Answer.k = "I" => cin = <<>>
    /\ clast.k = "SRsp" => cns = 0 /\ cnr = 0 /\ cin = <<>> /\ cout = <<>>
    /\ clast = NoBlock => cin = <<>>

-----------------------------------------------------------------------------
(* The phases of an exchange.  mixed and quiet decide what is promised: the
   numbers and the response without mixed, the command with quiet. *)

(* The card has not got the last I block: nothing else goes to it. *)
Unheard ==
    /\ to = "card" /\ line \in {Bad, IBlock(ns, sbuf, ifsc)} /\ ~ Waiting
    /\ rbuf = <<>> /\ last_send = Len(IBlock(ns, sbuf, ifsc).d)
    /\ ~ mixed => ns = cnr /\ nr = cns
    /\ quiet => runs = <<>> /\ cin \o sbuf = apdu

(* The card's answer is there and not received; it may be asked for again. *)
Pending ==
    \/ to = "host" /\ line \in {Bad, clast}
    \/ to = "card" /\ line = Bad
    \/ to = "card" /\ line.k = "R" /\ line.s = nr
    \/ Granting

(* It acknowledges a block of a chain, *)
Acknowledged ==
    /\ Pending /\ rbuf = <<>>
    /\ Answer.k = "R" /\ Answer.x = "ok" /\ Answer.s = cnr /\ cnr # ns
    /\ ~ mixed => nr = cns
    /\ quiet => runs = <<>> /\ cin \o Drop(sbuf, last_send) = apdu

(* or is the next block of the response. *)
ToCome(rest) == runs # <<>> /\ rbuf \o rest = Response(runs[Len(runs)])

Responding ==
    /\ Pending /\ Answer.k = "I"
    /\ state = "SENDING" => rbuf = <<>>
    /\ ~ mixed =>
         /\ IF state = "SENDING" THEN cnr # ns ELSE cnr = ns
         /\ cns # nr /\ Answer.s = nr
         /\ Answer.x = "last" <=> cout = <<>>
         /\ ToCome(Answer.d \o cout)
    /\ quiet => runs = <<apdu>>

(* The block was received, and its successor is being asked for. *)
Confirmed ==
    /\ state = "RECEIVING" /\ to = "card" /\ (line = Bad \/ (line.k = "R" /\ line.s = nr))
    /\ clast.k = "I"
    /\ ~ mixed => ns = cnr /\ nr = cns /\ cout # <<>> /\ ToCome(cout)
    /\ quiet => runs = <<apdu>>

(* The card reports an error, and can only be resynchronized. *)
Doomed ==
    /\ clast.k = "R" /\ clast.x \in {"edc", "other"}
    /\ \/ to = "host" /\ line \in {Bad, clast}
       \/ to = "card" /\ (line = Bad \/ line.k = "R")

(* The request to resynchronize is under way, or an answer to it that cannot be
   taken for anything else. *)
Resyncing ==
    \/ to = "card" /\ line \in {Bad, ResyncReq}
    \/ /\ clast.k \in {"SReq", "SRsp"} \/ (clast.k = "R" /\ clast.x = "edc")
       /\ \/ to = "host" /\ line \in {Bad, clast}
          \/ to = "card" /\ line.k = "R"

AtRest == ~ Waiting /\ cin = <<>> /\ (~ mixed => ns = cnr /\ nr = cns)

IdleInv == pc = "idle" /\ state # "DEAD" => AtRest

RsyInv == pc = "rsy" /\ line # NoBlock => ns = 0 /\ nr = 0 /\ Resyncing

XcvInv ==
    pc = "xcv" =>
        /\ state # "DEAD"
        /\ state = "RESYNCH" => ~ quiet
        /\ line # NoBlock =>
             /\ state = "RESYNCH" /\ ~ mixed => ns = 0 /\ nr = 0 /\ Resyncing
             /\ state = "SENDING" /\ (quiet \/ ~ mixed) =>
                  Unheard \/ Acknowledged \/ Responding \/ Doomed
             /\ state = "RECEIVING" /\ (quiet \/ ~ mixed) =>
                  Responding \/ Confirmed \/ Doomed

PhaseInv == IdleInv /\ RsyInv /\ XcvInv

T1Inv == TypeInv /\ FitInv /\ CardInv /\ PhaseInv /\ ResponseIntact /\ ExactlyOnce

-----------------------------------------------------------------------------
(* Blocks *)

LEMMA Kinds ==
  /\ \A b \in HostI \cup CardI : b.k = "I" /\ b.s \in {0, 1} /\ b.x \in {"more", "last"}
  /\ \A b \in HostI : b.d \in Seq(CmdByte)
  /\ \A b \in CardI : b.d \in Seq(RspByte)
  /\ \A b \in RBlocks : b.k = "R" /\ b.s \in {0, 1} /\ b.x \in {"ok", "edc", "other"} /\ b.d = <<>>
  /\ \A b \in SBlocks : b.k = "SReq" /\ b.x \in {"wtx", "ifs", "abort"}
  /\ Bad.k = "bad" /\ NoBlock.k = "none"
  /\ ResyncReq.k = "SReq" /\ ResyncReq.x = "resync" /\ ResyncRsp.k = "SRsp" /\ ResyncRsp.x = "resync"
  /\ \A x, d : SResponse(x, d).k = "SRsp" /\ SResponse(x, d).x = x /\ SResponse(x, d).d = d
  BY DEF IOf, HostI, CardI, RBlocks, SBlocks, SRequest, SResponse, Bad, NoBlock, ResyncReq, ResyncRsp

LEMMA RFields ==
  ASSUME NEW n \in {0, 1}, NEW e \in {"ok", "edc", "other"}
  PROVE  RBlock(n, e) \in RBlocks /\ RBlock(n, e).s = n /\ RBlock(n, e).x = e
  BY DEF RBlock, RBlocks

LEMMA IfsParam ==
  /\ \A w : SRequest("ifs", Param(w)).d[1][2] = w /\ SRequest("ifs", Param(w)).x = "ifs"
            /\ SRequest("ifs", Param(w)).d = Param(w)
  /\ SRequest("wtx", Param(1)).x = "wtx" /\ SRequest("abort", <<>>).x = "abort"
  BY DEF SRequest, Param, Byte

(* what is asked for with "ifs" *)
LEMMA IfsAsked ==
  ASSUME NEW b \in SBlocks, b.x = "ifs"
  PROVE  b.d[1][2] \in CardIfsc /\ b.d[1][2] \in Nat /\ b = SRequest("ifs", Param(b.d[1][2]))
  <1>1. PICK w \in CardIfsc : b = SRequest("ifs", Param(w))
    BY IfsParam DEF SBlocks
  <1>2. b.d[1][2] = w
    BY <1>1, IfsParam
  <1>. QED BY <1>1, <1>2, CardAssumption

(* which block a kind of clast stands for *)
LEMMA LastBlock ==
  ASSUME CardType
  PROVE  /\ clast.k = "I" <=> clast \in CardI
         /\ clast.k = "R" <=> clast \in RBlocks
         /\ clast.k = "SReq" <=> clast \in SBlocks
         /\ clast.k = "SRsp" <=> clast = ResyncRsp
         /\ clast.k = "none" <=> clast = NoBlock
         /\ clast # Bad
  BY Kinds DEF CardType

-----------------------------------------------------------------------------
(* Sequences *)

LEMMA Split ==
  ASSUME NEW T, NEW t \in Seq(T), NEW k \in 0 .. Len(t)
  PROVE  /\ Drop(t, k) \in Seq(T) /\ Len(Drop(t, k)) = Len(t) - k
         /\ SubSeq(t, 1, k) \in Seq(T) /\ Len(SubSeq(t, 1, k)) = k
         /\ SubSeq(t, 1, k) \o Drop(t, k) = t
  <1>0. Len(t) \in Nat /\ k \in 0 .. Len(t) /\ k \in Nat
    BY LenProperties
  <1>1. SubSeq(t, 1, k) \in Seq(T) /\ Len(SubSeq(t, 1, k)) = k
    <2>1. \A i \in 1 .. k : t[i] \in T
      BY <1>0, ElementOfSeq
    <2>2. /\ SubSeq(t, 1, k) \in Seq(T)
          /\ Len(SubSeq(t, 1, k)) = IF 1 <= k THEN k - 1 + 1 ELSE 0
      BY <1>0, <2>1, SubSeqProperties
    <2>. QED BY <1>0, <2>2
  <1>2. Drop(t, k) \in Seq(T) /\ Len(Drop(t, k)) = Len(t) - k
    <2>1. \A i \in k + 1 .. Len(t) : t[i] \in T
      BY <1>0, ElementOfSeq
    <2>2. /\ SubSeq(t, k + 1, Len(t)) \in Seq(T)
          /\ Len(SubSeq(t, k + 1, Len(t))) = IF k + 1 <= Len(t) THEN Len(t) - (k + 1) + 1 ELSE 0
      BY <1>0, <2>1, SubSeqProperties
    <2>. QED BY <1>0, <2>2 DEF Drop
  <1> DEFINE a == SubSeq(t, 1, k)
             z == Drop(t, k)
  <1>3. /\ \A i \in 1 .. k : a[i] = t[i]
        /\ \A i \in 1 .. Len(t) - k : z[i] = t[i + k]
    <2>1. \A i \in 1 .. k : a[i] = t[i]
      BY <1>0, SubSeqProperties
    <2>2. \A i \in 1 .. Len(t) - k : z[i] = t[i + k]
      BY <1>0, SubSeqProperties DEF Drop
    <2>. QED BY <2>1, <2>2
  <1> HIDE DEF a, z
  <1>4. /\ a \o z \in Seq(T) /\ Len(a \o z) = Len(a) + Len(z)
        /\ \A i \in 1 .. Len(a) + Len(z) : (a \o z)[i] = IF i <= Len(a) THEN a[i] ELSE z[i - Len(a)]
    BY <1>1, <1>2, ConcatProperties DEF a, z
  <1>5. Len(a) = k /\ Len(z) = Len(t) - k
    BY <1>1, <1>2 DEF a, z
  <1>6. Len(a \o z) = Len(t)
    BY <1>0, <1>4, <1>5
  <1>7. \A i \in 1 .. Len(t) : (a \o z)[i] = t[i]
    BY <1>0, <1>3, <1>4, <1>5
  <1>8. a \o z = t
    BY <1>4, <1>6, <1>7, SeqEqual
  <1>. QED BY <1>1, <1>2, <1>8 DEF a, z

LEMMA Empty ==
  ASSUME NEW T, NEW t \in Seq(T)
  PROVE  /\ t \o <<>> = t /\ <<>> \o t = t /\ <<>> \in Seq(T) /\ Len(<<>>) = 0
         /\ Len(t) = 0 <=> t = <<>>
         /\ Len(t) \in Nat
  BY EmptySeq, ConcatEmptySeq, LenProperties

(* t1_build(): the block and what follows it are the whole *)
StartOf(T, b, n, t, w) ==
    /\ b \in IOf(T)
    /\ b.k = "I" /\ b.s = n /\ b.d \in Seq(T)
    /\ b.x = IF Len(t) > w THEN "more" ELSE "last"
    /\ Len(b.d) \in 0 .. Len(t) /\ Len(b.d) <= w
    /\ b.d \o Drop(t, Len(b.d)) = t
    /\ b.x = "last" => b.d = t

LEMMA IBlockIs ==
  ASSUME NEW T, NEW t \in Seq(T), NEW n \in {0, 1}, NEW w \in Nat
  PROVE  StartOf(T, IBlock(n, t, w), n, t, w)
  <1> DEFINE b == IBlock(n, t, w)
  <1>0. Len(t) \in Nat
    BY LenProperties
  <1>1. CASE Len(t) > w
    <2>1. w \in 0 .. Len(t)
      BY <1>0, <1>1
    <2>2. b = [k |-> "I", s |-> n, x |-> "more", d |-> SubSeq(t, 1, w)]
      BY <1>1 DEF IBlock
    <2>3. SubSeq(t, 1, w) \in Seq(T) /\ Len(SubSeq(t, 1, w)) = w
          /\ SubSeq(t, 1, w) \o Drop(t, w) = t
      BY <2>1, Split
    <2> HIDE DEF b
    <2>4. b.k = "I" /\ b.s = n /\ b.x = "more" /\ b.d = SubSeq(t, 1, w)
      BY <2>2
    <2>5. b \in IOf(T)
      BY <2>2, <2>3 DEF IOf
    <2>6. Len(b.d) \in 0 .. Len(t) /\ Len(b.d) <= w
      BY <1>0, <2>1, <2>3, <2>4
    <2>. QED BY <1>1, <2>3, <2>4, <2>5, <2>6 DEF b, StartOf
  <1>2. CASE ~ (Len(t) > w)
    <2>1. Len(t) \in 0 .. Len(t) /\ Len(t) <= w
      BY <1>0, <1>2
    <2>2. b = [k |-> "I", s |-> n, x |-> "last", d |-> t]
      BY <1>2 DEF IBlock
    <2>3. Drop(t, Len(t)) \in Seq(T) /\ Len(Drop(t, Len(t))) = 0
      BY <1>0, <2>1, Split
    <2>4. t \o Drop(t, Len(t)) = t
      BY <2>3, Empty
    <2> HIDE DEF b
    <2>5. b.k = "I" /\ b.s = n /\ b.x = "last" /\ b.d = t
      BY <2>2
    <2>6. b \in IOf(T)
      BY <2>2 DEF IOf
    <2>. QED BY <1>2, <2>1, <2>4, <2>5, <2>6 DEF b, StartOf
  <1>. QED BY <1>1, <1>2

LEMMA HostIs ==
  ASSUME NEW t \in Seq(CmdByte), NEW n \in {0, 1}, NEW w \in Nat
  PROVE  /\ IBlock(n, t, w) \in HostI
         /\ IBlock(n, t, w).k = "I" /\ IBlock(n, t, w).s = n
         /\ IBlock(n, t, w).d \in Seq(CmdByte)
         /\ Len(IBlock(n, t, w).d) \in 0 .. Len(t) /\ Len(IBlock(n, t, w).d) <= w
         /\ IBlock(n, t, w).d \o Drop(t, Len(IBlock(n, t, w).d)) = t
         /\ IBlock(n, t, w).x = "last" => IBlock(n, t, w).d = t
  <1>1. StartOf(CmdByte, IBlock(n, t, w), n, t, w)
    BY IBlockIs
  <1>. QED BY <1>1 DEF StartOf, HostI

LEMMA CardIs ==
  ASSUME NEW t \in Seq(RspByte), NEW n \in {0, 1}
  PROVE  /\ IBlock(n, t, Ifsd) \in CardI
         /\ IBlock(n, t, Ifsd).k = "I" /\ IBlock(n, t, Ifsd).s = n
  <1>1. Ifsd \in Nat
    BY CardAssumption
  <1>2. StartOf(RspByte, IBlock(n, t, Ifsd), n, t, Ifsd)
    BY <1>1, IBlockIs
  <1>. QED BY <1>2 DEF StartOf, CardI

(* the card's blocks: the rest is what follows, and is empty after the last one *)
LEMMA Chunk ==
  ASSUME NEW T, NEW t \in Seq(T), NEW n \in {0, 1}, NEW w \in Nat
  PROVE  /\ SubSeq(t, w + 1, Len(t)) \in Seq(T)
         /\ IBlock(n, t, w).d \o SubSeq(t, w + 1, Len(t)) = t
         /\ IBlock(n, t, w).x = "last" <=> SubSeq(t, w + 1, Len(t)) = <<>>
  <1>0. Len(t) \in Nat
    BY LenProperties
  <1>1. CASE Len(t) > w
    <2>1. w \in 0 .. Len(t)
      BY <1>0, <1>1
    <2>2. /\ Drop(t, w) \in Seq(T) /\ Len(Drop(t, w)) = Len(t) - w
          /\ SubSeq(t, 1, w) \o Drop(t, w) = t
      BY <2>1, Split
    <2>3. Len(Drop(t, w)) # 0
      BY <1>0, <1>1, <2>2
    <2>4. Drop(t, w) # <<>>
      BY <2>2, <2>3, Empty
    <2>5. IBlock(n, t, w).d = SubSeq(t, 1, w) /\ IBlock(n, t, w).x = "more"
      BY <1>1 DEF IBlock
    <2>6. SubSeq(t, w + 1, Len(t)) = Drop(t, w)
      BY DEF Drop
    <2>. QED BY <2>2, <2>4, <2>5, <2>6
  <1>2. CASE ~ (Len(t) > w)
    <2>1. /\ SubSeq(t, w + 1, Len(t)) \in Seq(T)
          /\ Len(SubSeq(t, w + 1, Len(t))) = IF w + 1 <= Len(t) THEN Len(t) - (w + 1) + 1 ELSE 0
      <3>1. \A i \in w + 1 .. Len(t) : t[i] \in T
        BY <1>0, <1>2
      <3>. QED BY <1>0, <3>1, SubSeqProperties
    <2>2. SubSeq(t, w + 1, Len(t)) = <<>>
      BY <1>0, <1>2, <2>1, Empty
    <2>3. IBlock(n, t, w).d = t /\ IBlock(n, t, w).x = "last"
      BY <1>2 DEF IBlock
    <2>. QED BY <2>1, <2>2, <2>3, Empty
  <1>. QED BY <1>1, <1>2

LEMMA ResponseIs ==
  ASSUME NEW c \in Seq(CmdByte)
  PROVE  Response(c) \in Seq(RspByte) /\ Response(c) # <<>>
  <1>1. Len(c) + 1 \in Nat
    BY LenProperties
  <1>2. \A i \in 1 .. Len(c) + 1 : Byte("rsp", c, i) \in RspByte
    BY DEF Byte, RspByte
  <1>3. Response(c) \in Seq(RspByte)
    BY <1>1, <1>2, IsASeq DEF Response
  <1>4. DOMAIN Response(c) = 1 .. Len(c) + 1
    BY DEF Response
  <1>5. Len(Response(c)) = Len(c) + 1
    BY <1>1, <1>3, <1>4, LenProperties
  <1>. QED BY <1>1, <1>3, <1>5, Empty, LenProperties

LEMMA DownIn ==
  ASSUME NEW n \in Int
  PROVE  Down(n) \in 0 .. RetryMod - 1
  BY T1Assumption DEF Down

LEMMA FlipIn ==
  ASSUME NEW n \in {0, 1}, NEW m \in {0, 1}
  PROVE  Flip(n) \in {0, 1} /\ Flip(n) # n /\ (m # n <=> m = Flip(n)) /\ Flip(Flip(n)) = n
  BY DEF Flip

-----------------------------------------------------------------------------
(* What the pieces of an action do *)

LEMMA CardKept ==
  ASSUME CardType, CardInv, UNCHANGED <<cns, cnr, cin, cout, clast, owed, limit, reqs>>,
         runs' \in Seq(Seq(CmdByte))
  PROVE  CardType' /\ CardInv' /\ Waiting' = Waiting /\ Answer' = Answer
  <1>1. Waiting' = Waiting /\ Answer' = Answer
    BY DEF Waiting, Answer
  <1>2. CardInv'
    BY <1>1 DEF CardInv
  <1>3. CardType'
    BY <1>1 DEF CardType
  <1>. QED BY <1>1, <1>2, <1>3

LEMMA SendIs ==
  ASSUME NEW buf \in Seq(CmdByte), NEW n \in {0, 1}, ifsc \in Nat, SendI(buf, n)
  PROVE  /\ sbuf' = buf /\ ns' = n /\ to' = "card" /\ line' = IBlock(n, buf, ifsc)
         /\ line' \in HostI /\ line'.k = "I" /\ line'.s = n /\ Len(line'.d) <= ifsc
         /\ line' # NoBlock /\ line' # Bad /\ line' # ResyncReq
         /\ last_send' = Len(line'.d) /\ last_send' \in 0 .. Len(buf)
  <1>1. /\ sbuf' = buf /\ ns' = n /\ to' = "card" /\ line' = IBlock(n, buf, ifsc)
        /\ last_send' = Len(IBlock(n, buf, ifsc).d)
    BY DEF SendI, Send
  <1>2. /\ IBlock(n, buf, ifsc) \in HostI
        /\ IBlock(n, buf, ifsc).k = "I" /\ IBlock(n, buf, ifsc).s = n
        /\ Len(IBlock(n, buf, ifsc).d) <= ifsc
        /\ Len(IBlock(n, buf, ifsc).d) \in 0 .. Len(buf)
    BY HostIs
  <1>3. line'.k = "I" /\ line' # NoBlock /\ line' # Bad /\ line' # ResyncReq
    BY <1>1, <1>2, Kinds
  <1>. QED BY <1>1, <1>2, <1>3

LEMMA SayIs ==
  ASSUME CardType, NEW b \in CardI \cup RBlocks, Say(b)
  PROVE  /\ to' = "host" /\ line' = clast' /\ clast' # NoBlock /\ clast' # Bad
         /\ \/ /\ clast' = b /\ owed' = NoBlock /\ UNCHANGED <<limit, reqs>>
            \/ /\ clast' \in SBlocks /\ owed' = b /\ b.x \notin {"edc", "other"}
               /\ limit' \in Nat /\ limit' >= limit /\ reqs' \in Nat
               /\ clast'.x = "ifs" => clast'.d[1][2] <= limit'
               /\ clast'.x = "abort" => b.k = "R"
  <1>0. limit \in Nat /\ reqs \in Nat
    BY DEF CardType
  <1>1. CASE Send("host", b) /\ clast' = b /\ owed' = NoBlock /\ UNCHANGED <<limit, reqs>>
    <2>1. b # NoBlock /\ b # Bad
      BY Kinds
    <2>. QED BY <1>1, <2>1 DEF Send
  <1>2. CASE /\ reqs' = reqs + 1 /\ b.x \notin {"edc", "other"} /\ owed' = b /\ Send("host", clast')
             /\ clast' = SRequest("wtx", Param(1)) /\ UNCHANGED limit
    <2>1. clast' \in SBlocks /\ clast'.x = "wtx"
      BY <1>2, IfsParam DEF SBlocks
    <2>. QED BY <1>0, <1>2, <2>1, Kinds DEF Send
  <1>3. CASE /\ reqs' = reqs + 1 /\ b.x \notin {"edc", "other"} /\ owed' = b /\ Send("host", clast')
             /\ clast' = SRequest("abort", <<>>) /\ UNCHANGED limit /\ b.k = "R"
    <2>1. clast' \in SBlocks /\ clast'.x = "abort"
      BY <1>3, IfsParam DEF SBlocks
    <2>. QED BY <1>0, <1>3, <2>1, Kinds DEF Send
  <1>4. ASSUME NEW w \in CardIfsc, reqs' = reqs + 1, b.x \notin {"edc", "other"}, owed' = b,
               Send("host", clast'), clast' = SRequest("ifs", Param(w)),
               limit' = IF w > limit THEN w ELSE limit
        PROVE  /\ to' = "host" /\ line' = clast' /\ clast' # NoBlock /\ clast' # Bad
               /\ clast' \in SBlocks
               /\ limit' \in Nat /\ limit' >= limit /\ reqs' \in Nat
               /\ clast'.x = "ifs" /\ clast'.d[1][2] <= limit'
    <2>1. clast' \in SBlocks
      BY <1>4 DEF SBlocks
    <2>2. clast'.x = "ifs" /\ clast'.d[1][2] = w
      BY <1>4, IfsParam
    <2>3. w \in Nat
      BY CardAssumption
    <2>4. limit' \in Nat /\ limit' >= limit /\ w <= limit' /\ reqs' \in Nat
      BY <1>0, <1>4, <2>3
    <2>. QED BY <1>4, <2>1, <2>2, <2>4, Kinds DEF Send
  <1>. QED BY <1>1, <1>2, <1>3, <1>4 DEF Say

(* the answer is the one meant, or is owed *)
LEMMA SaidAnswer ==
  ASSUME CardType, NEW b \in CardI \cup RBlocks, Say(b)
  PROVE  Answer' = b /\ (b.x \in {"edc", "other"} => ~ Waiting' /\ clast' = b)
  <1>1. b.k # "SReq"
    BY Kinds
  <1>2. \A c \in SBlocks : c.k = "SReq"
    BY Kinds
  <1>. QED BY <1>1, <1>2, SayIs DEF Answer, Waiting

-----------------------------------------------------------------------------
(* Giving up, resynchronizing, and the steps outside an exchange *)

LEMMA ErrorKeeps ==
  ASSUME T1Inv, Error, UNCHANGED <<faults, card>>
  PROVE  T1Inv'
  <1>1. CardType' /\ CardInv' /\ Waiting' = Waiting /\ Answer' = Answer
    BY CardKept DEF T1Inv, TypeInv, CardType, card
  <1>2. HostType'
    <2>1. Len(apdu) \in Nat /\ <<>> \in Seq(CmdByte) /\ Len(<<>>) = 0
      BY Empty DEF T1Inv, TypeInv, HostType
    <2>2. RetryMod - 1 \in Nat /\ Resyncs \in Nat
      BY T1Assumption
    <2>. QED BY <2>1, <2>2 DEF T1Inv, TypeInv, HostType, Error, Return, args
  <1>3. line' = NoBlock /\ pc' = "idle" /\ state' = "DEAD" /\ ret' = "error" /\ line'.k = "none"
    BY Kinds DEF Error, Return, Silence
  <1>4. LineType'
    BY <1>3 DEF T1Inv, TypeInv, LineType, Error, Return, Silence
  <1>5. FitInv'
    BY <1>1, <1>3 DEF T1Inv, FitInv, Granting, BlocksFit, Error, Return, card
  <1>6. PhaseInv' /\ ResponseIntact' /\ ExactlyOnce'
    BY <1>3 DEF PhaseInv, IdleInv, RsyInv, XcvInv, ResponseIntact, ExactlyOnce
  <1>. QED BY <1>1, <1>2, <1>4, <1>5, <1>6 DEF T1Inv, TypeInv

LEMMA ResyncKeeps ==
  ASSUME T1Inv, pc = "xcv", UNCHANGED <<faults, card>>,
         NEW buf \in Seq(CmdByte), NEW last \in 0 .. Len(buf), NEW sent \in Nat,
         sent + Len(buf) <= Len(apdu), ResyncFrom(buf, last, sent)
  PROVE  T1Inv'
  <1>1. CASE resyncs = 0 /\ Error
    BY <1>1, ErrorKeeps
  <1>2. CASE ~ (resyncs = 0 /\ Error)
    <2>0. /\ resyncs > 0 /\ sbuf' = buf /\ last_send' = last /\ sent_length' = sent
          /\ resyncs' = resyncs - 1 /\ ns' = 0 /\ nr' = 0
          /\ line' = ResyncReq /\ to' = "card" /\ state' = "RESYNCH"
          /\ retries' = Down(retries) /\ quiet' = FALSE
          /\ UNCHANGED <<pc, ifsc, rbuf, ret, args, mixed>>
      BY <1>2 DEF ResyncFrom, Send, ResyncReq
    <2>1. CardType' /\ CardInv' /\ Waiting' = Waiting /\ Answer' = Answer
      BY CardKept DEF T1Inv, TypeInv, CardType, card
    <2>2. HostType'
      <3>1. retries' \in 0 .. RetryMod - 1
        BY <2>0, DownIn DEF T1Inv, TypeInv, HostType
      <3>2. resyncs' \in 0 .. Resyncs
        BY <2>0, T1Assumption DEF T1Inv, TypeInv, HostType
      <3>. QED BY <2>0, <3>1, <3>2 DEF T1Inv, TypeInv, HostType, args
    <2>3. line'.k = "SReq" /\ pc' = "xcv"
      BY <2>0, Kinds
    <2>4. LineType'
      BY <2>0, <2>3 DEF T1Inv, TypeInv, LineType
    <2>5. FitInv'
      BY <2>0, <2>1, <2>3 DEF T1Inv, FitInv, Granting, BlocksFit, card
    <2>6. Resyncing'
      BY <2>0 DEF Resyncing
    <2>7. PhaseInv' /\ ResponseIntact' /\ ExactlyOnce'
      BY <2>0, <2>3, <2>6 DEF PhaseInv, IdleInv, RsyInv, XcvInv, ResponseIntact, ExactlyOnce
    <2>. QED BY <2>1, <2>2, <2>4, <2>5, <2>7 DEF T1Inv, TypeInv
  <1>. QED BY <1>1, <1>2

LEMMA CallKeeps ==
  ASSUME T1Inv, Call
  PROVE  T1Inv'
  <1>0. PICK n \in 0 .. MaxSnd, room \in RcvLens : t1_transceive(n, room)
    BY DEF Call
  <1>1. /\ pc = "idle" /\ state # "DEAD" /\ n > 0 /\ pc' = "xcv" /\ state' = "SENDING"
        /\ call' = Flip(call) /\ apdu' = Apdu(call', n) /\ SendI(apdu', ns)
        /\ rbuf' = <<>> /\ rcv_len' = room /\ sent_length' = 0
        /\ retries' = Down(Retries) /\ resyncs' = Resyncs /\ ret' = "none" /\ quiet' = TRUE
        /\ UNCHANGED <<nr, ifsc, mixed>>
    BY <1>0 DEF t1_transceive
  <1>2. runs' = <<>> /\ UNCHANGED <<faults, cns, cnr, cin, cout, clast, owed, limit, reqs>>
    BY DEF Call
  <1>3. HostType /\ CardType /\ CardInv /\ FitInv /\ AtRest
    BY <1>1 DEF T1Inv, TypeInv, PhaseInv, IdleInv
  <1>4. CardType' /\ CardInv' /\ Waiting' = Waiting /\ Answer' = Answer
    <2>1. runs' \in Seq(Seq(CmdByte))
      BY <1>2, EmptySeq
    <2>. QED BY <1>2, <1>3, <2>1, CardKept
  <1>5. apdu' \in Seq(CmdByte) /\ call' \in {0, 1}
    <2>1. call' \in {0, 1}
      BY <1>1, <1>3, FlipIn DEF HostType
    <2>2. n \in Nat /\ \A i \in 1 .. n : Byte("cmd", call', i) \in CmdByte
      BY <2>1, T1Assumption DEF CmdByte
    <2>3. apdu' = [i \in 1 .. n |-> Byte("cmd", call', i)]
      BY <1>1 DEF Apdu
    <2>. QED BY <2>1, <2>2, <2>3, IsASeq
  <1>6. /\ sbuf' = apdu' /\ ns' = ns /\ to' = "card" /\ line' = IBlock(ns, apdu', ifsc)
        /\ line' \in HostI /\ line'.k = "I" /\ Len(line'.d) <= ifsc
        /\ line' # NoBlock /\ last_send' = Len(line'.d) /\ last_send' \in 0 .. Len(apdu')
    <2>1. ns \in {0, 1} /\ ifsc \in Nat
      BY <1>3 DEF HostType
    <2>. QED BY <1>1, <1>5, <2>1, SendIs
  <1>7. HostType'
    <2>1. retries' \in 0 .. RetryMod - 1
      BY <1>1, DownIn, T1Assumption
    <2>2. resyncs' \in 0 .. Resyncs /\ rcv_len' \in Nat
      BY <1>1, T1Assumption
    <2>3. rbuf' \in Seq(RspByte) /\ Len(rbuf') = 0 /\ Len(apdu') \in Nat
      BY <1>1, <1>5, Empty
    <2>. QED BY <1>1, <1>3, <1>5, <1>6, <2>1, <2>2, <2>3 DEF HostType
  <1>8. LineType'
    BY <1>1, <1>2, <1>6 DEF T1Inv, TypeInv, LineType
  <1>9. FitInv'
    <2>1. BlocksFit'
      <3>1. Len(line'.d) \in Nat /\ ifsc \in Nat /\ limit \in Nat /\ ifsc <= limit
        BY <1>3, <1>6, Kinds, LenProperties DEF HostType, CardType, FitInv
      <3>. QED BY <1>2, <1>6, <3>1 DEF BlocksFit
    <2>. QED BY <1>1, <1>2, <1>3, <1>4, <1>6, <2>1 DEF FitInv, Granting
  <1>10. Unheard'
    <2>1. cin \o apdu' = apdu' /\ cin = <<>>
      BY <1>3, <1>5, Empty DEF AtRest
    <2>. QED BY <1>1, <1>2, <1>3, <1>4, <1>6, <2>1 DEF Unheard, AtRest
  <1>11. PhaseInv' /\ ResponseIntact' /\ ExactlyOnce'
    BY <1>1, <1>10 DEF PhaseInv, IdleInv, RsyInv, XcvInv, ResponseIntact, ExactlyOnce
  <1>. QED BY <1>4, <1>7, <1>8, <1>9, <1>11 DEF T1Inv, TypeInv

LEMMA RefusedKeeps ==
  ASSUME T1Inv, CallRefused
  PROVE  T1Inv'
  <1>1. /\ pc = "idle" /\ ret' = "error" /\ rbuf' = <<>> /\ runs' = <<>>
        /\ UNCHANGED <<line, to, pc, state, ns, nr, ifsc, sbuf, last_send, sent_length,
                       retries, resyncs, args, mixed, quiet>>
        /\ UNCHANGED <<faults, cns, cnr, cin, cout, clast, owed, limit, reqs>>
    BY DEF CallRefused, TransceiveRefused
  <1>2. CardType' /\ CardInv' /\ Waiting' = Waiting /\ Answer' = Answer
    <2>1. runs' \in Seq(Seq(CmdByte))
      BY <1>1, EmptySeq
    <2>. QED BY <1>1, <2>1, CardKept DEF T1Inv, TypeInv
  <1>3. HostType'
    <2>1. rbuf' \in Seq(RspByte) /\ Len(rbuf') = 0
      BY <1>1, Empty
    <2>. QED BY <1>1, <2>1 DEF T1Inv, TypeInv, HostType, args
  <1>4. LineType' /\ line = NoBlock
    BY <1>1, <1>2 DEF T1Inv, TypeInv, LineType
  <1>5. FitInv'
    BY <1>1, <1>2, <1>4, Kinds DEF T1Inv, FitInv, Granting, BlocksFit
  <1>6. IdleInv'
    BY <1>1, <1>2 DEF T1Inv, PhaseInv, IdleInv, AtRest
  <1>7. PhaseInv' /\ ResponseIntact' /\ ExactlyOnce'
    BY <1>1, <1>6 DEF PhaseInv, RsyInv, XcvInv, ResponseIntact, ExactlyOnce
  <1>. QED BY <1>2, <1>3, <1>4, <1>5, <1>7 DEF T1Inv, TypeInv

LEMMA CallResyncKeeps ==
  ASSUME T1Inv, CallResynchronize
  PROVE  T1Inv'
  <1>1. /\ pc = "idle" /\ pc' = "rsy" /\ ns' = 0 /\ nr' = 0 /\ retries' = 2
        /\ line' = ResyncReq /\ to' = "card" /\ ret' = "none" /\ rbuf' = <<>> /\ runs' = <<>>
        /\ UNCHANGED <<state, ifsc, sbuf, last_send, sent_length, resyncs, args, mixed, quiet>>
        /\ UNCHANGED <<faults, cns, cnr, cin, cout, clast, owed, limit, reqs>>
    BY DEF CallResynchronize, t1_resynchronize, Send, ResyncReq
  <1>2. CardType' /\ CardInv' /\ Waiting' = Waiting /\ Answer' = Answer
    <2>1. runs' \in Seq(Seq(CmdByte))
      BY <1>1, EmptySeq
    <2>. QED BY <1>1, <2>1, CardKept DEF T1Inv, TypeInv
  <1>3. HostType'
    <2>1. rbuf' \in Seq(RspByte) /\ Len(rbuf') = 0
      BY <1>1, Empty
    <2>2. retries' \in 0 .. RetryMod - 1
      BY <1>1, T1Assumption
    <2>. QED BY <1>1, <2>1, <2>2 DEF T1Inv, TypeInv, HostType, args
  <1>4. LineType' /\ line'.k = "SReq"
    BY <1>1, Kinds DEF T1Inv, TypeInv, LineType
  <1>5. FitInv'
    BY <1>1, <1>2, <1>4 DEF T1Inv, FitInv, Granting, BlocksFit
  <1>6. Resyncing'
    BY <1>1 DEF Resyncing
  <1>7. PhaseInv' /\ ResponseIntact' /\ ExactlyOnce'
    BY <1>1, <1>6 DEF PhaseInv, IdleInv, RsyInv, XcvInv, ResponseIntact, ExactlyOnce
  <1>. QED BY <1>2, <1>3, <1>4, <1>5, <1>7 DEF T1Inv, TypeInv

LEMMA ResetKeeps ==
  ASSUME T1Inv, Reset
  PROVE  T1Inv'
  <1>1. /\ pc = "idle" /\ state' = "SENDING" /\ ns' = 0 /\ nr' = 0 /\ ifsc' = Ifsc
        /\ rbuf' = <<>> /\ ret' = "none" /\ mixed' = FALSE /\ line' = NoBlock
        /\ UNCHANGED <<to, pc, sbuf, last_send, sent_length, retries, resyncs, args, quiet>>
        /\ cns' = 0 /\ cnr' = 0 /\ cin' = <<>> /\ cout' = <<>>
        /\ clast' = NoBlock /\ owed' = NoBlock /\ limit' = Ifsc /\ runs' = <<>>
        /\ UNCHANGED <<reqs, faults>>
    BY DEF Reset, NewProtocol, Silence, CardReset
  <1>2. ~ Waiting' /\ Answer' = NoBlock /\ line'.k = "none" /\ Answer'.k = "none" /\ clast'.k = "none"
    BY <1>1, Kinds DEF Waiting, Answer
  <1>3. CardType' /\ CardInv'
    <2>1. cin' \in Seq(CmdByte) /\ cout' \in Seq(RspByte) /\ runs' \in Seq(Seq(CmdByte))
      BY <1>1, EmptySeq
    <2>2. limit' \in Nat
      BY <1>1, T1Assumption
    <2>3. CardType'
      BY <1>1, <1>2, <2>1, <2>2 DEF T1Inv, TypeInv, CardType
    <2>4. CardInv'
      BY <1>1, <1>2 DEF CardInv
    <2>. QED BY <2>3, <2>4
  <1>4. HostType'
    <2>1. rbuf' \in Seq(RspByte) /\ Len(rbuf') = 0
      BY <1>1, Empty
    <2>2. ifsc' \in Nat \ {0}
      BY <1>1, T1Assumption
    <2>3. mixed' \in BOOLEAN
      BY <1>1
    <2>4. HostType /\ UNCHANGED <<pc, sbuf, last_send, sent_length, retries, resyncs, args, quiet>>
      BY <1>1 DEF T1Inv, TypeInv
    <2>5. state' = "SENDING" /\ ns' = 0 /\ nr' = 0 /\ ret' = "none"
      BY <1>1
    <2>. QED BY <2>1, <2>2, <2>3, <2>4, <2>5 DEF HostType, args
  <1>5. LineType'
    BY <1>1 DEF T1Inv, TypeInv, LineType
  <1>6. FitInv'
    BY <1>1, <1>2, T1Assumption DEF FitInv, Granting, BlocksFit
  <1>7. PhaseInv' /\ ResponseIntact' /\ ExactlyOnce'
    BY <1>1, <1>2 DEF PhaseInv, IdleInv, AtRest, RsyInv, XcvInv, ResponseIntact, ExactlyOnce
  <1>. QED BY <1>3, <1>4, <1>5, <1>6, <1>7 DEF T1Inv, TypeInv

LEMMA FaultKeeps ==
  ASSUME T1Inv, Fault
  PROVE  T1Inv'
  <1>1. /\ faults < MaxFaults /\ faults' = faults + 1 /\ line \notin {NoBlock, Bad}
        /\ line' \in {Bad, NoBlock} /\ UNCHANGED to
    BY DEF Fault, LineFault
  <1>2. UNCHANGED host /\ UNCHANGED card
    BY DEF Fault
  <1>3. CardType' /\ CardInv' /\ Waiting' = Waiting /\ Answer' = Answer
    BY <1>2, CardKept DEF T1Inv, TypeInv, CardType, card
  <1>4. HostType'
    BY <1>2 DEF T1Inv, TypeInv, HostType, host, args
  <1>5. line'.k \in {"bad", "none"} /\ pc # "idle" /\ to \in {"card", "host"}
    BY <1>1, Kinds DEF T1Inv, TypeInv, LineType
  <1>6. LineType'
    <2>1. faults' \in 0 .. MaxFaults
      BY <1>1, BlocksAssumption DEF T1Inv, TypeInv, LineType
    <2>. QED BY <1>1, <1>2, <1>5, <2>1 DEF T1Inv, TypeInv, LineType, host
  <1>7. FitInv'
    BY <1>2, <1>3, <1>5 DEF T1Inv, FitInv, Granting, BlocksFit, host, card
  <1>8. ASSUME line' # NoBlock PROVE /\ line' = Bad
                                     /\ Unheard => Unheard'
                                     /\ Acknowledged => Acknowledged'
                                     /\ Responding => Responding'
                                     /\ Confirmed => Confirmed'
                                     /\ Doomed => Doomed'
                                     /\ Resyncing => Resyncing'
    <2>1. line' = Bad
      BY <1>1, <1>8
    <2>2. Pending'
      BY <1>1, <1>5, <2>1 DEF Pending
    <2>3. Unheard => Unheard'
      BY <1>1, <1>2, <1>3, <2>1 DEF Unheard, host, card
    <2>4. Acknowledged => Acknowledged'
      BY <1>2, <1>3, <2>2 DEF Acknowledged, host, card
    <2>5. Responding => Responding'
      BY <1>2, <1>3, <2>2 DEF Responding, ToCome, host, card
    <2>6. Confirmed => Confirmed'
      BY <1>1, <1>2, <2>1 DEF Confirmed, ToCome, host, card
    <2>7. Doomed => Doomed'
      BY <1>1, <1>2, <1>5, <2>1 DEF Doomed, card
    <2>8. Resyncing => Resyncing'
      BY <1>1, <1>2, <1>5, <2>1 DEF Resyncing, card
    <2>. QED BY <2>1, <2>3, <2>4, <2>5, <2>6, <2>7, <2>8
  <1>9. PhaseInv'
    BY <1>1, <1>2, <1>5, <1>8 DEF T1Inv, PhaseInv, IdleInv, RsyInv, XcvInv, host
  <1>10. ResponseIntact' /\ ExactlyOnce'
    BY <1>2, <1>5 DEF ResponseIntact, ExactlyOnce, host
  <1>. QED BY <1>3, <1>4, <1>6, <1>7, <1>9, <1>10 DEF T1Inv, TypeInv

-----------------------------------------------------------------------------
(* The turns of t1_transceive() *)

(* what is taken in and can be read is what the card sent last *)
LEMMA Taken ==
  ASSUME T1Inv, NEW b, Take(b), b = line, b # Bad
  PROVE  /\ pc = "xcv" /\ to = "host" /\ line = clast /\ b = clast /\ line # NoBlock
         /\ state # "DEAD" /\ (state = "RESYNCH" => ~ quiet)
         /\ ~ (to = "card")
  BY DEF T1Inv, TypeInv, LineType, Take, Arrives, PhaseInv, XcvInv

LEMMA RSent ==
  ASSUME T1Inv, pc' = "xcv", nr' \in {0, 1}, NEW e \in {"ok", "edc", "other"},
         Send("card", RBlock(nr', e)), UNCHANGED <<faults, ifsc, card>>
  PROVE  /\ CardType' /\ CardInv' /\ LineType' /\ FitInv' /\ Pending'
         /\ Waiting' = Waiting /\ Answer' = Answer
         /\ to' = "card" /\ line'.k = "R" /\ line'.s = nr'
  <1>1. CardType' /\ CardInv' /\ Waiting' = Waiting /\ Answer' = Answer
    BY CardKept DEF T1Inv, TypeInv, CardType, card
  <1>2. to' = "card" /\ line' \in RBlocks /\ line'.s = nr'
    BY RFields DEF Send
  <1>3. line'.k = "R"
    BY <1>2, Kinds
  <1>4. LineType'
    BY <1>2 DEF T1Inv, TypeInv, LineType
  <1>5. FitInv'
    BY <1>1, <1>2, <1>3 DEF T1Inv, FitInv, Granting, BlocksFit, card
  <1>6. Pending'
    BY <1>2, <1>3 DEF Pending
  <1>. QED BY <1>1, <1>2, <1>3, <1>4, <1>5, <1>6

LEMMA ResyncTurn ==
  ASSUME T1Inv, pc = "xcv", UNCHANGED <<faults, card>>, Resync
  PROVE  T1Inv'
  <1>1. /\ sbuf \in Seq(CmdByte) /\ last_send \in 0 .. Len(sbuf)
        /\ sent_length \in Nat /\ sent_length + Len(sbuf) <= Len(apdu)
    BY DEF T1Inv, TypeInv, HostType
  <1>. QED BY <1>1, ResyncKeeps DEF Resync

LEMMA ChecksumKeeps ==
  ASSUME T1Inv, ChecksumFails, UNCHANGED <<faults, card>>
  PROVE  T1Inv'
  <1>0. pc = "xcv" /\ line = Bad /\ to = "host" /\ line # NoBlock
    BY DEF ChecksumFails, Take, Arrives
  <1>1. CASE Resync
    BY <1>0, <1>1, ResyncTurn
  <1>2. CASE ~ Resync
    <2>1. /\ Send("card", RBlock(nr, "edc")) /\ retries' = Down(retries)
          /\ UNCHANGED <<pc, state, ns, nr, ifsc, sbuf, rbuf, last_send, sent_length,
                         resyncs, ret, args, mixed, quiet>>
      BY <1>2 DEF ChecksumFails
    <2>2. HostType'
      <3>1. retries' \in 0 .. RetryMod - 1
        BY <2>1, DownIn DEF T1Inv, TypeInv, HostType
      <3>. QED BY <2>1, <3>1 DEF T1Inv, TypeInv, HostType, args
    <2>3. /\ CardType' /\ CardInv' /\ LineType' /\ FitInv' /\ Pending'
          /\ Waiting' = Waiting /\ Answer' = Answer
          /\ to' = "card" /\ line'.k = "R" /\ line'.s = nr'
      <3>1. pc' = "xcv" /\ nr' \in {0, 1} /\ Send("card", RBlock(nr', "edc"))
        BY <1>0, <2>1 DEF T1Inv, TypeInv, HostType
      <3>. QED BY <2>1, <3>1, RSent
    <2>4. Acknowledged => Acknowledged'
      BY <2>1, <2>3 DEF Acknowledged, args, card
    <2>5. Responding => Responding'
      BY <2>1, <2>3 DEF Responding, ToCome, args, card
    <2>6. Doomed => Doomed'
      BY <2>3 DEF Doomed, card
    <2>7. Resyncing => Resyncing'
      BY <1>0, <2>3 DEF Resyncing, card
    <2>8. ~ Unheard /\ ~ Confirmed
      BY <1>0 DEF Unheard, Confirmed
    <2>9. PhaseInv' /\ ResponseIntact' /\ ExactlyOnce'
      BY <1>0, <2>1, <2>4, <2>5, <2>6, <2>7, <2>8
         DEF T1Inv, PhaseInv, IdleInv, RsyInv, XcvInv, ResponseIntact, ExactlyOnce
    <2>. QED BY <2>2, <2>3, <2>9 DEF T1Inv, TypeInv
  <1>. QED BY <1>1, <1>2

(* Before a call has gone wrong no request is repeated while receiving. *)
LEMMA RReceivingKeeps ==
  ASSUME T1Inv, TakeRWhileReceiving(line), UNCHANGED <<faults, card>>
  PROVE  T1Inv'
  <1>1. /\ Take(line) /\ line.k = "R" /\ line.x = "ok" /\ state = "RECEIVING"
        /\ Send("card", RBlock(nr, "ok")) /\ retries' = Down(Retries)
        /\ UNCHANGED <<pc, state, ns, nr, ifsc, sbuf, rbuf, last_send, sent_length,
                       resyncs, ret, args, mixed, quiet>>
    BY DEF TakeRWhileReceiving
  <1>2. pc = "xcv" /\ to = "host" /\ line = clast /\ line # NoBlock /\ ~ (to = "card")
    BY <1>1, Kinds, Taken
  <1>3. HostType'
    <2>1. retries' \in 0 .. RetryMod - 1
      BY <1>1, DownIn, T1Assumption
    <2>. QED BY <1>1, <2>1 DEF T1Inv, TypeInv, HostType, args
  <1>4. CardType' /\ CardInv' /\ LineType' /\ FitInv'
    <2>1. pc' = "xcv" /\ nr' \in {0, 1} /\ Send("card", RBlock(nr', "ok"))
      BY <1>1, <1>2 DEF T1Inv, TypeInv, HostType
    <2>. QED BY <1>1, <2>1, RSent
  <1>5. ~ Responding /\ ~ Confirmed /\ ~ Doomed
    BY <1>1, <1>2 DEF Responding, Answer, Waiting, Confirmed, Doomed
  <1>6. PhaseInv' /\ ResponseIntact' /\ ExactlyOnce'
    BY <1>1, <1>2, <1>5 DEF T1Inv, PhaseInv, IdleInv, RsyInv, XcvInv, ResponseIntact, ExactlyOnce
  <1>. QED BY <1>3, <1>4, <1>6 DEF T1Inv, TypeInv

LEMMA TakeRKeeps ==
  ASSUME T1Inv, TakeR(line), UNCHANGED <<faults, card>>
  PROVE  T1Inv'
  <1> DEFINE acked == line.s # ns
             rest == IF acked THEN Drop(sbuf, last_send) ELSE sbuf
             sent == IF acked THEN sent_length + last_send ELSE sent_length
             n == IF acked THEN Flip(ns) ELSE ns
  <1>1. /\ Take(line) /\ line.k = "R" /\ line.x = "ok" /\ state # "RECEIVING"
        /\ \/ ResyncFrom(rest, 0, sent)
           \/ /\ SendI(rest, n) /\ sent_length' = sent /\ retries' = Down(Retries)
              /\ UNCHANGED <<pc, state, nr, ifsc, rbuf, resyncs, ret, args, mixed, quiet>>
    BY DEF TakeR
  <1>2. /\ pc = "xcv" /\ to = "host" /\ line = clast /\ line # NoBlock
        /\ state # "DEAD" /\ (state = "RESYNCH" => ~ quiet) /\ ~ (to = "card")
    BY <1>1, Kinds, Taken
  <1>3. HostType /\ CardType /\ CardInv /\ FitInv
    BY DEF T1Inv, TypeInv
  <1>4. /\ rest \in Seq(CmdByte) /\ sent \in Nat /\ sent + Len(rest) <= Len(apdu)
        /\ 0 \in 0 .. Len(rest) /\ n \in {0, 1} /\ ifsc \in Nat
    <2>1. /\ sbuf \in Seq(CmdByte) /\ last_send \in 0 .. Len(sbuf) /\ sent_length \in Nat
          /\ sent_length + Len(sbuf) <= Len(apdu) /\ ns \in {0, 1} /\ ifsc \in Nat
          /\ Len(sbuf) \in Nat /\ Len(apdu) \in Nat
      BY <1>3, LenProperties DEF HostType
    <2>2. Drop(sbuf, last_send) \in Seq(CmdByte)
          /\ Len(Drop(sbuf, last_send)) = Len(sbuf) - last_send
      BY <2>1, Split
    <2>3. n \in {0, 1}
      BY <2>1, FlipIn
    <2>. QED BY <2>1, <2>2, <2>3
  <1>5. CASE ResyncFrom(rest, 0, sent)
    <2> HIDE DEF rest, sent
    <2>. QED BY <1>2, <1>4, <1>5, ResyncKeeps
  <1>6. CASE /\ SendI(rest, n) /\ sent_length' = sent /\ retries' = Down(Retries)
             /\ UNCHANGED <<pc, state, nr, ifsc, rbuf, resyncs, ret, args, mixed, quiet>>
    <2> HIDE DEF acked, rest, sent, n
    <2>1. /\ sbuf' = rest /\ ns' = n /\ to' = "card" /\ line' = IBlock(n, rest, ifsc)
          /\ line' \in HostI /\ line'.k = "I" /\ Len(line'.d) <= ifsc
          /\ last_send' = Len(line'.d) /\ last_send' \in 0 .. Len(rest)
      BY <1>4, <1>6, SendIs
    <2>2. HostType'
      <3>1. retries' \in 0 .. RetryMod - 1
        BY <1>6, DownIn, T1Assumption
      <3>. QED BY <1>3, <1>4, <1>6, <2>1, <3>1 DEF HostType, args
    <2>3. CardType' /\ CardInv' /\ Waiting' = Waiting /\ Answer' = Answer
      BY <1>3, CardKept DEF CardType, card
    <2>4. LineType'
      BY <1>2, <1>6, <2>1 DEF T1Inv, TypeInv, LineType
    <2>5. FitInv'
      <3>1. Len(line'.d) \in Nat /\ ifsc \in Nat /\ limit \in Nat /\ ifsc <= limit
        BY <1>3, <2>1, Kinds, LenProperties DEF HostType, CardType, FitInv
      <3>2. BlocksFit'
        BY <2>1, <3>1 DEF BlocksFit, card
      <3>. QED BY <1>3, <1>6, <2>1, <2>3, <3>2 DEF FitInv, Granting, card
    <2>6. ~ Responding /\ ~ Unheard /\ ~ Doomed /\ ~ Resyncing
      BY <1>1, <1>2 DEF Responding, Answer, Waiting, Unheard, Doomed, Resyncing
    <2>7. ASSUME Acknowledged PROVE Unheard'
      <3>1. Answer = clast /\ ~ Waiting
        BY <1>1, <1>2 DEF Answer, Waiting
      <3>2. acked /\ n = cnr /\ rest = Drop(sbuf, last_send)
        <4>1. ns \in {0, 1} /\ cnr \in {0, 1}
          BY <1>3 DEF HostType, CardType
        <4>2. line.s = cnr /\ cnr # ns
          BY <1>2, <2>7, <3>1 DEF Acknowledged
        <4>. QED BY <4>1, <4>2, FlipIn DEF acked, n, rest
      <3>. QED BY <1>6, <2>1, <2>3, <2>7, <3>1, <3>2 DEF Unheard, Acknowledged, args, card
    <2>8. PhaseInv' /\ ResponseIntact' /\ ExactlyOnce'
      BY <1>1, <1>2, <1>6, <2>6, <2>7
         DEF T1Inv, PhaseInv, IdleInv, RsyInv, XcvInv, ResponseIntact, ExactlyOnce
    <2>. QED BY <2>2, <2>3, <2>4, <2>5, <2>8 DEF T1Inv, TypeInv
  <1>. QED BY <1>1, <1>5, <1>6

LEMMA AckIs ==
  ASSUME HostType, ImplicitAck
  PROVE  /\ state' = "RECEIVING" /\ sbuf' \in Seq(CmdByte) /\ last_send' \in 0 .. Len(sbuf')
         /\ Len(sbuf') <= Len(sbuf) /\ Len(sbuf') \in Nat /\ ns' \in {0, 1}
         /\ ns' = IF state = "SENDING" THEN Flip(ns) ELSE ns
  <1>1. sbuf \in Seq(CmdByte) /\ last_send \in 0 .. Len(sbuf) /\ ns \in {0, 1} /\ Len(sbuf) \in Nat
    BY LenProperties DEF HostType
  <1>2. /\ Drop(sbuf, last_send) \in Seq(CmdByte)
        /\ Len(Drop(sbuf, last_send)) = Len(sbuf) - last_send
    BY <1>1, Split
  <1>3. Flip(ns) \in {0, 1}
    BY <1>1, FlipIn
  <1>4. Len(sbuf) - last_send \in Nat /\ Len(sbuf) - last_send <= Len(sbuf)
        /\ 0 \in 0 .. Len(sbuf) - last_send
    BY <1>1
  <1>. QED BY <1>1, <1>2, <1>3, <1>4 DEF ImplicitAck

LEMMA UnexpectedIKeeps ==
  ASSUME T1Inv, TakeUnexpectedI(line), UNCHANGED <<faults, card>>
  PROVE  T1Inv'
  <1>1. /\ Take(line) /\ line.k = "I" /\ line.s # nr /\ ImplicitAck
        /\ Send("card", RBlock(nr, "other")) /\ retries' = Down(retries)
        /\ UNCHANGED <<pc, nr, ifsc, rbuf, sent_length, resyncs, ret, args, mixed, quiet>>
    BY DEF TakeUnexpectedI
  <1>2. /\ pc = "xcv" /\ to = "host" /\ line = clast /\ line # NoBlock /\ ~ (to = "card")
        /\ state # "DEAD" /\ (state = "RESYNCH" => ~ quiet)
    BY <1>1, Kinds, Taken
  <1>3. HostType
    BY DEF T1Inv, TypeInv
  <1>4. /\ state' = "RECEIVING" /\ sbuf' \in Seq(CmdByte) /\ last_send' \in 0 .. Len(sbuf')
        /\ Len(sbuf') <= Len(sbuf) /\ Len(sbuf') \in Nat /\ ns' \in {0, 1}
    BY <1>1, <1>3, AckIs
  <1>5. HostType'
    <2>1. retries' \in 0 .. RetryMod - 1
      BY <1>1, <1>3, DownIn DEF HostType
    <2>2. sent_length + Len(sbuf') <= Len(apdu)
      <3>1. Len(apdu) \in Nat /\ Len(sbuf) \in Nat /\ sent_length \in Nat
            /\ sent_length + Len(sbuf) <= Len(apdu)
        BY <1>3, LenProperties DEF HostType
      <3>. QED BY <1>4, <3>1
    <2>. QED BY <1>1, <1>3, <1>4, <2>1, <2>2 DEF HostType, args
  <1>6. CardType' /\ CardInv' /\ LineType' /\ FitInv' /\ Pending' /\ Answer' = Answer
    <2>1. pc' = "xcv" /\ nr' \in {0, 1} /\ Send("card", RBlock(nr', "other"))
      BY <1>1, <1>2, <1>3 DEF HostType
    <2>. QED BY <1>1, <2>1, RSent
  <1>7. Answer = clast /\ ~ Unheard /\ ~ Acknowledged /\ ~ Confirmed /\ ~ Doomed /\ ~ Resyncing
    BY <1>1, <1>2 DEF Answer, Waiting, Unheard, Acknowledged, Confirmed, Doomed, Resyncing
  <1>8. Responding => mixed /\ Responding'
    BY <1>1, <1>2, <1>4, <1>6, <1>7 DEF Responding, card, args
  <1>9. PhaseInv' /\ ResponseIntact' /\ ExactlyOnce'
    <2>1. quiet \/ ~ mixed => Responding
      BY <1>2, <1>7 DEF T1Inv, TypeInv, HostType, PhaseInv, XcvInv
    <2>. QED BY <1>1, <1>2, <1>4, <1>8, <2>1
             DEF PhaseInv, IdleInv, RsyInv, XcvInv, ResponseIntact, ExactlyOnce
  <1>. QED BY <1>5, <1>6, <1>9 DEF T1Inv, TypeInv

(* what the card has in hand when it sent an I block that is now taken in *)
LEMMA IBlockTaken ==
  ASSUME T1Inv, Take(line), line.k = "I"
  PROVE  /\ pc = "xcv" /\ to = "host" /\ line = clast /\ line # NoBlock
         /\ line.d \in Seq(RspByte) /\ line.x \in {"more", "last"} /\ line.s \in {0, 1}
         /\ Answer = clast /\ ~ Waiting /\ cin = <<>>
         /\ quiet \/ ~ mixed => Responding
  <1>1. /\ pc = "xcv" /\ to = "host" /\ line = clast /\ line # NoBlock /\ ~ (to = "card")
        /\ state # "DEAD" /\ (state = "RESYNCH" => ~ quiet)
    BY Kinds, Taken
  <1>2. clast \in CardI
    BY <1>1, LastBlock DEF T1Inv, TypeInv
  <1>3. line.d \in Seq(RspByte) /\ line.x \in {"more", "last"} /\ line.s \in {0, 1}
    BY <1>1, <1>2, Kinds
  <1>4. Answer = clast /\ ~ Waiting
    BY <1>1 DEF Answer, Waiting
  <1>5. cin = <<>>
    BY <1>1, <1>4 DEF T1Inv, CardInv
  <1>6. ~ Unheard /\ ~ Acknowledged /\ ~ Confirmed /\ ~ Doomed /\ ~ Resyncing
    BY <1>1, <1>4 DEF Unheard, Acknowledged, Confirmed, Doomed, Resyncing
  <1>7. quiet \/ ~ mixed => Responding
    BY <1>1, <1>6 DEF T1Inv, TypeInv, HostType, PhaseInv, XcvInv
  <1>. QED BY <1>1, <1>3, <1>4, <1>5, <1>7

(* the numbers and the data after a block was received *)
LEMMA Received ==
  ASSUME T1Inv, Take(line), line.k = "I", line.s = nr, ~ mixed,
         ns' = IF state = "SENDING" THEN Flip(ns) ELSE ns, nr' = Flip(nr),
         rbuf' = rbuf \o line.d
  PROVE  /\ ns' = cnr /\ nr' = cns /\ (line.x = "last" <=> cout = <<>>)
         /\ runs # <<>> /\ rbuf' \o cout = Response(runs[Len(runs)])
  <1>1. Responding /\ Answer = line /\ line.d \in Seq(RspByte)
    BY IBlockTaken
  <1>2. /\ ns \in {0, 1} /\ nr \in {0, 1} /\ cns \in {0, 1} /\ cnr \in {0, 1}
        /\ rbuf \in Seq(RspByte) /\ cout \in Seq(RspByte)
    BY DEF T1Inv, TypeInv, HostType, CardType
  <1>3. /\ IF state = "SENDING" THEN cnr # ns ELSE cnr = ns
        /\ cns # nr /\ (line.x = "last" <=> cout = <<>>)
        /\ runs # <<>> /\ rbuf \o (line.d \o cout) = Response(runs[Len(runs)])
    BY <1>1 DEF Responding, ToCome
  <1>4. ns' = cnr /\ nr' = cns
    BY <1>2, <1>3, FlipIn
  <1>5. rbuf' \o cout = rbuf \o (line.d \o cout)
    <2>1. (rbuf \o line.d) \o cout = rbuf \o (line.d \o cout)
      <3>1. rbuf \in Seq(RspByte) /\ line.d \in Seq(RspByte) /\ cout \in Seq(RspByte)
        BY <1>1, <1>2
      <3>2. \A a, b, c \in Seq(RspByte) : (a \o b) \o c = a \o (b \o c)
        BY ConcatAssociative
      <3>. QED BY <3>1, <3>2, Zenon
    <2>. QED BY <2>1
  <1>. QED BY <1>3, <1>4, <1>5

LEMMA MoreKeeps ==
  ASSUME T1Inv, TakeMoreI(line), UNCHANGED <<faults, card>>
  PROVE  T1Inv'
  <1>1. /\ Take(line) /\ line.k = "I" /\ line.s = nr /\ line.x = "more"
        /\ Len(rbuf) + Len(line.d) <= rcv_len /\ ImplicitAck
        /\ nr' = Flip(nr) /\ rbuf' = rbuf \o line.d
        /\ Send("card", RBlock(nr', "ok")) /\ retries' = Down(Retries)
        /\ UNCHANGED <<pc, ifsc, sent_length, resyncs, ret, args, mixed, quiet>>
    BY DEF TakeMoreI
  <1>2. /\ pc = "xcv" /\ to = "host" /\ line = clast /\ line # NoBlock /\ line.d \in Seq(RspByte)
        /\ Answer = clast /\ (quiet \/ ~ mixed => Responding)
    BY <1>1, IBlockTaken
  <1>3. HostType
    BY DEF T1Inv, TypeInv
  <1>4. /\ state' = "RECEIVING" /\ sbuf' \in Seq(CmdByte) /\ last_send' \in 0 .. Len(sbuf')
        /\ Len(sbuf') <= Len(sbuf) /\ Len(sbuf') \in Nat /\ ns' \in {0, 1}
        /\ ns' = IF state = "SENDING" THEN Flip(ns) ELSE ns
    BY <1>1, <1>3, AckIs
  <1>5. HostType' /\ nr' \in {0, 1}
    <2>1. retries' \in 0 .. RetryMod - 1
      BY <1>1, DownIn, T1Assumption
    <2>2. sent_length + Len(sbuf') <= Len(apdu)
      <3>1. Len(apdu) \in Nat /\ Len(sbuf) \in Nat /\ sent_length \in Nat
            /\ sent_length + Len(sbuf) <= Len(apdu)
        BY <1>3, LenProperties DEF HostType
      <3>. QED BY <1>4, <3>1
    <2>3. nr' \in {0, 1}
      BY <1>1, <1>3, FlipIn DEF HostType
    <2>4. rbuf' \in Seq(RspByte) /\ Len(rbuf') <= rcv_len
      <3>1. rbuf \in Seq(RspByte)
        BY <1>3 DEF HostType
      <3>2. rbuf \o line.d \in Seq(RspByte) /\ Len(rbuf \o line.d) = Len(rbuf) + Len(line.d)
        BY <1>2, <3>1, ConcatProperties
      <3>. QED BY <1>1, <3>2
    <2>. QED BY <1>1, <1>3, <1>4, <2>1, <2>2, <2>3, <2>4 DEF HostType, args
  <1>6. /\ CardType' /\ CardInv' /\ LineType' /\ FitInv' /\ to' = "card" /\ line'.k = "R"
        /\ line'.s = nr'
    BY <1>1, <1>2, <1>5, RSent
  <1>7. ~ mixed => ns' = cnr /\ nr' = cns /\ cout # <<>> /\ ToCome(cout)'
    <2>1. ~ mixed => /\ ns' = cnr /\ nr' = cns /\ (line.x = "last" <=> cout = <<>>)
                     /\ runs # <<>> /\ rbuf' \o cout = Response(runs[Len(runs)])
      BY <1>1, <1>4, Received
    <2>. QED BY <1>1, <2>1 DEF ToCome, card
  <1>8. quiet \/ ~ mixed => Confirmed'
    BY <1>1, <1>2, <1>4, <1>6, <1>7 DEF Confirmed, Responding, ToCome, args, card
  <1>9. PhaseInv' /\ ResponseIntact' /\ ExactlyOnce'
    BY <1>1, <1>2, <1>4, <1>8 DEF PhaseInv, IdleInv, RsyInv, XcvInv, ResponseIntact, ExactlyOnce
  <1>. QED BY <1>5, <1>6, <1>9 DEF T1Inv, TypeInv

(* the end of a call *)
LEMMA LastKeeps ==
  ASSUME T1Inv, TakeLastI(line), UNCHANGED <<faults, card>>
  PROVE  T1Inv'
  <1>1. /\ Take(line) /\ line.k = "I" /\ line.s = nr /\ line.x = "last"
        /\ Len(rbuf) + Len(line.d) <= rcv_len
        /\ state' = "RECEIVING" /\ ns' = IF state = "SENDING" THEN Flip(ns) ELSE ns
        /\ nr' = Flip(nr) /\ rbuf' = rbuf \o line.d
        /\ pc' = "idle" /\ ret' = "received"
        /\ sbuf' = <<>> /\ last_send' = 0 /\ sent_length' = 0 /\ retries' = 0 /\ resyncs' = 0
        /\ line' = NoBlock /\ UNCHANGED <<to, ifsc, args, mixed, quiet>>
    BY DEF TakeLastI, Return, Silence
  <1>2. /\ line = clast /\ line.d \in Seq(RspByte) /\ Answer = clast /\ ~ Waiting /\ cin = <<>>
        /\ (quiet \/ ~ mixed => Responding)
    BY <1>1, IBlockTaken
  <1>3. HostType
    BY DEF T1Inv, TypeInv
  <1>4. ns' \in {0, 1} /\ nr' \in {0, 1}
    BY <1>1, <1>3, FlipIn DEF HostType
  <1>5. rbuf' \in Seq(RspByte) /\ Len(rbuf') <= rcv_len
    <2>1. rbuf \in Seq(RspByte)
      BY <1>3 DEF HostType
    <2>2. rbuf \o line.d \in Seq(RspByte) /\ Len(rbuf \o line.d) = Len(rbuf) + Len(line.d)
      BY <1>2, <2>1, ConcatProperties
    <2>. QED BY <1>1, <2>2
  <1>6. HostType'
    <2>1. Len(apdu) \in Nat /\ <<>> \in Seq(CmdByte) /\ Len(<<>>) = 0
      BY <1>3, Empty DEF HostType
    <2>2. RetryMod - 1 \in Nat /\ Resyncs \in Nat
      BY T1Assumption
    <2>. QED BY <1>1, <1>3, <1>4, <1>5, <2>1, <2>2 DEF HostType, args
  <1>7. CardType' /\ CardInv' /\ Waiting' = Waiting /\ Answer' = Answer
    BY CardKept DEF T1Inv, TypeInv, CardType, card
  <1>8. LineType' /\ FitInv'
    <2>1. LineType'
      BY <1>1 DEF T1Inv, TypeInv, LineType
    <2>. QED BY <1>1, <1>7, <2>1, Kinds DEF T1Inv, FitInv, Granting, BlocksFit, card
  <1>9. ~ mixed => ns' = cnr /\ nr' = cns /\ runs # <<>> /\ rbuf' = Response(runs[Len(runs)])
    <2>1. ~ mixed => /\ ns' = cnr /\ nr' = cns /\ (line.x = "last" <=> cout = <<>>)
                     /\ runs # <<>> /\ rbuf' \o cout = Response(runs[Len(runs)])
      BY <1>1, Received
    <2>2. rbuf' \o <<>> = rbuf'
      BY <1>5, Empty
    <2>. QED BY <1>1, <2>1, <2>2
  <1>10. quiet => runs = <<apdu>>
    BY <1>2 DEF Responding
  <1>11. PhaseInv'
    BY <1>1, <1>2, <1>7, <1>9 DEF PhaseInv, IdleInv, AtRest, RsyInv, XcvInv, card
  <1>12. ResponseIntact' /\ ExactlyOnce'
    BY <1>1, <1>9, <1>10 DEF ResponseIntact, ExactlyOnce, card, args
  <1>. QED BY <1>6, <1>7, <1>8, <1>11, <1>12 DEF T1Inv, TypeInv

(* The numbers start again from 0 on both sides. *)
LEMMA ResynchronizedKeeps ==
  ASSUME T1Inv, Resynchronized(line), UNCHANGED <<faults, card>>
  PROVE  T1Inv'
  <1>1. /\ Take(line) /\ line.k = "SRsp" /\ state = "RESYNCH" /\ state' = "SENDING"
        /\ SendI(sbuf, ns) /\ rbuf' = <<>> /\ sent_length' = 0
        /\ retries' = Down(Retries) /\ resyncs' = Resyncs
        /\ UNCHANGED <<pc, nr, ifsc, ret, args, mixed, quiet>>
    BY DEF Resynchronized
  <1>2. /\ pc = "xcv" /\ to = "host" /\ line = clast /\ line # NoBlock /\ ~ quiet
    BY <1>1, Kinds, Taken
  <1>3. HostType /\ CardType /\ CardInv /\ FitInv
    BY DEF T1Inv, TypeInv
  <1>4. /\ sbuf' = sbuf /\ ns' = ns /\ to' = "card" /\ line' = IBlock(ns, sbuf, ifsc)
        /\ line' \in HostI /\ line'.k = "I" /\ Len(line'.d) <= ifsc
        /\ last_send' = Len(line'.d) /\ last_send' \in 0 .. Len(sbuf)
    <2>1. sbuf \in Seq(CmdByte) /\ ns \in {0, 1} /\ ifsc \in Nat
      BY <1>3 DEF HostType
    <2>. QED BY <1>1, <2>1, SendIs
  <1>5. HostType'
    <2>1. retries' \in 0 .. RetryMod - 1
      BY <1>1, DownIn, T1Assumption
    <2>2. resyncs' \in 0 .. Resyncs
      BY <1>1, T1Assumption
    <2>3. rbuf' \in Seq(RspByte) /\ Len(rbuf') = 0
      BY <1>1, Empty
    <2>4. Len(sbuf) \in Nat /\ Len(apdu) \in Nat /\ sent_length \in Nat
          /\ sent_length + Len(sbuf) <= Len(apdu)
      BY <1>3, LenProperties DEF HostType
    <2>5. 0 + Len(sbuf) <= Len(apdu)
      BY <2>4
    <2>. QED BY <1>1, <1>3, <1>4, <2>1, <2>2, <2>3, <2>5 DEF HostType, args
  <1>6. CardType' /\ CardInv' /\ Waiting' = Waiting /\ Answer' = Answer
    BY <1>3, CardKept DEF CardType, card
  <1>7. LineType'
    BY <1>1, <1>2, <1>4 DEF T1Inv, TypeInv, LineType
  <1>8. FitInv'
    <2>1. Len(line'.d) \in Nat /\ ifsc \in Nat /\ limit \in Nat /\ ifsc <= limit
      BY <1>3, <1>4, Kinds, LenProperties DEF HostType, CardType, FitInv
    <2>2. BlocksFit'
      BY <1>4, <2>1 DEF BlocksFit, card
    <2>. QED BY <1>1, <1>3, <1>4, <1>6, <2>2 DEF FitInv, Granting, card
  <1>9. ~ Waiting /\ cns = 0 /\ cnr = 0
    BY <1>1, <1>2, <1>3 DEF Waiting, CardInv
  <1>10. ~ mixed => ns = 0 /\ nr = 0
    BY <1>1, <1>2 DEF T1Inv, PhaseInv, XcvInv
  <1>11. Unheard'
    BY <1>1, <1>2, <1>4, <1>6, <1>9, <1>10 DEF Unheard, card
  <1>12. PhaseInv' /\ ResponseIntact' /\ ExactlyOnce'
    BY <1>1, <1>2, <1>11 DEF PhaseInv, IdleInv, RsyInv, XcvInv, ResponseIntact, ExactlyOnce
  <1>. QED BY <1>5, <1>6, <1>7, <1>8, <1>12 DEF T1Inv, TypeInv

(* A request of the card is granted: its answer is still to come. *)
LEMMA TakeSKeeps ==
  ASSUME T1Inv, TakeS(line), UNCHANGED <<faults, card>>
  PROVE  T1Inv'
  <1>1. /\ Take(line) /\ line.k = "SReq" /\ line.x \in {"abort", "ifs", "wtx"} /\ ~ ZeroIfs(line)
        /\ ifsc' = IF line.x = "ifs" THEN line.d[1][2] ELSE ifsc
        /\ Send("card", SResponse(line.x, line.d)) /\ retries' = Down(Retries)
        /\ quiet' = (quiet /\ line.x # "abort") /\ mixed' = (mixed \/ state = "RESYNCH")
        /\ UNCHANGED <<pc, state, ns, nr, sbuf, rbuf, last_send, sent_length, resyncs, ret, args>>
    BY DEF TakeS
  <1>2. /\ pc = "xcv" /\ to = "host" /\ line = clast /\ line # NoBlock
        /\ state # "DEAD" /\ (state = "RESYNCH" => ~ quiet)
    BY <1>1, Kinds, Taken
  <1>3. HostType /\ CardType /\ CardInv /\ FitInv
    BY DEF T1Inv, TypeInv
  <1>4. Waiting /\ clast \in SBlocks
    BY <1>1, <1>2, <1>3, LastBlock DEF Waiting
  <1>5. ifsc' \in Nat \ {0} /\ ifsc' <= limit
    <2>1. CASE line.x = "ifs"
      <3>1. clast.d[1][2] \in Nat /\ clast = SRequest("ifs", Param(clast.d[1][2]))
        BY <1>2, <1>4, <2>1, IfsAsked
      <3>2. clast.d = Param(clast.d[1][2])
        BY <3>1, IfsParam
      <3>3. clast.d[1][2] # 0
        BY <1>1, <1>2, <2>1, <3>2 DEF ZeroIfs
      <3>4. clast.d[1][2] <= limit
        BY <1>2, <1>3, <1>4, <2>1 DEF FitInv
      <3>. QED BY <1>1, <1>2, <2>1, <3>1, <3>3, <3>4
    <2>2. CASE line.x # "ifs"
      BY <1>1, <1>3, <2>2 DEF HostType, FitInv
    <2>. QED BY <2>1, <2>2
  <1>6. quiet' \in BOOLEAN /\ mixed' \in BOOLEAN /\ (quiet' => quiet) /\ (mixed => mixed')
        /\ (quiet' => line.x # "abort") /\ (state = "RESYNCH" => mixed' /\ ~ quiet')
        /\ (state # "RESYNCH" => mixed' = mixed)
    BY <1>1, <1>2, <1>3 DEF HostType
  <1>7. HostType'
    <2>1. retries' \in 0 .. RetryMod - 1
      BY <1>1, DownIn, T1Assumption
    <2>2. UNCHANGED <<pc, state, ns, nr, sbuf, rbuf, last_send, sent_length, resyncs, ret, args>>
      BY <1>1
    <2>. QED BY <1>3, <1>5, <1>6, <2>1, <2>2 DEF HostType, args
  <1>8. CardType' /\ CardInv' /\ Waiting' = Waiting /\ Answer' = Answer
    BY <1>3, CardKept DEF CardType, card
  <1>9. to' = "card" /\ line' = SResponse(clast.x, clast.d) /\ line'.k = "SRsp"
    BY <1>1, <1>2, Kinds DEF Send
  <1>10. LineType'
    BY <1>1, <1>2, <1>4, <1>8, <1>9 DEF T1Inv, TypeInv, LineType, card
  <1>11. Granting' /\ Pending'
    BY <1>9 DEF Granting, Pending
  <1>12. FitInv'
    BY <1>1, <1>2, <1>3, <1>5, <1>6, <1>8, <1>9 DEF FitInv, BlocksFit, card
  <1>13. ASSUME state # "RESYNCH"
         PROVE  /\ Acknowledged => Acknowledged'
                /\ Responding => Responding'
    <2>1. mixed' = mixed
      BY <1>6, <1>13
    <2>2. Acknowledged => Acknowledged'
      BY <1>1, <1>6, <1>8, <1>11, <2>1 DEF Acknowledged, args, card
    <2>3. Responding => Responding'
      BY <1>1, <1>6, <1>8, <1>11, <2>1 DEF Responding, ToCome, args, card
    <2>. QED BY <2>2, <2>3
  <1>14. ~ Unheard /\ ~ Confirmed /\ ~ Doomed
    BY <1>1, <1>2 DEF Unheard, Confirmed, Doomed
  <1>15. XcvInv'
    <2>1. CASE state = "RESYNCH"
      BY <1>1, <1>2, <1>6, <2>1 DEF XcvInv
    <2>2. CASE state # "RESYNCH"
      <3>1. quiet' \/ ~ mixed' => quiet \/ ~ mixed
        BY <1>6, <2>2
      <3>. QED BY <1>1, <1>2, <1>13, <1>14, <2>2, <3>1 DEF T1Inv, PhaseInv, XcvInv
    <2>. QED BY <2>1, <2>2
  <1>16. PhaseInv' /\ ResponseIntact' /\ ExactlyOnce'
    BY <1>1, <1>2, <1>15 DEF PhaseInv, IdleInv, RsyInv, ResponseIntact, ExactlyOnce
  <1>. QED BY <1>7, <1>8, <1>10, <1>12, <1>16 DEF T1Inv, TypeInv

LEMMA TransceiveKeeps ==
  ASSUME T1Inv, TransceiveStep, UNCHANGED <<faults, card>>
  PROVE  T1Inv'
  <1>1. CASE XcvFails
    BY <1>1, ErrorKeeps DEF XcvFails
  <1>2. CASE ChecksumFails
    BY <1>2, ChecksumKeeps
  <1>3. CASE TakeErrorR(line) \/ UnexpectedS(line)
    <2>1. pc = "xcv" /\ Resync
      BY <1>3 DEF TakeErrorR, UnexpectedS, Take
    <2>. QED BY <2>1, ResyncTurn
  <1>4. CASE TakeRWhileReceiving(line)
    BY <1>4, RReceivingKeeps
  <1>5. CASE TakeR(line)
    BY <1>5, TakeRKeeps
  <1>6. CASE TakeUnexpectedI(line)
    BY <1>6, UnexpectedIKeeps
  <1>7. CASE TakeMoreI(line)
    BY <1>7, MoreKeeps
  <1>8. CASE TakeLastI(line)
    BY <1>8, LastKeeps
  <1>9. CASE TakeTooMuch(line)
    BY <1>9, ErrorKeeps DEF TakeTooMuch
  <1>10. CASE Resynchronized(line)
    BY <1>10, ResynchronizedKeeps
  <1>11. CASE TakeS(line)
    BY <1>11, TakeSKeeps
  <1>. QED BY <1>1, <1>2, <1>3, <1>4, <1>5, <1>6, <1>7, <1>8, <1>9, <1>10, <1>11
           DEF TransceiveStep

-----------------------------------------------------------------------------
(* The turns of t1_resynchronize() *)

LEMMA ResynchronizeOkKeeps ==
  ASSUME T1Inv, ResynchronizeOk, UNCHANGED <<faults, card>>
  PROVE  T1Inv'
  <1>1. /\ pc = "rsy" /\ line = ResyncRsp /\ to = "host" /\ line # NoBlock
        /\ pc' = "idle" /\ ret' = "synced"
        /\ sbuf' = <<>> /\ last_send' = 0 /\ sent_length' = 0 /\ retries' = 0 /\ resyncs' = 0
        /\ line' = NoBlock /\ UNCHANGED <<to, state, ns, nr, rbuf, ifsc, args, mixed, quiet>>
    BY DEF ResynchronizeOk, Arrives, Return, Silence, ResyncRsp
  <1>2. clast = ResyncRsp /\ clast.k = "SRsp"
    BY <1>1, Kinds DEF T1Inv, TypeInv, LineType
  <1>3. ~ Waiting /\ cns = 0 /\ cnr = 0 /\ cin = <<>> /\ ns = 0 /\ nr = 0
    BY <1>1, <1>2 DEF Waiting, T1Inv, CardInv, PhaseInv, RsyInv
  <1>4. HostType'
    <2>1. Len(apdu) \in Nat /\ <<>> \in Seq(CmdByte) /\ Len(<<>>) = 0
      BY Empty DEF T1Inv, TypeInv, HostType
    <2>2. RetryMod - 1 \in Nat /\ Resyncs \in Nat
      BY T1Assumption
    <2>. QED BY <1>1, <2>1, <2>2 DEF T1Inv, TypeInv, HostType, args
  <1>5. CardType' /\ CardInv' /\ Waiting' = Waiting /\ Answer' = Answer
    BY CardKept DEF T1Inv, TypeInv, CardType, card
  <1>6. LineType'
    BY <1>1 DEF T1Inv, TypeInv, LineType
  <1>7. FitInv'
    BY <1>1, <1>5, Kinds DEF T1Inv, FitInv, Granting, BlocksFit, card
  <1>8. PhaseInv' /\ ResponseIntact' /\ ExactlyOnce'
    BY <1>1, <1>3, <1>5
       DEF PhaseInv, IdleInv, AtRest, RsyInv, XcvInv, ResponseIntact, ExactlyOnce, card
  <1>. QED BY <1>4, <1>5, <1>6, <1>7, <1>8 DEF T1Inv, TypeInv

LEMMA ResynchronizeAgainKeeps ==
  ASSUME T1Inv, ResynchronizeAgain, UNCHANGED <<faults, card>>
  PROVE  T1Inv'
  <1>1. CASE Error
    BY <1>1, ErrorKeeps
  <1>2. CASE ~ Error
    <2>1. /\ pc = "rsy" /\ retries > 0 /\ retries' = retries - 1 /\ ns' = 0 /\ nr' = 0
          /\ line' = ResyncReq /\ to' = "card"
          /\ UNCHANGED <<pc, state, ifsc, sbuf, rbuf, last_send, sent_length, resyncs,
                         ret, args, mixed, quiet>>
      BY <1>2 DEF ResynchronizeAgain, Send, ResyncReq
    <2>2. CardType' /\ CardInv' /\ Waiting' = Waiting /\ Answer' = Answer
      BY CardKept DEF T1Inv, TypeInv, CardType, card
    <2>3. HostType'
      <3>1. retries' \in 0 .. RetryMod - 1
        BY <2>1, T1Assumption DEF T1Inv, TypeInv, HostType
      <3>. QED BY <2>1, <3>1 DEF T1Inv, TypeInv, HostType, args
    <2>4. LineType' /\ line'.k = "SReq"
      BY <2>1, Kinds DEF T1Inv, TypeInv, LineType
    <2>5. FitInv'
      BY <2>1, <2>2, <2>4 DEF T1Inv, FitInv, Granting, BlocksFit, card
    <2>6. Resyncing'
      BY <2>1 DEF Resyncing
    <2>7. PhaseInv' /\ ResponseIntact' /\ ExactlyOnce'
      BY <2>1, <2>6 DEF PhaseInv, IdleInv, RsyInv, XcvInv, ResponseIntact, ExactlyOnce
    <2>. QED BY <2>2, <2>3, <2>4, <2>5, <2>7 DEF T1Inv, TypeInv
  <1>. QED BY <1>1, <1>2

LEMMA ReaderKeeps ==
  ASSUME T1Inv, Reader
  PROVE  T1Inv'
  <1>1. CASE TransceiveStep
    BY <1>1, TransceiveKeeps DEF Reader
  <1>2. CASE ResynchronizeOk
    BY <1>2, ResynchronizeOkKeeps DEF Reader
  <1>3. CASE ResynchronizeFails
    BY <1>3, ErrorKeeps DEF Reader, ResynchronizeFails
  <1>4. CASE ResynchronizeAgain
    BY <1>4, ResynchronizeAgainKeeps DEF Reader
  <1>. QED BY <1>1, <1>2, <1>3, <1>4 DEF Reader, ResynchronizeStep

-----------------------------------------------------------------------------
(* The card *)

LEMMA SayKeeps ==
  ASSUME T1Inv, UNCHANGED <<faults, host>>, line # NoBlock,
         NEW b \in CardI \cup RBlocks, Say(b), cns' \in {0, 1}, cnr' \in {0, 1},
         cin' \in Seq(CmdByte), cout' \in Seq(RspByte), runs' \in Seq(Seq(CmdByte)),
         b.k = "I" => cin' = <<>>
  PROVE  /\ TypeInv' /\ FitInv' /\ CardInv' /\ Pending' /\ Answer' = b
         /\ to' = "host" /\ line' = clast' /\ pc # "idle"
         /\ b.x \in {"edc", "other"} => clast' = b /\ ~ Waiting'
  <1>1. /\ to' = "host" /\ line' = clast' /\ clast' # NoBlock /\ clast' # Bad
        /\ \/ /\ clast' = b /\ owed' = NoBlock /\ UNCHANGED <<limit, reqs>>
           \/ /\ clast' \in SBlocks /\ owed' = b /\ b.x \notin {"edc", "other"}
              /\ limit' \in Nat /\ limit' >= limit /\ reqs' \in Nat
              /\ clast'.x = "ifs" => clast'.d[1][2] <= limit'
    BY SayIs DEF T1Inv, TypeInv
  <1>2. Answer' = b /\ (b.x \in {"edc", "other"} => ~ Waiting' /\ clast' = b)
    BY SaidAnswer DEF T1Inv, TypeInv
  <1>3. pc # "idle"
    BY DEF T1Inv, TypeInv, LineType
  <1>4. b.k \in {"I", "R"} /\ \A c \in SBlocks : c.k = "SReq"
    BY Kinds
  <1>5. CardType'
    <2>1. limit' \in Nat /\ reqs' \in Nat
      BY <1>1 DEF T1Inv, TypeInv, CardType
    <2>2. clast' \in CardI \cup RBlocks \cup SBlocks \cup {ResyncRsp, NoBlock}
      BY <1>1
    <2>3. Waiting' => owed' \in CardI \cup RBlocks /\ owed'.x \notin {"edc", "other"}
      BY <1>1, <1>4 DEF Waiting
    <2>. QED BY <2>1, <2>2, <2>3 DEF CardType
  <1>6. TypeInv'
    <2>1. HostType'
      BY DEF T1Inv, TypeInv, HostType, host
    <2>2. LineType'
      BY <1>1, <1>3 DEF T1Inv, TypeInv, LineType, host
    <2>. QED BY <1>5, <2>1, <2>2 DEF TypeInv
  <1>7. FitInv'
    <2>1. ifsc' <= limit'
      <3>1. ifsc' = ifsc /\ ifsc \in Nat /\ limit \in Nat /\ ifsc <= limit
        BY DEF T1Inv, TypeInv, HostType, CardType, FitInv, host
      <3>. QED BY <1>1, <3>1
    <2>2. Waiting' /\ clast'.x = "ifs" => clast'.d[1][2] <= limit'
      BY <1>1, <1>4 DEF Waiting
    <2>. QED BY <1>1, <2>1, <2>2 DEF FitInv, Granting, BlocksFit
  <1>8. CardInv'
    <2>1. clast'.k # "SRsp"
      BY <1>1, <1>4
    <2>. QED BY <1>1, <1>2, <2>1 DEF CardInv
  <1>9. Pending'
    BY <1>1 DEF Pending
  <1>. QED BY <1>1, <1>2, <1>3, <1>6, <1>7, <1>8, <1>9

LEMMA RepeatKeeps ==
  ASSUME T1Inv, UNCHANGED <<faults, host>>, line # NoBlock, clast # NoBlock, Repeat
  PROVE  /\ TypeInv' /\ FitInv' /\ CardInv' /\ Pending' /\ Answer' = Answer
         /\ to' = "host" /\ line' = clast /\ UNCHANGED card /\ pc # "idle"
  <1>1. to' = "host" /\ line' = clast /\ UNCHANGED card
    BY DEF Repeat, Send, card
  <1>2. CardType' /\ CardInv' /\ Waiting' = Waiting /\ Answer' = Answer
    BY <1>1, CardKept DEF T1Inv, TypeInv, CardType, card
  <1>3. pc # "idle"
    BY DEF T1Inv, TypeInv, LineType
  <1>4. TypeInv'
    <2>1. HostType'
      BY DEF T1Inv, TypeInv, HostType, host
    <2>2. LineType'
      BY <1>1, <1>3 DEF T1Inv, TypeInv, LineType, host, card
    <2>. QED BY <1>2, <2>1, <2>2 DEF TypeInv
  <1>5. FitInv'
    BY <1>1, <1>2 DEF T1Inv, FitInv, Granting, BlocksFit, host, card
  <1>6. Pending'
    BY <1>1 DEF Pending, card
  <1>. QED BY <1>1, <1>2, <1>3, <1>4, <1>5, <1>6

(* The host's part of the invariant after a step of the card *)
LEMMA CardPhases ==
  ASSUME T1Inv, UNCHANGED host, pc # "idle", line # NoBlock, TypeInv', FitInv', CardInv',
         pc = "rsy" \/ state = "RESYNCH" => (Resyncing => Resyncing'),
         pc = "xcv" /\ state = "SENDING" /\ (Unheard \/ Acknowledged \/ Responding \/ Doomed) =>
             (Unheard \/ Acknowledged \/ Responding \/ Doomed)',
         pc = "xcv" /\ state = "RECEIVING" /\ (Responding \/ Confirmed \/ Doomed) =>
             (Responding \/ Confirmed \/ Doomed)'
  PROVE  T1Inv'
  <1>1. PhaseInv' /\ ResponseIntact' /\ ExactlyOnce'
    BY DEF T1Inv, PhaseInv, IdleInv, RsyInv, XcvInv, ResponseIntact, ExactlyOnce, host
  <1>. QED BY <1>1 DEF T1Inv

(* an error is reported *)
LEMMA ErrorSaid ==
  ASSUME T1Inv, UNCHANGED <<faults, host>>, line # NoBlock, NEW e \in {"edc", "other"},
         Say(RBlock(cnr, e)), UNCHANGED <<cns, cnr, cin, cout, runs>>
  PROVE  /\ TypeInv' /\ FitInv' /\ CardInv' /\ pc # "idle" /\ Doomed'
         /\ e = "edc" => Resyncing'
  <1>1. cnr \in {0, 1} /\ CardType
    BY DEF T1Inv, TypeInv, CardType
  <1>2. RBlock(cnr, e) \in RBlocks /\ RBlock(cnr, e).x = e /\ RBlock(cnr, e).k = "R"
    BY <1>1, RFields, Kinds
  <1>3. /\ TypeInv' /\ FitInv' /\ CardInv' /\ to' = "host" /\ line' = clast' /\ pc # "idle"
        /\ clast' = RBlock(cnr, e)
    BY <1>1, <1>2, SayKeeps DEF CardType
  <1>. QED BY <1>2, <1>3 DEF Doomed, Resyncing

LEMMA CardBadKeeps ==
  ASSUME T1Inv, CardBad, UNCHANGED <<faults, host>>
  PROVE  T1Inv'
  <1>0. line = Bad /\ to = "card" /\ line # NoBlock
    BY DEF CardBad, Arrives
  <1>1. CASE Waiting /\ Repeat
    <2>1. clast # NoBlock /\ clast.k = "SReq"
      BY <1>1, Kinds DEF Waiting
    <2>2. /\ TypeInv' /\ FitInv' /\ CardInv' /\ Pending' /\ Answer' = Answer
          /\ to' = "host" /\ line' = clast /\ UNCHANGED card /\ pc # "idle"
      BY <1>0, <1>1, <2>1, RepeatKeeps
    <2>3. ~ Unheard /\ ~ Confirmed /\ ~ Doomed
      BY <1>1, <2>1 DEF Unheard, Confirmed, Doomed
    <2>4. Acknowledged => Acknowledged'
      BY <2>2 DEF Acknowledged, host, card
    <2>5. Responding => Responding'
      BY <2>2 DEF Responding, ToCome, host, card
    <2>6. Resyncing'
      BY <2>1, <2>2 DEF Resyncing, card
    <2>. QED BY <1>0, <2>2, <2>3, <2>4, <2>5, <2>6, CardPhases
  <1>2. CASE Say(RBlock(cnr, "edc")) /\ UNCHANGED <<cns, cnr, cin, cout, runs>>
    <2>1. TypeInv' /\ FitInv' /\ CardInv' /\ pc # "idle" /\ Doomed' /\ Resyncing'
      BY <1>0, <1>2, ErrorSaid
    <2>. QED BY <1>0, <2>1, CardPhases
  <1>. QED BY <1>1, <1>2 DEF CardBad

(* An I block reaches the card only as the last one sent. *)
LEMMA IOnLine ==
  ASSUME T1Inv, to = "card", line.k = "I"
  PROVE  /\ ~ Acknowledged /\ ~ Responding /\ ~ Confirmed /\ ~ Doomed /\ ~ Resyncing
         /\ line # NoBlock
         /\ line.d \in Seq(CmdByte) /\ line.s \in {0, 1}
         /\ Unheard => line = IBlock(ns, sbuf, ifsc)
  <1>1. line # Bad /\ line # NoBlock /\ line # ResyncReq
    BY Kinds
  <1>2. line \in HostI
    BY <1>1, Kinds DEF T1Inv, TypeInv, LineType
  <1>3. line.d \in Seq(CmdByte) /\ line.s \in {0, 1}
    BY <1>2, Kinds
  <1>4. ~ Pending
    BY <1>1 DEF Pending, Granting
  <1>5. ~ Acknowledged /\ ~ Responding /\ ~ Confirmed /\ ~ Doomed /\ ~ Resyncing
    BY <1>1, <1>4 DEF Acknowledged, Responding, Confirmed, Doomed, Resyncing
  <1>. QED BY <1>1, <1>3, <1>5 DEF Unheard

LEMMA WrongIKeeps ==
  ASSUME T1Inv, CardWrongI(line), UNCHANGED <<faults, host>>
  PROVE  T1Inv'
  <1>1. /\ to = "card" /\ line.k = "I" /\ Say(RBlock(cnr, "other"))
        /\ UNCHANGED <<cns, cnr, cin, cout, runs>>
    BY DEF CardWrongI, Arrives
  <1>2. line # NoBlock /\ ~ Resyncing
    BY <1>1, IOnLine
  <1>3. TypeInv' /\ FitInv' /\ CardInv' /\ pc # "idle" /\ Doomed'
    BY <1>1, <1>2, ErrorSaid
  <1>. QED BY <1>2, <1>3, CardPhases

LEMMA ChainKeeps ==
  ASSUME T1Inv, CardChain(line), UNCHANGED <<faults, host>>
  PROVE  T1Inv'
  <1>1. /\ to = "card" /\ ~ Waiting /\ line.k = "I" /\ line.s = cnr /\ line.x = "more"
        /\ cnr' = Flip(cnr) /\ cin' = cin \o line.d /\ cout' = <<>>
        /\ Say(RBlock(cnr', "ok")) /\ UNCHANGED <<cns, runs>>
    BY DEF CardChain, Arrives
  <1>2. /\ ~ Acknowledged /\ ~ Responding /\ ~ Confirmed /\ ~ Doomed /\ ~ Resyncing
        /\ line # NoBlock /\ line.d \in Seq(CmdByte)
        /\ Unheard => line = IBlock(ns, sbuf, ifsc)
    BY <1>1, IOnLine
  <1>3. HostType /\ CardType
    BY DEF T1Inv, TypeInv
  <1>4. cnr \in {0, 1} /\ cnr' \in {0, 1} /\ cnr' # cnr /\ cns' \in {0, 1}
        /\ cin \in Seq(CmdByte) /\ runs' \in Seq(Seq(CmdByte))
    BY <1>1, <1>3, FlipIn DEF CardType
  <1>5. cin' \in Seq(CmdByte) /\ cout' \in Seq(RspByte)
    BY <1>1, <1>2, <1>4, ConcatProperties, EmptySeq
  <1> DEFINE b == RBlock(cnr', "ok")
  <1>6. b \in RBlocks /\ b.s = cnr' /\ b.x = "ok" /\ b.k = "R"
    BY <1>4, RFields, Kinds
  <1> HIDE DEF b
  <1>7. /\ TypeInv' /\ FitInv' /\ CardInv' /\ Pending' /\ Answer' = b /\ pc # "idle"
    <2>1. Say(b)
      BY <1>1 DEF b
    <2>. QED BY <1>2, <1>4, <1>5, <1>6, <2>1, SayKeeps
  <1>8. ASSUME Unheard PROVE Acknowledged'
    <2>1. /\ ns \in {0, 1} /\ sbuf \in Seq(CmdByte) /\ ifsc \in Nat
      BY <1>3 DEF HostType
    <2>2. line = IBlock(ns, sbuf, ifsc) /\ last_send = Len(line.d)
      BY <1>2, <1>8 DEF Unheard
    <2>3. line.s = ns /\ line.d \o Drop(sbuf, last_send) = sbuf
      BY <2>1, <2>2, HostIs
    <2>4. Drop(sbuf, last_send) \in Seq(CmdByte)
      BY <1>3, Split DEF HostType
    <2>5. cin' \o Drop(sbuf, last_send) = cin \o sbuf
      <3>1. \A x, y, z \in Seq(CmdByte) : (x \o y) \o z = x \o (y \o z)
        BY ConcatAssociative
      <3>2. (cin \o line.d) \o Drop(sbuf, last_send) = cin \o (line.d \o Drop(sbuf, last_send))
        BY <1>2, <1>4, <2>4, <3>1, Zenon
      <3>. QED BY <1>1, <2>3, <3>2
    <2>6. cnr' # ns
      BY <1>1, <1>4, <2>3
    <2>. QED BY <1>1, <1>6, <1>7, <1>8, <2>5, <2>6 DEF Unheard, Acknowledged, host
  <1>. QED BY <1>2, <1>7, <1>8, CardPhases

(* a block of a response is sent *)
LEMMA ChunkSaid ==
  ASSUME T1Inv, UNCHANGED <<faults, host>>, line # NoBlock,
         NEW rsp \in Seq(RspByte), SayChunk(rsp, cns),
         cnr' \in {0, 1}, cin' = <<>>, runs' \in Seq(Seq(CmdByte))
  PROVE  /\ TypeInv' /\ FitInv' /\ CardInv' /\ Pending' /\ pc # "idle"
         /\ Answer'.k = "I" /\ Answer'.s = cns /\ cns' = Flip(cns) /\ cns' # cns
         /\ Answer'.x = "last" <=> cout' = <<>>
         /\ Answer'.d \o cout' = rsp
  <1>1. /\ cns' = Flip(cns) /\ cout' = SubSeq(rsp, Ifsd + 1, Len(rsp))
        /\ Say(IBlock(cns, rsp, Ifsd))
    BY DEF SayChunk
  <1>2. cns \in {0, 1} /\ Ifsd \in Nat
    BY CardAssumption DEF T1Inv, TypeInv, CardType
  <1> DEFINE b == IBlock(cns, rsp, Ifsd)
  <1>3. b \in CardI /\ b.k = "I" /\ b.s = cns
    BY <1>2, CardIs
  <1>4. /\ cout' \in Seq(RspByte) /\ b.d \o cout' = rsp
        /\ b.x = "last" <=> cout' = <<>>
    <2>1. /\ SubSeq(rsp, Ifsd + 1, Len(rsp)) \in Seq(RspByte)
          /\ b.d \o SubSeq(rsp, Ifsd + 1, Len(rsp)) = rsp
          /\ b.x = "last" <=> SubSeq(rsp, Ifsd + 1, Len(rsp)) = <<>>
      BY <1>2, Chunk
    <2> HIDE DEF b
    <2>. QED BY <1>1, <2>1
  <1>5. cns' \in {0, 1} /\ cns' # cns /\ cin' \in Seq(CmdByte)
    BY <1>1, <1>2, FlipIn, EmptySeq
  <1>6. TypeInv' /\ FitInv' /\ CardInv' /\ Pending' /\ Answer' = b /\ pc # "idle"
    <2>1. Say(b)
      BY <1>1
    <2> HIDE DEF b
    <2>. QED BY <1>3, <1>4, <1>5, <2>1, SayKeeps
  <1> HIDE DEF b
  <1>. QED BY <1>1, <1>3, <1>4, <1>5, <1>6

LEMMA ExecuteKeeps ==
  ASSUME T1Inv, CardExecute(line), UNCHANGED <<faults, host>>
  PROVE  T1Inv'
  <1> DEFINE cmd == cin \o line.d
  <1>1. /\ to = "card" /\ ~ Waiting /\ line.k = "I" /\ line.s = cnr /\ line.x = "last"
        /\ cnr' = Flip(cnr) /\ cin' = <<>> /\ runs' = Append(runs, cmd)
        /\ SayChunk(Response(cmd), cns)
    BY DEF CardExecute, Arrives
  <1>2. /\ ~ Acknowledged /\ ~ Responding /\ ~ Confirmed /\ ~ Doomed /\ ~ Resyncing
        /\ line # NoBlock /\ line.d \in Seq(CmdByte)
        /\ Unheard => line = IBlock(ns, sbuf, ifsc)
    BY <1>1, IOnLine
  <1>3. HostType /\ CardType
    BY DEF T1Inv, TypeInv
  <1>4. cmd \in Seq(CmdByte)
    BY <1>2, <1>3, ConcatProperties DEF CardType
  <1>5. Response(cmd) \in Seq(RspByte)
    BY <1>4, ResponseIs
  <1> HIDE DEF cmd
  <1>6. cnr' \in {0, 1} /\ cnr' # cnr
    BY <1>1, <1>3, FlipIn DEF CardType
  <1>7. /\ runs' \in Seq(Seq(CmdByte)) /\ runs' # <<>> /\ runs'[Len(runs')] = cmd
        /\ runs = <<>> => runs' = <<cmd>>
    <2>1. runs \in Seq(Seq(CmdByte))
      BY <1>3 DEF CardType
    <2>2. /\ Append(runs, cmd) \in Seq(Seq(CmdByte)) /\ Append(runs, cmd) # <<>>
          /\ Len(Append(runs, cmd)) = Len(runs) + 1
          /\ Append(runs, cmd)[Len(runs) + 1] = cmd
      BY <1>4, <2>1, AppendProperties
    <2>3. runs = <<>> => Append(runs, cmd) = <<cmd>>
      OBVIOUS
    <2>. QED BY <1>1, <2>2, <2>3
  <1>8. /\ TypeInv' /\ FitInv' /\ CardInv' /\ Pending' /\ pc # "idle"
        /\ Answer'.k = "I" /\ Answer'.s = cns /\ cns' # cns
        /\ Answer'.x = "last" <=> cout' = <<>>
        /\ Answer'.d \o cout' = Response(cmd)
    BY <1>1, <1>2, <1>5, <1>6, <1>7, ChunkSaid
  <1>9. ASSUME Unheard, state = "SENDING" PROVE Responding'
    <2>1. line = IBlock(ns, sbuf, ifsc) /\ rbuf = <<>>
      BY <1>2, <1>9 DEF Unheard
    <2>2. line.s = ns /\ line.d = sbuf
      <3>1. ns \in {0, 1} /\ sbuf \in Seq(CmdByte) /\ ifsc \in Nat
        BY <1>3 DEF HostType
      <3>. QED BY <1>1, <2>1, <3>1, HostIs
    <2>3. quiet => runs' = <<apdu>>
      BY <1>7, <1>9, <2>2 DEF Unheard, cmd
    <2>4. ToCome(Answer.d \o cout)'
      <3>1. <<>> \o Response(cmd) = Response(cmd)
        BY <1>5, Empty
      <3>2. rbuf' = <<>>
        BY <2>1 DEF host
      <3>. QED BY <1>7, <1>8, <3>1, <3>2 DEF ToCome
    <2>6. ~ mixed => cnr' # ns /\ cns' # nr /\ Answer'.s = nr
      BY <1>1, <1>6, <1>8, <1>9, <2>2 DEF Unheard
    <2>. QED BY <1>8, <1>9, <2>1, <2>3, <2>4, <2>6 DEF Responding, host
  <1>. QED BY <1>2, <1>8, <1>9, CardPhases

(* the next block of a response, when the last one was confirmed *)
LEMMA NextKeeps ==
  ASSUME T1Inv, CardNext(line), UNCHANGED <<faults, host>>
  PROVE  T1Inv'
  <1>1. /\ to = "card" /\ line # NoBlock /\ ~ Waiting /\ line.k = "R" /\ clast.k = "I"
        /\ line.s = cns /\ cout # <<>> /\ SayChunk(cout, cns) /\ UNCHANGED <<cnr, cin, runs>>
    BY DEF CardNext, Arrives
  <1>2. Answer = clast /\ cin = <<>>
    BY <1>1 DEF Answer, T1Inv, CardInv
  <1>3. /\ TypeInv' /\ FitInv' /\ CardInv' /\ Pending' /\ pc # "idle"
        /\ Answer'.k = "I" /\ Answer'.s = cns /\ cns' # cns
        /\ Answer'.x = "last" <=> cout' = <<>>
        /\ Answer'.d \o cout' = cout
    <2>1. cout \in Seq(RspByte) /\ cnr' \in {0, 1} /\ cin' = <<>> /\ runs' \in Seq(Seq(CmdByte))
      BY <1>1, <1>2 DEF T1Inv, TypeInv, CardType
    <2>. QED BY <1>1, <2>1, ChunkSaid
  <1>4. line # Bad /\ line # ResyncReq
    BY <1>1, Kinds
  <1>5. ~ Unheard /\ ~ Acknowledged /\ ~ Doomed /\ ~ Resyncing
    <2>1. ~ Unheard
      <3>1. IBlock(ns, sbuf, ifsc).k = "I"
        BY DEF IBlock
      <3>. QED BY <1>1, <1>4, <3>1 DEF Unheard
    <2>. QED BY <1>1, <1>2, <1>4, <2>1 DEF Acknowledged, Doomed, Resyncing
  <1>6. Responding => Responding'
    <2>1. Responding => mixed
      BY <1>1, <1>2, <1>4 DEF Responding, Pending, Granting
    <2>. QED BY <1>1, <1>2, <1>3, <2>1 DEF Responding, host
  <1>7. ASSUME Confirmed PROVE Responding'
    <2>1. state = "RECEIVING" /\ state # "SENDING"
      BY <1>7 DEF Confirmed
    <2>2. ~ mixed => cnr = ns /\ cns' # nr /\ Answer'.s = nr /\ ToCome(cout)
      BY <1>3, <1>7 DEF Confirmed
    <2>3. ToCome(cout) => ToCome(Answer.d \o cout)'
      BY <1>1, <1>3 DEF ToCome, host
    <2>. QED BY <1>1, <1>3, <1>7, <2>1, <2>2, <2>3 DEF Responding, Confirmed, host
  <1>. QED BY <1>1, <1>3, <1>5, <1>6, <1>7, CardPhases

LEMMA CardRepeatKeeps ==
  ASSUME T1Inv, CardRepeat(line), UNCHANGED <<faults, host>>
  PROVE  T1Inv'
  <1>1. /\ to = "card" /\ line # NoBlock /\ Repeat
        /\ \/ /\ line.k = "R" /\ clast # NoBlock
              /\ Waiting \/ clast.k # "I" \/ line.s # cns \/ cout = <<>>
           \/ line.k = "I" /\ Waiting
    BY DEF CardRepeat, Arrives
  <1>2. clast # NoBlock
    BY <1>1, Kinds DEF Waiting
  <1>3. /\ TypeInv' /\ FitInv' /\ CardInv' /\ Pending' /\ Answer' = Answer
        /\ to' = "host" /\ line' = clast /\ UNCHANGED card /\ pc # "idle"
    BY <1>1, <1>2, RepeatKeeps
  <1>4. CASE line.k = "I" /\ Waiting
    <2>1. ~ Acknowledged /\ ~ Responding /\ ~ Confirmed /\ ~ Doomed /\ ~ Resyncing
      BY <1>1, <1>4, IOnLine
    <2>2. ~ Unheard
      BY <1>4 DEF Unheard
    <2>. QED BY <1>1, <1>3, <2>1, <2>2, CardPhases
  <1>5. CASE /\ line.k = "R"
             /\ Waiting \/ clast.k # "I" \/ line.s # cns \/ cout = <<>>
    <2>1. line # Bad /\ line # ResyncReq /\ IBlock(ns, sbuf, ifsc).k = "I"
      BY <1>5, Kinds DEF IBlock
    <2>2. ~ Unheard
      BY <1>5, <2>1 DEF Unheard
    <2>3. Acknowledged => Acknowledged'
      BY <1>3 DEF Acknowledged, host, card
    <2>4. Responding => Responding'
      BY <1>3 DEF Responding, ToCome, host, card
    <2>5. Doomed => Doomed'
      BY <1>3 DEF Doomed, card
    <2>6. Resyncing => Resyncing'
      BY <1>1, <1>3, <2>1 DEF Resyncing, card
    <2>7. ASSUME Confirmed PROVE Responding'
      <3>1. ~ Waiting /\ Answer = clast /\ mixed
        BY <1>5, <2>1, <2>7 DEF Confirmed, Waiting, Answer
      <3>. QED BY <1>3, <2>7, <3>1 DEF Confirmed, Responding, host, card
    <2>. QED BY <1>1, <1>3, <2>2, <2>3, <2>4, <2>5, <2>6, <2>7, CardPhases
  <1>. QED BY <1>1, <1>4, <1>5

LEMMA NothingKeeps ==
  ASSUME T1Inv, CardNothing(line), UNCHANGED <<faults, host>>
  PROVE  T1Inv'
  <1>1. /\ to = "card" /\ line # NoBlock /\ line.k = "R" /\ clast = NoBlock
        /\ Say(RBlock(cnr, "other")) /\ UNCHANGED <<cns, cnr, cin, cout, runs>>
    BY DEF CardNothing, Arrives
  <1>2. TypeInv' /\ FitInv' /\ CardInv' /\ pc # "idle" /\ Doomed'
    BY <1>1, ErrorSaid
  <1>3. ~ Resyncing
    BY <1>1, Kinds DEF Resyncing
  <1>. QED BY <1>1, <1>2, <1>3, CardPhases

LEMMA CardResyncKeeps ==
  ASSUME T1Inv, CardResync, UNCHANGED <<faults, host>>
  PROVE  T1Inv'
  <1>1. /\ line = ResyncReq /\ line # NoBlock /\ to = "card"
        /\ cns' = 0 /\ cnr' = 0 /\ cin' = <<>> /\ cout' = <<>>
        /\ clast' = ResyncRsp /\ line' = clast' /\ to' = "host"
        /\ UNCHANGED <<limit, reqs, runs>>
    BY DEF CardResync, Arrives, ResyncReq, ResyncRsp, Send
  <1>2. clast'.k = "SRsp" /\ line.k = "SReq" /\ line # Bad /\ clast' # NoBlock
    BY <1>1, Kinds
  <1>3. ~ Waiting' /\ Answer' = clast'
    BY <1>2 DEF Waiting, Answer
  <1>4. pc # "idle"
    BY <1>1 DEF T1Inv, TypeInv, LineType
  <1>5. TypeInv'
    <2>1. HostType'
      BY DEF T1Inv, TypeInv, HostType, host
    <2>2. CardType'
      <3>1. cin' \in Seq(CmdByte) /\ cout' \in Seq(RspByte)
        BY <1>1, EmptySeq
      <3>. QED BY <1>1, <1>3, <3>1 DEF T1Inv, TypeInv, CardType
    <2>3. LineType'
      BY <1>1, <1>4 DEF T1Inv, TypeInv, LineType, host
    <2>. QED BY <2>1, <2>2, <2>3 DEF TypeInv
  <1>6. FitInv'
    BY <1>1, <1>3 DEF T1Inv, FitInv, Granting, BlocksFit, host
  <1>7. CardInv'
    BY <1>1, <1>2, <1>3 DEF CardInv
  <1>8. Resyncing'
    BY <1>1, <1>2 DEF Resyncing
  <1>9. ~ Unheard /\ ~ Acknowledged /\ ~ Responding /\ ~ Confirmed /\ ~ Doomed
    <2>1. IBlock(ns, sbuf, ifsc).k = "I"
      BY DEF IBlock
    <2>2. ~ Pending
      BY <1>1, <1>2 DEF Pending, Granting
    <2>. QED BY <1>1, <1>2, <2>1, <2>2
             DEF Unheard, Acknowledged, Responding, Confirmed, Doomed
  <1>. QED BY <1>1, <1>4, <1>5, <1>6, <1>7, <1>8, <1>9, CardPhases

(* The grant arrives, and with it the block size, the end of the chain and the
   answer held back. *)
LEMMA GrantedKeeps ==
  ASSUME T1Inv, CardGranted(line), UNCHANGED <<faults, host>>
  PROVE  T1Inv'
  <1>1. /\ to = "card" /\ line # NoBlock /\ line.k = "SRsp" /\ Waiting
        /\ cin' = IF clast.x = "abort" THEN <<>> ELSE cin
        /\ line' = owed /\ to' = "host"
        /\ limit' = IF clast.x = "ifs" THEN clast.d[1][2] ELSE limit
        /\ clast' = owed /\ owed' = NoBlock
        /\ UNCHANGED <<cns, cnr, cout, reqs, runs>>
    BY DEF CardGranted, Arrives, Send
  <1>2. Granting /\ HostType /\ CardType /\ CardInv /\ FitInv
    BY <1>1 DEF Granting, T1Inv, TypeInv
  <1>3. /\ owed \in CardI \cup RBlocks /\ owed.k \in {"I", "R"} /\ clast \in SBlocks
        /\ clast.k = "SReq" /\ owed # NoBlock
    <2>1. owed \in CardI \cup RBlocks /\ clast.k = "SReq"
      BY <1>1, <1>2 DEF CardType, Waiting
    <2>2. owed.k \in {"I", "R"} /\ owed # NoBlock
      BY <2>1, Kinds
    <2>. QED BY <1>2, <2>1, <2>2, LastBlock
  <1>4. ~ Waiting' /\ Answer' = Answer /\ Answer = owed
    BY <1>1, <1>3 DEF Waiting, Answer
  <1>5. limit' \in Nat /\ ifsc <= limit' /\ (quiet => cin' = cin) /\ cin' \in Seq(CmdByte)
    <2>1. clast.x = "ifs" => clast.d[1][2] \in Nat /\ ifsc = clast.d[1][2]
      BY <1>1, <1>2, <1>3, IfsAsked DEF FitInv
    <2>2. ifsc \in Nat /\ limit \in Nat /\ ifsc <= limit
      BY <1>2 DEF HostType, CardType, FitInv
    <2>3. clast.x = "abort" => ~ quiet
      BY <1>2 DEF FitInv
    <2>4. cin' \in Seq(CmdByte)
      BY <1>1, <1>2, EmptySeq DEF CardType
    <2>. QED BY <1>1, <2>1, <2>2, <2>3, <2>4
  <1>6. pc # "idle"
    BY <1>1 DEF T1Inv, TypeInv, LineType
  <1>7. TypeInv'
    <2>1. HostType'
      BY DEF T1Inv, TypeInv, HostType, host
    <2>2. CardType'
      BY <1>1, <1>2, <1>3, <1>4, <1>5 DEF CardType
    <2>3. LineType'
      BY <1>1, <1>6 DEF T1Inv, TypeInv, LineType, host
    <2>. QED BY <2>1, <2>2, <2>3 DEF TypeInv
  <1>8. FitInv'
    BY <1>1, <1>4, <1>5 DEF FitInv, Granting, BlocksFit, host
  <1>9. CardInv'
    BY <1>1, <1>2, <1>3, <1>4 DEF CardInv
  <1>10. Pending'
    BY <1>1 DEF Pending
  <1>11. Acknowledged => Acknowledged'
    BY <1>1, <1>4, <1>5, <1>10 DEF Acknowledged, host
  <1>12. Responding => Responding'
    BY <1>1, <1>4, <1>10 DEF Responding, ToCome, host
  <1>13. ~ Unheard /\ ~ Confirmed /\ ~ Doomed /\ ~ Resyncing
    <2>1. line # Bad /\ line # ResyncReq
      BY <1>1, Kinds
    <2>. QED BY <1>1, <1>3, <2>1 DEF Unheard, Confirmed, Doomed, Resyncing
  <1>. QED BY <1>1, <1>6, <1>7, <1>8, <1>9, <1>11, <1>12, <1>13, CardPhases

LEMMA CardKeeps ==
  ASSUME T1Inv, Card
  PROVE  T1Inv'
  <1>1. UNCHANGED <<faults, host>> /\ CardStep
    BY DEF Card
  <1>2. CASE CardBad
    BY <1>1, <1>2, CardBadKeeps
  <1>3. CASE CardResync
    BY <1>1, <1>3, CardResyncKeeps
  <1>4. CASE CardChain(line)
    BY <1>1, <1>4, ChainKeeps
  <1>5. CASE CardExecute(line)
    BY <1>1, <1>5, ExecuteKeeps
  <1>6. CASE CardWrongI(line)
    BY <1>1, <1>6, WrongIKeeps
  <1>7. CASE CardNext(line)
    BY <1>1, <1>7, NextKeeps
  <1>8. CASE CardRepeat(line)
    BY <1>1, <1>8, CardRepeatKeeps
  <1>9. CASE CardNothing(line)
    BY <1>1, <1>9, NothingKeeps
  <1>10. CASE CardGranted(line)
    BY <1>1, <1>10, GrantedKeeps
  <1>. QED BY <1>1, <1>2, <1>3, <1>4, <1>5, <1>6, <1>7, <1>8, <1>9, <1>10 DEF CardStep

-----------------------------------------------------------------------------
(* The results *)

LEMMA InitHolds == Init => T1Inv
  <1> SUFFICES ASSUME Init PROVE T1Inv
    OBVIOUS
  <1>1. ~ Waiting /\ Answer = NoBlock /\ line = NoBlock /\ line.k = "none" /\ clast = NoBlock
        /\ clast.k = "none"
    BY Kinds DEF Init, CardInit, Waiting, Answer
  <1>2. HostType
    <2>1. sbuf \in Seq(CmdByte) /\ apdu \in Seq(CmdByte) /\ rbuf \in Seq(RspByte)
          /\ Len(sbuf) = 0 /\ Len(apdu) = 0 /\ Len(rbuf) = 0
      BY Empty DEF Init, HostInit
    <2>2. RetryMod - 1 \in Nat /\ Resyncs \in Nat /\ Ifsc \in Nat \ {0}
      BY T1Assumption
    <2>3. quiet \in BOOLEAN /\ mixed \in BOOLEAN
      BY DEF Init, HostInit
    <2>4. /\ pc = "idle" /\ state = "SENDING" /\ ns = 0 /\ nr = 0 /\ ifsc = Ifsc /\ rcv_len = 0
          /\ last_send = 0 /\ sent_length = 0 /\ retries = 0 /\ resyncs = 0 /\ ret = "none"
          /\ call = 0
      BY DEF Init, HostInit
    <2>. QED BY <2>1, <2>2, <2>3, <2>4 DEF HostType
  <1>3. CardType
    <2>1. cin \in Seq(CmdByte) /\ cout \in Seq(RspByte) /\ runs \in Seq(Seq(CmdByte))
      BY EmptySeq DEF Init, CardInit
    <2>. QED BY <1>1, <2>1, T1Assumption DEF Init, CardInit, CardType
  <1>4. LineType
    BY <1>1, BlocksAssumption DEF Init, HostInit, LineType
  <1>5. FitInv
    BY <1>1, T1Assumption DEF Init, HostInit, CardInit, FitInv, Granting, BlocksFit
  <1>6. CardInv
    BY <1>1 DEF Init, CardInit, CardInv
  <1>7. PhaseInv /\ ResponseIntact /\ ExactlyOnce
    BY <1>1 DEF Init, HostInit, CardInit, PhaseInv, IdleInv, AtRest, RsyInv, XcvInv,
                ResponseIntact, ExactlyOnce
  <1>. QED BY <1>2, <1>3, <1>4, <1>5, <1>6, <1>7 DEF T1Inv, TypeInv

LEMMA StepKeeps == T1Inv /\ [Next]_vars => T1Inv'
  <1> SUFFICES ASSUME T1Inv, [Next]_vars PROVE T1Inv'
    OBVIOUS
  <1>1. CASE UNCHANGED vars
    <2>1. UNCHANGED host /\ UNCHANGED card /\ UNCHANGED <<line, to, faults>>
      BY <1>1 DEF vars
    <2>2. TypeInv' /\ FitInv' /\ CardInv'
      <3>1. CardType' /\ CardInv' /\ Waiting' = Waiting /\ Answer' = Answer
        BY <2>1, CardKept DEF T1Inv, TypeInv, CardType, card
      <3>2. HostType'
        BY <2>1 DEF T1Inv, TypeInv, HostType, host
      <3>3. LineType'
        BY <2>1, <3>1 DEF T1Inv, TypeInv, LineType, host, card
      <3>4. FitInv'
        BY <2>1, <3>1 DEF T1Inv, FitInv, Granting, BlocksFit, host, card
      <3>. QED BY <3>1, <3>2, <3>3, <3>4 DEF TypeInv
    <2>3. PhaseInv' /\ ResponseIntact' /\ ExactlyOnce'
      BY <2>1 DEF T1Inv, PhaseInv, IdleInv, AtRest, RsyInv, XcvInv, Unheard, Acknowledged,
                  Responding, Confirmed, Doomed, Resyncing, Pending, Granting, ToCome, Answer,
                  Waiting, ResponseIntact, ExactlyOnce, host, card
    <2>. QED BY <2>2, <2>3 DEF T1Inv
  <1>2. CASE Call
    BY <1>2, CallKeeps
  <1>3. CASE CallRefused
    BY <1>3, RefusedKeeps
  <1>4. CASE CallResynchronize
    BY <1>4, CallResyncKeeps
  <1>5. CASE Reset
    BY <1>5, ResetKeeps
  <1>6. CASE Reader
    BY <1>6, ReaderKeeps
  <1>7. CASE Card
    BY <1>7, CardKeeps
  <1>8. CASE Fault
    BY <1>8, FaultKeeps
  <1>. QED BY <1>1, <1>2, <1>3, <1>4, <1>5, <1>6, <1>7, <1>8 DEF Next

LEMMA AlwaysT1Inv == Spec => []T1Inv
  BY InitHolds, StepKeeps, PTL DEF Spec

(* The state of t1_transceive() stays within its types: the counters in their
   ranges, what was sent never longer than the APDU, and what was received
   never longer than the caller's buffer. *)
THEOREM T1TypeCorrect == Spec => []TypeOK
  <1>1. T1Inv => TypeOK
    <2> SUFFICES ASSUME HostType, CardType, LineType PROVE TypeOK
      BY DEF T1Inv, TypeInv
    <2>1. Len(sbuf) \in Nat /\ Len(apdu) \in Nat /\ Len(rbuf) \in Nat
      BY LenProperties DEF HostType
    <2>2. sent_length \in 0 .. Len(apdu) /\ Len(rbuf) \in 0 .. rcv_len
      BY <2>1 DEF HostType
    <2>. QED BY <2>2 DEF HostType, CardType, LineType, TypeOK
  <1>. QED BY <1>1, AlwaysT1Inv, PTL

(* No I block that t1_build() makes is longer than the card can take, through
   any sequence of IFS requests, retransmissions and resets. *)
THEOREM BlocksFitTheCard == Spec => []BlocksFit
  <1>1. T1Inv => BlocksFit
    BY DEF T1Inv, FitInv
  <1>. QED BY <1>1, AlwaysT1Inv, PTL

(* Between calls t1->ns and t1->nr are the numbers the card expects and will
   use, unless the protocol is dead or a request was granted in RESYNCH. *)
THEOREM NumbersAgree == Spec => []SeqAgree
  <1>1. T1Inv => SeqAgree
    BY DEF T1Inv, PhaseInv, IdleInv, AtRest, SeqAgree
  <1>. QED BY <1>1, AlwaysT1Inv, PTL

(* A t1_transceive() that met neither resync nor abort has its APDU executed
   exactly once, however many blocks were damaged. *)
THEOREM CommandRunsOnce == Spec => []ExactlyOnce
  <1>1. T1Inv => ExactlyOnce
    BY DEF T1Inv
  <1>. QED BY <1>1, AlwaysT1Inv, PTL

(* What a successful t1_transceive() delivers is the whole response to the last
   command the card executed, no block of it missing or twice. *)
THEOREM ResponseIsWhole == Spec => []ResponseIntact
  <1>1. T1Inv => ResponseIntact
    BY DEF T1Inv
  <1>. QED BY <1>1, AlwaysT1Inv, PTL
=============================================================================
