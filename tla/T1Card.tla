------------------------------- MODULE T1Card -------------------------------
(***************************************************************************)
(* The card's side of T=1, as ISO 7816-3 has it and as proto-t1.c relies   *)
(* on it.  The card collects the blocks of a chain, executes what it       *)
(* collected, and sends the response back in blocks of at most Ifsd bytes. *)
(* Before an answer it may ask for more time, for another block size, or   *)
(* for the end of the chain it is receiving.                               *)
(***************************************************************************)
EXTENDS T1Blocks

CONSTANTS CardReqs,   \* the S requests this card makes
          MaxReqs,    \* bound on them
          CardIfsc,   \* block sizes it asks for
          Ifsd        \* the size of its own blocks

ASSUME CardAssumption ==
    /\ CardReqs \subseteq {"wtx", "ifs", "abort"}
    /\ MaxReqs \in Nat
    /\ CardIfsc \subseteq Nat
    /\ Ifsd \in Nat \ {0}

VARIABLES cns, cnr,  \* number of its next I block, and of the one it expects
          cin,       \* command bytes collected
          cout,      \* response bytes not sent yet
          clast,     \* the block it sent last
          owed,      \* the answer held back by an S request
          limit,     \* the block size it can take: a larger one from its request
                     \* on, a smaller one from the grant on
          reqs,      \* requests made
          runs       \* history: the commands executed in this call

card == <<cns, cnr, cin, cout, clast, owed, limit, reqs, runs>>

CardInit(ifsc0) ==
    /\ cns = 0 /\ cnr = 0 /\ cin = <<>> /\ cout = <<>>
    /\ clast = NoBlock /\ owed = NoBlock /\ limit = ifsc0
    /\ reqs = 0 /\ runs = <<>>

(* the response to command c: bytes that name it and their place, one more
   than the command has *)
Response(c) == [i \in 1 .. Len(c) + 1 |-> Byte("rsp", c, i)]

(* b is the answer: it is sent, or an S request in its place *)
Say(b) ==
    \/ /\ Send("host", b)
       /\ clast' = b /\ owed' = NoBlock
       /\ UNCHANGED <<limit, reqs>>
    \/ /\ reqs < MaxReqs /\ reqs' = reqs + 1
       /\ b.k \in {"I", "R"} /\ b.x \notin {"edc", "other"}
       /\ \/ /\ "wtx" \in CardReqs
             /\ clast' = SRequest("wtx", Param(1))
             /\ UNCHANGED limit
          \/ /\ "ifs" \in CardReqs
             /\ \E w \in CardIfsc :
                 /\ clast' = SRequest("ifs", Param(w))
                 /\ limit' = IF w > limit THEN w ELSE limit
          \/ /\ "abort" \in CardReqs /\ b.k = "R"
             /\ clast' = SRequest("abort", <<>>)
             /\ UNCHANGED limit
       /\ owed' = b
       /\ Send("host", clast')

Repeat ==
    /\ Send("host", clast)
    /\ UNCHANGED <<cns, cnr, cin, cout, clast, owed, limit, reqs, runs>>

Waiting == clast.k = "SReq"

(* the next block of the response *)
SayChunk(rsp, n) ==
    /\ cns' = Flip(n)
    /\ cout' = SubSeq(rsp, Ifsd + 1, Len(rsp))
    /\ Say(IBlock(n, rsp, Ifsd))

-----------------------------------------------------------------------------
CardBad ==
    /\ Arrives("card", Bad)
    /\ \/ Waiting /\ Repeat
       \/ /\ ~Waiting
          /\ Say(RBlock(cnr, "edc"))
          /\ UNCHANGED <<cns, cnr, cin, cout, runs>>

CardChain(b) ==
    /\ Arrives("card", b) /\ ~Waiting
    /\ b.k = "I" /\ b.s = cnr /\ b.x = "more"
    /\ cnr' = Flip(cnr) /\ cin' = cin \o b.d /\ cout' = <<>>
    /\ Say(RBlock(cnr', "ok"))
    /\ UNCHANGED <<cns, runs>>

CardExecute(b) ==
    /\ Arrives("card", b) /\ ~Waiting
    /\ b.k = "I" /\ b.s = cnr /\ b.x = "last"
    /\ cnr' = Flip(cnr) /\ cin' = <<>>
    /\ runs' = Append(runs, cin \o b.d)
    /\ SayChunk(Response(cin \o b.d), cns)

CardWrongI(b) ==
    /\ Arrives("card", b) /\ ~Waiting
    /\ b.k = "I" /\ b.s # cnr
    /\ Say(RBlock(cnr, "other"))
    /\ UNCHANGED <<cns, cnr, cin, cout, runs>>

(* the block sent last was received: the next one of the response *)
CardNext(b) ==
    /\ Arrives("card", b) /\ ~Waiting
    /\ b.k = "R" /\ clast.k = "I" /\ b.s = cns /\ cout # <<>>
    /\ SayChunk(cout, cns)
    /\ UNCHANGED <<cnr, cin, runs>>

CardRepeat(b) ==
    /\ Arrives("card", b)
    /\ \/ b.k = "R" /\ clast # NoBlock
          /\ (Waiting \/ clast.k # "I" \/ b.s # cns \/ cout = <<>>)
       \/ b.k = "I" /\ Waiting
    /\ Repeat

(* nothing was ever sent that could be repeated *)
CardNothing(b) ==
    /\ Arrives("card", b) /\ b.k = "R" /\ clast = NoBlock
    /\ Say(RBlock(cnr, "other"))
    /\ UNCHANGED <<cns, cnr, cin, cout, runs>>

CardResync ==
    /\ Arrives("card", SRequest("resync", <<>>))
    /\ cns' = 0 /\ cnr' = 0 /\ cin' = <<>> /\ cout' = <<>>
    /\ clast' = SResponse("resync", <<>>) /\ owed' = NoBlock
    /\ Send("host", clast')
    /\ UNCHANGED <<limit, reqs, runs>>

(* the request was granted; after an abort the chain is forgotten *)
CardGranted(b) ==
    /\ Arrives("card", b) /\ b.k = "SRsp" /\ Waiting
    /\ cin' = IF clast.x = "abort" THEN <<>> ELSE cin
    /\ Send("host", owed)
    /\ limit' = IF clast.x = "ifs" THEN clast.d[1][2] ELSE limit
    /\ clast' = owed /\ owed' = NoBlock
    /\ UNCHANGED <<cns, cnr, cout, reqs, runs>>

CardReset(ifsc0) ==
    /\ cns' = 0 /\ cnr' = 0 /\ cin' = <<>> /\ cout' = <<>>
    /\ clast' = NoBlock /\ owed' = NoBlock /\ limit' = ifsc0
    /\ runs' = <<>>
    /\ UNCHANGED reqs

CardStep ==
    \/ CardBad \/ CardResync
    \/ LET b == line IN
       \/ CardChain(b) \/ CardExecute(b) \/ CardWrongI(b) \/ CardNext(b)
       \/ CardRepeat(b) \/ CardNothing(b) \/ CardGranted(b)
=============================================================================
