------------------------------ MODULE ProtoT1 ------------------------------
(***************************************************************************)
(* t1_transceive() and t1_resynchronize() of proto-t1.c, the reader's side *)
(* of T=1.  pc is "idle", "xcv" (t1_xcv() called by t1_transceive has sent *)
(* a block and waits for the answer) or "rsy" (the same in                 *)
(* t1_resynchronize).  One action is one turn of the loop: the answer is   *)
(* taken in, and the next block is sent or the function returns.           *)
(*                                                                         *)
(* Data are sequences of bytes that know which call and place they are     *)
(* from.  wtx only stretches a timeout and is left out.                    *)
(***************************************************************************)
EXTENDS T1Blocks

CONSTANTS Retries,    \* t1->retries
          Resyncs,    \* 3 in the code
          RetryMod,   \* values of the unsigned counter retries: it wraps
          Ifsc,       \* t1->ifsc after the card was reset
          MaxSnd,     \* bound on the length of an APDU
          RcvLens     \* sizes of the caller's receive buffer

ASSUME T1Assumption ==
    /\ Retries \in Nat \ {0}
    /\ Resyncs \in Nat \ {0}
    /\ RetryMod \in Nat /\ RetryMod > Retries /\ RetryMod > 2
    /\ Ifsc \in Nat \ {0}
    /\ MaxSnd \in Nat \ {0}
    /\ RcvLens \subseteq Nat

VARIABLES pc,
          state,         \* t1->state
          ns, nr, ifsc,  \* t1->ns, t1->nr, t1->ifsc
          sbuf,          \* what ct_buf_head(&sbuf) still has to offer
          rbuf, rcv_len,
          last_send,     \* bytes of the last I block
          sent_length,   \* bytes acknowledged by R blocks
          retries,       \* as t1_xcv() is called: already counted down
          resyncs,
          ret,           \* what the last call returned
          call,          \* parity of the call, to tell its data from the last call's
          apdu,          \* history: the APDU of the call
          quiet,         \* history: no resync and no abort in this call
          mixed          \* history: an S request was granted in state RESYNCH

args == <<call, apdu, rcv_len>>

host == <<pc, state, ns, nr, ifsc, sbuf, rbuf, rcv_len, last_send, sent_length,
          retries, resyncs, ret, call, apdu, quiet, mixed>>

(* a freshly allocated t1_state_t, after t1_init() *)
HostInit ==
    /\ pc = "idle" /\ state = "SENDING" /\ ns = 0 /\ nr = 0 /\ ifsc = Ifsc
    /\ sbuf = <<>> /\ rbuf = <<>> /\ rcv_len = 0 /\ last_send = 0 /\ sent_length = 0
    /\ retries = 0 /\ resyncs = 0 /\ ret = "none" /\ call = 0 /\ apdu = <<>>
    /\ quiet = TRUE /\ mixed = FALSE

(* the unsigned counter at the top of the next turn *)
Down(n) == (n - 1) % RetryMod

Drop(buf, n) == SubSeq(buf, n + 1, Len(buf))

-----------------------------------------------------------------------------
(* How a turn of the loop ends *)

Return(r) ==
    /\ pc' = "idle" /\ ret' = r
    /\ sbuf' = <<>> /\ last_send' = 0 /\ sent_length' = 0 /\ retries' = 0 /\ resyncs' = 0
    /\ Silence
    /\ UNCHANGED <<ifsc, args, mixed>>

(* label error, and the failure of t1_xcv().  Nothing reads the sequence numbers
   of a dead protocol before they are set to 0 again, so they are left alone. *)
Error ==
    /\ Return("error")
    /\ state' = "DEAD"
    /\ UNCHANGED <<ns, nr, rbuf, quiet>>

(* the next I block, built from what is left of the APDU *)
SendI(buf, n) ==
    /\ sbuf' = buf /\ ns' = n
    /\ Send("card", IBlock(n, buf, ifsc))
    /\ last_send' = Len(IBlock(n, buf, ifsc).d)

(* label resync.  Only the answer will empty rbuf and sent_length. *)
ResyncFrom(buf, last, sent) ==
    \/ resyncs = 0 /\ Error
    \/ /\ resyncs > 0
       /\ sbuf' = buf /\ last_send' = last /\ sent_length' = sent
       /\ resyncs' = resyncs - 1
       /\ ns' = 0 /\ nr' = 0
       /\ Send("card", SRequest("resync", <<>>))
       /\ state' = "RESYNCH"
       /\ retries' = Down(retries)
       /\ quiet' = FALSE
       /\ UNCHANGED <<pc, ifsc, rbuf, ret, args, mixed>>

Resync == ResyncFrom(sbuf, last_send, sent_length)

-----------------------------------------------------------------------------
(* The APDU of call c with n bytes *)
Apdu(c, n) == [i \in 1 .. n |-> Byte("cmd", c, i)]

t1_transceive(n, room) ==
    /\ pc = "idle" /\ state # "DEAD" /\ n > 0
    /\ pc' = "xcv" /\ state' = "SENDING"
    /\ call' = Flip(call)
    /\ apdu' = Apdu(call', n)
    /\ SendI(apdu', ns)
    /\ rbuf' = <<>> /\ rcv_len' = room /\ sent_length' = 0
    /\ retries' = Down(Retries) /\ resyncs' = Resyncs
    /\ ret' = "none" /\ quiet' = TRUE
    /\ UNCHANGED <<nr, ifsc, mixed>>

(* nothing to send, or a dead card *)
TransceiveRefused(n) ==
    /\ pc = "idle" /\ (n = 0 \/ state = "DEAD")
    /\ ret' = "error" /\ rbuf' = <<>>
    /\ UNCHANGED <<line, to, pc, state, ns, nr, ifsc, sbuf, last_send, sent_length,
                   retries, resyncs, args, mixed, quiet>>

(* mutant: the failure is ignored and the wait begins again *)
XcvFailsIgnored ==
    /\ pc = "xcv" /\ line = NoBlock
    /\ UNCHANGED <<line, to, host>>

(* t1_xcv() failed: no answer before the timeout *)
XcvFails ==
    /\ pc = "xcv" /\ line = NoBlock
    /\ Error

Take(b) == pc = "xcv" /\ Arrives("host", b)

(* Before anything was acknowledged an unreadable answer is asked for again. *)
ChecksumFails ==
    /\ Take(Bad)
    /\ \/ /\ retries = 0 \/ sent_length > 0
          /\ Resync
       \/ /\ retries > 0 /\ sent_length = 0
          /\ Send("card", RBlock(nr, "edc"))
          /\ retries' = Down(retries)
          /\ UNCHANGED <<pc, state, ns, nr, ifsc, sbuf, rbuf, last_send, sent_length,
                         resyncs, ret, args, mixed, quiet>>

TakeErrorR(b) ==
    /\ Take(b) /\ b.k = "R" /\ b.x # "ok"
    /\ Resync

(* the card repeats its request: so do we *)
TakeRWhileReceiving(b) ==
    /\ Take(b) /\ b.k = "R" /\ b.x = "ok" /\ state = "RECEIVING"
    /\ Send("card", RBlock(nr, "ok"))
    /\ retries' = Down(Retries)
    /\ UNCHANGED <<pc, state, ns, nr, ifsc, sbuf, rbuf, last_send, sent_length,
                   resyncs, ret, args, mixed, quiet>>

(* mutant: ct_buf_get() of t1->ifsc bytes *)
TakeRDropsIfsc(b) ==
    /\ Take(b) /\ b.k = "R" /\ b.x = "ok" /\ state # "RECEIVING"
    /\ LET acked == b.s # ns
           rest == IF acked THEN Drop(sbuf, ifsc) ELSE sbuf
           sent == IF acked THEN sent_length + last_send ELSE sent_length
       IN
       \/ rest = <<>> /\ ResyncFrom(rest, 0, sent)
       \/ /\ rest # <<>>
          /\ SendI(rest, IF acked THEN Flip(ns) ELSE ns)
          /\ sent_length' = sent
          /\ retries' = Down(Retries)
          /\ UNCHANGED <<pc, state, nr, ifsc, rbuf, resyncs, ret, args, mixed, quiet>>

(* an R block for the next sequence number acknowledges the block just sent,
   any other one asks for it again *)
TakeR(b) ==
    /\ Take(b) /\ b.k = "R" /\ b.x = "ok" /\ state # "RECEIVING"
    /\ LET acked == b.s # ns
           rest == IF acked THEN Drop(sbuf, last_send) ELSE sbuf
           sent == IF acked THEN sent_length + last_send ELSE sent_length
       IN
       \/ rest = <<>> /\ ResyncFrom(rest, 0, sent)
       \/ /\ rest # <<>>
          /\ SendI(rest, IF acked THEN Flip(ns) ELSE ns)
          /\ sent_length' = sent
          /\ retries' = Down(Retries)
          /\ UNCHANGED <<pc, state, nr, ifsc, rbuf, resyncs, ret, args, mixed, quiet>>

(* mutant: last_send = 0 is missing *)
ImplicitAckKeepsLast ==
    /\ state' = "RECEIVING"
    /\ \/ /\ state = "SENDING"
          /\ sbuf' = Drop(sbuf, last_send) /\ ns' = Flip(ns)
       \/ /\ state # "SENDING"
          /\ UNCHANGED <<sbuf, ns>>
    /\ UNCHANGED last_send

(* the first I block from the card acknowledges our last one *)
ImplicitAck ==
    /\ state' = "RECEIVING"
    /\ \/ /\ state = "SENDING"
          /\ sbuf' = Drop(sbuf, last_send) /\ last_send' = 0 /\ ns' = Flip(ns)
       \/ /\ state # "SENDING"
          /\ UNCHANGED <<sbuf, last_send, ns>>

TakeUnexpectedI(b) ==
    /\ Take(b) /\ b.k = "I" /\ b.s # nr
    /\ ImplicitAck
    /\ Send("card", RBlock(nr, "other"))
    /\ retries' = Down(retries)
    /\ UNCHANGED <<pc, nr, ifsc, rbuf, sent_length, resyncs, ret, args, mixed, quiet>>

(* ct_buf_put() succeeded and the chain goes on *)
TakeMoreI(b) ==
    /\ Take(b) /\ b.k = "I" /\ b.s = nr /\ b.x = "more"
    /\ Len(rbuf) + Len(b.d) <= rcv_len
    /\ ImplicitAck
    /\ nr' = Flip(nr) /\ rbuf' = rbuf \o b.d
    /\ Send("card", RBlock(nr', "ok"))
    /\ retries' = Down(Retries)
    /\ UNCHANGED <<pc, ifsc, sent_length, resyncs, ret, args, mixed, quiet>>

(* mutant: goto done comes before t1->nr ^= 1 *)
TakeLastIEarly(b) ==
    /\ Take(b) /\ b.k = "I" /\ b.s = nr /\ b.x = "last"
    /\ Len(rbuf) + Len(b.d) <= rcv_len
    /\ state' = "RECEIVING"
    /\ ns' = IF state = "SENDING" THEN Flip(ns) ELSE ns
    /\ rbuf' = rbuf \o b.d
    /\ Return("received")
    /\ UNCHANGED <<nr, quiet>>

TakeLastI(b) ==
    /\ Take(b) /\ b.k = "I" /\ b.s = nr /\ b.x = "last"
    /\ Len(rbuf) + Len(b.d) <= rcv_len
    /\ state' = "RECEIVING"
    /\ ns' = IF state = "SENDING" THEN Flip(ns) ELSE ns
    /\ nr' = Flip(nr) /\ rbuf' = rbuf \o b.d
    /\ Return("received")
    /\ UNCHANGED quiet

TakeTooMuch(b) ==
    /\ Take(b) /\ b.k = "I" /\ b.s = nr
    /\ Len(rbuf) + Len(b.d) > rcv_len
    /\ Error

(* mutant: rbuf keeps the part received before the resync *)
ResynchronizedKeepsRbuf(b) ==
    /\ Take(b) /\ b.k = "SRsp" /\ state = "RESYNCH"
    /\ state' = "SENDING"
    /\ SendI(sbuf, ns)
    /\ sent_length' = 0
    /\ retries' = Down(Retries) /\ resyncs' = Resyncs
    /\ UNCHANGED <<pc, nr, ifsc, rbuf, ret, args, mixed, quiet>>

(* An S response ends the resynchronization.  The transmission goes on from
   what ct_buf_get() has left in sbuf, not from the start of the APDU. *)
Resynchronized(b) ==
    /\ Take(b) /\ b.k = "SRsp" /\ state = "RESYNCH"
    /\ state' = "SENDING"
    /\ SendI(sbuf, ns)
    /\ rbuf' = <<>> /\ sent_length' = 0
    /\ retries' = Down(Retries) /\ resyncs' = Resyncs
    /\ UNCHANGED <<pc, nr, ifsc, ret, args, mixed, quiet>>

ZeroIfs(b) == b.x = "ifs" /\ b.d = Param(0)

UnexpectedS(b) ==
    /\ Take(b)
    /\ \/ b.k = "SRsp" /\ state # "RESYNCH"
       \/ b.k = "SReq" /\ (b.x = "resync" \/ ZeroIfs(b))
    /\ Resync

(* mutant: the new IFSC is acknowledged and forgotten *)
TakeSForgetsIfs(b) ==
    /\ Take(b) /\ b.k = "SReq" /\ b.x \in {"abort", "ifs", "wtx"}
    /\ ~ZeroIfs(b)
    /\ UNCHANGED ifsc
    /\ Send("card", SResponse(b.x, b.d))
    /\ retries' = Down(Retries)
    /\ quiet' = (quiet /\ b.x # "abort")
    /\ mixed' = (mixed \/ state = "RESYNCH")
    /\ UNCHANGED <<pc, state, ns, nr, sbuf, rbuf, last_send, sent_length, resyncs,
                   ret, args>>

(* requests of the card are granted; after an abort the chain goes on too *)
TakeS(b) ==
    /\ Take(b) /\ b.k = "SReq" /\ b.x \in {"abort", "ifs", "wtx"}
    /\ ~ZeroIfs(b)
    /\ ifsc' = IF b.x = "ifs" THEN b.d[1][2] ELSE ifsc
    /\ Send("card", SResponse(b.x, b.d))
    /\ retries' = Down(Retries)
    /\ quiet' = (quiet /\ b.x # "abort")
    /\ mixed' = (mixed \/ state = "RESYNCH")
    /\ UNCHANGED <<pc, state, ns, nr, sbuf, rbuf, last_send, sent_length, resyncs,
                   ret, args>>

TransceiveStep ==
    \/ XcvFails \/ ChecksumFails
    \/ LET b == line IN
       \/ TakeErrorR(b) \/ TakeRWhileReceiving(b) \/ TakeR(b)
       \/ TakeUnexpectedI(b) \/ TakeMoreI(b) \/ TakeLastI(b) \/ TakeTooMuch(b)
       \/ Resynchronized(b) \/ UnexpectedS(b) \/ TakeS(b)

-----------------------------------------------------------------------------
(* t1_resynchronize(): the device is flushed, then up to three requests.  It
   may be called on a dead protocol, which stays dead. *)
t1_resynchronize ==
    /\ pc = "idle"
    /\ pc' = "rsy"
    /\ ns' = 0 /\ nr' = 0
    /\ retries' = 2
    /\ Send("card", SRequest("resync", <<>>))
    /\ ret' = "none" /\ rbuf' = <<>>
    /\ UNCHANGED <<state, ifsc, sbuf, last_send, sent_length, resyncs, args, mixed, quiet>>

ResynchronizeOk ==
    /\ pc = "rsy" /\ Arrives("host", SResponse("resync", <<>>))
    /\ Return("synced")
    /\ UNCHANGED <<state, ns, nr, rbuf, quiet>>

(* no answer, or one that is not four bytes long *)
ResynchronizeFails ==
    /\ pc = "rsy"
    /\ \/ line = NoBlock
       \/ to = "host" /\ (line = Bad \/ line.d # <<>>)
    /\ Error

(* A wrong or unreadable answer of four bytes; a block-oriented device cuts a
   longer one to four, and its checksum fails. *)
ResynchronizeAgain ==
    /\ pc = "rsy" /\ to = "host"
    /\ line \notin {NoBlock, SResponse("resync", <<>>)}
    /\ \/ /\ retries > 0
          /\ retries' = retries - 1
          /\ ns' = 0 /\ nr' = 0
          /\ Send("card", SRequest("resync", <<>>))
          /\ UNCHANGED <<pc, state, ifsc, sbuf, rbuf, last_send, sent_length, resyncs,
                         ret, args, mixed, quiet>>
       \/ retries = 0 /\ Error

ResynchronizeStep == ResynchronizeOk \/ ResynchronizeFails \/ ResynchronizeAgain

(* ifd_card_request(): the protocol is freed and a new one allocated *)
NewProtocol ==
    /\ pc = "idle"
    /\ state' = "SENDING" /\ ns' = 0 /\ nr' = 0 /\ ifsc' = Ifsc
    /\ rbuf' = <<>> /\ ret' = "none" /\ mixed' = FALSE
    /\ Silence
    /\ UNCHANGED <<pc, sbuf, last_send, sent_length, retries, resyncs, args, quiet>>
=============================================================================
