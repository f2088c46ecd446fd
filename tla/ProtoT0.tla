------------------------------- MODULE ProtoT0 -------------------------------
(***************************************************************************)
(* The T=0 protocol of the reader side (ifd/proto-t0.c), in its two forms: *)
(* byte by byte, and block_oriented, where the driver does the exchange.   *)
(*                                                                         *)
(* A byte from the card is [is, of]: what it is and the command it belongs *)
(* to.  The code tells procedure bytes from data by their value only, so a *)
(* data byte or an SW2 read where a procedure byte is due can look like    *)
(* any of them.  The card is external: it takes a header when it has       *)
(* finished with the one before, and may be slower than the timeout.       *)
(***************************************************************************)
EXTENDS Naturals, Sequences, SequencesExt

CONSTANTS T0Lc, T0Le, \* bounds on the lengths of command and response data
          MaxNulls,   \* t0->max_nulls
          T0Calls,    \* bound: commands between two resets
          MaxLate     \* bound: answers slower than the timeout

ASSUME T0Assumption == T0Lc \in Nat /\ T0Le \in Nat /\ MaxNulls \in Nat

VARIABLE t0

T0Byte(is, of, i) == [is |-> is, of |-> of, i |-> i]

(* t0_set_defaults(): a new protocol object.  The reset that comes with it
   also empties the line. *)
T0New(block) ==
    [state |-> "IDLE", block |-> block, pc |-> "idle", cse |-> 1, le |-> 0, room |-> 2, rlen |-> 2,
     sbuf |-> 0, rbuf |-> <<>>, past |-> FALSE, nulls |-> 0, want |-> 0, ret |-> "none", call |-> 0,
     out |-> <<>>, in |-> <<>>, late |-> 0, slipped |-> FALSE, dirty |-> FALSE,
     crd |-> [busy |-> FALSE, of |-> 0, data |-> 0, owed |-> 0, done |-> 0, crossed |-> FALSE]]

T0Init == \E block \in BOOLEAN : t0 = T0New(block)

(* The protocol object is replaced after ifd_card_reset(). *)
T0Reset == t0.pc = "idle" /\ t0' = [T0New(t0.block) EXCEPT !.late = t0.late]

(* ifd_iso_apdu_parse(): the case of an APDU with lc bytes of data. *)
T0Case(lc, le) == CASE lc = 0 /\ le = 0 -> 1
                    [] lc = 0 /\ le > 0 -> 2
                    [] lc > 0 /\ le = 0 -> 3
                    [] OTHER -> 4

(* The end of t0_transceive(): "done:" makes the state IDLE, whatever
   t0_xcv() has made of it; the early returns leave it. *)
T0Done(s, ret) == [s EXCEPT !.pc = "idle", !.state = "IDLE", !.ret = ret,
                            !.slipped = @ \/ ret = "error", !.dirty = @ \/ ret = "error"]

T0Return(s, ret) == [s EXCEPT !.pc = "idle", !.ret = ret]

(* mutant: a failed exchange of any kind ends in done *)
T0FailedDone(s, st) == [T0Done(s, "error") EXCEPT !.slipped = s.slipped, !.dirty = s.dirty]

(* A failed t0_xcv(), which ends in state st. *)
T0Failed(s, st) ==
    IF s.state = "SENDING" THEN T0Return([s EXCEPT !.state = st], "error")
                           ELSE T0Done(s, "error")

(* ifd_send_command(): x is on its way, or the driver fails, and x may be on
   its way nonetheless. *)
T0Send(s, x) ==
    LET gone == [s EXCEPT !.out = Append(@, x)]
    IN  {gone} \cup {T0Failed(r, IF s.block THEN s.state ELSE "CONFUSED") : r \in {s, gone}}

(* mutant: room for one byte of the status word *)
T0HeaderShort(s, lc, le) ==
    T0Send([s EXCEPT !.pc = "proc", !.sbuf = lc, !.rbuf = <<>>, !.past = FALSE, !.nulls = 0,
                     !.rlen = IF s.state = "RECEIVING" THEN le + 1 ELSE s.room],
           [is |-> "head", of |-> s.call, lc |-> lc, le |-> le])

(* The first t0_send() of t0_xcv(): the header, in one go.  The room is the
   caller's for an exchange that sends, le + 2 for one that receives, whatever
   the caller's is: the comparison of the two is commented out. *)
T0Header(s, lc, le) ==
    T0Send([s EXCEPT !.pc = "proc", !.sbuf = lc, !.rbuf = <<>>, !.past = FALSE, !.nulls = 0,
                     !.rlen = IF s.state = "RECEIVING" THEN le + 2 ELSE s.room],
           [is |-> "head", of |-> s.call, lc |-> lc, le |-> le])

(* Something of an earlier exchange is in the line, or the card is at it. *)
T0Dirty == t0.in # <<>> \/ t0.out # <<>> \/ t0.crd.busy

(* t0_transceive() up to the first exchange.  A state other than IDLE asks
   for t0_resynch(), which always fails. *)
t0_transceive(lc, le, room) ==
    /\ t0.pc = "idle" /\ t0.state = "IDLE" /\ t0.call < T0Calls
    /\ t0' \in T0Header([t0 EXCEPT !.cse = T0Case(lc, le), !.le = le, !.room = room, !.ret = "none",
                                   !.call = @ + 1, !.dirty = T0Dirty,
                                   !.crd.crossed = @ /\ T0Dirty,
                                   !.state = IF lc > 0 THEN "SENDING" ELSE "RECEIVING"],
                         lc, le)

T0Refused ==
    /\ t0.pc = "idle" /\ t0.state # "IDLE"
    /\ t0' = [t0 EXCEPT !.ret = "error"]

(* An extended or malformed APDU, or room for less than the status word. *)
T0Malformed ==
    /\ t0.pc = "idle" /\ t0.state = "IDLE"
    /\ t0' = [t0 EXCEPT !.ret = "error"]

(* Case 4: the length in 61xx counts when it is smaller than le. *)
T0GetLength(s, sw) ==
    IF sw.is = "sw61" /\ sw.i # 0 /\ sw.i < s.le THEN [s EXCEPT !.le = sw.i] ELSE s

(* t0_transceive() after a t0_xcv() that got the status word. *)
T0Ended(s) ==
    IF s.state = "SENDING" /\ s.cse = 4 /\ s.rbuf[1].is # "sw6x"
    THEN LET g == T0GetLength(s, s.rbuf[1])
         IN  T0Header([g EXCEPT !.state = "RECEIVING"], 0, g.le)
    ELSE {T0Done(s, "ok")}

-----------------------------------------------------------------------------
(* The card *)

T0Say(c, b) == t0' = [t0 EXCEPT !.crd = c, !.in = @ \o b]
T0Sw(c, is, n) == T0Say([c EXCEPT !.busy = FALSE], <<T0Byte(is, c.of, n), T0Byte("sw2", c.of, 0)>>)

(* A header; it crosses a command whose data the reader never sent.  A
   header read where data is due is data to the card. *)
T0CardHeader ==
    /\ ~t0.block /\ t0.out # <<>> /\ Head(t0.out).is = "head" /\ ~t0.crd.busy
    /\ LET h == Head(t0.out)
       IN  t0' = [t0 EXCEPT !.out = Tail(@),
                            !.crd = [@ EXCEPT !.busy = TRUE, !.of = h.of, !.data = h.lc,
                                              !.owed = h.le, !.done = 0]]

T0CardWrongHeader ==
    /\ ~t0.block /\ t0.out # <<>> /\ Head(t0.out).is = "head" /\ t0.crd.busy /\ t0.crd.data > 0
    /\ t0' = [t0 EXCEPT !.out = Tail(@), !.crd.crossed = TRUE]

T0CardData ==
    /\ ~t0.block /\ t0.out # <<>> /\ Head(t0.out).is = "data"
    /\ t0' = [t0 EXCEPT !.out = Tail(@),
                        !.crd.data = IF Head(t0.out).n > @ THEN 0 ELSE @ - Head(t0.out).n]

T0CardAnswer ==
    /\ t0.crd.busy /\ t0.in = <<>>
    /\ t0.out # <<>> => t0.crd.data = 0 /\ Head(t0.out).is = "head"
    /\ LET c == t0.crd
           b(i) == T0Byte("data", c.of, i)
       IN \/ T0Say(c, <<T0Byte("null", c.of, 0)>>)
          \/ T0Sw(c, "sw6x", 0)
          \/ c.data > 0 /\ \E p \in {"ack", "nack"} : T0Say(c, <<T0Byte(p, c.of, 0)>>)
          \/ c.data = 0 /\ c.owed = c.done /\ T0Sw(c, "sw9x", 0)
          \/ c.data = 0 /\ c.done = 0 /\ \E n \in 1 .. T0Le : T0Sw(c, "sw61", n)
          \/ /\ c.data = 0 /\ c.owed > c.done
             /\ T0Say([c EXCEPT !.done = @ + 1], <<T0Byte("nack", c.of, 0), b(c.done + 1)>>)
          \/ /\ c.data = 0 /\ c.owed > c.done
             /\ T0Say([c EXCEPT !.done = c.owed, !.busy = FALSE],
                      <<T0Byte("ack", c.of, 0)>> \o [i \in 1 .. c.owed - c.done |-> b(c.done + i)]
                      \o <<T0Byte("sw9x", c.of, 0), T0Byte("sw2", c.of, 0)>>)

T0Card == T0CardHeader \/ T0CardWrongHeader \/ T0CardData \/ T0CardAnswer

-----------------------------------------------------------------------------
(* What a byte is taken for where a procedure byte is due. *)
T0Class(b) ==
    CASE b.is \in {"sw61", "sw6x", "sw9x"} -> {"sw"}
      [] b.is \in {"data", "sw2"} -> {"null", "sw", "ack", "nack", "odd"}
      [] OTHER -> {b.is}

T0Take == [t0 EXCEPT !.in = Tail(@)]

(* mutant: NULL bytes are not counted *)
T0NullFree == t0' = T0Take

T0Null ==
    t0' = IF t0.nulls + 1 > MaxNulls THEN T0Failed(T0Take, "CONFUSED")
                                     ELSE [T0Take EXCEPT !.nulls = @ + 1]

(* mutant: t0_send() does not compare the count with what is left *)
T0AckUnchecked(n) ==
    IF t0.state = "SENDING"
    THEN t0' \in T0Send([T0Take EXCEPT !.sbuf = IF n = 0 THEN 0 ELSE @ - n], [is |-> "data", n |-> n])
    ELSE t0' = [T0Take EXCEPT !.pc = "data",
                              !.want = IF n = 0 THEN t0.rlen - Len(t0.rbuf) ELSE n]

(* ACK asks for everything at once, ~ACK for one byte.  t0_send() refuses to
   send more than there is. *)
T0Ack(n) ==
    IF t0.state = "SENDING"
    THEN LET count == IF n = 0 THEN t0.sbuf ELSE n
         IN  t0' \in IF count > t0.sbuf \/ t0.sbuf = 0 THEN {T0Failed(T0Take, "CONFUSED")}
                     ELSE T0Send([T0Take EXCEPT !.sbuf = @ - count], [is |-> "data", n |-> count])
    ELSE t0' = [T0Take EXCEPT !.pc = "data",
                              !.want = IF n = 0 THEN t0.rlen - Len(t0.rbuf) ELSE n]

(* The loop of t0_xcv(): one procedure byte. *)
T0Procedure ==
    /\ t0.pc = "proc" /\ t0.in # <<>>
    /\ \E c \in T0Class(Head(t0.in)) :
         \/ c = "null" /\ T0Null
         \/ c = "sw" /\ t0' = [T0Take EXCEPT !.pc = "sw2", !.rbuf = Append(@, Head(t0.in))]
         \/ c = "ack" /\ T0Ack(0)
         \/ c = "nack" /\ T0Ack(1)
         \/ c = "odd" /\ t0' = T0Failed(T0Take, t0.state)

(* mutant: the byte past the end is counted *)
T0Sw2Counted ==
    /\ t0.pc = "sw2" /\ t0.in # <<>>
    /\ t0' \in T0Ended([T0Take EXCEPT !.rbuf = Append(@, Head(t0.in))])

(* t0_recv() of SW2 does not look whether there is room: in a buffer that SW1
   has filled it goes past the end, and is not counted. *)
T0Sw2 ==
    /\ t0.pc = "sw2" /\ t0.in # <<>>
    /\ t0' \in T0Ended(IF Len(t0.rbuf) = t0.rlen THEN [T0Take EXCEPT !.past = TRUE]
                       ELSE [T0Take EXCEPT !.rbuf = Append(@, Head(t0.in))])

(* t0_recv() of the data; a full buffer ends the exchange. *)
T0Data ==
    /\ t0.pc = "data" /\ Len(t0.in) >= t0.want
    /\ LET s == [t0 EXCEPT !.rbuf = @ \o SubSeq(t0.in, 1, t0.want),
                           !.in = SubSeq(@, t0.want + 1, Len(@))]
       IN  t0' = IF Len(s.rbuf) = s.rlen THEN T0Done(s, "ok") ELSE [s EXCEPT !.pc = "proc"]

(* ifd_recv_response() gives up: the card has stopped, or is only late. *)
T0Timeout ==
    /\ t0.pc # "idle" /\ Len(t0.in) < (IF t0.pc = "data" THEN t0.want ELSE 1)
    /\ LET dead == ~ENABLED T0Card
       IN  /\ dead \/ t0.late < MaxLate
           /\ t0' = T0Failed([t0 EXCEPT !.late = IF dead THEN @ ELSE @ + 1,
                                        !.in = IF t0.pc = "data" THEN <<>> ELSE @],
                             "CONFUSED")

(* t0_xcv() of a block oriented protocol: the driver returns an error, or n
   bytes that it takes for the whole answer. *)
T0Block(n) ==
    /\ t0.pc = "proc" /\ t0.block /\ n <= t0.rlen
    /\ LET s == [t0 EXCEPT !.out = <<>>]
           r == [i \in 1 .. n |-> IF i <= n - 2 THEN T0Byte("data", s.call, i)
                                  ELSE T0Byte(IF i = n - 1 THEN "sw9x" ELSE "sw2", s.call, 0)]
       IN  t0' \in IF s.state # "RECEIVING" /\ n < 2 THEN {T0Return(s, "error")}
                   ELSE IF s.state # "RECEIVING" /\ n = 2 THEN T0Ended([s EXCEPT !.rbuf = r])
                   ELSE {T0Done([s EXCEPT !.rbuf = r], "ok")}

T0BlockFails ==
    /\ t0.pc = "proc" /\ t0.block
    /\ t0' = T0Failed([t0 EXCEPT !.out = <<>>], t0.state)

T0Step ==
    \/ ~t0.block /\ (T0Procedure \/ T0Sw2 \/ T0Data \/ T0Timeout)
    \/ \E n \in 0 .. T0Le + 3 : T0Block(n)
    \/ T0BlockFails

T0Next ==
    \/ \E lc \in 0 .. T0Lc, le \in 0 .. T0Le, room \in 2 .. T0Le + 3 : t0_transceive(lc, le, room)
    \/ T0Refused \/ T0Malformed \/ T0Reset
    \/ T0Step
    \/ T0Card

-----------------------------------------------------------------------------
(* No count leaves its buffer, whatever procedure bytes the card sends:
   t0_send() sends nothing that was not asked for, and t0_xcv() stores at most
   le + 2 bytes and one SW2 after them, so that a caller with le + 3 bytes of
   room loses nothing behind them. *)
T0Fits ==
    /\ t0.pc # "idle" => t0.state \in {"SENDING", "RECEIVING"}
    /\ t0.sbuf \in 0 .. T0Lc /\ t0.le \in 0 .. T0Le /\ t0.nulls \in 0 .. MaxNulls
    /\ LET stored == Len(t0.rbuf) + (IF t0.past THEN 1 ELSE 0)
       IN  stored <= t0.room \/ stored <= t0.le + 2 \/ (t0.past /\ stored = t0.le + 3)

(* A successful t0_transceive() that found the line clear returns the answer
   to its own command: the data from the first byte on, none missing or twice,
   then SW1 and SW2, whatever failed before it.  With an answer still to come
   there is no such promise, because t0_transceive() forgets the CONFUSED
   state of a failed receive (proto-t0.c:207). *)
T0AnswerIsOwn ==
    t0.pc = "idle" /\ t0.ret = "ok" /\ ~t0.dirty =>
        \/ t0.block
        \/ LET n == Len(t0.rbuf)
           IN  /\ n >= 2 /\ t0.rbuf[n].is = "sw2"
               /\ \A i \in 1 .. n : t0.rbuf[i].of = t0.call
               /\ \A i \in 1 .. n - 2 : t0.rbuf[i] = T0Byte("data", t0.call, i)

(* The card never gets a header where it waits for the rest of a command,
   unless a receive failed before: a send that fails leaves a state that
   refuses every further command until the reset (t0_resynch fails). *)
T0InStep == t0.crd.crossed => t0.slipped

(* Every command ends, even when the card sends NULL bytes for ever. *)
T0Ends == t0.pc # "idle" ~> t0.pc = "idle"
=============================================================================
