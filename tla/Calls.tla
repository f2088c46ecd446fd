-------------------------------- MODULE Calls --------------------------------
(***************************************************************************)
(* The calls of the client library (ct/client.c) as they are written into  *)
(* a packet (ct/tlv.c, ct/buffer.c), taken out of it and executed          *)
(* (ifd/process.c, ifd/reader.c), and answered.  How packets travel is in  *)
(* IfdServer; here a call is sent, served and returned in three steps.     *)
(*                                                                         *)
(* Bytes have the base TlvByte instead of 256 and the buffers are smaller; *)
(* a text or a data block is as many bytes as its length says.             *)
(***************************************************************************)
EXTENDS Naturals, Sequences, SequencesExt

CONSTANTS TlvByte,   \* 256 in the code
          CallBuf,   \* size of most of the client's buffers (256)
          SockBuf,   \* CT_SOCKET_BUFSIZ (4096)
          MsgBuf,    \* do_reset(), do_verify(): msgbuf (128)
          CallLens,  \* bound: lengths of texts, data blocks and answers
          CallSlots  \* reader->nslots

ASSUME CallsAssumption ==
    /\ TlvByte \in Nat /\ TlvByte > 31 /\ CallBuf \in Nat /\ SockBuf \in Nat
    /\ CallLens \subseteq Nat /\ CallSlots \in Nat \ {0}

VARIABLE rp

TlvLarge == TlvByte \div 2  \* __CT_TAG_LARGE
Tags == 0 .. 11
ATR == 0
LOCK == 1
CARD_RESPONSE == 2
TIMEOUT == 3
MESSAGE == 4
LOCKTYPE == 5
PIN_DATA == 6
CARD_REQUEST == 7
ADDRESS == 8
DATA == 9
COUNT == 10
PROTOCOL == 11

Nothing == <<TlvByte>>      \* parser->val[tag] = NULL
Garbage == <<TlvByte + 1>>  \* parser->val[tag] was never written

Fill(n) == [i \in 1 .. n |-> i % TlvByte]

-----------------------------------------------------------------------------
(* ct/tlv.c, ct/buffer.c *)

(* ct_tlv_put_tag(), then one ct_tlv_add_bytes() for each of parts: the
   length follows what is there so far, ct_buf_put() takes all of a part or
   nothing, and after the first error nothing is added.  A length has two
   bytes with large tags, else one, which wraps: the limit there is 266. *)
PutItem(b, size, large, item) ==
    LET tag == IF large THEN item.tag + TlvLarge ELSE item.tag
        head == IF large THEN <<tag, 0, 0>> ELSE <<tag, 0>>
        fits == Len(b) + Len(head) <= size
        limit == IF large THEN TlvByte * TlvByte - 1 ELSE TlvByte + 10
        Add(acc, part) ==
            IF \/ acc.error \/ Len(acc.data) + Len(part) > limit
               \/ Len(b) + Len(head) + Len(acc.data) + Len(part) > size
            THEN [acc EXCEPT !.error = TRUE] ELSE [acc EXCEPT !.data = @ \o part]
        body == FoldLeft(Add, [data |-> <<>>, error |-> FALSE], item.parts)
        n == Len(body.data)
        length == IF large THEN <<n \div TlvByte, n % TlvByte>> ELSE <<n % TlvByte>>
    IN  IF ~fits THEN [buf |-> b \o SubSeq(head, 1, size - Len(b)), error |-> TRUE]
        ELSE [buf |-> b \o <<tag>> \o length \o body.data, error |-> body.error]

(* mutant: only the lowest byte is added *)
IntPartsLow(v) == <<<<v % TlvByte>>>>

(* ct_tlv_put_int(): the four bytes of an unsigned int from the first that is
   not zero, one at a time *)
IntParts(v) ==
    LET From(i) == v \div TlvByte^(4 - i)
        first == CHOOSE i \in 1 .. 4 : /\ i = 4 \/ From(i) # 0
                                       /\ \A j \in 1 .. i - 1 : From(j) = 0
    IN  [k \in 1 .. 5 - first |-> <<From(first + k - 1) % TlvByte>>]
IntItem(tag, v) == [tag |-> tag, parts |-> IntParts(v)]
DataItem(tag, data) == [tag |-> tag, parts |-> <<data>>]

(* ct_tlv_parse(): what it does to a parser whose entries are val.  The last
   of two items with one tag counts. *)
ct_tlv_parse(b, val) ==
    LET at[p \in 1 .. Len(b) + 1] ==
            LET avail == Len(b) + 1 - p
                large == b[p] >= TlvLarge
                header == IF large THEN 3 ELSE 2
                tag == b[p] % TlvLarge
                len == IF large THEN TlvByte * b[p + 1] + b[p + 2] ELSE b[p + 1]
                rest == at[p + header + len]
            IN  IF avail = 0 THEN [ok |-> TRUE, val |-> val, large |-> FALSE]
                ELSE IF avail < header \/ len = 0 \/ header + len > avail
                THEN [ok |-> FALSE, val |-> val, large |-> FALSE]
                ELSE [rest EXCEPT !.val[tag] = IF rest.val[tag] = val[tag]
                                               THEN SubSeq(b, p + header, p + header + len - 1)
                                               ELSE @,
                                  !.large = @ \/ large]
    IN  at[1]

(* ct_tlv_get_int(), ct_tlv_get_string() *)
GetInt(val, tag) == FoldLeft(LAMBDA v, byte : v * TlvByte + byte, 0, val[tag])
GetString(val, tag) == IF Len(val[tag]) > MsgBuf - 1 THEN SubSeq(val[tag], 1, MsgBuf - 1) ELSE val[tag]

(* mutant: as many bytes as the caller has room for, whatever was parsed *)
GetBytesRoom(val, tag, room) ==
    CASE val[tag] = Nothing -> <<>>
      [] val[tag] = Garbage -> Garbage
      [] OTHER -> [i \in 1 .. room |-> IF i <= Len(val[tag]) THEN val[tag][i] ELSE TlvByte - 1]

(* ct_tlv_get_bytes(): at most what the caller has room for; a pointer that
   was never written leads anywhere. *)
GetBytes(val, tag, room) ==
    CASE val[tag] = Nothing -> <<>>
      [] val[tag] = Garbage -> Garbage
      [] OTHER -> IF Len(val[tag]) > room THEN SubSeq(val[tag], 1, room) ELSE val[tag]

-----------------------------------------------------------------------------
(* The client *)

(* A call: num is the timeout, protocol, address, type or handle; text the
   length of the message, if there is one (NoText); len that of the data, or the
   count; room that of the caller's buffer. *)
NoText == SockBuf + 1
Calls(fns, nums, texts, lens) == [fn : fns, slot : 0 .. CallSlots + 1, num : nums, text : texts, len : lens,
                                  room : {4, SockBuf}]

Ints == {TlvByte, TlvByte^2 + 1, TlvByte^4 - 2}   \* of two, three and four bytes
Client == Calls({"request"}, {0} \cup Ints, CallLens \cup {NoText}, {1})
          \cup Calls({"verify"}, {0} \cup Ints, CallLens \cup {NoText}, CallLens)
          \cup Calls({"transact"}, {0}, {NoText}, CallLens)
          \cup Calls({"read_memory", "write_memory"}, {0} \cup Ints, {NoText}, CallLens)
          \cup Calls({"set_protocol", "lock", "unlock"}, {1} \cup Ints, {NoText}, {1})

Optional(tag, c) == IF c.text = NoText THEN <<>> ELSE <<DataItem(tag, Fill(c.text))>>
Timeout(c) == IF c.num = 0 THEN <<>> ELSE <<IntItem(TIMEOUT, c.num)>>

(* The arguments, in the order in which they are added: ct_card_request(),
   ct_card_verify(), ... *)
ItemsOf(c) ==
    CASE c.fn = "request" -> Timeout(c) \o Optional(MESSAGE, c)
      [] c.fn = "verify" -> Timeout(c) \o Optional(MESSAGE, c)
                            \o <<[tag |-> PIN_DATA, parts |-> <<<<1>>, <<1>>, Fill(c.len)>>]>>
      [] c.fn = "transact" -> <<DataItem(CARD_REQUEST, Fill(c.len))>>
      [] c.fn = "read_memory" -> <<IntItem(ADDRESS, c.num), IntItem(COUNT, c.len)>>
      [] c.fn = "write_memory" -> <<IntItem(ADDRESS, c.num), DataItem(DATA, Fill(c.len))>>
      [] c.fn = "set_protocol" -> <<IntItem(PROTOCOL, c.num)>>
      [] c.fn = "lock" -> <<IntItem(LOCKTYPE, c.num)>>
      [] OTHER -> <<IntItem(LOCK, c.num)>>

SizeOf(c) == IF c.fn \in {"transact", "read_memory", "write_memory"} THEN SockBuf ELSE CallBuf

(* ct_args_int(), ct_args_string(), ct_args_opaque(): the builder's error is
   not looked at, what did not fit is not there. *)
Args(c) ==
    LET Add(b, item) == LET p == PutItem(b.buf, SizeOf(c) - 2, TRUE, item)
                        IN  [p EXCEPT !.error = @ \/ b.error]
    IN  FoldLeft(Add, [buf |-> <<>>, error |-> FALSE], ItemsOf(c))

NoCall == [fn |-> "none"]
Idle(large, proto) ==
    [pc |-> "idle", large |-> large, proto |-> proto, call |-> NoCall, packet |-> <<>>,
     done |-> NoCall, answer |-> <<>>, error |-> FALSE, ret |-> <<>>]

CallsInit == rp = Idle(FALSE, [s \in 0 .. CallSlots |-> FALSE])

SendCall ==
    /\ rp.pc = "idle"
    /\ \E c \in Client : rp' = [rp EXCEPT !.pc = "sent", !.call = c, !.packet = Args(c).buf]

-----------------------------------------------------------------------------
(* The server *)

Has(val, tags) == \A t \in tags : val[t] # Nothing
Text(val) == IF Has(val, {MESSAGE}) THEN GetString(val, MESSAGE) ELSE Nothing
Num(val, tag) == IF Has(val, {tag}) THEN GetInt(val, tag) ELSE 0

(* do_reset(), do_verify(), ...: what is missing is an error, else this is
   what is passed on to reader.c.  A count is cut to the size of the buffer. *)
Needed == [request |-> {}, verify |-> {PIN_DATA}, transact |-> {CARD_REQUEST},
           read_memory |-> {ADDRESS, COUNT}, write_memory |-> {ADDRESS, DATA},
           set_protocol |-> {PROTOCOL}, lock |-> {LOCKTYPE}, unlock |-> {LOCK}]

Passed(fn, val) ==
    CASE fn = "request" -> [fn |-> fn, num |-> Num(val, TIMEOUT), text |-> Text(val)]
      [] fn = "verify" -> [fn |-> fn, num |-> Num(val, TIMEOUT), text |-> Text(val), data |-> val[PIN_DATA]]
      [] fn = "transact" -> [fn |-> fn, data |-> val[CARD_REQUEST]]
      [] fn = "read_memory" -> [fn |-> fn, num |-> Num(val, ADDRESS),
                                count |-> IF Num(val, COUNT) > SockBuf THEN SockBuf ELSE Num(val, COUNT)]
      [] fn = "write_memory" -> [fn |-> fn, num |-> Num(val, ADDRESS), data |-> val[DATA]]
      [] fn = "set_protocol" -> [fn |-> fn, num |-> Num(val, PROTOCOL)]
      [] fn = "lock" -> [fn |-> fn, num |-> Num(val, LOCKTYPE)]
      [] OTHER -> [fn |-> fn, num |-> Num(val, LOCK)]

(* The answer of the driver, or the card, goes under this tag.  A reset
   without an ATR has no item. *)
Reply(fn, large, out) ==
    CASE fn = "request" /\ out # <<>> -> PutItem(<<>>, SockBuf + 64, large, DataItem(ATR, out))
      [] fn \in {"transact", "verify"} -> PutItem(<<>>, SockBuf + 64, large, DataItem(CARD_RESPONSE, out))
      [] fn = "read_memory" -> PutItem(<<>>, SockBuf + 64, large, DataItem(DATA, out))
      [] fn = "lock" -> PutItem(<<>>, SockBuf + 64, large, IntItem(LOCK, TlvByte + 1))
      [] OTHER -> [buf |-> <<>>, error |-> FALSE]

(* The room that the driver is given: atr (64), msgbuf, replybuf (514), data *)
AnswerMax(d) == CASE d.fn = "request" -> CallBuf \div 4
                  [] d.fn = "verify" -> MsgBuf
                  [] d.fn = "read_memory" -> d.count
                  [] OTHER -> SockBuf \div 2

(* ifd_card_command(), ifd_card_read_memory(), ifd_card_write_memory() need a
   protocol.  ifd_card_request() drops it first and may find a new one; a
   failed ifd_set_protocol() leaves it. *)
Protocol(fn, ok, had) ==
    CASE fn = "request" -> IF ok THEN BOOLEAN ELSE {FALSE}
      [] fn = "set_protocol" -> IF ok THEN {TRUE} ELSE {had}
      [] OTHER -> {had}
Possible(fn, slot) == fn \in {"transact", "read_memory", "write_memory"} => rp.proto[slot]

(* ifdhandler_process() *)
ServeCall ==
    LET fn == rp.call.fn
        slot == rp.call.slot
        parsed == ct_tlv_parse(rp.packet, [t \in Tags |-> Nothing])
        large == rp.large \/ parsed.large
    IN  /\ rp.pc = "sent"
        /\ IF \/ ~parsed.ok \/ slot > CallSlots
              \/ ~Has(parsed.val, Needed[fn]) \/ ~Possible(fn, slot)
           THEN rp' = [rp EXCEPT !.pc = "served", !.error = TRUE,
                                 !.large = IF parsed.ok THEN large ELSE @]
           ELSE \E n \in CallLens, ok \in BOOLEAN : \E p \in Protocol(fn, ok, rp.proto[slot]) :
                  LET done == Passed(fn, parsed.val)
                      out == Fill(n)
                      reply == Reply(fn, large, out)
                  IN  /\ n <= AnswerMax(done)
                      /\ rp' = [rp EXCEPT !.pc = "served", !.large = large,
                                       !.proto[slot] = p,
                                       !.done = done, !.answer = IF ok THEN out ELSE <<>>,
                                       !.error = ~ok \/ reply.error,
                                       !.packet = IF ok /\ ~reply.error THEN reply.buf ELSE <<>>]

-----------------------------------------------------------------------------
(* Back in the client *)

(* ct_socket_call() has copied the packet, if there was room: ct_card_verify()
   has the caller's buffer for it.  The parser is on the stack and not
   cleared. *)
RoomOf(c) == IF c.fn = "verify" THEN c.room ELSE SizeOf(c)

Returned(c, val) ==
    CASE c.fn = "request" -> GetBytes(val, ATR, c.room)
      [] c.fn \in {"transact", "verify"} -> GetBytes(val, CARD_RESPONSE, c.room)
      [] c.fn = "read_memory" -> GetBytes(val, DATA, c.len)
      [] OTHER -> <<>>

ReturnCall ==
    LET parsed == ct_tlv_parse(rp.packet, [t \in Tags |-> Garbage])
        failed == rp.error \/ Len(rp.packet) > RoomOf(rp.call) \/ ~parsed.ok
    IN  /\ rp.pc = "served"
        /\ rp' = [rp EXCEPT !.pc = "returned", !.error = failed,
                            !.ret = IF failed THEN <<>> ELSE Returned(rp.call, parsed.val)]

(* The connection (its use_large_tags) and the slots outlive the call. *)
NextCall == rp.pc = "returned" /\ rp' = Idle(rp.large, rp.proto)

CallsNext == SendCall \/ ServeCall \/ ReturnCall \/ NextCall

-----------------------------------------------------------------------------
(* A call is executed with the arguments of the client, whole and unchanged
   (a message may be cut, a count is limited), or not at all: for every
   length, also where the buffer of the client is full.  ct_card_verify() is
   the exception: it ignores that the PIN data did not fit, see the README. *)
CallIsAsked ==
    LET c == rp.call
        d == rp.done
        data == IF c.fn = "verify" THEN <<1, 1>> \o Fill(c.len) ELSE Fill(c.len)
    IN  d # NoCall =>
           /\ d.fn = c.fn
           /\ "num" \in DOMAIN d => d.num = c.num
           /\ "text" \in DOMAIN d =>
                 IF c.text = NoText THEN d.text = Nothing
                 ELSE c.text > 0 /\ d.text = Fill(IF c.text < MsgBuf THEN c.text ELSE MsgBuf - 1)
           /\ "data" \in DOMAIN d /\ (c.fn = "verify" => ~Args(c).error) => d.data = data
           /\ "count" \in DOMAIN d => d.count = IF c.len < SockBuf THEN c.len ELSE SockBuf

(* What a call returns is the answer of the driver from its beginning, for as
   long as the caller has room; an answer without bytes is an error, or for a
   reset see NoAtrIsNone. *)
ReturnIsAnswer ==
    rp.pc = "returned" /\ ~rp.error /\ rp.call.fn \in {"request", "verify", "transact", "read_memory"}
        /\ rp.answer # <<>>
    => rp.ret # <<>> /\ IsPrefix(rp.ret, rp.answer)

(* "There may be no ATR if the card is synchronous" (client.c:195): then a
   reset returns no byte. *)
NoAtrIsNone == rp.pc = "returned" /\ rp.call.fn = "request" /\ ~rp.error => rp.ret # Garbage
=============================================================================
