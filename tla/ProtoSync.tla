------------------------------ MODULE ProtoSync ------------------------------
(***************************************************************************)
(* Memory cards (ifd/proto-sync.c): verified writes, page by page, and the *)
(* search for the kind of card, which writes to it.  The reader's          *)
(* sync_read and sync_write are external: each may fail, a write may leave *)
(* a wrong byte, and with a protocol that is not the card's they do not    *)
(* reach its memory.  A byte is 0 (0x00), 1 (0xFF), 2 or 3; 2 and 3 are    *)
(* complements.                                                            *)
(***************************************************************************)
EXTENDS Naturals, Sequences

CONSTANTS SyncPage,  \* 256
          SyncSize,  \* 2^16: addr is an unsigned short and wraps here
          SyncLen    \* bound on the bytes of one write

(* A page end is a page's length from the one before, and the end of the
   address space is one; what one call writes fits the address space. *)
ASSUME SyncAssumption == /\ SyncPage \in Nat \ {0} /\ SyncSize \in Nat \ {0}
                         /\ SyncSize % SyncPage = 0 /\ SyncLen \in 0 .. SyncSize

VARIABLE syn

SyncKinds == <<"i2c_short", "i2c_long", "2wire", "3wire">>
I2C == {"i2c_short", "i2c_long"}
Complement == [b \in 0 .. 3 |-> IF b % 2 = 0 THEN b + 1 ELSE b - 1]

(* sync_state_t holds nothing: a behaviour is one call. *)
SyncInit ==
    \E kind \in {"i2c_long", "2wire"}, m \in [0 .. SyncSize - 1 -> {0, 2}] :
        syn = [mem |-> m, was |-> m, kind |-> kind, pc |-> "idle", as |-> kind, addr |-> 0, data |-> <<>>, todo |-> <<>>,
               retries |-> 0, k |-> 1, then |-> "idle", op |-> "none", ret |-> "none", proto |-> "none",
               fault |-> FALSE, blind |-> FALSE]

(* sync_write(): retries are for the whole call, not for each page. *)
SyncWrite(s, as, addr, data, then) ==
    [s EXCEPT !.pc = "write", !.as = as, !.addr = addr, !.data = data, !.todo = data, !.then = then,
              !.retries = IF as \in I2C /\ Len(data) > 1 THEN 2 ELSE 1]

sync_write(addr, data) ==
    /\ syn.op = "none"
    /\ syn' = SyncWrite([syn EXCEPT !.op = "write", !.was = syn.mem, !.fault = FALSE, !.blind = FALSE],
                        syn.kind, addr, data, "idle")

(* mutant: a page is counted from the address, not from its own start *)
CountUnaligned(s) == IF SyncPage < Len(s.todo) THEN SyncPage ELSE Len(s.todo)

(* The bytes that fit into the page of the address. *)
Count(s) == LET room == SyncPage - (s.addr % SyncPage)
            IN  IF room > Len(s.todo) THEN Len(s.todo) ELSE room

Cells(addr, n) == {(addr + i) % SyncSize : i \in 0 .. n - 1}

(* What the reader's sync_write may make of a chunk: nothing past the end of
   the page, which wraps inside it. *)
Stored(s) ==
    LET base == s.addr - (s.addr % SyncPage)
        at(i) == base + ((s.addr + i) % SyncPage)
    IN  [a \in DOMAIN s.mem |->
            IF \E i \in 0 .. Count(s) - 1 : at(i) = a
            THEN s.todo[1 + (CHOOSE i \in 0 .. Count(s) - 1 : at(i) = a)] ELSE s.mem[a]]

SyncEnd(s, ret) == [s EXCEPT !.pc = s.then, !.ret = ret]

(* The comparison: on to the next page, again, or the end. *)
SyncVerified(s, same) ==
    LET n == Count(s)
        t == [s EXCEPT !.addr = (@ + n) % SyncSize, !.todo = SubSeq(@, n + 1, Len(@))]
    IN  IF same THEN IF t.todo = <<>> THEN SyncEnd(t, "ok") ELSE t
        ELSE IF s.retries > 0 THEN [s EXCEPT !.retries = @ - 1] ELSE SyncEnd(s, "error")

(* One turn of the loop: the driver's write, its read, and the comparison.  A
   read that fails is not noticed: the buffer compared is then whatever was
   on the stack. *)
SyncLoop ==
    /\ syn.pc = "write"
    /\ \/ syn' = SyncEnd([syn EXCEPT !.fault = @ \/ syn.as = syn.kind], "error")
       \/ /\ syn.as = syn.kind
          /\ syn' = SyncVerified([syn EXCEPT !.mem = Stored(syn)], TRUE)
       \/ /\ syn.as = syn.kind
          /\ syn' = SyncVerified([syn EXCEPT !.fault = TRUE,
                                             !.mem[syn.addr] = Complement[syn.todo[1]]], FALSE)
       \/ \E same \in BOOLEAN, works \in BOOLEAN :
             syn' = SyncVerified([syn EXCEPT !.fault = @ \/ syn.as = syn.kind, !.blind = TRUE,
                         !.mem = IF works /\ syn.as = syn.kind THEN Stored(syn) ELSE @], same)

-----------------------------------------------------------------------------
(* ifd_sync_detect_icc() tries the kinds in turn. *)
ifd_sync_detect_icc ==
    /\ syn.op = "none"
    /\ syn' = [syn EXCEPT !.pc = "probe", !.op = "detect", !.k = 1, !.was = syn.mem, !.proto = "none",
                          !.fault = FALSE, !.blind = FALSE]

SyncNextKind(s) == IF s.k = Len(SyncKinds) THEN [s EXCEPT !.pc = "idle", !.ret = "error"]
                   ELSE [s EXCEPT !.pc = "probe", !.k = @ + 1]

(* ifd_sync_probe_icc(): power off and on, then read the first byte. *)
SyncProbe ==
    /\ syn.pc = "probe"
    /\ LET kind == SyncKinds[syn.k]
       IN  \/ syn' = SyncNextKind(syn)
           \/ \E b \in IF kind = syn.kind THEN {syn.mem[0]} ELSE 0 .. 3 :
                 \/ /\ kind \in I2C
                    /\ syn' = SyncWrite(syn, kind, 0, <<Complement[b]>>, "inverted")
                 \/ /\ kind \notin I2C /\ b \in {0, 1}
                    /\ syn' = SyncNextKind(syn)
                 \/ /\ kind \notin I2C /\ b \notin {0, 1}
                    /\ syn' = [syn EXCEPT !.pc = "atr", !.as = kind]

(* mutant: the byte is not put back *)
SyncInvertedKept ==
    /\ syn.pc = "inverted"
    /\ syn' = IF syn.ret = "error" THEN SyncNextKind(syn)
              ELSE [syn EXCEPT !.pc = "restored"]

(* The complement was written: put the byte back, and do not look whether
   that works. *)
SyncInverted ==
    /\ syn.pc = "inverted"
    /\ syn' = IF syn.ret = "error" THEN SyncNextKind(syn)
              ELSE SyncWrite(syn, syn.as, 0, <<Complement[syn.data[1]]>>, "restored")

SyncFound ==
    /\ syn.pc = "restored"
    /\ syn' = [syn EXCEPT !.pc = "idle", !.proto = syn.as, !.ret = "ok"]

(* A 2-wire or 3-wire card has an ATR to read; without it the card is not
   taken. *)
SyncAtr ==
    /\ syn.pc = "atr"
    /\ \E ok \in BOOLEAN :
          syn' = [syn EXCEPT !.pc = "idle", !.proto = IF ok THEN syn.as ELSE "none",
                             !.ret = IF ok THEN "ok" ELSE "error"]

SyncNext ==
    \/ \E a \in 0 .. SyncSize - 1, n \in 1 .. SyncLen : sync_write(a, [i \in 1 .. n |-> 1 + (i % 3)])
    \/ ifd_sync_detect_icc
    \/ SyncLoop \/ SyncProbe \/ SyncInverted \/ SyncFound \/ SyncAtr

-----------------------------------------------------------------------------
(* sync_write() returns 0 only when the card holds exactly the bytes asked
   for and nothing else of it has changed, over page ends and the end of the
   address space; a verifying read that failed unnoticed ends that promise. *)
SyncWritten ==
    syn.pc = "idle" /\ syn.op = "write" /\ syn.ret = "ok" /\ ~syn.blind =>
        LET n == Len(syn.data)
            first == (syn.addr + SyncSize - (n % SyncSize)) % SyncSize
        IN  /\ \A i \in 0 .. n - 1 : syn.mem[(first + i) % SyncSize] = syn.data[i + 1]
            /\ \A a \in DOMAIN syn.mem \ Cells(first, n) : syn.mem[a] = syn.was[a]

(* Looking for the kind of card leaves its memory as it was, but for the first
   byte when a driver call failed in between: whichever fails, no other byte is
   touched. *)
SyncProbeKeeps ==
    syn.pc = "idle" /\ syn.op = "detect" =>
        /\ \A a \in DOMAIN syn.mem \ {0} : syn.mem[a] = syn.was[a]
        /\ ~syn.fault => syn.mem = syn.was
=============================================================================
