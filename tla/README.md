# A TLA+ verification of OpenPGPCardEmu

OpenPGPCardEmu emulates an OpenPGP smart card on an Arduino (or in a standalone
test program) and makes it available to a PC through a driver for OpenCT, a
user-space framework for smart card readers that the repository carries with it.
This directory holds TLA+ models of the parts of that system which are hard to
test, the TLC runs that check them on small instances, and TLAPS proofs that
hold for every instance.

## 1. The system

```
 client programs                 ifdhandler (one process per reader)              emulator
 ct/client.c  --- unix socket ---> ct/mainloop.c, ifd/ifdhandler.c
 ctapi, pcsc, ifdproxy              ifd/process.c, ifd/locks.c
      |                             ifd/reader.c, ifd/protocol.c
      |                             ifd/ifd-cardemu.c --- serial line ---> main_loop.cpp
      +---- status file (mmap) ---- ct/status.c                            comm_helper.cpp
            openct-control starts and stops the handlers
```

| Component | State | Operations | What is hard | What makes it correct |
|---|---|---|---|---|
| Emulator firmware (`ArduinoCardEmu/main_loop.cpp`, `comm_helper.cpp`) | card present, `writePending`, in `loop()` or in `resync()` | one request, one answer; `resync()` after every error | damaged, lost, misaligned frames; reboot at any time | after a resync both sides agree on where they are |
| cardemu driver (`ifd/ifd-cardemu.c`) | retry counters, the current step | open, status, activate, deactivate, reset, send, recv, each retried around `resync()` | late answers, timeouts, failed writes, restarts | what it reports as success is true of the card; it returns; it recovers |
| Lock table (`ifd/locks.c`, `ifd/process.c`) | list of locks, handle counter | lock, unlock, release on close, check | clients that die, reused connection objects, handle reuse | compatibility of locks, ownership, release |
| Status file (`ct/status.c`, `ifd/ifdhandler.c`, `ifd/utils.c`) | pid per slot, lock file | allocate, fork, exit, clear | concurrent starts, killed processes, stale lock, full table | a slot of its own for each server |
| Server and RPC (`ct/mainloop.c`, `ct/socket.c`, `ct/client.c`) | socket buffers, poll events, xid | accept, fill, get packet, process, put packet, flush | partial packets, buffers at their limit, death of a peer | every request answered once, to its sender |
| Calls (`ct/tlv.c`, `ct/buffer.c`, `ct/client.c`, `ifd/process.c`) | large tags of a connection | one call per function of the library | lengths at their limits, parsers that leave values unset | a call runs as asked and returns what was answered |
| Reader and slots (`ifd/reader.c`, `ifd/protocol.c`) | card number, ATR, protocol per slot | poll, event, status, reset, command | a change reported once, lost events, cards swapped unseen | a client notices every card change |
| ATR and PTS (`ifd/atr.c`, `ifd/reader.c`) | what has been received | receive, parse, select, negotiate | answers in pieces, optional bytes | card and reader end with one protocol and speed |
| Card protocols (`ifd/proto-*.c`) | sequence bits, block state | transceive, resynch, abort, memory access | retransmission, chaining, late bytes | an APDU is delivered once and whole |
| Reader drivers PertoSmart, CCID, Kaan (`ifd/ifd-*.c`) | transmission state, cached status, protocol of each slot | open, status, reset, set protocol, send, recv | late answers, steps failing one by one, status read away | answers are their own, both ends agree, every change is reported or its loss accounted for |
| CT-API (`ctapi/ctapi.c`) | terminals, their lock, current file, synchronous flags | CT_init, CT_data, CT_close | calls in any order, flags left by old resets | commands go to the slot addressed, files read right |
| Remote access (`ifd/ria*.c`, `ifdproxy.c`) | peers, queues, command numbers | register, claim, forward, answer, close | late answers, either end going first | an answer goes to the command it belongs to |
| PC/SC, configuration, other drivers, OS back ends | various | various | mostly input and output | see section 8 |

`PROJECT.json` lists every component with its sources, the hazards of the code
at their lines, and the definition-to-source map.

## 2. Modules

| Module | Models | Builds on |
|---|---|---|
| `CardEmuWire` | the serial line at the level of frames, and what a fault does to it | |
| `CardEmuDevice` | the emulator firmware | `CardEmuWire` |
| `CardEmuHost` | the cardemu driver | `CardEmuWire` |
| `CardEmuLink` | driver, line and emulator together, timeouts, faults, crashes; the properties | `CardEmuDevice`, `CardEmuHost` |
| `CardEmuLinkProofs` | type correctness; soundness of the resync handshake, and of every call on a line in sync | `CardEmuLink` |
| `IfdLocks` | lock table, connections and main loop of one ifdhandler | |
| `IfdLocksProofs` | four theorems about it | `IfdLocks` |
| `StatusFile` | slot allocation by concurrent ifdhandler processes | |
| `StatusFileProofs` | three theorems about it | `StatusFile` |
| `MCHandlers` | the starts and the slots of ifdhandler in one run | `StatusFile`, `ReaderSlots` |
| `T1Blocks` | the blocks of T=1 and the half-duplex line to the card | |
| `ProtoT1` | `proto-t1.c`: transceive and resynchronize | `T1Blocks` |
| `T1Card` | the card's side of T=1 (external) | `T1Blocks` |
| `T1Link` | reader, line and card together; the properties | `ProtoT1`, `T1Card` |
| `T1LinkProofs` | five theorems about it | `T1Link` |
| `RpcService` | what `ct_socket_call()` promises: at most one execution, its own answer, or failure | |
| `IfdServer` | client library, main loop and handler with their sockets and buffers | implements `RpcService` |
| `IfdServerProofs` | the sockets stay sound; the refinement | `IfdServer` |
| `ReaderSlots` | the slots of a reader, card numbers, polling and events, the client's card status | |
| `ReaderSlotsProofs` | the numbers and ATRs of the slots are right | `ReaderSlots` |
| `Ria` | application, proxy and exporter of a remote device | |
| `RiaProofs` | three theorems about it | `Ria` |
| `ProtoT0`, `ProtoGbp`, `ProtoSync` | the other card protocols, each with its card or reader | |
| `PertoSmart`, `Ccid`, `Kaan` | reader drivers | |
| `Calls` | the arguments and answers of the library's calls, as they are encoded | |
| `Atr` | receiving and reading an ATR, PTS | |
| `CtApi` | the CT-API front end | |
| `MCLink`, `MCLocks`, `MCT1`, `MCServer`, `MCRia` | instances for TLC | |
| `MCParts` | the parts of the last five rows before these, one per behaviour | `ProtoT0` ... `CtApi` |
| `PartsProofs` | five theorems about the card protocols, the reader drivers and CT-API: own answers, agreement, memory, card changes, terminals | `MCParts` |

Definitions whose comment begins with "mutant" are wrong variants of the
definition that follows them. No specification uses them; substituting one must
make TLC refute the property it is listed with.

### The link: `CardEmuWire`, `CardEmuDevice`, `CardEmuHost`, `CardEmuLink`

A frame is a header with type and size, up to 14 payload bytes and a CRC8. In
the model it is a record of type and payload, and the payload is one of the
contents that the two programs tell apart: empty, a control sequence ("nonce"),
the on/off byte of CardStatus, an APDU length that is zero or not (`len0`,
`lenN`), a chunk of an APDU (`data2` is a chunk of two bytes, which the emulator
takes for a length when it does not expect data), the ATR length and the two
ATR parts. The first byte behind the header matters to `cardemu_card_reset`,
which takes it for the ATR length whatever frame arrives: `FirstByte` gives that
byte, the CRC when the payload is empty.

`h2d` and `d2h` are the frames under way. A fault drops a frame, turns it into
one or two pieces that do not decode (`Bad`), or leaves a header that promises
more bytes than follow (`Cut`). A receiver that meets `Cut` reads on until it
has enough bytes or its timeout strikes, and so may swallow all or part of the
next frame (`AfterDamaged`). Not modelled, and so assumed: a damaged or
misaligned frame never passes the CRC as another valid one.

`CardEmuDevice`: `mode` is where the program is (`loop`, `resync()` with
`resyncState` 0 or 1, `Commit()`), one action receives a request and sends all
its answers, `SendAnswer` never fails for the sizes used. `writePending` is
only ever compared with zero. `Commit()` is empty in the source; its comment
says that it may take a long time, and the model lets it take any time.

`CardEmuHost`: `pc` walks through one request and its answer (`cmd`, `ans`) or
through `resync()`; `stage` says which loop of which function is running.
`Accepts` gives the answer types a stage goes on with, the inverted test in
`cardemu_recv` included. `ResyncFailed` and `AfterBreak` are the two macros
`RUN_RESYNC_AND_RETRY` and `RUN_RESYNC_AND_RETRY_2`. `activate` is a reset whose
ATR is cut to one byte and is not a separate operation here. The rejection of
slot numbers other than 0 and of lengths over 65535 has no effect on the link
and is left out; so is the copying of data frames in `cardemu_recv`, which no
execution reaches. MAX_RESYNC_GARBAGE is counted in frames instead of bytes.

Timeouts. On a prompt link (`SlowLink = FALSE`) the host's timeout strikes only
when no answer is under way, during `Commit()`, or while the emulator itself
waits for the rest of a cut request. On a slow link it may strike at any time,
as long as at most `MaxLate` frames are on the line.

Crashes: `HostDies` (the driver's process is killed and opens the device again,
flushing an arbitrary part of what is queued) and `EmulatorReboots` (loses
unread input and starts with `setup()`).

`sync` and `committed` are history variables: whether `resync()` succeeded and
nothing failed since, and whether `Commit()` ran during the current call.

### The lock table: `IfdLocks`

`client[s]` is the user behind connection object `s`, `peer[s]` whether that
client is still there, `req[s]` the request it wrote. The handler is one thread,
so a request is one step. The lock list is a set of records; `n` is the number
of locks granted before, so the head of the list is the largest `n`, and the
handle is `n` modulo the width of the counter. Units up to and including
`nslots` are accepted, as in the code. `Restart` is any end of the handler.

### The status file: `StatusFile`

One start is two processes: the parent scans the table slot by slot, claims a
slot and forks; the child opens the reader and serves. Starts overlap freely, as
those of `openct-control attach` do when udev or hald find several devices, and any
process may be killed at any step. `lock` is the file
`status.lock`: the attempts to create it are bounded, the result is ignored, and
unlocking removes it whoever made it. The slot is found before `Unlock` and written
behind it (`Claim`). `Exists` is `kill(pid, 0)`, for which a
child that ended is still there until its parent has ended. `cursor = MaxReaders`
stands for the slot number -1: the write to `info[-1]` either ends the process
or hits memory outside the table. `exposed` is a history variable: the slots that a
second start found while the first that had found them was not over, and those
whose parent was killed behind `fork()`. Two servers do come to share such slots;
the properties say that nothing else brings them there. Pids are not reused, and
`-F` (no fork) is not modelled.

### T=1: `T1Blocks`, `ProtoT1`, `T1Card`, `T1Link`

A block is a record of kind, sequence bit, detail (chaining bit, error code, type
of an S block) and data; data are sequences of bytes that know the call or
command and the place they come from, so that a byte lost, repeated or out of
place shows. `ProtoT1` has the variables of `t1_transceive`: `pc` is where
`t1_xcv` was called from, and one action is one turn of the loop, from the answer
to the next block or to the return. `retries` is unsigned and wraps (`RetryMod`).
The label `resync` is `Resync`, or `ResyncFrom` where the block before it was
acknowledged in the same turn. `wtx` only stretches a timeout and is left out, as
are the address byte, the encoding of a block and the size limits of `t1_xcv`,
which the blocks of this card never reach. The reader's timeout of twenty seconds strikes
only when no block is under way: an answer later than that is not modelled.

The card is not part of the repository. `T1Card` follows ISO 7816-3 as far as
`proto-t1.c` relies on it: it collects a chain, executes it, sends its response
in blocks of `Ifsd` bytes, repeats what was not understood, and may put a request
for time, for another block size (zero included, which the reader must refuse) or
for an abort in place of an answer. `limit` is the largest block it can take: it
accepts larger blocks from its request on and may expect smaller ones
from the grant on.

`runs` (the commands executed during the call), `apdu`, `quiet` (no resync and no
abort in this call) and `mixed` (a request of the card was granted while the
reader was in state RESYNCH) are history variables. After `mixed` the sequence
numbers of the two sides may differ, a response may be cut, and the exchange may
go on forever, because an I block with the wrong number is answered
without being counted; ResponseIntact, SeqAgree and CallEnds hold up to that event.

### The server: `IfdServer`, `RpcService`

A packet is a header fragment that announces its body fragments; the queues of the
kernel and the buffers `rbuf`, `sbuf` (server) and `crbuf` (client) carry
fragments, and a read or a short write moves any part of what is there. The handler polls
(`Poll` takes a snapshot of the events), then serves the named sockets one by one
with the events of that snapshot: `OnInput` is the whole of `ifdhandler_recv`
(fill, take one packet, execute, put the answer), `OnOutput` flushes, `OnError` is the
call through `sock->error`, and a socket whose handler fails is closed by
`Drop`. When the table of sockets is full the listener is not polled. On the
client's side `Call` sends, `CallRead` reads and compares `xid`, `CallFails` is any
failure. `xid` wraps (`XidMod`). `RpcService` is the abstract specification;
`RefinesRpc` states that `IfdServer` implements it with `phase` read off the program
counter of the caller.

### Slots: `ReaderSlots`

Cards are numbered in the order in which they are put in. `seq` is the number in the status
file (`ct_card[slot]`), `of` the card it was given to, `atr` the card whose ATR the slot
keeps. `edge` is the change that the driver reports once, to whoever asks first.
In mode `poll` the main loop polls a slot once a second (`wait`), in mode `event` the
CCID driver's capture on the interrupt pipe delivers messages, ended and begun again
around every command (`Bracket`). Every command of `ifdhandler_process` that
touches a slot is an action. `ClientStatus` is `ct_card_status`. `stolen` and `dirty`
are history variables for what the code loses: a change reported to `CT_CMD_STATUS`
only, and events dropped when a capture ends or flags read uninitialised.

### Remote access: `Ria`

Packets are whole. `toProxy`, `toApp`, `toDev`, `fromDev` are the connections,
`peer` and `devPeer` the proxy's two pointers. `RiaRecv` is one packet in
`ria_recv()`, with data queued while a response is waited for; `AppHandler` and
`DevHandler` are the two handlers of the proxy with `ct_socket_default_recv_cb`,
which does not return errors; `DevsockProcess`, `PollOut` and `PollIn` are the exporter.
`mixed` marks an application that claimed the device while traffic of an earlier one
was still under way; the code does nothing about that traffic, and the properties
exclude it. A send may take several packets (`Chunks`), and each takes its bytes from
the start of the buffer (`Send`), as in the code: `got` are the numbers of the packets
that reached the reader, `gotBytes` the chunks in them. The numbers arrive in
order (`PacketsInOrder`); the bytes do not (`SentIntact`, refuted).

### Card protocols: `ProtoT0`, `ProtoGbp`, `ProtoSync`

`ProtoT0`: a byte from the card is what it is and the command it belongs to; the code
tells procedure bytes from data by value, so a data byte or an SW2 read where a
procedure byte is due can look like any of them (`T0Class`). `T0Procedure`, `T0Sw2` and
`T0Data` are the turns of `t0_xcv`, `T0Ended` what `t0_transceive` does with the status
word. `T0Block` is the block-oriented form. `room` is the caller's buffer, which only an
exchange that sends respects: one that receives stores up to `le + 2` bytes whatever
`room` is (the comparison at `proto-t0.c:153` is commented out), and the SW2 that
follows an SW1 in the last byte goes one past that (`past`). A command to the device
that fails may have reached the card nonetheless (`T0Send`). `slipped` marks a receive that failed:
`t0_transceive` then forgets the state CONFUSED, and bytes that come later are read by the
next command. `dirty` marks a call that found something of an earlier one in the line
or the card still at it.

`ProtoGbp`: blocks with a sequence number; `GbpLoop` is one turn of the loop with its
unsigned retry counter, `GbpResync` the label `resync`, `gbp_resynchronize` the call
of that name. `late` marks a call that found the line not clear, and an answer that came
after it was given up.

`ProtoSync`: `SyncLoop` is one page of a verified write, `SyncProbe` to `SyncAtr` the
search for the kind of card, which writes the complement of the first byte and
puts it back. `blind` marks a verifying read that failed unnoticed, `fault` any call to
the driver that failed.

### Drivers: `PertoSmart`, `Ccid`, `Kaan`

A call of a driver is one step, since the core calls one at a time; the commands within it
are composed from the set of outcomes of one command (`Command`, `CcCommand`,
`KnXcv`), so that every one of several commands can fail, or succeed at the reader
with its answer lost or late.

`PertoSmart` has both drivers (`model`): the transmission state `if_state`, the frame
received with its parts right or wrong (`Decode1030`, `Decode1038`), the notifications
that are collected by whichever call reads them, and reset with the choice of a
protocol. `Ccid`: the readers of `CcDevices` differ in interfaces and features, and
every branch on `dwFeatures` is taken; `owed` is the queue of the answers the driver gave
up on, which come before that of the next command, `notes` the messages in the
interrupt pipe, each about all slots. `Kaan`: `proto` and `icc` are the two
places where the protocol of a slot is kept; `frozen` is the reader asleep; `stored` is
what `kaan_read_binary` puts into a buffer of `asked` bytes. PIN pad
and display commands are one exchange.

History variables: `swapped` says that a card in use was taken out (in `Ccid`, that a card
moved in the first slot) and no status call has reported it; `eaten` that the message
about it was read away by a reset or, in `Ccid`, for the other slot.

### Calls and front end: `Calls`, `Atr`, `CtApi`

`Calls` encodes the arguments of each library function into a buffer of its size
(`PutItem`, `IntParts`), parses them as `ct_tlv_parse` does, executes, and
returns. A byte has the base `TlvByte` instead of 256 and the buffers are scaled with it,
so that lengths beyond one byte and beyond every buffer occur. `Garbage` is the value of
a tag that the parser on the client's stack never set.

`Atr` builds ATRs as ISO 7816-3 has them and feeds them through `RecvAtr` and
`ifd_atr_complete`, parses them with `ifd_atr_parse` and `ifd_protocol_select`, and
negotiates with the PTS of the Eutron and CCID drivers. `IsoSupported` and `IsoDefault`
are the reference definitions.

`CtApi` has the list of terminals, the lock each one takes, the current file and the
synchronous flags; `CT_dataControl` and `CT_dataCard` cover every instruction that
`ctapi_control` and `ctapi_transact` know, with the form of the command and the room for the
answer as parameters. `CT_close` walks on from the terminal it has freed: the model lets the
read find the old pointer, or end the program (`running`).

### One run for the parts: `MCParts`

These nine modules do not act on each other, and each has one variable. `MCParts` picks
one of them in its initial state and leaves the variables of the others alone;
its invariants join properties of the same kind: `AnswerIsOwn`, `EndsAgree`,
`MemoryKept`, `CardChangeKept`, `CallIntact`. `MCHandlers` does the same for the starts
of `StatusFile` and the slots of `ReaderSlots`, which share no variable.

Where the code does lose something, the property says exactly what, rather than
leave the case out:

| Property | What the code does, and the property admits | Where |
|---|---|---|
| `AnswerIsOwn` | T=0 and GBP: a call that finds the line not clear may take what is in it | `proto-t0.c:207`, `proto-gbp.c:192` |
| `AnswerIsOwn` | the 1030 returns a frame cut short as success, though never one of an earlier APDU | `ifd-pertosmart1030.c` (`Decode1030`) |
| `AnswerIsOwn` | CCID: after as many failures in a row as there are sequence numbers a late answer fits again | `ifd-ccid.c:378` |
| `MemoryKept` | T=0 stores `le + 2` bytes and one SW2 behind them in a buffer of any size | `proto-t0.c:204`, `:257` |
| `MemoryKept` | an access of more than 256 bytes on the Kaan, no multiple of that, stores less than 256 bytes too many | `ifd-kaan.c:887` |
| `MemoryKept` | a verified write whose read failed; the first byte, when the search for the kind of card could not put it back | `proto-sync.c:76`, `:119` |
| `CardChangeKept` | the 1030 compares states: a card replaced by another between two polls is not reported | `ifd-pertosmart1030.c` |
| `CardChangeKept` | the 1038 and CCID: a notification read away by a reset, or (CCID) for the other slot | `ifd-pertosmart1038.c`, `ifd-ccid.c:948` |

## 3. Runs

| Run | Configuration | Result |
|---|---|---|
| `link` | answers arbitrarily late, two faults, every operation but recv | TypeOK, HandshakeSound, InSync, ReportIsTrue, AtrFits, SendCommitted hold |
| `link_live` | prompt line, fair scheduling, two faults, every operation but send, control sequences may repeat | CallReturns, Recovers, InSync hold |
| `link_send` | the line goes dead | SendReportsFailure **violated** |
| `locks` | two connections, two users, units 0 and 1, two grants with one handle value, fair main loop | TypeOK, LocksCompatible, LocksOwned, NoForeignRelease, DeadReleased hold |
| `locks_apdu` | | ApduExclusion **violated** |
| `handlers` | three overlapping starts, two slots, two processes killed anywhere, stale lock files; and one reader slot (units 0 and 1), two cards, polling and events | StatusTypeOK, SharedByRaceOnly, RunningListed, StartEnds, SlotsSound, ChangeNoticed hold |
| `status_race` | two overlapping starts, none killed | SlotsDistinct **violated** |
| `t1` | three damaged or lost blocks, one S request of the card, chains in both directions, a receive buffer that is too small | TypeOK, ResponseIntact, SeqAgree, ExactlyOnce, BlocksFit, CallEnds hold |
| `server` | two callers, packets in two fragments, answers that do not fit, room for one or two clients | SocketsSound, RefinesRpc, CallReturns hold |
| `ria` | two applications with four and three packets, sends of one and two, queues of two | PeersSound, PacketsInOrder, AnswerIsOwn hold |
| `ria_send` | the same | SentIntact **violated** |
| `parts` | the nine modules of `MCParts` | AnswerIsOwn, EndsAgree, MemoryKept, CardChangeKept, CallIntact, AtrFollowed, TerminalSound, TransceiveEnds hold |

What the runs show about the link: after a successful `resync()` the line is
empty and the emulator is in `loop()`, even when answers are late, because a
stale answer cannot contain the control sequence just drawn. Without that
comparison (mutant `ControlSequenceUnchecked`) a late answer completes the
handshake of a later try and every following answer is off by one.

`ReportIsTrue`, `AtrFits` and `SendCommitted` speak of a line in sync (`sync = "held"`).
When `resync()` itself fails, the driver's next call writes to a line that may still
hold older answers, and takes one of those for its own: with four faults and a
single try of everything (`MaxFaults = 4`, `MaxResync = 1`, `MaxCmdTries = 1`, slow
line) TLC finds a status that reports an older state and an ATR copied beyond
what its first frame announced.

Bounds. Retry limits are 2 or 3 instead of 3 and 10: every counter reaches its
limit and both the retried and the exhausted path are taken. Two faults allow a
fault during the recovery from another one. `MaxLate = 3` is the least for which
the mutant without the comparison is refuted, and three control sequences are
enough to draw a new one with the frames that many can leave. One chunk is enough for
the first-, last- and only-chunk cases, since the emulator keeps no count. In
`locks` two grants with one handle value make handles collide (the theorems of
`IfdLocksProofs` hold for every number of grants). In `handlers`
three starts on two slots reach a full table and the reuse of abandoned slots, and two of
them can race for a slot while a third is served.
In `t1` a command has up to three bytes and the card takes two per block (one or
three after a request), so that commands of one and of two or three blocks occur;
responses have up to four blocks. Three faults exhaust two retries and
lead through a resync, or disturb a resync.

In `server` the buffers hold two fragments, a packet has one to three: an answer
fits, fills the buffer behind another one, or never fits; `xid` wraps at 2
and skips 0, so that every call has the same number and nothing but the order of the packets
keeps the answers apart, the hardest case for `RefinesRpc`. In `handlers` two cards are enough for a swap, and the
numbers do not wrap. In `ria` the second application can claim before, during
and after the first, and two packets of one send can be separated by the end of either side. In `parts`: T=0 has two commands with up to two bytes each
way, one late answer; GBP three faults with two retries and two resyncs,
which exhausts each; memory has two pages, and writes of three bytes cross a page and the
end of the address space; CCID numbers wrap at 4 and two commands in a row may fail, so
that two late answers are under way at once (the code has 256 numbers and no limit); Kaan moves two
bytes per command, and accesses of one and three bytes lie on both sides of that;
call lengths lie on both sides of each buffer (6, 12, 40) and of one-byte lengths (32).

`link` identifies states that differ only by a permutation of the control sequences,
which are never ordered or chosen from.

Deadlock is checked except where a behaviour may be over: all starts done (`handlers`), the
handler dead (`server`), all packets sent (`ria`), one call made (`parts`).

### Findings

1. `cardemu_send` returns 0 when `resync()` fails before the commit request is
   answered: `break` leaves the loop with `tr < MAX_CMD_TRIES`, which is the test
   for success. `SendCommitted` is what does hold: as long as no resync
   failed, success means that the commit was executed.
2. Two concurrent starts are given one slot: the lock of the status file is released
   before the slot is written. `SharedByRaceOnly` is what does hold.
3. A send of more than `RIA_SEND_CHUNK` bytes gives the reader its first chunk again
   and again. `PacketsInOrder` is what does hold.
4. `CT_CMD_TRANSACT` is not subject to exclusive locks, only `CT_CMD_TRANSACT_OLD`
   is, although the comment speaks of any APDU.

Disagreements between code and comments that no run of the table repeats. Each is a
property of its module, which TLC refutes under the constants of that module's run. Those
of a module that `MCParts` joins need the guard of the properties there
(`part = "calls" => NoAtrIsNone`), since the state of the other parts is "off".

| Property | Where | What happens |
|---|---|---|
| `CardEmuLink!RecvSucceeds` | `ifd-cardemu.c` (`cardemu_recv`) | the test of the answer type is `!= A \|\| != B`, so recv never succeeds |
| `T1Link!WholeCommand` | `proto-t1.c:317` | after a resync in the middle of a chain the card executes the rest of the APDU as a command of its own; `ExactlyOnce` is what holds without a resync |
| `IfdServer!HandlerSurvives` | `mainloop.c:104` | POLLERR on a client's socket calls a null function pointer |
| `ReaderSlots!EventArrives` | `driver.h:345` | an event that arrives while a command ends the capture is lost |
| `Ria!RefusalIsTold` | `socket.c:643` | the proxy never sets `header.error`, so a refused claim looks granted |
| `ProtoGbp!GbpLimited` | `proto-gbp.c:264` | after a resync the call waits for the old sequence number, and every block with the new one gives it its retries back |
| `Calls!NoAtrIsNone` | `client.c:195` | a synchronous card's reset returns uninitialised stack as its ATR |
| `Atr!PtsAccepted` | `ifd-eutron.c:288` | a PTS answer in pieces is taken for complete a byte too early (`=+` in `atr.c:165`) |
| `PertoSmart!PsDefaultProtocol` | `reader.c:214` | a card put in after one with another protocol is reset to the protocol of the first |

Also met, and described where the model has them: `ifd_atr_parse` rejects an ATR whose last TD byte
announces nothing (`atr.c:50`); `ct_card_verify` ignores that its PIN data did not fit;
a full status table yields slot -1 instead of an error (`status.c:177`); CCID's GETSLOTSTAT always asks for slot 0; `put()` of `ctapi.c` skips
wrongly inside a record; `CT_close` walks on from a freed terminal.

## 4. Fairness

`CardEmuLink!FairSpec`: weak fairness of the emulator's steps, of the driver's
steps, and of the timeout. Both programs are sequential and never block
except on input, and time passes. Faults, crashes and calls are not fair.
`Recovers` says what happens once the faults are used up. `IfdLocks!FairSpec`:
weak fairness of serving each connection; `poll` is level-triggered and the main
loop visits every ready socket in each round. `StatusFile!StatusFairSpec`: a parent
process keeps running; servers may run forever. `T1Link!FairSpec`: the reader waits
no longer than its timeout, and the card answers every block that reaches it, as
ISO 7816-3 has it. `IfdServer!Spec`: the handler's loop keeps running (it never
waits for one client: `poll` is level-triggered and every socket it named is served),
and a caller that waits in `ct_socket_call()` reads what arrives; callers need not
call. `ReaderSlots!Spec`: time passes, the device delivers its interrupt
messages, the main loop takes events, and a poll of a slot, which may fail, does not
fail for ever (strong fairness of the poll that succeeds). `MCHandlers!HandlersSpec` has the
fairness of both. `MCParts!FairSpec`: the
driver's side of T=0 and GBP runs until it waits and waits with a timeout, and
the card or reader sends what it has begun.

## 5. Proofs

All proofs are checked by TLAPS for arbitrary constants that satisfy the named
assumptions of the modules.

* `CardEmuLinkProofs!TypeCorrect`: `Spec => []TypeOK`. One lemma per group of actions.
* `CardEmuLinkProofs!ResyncSound`: `FreshNonce` implies `Spec => []HandshakeSound`.
  HandshakeSound alone is not inductive. `HandshakeInv` adds what holds earlier in
  the same try: while the host waits for its control sequence, no answer
  with that sequence is under way unless it is the last thing on the line
  (`WaitControl`); once it has been read, the line is empty and the emulator in
  `resyncState` 1 (`BeforeComplete`); and while it waits for the Ok, an Ok on the
  line is alone (`WaitOk`). Each fault and each timeout can only lead to states
  in which the try fails.
* `CardEmuLinkProofs!StaysInSync` (`InSync`), `ReportsAreTrue` (`ReportIsTrue`),
  `AtrCopyIsBounded` (`AtrFits`), `SendIsCommitted` (`SendCommitted`), from
  `FreshNonce` and the theorem before. None of the four is inductive, because
  each speaks of the end of an exchange. `SyncInv` follows the exchange: `HeldInv`
  says for every `pc` and `stage` what may be on the line while `sync` is held (nothing
  but the request, or its own answer, whole or damaged), what the emulator is in and
  what `rem`, `atr` and `committed` have come to; `OpOfStage` ties the
  loop to the function it belongs to, and `AtrEmpty` says when the copy begins.
* `IfdLocksProofs!LocksTypeCorrect`, `LocksExclude` (`LocksCompatible`),
  `LocksNotInherited` (`LocksOwned`), `ReleaseIsOwn` (`NoForeignRelease`, an action
  property). `LocksCompatible` is inductive by itself: only a grant adds a lock
  (`OnlyGrantsAdd`) and a grant has just been checked against all others
  (`GrantCompatible`). `LocksOwned` rests on the type invariant.
* `StatusFileProofs!StatusTypeCorrect` (`StatusTypeOK`), `SlotsSharedByRaceOnly`
  (`SharedByRaceOnly`) and `RunningIsListed` (`RunningListed`), for any number of
  starts at once and with any process killed at any step. `SlotInv` adds that a server exists only
  behind its fork (`ForkFirst`) and that a slot that is not exposed is held by one start at a time,
  where a start holds a slot from the moment it has found it (`HeldOnce`). A listed server
  is not free (`ListedNotFree`), so a scan can only find an unexposed slot that nobody
  holds (`ScanKeeps`), or exposes it. Nothing in the argument uses the lock file: it
  does not cover the step that matters.
* `IfdServerProofs!ServerSound` (`SocketsSound`) and `RpcRefined` (`RefinesRpc`).
  `ServerInv` says for each connection what is under way: nothing, or the one request
  of the call in progress, or its only answer; in either direction the
  buffer that reads and the kernel's queue behind it together make that packet
  (`ConnInv`), and after the handler closed the connection the caller has at most a part
  of it. From this the header is always read first, and every step of `IfdServer` is
  a step of `RpcService` or changes nothing there. `RpcService` states safety only.
* `ReaderSlotsProofs!SlotsAreSound`: `Spec /\ [][NoWrap]_vars => []SlotsSound`. `NoWrap`
  says that `card_seq`, an unsigned int, does not wrap in a step; after a wrap a card could
  get the number 0, which reads as no card. `SlotsInv` adds that every number in use is
  smaller than `card_seq` (`Below`), and that a captured message that waits to
  be processed marks every slot about which the status file is wrong (`MsgOk`).
* `RiaProofs!PeersAreSound` (`PeersSound`), `CallEndsWithItsAnswer` (`AnswerIsOwn`, an
  action property) and `PacketsArriveInOrder` (`PacketsInOrder`), for sends of any number of
  chunks. `RiaInv` has three parts. Order: no packet has a number
  larger than the last its application sent, and while that is a call it is the only
  one with that number, so that comparing `xid` is enough. Claims: an
  application claims at most once and with its first packet. Traffic: what is on the way to
  the device or back while an unmixed application owns it is that application's.
  `SentInv` follows the chunks of one application (`Flow`): along its connection to the
  proxy, the one to the device and the exporter's queue their numbers rise, each was
  sent, and each is larger than any the reader already has, which are themselves numbers
  that were sent. A send appends a run of consecutive numbers above all others
  (`FlowSend`). Both histories rise, so `got` is a part of `wrote` in order: the
  positions of its numbers in `wrote` rise with them, and there are as many
  (`RisingPart`, which counts with `CountRising`).

* `T1LinkProofs!T1TypeCorrect` (`TypeOK`), `BlocksFitTheCard` (`BlocksFit`), `NumbersAgree`
  (`SeqAgree`), `CommandRunsOnce` (`ExactlyOnce`), `ResponseIsWhole` (`ResponseIntact`).
  The last three speak of the end of a call. `PhaseInv` says where the exchange is before
  that: the card has not got the last I block (`Unheard`), it acknowledges a block of the
  chain (`Acknowledged`), it has executed the command and a block of the response is to
  come (`Responding`) or has been received (`Confirmed`), it reports an error that only
  a resync ends (`Doomed`), or the resync is under way (`Resyncing`). Each phase says
  what the two pairs of numbers are and what of the APDU or of the response is still to
  go: cut and rest together are the whole (`Split`, `IBlockIs`, `Chunk`). `FitInv` is about
  `ifsc`: a larger size counts from the card's request on, a smaller one from the grant
  on, and a grant on its way is already in use. A damaged or repeated block does not
  change the phase, whatever it was.
* `PartsProofs!AnswersAreOwn` (`AnswerIsOwn`), `DriversAgree` (`EndsAgree`), `CardMemoryKept`
  (`MemoryKept`), `CardChangesAccounted` (`CardChangeKept`), `TerminalsAreSound`
  (`TerminalSound`). The five properties join those of
  seven modules, with the exceptions of the table in section 2, and `PartsInv` has one
  inductive invariant for each of the seven.
  `T0Good`: what is read exceeds its buffer by no more than the SW2; for the byte-oriented form, as
  long as the call found the line clear and no receive in it has failed, every byte on the line is
  the one that the step of the
  command is waiting for, and between commands the line is empty and the card waits for a
  header, or the next call finds it not clear (`T0Calm`); `T0Side` has the bounds of a call
  whatever was in the line.
  `GbpGood`: in a call that found the line clear, as long as no answer came after it was
  given up, the line holds at most one
  block; between calls it is empty and, unless the
  state is DEAD, the two numbers are equal; during a call the reader
  knows the I block already, or is about to get it with the number it expects
  (`GbpCalm`). `SyncGood`: of a write from address `f` the first bytes up to `todo` are in the
  card and nothing else has changed, across page ends and the end of the address
  space (`SyncFrom`); the search for the kind of card changes memory only with the
  probe of its own kind, only the first byte, and holds what puts it back (`SyncProbing`).
  `PsGood`: when an answer of the 1030 may be owed and when the line of the 1038 is ready
  (`PsLine`), what `slot` and `cur` can be after each reset (`PsSlots`), and which
  notifications are still to come (`PsTold`). `CcGood`: the answers owed are in the order of their numbers, each belongs
  to one of the commands that failed in a row since the last that did not, and
  those are fewer than a turn of the numbers, so none can match (`CcOwes`, `CcLine`); a
  move in the first slot is told by a message in the pipe or has been read away, and the last
  message of the pipe is about the cards as they are (`CcTell`, `CcStill`), and parameters are
  set again after every reset. `KnGood`: a reader asleep compares with the states
  reported last (`KnAsleep`), and a slot with a protocol object for synchronous
  cards has been switched to that protocol in the reader (`KnObjects`); how far a read of
  several blocks goes is arithmetic (`KnWithin`). `CaGood`: every
  terminal on the list holds the lock its server granted, and the flag of each slot is what
  the last reset that succeeded found (`CaListed`, `CaFlags`); `CT_close` only takes a
  terminal off the list (`CaClosed`), and an init that gets no lock takes off the one it
  has just put in front, because that is found first, as the least element that fits
  (`CaRefused`, `CaLeast`); a command for a memory card has gone to the slot it addressed, to a card
  whose ATR has four bytes (`CaRes`).

Each inductive invariant was checked by TLC on the constants of its run, or smaller
ones, before it was proved.

Assumptions: constants have their types (`WireAssumption`, `HostAssumption`,
`LinkAssumption`, `LocksAssumption`, `StatusAssumption`, `ServerAssumption`,
`SlotsAssumption`, `RiaAssumption`, `BlocksAssumption`, `T1Assumption`,
`CardAssumption`, `T0Assumption`, `GbpAssumption`, `SyncAssumption`, `CcAssumption`,
`KnAssumption`, `CallsAssumption`, `CtApiAssumption`). Beyond types: a pid is never the mark of a free entry
(`StatusAssumption`), the unsigned retry counter of T=1 can hold the values it is set to
(`RetryMod` in `T1Assumption`; 2^32 in the code), and one poll of a reader cannot use up all card numbers
(`NSlots < SeqMod` in `SlotsAssumption`; the code has at most 8 slots and 2^32
numbers), a card's memory is a whole number of pages and a write no longer than
the memory (`SyncAssumption`; memory sizes and pages are powers of two), and the
CCID commands in a row that fail are fewer than the numbers
(`CcFails < CcSeqMod` in `CcAssumption`; the number is one byte and nothing in the code
counts such failures, so after 256 of them an answer still owed would be taken
for a new one). Hypotheses of single theorems: `FreshNonce` (`rand()` does not repeat a
sequence that is still on the line) and `NoWrap`, each as above.

Only model-checked: all liveness properties (fairness and `ENABLED` are outside what TLAPS
proves here), and two invariants. `CallIntact` and `AtrFollowed` of
`MCParts` speak of what `ct_tlv_parse` and `ifd_atr_parse` compute and of what the pieces
of a file come to, in the models recursive functions and folds over data of any length.
Each needs an induction over data.

## 6. Plan

1. Done: the link and its handshake proof; locks with proofs; slot allocation; all
   card protocols; server, RPC and refinement; slots; calls; ATR and PTS; CT-API;
   remote access; three reader drivers.
2. Done: proofs for the link, the locks, the status file, the server and its
   refinement, the slots, remote access, T=1, the other card protocols, the
   reader drivers and the terminals of CT-API. Open: `CallIntact`, `AtrFollowed`
   (see section 5).
3. Models still worth adding: CRC8 and header decoding over all bytes, with bytes on
   the line refined to `CardEmuWire`; `t1_negotiate_ifsd`; init and shutdown of
   `openct-control` in `StatusFile`; the wait for a card in `ifd_card_request`.

## 7. Running

In this directory: `tlc -config MCLink.cfg MCLink` and likewise for the other
configurations; `tlapm CardEmuLinkProofs.tla` and likewise for the other
proof modules. `PartsProofs` takes about a quarter of an hour from nothing, the
others a few minutes or less.

## 8. Not modelled

Not yet: see the plan. Not at all: logging, option parsing and printing; the
configuration parser; USB, PCMCIA and operating system back ends, which wrap
system calls; the PC/SC front end, which passes each call of pcscd to one of the
calls in `Calls`; the drivers that are not named above (GemPC, Towitoko,
Cyberjack, WBE, Rutoken, ACR30U and others), which wrap commands for hardware the
repository does not describe, around the shared code that is modelled.
