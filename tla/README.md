# A formal model of the SOII-ipc Delivery Manager

This directory holds a TLA+ development of the Delivery Manager: a server that
receives the messages of three local producers through a POSIX message queue and
forwards them over TCP to the remote clients the operator has subscribed, keeping
the sessions of clients that lose their connection alive for a few seconds. It
also keeps a log, which a client can be sent as a zip file. TLC checks the model
on small instances; TLAPS proves theorems about it for every value of its
constants.

## 1. The system

| component | source | state | operations | talks to |
|---|---|---|---|---|
| server loop | `server/src/srv.c`, `srv_util.c` | `connections`, `susc_room[]`, `buffer_packets`, `last_gc_time`, the epoll set, one stack slot for the packet read, `orig_conn` and a list iterator while it sends packets again | accept, hang-up, ACK, AUTH, one command, one message, two collectors | clients (TCP), CLI (FIFO), producers (mq), transfer threads |
| packets | `common/src/protocol.c` | none | `gen_packet`, `check_packet_MD5`, `get_file_MD5` | used by both ends |
| subscriber | `client/src/cliente.c` | `token`, argument of `-t`, the packet buffer | connect; answer CONN_ACCEPTED, CLI_ACCEPTED, DATA; leave at FIN; fetch the log at FT_SETUP | server |
| producers | `productores/src/*.c`, `common/src/mq_util.c` | the message being filled in | join the queue, stamp, read the data, send, give up at SIGTERM | message queue |
| CLI | `server/src/cli.c` | its input buffer, descriptors of the FIFO | parse a line, write a `command_t` to the FIFO | server |
| linked list | `server/src/list.c` | nodes, sentinel | add, find, get, delete, slice, to_array, free; the collectors walk it | server |
| log transfer | `srv_util.c` (`handle_loq_req`), `cliente.c` (`recv_file`) | sockets on a fixed port, `log_comprimido.zip`, `rcv_file.zip` | bind, listen, accept, zip, send blocks, compare MD5 | threads of both programs |
| compression | `miniz.h` (tdefl, tinfl), `zip.c` | the compressor, the decompressor | compress in pieces, inflate in pieces | transfer thread |
| archive file | `zip.c`, `miniz.h` (mz_zip) | bytes on disk, the directory in memory, the entry being written | open, add, delete, finalize; read | transfer thread |
| event log | `srv_util.c` (`log_event`) | text files | append | nobody reads it |

The server is one thread. An iteration of its loop handles every event one
`epoll_wait` returned, at most one command, at most one message, and then runs
both collectors. Nothing it does blocks, but between two of its steps clients
connect, answer and die, the operator types, producers stamp and send, the clock
ticks, and transfer threads write to the descriptors they were given.

What makes it hard:

* **Descriptor numbers are the identity of a session** in the rooms, in the epoll
  set, in `connection_t` and in the threads; `close` frees the number and the next
  `accept` takes the lowest free one, also within one batch of events.
* **Reconnection merges two sessions**: AUTH carries the old and the new token,
  the new entry is deleted, the old one moves to the new descriptor, the old
  descriptor is closed, and the buffer is sent again. Each half can fail.
* **ACKs name a session, not a packet**, and come on any connection.
* **Four clocks** meet: a producer's stamp, `gen_packet`'s `time`, the session's
  stamp and the collectors' `time`.
* **Everything is bounded**: descriptors, socket buffers, FIFO and queue.
* **Nobody looks at the count** a read or a write returns, and end of file is not
  told from a packet.
* **Transfer threads share** one port, one zip file and one descriptor table.
* **The archive is rewritten in place**, and writes to it may fail.

What makes each part right: a session belongs to one client; a room names only
descriptors of sessions, each once; `susc_counter` counts the rooms; a dead
session is collected and a live one is not; the packets that a returning client
is owed stay in the buffer; a client that stays gets the messages of a producer
in order and once; nobody's disconnection harms another client; a command does
what was typed; a receiver that says its file is intact has the whole log; the
list never touches a node it released; what is compressed is what is inflated;
an archive that was finalized reads back, and a broken one is not believed.

## 2. Modules

```
Protocol            packets, gen_packet, check_packet_MD5
  Ipc               descriptors, TCP, FIFO, message queue, clock   (external)
    Cliente         the subscriber
    Productor       the producers
    DeliveryManager the server
      System        composition, operator, clock, Spec and FairSpec
        SystemProps   properties; refinement of PubSub
          MCSystem      what the .cfg files instantiate
        SystemProofs  lemmas on lists, packets and sockets; type correctness
          SessionProofs   a session is one client's; rooms name sessions, and
                          counters count rooms             (with SystemProps)
            DeliveryProofs  what is on its way: packets, ACKs, FIN, messages;
                            the server implements PubSub; what it keeps of
                            the statements it breaks; a turn of its loop ends
PubSub              the abstract specification of subscriptions

LogTransfer         the threads of `log' and of recv_file           MCLogTransfer
  LogTransferProofs   one transfer at a time; sessions untouched; the file
                      and the verdict
Framing             one connection, byte by byte                    MCFraming
  FramingProofs       what is handled, once; whole packets
Lifecycle           CLI, producers, restarts of the server          MCLifecycle
  LifecycleProofs     commands as typed, read once; messages survive
LinkedList          list.c on a heap                                MCLinkedList
  ListSpec            the abstract specification: a sequence
  LinkedListProofs    memory safety, shape, no leak; list.c implements the
                      sequence; the collectors; its loops end

DeflateFormat       symbols, extra bits, bit strings
  Huffman             making of codes
    Deflate             the compressor of miniz
  Inflate             the decompressor of miniz
Crc32               the CRC, four bits at a time, and its definition
    Compression         an entry from fread to inflated bytes       MCCompression
ZipArchive          the file: entries, directory, crashes           MCArchive
  ArchiveProofs       an archive made anew or appended to: refused or complete
```

**Protocol.** A payload is a short sequence of numbers (tokens; producer and
sequence number). MD5 is injective, so a digest is the tuple it is computed over.
`gen_packet` with a payload that does not fit leaves payload and hash zero, as the
early return does. `Packet` says that a packet that carries tokens does carry
them: both ends fill in the whole payload before they send it.

**Ipc.** `fdtab` maps each descriptor of the server to the client at its other
end; `Min(FreeFd)` is the number the next `accept` returns. `up[c]` and `down[c]`
are the bytes in flight, in packets; writes to the clients are non-blocking and
lose what does not fit (`Push`), the client's blocking writes wait. A client that
dies leaves `peer[c] = "closed"`; data that reaches it afterwards is answered with
an RST (`KernelReset`), which is what turns an end of file into EPOLLHUP.

**Cliente.** One action per branch of the receive loop, `Start` up to `connect`,
and `Kill`. A restarted process is another member of `Client` that passes to `-t`
a token an earlier one printed. Its transfer thread is in `LogTransfer`.

**Productor.** `Stamp`, `MqSend`, `GiveUp` in the order of the source: the stamp
is taken before the data is read, so the clock may move before the message is sent.

**DeliveryManager.** `pc` is the part of the loop that runs:

| `pc` | source | actions |
|---|---|---|
| `poll` | `srv.c:144-149` | `Poll` |
| `events` | `srv.c:150-282` | `Accept`, `AcceptFails`, `HangUp`, `ReadFails`, `ReadInvalid`, `RecvAck`, `RecvUnknownAck`, `RecvAuthRejected`, `RecvAuthAccepted` |
| `resend` | `srv.c:258-276` | `Resend`, `Resent`: one node of the buffer at a time |
| `cli` | `srv.c:284-377` | `NoCommand`, `RefuseCommand`, `CmdAdd`, `CmdDel`, `CmdLog` |
| `mq` | `srv.c:379-412` | `NoMessage`, `MqReceive` |
| `gc_conn`, `gc_conn_loop` | `srv_util.c:106-157` | `CollectConnections`, `CollectConnection`, `ConnectionsCollected` |
| `gc_pkt`, `gc_pkt_loop` | `srv_util.c:74-104` | `CollectPackets`, `CollectPacket`, `PacketsCollected` |
| `crashed` | `srv.c:208-210` | none: a NULL entry was written to |

`Poll` takes a snapshot of the ready descriptors into `events`, and the handlers
run later, in any order, on whatever those numbers mean by then. An event whose
descriptor is not polled any more is still in the batch, as in the code. The
clock does not move inside one loop of a collector, because the code reads it once
before the loop. Tokens are numbered in the order of issue (`rand` is taken not to
repeat) and `owner` remembers to whom each was issued.

`StaleStack` says what a read that returns 0 bytes leaves in the stack slot of
`packet`, which is uninitialised in the source (`srv.c:192`): with `TRUE` the
packet read before stays there (what a build without optimisation does), with
`FALSE` the slot holds something with a wrong hash. `sessions` checks both at
once, since with `TRUE` a read may give either.

**System.** Adds the operator (any command it could type, also for tokens and
producers that do not exist), the clock, and the composition. `OperatorWaits`
restricts the operator: with `TRUE` it never names the short-lived session of a
client that is about to present an older token. That is a usage assumption, not
something the code enforces; section 3 says what happens without it. The thread
of a `log` command is here only up to its FT_SETUP (`FtSetup`); `LogTransfer` has
the rest.

**PubSub.** Sessions are opened, subscribed, unsubscribed, resumed by another
client with all their subscriptions, rejected, or expired. `SystemProps!Abstract`
instantiates it with a refinement mapping from descriptors and lists.

**LogTransfer.** One state per statement of `handle_loq_req` and of `recv_file`
that touches a descriptor, the port, the file or the network, for several
transfers at once, beside a main loop that accepts and closes sessions.
`fd_file_transfer` starts as what the stack held (`Leftover`), because the jumps at
`srv_util.c:188,193,199,207,212` pass over its initialisation; `accept` may give
-1 although the connection was taken. Either program may die at any step.

**Framing.** One connection as bytes. A byte is the number of its packet and its
place in it, so that a buffer filled by several short reads shows what it holds. A
`write` to a client may fit partly, a `read` may return any part of what came, the
client goes on with what it has at end of file, and closing with unread ACKs
resets the connection. The environment of the server side (which packets it sends
and when it closes) is unconstrained; `System` says which of those happen.

**Lifecycle.** The CLI with its 79-character buffer (`BufWords` words), its parser
over words, and the descriptor it leaks on a bad line; the FIFO, which loses its
bytes when both ends are closed; the message queue, which is never unlinked;
producers that join it and end at SIGTERM; a server that is ended and started
again, reduced to the two steps of its loop that read FIFO and queue.

**LinkedList** is `list.c` with one step per iteration of a loop, on a heap whose
released nodes can be told from live ones; the collectors of `srv_util.c` that walk
a list and delete from it are its callers. `spine` is a history variable, the
addresses in the list, which the invariants relate to the `next` pointers.
**ListSpec** says that a call takes effect on a sequence in one step.

**Deflate, Huffman, Inflate, Crc32.** The compressor that `zip_entry_write` uses
at levels above 1: hash chains over a ring, lazy matching, the code buffer with
its flag bytes, raw, static and dynamic blocks, and the making of length-limited
codes (`tdefl_calculate_minimum_redundancy` in place, Kraft repair, canonical
codes). The decompressor is a step per coroutine state of `tinfl_decompress`, with
its fast path, its lookup tables and negative tree entries. The sizes (`DICT_SIZE`,
`MAX_MATCH`, buffers) are constants, so that a small ring wraps within a short
input; the format (symbols, extra bits, order of code lengths) is the real one.

**Compression** composes them: `fread` in any pieces, `mz_crc32`, `tdefl_compress`
with a callback that may fail, `zip_entry_close`, and a reader that gives and
takes in any pieces.

**ZipArchive.** The file is a sequence of cells (a header, a name, a record or a
unit of contents is one cell) and an offset counts cells. A write that fails leaves
a prefix of its cells, or half a cell that no signature check accepts. stdio's
buffer is not there: bytes are on the disk when `fwrite` returns. `View` is what a
reader makes of any file, well-formed or not: it looks for the end record from the
back, reads the directory, and checks each entry's header and CRC. `mode` is
`"undefined"` after the deletion closed the FILE under the handle.

The modules with RECURSIVE operators (`DeflateFormat` and those that extend it) are
for TLC only.

## 3. Runs

All bounds are CONSTANTS and are named in the `.cfg` files. `CHECK_DEADLOCK FALSE`
everywhere: the models may stop, because the server may crash and because clients,
commands, messages, ticks, lines and calls are bounded.

| run | question | bounds and why they are enough |
|---|---|---|
| `sessions` | Is every session one client's, does no room name a stranger, are only rejected descriptors leaked, are plain clients' ACKs safe? | 3 clients, 2 descriptors, so numbers are reused and run out, and a client can take over a session that was itself taken over; 1 room; 1 command |
| `subscriptions` | Is `susc_counter` exact, and does the server implement `PubSub`? | 2 clients, 2 rooms, 2 commands: add/add, add/delete and both around a reconnection and a collection |
| `delivery` | Order and uniqueness for a client that stays; when is a checksum wrong; do the collectors drop only what nobody needs, and do they and the queue get their turn? | 1 client, 1 room, 2 messages, 3 clock values, timeout 1, period 2, so that both "equal to" and "older than" occur; no symmetry, because of the liveness |
| `transfer` | Do two transfers at once keep out of each other's file, descriptors and verdicts? Is the port given back? | 2 threads, 5 descriptors (stdin, two sessions and a transfer do not all fit), a log of 2 blocks, so that one can be repeated or skipped; either process may die |
| `list` | Does `list.c` implement a sequence, without touching a released node and without losing one; do the collectors delete what they should? | 4 addresses: three nodes and the sentinel, hence first, middle and last; 2 values, so a value occurs twice; indices up to 3, beyond the end |
| `framing` | What do short reads and writes, end of file and a reset do to one connection? | packets of 3 bytes, a buffer of 7, so that two fit and a third is cut; 4 packets; 6 handled, so that the repetition at end of file is seen |
| `operator` | Which commands and messages survive whom, what do bad lines cost, who gets on? | lines of every kind the parser tells apart, a buffer of 4 words so that one line is cut, 2 descriptors so that bad lines use them up, 2 lives of the server |
| `compression` | Is a compressed log inflated again, for any pieces and any failing write? Are the codes right? | 25 logs from 0 to 50 bytes over a ring of 16 with matches up to 8, so that the ring wraps three times; pieces of 2, 6 and 50; reader's pieces of 1 and 6, rooms of 1 and 4; codes for 1 066 sets of frequencies with limits 4, 7 and 15 |
| `archive` | What does a reader make of the file, whatever fails and whenever the process dies? | 2 names, contents of 1 and 2 units, stored and compressed, at most 3 entries where one can be deleted, 17 cells so that the end of the offsets is reached, opened twice, one failure |

`CONN_TIMEOUT = 0` with one tick is enough where only "older than the timeout" and
"not older" matter; `delivery` has the boundary value as well. Larger or different
instances of `archive` were checked without an error: three openings of a file of
13 and of 15 cells.

**Fairness.** Each run with liveness has weak fairness of what the code's own
loops and threads do and of nothing else.

* `delivery`: the server. Its loop never waits: `epoll_wait` has a time limit of
  10 ms (`srv.c:144`), the FIFO and the queue are opened `O_NONBLOCK`, and the
  accepted sockets are made non-blocking. Clients, producers, operator and clock
  owe nothing.
* `transfer`: each thread and each receiver that can run. A client need not
  connect, and the main loops owe nothing.
* `list`: the iterations of a call; a caller need not call.
* `framing`: the client's loop, whose only blocking calls are on the connection, and
  the server's reading.
* `operator`: the server's two steps, the CLI's call of `open` and `write`, and a
  producer's `mq_open` and `mq_send`; nobody has to type, start or end anything.
* `compression` needs none: `EveryCallAdvances` says that every call makes
  progress of a bounded quantity, which is what a reader's loop relies on.

The `violation` runs each check one statement of the repository that the code
does not keep; each is a finding in `PROJECT.json`.

| run | statement | what TLC finds |
|---|---|---|
| `unknown_ack` | a client that goes away does not affect the others (README.md:26) | a client returns after its session expired, its AUTH is refused, and the ACK that follows names no session: NULL is written to |
| `stale_hup` | the same | AUTH closes the dead descriptor, accept reuses the number, and the hang-up collected for the dead one silences the new client |
| `resend_lost` | who returns in time gets all messages that waited (README.md:26) | an old ACK that is handled late counts as an answer to a later message |

More statements that the code does not keep have no run of their own. The first
five are violated in an instance of `MCSystem`, the others in one of
`MCLogTransfer`; those with a name are defined where their module states its
properties, and a `.cfg` that names them shows the counterexample.

| statement | definition | how the code gets there |
|---|---|---|
| `susc_counter` counts the subscriptions (Informe.md:24) | `CounterExact` with `OperatorWaits = FALSE` | an `add` of the short-lived session before its AUTH |
| a message is sent with its checksum (README.md:24) | `ChecksumValid` | the timestamp is replaced after the hash was computed |
| the session's timestamp is its client's last ACK (Informe.md:22) | `StampNeedsAck` with `StaleStack = TRUE` | the end of file replays the ACK in the stack slot |
| who does not answer is thrown out (Informe.md:24-27) | `AnsweringKept` | so is who had nothing to answer |
| a failed `accept` is no client (srv.c:156) | | it makes a session with descriptor -1, which is never removed; `SessionOwned` leaves it out |
| a transfer ends | `PortFreed` without its second disjunct | `accept` waits for ever for a client that died, with the port taken |
| the client compares the hashes (Informe.md:64) | `ClientChecks` | the connection ends before FT_FIN and the last block is written again and again |
| the client is told the size of the file (srv_util.c:256) | `SizeOfFile` | it is the size of the log, not of the zip |
| `log` goes to the socket it names (README.md:23) | `RightRecipient` | the number was closed and accepted again before the thread wrote |
| a transfer that is over holds no descriptor | `DescriptorsReturned` | the zip file is opened twice and not closed |
| a thread closes no session | `SessionsUntouched` with a descriptor in `Leftover` | the jump over the initialisation of `fd_file_transfer` |

How far the damage goes is stated beside them and proved (`DeliveryProofs`,
section 5). `CrashExplained`: the server dies only while it reads a client that came
to recover a session or, where the stack keeps the last packet read, at the end of
file of a client that is gone, if that packet was an ACK. `StampNeedsAck` holds where
the stack keeps nothing. `PlainPolled`: as long as nobody recovers a session, the
server hears every client whose connection it holds and that was not reset. So without `-t` on the
clients' side, and with `packet` cleared before each read in `srv.c`, the server
does not die and goes on hearing those who are connected.

Other differences between the text and the code, met while modelling:

* The buffer is kept newest first, so that packets sent again arrive in reverse
  (`srv.c:404`), and they are sent whatever rooms the session is in (`srv.c:271`).
* "unicamente los siguientes comandos" (README.md:20-23): `add 5 ` with a space
  at the end is accepted as `add 5 0`, and the tail of a line of more than 79
  characters is executed as a line of its own. `CommandsAsTyped` is stated for what
  `fgets` returns.
* `srv_util.c:247` looks for -1 only; `zip_entry_close` has other error codes, and
  an archive without the entry is then sent with a correct MD5.
  (`FreshAllOrNothing` says that it is an archive that was finalized, not that it
  has the entry.)
* "Always finalize, even if adding failed for some reason, so we have a valid
  central directory" (`zip.c:838-839`) holds where the level compresses, which is
  what `archive` checks. At level 0 an entry whose failed write the caller ignored
  has contents but no compressed size, and a reader refuses the whole directory;
  in the model callers give such an entry up (`Closing`).
* `zip_entries_delete` never resets the length to move (`zip.c:714,747`). With two
  separated groups of deleted entries it reads past the end of the file and closes
  it under the handle; with three groups of empty entries it silently loses one
  (`Layout` is violated with `MaxData = 0`, `MAX_FILES = 7`, `MAX_OFFSET = 21`, no
  faults). `archive` has at most three entries where one deletes, hence two groups.
  `zip_index_update` is right only for directories in the order of the file, which
  is how this library writes them. With no entries at all the code writes before
  an array; the model asks for one.
* The decompressor is "to never read beyond the final byte of the deflate stream"
  (`miniz.h:1965`). Its fast path reads ahead whatever the input holds and puts
  nothing back, so this is true only of input that ends with the stream.

## 4. Properties

Each is stated in words where it is defined. Each has a mutant in `PROJECT.json`, a
plausible bug (`Bug_*`, beside the definition it changes) that TLC must catch
through that property.

* `SystemProps`: invariants `TypeOK`, `SessionOwned`, `RoomsExact`,
  `CounterExact`, `LeakOnlyRejected`, `AckOfPlainClientSafe`, `FinMeansGone`,
  `PlainStreamOrdered`, `ChecksumFailsLate`; action property `DroppedUseless`;
  refinement `Subscriptions`; liveness `DeadCollected`, `QueueDrained`.
* `LogTransfer`: `OneTransfer`, `FileOfTransfer`, `VerdictRight`; action property
  `SessionsUntouched`; liveness `PortFreed`.
* `LinkedList`: `SafePointers`, `Linked`, `NoLeak`; refinement `Implements`;
  `CollectsExactly`, total correctness of the collectors.
* `Framing`: `HandledOnce`, `FramedUnlessShort`; liveness `ClientEnds`.
* `Lifecycle`: `CommandsAsTyped`, `CommandsReachOnce`, `MessagesSurvive`; liveness
  `EveryoneServed`.
* `Compression`: `DecodesThePrefix`, `PiecesDoNotMatter`, `ClosedIsUnbroken`,
  `RoomForBlock`, `EveryCallAdvances`; of the algorithms alone, `CodesRight`:
  `SymbolsAgree` and `GoodCodes`, the latter against the definition of a best code.
* `ZipArchive`: `ClosedReadsBack`, `NothingForged`, `FreshAllOrNothing`, `Layout`.

Some definitions are proved and have no run of their own: `CrashExplained`,
`StampNeedsAck`, `PlainPolled` and `TurnEnds` of `SystemProps`, `CallsEnd` of
`LinkedList`. TLC checked each, in a `.cfg` that names it, before it was proved:
those of `SystemProps` in instances of `MCSystem` with up to 1.1 million states (the
first with both values of `StaleStack`), `CallsEnd` in that of `list`.

The type invariants of the modules beside `System` are conjuncts of the property
that is closest to them (`OneTransfer`, `FramedUnlessShort`, `CommandsAsTyped`,
`RoomForBlock`, `Layout`); that of `LinkedList` is part of what is proved.

## 5. Proofs

All proofs are for any clients, rooms, limits, timeouts, heaps and values allowed by
the named assumptions of `Ipc`, `Productor`, `DeliveryManager`, `System`,
`LinkedList`, `LogTransfer`, `Framing`, `Lifecycle` and `ZipArchive`.

**`SystemProofs`: `TypeCorrect == Spec => []TypeOK`.** First, what `list_find` and
`list_delete` return and preserve (`FindTokenProperties`, `FindFdProperties`,
`RemoveAtProperties` and the `...Type` lemmas), which needs that `Min` of a nonempty
set of numbers exists (`MinNat`). `TypeOK` is not inductive: `Accept` takes the head
of the backlog and `Resend` the node `iter` of the buffer. The inductive invariant
`TypeInv` adds that a pending listen event means that a connection waits
(`ListenReady`) and that the resend loop starts at the first node (`IterStarted`).

**`SessionProofs`: `SessionsOwned == Spec => []SessionOwned`**, with no assumption on
the operator. `SessionOwned` speaks of an entry, its descriptor and its token; to
survive an AUTH it needs to know where the two tokens of the packet came from. The
inductive invariant `OwnedInv` is the conjunction of

| part | says | is needed because |
|---|---|---|
| `Wired` | a client is at one descriptor at most, waits once, is issued one token | `Accept` gives a free number to a client without a session |
| `PlainOld` | the token given to `-t` was issued to a client started without `-t` | the client that presents a token cannot be the one whose session is taken |
| `TokenKnown` | what a client takes for its token | `Start` passes on only such tokens |
| `Travelling` | the tokens in CONN_ACCEPTED and AUTH are those of the client at the end of the connection | `RecvAuthAccepted` trusts both |
| `SlotSpent` | an AUTH in the stack slot names a new session that is gone | an end of file replays the slot |
| `TokensDistinct`, `EntriesOwned` | `SessionOwned` in the form the steps preserve, with entries of failed accepts | the property itself |

There is one lemma per group of steps that touch the same state (`OwnedQuiet`,
`OwnedSend`, `OwnedRead`, `OwnedCli`, `OwnedAccept`, ...). `AcceptedAuth` is the
heart: an AUTH that is accepted comes in on the descriptor of the very session it
gives up, so closing the old descriptor never closes the one just read.

Its second part has **`RoomsNameSessions` and `CounterCountsRooms`**, that is
`OperatorWaits => (Spec => []RoomsExact)` and the same for `CounterExact`. The
invariant `OwnedInv /\ RoomsInv` adds that the session of a client about to present
an older token is in no room (`TransientNowhere`), which needs that no command on
its way names it or a token yet to come (`CommandsPlain`), that rooms hold a
descriptor once and only descriptors of entries (`RoomsOwned`), and that counters
count (`Counted`). Without `OperatorWaits` `CounterExact` is violated (section 3).

**`DeliveryProofs`** is about what the server, the clients and the producers have
sent to each other and not yet read. It starts with what one step of the system
can do to one stream (`DownMoves`, `UpMoves`, `QueueMoves`, `BufferMoves`), to the
entries (`SessionMoves`) and to a client (`ClienteMoves`, `OldKept`); the invariants
below then have to look at a few cases only.

| theorem | invariant beside `OwnedInv` | argument |
|---|---|---|
| `ChecksumsFailLate` | `StampsPast`, `PacketsLateOrCut` | stamps are not in the future, and a packet in a socket or in the buffer is intact, late or cut |
| `LeaksAreRejects` | `LeakInv` | an open descriptor without an entry is that of a client whose older token no entry has; tokens are never issued again |
| `FinEndsSession` | `FirstInv` = `Unmet`, `HelloFirst`, `AuthFirst`; `AskerHeld`; `FinInv` | nothing is written to a client before its accept, CONN_ACCEPTED is the first packet it gets and AUTH the first it sends; so as long as it has not asked for its older session it holds the one it was issued, and a FIN comes after the one that is given up |
| `PlainAcksSafe` | `AckInv` = `Greeted`, `AckKnown` | a client without its token has CONN_ACCEPTED before it in the socket, so every ACK it sends has the token of its own session |
| `DropsAreUseless` | none | the collector's condition for dropping a packet against that of the loop that resends |
| `PlainStreamsInOrder` | `StreamInv`, and `RoomsInv` under `OperatorWaits` | the queue, the socket and what was shown are one increasing sequence for each producer, and a broadcast reaches the client once |

`FinEndsSession` is the one with the longest reasons: a client that returns has two
sessions for a moment, and the number of its descriptor may be another client's by
the time its AUTH is read. It also shows what the property does not cover: the
FIN to a peer that has gone away, which the new holder of the number never sees.

Its last part is **`SubscriptionsImplemented`**, `OperatorWaits => (Spec =>
Subscriptions)`, the refinement of `PubSub`. The views are `Endpoints`, who holds
which token, and `Subs`, the pairs of a token and a room. One lemma says what each
group of steps does to the views; an AUTH that is accepted has to hand a token over
and give the client's first one up in one abstract step, whatever rooms each is in.
It needs that a token stands for one entry (`Named`), that entries have issued
tokens (`TokensBounded`), and that rooms hold descriptors of entries only
(`RoomsInv`), because an entry's subscriptions are looked up by descriptor.

The same module says what the code keeps of the statements it breaks (section 3),
and that its loop goes round.

| theorem | invariant | argument |
|---|---|---|
| `CrashesExplained` | `OwnedInv`, `AckInv`, `SlotEmpty` | only an ACK that names no session kills (`CrashMoves`); it waits on the connection or comes from the slot (`AckRead`), and a client without `-t` sends no such ACK |
| `StampsNeedAcks`, if `~StaleStack` | `OwnedInv`, `SlotEmpty` | a read at the end of file finds no packet, so that every other change of a timestamp takes a packet or a command |
| `PlainClientsPolled` | `PolledInv`, `Newborn` | a collected hang-up is that of a client that was reset, and while no AUTH is accepted no number changes hands between its collection and its handling; who recovers a session has done so for ever (`PlainBack`) |
| `TurnsEnd` | `TypeInv`, `IterBounded` | the measure `Work`: the parts of the loop to come, then the events, then the packets to resend; the collectors' loops visit what is left in their lists |

`TurnsEnd` is the safety half of `DeadCollected` and `QueueDrained`: the server
reaches `epoll_wait` again after a bounded number of its own steps, whatever the
other processes do meanwhile, unless it dies. It is not enough for the two, which
also need that the server can always make its next step (an `ENABLED`) and that it
does (the fairness).

**`LinkedListProofs`: `ListLinked`, `NothingLost`, `NoUseAfterFree`**, for a heap of
any size. None of the three is inductive. `IInv` is the conjunction of `TypeOK`;
`Spine` (the `next` pointers run along `spine`, each address once, the sentinel
last); `Memory` (what is allocated is in the spine or was given away); `Counting`
(`curr` is the node number `index + 1` of the spine, `prev` the one before) while a
call runs; `Copying` for `list_to_array` and `list_free`; and `Collector` (`iter` is
node number `count + 1`, and while `list_delete` runs the one after the node it
deletes). The history
variable `spine` is what lets a pointer structure be spoken of without induction:
an unlinked node is an index taken out of a sequence.

On top of `IInv`, **`ListImplemented`**, `Spec => Implements`.
A search that answers must know more than where it stands, so `RInv` adds
`Searched` (no node it passed holds the value or has the index it looks for; an
argument of `list_delete` is an index a caller passes or, from a collector, one that
the list has) and `Copied` (what `list_to_array` copied is what the nodes hold).
`Contents` says when nodes hold a given sequence. Each action that ends a call then
has a lemma (`FindSimulates`, `SliceSimulates`, ...): its change of the spine is the
change of the sequence. All other steps leave `Items` and `ret` alone (`Stutters`).
**`CollectorsExact`** is `Spec => CollectedAll /\ OthersKept`, the safety part of
`CollectsExactly`: the items before the collector's node are not doomed (`Passing`),
and `list_delete`, which walks the list again from its head, stops at the
collector's own node. **`CallsMustEnd`** is `Spec => CallsEnd`: each step of a call or
of a collector ends it or makes `Left` smaller, the pair of the nodes before the
collector and of those before the call. A collector that deletes starts a new walk
from the head, so it is the first component that must have gone down. That a call
which can go on does so is left to TLC (`CallsReturn`).

**`LogTransferProofs`: `OneTransferOnly` and `NoSessionClosed`**, for any number of
threads, clients and descriptors, either side dying at any step, and under one
hypothesis: `Leftover \cap Fd = {}`, what the uninitialised `fd_file_transfer` holds
is no descriptor. The code does not ensure it, and without it `SessionsUntouched` is
violated (section 3). Both follow from `PortInv`: at most one
descriptor listens and it is a thread's (`OnePort`); sessions are clients'
(`SessionSlots`); `socket_passive_ftransfer` is the thread's own socket from `socket`
to its `close`, and from `listen` on it is the one that listens (`PassiveOwned`);
`fd_file_transfer` is no descriptor or the thread's own connection
(`TransferOwned`). So two threads with the archive would both hold the one listening
descriptor, and a close at `terminate` takes what is the thread's own. The steps are
grouped by what they do to the two descriptors (`PortSteps`, `WorkSteps`,
`ConnectionSteps`); `OthersKept` is the frame: a thread changes only what is free or
its own, so the other threads' descriptors stay.

The second part has **`FileIsTheTransfer` and `VerdictsRight`** under the same
hypothesis. The inductive invariant `PortInv /\ FileInv` says for each receiver
where it is in its transfer. `Waiting`: a receiver that nobody accepted was sent
nothing. `Sending`: from the end of the compression on, the archive is the one of
the thread that sends it, and where the thread stands in it. `Reading`: what a
receiver has read and what is in its socket, together, are the first packets of
that transfer, none missing and none of another; or the connection is over and it
reads its last block again and again. `FileOwned` and `FileKept` carry this over to
`rcv_file.zip`. The last case is why the verdict needs a proof: a receiver whose
connection is over writes the last block any number of times, but it never reads
FT_FIN, and so never compares the hashes.

**`FramingProofs`: `HandledOnlyOnce` and `FramesKept`**, for packets of any size,
sockets of any capacity, reads and writes of any length. `FramingInv` is

| part | says |
|---|---|
| `Numbers`, `Past` | the bytes of a stream are in order, those of one packet too, and the packets handled lie before all of them |
| `CutLost` | the last byte of a packet that was cut is nowhere: not on the way and not in the reader's buffer, although that keeps bytes of earlier reads |
| `AcksCounted` | there are as many ACKs as messages handled |
| `Framed` | as long as no count was short both streams are whole packets |

A packet is handled when the buffer holds all its bytes, so the first three give
`HandledOnce`. `Framed` is about multiples of `Size`, a constant, which the SMT
solver does not decide: `Multiples` and `MultiplesGrow` have the few facts that are
needed, each from a named instance of distributivity.

**`LifecycleProofs`: `CommandsAreTyped`, `CommandsReach`, `MessagesKept`**, for any
typed lines, any size of the line buffer, any number of descriptors and restarts.
`LifeInv` has the types, `Descriptors` (the CLI writes to the FIFO only through a
descriptor it has), `Numbered` (what was read, then what is in the FIFO, has numbers
that increase, and the one being written is not among them), `Whole` (and none is
missing, unless one of the losses named happened), `MessagesSurvive` itself and
`LinesKnown`, the map from the commands to their lines that `CommandsAsTyped`
asks for and that a step extends by one.

**`ArchiveProofs`: `ReadsBack`, `NeverForged`, `LaidOut`, `Whole`**, for any names,
contents, levels and limits: archives made anew and appended to, any write of which
may stop anywhere and whose process may die at any moment. They hold under
`[][~Deletes]_vars`, that nothing is deleted, which they need: `zip_entries_delete`
never resets the length to move, and section 3 names constants for which `Layout`
fails after three groups were deleted. The server deletes nothing.
**`FreshWhole` and `FreshReadsBack`**, about the archive that `zip_open` makes with
`'w'`, as the server does for each transfer, need no such hypothesis.

The inductive invariant is `ArchiveInv`. Its core is `Held(f, size, dir, lg)`: each
record of `dir` gives a reader of the file `f` the contents that the entry of `lg`
was given, all of it among the first `size` cells (`Kept`), the entries lie one after
the other up to there (`Chained`), and no end record in the file says anything else.
The last part is what appending needs. Writing starts over the old directory, while
the old end record stays in the file until `zip_close`, and a reader looks for the
last one. An end record either closes the directory as it is (`Current`: the records
before it, as far as a write has got, are those in memory), or it names a place that
has been written over and where no record is any more (`Dead`), so that a reader
refuses it. While the archive is open, `size`, `dir` and `lg` are `m_archive_size`,
`m_central_dir` and `log`, and the contents of the open entry are in the file past
that, but for what the compressor keeps back (`EntryGrows`); when it is closed, they
are what its own last end record says.

The frame is `HeldFrame`: what lies past `size` may change, to anything but an end
record or a record (`Over`), and `PastEntries` and `FailedPastEntries` say that every
write of a call, also one that stops in the middle, is such a change. `Flushed`,
`ContentsWritten` and `EntryComplete` take an entry from its first piece to its
record, with which a `Current` end record turns `Dead` (`EntryCloseWorks`).
`zip_close` writes directory and end record at once and cuts the file: `CloseHeld`
is about any part of that, `CutHeld` about the cut, and `HeldView` about the reader:
if it accepts the file, it has read `dir` and `lg`, and nothing else. `Counts` and
`Sizes` add the limits of the counters for `LaidOut`. `FreshReadsBack` is the other
half of `FreshWhole`: what was finalized is accepted, not only never wrong.

The inductive invariants were checked with TLC on the instances of the runs before
they were proved.

Every safety property of `SystemProps`, `LinkedList`, `LogTransfer`, `Framing` and
`Lifecycle` that a passing run checks is proved, and those of `ZipArchive` as far as
they go. Only model-checked are

* the liveness properties `DeadCollected`, `QueueDrained`, `PortFreed`, `ClientEnds`,
  `EveryoneServed` and the part `CallsReturn` of `CollectsExactly`, for which TLAPS
  has no rules (`TurnsEnd` and `CallsMustEnd` give the decreasing measure behind
  three of them);
* the properties of `Compression`, whose definitions are recursive over their data,
  so that what they compute is out of its reach;
* `ClosedReadsBack`, `NothingForged` and `Layout` of archives from which entries are
  deleted. No theorem can say that of all constants, see above.

## 6. Not modelled

* Of `miniz.h`: the compressor of level 1, Adler-32 and the zlib wrapping, the SYNC
  and FULL flushes, output to memory, PNG, the zlib-like API; zip64, sorted
  directories, archives in memory, extraction to directories. Nothing the server
  calls leads there. Of `zip.c`: attributes and times of files; what an archive
  becomes when entries are added through the handle that has deleted some.
* The decompressor is the variant with a bit buffer of 32 bits; a reader whose
  output is a ring is not composed with it (`Compression` gives it one buffer).
  Flags are those of the default level (lazy matching).
* In `ZipArchive`: that two contents have one CRC; the limit of 64 KB within which
  a reader looks for the end record; stdio's buffer.
* `log_event`, `get_datetime`, the shell scripts. `test_reconnect.sh` is the scenario
  of `Kill` and `Start`.
* `srv_on_exit`: frees memory when the process ends.
* `clilen` is not initialised before `accept` (`srv.c:21,155`): with an unlucky
  value no client is ever accepted and there is no further behaviour to check.
* `System` moves whole packets; `Framing` has the bytes but one connection. Their
  composition is beyond TLC.

## 7. What is left

1. `ClosedReadsBack` after the deletion of one group of neighbours, for any archive.
2. A history of deliveries: what exactly a client that returns is owed and gets.
3. `LogTransfer` as a refinement of the one `FtSetup` step of `System`.
4. `ZipArchive`: entries added after a deletion through one handle.
