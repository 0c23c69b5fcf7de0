# Verification of the networking programs in this repository

The repository holds five programs of a networking course: a selective-reject
file transfer over UDP (`3A:Rcopy`), a chat server and client over TCP
(`2A:Chat`), a UDP echo lab with the error-injection library `libcpe464`
(`Lab7UDP`), a TCP lab (`SocketsLab`) and a printer of packet captures
(`1A:Trace`). This directory holds TLA+ models of them, TLC runs on small
instances, and proofs checked with TLAPS. The file transfer is modelled whole, from the
main server to the output file; it, the chat, the error library and the trace printer are
model-checked and their safety properties and refinements proved for every value of the
constants; so are, for every line, the message formats of the chat.

## Inventory

| component | state it keeps | operations | interacts by |
|---|---|---|---|
| rcopy server child, `server.c` `process_client` | state, window, `wptr.l`, `seq_num`, file position, a static retry count per function | `filename`, `check_window`, `send_data`, `check_rr_srej`, `wait_last_rr`, `wait_on_eof_ack` | packets over a lossy UDP socket |
| rcopy client, `rcopy.c` | state, socket and address of the server, `expSeqNum`, `srej_fg`, window, output file, retry count of `filename` | `start_state`, `filename`, `file_ok`, `recv_data`, `check_buffer` | the same |
| sliding window, `buffer.c` | an array of slots with a flag | `addElement`, `deleteElement`, `getElement`, `isEmptySpot`, `isWindowEmpty`, `isWindowFull` | called by both |
| packets and retries, `srej.c`, `networks.c` | none (the count is the caller's) | `send_buf`, `recv_buf`, `processSelect`, `select_call` | called by both; `sendtoErr` drops or flips |
| rcopy main server, `server.c` `process_server` | none but its children | fork on every good packet, `waitpid` | FNAME packets, fork |
| checksum, `checksum.c` | none | `in_cksum` | pure |
| chat server, `myServer.c` | handle list, poll set | login, `%M`, `%B`, `%E`, `%L`, disconnect | TCP, one `poll()` loop |
| chat client, `myClient.c` | its handle, "waiting for the list" | login, commands from stdin, messages from the socket | TCP |
| handle list and poll set, `linkedlist.c`, `pollLib.c` | list of (handle, socket); array of descriptors | append, remove, find; add, remove, poll | called by server and client |
| chat messages, `parse.c`, `recvparse.c`, `shared.c` | none | build, take apart, send, receive | pure, TCP |
| error injection, `Lab7UDP/libcpe464` | per process: rate, seed, message number, two lists of events; `nextSeed` | `sendErr_init`, `sendto_Err`, `forkMod`, drop, flip | replaces `sendto` and `fork` of the UDP programs; environment variables |
| UDP echo lab, `udpClient.c`, `udpServer.c` | none | send a line, test its checksum (the echo is commented out) | UDP |
| TCP lab, `SocketsLab` | none | accept, receive, print; nothing is sent back | TCP |
| trace printer, `1A:Trace` | `pcap_next_ret`, a counter | read a packet, decode and print its headers | a capture file |

What is hard in them:

- **rcopy**: two processes that lose, flip, double and delay packets; time-outs
  racing answers; two ring buffers addressed by sequence number modulo the
  window, where a stale number silently hits another chunk; an end-of-file
  handshake that trusts the server; retry counters that survive between visits of
  a state; exits of one side while the other waits; a second FNAME, from a new socket or
  doubled, that makes a second child while the first is still sending.
- **chat**: messages of several clients interleaved in one `poll()` loop; handles
  looked up after their owner has left; a list of handles split over several
  messages; the order of login and other commands.
- **libcpe464**: who decides, the environment or the program; standard events that
  stop at the first drop, after which a random event still runs; the message number,
  the seed and the events that a child inherits from its parent.
- **trace printer**: lengths and offsets taken from the frame; two checksums, one put
  together word by word with its carries; a capture that breaks off.

What makes each correct: for rcopy, that the copy is a prefix of the file and is
reported done only when whole, that both sides stop, and that losses are
repaired; for the chat, that a message reaches exactly the clients named, that
handle list and poll set agree, and that handles stay unique; for the library,
that only errors somebody asked for happen, and that a packet leaves at most once
and, if it was changed, in a way its checksum shows; for the trace printer, that each
report is that of its packet and each verdict that of its bytes.

## Modules of the file transfer

```
SlidingWindow     buffer.c                           (WindowSize)
  SrejNet         srej.c, networks.c, sendtoErr       (channels, faults)
    RcopyServer   process_client of server.c
    RcopyClient   stateMachine of rcopy.c
      Rcopy       both, their time-outs, properties   --- implements ---> FileCopy
        RcopyInv  the inductive invariant
          MCRcopy the instance TLC checks
          RcopyProofs        lemmas on channels and rings, type correctness, the
                             invariant, the safety properties and the refinement
    RcopySession      process_server, start_state; two RcopyServer, one RcopyClient
      MCSession       the instance TLC checks         --- implements ---> FileCopy
      SessionInv      its invariant, and the conversation on the socket in use
        SessionProofs   the session is one Rcopy after another
DataLemmas        sequences, remainders, induction over Nat and finite sets
```

**SlidingWindow** is `buffer.c`: a function from slots to a chunk or `EMPTY`. A
chunk is the number of the `read()` that produced it. The C code leaves the bytes
of a deleted slot in place and clears its flag; every caller reads the flag
first, so an empty slot has no content here.

**SrejNet** has the two channels of one conversation, each the sequence of
packets sent and not yet received (`toServer`, `toClient`). `SendToClient` and
`SendToServer` are `send_buf`; a faulty transmission is dropped, flipped, or
doubled. `recv_buf` tests the checksum first, and a change of a single byte always
fails it, so a flipped packet is `Corrupted`. `DataReorder` and `AckReorder` say
whether `recvfrom` may take a packet other than the oldest.

**RcopyServer** has one action per outcome of each handler of `process_client`:

| function | actions |
|---|---|
| `filename` | `FilenameOk`, `FilenameBad` |
| `check_window` | `WindowOpen`, `WindowFullReady`, `WindowFullTimeout`, `WindowFullGiveUp` |
| `send_data` | `SendChunk`, `ReachEof`, `ReadError` |
| `check_rr_srej` | `NoAnswerYet`, `ReadRrSrej` |
| `wait_last_rr` | `ReadLastRr`, `LastRrTimeout`, `LastRrGiveUp` |
| `wait_on_eof_ack` | `ReadEofAck`, `EofAckTimeout`, `EofAckGiveUp` |

`processSelect` is `SelectReady`, `SelectTimeout`, `SelectGiveUp`, with the static
counter of each caller in `retryCount`. `wptr.u` and `wptr.c` are never read by the
code and are left out. A `select()` with a zero time-out (`check_rr_srej`) finds a
packet exactly if the channel is not empty: a packet that is still on the wire at
that moment is, for the server, one its peer has not sent yet, and that
interleaving is explored.

**RcopyClient** has `ReadFilenameReply`, `FilenameTimeout`, `FilenameGiveUp`
(`filename`), `OpenOutput` (`file_ok`), `RecvData` and `ServerGone` (`recv_data`,
with one operator per branch), `AckAll`, `RejectHole`, `DrainOne`
(`check_buffer`). When `filename` returns `START_STATE`, rcopy opens a new socket and
never reads the old one again: for `Rcopy` the conversation is over, with `outcome =
"restarted"`. Its retry count goes on, so a conversation may begin at any value of
`nameTries`. `RcopySession` goes on with the next one.

**Rcopy** joins them. The processes share only the channels. Time-outs are three
actions of the composition because their guards depend on `Timely`: with `Timely =
FALSE` a `select()` may expire whenever it has been called, data ready or not
(delays are arbitrary); with `Timely = TRUE` it expires only if both sides wait,
and the ten seconds of `recv_data` only when the server has exited or used up its
one-second tries. The first is used for safety and in `RcopySession`, the second for
liveness that needs a network faster than the time-outs.

**FileCopy** is the abstract specification: the output grows by the next chunk, and
success is reported only when it is whole. `CopyStatus` maps the way rcopy leaves to
its status, and `copied` is the output file.

**RcopySession** is a whole run of rcopy. It has two instances of `RcopyServer`, each with
its channels, and the instance of `RcopyClient` for whom it talks to: a child or the main
server. `sock` and `remote` are rcopy's `Connection`, whose address `recvfrom()` overwrites
with each packet; `toMain` holds the FNAMEs, each with the socket it came from; `serves` is
the socket each child sends to. A socket of rcopy is its number and its queue is split by
sender: a child whose socket is not `sock` sends into a queue nobody reads.

| function | actions |
|---|---|
| `start_state`, `udpClientSetup` | `StartState`, `StartFails` |
| `recv_buf` in `filename` and `recv_data`, with the rest of them | `ClientReads` |
| `check_buffer` | `ClientAnswers`, `DrainOne` |
| `process_server` | `Fork`, `ForkFails`, `DropCorrupted`, `MainSelectExpires`, each with `Reap` but the exit |
| `process_client` | `ChildNext`, `ChildSelectExpires` |

## Modules of the chat

```
HandleList        linkedlist.c
PollSet           pollLib.c                          (POLL_SET_SIZE)
ChatNet           the TCP connections                (Clients, Handles, buffers)
  ChatServer      myServer.c, with HandleList and PollSet
  ChatClient      myClient.c
    Chat          both, the people, properties       --- implements ---> ChatRoom
      ChatInv     the invariant of connections, list, handler and clients
        MCChat    the instance TLC checks
        ChatProofs      lemmas on messages, list and connections, the clients' steps
          ChatServerProofs  the server's steps, the theorems, Chat implements ChatRoom
ChatMessage       parse.c, recvparse.c, the fill functions of myServer.c
  ChatWire        one line from the keyboard to the receiver's screen
    MCChatWire    the instance TLC checks
    ChatWireProofs  words, layout of the messages, the theorems
```

**HandleList** is the linked list as a sequence of nodes, **PollSet** the array of
`pollLib.c` as the set of its members, `maxFileDescriptor` and
`currentPollSetSize`. Both are operators only. `removeNode` compares handles, as the
code does, and `addToPollSet` grows the array as the code does.

**ChatNet** is TCP as both programs use it (external): `backlog` holds the
connections not accepted, `accept()` gives the lowest free number, each direction
is a FIFO of whole messages with the room of its buffers, and `peer` is what the
server's kernel will say of a client: still there, closed after it had read
everything (`recv` returns 0), or closed with something unread (`recv` and `send`
fail). What a client has sent before it closes stays readable; a message is sent
and received whole (`send` of one small buffer, `recv` with `MSG_WAITALL`).

**ChatServer** takes one message and finishes its handler before it polls again.
Each `send()` of the handler is a step of its own, because it may block or fail while
the clients go on; `todo` is what is left of the handler.

| function | actions and operators |
|---|---|
| `processSockets`, `pollCall` | `Polled`, the guard of the next four |
| `addNewClient`, `tcpAccept` | `AddNewClient` |
| `recvFromClient` | `RecvFromClient`, `RecvOverruns`, `RecvEof`, `RecvError`, `RecvFromStdin` |
| `packetResponse` | `checkClient`, `sendB`, `sendM`, `sendE`, `sendL` |
| `safeSend` | `SafeSend`, `SafeSendLost`, `SafeSendFails`, `SkipSender` |
| `removeClient` at the end of a handler | `CloseRefused`, `CloseLeaver` |

The copies that a handler makes of the list are safe because nothing else runs in the
server until it is done; what does change under it is the other end of each
connection. `ServerExits` is `exit(-1)` in any of these, SIGPIPE, or a copy beyond a buffer.

`sendM` calls `findTextLen()` before it looks at the destinations. When a `%M` has none (its
second word is one character that is no digit of 1 to 9), `getHandle()` takes the byte behind
their number, the first of the text, for the length of a copy into 101 bytes
(`recvparse.c:41-49`). A line of a `%M` without destinations therefore carries that byte, `lead`,
from `LeadBytes`: up to 100 the copy fits; up to 127 it does not, and the server either goes on
(`sendM`) or is killed (`RecvOverruns`), as the build makes it; above that the length is negative
and it is killed.

**ChatClient** has `Connect`, `ConnectFails`, `HandleTooLong`, `Login` (`main`,
`login`), `ReadLine`, `SendToServer`, `SendNothing`, `SendFails` (`sendToServer`), and
`AckFromServer`, `AckSaysLeave`, `ServerTerminated` (`ackFromServer`,
`packetResponse`), in mode `login`, `run` or, between a FLAG_11 and its FLAG_13, `list`.
`Interrupt` kills it at any step.

**Chat** joins them; `Idle` is the only step when the server waits in `poll()` and
every client for a line. **ChatRoom** is the abstract specification: a set of members,
which nobody enters under a handle in use and which nobody leaves who did not ask
to, until the room shuts.

**ChatMessage** is the message format byte by byte: from a typed line to a PDU
(`findType`, `getHandleNum`, `proc_M`, ...), and back to handles and text.
**ChatWire** sends one line through client, server and receiver; its properties say
what was typed by the positions of the words, not by the parser's own steps. `put` is a history
variable: the handle and the count the server wrote into its answer. It follows the server that
comes back from `findTextLen()`.

## Modules of the error library

```
InCksum           checksum.c
  UdpPacket       createPDU, retrieveHeader of Lab7UDP/packet.c
SettingsManager   SettingsManager.cpp, setUserMode_... of PacketManager.cpp   (Unset, NotANumber)
  PacketManager   PacketManager.cpp, MsgEvents/, with UdpPacket                (Scale, Draws)
    NetworkHooks  network-hooks.c in a program and its children  --- implements ---> ErrorChannel
      MCHooks     the instance TLC checks
      HooksProofs the checksum, the invariant, NetworkHooks implements ErrorChannel
```

**InCksum** and **UdpPacket** compute on bytes: a datagram is the sequence the program
makes, so what a flip does to it and what the receiver concludes are calculated, not
assumed.

**SettingsManager** is a sequence of updates of one record, `g_PktMgr`: those of the
environment before `main()`, and those of the program, each refused when its variable
is set. A list that cannot be read is an empty list, which means "at random"; a number
that cannot be read is not set at all.

`OnlyAskedErrors` does not take the parser's word for what was asked. `Described` are the values of a
list that `SettingsManager.h:17-20` speaks of: no variable, `-1` for random events, numbers of
messages; `AsksFor` and `AsksRandom` say of such a value, by its tokens, what it asks for. Outside
are numbers of more than 32 bits (another message is dropped), lists with a token that is no
number or with -1 among others (cut there, or at random when nothing is left), and the
empty value ("What the code does" below). All of them are in the model and in its environments;
`HooksInvariant` says what the library does with them.

**PacketManager** gives the set of what may become of a message: `drand48()` is any of
`Draws`, taken first for whether, then for which event, then for which byte.

**NetworkHooks** is what its callers see. `wire` has, for each process, the messages that
left it and what the receiver makes of their bytes; `taken` is how many were received.

| function | action |
|---|---|
| `sendErr_init` with its four `setUserMode_...` | `sendErr_init` |
| `fork` as `forkMod` | `forkMod` |
| `sendtoErr`, `sendto_Err`, `send_Err`, called by `send_buf` and `talkToServer` | `sendto_Err` |
| `recv_buf`, `processClient` with `retrieveHeader` | `recvfrom` |

**ErrorChannel** is the abstract specification, and what `SrejNet` takes for granted of
`sendtoErr`: a datagram is lost, arrives intact, or arrives as `Corrupted`, in order and
once. That `SrejNet` may also double and reorder is the network's doing, not the library's.

## Modules of the trace printer

```
InCksum           checksum.c
  TraceHeaders    the create, find and print functions of trace.c
  TraceFrames     the frames as the hosts that sent them made them (external)
    Trace         main and printAllHeaders over a capture
      MCTrace     the instance TLC checks
      TraceProofs what each header reads, the checksums, the properties
```

**TraceHeaders** has an operator for each function that reads the frame: from the sequence
of its bytes to the values that are printed, one record a header. **TraceFrames** goes the
other way, from the values to the bytes, and defines the checksum apart from the code,
as a remainder modulo 2^16 - 1. **Trace** is the loop: `OpenFails`, `OpenCapture` (`main`),
`PrintNext`, `EndOfCapture`, and `BrokenCapture` for any result of `pcap_next_ex()` but 1
and -2. `captured` has the packets with the damage done to them, `shown` what was printed.

## Runs

Of `MCRcopy` and `MCSession`. Bounds: `NumChunks` chunks in the file, `SockBuf` packets per channel
(more are dropped, as a socket buffer does), `MaxFaults` injected faults, `MaxTries`
for `MAX_TRIES = 10`, `MaxSeq` the largest sequence number that is transmitted (one
above it is lost; it is larger than the file plus a window, and only the resends past
the end of the file described below reach it).

| run | instance | properties |
|---|---|---|
| `transfer` | window 3, 5 chunks, 1 fault, 2 tries, DATA in any order, `read()` may fail | the type invariant, five safety invariants, `IInv`, `LowerBoundAdvances`, `ImplementsCopy` |
| `live` | window 2, 3 chunks, 2 faults, 3 tries, short delays, `FairSpec` | `ChunkGetsThrough`, `EofGetsThrough` |
| `session` | window 2, 2 chunks, 2 faults, 1 try, 2 sockets, any delay, `read()` and `fork()` may fail, `FairSpec` | `MainHearsNamesOnly`, `OrphansAreDeaf`, `ImplementsCopy`, `OneChildIsAnswered`, `ChildrenLeave`, `RcopyMovesOn`, `ChildrenAreReaped` |
| `empty_file` | window 2, no chunk | `OnlySentDataIsResent`, violated |
| `ack_reorder` | window 2, 4 chunks, ACKs in any order | `EofMeansComplete`, violated |
| `fname_doubled` | as `session`, with FNAME possibly delivered twice and 2 tries | `CopyIsTheFile`, violated |

Why the bounds are enough to be interesting: five chunks wrap a window of three
almost twice, so stale slots of an earlier lap exist; besides the injected fault,
packets are lost to a full socket buffer and any time-out may come before the answer,
so a repair can be lost or made twice; two tries let a process give up after one
retransmission in any state. Deadlock is checked in every run (`Finished` is the
stuttering of two processes that have both left). `live` keeps the number of faults
below `MaxTries`: with ten losses in a row the code gives up, as it should.

`session` opens two sockets (`MaxSockets`) and with them forks two children: the one in use
and one that is orphaned, which is every relation two conversations can have. `MaxTries = 1`
lets `filename()` give up, and a child leave, within those two; an orphan may send its window and
resend it whenever its `select()` expires. `OutputIsPrefix` and
`DataMatchesSeq` of `Rcopy` have no run of their own: `ImplementsCopy` and `IInv` imply them
and the proofs state them.

Of `MCChat`. Bounds: `InBuf` and `OutBuf` messages in each direction of a
connection, `MaxLines` lines typed at each client, each client connects once;
`POLL_SET_SIZE = 1` makes the array grow within three clients; `Killable`, `LongHandles`,
`StdinMayHangUp` and `LeadBytes` switch the disturbances on.

| run | instance | properties |
|---|---|---|
| `chat_three` | 3 clients, 2 handles, 1 line each, nobody interrupted, `LeadBytes = {33}`, which fits | six safety invariants |
| `chat_killed` | 2 clients interrupted anywhere, server's stdin may hang up, `LeadBytes = {120}`, buffers of 1 | `ChatInvariant` (the type invariant and what the proofs need with it), `ImplementsRoom` |
| `chat_live` | 2 clients, one interruptible, a handle that is too long, `LeadBytes = {120, 195}`, `FairSpec` | `LoginAnswered`, `ListEnds`, `LeaverLeaves`, `HandleIsFreed` |

Three clients and two handles are what it takes for one client to leave, a second to
take its handle and its descriptor, and a third to write to both. Of the bytes a text may begin
with, 33 (`!`) fits `destHandle`, 120 (`x`) overruns it, and 195 (of `é`) is a negative length. Deadlock is checked
in `chat_three`. It is not in `chat_killed` and `chat_live`: every process may be gone,
and with buffers of one message the server can block in `send()` to a client that
blocks in `send()` to the server - a standoff the code permits and real buffers only
make rare.

Of `MCChatWire`: every line made of one of four spellings of a command and up to
`MaxTokens = 5` further words or spaces, and four lines that are a bare command or none. The words are a digit, a
zero, one letter, and a word longer than `MAX_HANDLE_SIZE = 2`; texts are cut at
`MAX_SEND_TXT = 2`. List lengths are 0, 1, 255, 256 and 65535. The run stops when the
line has been shown, so deadlock is not checked.

| run | properties |
|---|---|
| `chat_wire` | `LengthIsBytes`, `DestsAreTyped`, `TextIsTyped`, `NamesAreKept` |

Of `MCHooks`:

| run | properties |
|---|---|
| `hooks` | `HooksInvariant` (the type invariant, `CountsAgree` and what the proofs need with them), `OnlyAskedErrors`, `ChildrenDiffer`, `ImplementsChannel` |

Bounds: three datagrams (`MaxSends`) from the program or from up to two children
(`MaxForks`), after which everything stops, so deadlock is not checked. The six
environments are the ways a variable can be read: unset, not a number, a list, a list that
ends at its first bad token, a list with nothing usable in it, a negative number, a
number too wide for `uint32_t` (16 stands for 2^32). Rates and draws are hundredths: with
rates of 0, 30 and 50 the draws 0, 15, 45, 75 and 99 are at, below and above each, choose either
of two events, and reach the first, the last and some byte between. One datagram has an even and one an odd
number of bytes, because the checksum treats the last byte apart. Three messages suffice
because a drop list names the first two and a message depends on nothing but its number.

Of `MCTrace`:

| run | properties |
|---|---|
| `trace` | `ReportsArePackets`, `DamageIsSeen` |

Captures of up to `MaxPackets = 2` packets: the printer keeps nothing from one packet to the next
but the number and the pointers, so two show whatever could be left over. The ten kinds of
packet have odd and even lengths, IP options or none, words that carry in every addition of the
pseudo header, and padding. Every byte of every TCP and ICMP frame is changed in one bit, as
long as the frame still holds the bytes its length fields announce: the code does not compare
them with the length of the capture, and what is behind a frame is not modelled. The
program ends, so deadlock is not checked.

### Fairness

`FairSpec` of `Rcopy` is weak fairness of each process and of each time-out: the
operating system runs both processes, and `select()` returns when its time is over.
Nothing is assumed of the network beyond the bound on faults.

`FairSpec` of `RcopySession` is weak fairness of rcopy, of the main server and of each child,
a process and the expiry of its `select()` taken together: the process runs, and which of packet
and time-out ends a `select()` is left open.

`FairSpec` of `Chat` is weak fairness of the server and of each client process.
Nobody has to connect, type or be interrupted. `pollCall()` returns the lowest
descriptor, so a client that never stops talking may keep the others waiting; the
bound on lines excludes it, and no property here would catch it (see the hazards).

### What the code does and its comments deny

- **The transfer of an empty file never ends** (`empty_file`). If everything is
  acknowledged before `read()` returns 0 - an empty file, a window of 1, or a client
  whose last ACK is read in `check_rr_srej` - `wait_last_rr` waits for an ACK that was
  consumed. Its time-out "resends" a sequence number never sent, with no data; the
  client accepts and acknowledges it, and the exchange repeats with the next number.
  `END_OF_FILE` is never sent. The comment is `// Resend the lowest RR`
  (`server.c:331`).
- **A late ACK truncates the copy** (`ack_reorder`): `updateWPtr` moves `wptr.l` back
  to an older number; the next ACK then frees chunks by modulus that the client
  has not got; `resend` finds the slot empty and sends zero bytes under its number. The copy
  is reported done and `diff` (`tiny.sh:5`) would find it shorter. This needs ACKs to
  overtake each other, which UDP permits and `libcpe464` does not do.
- **A doubled FNAME spoils the copy** (`fname_doubled`): `process_server` forks for each
  (`server.c:67`), and both children send to one socket of rcopy, which answers the one it
  heard last. An ACK of a chunk of one child reaches the other, which takes it for its own:
  its `wptr.l` passes what it has sent, a chunk it sends after that is never freed, and a
  resend past the end of the file (as in `empty_file`) finds that chunk under a new number.
  In the trace of the run rcopy writes chunk 2 twice and leaves through the `END_OF_FILE` of
  the other child. `diff` (`tiny.sh:5`) would show it. It takes a network that doubles a packet, which UDP permits and `libcpe464` does not do.
- Not a disagreement with a comment, so `ChatRoom` allows it (`Shut`): the text of a `%M` without
  destinations, such as `%M 0 xyz` or `%M x hi`, makes `findTextLen()` copy beyond its buffer
  (`myServer.c:351`, `recvparse.c:45`), which may end the server (`RecvOverruns`).
- Likewise: a client that ends
  with something unread resets its connection, `recv()` fails, and the server exits with
  everybody else in the room (`myServer.c:515`).

Things met while modelling which no run is about:

- A cleared variable asks for errors: `export CPE464_OVERRIDE_ERR_DROP=`, by which `clear_defs` of
  `testRandError.sh:17` clears it, leaves a variable that is set and a list that is empty, which is
  the list for "at random" (`SettingsManager.cpp:201`). A program that asks for an error rate and for
  no drops then loses messages. `SettingsManager.h:18` says "Since no parameter undefines an environmental
  variable, use -1 to set random events". The same goes for flips (`SettingsManager.cpp:232`). The model does
  this in the environments of `hooks` that have an empty list; `OnlyAskedErrors` does not speak of them.
- A FLAG_7 about a handle of 98 to 100 characters is longer than the array `sendFlag7()` makes it in, by
  at most three bytes, taken as harmless. The client has buffers a line can leave, too: `str[3]` of
  `getHandleNum()`, which `findStr()` ends behind the third character of a word, that of
  `findFirstHandle()` likewise, the one for a line of more than 1400 characters, and that for a
  text of 200. A client that dies of one is for the others one that is interrupted
  (`Killable`).
- An ACK can be read in `wait_on_eof_ack`, which says "This should never happen"
  (`server.c:360`); it is ignored, and nothing comes of it.
- With a random seed the first child has the seed of its parent: both are `time(NULL)`
  (`network-hooks.c:195`). The parent of rcopy's server sends nothing.
- An error rate of 0 still permits an error when `drand48()` is exactly 0
  (`PacketManager.cpp:161`).
- "Msgs (Total)" of the library's report leaves out the messages on the drop list, which
  are dropped before they are recorded. `CountsAgree` says by how much.
- `pduBuffer` of the echo lab holds 80 bytes, a payload may have 81 (`packet.c:26`). Its server
  looks for the "." that ends its loop in the first byte of the PDU, which is the sequence number;
  its client at the end of standard input goes on with empty lines.
- When the other end of the chat server's standard input is closed, `poll()` reports the hang-up of
  descriptor 0, which every unused slot of the array holds, and `pollCall()` returns a number nobody
  added (`pollLib.c:49`). The server calls `recv()` on it and exits: `RecvFromStdin`.
- `getHandleNum` returns -1 for a handle of one letter, for which its comment gives another reason
  (`parse.c:137`): `%M` to it goes to nobody unless a number stands in front.
- The trace printer prints "109" for every type of ICMP that is no ping (`trace.c:313`; the one such
  packet of the tests has that type), an ACK number of 0 as not valid whatever the flag, the bytes
  of the IP checksum exchanged (as the expected outputs have them), and the data of a later fragment as a header.
- The trace printer makes one more report when `pcap_next_ex()` fails (`trace.c:589`), of the packet
  before or, at the first, of pointers that were never set. `ReportsArePackets` allows that one.
- In the TCP lab `recvFromClient()` returns a pointer into its own frame, which `main` then
  compares with "exit".

## Proofs

| theorem | says | assumes |
|---|---|---|
| `TypeCorrect` | `Spec => []TypeOK` of `Rcopy` | nothing on reordering |
| `Invariance` | `Spec => []IInv` | `AckReorder = FALSE` |
| `CopyCorrect` | `OutputIsPrefix`, `EofMeansComplete` always | `AckReorder = FALSE` |
| `SenderRingCorrect` | `WindowHoldsUnacked` always | `AckReorder = FALSE` |
| `FreedWasWritten` | `FreedIsWritten` always | `AckReorder = FALSE` |
| `ReceiverRingCorrect` | `BufferedIsAhead` always | `AckReorder = FALSE` |
| `PacketsCorrect` | `DataMatchesSeq`, `NoUnexpectedFlag` always | `AckReorder = FALSE` |
| `LowerBoundNeverBack` | `Spec => LowerBoundAdvances` | `AckReorder = FALSE` |
| `CopyRefined` | `Spec => ImplementsCopy` | `AckReorder = FALSE` |
| `MainHearsNames` | `MainHearsNamesOnly` always, of `RcopySession` | nothing |
| `OrphansStayDeaf` | `OrphansAreDeaf` always | nothing |
| `OneChildAnswered` | `Spec => OneChildIsAnswered` | `NamesDouble = FALSE` |
| `SessionCopyRefined` | `Spec => ImplementsCopy` of `RcopySession` | `AckReorder = FALSE`, `NamesDouble = FALSE` |
| `ChatIsConsistent` | `Spec => []ChatInvariant` | nothing |
| `ListAgrees`, `PollSetAgrees` | `ListMatchesSockets`, `PollSetMatchesSockets` always | nothing |
| `MessagesAreAddressed` | `OnlyAddressedReceive` always | nothing |
| `HandlesAreApart` | `NobodySharesAHandle` always | nothing |
| `ListsArriveWhole` | `ListReplyIsWhole` always | nothing |
| `ServerSurvives` | `ServerStaysUp` always | `Killable = {}`, `StdinMayHangUp = FALSE`, `LeadBytes` no more than 100 |
| `RoomIsKept` | `Spec => ImplementsRoom` | nothing |
| `LengthsAreRight` | `LengthIsBytes` always, of `ChatWire` | nothing |
| `DestsAreRight`, `TextIsRight` | `DestsAreTyped`, `TextIsTyped` always | nothing |
| `NamesAreRight` | `NamesAreKept` always: names and count shown are those put in | nothing |
| `HooksAreConsistent` | `Spec => []HooksInvariant` | nothing |
| `ErrorsAreAsked` | `OnlyAskedErrors` always, of the values `SettingsManager.h` describes | nothing |
| `SeedsDiffer` | `ChildrenDiffer` always | nothing |
| `ChannelIsKept` | `Spec => ImplementsChannel` | nothing |
| `DamageSeen` | `DamageIsSeen` always, of `Trace` | nothing |
| `ReportsRight` | `ReportsArePackets` always | nothing |

"Nothing" is nothing but the assumptions the modules themselves make of their constants
(`...Assumption`), which TLC evaluates in every run: sizes are positive, a datagram fits UDP,
and the like. The theorems hold for every window size, file length, socket buffer, retry limit
and number of faults, with DATA in any order and delays of any length; for every set of clients
and handles, size of buffers and size of the poll set; for every environment, set of datagrams,
rate and number of children; for every capture of packets whose fields have the widths of the
headers (`TraceAssumption`). `AckReorder` and `NamesDouble` cannot be dropped: `ack_reorder` and
`fname_doubled` are the counterexamples. Nor can the three assumptions of `ServerSurvives`, which are
what `ServerStaysUp` is about: a client that dies with something unread, a standard
input that hangs up, and a text that `findTextLen()` takes for a long destination each end the server ("What the code does" above).

### One conversation

No safety property survives a step on its own: whether a chunk freed
by the server has been written depends on which acknowledgements are under way,
and whether a packet may be stored depends on how far the server may have gone. `IInv`
states the order

    wptrL <= (every ACK and FSREJ under way, in order) <= expSeqNum <= seqNum

together with `seqNum - wptrL <= WindowSize`, and what each slot and each packet
may then be. The last inequality fails past the end of the file (the empty resends
above), so the invariant says that this needs the whole file to have been sent.
The facts on rings rest on two lemmas of `RcopyProofs`: numbers less than a window
apart have different slots (`IndexInjective`), and any `WindowSize` consecutive numbers
meet every slot (`IndexSurjective`); `DataLemmas` proves what of `%` this needs.
Each action is then a lemma (`ServerSendChunk`, `ClientDrain`, ...), and `InvStep` puts
them together. `Advance` (the numbers only grow) is proved along with it, since packets
already under way must stay good when the numbers move.

### The session

`SessionInv` maps a session to the conversation on the socket in use ("current": the variables
of the child that serves it, or those of a child not yet forked). Its first part,
`SessionInv1`, says who may write to whom and holds on every network: sockets are numbered as they are
opened, a child serves the socket its FNAME came from, and whoever rcopy does not talk to has nothing to
read and has freed nothing. The second, `NamesAreServedOnce`, is where `NamesDouble` matters. With
both, every step of the session is a step or a stutter of `Rcopy` on the current variables, or
begins a new conversation in an initial state of it (`SessionIsConversation`), so the invariance of
`IInv` carries over and with it the refinement of `FileCopy`.

### The chat

A handle is given again once its owner has left, and so is a descriptor. Nothing goes wrong because
the server finishes a handler before it polls again, but between two `send()` of a handler the
clients move, die and log in. `ChatInvariant` therefore ties together five things: connections with
descriptors and backlog (`ConnInv`); the list and the poll set with connections; the mode of each
client with what became of its connection (`ModeInv`); what is left of the handler with the list, the handler
begun last included (`TodoInv`, `HeardLast`); and each message under way with the handle it was written for
(`ToServerInv`, `ToClientInv`), with `FarewellInv` for who may still exit. The proof has one lemma for an action
and under it one step for a conjunct; what actions share are lemmas of three kinds, a
client departs, a message is taken from a channel, a client is answered. `RoomStep` shows that
each step enters, removes or shuts the room as `ChatRoom` allows, or leaves it alone.

`ListReplyIsWhole` is about a reply that is partly on its way and partly still in `sendL()`. It is
inductive beside `ChatInvariant` because it speaks of both parts as one sequence (`Underway`) and says that a
handler that sends a list sends nothing else (`ListGoesAlone`). A step then does one of three things to
that sequence: it stays as it is, since `safeSend()` only moves a message from one part to the other
(`SentGrows`); something is put behind it, which is no FLAG_11 or begins a whole list
(`RestGrowth`, `ListGrows`); or the client reads its head (`ListRead`).

### A line of the chat

The proof of `ChatWire` follows a line from the keyboard to the screen, in `ChatWireProofs`.

- The parser walks from word to word by cutting off the front of a string; the properties speak of
  the k-th start of a word in the whole line. `Cursor(s, k)` says that what the parser holds is
  the line from its k-th word on, or NULL when there is none. `CursorReads` says what is read
  there and `CursorSteps` that `stepString()` goes to the next word: behind the word that starts
  at a position, the first character after the spaces is the next start (`NextWord`). The nine
  strings of `proc_M()` are then cursors at the destinations (`FromsAre`), and what it copies is
  what was typed (`ProcMIs`).
- The reader finds its way by length bytes. `FlattenPlaces` says where each block of a handle and its
  length is among the others; with `Has`, as for the trace printer, `ForwardedIs` and
  `BroadcastIs` say that the reader finds the sender, the number, each destination and the
  text that were put in.
- `WireInv`, the inductive invariant, says of each stage that a variable is what was computed
  from the ones before it; the four properties follow from it in the same state.

A second word of one character that is no digit of 1 to 9 becomes the byte 255, which the reader takes for -1: it then finds no
destination at all (`FoundNoneIs`), and the properties on destinations and text ask for a
well-formed `%M`. With the sizes of the code, 100 and 200, every number in a PDU fits its byte;
the theorems do not use it.

### The error library

That a changed datagram is seen is a fact on the checksum. `in_cksum` is the fold of
the words of a datagram, and its result 0 means that their sum is a multiple of 2^16 - 1 and not
0 (`FoldedZero`): adding the carries back keeps the remainder. With its own checksum in place the sum is such a
multiple (`GoodCksum`, `CksumFits`); another byte in one place changes the sum by d or by 256 d
with 0 < |d| < 256, which is not 0 and smaller than 2^16 - 1 (`ChangeIsSeen`; of an inverted
byte, `FlipIsSeen`). These lemmas are in `DataLemmas`, since the trace printer needs them too. What the receiver
then reads is the datagram that was made (`DatagramArrives`) or `Corrupted` (`FlippedArrives`).

`HooksInvariant` adds to the types: which events each process has, in which order (`EventsAsked`);
what is on the wire and what is lost (`WireIsSent`); what a process not yet
forked has done (`NotYetActive`); what has been recorded (`CountsAgree`); that the parent has counted past
the seeds of its children (`SeedsCounted`), without which `ChildrenDiffer` is not inductive.
`DescribedIsTaken` says that of a described value the parser keeps exactly the numbers in its tokens.
`MessageOut` says what `processEvents` may do to one message; `ErrorsAreAsked` and
`ChannelIsKept` follow from it, the latter with what is under way as the wire beyond what was taken.

### The packet trace

What is proved is that printing undoes framing: each field that is printed is the one its
host put into the frame, and each verdict says whether a byte it covers was changed. Three things
have to be known for that.

- Where a field is. A frame is a concatenation of headers with options of any length in
  between, and `trace.c` adds up offsets. `Has(f, n, part)` says that `part` is what is
  at offset n; there is one lemma for each header as it is made (`IpFrameLayout`, `IpPartsLayout`,
  ...) and one as it is read (`IpArrives`, `TcpArrives`, ...), and `Arrives` says that a part without the
  changed byte is still there.
- What the two checksums are. A host sums the words with their high byte first, `in_cksum` with the
  low byte first; modulo 2^16 - 1 one sum is 256 times the other (`TwoOrders`,
  `OrdersAgree`), so that neither changes whether it is 0. `findTCP_CS` adds the pseudo header word by
  word with carries of its own, which keep the remainder and whether the sum is 0 (`EndAround`).
- What a change does to a sum. `Changed` relates the bytes of one part, `Replaced` their sums, and a
  part may stand anywhere among others that did not change (`ReplacedInSum`). The bytes the
  properties leave out (the ethernet type, the lengths, the protocol) are those that decide what is read at all.

`TraceInv` is then short: what was printed is the reports of the packets captured, in that order, and
at the end at most one more, of bytes that are no packet (the finding on `pcap_next_ex()`).

### Induction

The theorems of the library that take an operator as a parameter cannot be used with these
provers. Where induction is needed (a sum over the bytes of a datagram, a list that is searched) it is
done with sets: a set of numbers that is not empty has a least member (`Least`), a set that has 0 and with each number the
next is all of Nat (`NatIsInductive`), a set of subsets closed under adding one element holds every
finite set (`SubsetsInduct`). A fold is replaced by the function that its equation defines.

A recursive function over an interval exists because one over a shorter interval can be prolonged
(`RecExists`).

Only model-checked: the liveness properties (TLAPS does not do `ENABLED` or
fairness here) and the counterexamples.

## Not modelled

- Sequence numbers are unbounded; the code has 32 bits in the packet and `int` in
  `removeFromBuffer`, which a file of more than 2^31 chunks would reach.
- `write()` succeeds. The code ignores its result (`rcopy.c:314`, `rcopy.c:369`), so a full
  disk breaks `OutputIsPrefix` without any message.
- Lengths: that a packet buffer of `bufferSize + 7` bytes is too small for an ACK when
  `bufferSize < 4` is noted, not modelled.
- Chat: a message is neither split nor joined by TCP; what is printed besides names,
  texts and counts; `%L` of more clients than a byte counts is in `ChatWire` only.
- The error library: its debug output, `bindMod` (a port from the environment), `selectMod`
  (only messages). The echo lab beyond its packets.
- Several rcopies at one server: their children share nothing but the parent, which keeps nothing of
  them. More than two conversations of one rcopy.
- Trace printer: what is read behind a frame that is shorter than its length fields say, or that
  the capture has cut off; the layout of the lines. `handin/` holds the same files once more.
- The TCP lab: one connection after another, lines in one direction and nothing sent back. Whether
  the server closes a connection hangs on bytes of a stack frame that is gone, so a
  model would be a free choice between going on and closing.
- The unit tests, argument parsing and name lookup: no state that outlives them.

## Plan

In order of importance; each with its runs and then its theorems.

1. *(done)* `SlidingWindow`, `SrejNet`, `RcopyServer`, `RcopyClient`, `Rcopy`, `FileCopy`;
   the invariant and the refinement proved.
2. *(done)* `HandleList`, `PollSet`, `ChatNet`, `ChatServer`, `ChatClient`, `Chat`, `ChatRoom`;
   `ChatInvariant`, its safety properties and the refinement proved.
   `ChatMessage` and `ChatWire`, with their four properties proved for every line.
3. *(done)* `InCksum`, `UdpPacket`, `SettingsManager`, `PacketManager`, `NetworkHooks`,
   `ErrorChannel`; `HooksInvariant`, `OnlyAskedErrors`, `ChildrenDiffer` and the refinement proved.
4. *(done)* `RcopySession`; its safety properties and the refinement proved.
5. *(done)* `TraceHeaders`, `TraceFrames`, `Trace`; both properties proved.
