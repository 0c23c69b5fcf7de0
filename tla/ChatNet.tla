------------------------------- MODULE ChatNet -------------------------------
(***************************************************************************)
(* The TCP connections of the chat (2A:Chat): one per client process, each a *)
(* FIFO of whole messages in each direction with the room of its socket      *)
(* buffers.  TCP is not part of the repository; it is modelled as the         *)
(* programs use it, with send() that blocks while the buffer is full.         *)
(***************************************************************************)
EXTENDS Naturals, Sequences, FiniteSets

CONSTANTS
  Clients,       \* client processes; each connects once
  Handles,       \* the handles people choose and write to
  NoHandle,      \* in a message that carries no handle
  DestLists,     \* the lists of handles people write after %M
  LeadBytes,     \* what may stand where the destinations of a %M should begin
  InBuf,         \* messages the buffers from a client to the server hold
  OutBuf         \* messages the buffers from the server to a client hold

ASSUME ChatNetAssumption ==
  /\ IsFiniteSet(Clients)
  /\ NoHandle \notin Handles
  /\ DestLists \subseteq Seq(Handles) \ {<< >>}
  /\ LeadBytes \subseteq 0 .. 255
  /\ InBuf \in Nat \ {0} /\ OutBuf \in Nat \ {0}

VARIABLES
  backlog,       \* connections the server has not accepted yet
  sock,          \* the server's end of each connection
  fd,            \* its descriptor number in the server, 0 when it has none
  peer,          \* the client's end, as the server's kernel will learn of it
  toServer, toClient

netVars == <<backlog, sock, fd, peer, toServer, toClient>>

\* Descriptors 0, 1 and 2 are the standard streams, 3 is the listening socket.
ListenFd == 3
Fds == ListenFd + 1 .. ListenFd + Cardinality(Clients)

\* flags.h, FLAG_6 is not used
Flags == 1 .. 13 \ {6}

\* name is the sender of a FLAG_1, 4 or 5 and the handle a FLAG_7 or 12 tells
\* of, to the destinations of a FLAG_5.  count is the number in a FLAG_11; in a
\* FLAG_5 without destinations it is the byte behind the number of them: the
\* first of the text or, when that is empty, one that recv() did not write.
Messages == [flag : Flags, name : Handles \cup {NoHandle},
             to : Seq(Handles), count : Nat]

Plain(flag) == [flag |-> flag, name |-> NoHandle, to |-> << >>, count |-> 0]
Named(flag, handle) == [Plain(flag) EXCEPT !.name = handle]

SockStates == {"none", "backlog", "open", "closed"}

\* "up"    the client has its socket;
\* "fin"   it closed it having read everything: recv() will return 0;
\* "dead"  "fin", and something sent since came back as a reset: recv() still
\*         returns 0, but another send() fails;
\* "rst"   it closed it with something unread: recv() and send() will fail.
PeerStates == {"up", "fin", "dead", "rst"}

NetTypeOK ==
  /\ backlog \in Seq(Clients)
  /\ sock \in [Clients -> SockStates]
  /\ fd \in [Clients -> {0} \cup Fds]
  /\ peer \in [Clients -> PeerStates]
  /\ toServer \in [Clients -> Seq(Messages)]
  /\ toClient \in [Clients -> Seq(Messages)]

NetInit ==
  /\ backlog = << >>
  /\ sock = [c \in Clients |-> "none"]
  /\ fd = [c \in Clients |-> 0]
  /\ peer = [c \in Clients |-> "up"]
  /\ toServer = [c \in Clients |-> << >>]
  /\ toClient = [c \in Clients |-> << >>]

\* accept() gives the lowest free number.
IsNextFd(f) ==
  /\ f \in Fds
  /\ \A c \in Clients : fd[c] # f
  /\ \A g \in ListenFd + 1 .. f - 1 : \E c \in Clients : fd[c] = g

\* What recv() would not block on.
Readable(c) == toServer[c] # << >> \/ peer[c] # "up"
=============================================================================
