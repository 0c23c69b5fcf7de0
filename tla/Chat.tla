-------------------------------- MODULE Chat --------------------------------
(***************************************************************************)
(* The chat (2A:Chat): one server, the clients and the people at them.        *)
(***************************************************************************)
EXTENDS ChatServer, ChatClient

vars == <<serverVars, clientVars, netVars>>

TypeOK == NetTypeOK /\ ServerTypeOK /\ ClientTypeOK

Init == NetInit /\ ServerInit /\ ClientInit

ServerNext == ServerStep /\ UNCHANGED clientVars

\* A connection is made with a server that runs.
ClientConnects(c) ==
  /\ IF serverUp THEN Connect(c) ELSE ConnectFails(c)
  /\ UNCHANGED serverVars

ClientNext(c) == ClientStep(c) /\ UNCHANGED serverVars

\* What people do.
PersonNext(c) ==
  /\ Interrupt(c) \/ \E line \in Lines : ReadLine(c, line)
  /\ UNCHANGED serverVars

\* Nothing goes on until somebody connects or types a line.
Idle ==
  /\ serverUp => todo = << >> /\ ReadySlots(pollSet, ReadableFds, stdinHungUp) = {}
  /\ \A c \in Clients :
       \/ mode[c] \in {"start", "gone"}
       \/ mode[c] = "run" /\ stdinLine[c] = NoLine /\ toClient[c] = << >>
            /\ serverUp
  /\ UNCHANGED vars

Next ==
  \/ ServerNext \/ Idle
  \/ StdinHangsUp /\ UNCHANGED clientVars
  \/ \E c \in Clients : ClientConnects(c) \/ ClientNext(c) \/ PersonNext(c)

Spec == Init /\ [][Next]_vars

\* The scheduler runs every process that can go on.  Nobody has to connect,
\* to type or to be interrupted.
FairSpec ==
  /\ Spec
  /\ WF_vars(ServerNext)
  /\ \A c \in Clients : WF_vars(ClientNext(c))

-----------------------------------------------------------------------------
(***************************************************************************)
(* Safety.                                                                   *)
(***************************************************************************)

\* The position in the list of the node of c's connection.
NodeOf(c) == {i \in DOMAIN list : list[i].socketNum = fd[c]}
Listed(c) == sock[c] = "open" /\ NodeOf(c) # {}

\* The list, the poll set and the connections agree, whatever numbers are given
\* again by accept(): no handle and no socket is listed twice, a node is that
\* of an open connection under its client's own handle, and the poll set is the
\* listening socket and the open connections, inside the array.
ListMatchesSockets ==
  /\ \A i, j \in DOMAIN list :
       i # j => /\ list[i].handle # list[j].handle
                /\ list[i].socketNum # list[j].socketNum
  /\ \A i \in DOMAIN list : \E c \in Clients :
       /\ sock[c] = "open" /\ fd[c] = list[i].socketNum
       /\ clientHandle[c] = list[i].handle

PollSetMatchesSockets ==
  serverUp =>
    /\ pollSet.members = {ListenFd} \cup {fd[c] : c \in {d \in Clients : sock[d] = "open"}}
    /\ \A s \in pollSet.members : s < pollSet.max
    /\ pollSet.max <= pollSet.size

\* A message reaches those it is meant for and nobody else: a %M those it
\* names, a %B everybody but its sender; also when a handle or a descriptor
\* has passed from one client to another.
OnlyAddressedReceive ==
  \A c \in Clients : \A i \in DOMAIN toClient[c] :
    LET m == toClient[c][i]
    IN  /\ m.flag = 5 => \E j \in DOMAIN m.to : m.to[j] = clientHandle[c]
        /\ m.flag = 4 => m.name # clientHandle[c]

\* The server never sends to a descriptor that is not an open connection, be
\* it the 0 that findSocket() returns for a sender it does not know.
SendsGoToClients ==
  \A i \in DOMAIN todo : todo[i].op # "skip" =>
    \E c \in Clients : sock[c] = "open" /\ fd[c] = todo[i].fd

\* What login() takes for granted: the first message from the server is the
\* verdict on the handle, whoever broadcasts meanwhile.
FirstIsVerdict ==
  \A c \in Clients : mode[c] = "login" /\ toClient[c] # << >> =>
    Head(toClient[c]).flag \in {2, 3}

\* A client that is told to leave has nothing left to read: it closes its
\* socket in an orderly way.
NothingAfterBye ==
  \A c \in Clients : \A i \in DOMAIN toClient[c] :
    toClient[c][i].flag \in {3, 9} => i = Len(toClient[c])

\* What is left of the handler is sent to c and to nobody else.
AllFor(c) ==
  /\ sock[c] = "open"
  /\ \A i \in DOMAIN todo : todo[i].op = "send" /\ todo[i].fd = fd[c]

\* What is on its way to c, and what the handler that writes to it will add.
Rest(c) == IF AllFor(c) THEN [i \in DOMAIN todo |-> todo[i].msg] ELSE << >>
Underway(c) == toClient[c] \o Rest(c)

\* A FLAG_11 is followed by as many FLAG_12 as it says, each for another
\* handle, and a FLAG_13, without another message in between.
IsListAt(s, i) ==
  LET n == s[i].count
  IN  /\ i + n + 1 <= Len(s)
      /\ \A j \in i + 1 .. i + n : s[j].flag = 12
      /\ \A j, k \in i + 1 .. i + n : j # k => s[j].name # s[k].name
      /\ s[i + n + 1].flag = 13

ListsAreWhole(s) == \A i \in DOMAIN s : s[i].flag = 11 => IsListAt(s, i)

\* What the loop of runClient() still has to read of a list.
EndsList(s) ==
  \E i \in DOMAIN s : s[i].flag = 13 /\ \A j \in 1 .. i - 1 : s[j].flag = 12

\* A handler that sends a list sends it to one client and nothing else.
ListGoesAlone ==
  \A i \in DOMAIN todo : todo[i].op = "send" /\ todo[i].msg.flag \in {11, 12, 13} =>
    \E c \in Clients : AllFor(c)

\* A list reaches the client that asked for it whole, and a client that is
\* reading one finds its end.
ListReplyIsWhole ==
  serverUp =>
    /\ ListGoesAlone
    /\ \A c \in Clients : mode[c] # "gone" =>
         /\ ListsAreWhole(Underway(c))
         /\ mode[c] = "list" => EndsList(Underway(c))

\* Two people never talk under one handle: of two clients logged in under it
\* one has been let go, and what it still sends is not read.
NobodySharesAHandle ==
  \A c, d \in Clients :
    /\ c # d /\ clientHandle[c] = clientHandle[d]
    /\ mode[c] \in {"run", "list"} /\ mode[d] \in {"run", "list"}
    => sock[c] = "closed" \/ sock[d] = "closed"

\* The server goes on whatever its clients do, as long as none is interrupted,
\* its own standard input stays open, and no %M without destinations makes
\* findTextLen() write beyond its buffer.
ServerStaysUp == serverUp

\* The server keeps what it promises about who is in the room.
Room == INSTANCE ChatRoom WITH
  handle  <- clientHandle,
  members <- {c \in Clients : Listed(c)},
  leaving <- {c \in Clients :
                \/ mode[c] = "gone" \/ sock[c] = "closed" \/ ~serverUp
                \/ \E i \in DOMAIN toServer[c] : toServer[c][i].flag = 8
                \/ \E i \in DOMAIN todo : /\ todo[i].op \in {"close", "remove"}
                                          /\ todo[i].fd = fd[c]},
  open    <- serverUp

ImplementsRoom == Room!Spec

-----------------------------------------------------------------------------
(***************************************************************************)
(* Liveness.                                                                 *)
(***************************************************************************)

\* login() gets its answer.
LoginAnswered ==
  \A c \in Clients : mode[c] = "login" ~> mode[c] \in {"run", "gone"}

\* The loop that waits for FLAG_13 ends.
ListEnds == \A c \in Clients : mode[c] = "list" ~> mode[c] # "list"

\* A client whose %E is on its way gets out of the chat.
LeaverLeaves ==
  \A c \in Clients :
    (\E i \in DOMAIN toServer[c] : toServer[c][i].flag = 8) ~> mode[c] = "gone"

\* The handle of a client that is gone becomes free.
HandleIsFreed == \A c \in Clients : mode[c] = "gone" ~> ~Listed(c)

=============================================================================
