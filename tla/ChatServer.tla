----------------------------- MODULE ChatServer -----------------------------
(***************************************************************************)
(* The chat server: 2A:Chat/myServer.c.  One process, one thread: it takes a *)
(* message, and sends everything it has to send for it before it looks at     *)
(* the poll set again.  Each send() is a step of its own, because it may      *)
(* block or fail while the clients go on; what is left of the handler is in   *)
(* todo.                                                                      *)
(***************************************************************************)
EXTENDS ChatNet, HandleList, PollSet

CONSTANTS StdinMayHangUp      \* whether the server's standard input can

ASSUME StdinAssumption == StdinMayHangUp \in BOOLEAN

VARIABLES
  serverUp,      \* the process has not called exit() or been killed by a signal
  list,          \* head
  pollSet,       \* the poll set
  todo,          \* what is left of the handler that is running
  stdinHungUp    \* the other end of descriptor 0 is closed

serverVars == <<serverUp, list, pollSet, todo, stdinHungUp>>

MAX_HANDLE_SIZE == 100
CHAR_MAX == 127         \* char is signed

Send(f, m) == [op |-> "send", fd |-> f, msg |-> m]
Skip       == [op |-> "skip", fd |-> 0, msg |-> Plain(13)]
CloseIt(f) == [op |-> "close", fd |-> f, msg |-> Plain(13)]
RemoveIt(f) == [op |-> "remove", fd |-> f, msg |-> Plain(13)]

ServerTypeOK ==
  /\ serverUp \in BOOLEAN
  /\ list \in Seq([handle : Handles, socketNum : Fds])
  /\ pollSet \in [members : SUBSET Nat, max : Nat, size : Nat]
  /\ todo \in Seq([op : {"send", "skip", "close", "remove"},
                   fd : {0} \cup Fds, msg : Messages])
  /\ stdinHungUp \in BOOLEAN

\* main(), tcpServerSetup() and the first line of processSockets()
ServerInit ==
  /\ serverUp = TRUE
  /\ list = makeLinkedList
  /\ pollSet = addToPollSet(setupPollSet, ListenFd)
  /\ todo = << >>
  /\ stdinHungUp = FALSE

-----------------------------------------------------------------------------
\* exit(-1) in the server, or the SIGPIPE of a send(): every socket is closed.
ServerExits ==
  /\ serverUp' = FALSE
  /\ list' = << >>
  /\ pollSet' = setupPollSet
  /\ todo' = << >>
  /\ backlog' = << >>
  /\ sock' = [c \in Clients |-> IF sock[c] = "none" THEN "none" ELSE "closed"]
  /\ fd' = [c \in Clients |-> 0]
  /\ toServer' = [c \in Clients |-> << >>]
  /\ UNCHANGED <<stdinHungUp, peer, toClient>>

\* removeClient()
removeClient(c) ==
  /\ pollSet' = removeFromPollSet(pollSet, fd[c])
  /\ sock' = [sock EXCEPT ![c] = "closed"]
  /\ fd' = [fd EXCEPT ![c] = 0]
  /\ toServer' = [toServer EXCEPT ![c] = << >>]
  /\ UNCHANGED <<serverUp, stdinHungUp, backlog, peer, toClient>>

-----------------------------------------------------------------------------
\* packetResponse(), one operator per case: the new list and what to send.

\* Mutant of checkClient: a client whose handle is taken is left without answer.
checkClientSilent(c, m) ==
  IF available(list, m.name)
  THEN /\ list' = addNode(list, makeNode(m.name, fd[c]))
       /\ todo' = << Send(fd[c], Plain(2)) >>
  ELSE UNCHANGED <<list, todo>>

\* checkClient(): a handle that is free is entered before the answer is sent.
checkClient(c, m) ==
  IF available(list, m.name)
  THEN /\ list' = addNode(list, makeNode(m.name, fd[c]))
       /\ todo' = << Send(fd[c], Plain(2)) >>
  ELSE /\ list' = list
       /\ todo' = << Send(fd[c], Plain(3)), CloseIt(fd[c]) >>

\* sendFlag7()
sendFlag7(sendSocket, handle) == Send(sendSocket, Named(7, handle))

\* sendB(): everybody in the list but the socket of the handle the message
\* calls its sender.
sendB(c, m) ==
  /\ todo' = [i \in DOMAIN list |->
       CASE list[i].socketNum = 0 ->
              sendFlag7(findSocket(list, m.name), list[i].handle)
         [] list[i].socketNum = findSocket(list, m.name) -> Skip
         [] OTHER -> Send(list[i].socketNum, m)]
  /\ UNCHANGED list

\* Mutant of sendM: a destination that is not found is told to the one before.
sendMToSender(c, m) ==
  /\ todo' = [i \in DOMAIN m.to |->
       IF findSocket(list, m.to[i]) = 0
       THEN sendFlag7(findSocket(list, m.to[i]), m.to[i])
       ELSE Send(findSocket(list, m.to[i]), m)]
  /\ UNCHANGED list

\* Mutant of sendM: every destination gets the socket of the first client.
sendMToHead(c, m) ==
  /\ todo' = [i \in DOMAIN m.to |->
       IF findSocket(list, m.to[i]) = 0
       THEN sendFlag7(findSocket(list, m.name), m.to[i])
       ELSE Send(list[1].socketNum, m)]
  /\ UNCHANGED list

\* findTextLen() copies the last destination into destHandle.  When there is
\* none, what stands in its place is taken for the length of the copy.
Overruns(m) == m.flag = 5 /\ m.to = << >> /\ m.count > MAX_HANDLE_SIZE

\* The copy may still come back, unless its length is negative.
findTextLenReturns(m) == Overruns(m) => m.count <= CHAR_MAX

\* sendM(): each destination in turn, or a FLAG_7 to the sender about it.
sendM(c, m) ==
  /\ findTextLenReturns(m)
  /\ todo' = [i \in DOMAIN m.to |->
       IF findSocket(list, m.to[i]) = 0
       THEN sendFlag7(findSocket(list, m.name), m.to[i])
       ELSE Send(findSocket(list, m.to[i]), m)]
  /\ UNCHANGED list

\* Mutant of sendE: nothing is sent.
sendESilent(c, m) ==
  /\ todo' = << >>
  /\ UNCHANGED list

\* sendE(): the node goes and the socket is closed once FLAG_9 is sent.
sendE(c, m) ==
  /\ todo' = << Send(fd[c], Plain(9)), RemoveIt(fd[c]) >>
  /\ UNCHANGED list

\* Mutant of sendL: sendFlag() of FLAG_13 is forgotten.
sendLWithoutEnd(c, m) ==
  /\ todo' = << Send(fd[c], [Plain(11) EXCEPT !.count = findListLength(list)]) >>
             \o [i \in DOMAIN list |-> Send(fd[c], Named(12, list[i].handle))]
  /\ UNCHANGED list

\* Mutant of sendL: sendFlag12() stops one client early.
sendLShort(c, m) ==
  /\ todo' = << Send(fd[c], [Plain(11) EXCEPT !.count = findListLength(list)]) >>
             \o [i \in 1 .. Len(list) - 1 |-> Send(fd[c], Named(12, list[i].handle))]
             \o << Send(fd[c], Plain(13)) >>
  /\ UNCHANGED list

\* sendL(): sendFlag11(), sendFlag12() for each node, sendFlag() of FLAG_13
sendL(c, m) ==
  /\ todo' = << Send(fd[c], [Plain(11) EXCEPT !.count = findListLength(list)]) >>
             \o [i \in DOMAIN list |-> Send(fd[c], Named(12, list[i].handle))]
             \o << Send(fd[c], Plain(13)) >>
  /\ UNCHANGED list

\* Any other flag is ignored.
packetResponse(c, m) ==
  \/ m.flag = 1  /\ checkClient(c, m)
  \/ m.flag = 4  /\ sendB(c, m)
  \/ m.flag = 5  /\ sendM(c, m)
  \/ m.flag = 8  /\ sendE(c, m)
  \/ m.flag = 10 /\ sendL(c, m)
  \/ m.flag \notin {1, 4, 5, 8, 10} /\ UNCHANGED <<list, todo>>

-----------------------------------------------------------------------------
\* processSockets(): the process is in pollCall() when nothing is left to do.

ReadableFds ==
  {fd[c] : c \in {d \in Clients : sock[d] = "open" /\ Readable(d)}}
    \cup (IF backlog = << >> THEN {} ELSE {ListenFd})

\* pollCall() returns descriptor i
Polled(i) ==
  /\ serverUp /\ todo = << >>
  /\ pollCallReturns(pollSet, ReadableFds, stdinHungUp, i)

\* addNewClient(), tcpAccept()
AddNewClient ==
  /\ Polled(ListenFd)
  /\ \E f \in Fds :
       /\ IsNextFd(f)
       /\ fd' = [fd EXCEPT ![Head(backlog)] = f]
       /\ pollSet' = addToPollSet(pollSet, f)
  /\ sock' = [sock EXCEPT ![Head(backlog)] = "open"]
  /\ backlog' = Tail(backlog)
  /\ UNCHANGED <<serverUp, list, todo, stdinHungUp, peer, toServer, toClient>>

\* recvFromClient() of the three things recv() can return.
RecvFromClient(c) ==
  /\ sock[c] = "open" /\ Polled(fd[c])
  /\ toServer[c] # << >>
  /\ packetResponse(c, Head(toServer[c]))
  /\ toServer' = [toServer EXCEPT ![c] = Tail(@)]
  /\ UNCHANGED <<serverUp, pollSet, stdinHungUp,
                 backlog, sock, fd, peer, toClient>>

\* findTextLen() writes beyond destHandle, and the process is killed for it.
RecvOverruns(c) ==
  /\ sock[c] = "open" /\ Polled(fd[c])
  /\ toServer[c] # << >> /\ Overruns(Head(toServer[c]))
  /\ ServerExits

\* Mutant of RecvEof: removeNode() is not called.
RecvEofKeepsNode(c) ==
  /\ sock[c] = "open" /\ Polled(fd[c])
  /\ toServer[c] = << >> /\ peer[c] \in {"fin", "dead"}
  /\ removeClient(c)
  /\ UNCHANGED <<list, todo>>

\* Mutant of RecvEof: a client that has gone is left in the poll set.
RecvEofIgnored(c) ==
  /\ sock[c] = "open" /\ Polled(fd[c])
  /\ toServer[c] = << >> /\ peer[c] \in {"fin", "dead"}
  /\ UNCHANGED <<serverVars, netVars>>

\* 0 bytes: the client is gone.
RecvEof(c) ==
  /\ sock[c] = "open" /\ Polled(fd[c])
  /\ toServer[c] = << >> /\ peer[c] \in {"fin", "dead"}
  /\ list' = removeNode(list, findNode(list, fd[c]))
  /\ removeClient(c)
  /\ UNCHANGED todo

\* An error: the connection was reset.
RecvError(c) ==
  /\ sock[c] = "open" /\ Polled(fd[c])
  /\ toServer[c] = << >> /\ peer[c] = "rst"
  /\ ServerExits

\* pollCall() returned a slot no socket was added to; recv() fails on it.
RecvFromStdin ==
  /\ \E i \in 0 .. pollSet.max - 1 : i \notin pollSet.members /\ Polled(i)
  /\ ServerExits

-----------------------------------------------------------------------------
\* The rest of the handler, one call at a time.  safeSend() exits when send()
\* fails.

Next1 == Head(todo)
Doing(op) == serverUp /\ todo # << >> /\ Next1.op = op

SendDone ==
  /\ todo' = Tail(todo)
  /\ UNCHANGED <<serverUp, list, pollSet, stdinHungUp,
                 backlog, sock, fd, toServer>>

\* There is room: the message is on its way.
SafeSend(c) ==
  /\ Doing("send") /\ fd[c] = Next1.fd /\ sock[c] = "open" /\ peer[c] = "up"
  /\ Len(toClient[c]) < OutBuf
  /\ toClient' = [toClient EXCEPT ![c] = Append(@, Next1.msg)]
  /\ UNCHANGED peer
  /\ SendDone

\* The client's socket is gone: the first send() still succeeds.
SafeSendLost(c) ==
  /\ Doing("send") /\ fd[c] = Next1.fd /\ sock[c] = "open" /\ peer[c] # "up"
  /\ peer' = [peer EXCEPT ![c] = IF @ = "fin" THEN "dead" ELSE @]
  /\ UNCHANGED toClient
  /\ SendDone

\* A reset has come in: EPIPE or ECONNRESET.  Descriptor 0 is no socket.
SafeSendFails ==
  /\ Doing("send")
  /\ \/ Next1.fd = 0
     \/ \E c \in Clients : /\ fd[c] = Next1.fd /\ sock[c] = "open"
                           /\ peer[c] \in {"dead", "rst"}
  /\ ServerExits

SkipSender ==
  /\ Doing("skip")
  /\ todo' = Tail(todo)
  /\ UNCHANGED <<serverUp, list, pollSet, stdinHungUp, netVars>>

\* The end of checkClient() for a handle that is taken.
CloseRefused(c) ==
  /\ Doing("close") /\ fd[c] = Next1.fd /\ sock[c] = "open"
  /\ removeClient(c)
  /\ todo' = Tail(todo)
  /\ UNCHANGED list

\* The end of sendE().
CloseLeaver(c) ==
  /\ Doing("remove") /\ fd[c] = Next1.fd /\ sock[c] = "open"
  /\ list' = removeNode(list, findNode(list, fd[c]))
  /\ removeClient(c)
  /\ todo' = Tail(todo)

\* Whoever holds the other end of the server's standard input closes it.
StdinHangsUp ==
  /\ StdinMayHangUp /\ ~stdinHungUp
  /\ stdinHungUp' = TRUE
  /\ UNCHANGED <<serverUp, list, pollSet, todo, netVars>>

ServerStep ==
  \/ AddNewClient \/ RecvFromStdin \/ SafeSendFails \/ SkipSender
  \/ \E c \in Clients :
       \/ RecvFromClient(c) \/ RecvOverruns(c) \/ RecvEof(c) \/ RecvError(c)
       \/ SafeSend(c) \/ SafeSendLost(c)
       \/ CloseRefused(c) \/ CloseLeaver(c)
=============================================================================
