--------------------------- MODULE ChatServerProofs ---------------------------
(***************************************************************************)
(* The inductive invariant of the chat, and the safety properties that       *)
(* follow from it, for every number of clients and handles, every buffer     *)
(* size, and every client that is interrupted.                               *)
(***************************************************************************)
EXTENDS ChatProofs

LEMMA IdleKeeps ==
  ASSUME ChatInvariant, UNCHANGED vars \/ (StdinHangsUp /\ UNCHANGED clientVars)
  PROVE  ChatInvariant'
<1> USE DEF ChatInvariant
<1>1. /\ UNCHANGED <<serverUp, list, pollSet, todo, backlog, sock, fd, peer,
                     toServer, toClient, mode, clientHandle, stdinLine, linesRead>>
      /\ stdinHungUp' = stdinHungUp \/ (StdinMayHangUp /\ stdinHungUp' = TRUE)
  BY DEF vars, serverVars, clientVars, netVars, StdinHangsUp
<1>2. \A c \in Clients : /\ Listed(c)' = Listed(c)
                         /\ Connected(c)' = Connected(c)
                         /\ HeardLast(c)' = HeardLast(c)
  BY <1>1 DEF Listed, NodeOf, Connected, HeardLast
<1>3. TypeOK'
  BY <1>1 DEF TypeOK, NetTypeOK, ServerTypeOK, ClientTypeOK
<1>4. ConnInv' /\ PollSetMatchesSockets' /\ ListMatchesSockets'
  BY <1>1 DEF ConnInv, PollSetMatchesSockets, ListMatchesSockets
<1>5. ModeInv' /\ ToServerInv'
  BY <1>1, <1>2 DEF ModeInv, ToServerInv
<1>6. ToClientInv'
  BY <1>1, <1>2 DEF ToClientInv, NothingAfterBye, Fits
<1>7. TodoInv'
  BY <1>1, <1>2 DEF TodoInv, SendsGoToClients, OpenAt, Fits
<1>8. VerdictInv'
  BY <1>1, <1>2 DEF VerdictInv, FirstIsVerdict
<1>9. FarewellInv'
  BY <1>1, <1>2 DEF FarewellInv, Undisturbed
<1> QED
  BY <1>3, <1>4, <1>5, <1>6, <1>7, <1>8, <1>9

\* A server that exits leaves nothing behind but what it has sent.
LEMMA ExitKeeps ==
  ASSUME ChatInvariant, ServerExits, ~ Undisturbed, UNCHANGED clientVars
  PROVE  ChatInvariant'
<1> USE DEF ChatInvariant
<1>1. /\ serverUp' = FALSE /\ list' = << >> /\ pollSet' = setupPollSet
      /\ todo' = << >> /\ backlog' = << >>
      /\ UNCHANGED <<stdinHungUp, peer, toClient, mode, clientHandle, stdinLine, linesRead>>
      /\ \A c \in Clients : /\ sock'[c] = IF sock[c] = "none" THEN "none" ELSE "closed"
                            /\ fd'[c] = 0 /\ toServer'[c] = << >>
  BY DEF ServerExits, clientVars
<1>2. \A c \in Clients : /\ sock'[c] \in {"none", "closed"} /\ ~ Listed(c)'
                         /\ sock[c] = "closed" => sock'[c] = "closed"
                         /\ sock[c] \in {"backlog", "open"} => sock'[c] = "closed"
                         /\ sock[c] = "none" <=> sock'[c] = "none"
  BY <1>1 DEF Listed, TypeOK, NetTypeOK, SockStates
<1>3. TypeOK'
  <2>1. NetTypeOK'
    BY <1>1, EmptySeq DEF ServerExits, TypeOK, NetTypeOK, SockStates
  <2>2. pollSet' \in [members : SUBSET Nat, max : Nat, size : Nat]
    BY <1>1, PollSetAssumption DEF setupPollSet
  <2>3. ServerTypeOK'
    BY <1>1, <2>2, EmptySeq DEF TypeOK, ServerTypeOK
  <2> QED
    BY <1>1, <2>1, <2>3 DEF TypeOK, ClientTypeOK
<1>4. ConnInv'
  <2>1. DOMAIN backlog' = {}
    BY <1>1
  <2> QED
    BY <1>1, <1>2, <2>1 DEF ConnInv
<1>5. PollSetMatchesSockets' /\ ListMatchesSockets'
  <2>1. DOMAIN list' = {}
    BY <1>1
  <2> QED
    BY <1>1, <2>1 DEF PollSetMatchesSockets, ListMatchesSockets
<1>10. ModeInv'
  BY <1>1, <1>2 DEF ModeInv, Connected, Listed
<1>11. ToServerInv'
  <2>1. \A c \in Clients : DOMAIN toServer'[c] = {}
    BY <1>1
  <2> QED
    BY <2>1 DEF ToServerInv
<1>6. ToClientInv'
  <2>1. \A c \in Clients : \A i \in DOMAIN toClient[c] : sock'[c] = "closed"
    <3> SUFFICES ASSUME NEW c \in Clients, NEW i \in DOMAIN toClient[c]
                 PROVE  sock'[c] = "closed"
      OBVIOUS
    <3>1. toClient[c] # << >>
      OBVIOUS
    <3> QED
      BY <1>2, <3>1 DEF ModeInv
  <2> QED
    BY <1>1, <2>1 DEF ToClientInv, NothingAfterBye, Fits
<1>7. TodoInv'
  BY <1>1 DEF TodoInv, SendsGoToClients
<1>8. VerdictInv'
  BY <1>1, <1>2 DEF VerdictInv, FirstIsVerdict
<1>9. FarewellInv'
  BY DEF FarewellInv, Undisturbed
<1> QED
  BY <1>3, <1>4, <1>5, <1>6, <1>7, <1>8, <1>9, <1>10, <1>11

\* The listening socket is ready only for a connection that waits.
LEMMA Polls ==
  ASSUME ChatInvariant, serverUp,
         ListenFd \in ReadySlots(pollSet, ReadableFds, stdinHungUp)
  PROVE  backlog # << >>
<1> USE DEF ChatInvariant
<1>1. ListenFd \in pollSet.members
  BY DEF PollSetMatchesSockets
<1>2. ListenFd \in ReadableFds
  BY <1>1 DEF ReadySlots
<1>3. \A d \in Clients : fd[d] # ListenFd
  <2>1. \A d \in Clients : fd[d] \in {0} \cup Fds
    BY DEF TypeOK, NetTypeOK
  <2>2. \A g \in Fds : g # ListenFd
    BY FdsAreNumbers DEF ListenFd
  <2> QED
    BY <2>1, <2>2 DEF ListenFd
<1> QED
  BY <1>2, <1>3 DEF ReadableFds

\* accept() of the connection that has waited longest.
LEMMA AcceptKeeps ==
  ASSUME ChatInvariant, AddNewClient, UNCHANGED clientVars
  PROVE  ChatInvariant'
<1> USE DEF ChatInvariant
<1>1. /\ serverUp /\ todo = << >> /\ ListenFd \in ReadySlots(pollSet, ReadableFds, stdinHungUp)
      /\ UNCHANGED <<serverUp, list, todo, stdinHungUp, peer, toServer, toClient,
                     mode, clientHandle, stdinLine, linesRead>>
  BY DEF AddNewClient, Polled, pollCallReturns, clientVars
<1>2. backlog # << >>
  BY <1>1, Polls
<1>3. /\ sock \in [Clients -> SockStates] /\ fd \in [Clients -> {0} \cup Fds]
      /\ backlog \in Seq(Clients)
      /\ pollSet \in [members : SUBSET Nat, max : Nat, size : Nat]
  BY DEF TypeOK, NetTypeOK, ServerTypeOK
<1>22. PICK c \in Clients : c = Head(backlog)
  BY <1>2, <1>3, TailEffect
<1>4. /\ Len(backlog) \in Nat \ {0} /\ c = backlog[1]
      /\ DOMAIN backlog = 1 .. Len(backlog)
      /\ backlog' = Tail(backlog) /\ backlog' \in Seq(Clients)
      /\ DOMAIN backlog' = 1 .. Len(backlog) - 1
      /\ \A i \in 1 .. Len(backlog) - 1 : backlog'[i] = backlog[i + 1]
  BY <1>2, <1>3, <1>22, TailEffect, LenProperties DEF AddNewClient
<1>5. PICK f \in Fds : /\ \A d \in Clients : fd[d] # f
                       /\ fd' = [fd EXCEPT ![c] = f]
                       /\ pollSet' = addToPollSet(pollSet, f)
  BY <1>22 DEF AddNewClient, IsNextFd
<1>6. sock' = [sock EXCEPT ![c] = "open"]
  BY <1>22 DEF AddNewClient
<1>7. f \in Nat /\ f # 0 /\ f # ListenFd
  BY FdsAreNumbers DEF ListenFd
<1>8. sock[c] = "backlog" /\ fd[c] = 0 /\ ~ Listed(c)
  <2>1. sock[c] = "backlog"
    BY <1>4 DEF ConnInv
  <2> QED
    BY <1>4, <2>1 DEF ConnInv, Listed
<1>9. /\ sock'[c] = "open" /\ fd'[c] = f
      /\ \A d \in Clients : d # c => sock'[d] = sock[d] /\ fd'[d] = fd[d]
  BY <1>3, <1>4, <1>5, <1>6
<1>10. \A d \in Clients : Listed(d)' = Listed(d)
  <2>1. ~ Listed(c)'
    <3>1. \A i \in DOMAIN list : list[i].socketNum # f
      BY <1>5, NodeHasOwner
    <3> QED
      BY <1>1, <1>9, <3>1 DEF Listed, NodeOf
  <2>2. \A d \in Clients : d # c => Listed(d)' = Listed(d)
    BY <1>1, <1>9 DEF Listed, NodeOf
  <2> QED
    BY <1>8, <2>1, <2>2 DEF Listed
<1>11. \A d \in Clients : Connected(d)' = Connected(d)
  BY <1>8, <1>9 DEF Connected
<1>12. TypeOK'
  <2>1. NetTypeOK'
    BY <1>1, <1>3, <1>4, <1>5, <1>6 DEF TypeOK, NetTypeOK, SockStates
  <2>2. pollSet' \in [members : SUBSET Nat, max : Nat, size : Nat]
    BY <1>3, <1>5, <1>7, PollSetAssumption DEF addToPollSet
  <2>3. ServerTypeOK'
    BY <1>1, <2>2 DEF TypeOK, ServerTypeOK
  <2> QED
    BY <1>1, <2>1, <2>3 DEF TypeOK, ClientTypeOK
<1>13. ConnInv'
  <2>1. \A i \in 1 .. Len(backlog) - 1 : i + 1 \in 1 .. Len(backlog) /\ i + 1 # 1
    BY <1>4
  <2>2. \A i \in DOMAIN backlog' : sock'[backlog'[i]] = "backlog"
    <3> SUFFICES ASSUME NEW i \in 1 .. Len(backlog) - 1
                 PROVE  sock'[backlog'[i]] = "backlog"
      BY <1>4
    <3>1. backlog'[i] = backlog[i + 1] /\ i + 1 \in DOMAIN backlog /\ i + 1 # 1
      BY <1>4, <2>1
    <3>2. backlog[i + 1] # c /\ sock[backlog[i + 1]] = "backlog"
      BY <1>4, <3>1 DEF ConnInv
    <3>3. backlog[i + 1] \in Clients
      BY <1>3, <1>4, <3>1, ElementOfSeq
    <3> QED
      BY <1>9, <3>1, <3>2, <3>3
  <2>3. \A i, j \in DOMAIN backlog' : i # j => backlog'[i] # backlog'[j]
    <3> SUFFICES ASSUME NEW i \in 1 .. Len(backlog) - 1, NEW j \in 1 .. Len(backlog) - 1, i # j
                 PROVE  backlog'[i] # backlog'[j]
      BY <1>4
    <3>1. i + 1 # j + 1
      BY <1>4
    <3> QED
      BY <1>4, <2>1, <3>1 DEF ConnInv
  <2>4. \A d \in Clients : fd'[d] # 0 <=> sock'[d] = "open"
    BY <1>7, <1>9 DEF ConnInv
  <2>5. \A d, e \in Clients : d # e /\ sock'[d] = "open" => fd'[d] # fd'[e]
    BY <1>5, <1>9 DEF ConnInv
  <2> QED
    BY <1>1, <2>2, <2>3, <2>4, <2>5 DEF ConnInv
<1>14. PollSetMatchesSockets'
  <2>1. pollSet'.members = pollSet.members \cup {f}
    BY <1>5 DEF addToPollSet
  <2>2. {fd'[d] : d \in {e \in Clients : sock'[e] = "open"}} =
          {fd[d] : d \in {e \in Clients : sock[e] = "open"}} \cup {f}
    BY <1>4, <1>8, <1>9
  <2>3. /\ \A s \in pollSet'.members : s < pollSet'.max
        /\ pollSet'.max <= pollSet'.size
    <3>1. /\ pollSet.members \subseteq Nat /\ pollSet.max \in Nat /\ pollSet.size \in Nat
          /\ \A s \in pollSet.members : s < pollSet.max
          /\ pollSet.max <= pollSet.size
      BY <1>1, <1>3 DEF PollSetMatchesSockets
    <3>2. /\ pollSet'.max = IF f + 1 >= pollSet.max THEN f + 1 ELSE pollSet.max
          /\ pollSet'.size = IF f >= pollSet.size THEN f + POLL_SET_SIZE ELSE pollSet.size
      BY <1>5 DEF addToPollSet
    <3> QED
      BY <1>7, <2>1, <3>1, <3>2, PollSetAssumption
  <2> QED
    BY <1>1, <2>1, <2>2, <2>3 DEF PollSetMatchesSockets
<1>15. ListMatchesSockets'
  BY <1>1, <1>8, <1>9 DEF ListMatchesSockets
<1>16. ModeInv'
  <2>1. mode[c] \notin {"start", "run", "list"}
    BY <1>4, <1>8 DEF ModeInv
  <2> QED
    BY <1>1, <1>9, <1>10, <1>11, <2>1 DEF ModeInv
<1>17. ToServerInv'
  BY <1>1, <1>10 DEF ToServerInv
<1>18. ToClientInv'
  <2>1. toClient[c] = << >>
    BY <1>4, <1>8 DEF ModeInv
  <2>2. DOMAIN toClient[c] = {}
    BY <2>1
  <2> QED
    BY <1>1, <1>9, <1>10, <2>2 DEF ToClientInv, NothingAfterBye, Fits
<1>19. TodoInv'
  BY <1>1 DEF TodoInv, SendsGoToClients
<1>20. VerdictInv'
  BY <1>1, <1>10 DEF VerdictInv, FirstIsVerdict
<1>21. FarewellInv'
  BY <1>1, <1>10, <1>11 DEF FarewellInv, HeardLast, Undisturbed
<1> QED
  BY <1>12, <1>13, <1>14, <1>15, <1>16, <1>17, <1>18, <1>19, <1>20, <1>21

\* removeClient(): the connection is closed and its node, if any, is gone.
Departs(c) ==
  /\ serverUp /\ sock[c] = "open"
  /\ removeClient(c)
  /\ IsWithout(list, list', fd[c])
  /\ todo' = << >>
  /\ \/ todo = << >>
     \/ Len(todo) = 1 /\ todo[1].fd = fd[c] /\ todo[1].op \in {"close", "remove"}

LEMMA DepartKeeps ==
  ASSUME ChatInvariant, NEW c \in Clients, Departs(c), UNCHANGED clientVars
  PROVE  ChatInvariant'
<1> USE DEF ChatInvariant
<1>1. /\ serverUp /\ sock[c] = "open" /\ todo' = << >>
      /\ pollSet' = removeFromPollSet(pollSet, fd[c])
      /\ sock' = [sock EXCEPT ![c] = "closed"]
      /\ fd' = [fd EXCEPT ![c] = 0]
      /\ toServer' = [toServer EXCEPT ![c] = << >>]
      /\ UNCHANGED <<serverUp, stdinHungUp, backlog, peer, toClient,
                     mode, clientHandle, stdinLine, linesRead>>
  BY DEF Departs, removeClient, clientVars
<1>2. /\ sock \in [Clients -> SockStates] /\ fd \in [Clients -> {0} \cup Fds]
      /\ toServer \in [Clients -> Seq(Messages)] /\ backlog \in Seq(Clients)
      /\ pollSet \in [members : SUBSET Nat, max : Nat, size : Nat]
  BY DEF TypeOK, NetTypeOK, ServerTypeOK
<1>3. /\ sock'[c] = "closed" /\ fd'[c] = 0 /\ toServer'[c] = << >>
      /\ \A d \in Clients : d # c =>
           sock'[d] = sock[d] /\ fd'[d] = fd[d] /\ toServer'[d] = toServer[d]
  BY <1>1, <1>2
<1>4. fd[c] \in Fds /\ \A d \in Clients : d # c => fd[d] # fd[c]
  BY <1>1, <1>2 DEF ConnInv
<1>5. /\ list' \in Seq(Nodes) /\ NoTwins(list')
      /\ \A i \in DOMAIN list' :
           list'[i].socketNum # fd[c] /\ \E j \in DOMAIN list : list'[i] = list[j]
      /\ \A j \in DOMAIN list :
           list[j].socketNum # fd[c] => \E i \in DOMAIN list' : list'[i] = list[j]
  BY DEF Departs, IsWithout
<1>6. ~ Listed(c)' /\ \A d \in Clients : d # c => Listed(d)' = Listed(d)
  <2>1. ~ Listed(c)'
    BY <1>3 DEF Listed
  <2>2. ASSUME NEW d \in Clients, d # c PROVE Listed(d)' = Listed(d)
    <3>1. (\E i \in DOMAIN list' : list'[i].socketNum = fd[d]) <=>
            (\E j \in DOMAIN list : list[j].socketNum = fd[d])
      BY <1>4, <1>5, <2>2
    <3> QED
      BY <1>3, <2>2, <3>1 DEF Listed, NodeOf
  <2> QED
    BY <2>1, <2>2
<1>7. \A d \in Clients : Connected(d)' => d # c /\ Connected(d)
  BY <1>3 DEF Connected
<1>8. \A d \in Clients : d # c => ~ (Len(todo) = 1 /\ todo[1].fd = fd[d])
  <2>1. Len(<< >>) = 0
    OBVIOUS
  <2> QED
    BY <1>4, <2>1 DEF Departs
<1>9. TypeOK'
  <2>1. << >> \in Seq(Messages) /\ << >> \in Seq(Todos)
    BY EmptySeq
  <2>2. NetTypeOK'
    BY <1>1, <1>2, <2>1 DEF TypeOK, NetTypeOK, SockStates
  <2>3. pollSet' \in [members : SUBSET Nat, max : Nat, size : Nat]
    BY <1>1, <1>2 DEF removeFromPollSet
  <2>4. ServerTypeOK'
    BY <1>1, <1>5, <2>1, <2>3 DEF TypeOK, ServerTypeOK, Nodes, Todos
  <2> QED
    BY <1>1, <2>2, <2>4 DEF TypeOK, ClientTypeOK
<1>10. ConnInv'
  <2>1. \A i \in DOMAIN backlog : backlog[i] # c /\ backlog[i] \in Clients
    BY <1>1, <1>2, LenProperties, ElementOfSeq DEF ConnInv
  <2> QED
    BY <1>1, <1>3, <2>1 DEF ConnInv
<1>11. PollSetMatchesSockets'
  <2>1. pollSet' = [pollSet EXCEPT !.members = pollSet.members \ {fd[c]}]
    BY <1>1 DEF removeFromPollSet
  <2>2. /\ pollSet'.members = pollSet.members \ {fd[c]}
        /\ pollSet'.max = pollSet.max /\ pollSet'.size = pollSet.size
    BY <1>2, <2>1
  <2>3. fd[c] # ListenFd
    BY <1>4, FdsAreNumbers DEF ListenFd
  <2>4. {fd'[d] : d \in {e \in Clients : sock'[e] = "open"}} =
          {fd[d] : d \in {e \in Clients : sock[e] = "open"}} \ {fd[c]}
    BY <1>3, <1>4
  <2> QED
    BY <1>1, <2>2, <2>3, <2>4 DEF PollSetMatchesSockets
<1>12. ListMatchesSockets'
  <2>1. ASSUME NEW i \in DOMAIN list'
        PROVE  \E d \in Clients : /\ sock'[d] = "open" /\ fd'[d] = list'[i].socketNum
                                  /\ clientHandle[d] = list'[i].handle
    <3>1. PICK j \in DOMAIN list : list'[i] = list[j]
      BY <1>5
    <3>2. PICK d \in Clients : /\ sock[d] = "open" /\ fd[d] = list[j].socketNum
                               /\ clientHandle[d] = list[j].handle
      BY DEF ListMatchesSockets
    <3>3. d # c
      BY <1>5, <3>1, <3>2
    <3> QED
      BY <1>3, <3>1, <3>2, <3>3
  <2> QED
    BY <1>1, <1>5, <2>1 DEF ListMatchesSockets, NoTwins
<1>13. ModeInv'
  BY <1>1, <1>3, <1>6 DEF ModeInv, Connected
<1>14. ToServerInv'
  <2>1. DOMAIN toServer'[c] = {}
    BY <1>3
  <2> QED
    BY <1>1, <1>3, <1>6, <2>1 DEF ToServerInv
<1>15. ToClientInv'
  BY <1>1, <1>3, <1>6, <1>8 DEF ToClientInv, NothingAfterBye, Fits
<1>16. TodoInv'
  <2>1. DOMAIN todo' = {}
    BY <1>1
  <2> QED
    BY <2>1 DEF TodoInv, SendsGoToClients
<1>17. VerdictInv'
  <2>1. todo = << >> \/ todo[1].op # "send"
    BY DEF Departs
  <2>2. \A f, m : Send(f, m).op = "send"
    BY DEF Send
  <2> QED
    BY <1>1, <1>3, <1>6, <2>1, <2>2 DEF VerdictInv, FirstIsVerdict
<1>18. FarewellInv'
  <2>1. DOMAIN todo' = {}
    BY <1>1
  <2>2. \A d \in Clients : d # c /\ HeardLast(d) => HeardLast(d)'
    BY <1>3, <1>6, <1>8, <2>1 DEF HeardLast
  <2> QED
    BY <1>1, <1>7, <2>2 DEF FarewellInv, Undisturbed
<1> QED
  BY <1>9, <1>10, <1>11, <1>12, <1>13, <1>14, <1>15, <1>16, <1>17, <1>18

\* The three ways a connection is closed.
LEMMA Departures ==
  ASSUME ChatInvariant, NEW c \in Clients, RecvEof(c) \/ CloseRefused(c) \/ CloseLeaver(c)
  PROVE  Departs(c)
<1> USE DEF ChatInvariant
<1>1. list \in Seq(Nodes) /\ NoTwins(list)
  BY DEF TypeOK, ServerTypeOK, Nodes, NoTwins, ListMatchesSockets
<1>2. CASE RecvEof(c)
  BY <1>1, <1>2, RemoveNodeEffect DEF RecvEof, Polled, Departs
<1>3. CASE CloseRefused(c) \/ CloseLeaver(c)
  <2>1. /\ serverUp /\ todo # << >> /\ Head(todo).op \in {"close", "remove"}
        /\ fd[c] = Head(todo).fd /\ sock[c] = "open" /\ removeClient(c)
        /\ todo' = Tail(todo)
    BY <1>3 DEF CloseRefused, CloseLeaver, Doing, Next1
  <2>2. todo \in Seq(Todos)
    BY DEF TypeOK, ServerTypeOK, Todos
  <2>3. /\ Len(todo) \in Nat \ {0} /\ Head(todo) = todo[1]
        /\ Tail(todo) \in Seq(Todos) /\ Len(Tail(todo)) = Len(todo) - 1
    BY <2>1, <2>2, TailEffect
  <2>4. 1 \in DOMAIN todo
    BY <2>2, <2>3, LenProperties
  <2>5. Len(todo) = 1
    BY <2>1, <2>3, <2>4 DEF TodoInv
  <2>6. todo' = << >>
    BY <2>1, <2>3, <2>5, EmptySeq
  <2>7. IsWithout(list, list', fd[c])
    <3>1. CASE CloseRefused(c)
      <4>1. todo[1].op = "close" /\ OpenAt(c, todo[1].fd) /\ list' = list
        BY <2>1, <2>3, <3>1 DEF CloseRefused, Doing, Next1, OpenAt
      <4>2. ~ Listed(c)
        BY <2>4, <4>1 DEF TodoInv
      <4>3. \A i \in DOMAIN list : list[i].socketNum # fd[c]
        BY <2>1, <4>2 DEF Listed, NodeOf
      <4> QED
        BY <1>1, <4>1, <4>3 DEF IsWithout
    <3>2. CASE CloseLeaver(c)
      BY <1>1, <3>2, RemoveNodeEffect DEF CloseLeaver
    <3> QED
      BY <1>3, <3>1, <3>2
  <2> QED
    BY <2>1, <2>3, <2>5, <2>6, <2>7 DEF Departs
<1> QED
  BY <1>2, <1>3

LEMMA SendShape ==
  \A f, m : Send(f, m).op = "send" /\ Send(f, m).fd = f /\ Send(f, m).msg = m
  BY DEF Send

\* What a step of the handler leaves of it.
LEMMA TodoShifts ==
  ASSUME ChatInvariant, todo # << >>, todo' = Tail(todo)
  PROVE  /\ Len(todo) \in Nat \ {0} /\ 1 \in DOMAIN todo /\ Next1 = todo[1]
         /\ todo[1] \in Todos
         /\ todo' \in Seq(Todos) /\ Len(todo') = Len(todo) - 1
         /\ DOMAIN todo' = 1 .. Len(todo')
         /\ \A i \in DOMAIN todo' :
              /\ i + 1 \in DOMAIN todo /\ todo'[i] = todo[i + 1] /\ i + 1 # 1
              /\ i + 1 = Len(todo) => i = Len(todo')
<1>1. todo \in Seq(Todos)
  BY DEF ChatInvariant, TypeOK, ServerTypeOK, Todos
<1>2. /\ Len(todo) \in Nat \ {0} /\ Head(todo) = todo[1] /\ todo[1] \in Todos
      /\ Tail(todo) \in Seq(Todos) /\ Len(Tail(todo)) = Len(todo) - 1
      /\ DOMAIN Tail(todo) = 1 .. Len(todo) - 1
      /\ \A i \in 1 .. Len(todo) - 1 : Tail(todo)[i] = todo[i + 1]
  BY <1>1, TailEffect
<1>3. DOMAIN todo = 1 .. Len(todo)
  BY <1>1, LenProperties
<1>4. ASSUME NEW n \in Nat, NEW i \in 1 .. n - 1
      PROVE  i + 1 \in 1 .. n /\ i + 1 # 1 /\ (i + 1 = n => i = n - 1)
  OBVIOUS
<1>5. Len(todo) \in Nat
  BY <1>2
<1>6. \A i \in 1 .. Len(todo) - 1 :
        /\ i + 1 \in 1 .. Len(todo) /\ i + 1 # 1
        /\ i + 1 = Len(todo) => i = Len(todo) - 1
  BY <1>4, <1>5
<1>7. DOMAIN todo' = 1 .. Len(todo) - 1 /\ Len(todo') = Len(todo) - 1
      /\ todo' \in Seq(Todos)
      /\ \A i \in 1 .. Len(todo) - 1 : todo'[i] = todo[i + 1]
  BY <1>2
<1>8. 1 \in DOMAIN todo
  BY <1>2, <1>3
<1> QED
  BY <1>2, <1>3, <1>6, <1>7, <1>8 DEF Next1

\* safeSend() of a FLAG_3 or FLAG_9 leaves only the closing of the connection.
LEMMA SendEndsTodo ==
  ASSUME ChatInvariant, serverUp, todo # << >>, todo[1].op \in {"send", "skip"},
         todo' = Tail(todo), UNCHANGED <<sock, fd, mode, clientHandle, list>>
  PROVE  TodoInv'
<1> USE DEF ChatInvariant
<1>1. \A d \in Clients : Listed(d)' = Listed(d)
  BY DEF Listed, NodeOf
<1>2. \A i \in DOMAIN todo' :
        /\ i + 1 \in DOMAIN todo /\ todo'[i] = todo[i + 1] /\ i + 1 # 1
        /\ i + 1 = Len(todo) => i = Len(todo')
  BY TodoShifts
<1>3. SendsGoToClients'
  BY <1>2 DEF TodoInv, SendsGoToClients
<1>4. ASSUME NEW i \in DOMAIN todo', NEW d \in Clients, OpenAt(d, todo'[i].fd)
      PROVE  /\ mode[d] \notin {"start", "connected"}
             /\ todo'[i].op = "send" => Fits(d, todo'[i].msg)
             /\ todo'[i].op = "send" /\ todo'[i].msg.flag # 3 => Listed(d)
             /\ todo'[i].op = "close" => ~Listed(d)
  <2>1. i + 1 \in DOMAIN todo /\ todo'[i] = todo[i + 1]
    BY <1>2
  <2> QED
    BY <1>4, <2>1 DEF TodoInv
<1>5. ASSUME NEW i \in DOMAIN todo'
      PROVE  /\ todo'[i].op \in {"close", "remove"} => i = Len(todo')
             /\ ~ (todo'[i].op = "send" /\ todo'[i].msg.flag \in {3, 9})
  <2>1. /\ i + 1 \in DOMAIN todo /\ todo'[i] = todo[i + 1] /\ i + 1 # 1
        /\ i + 1 = Len(todo) => i = Len(todo')
    BY <1>2
  <2> QED
    BY <2>1 DEF TodoInv
<1> QED
  BY <1>1, <1>3, <1>4, <1>5 DEF TodoInv, OpenAt, Fits

\* The client of a send is known to the server, which has not sent it a bye.
LEMMA SendTarget ==
  ASSUME ChatInvariant, NEW c \in Clients, todo # << >>, todo' = Tail(todo),
         todo[1].op = "send", fd[c] = todo[1].fd, sock[c] = "open"
  PROVE  /\ mode[c] \notin {"start", "connected"}
         /\ todo[1].msg \in Messages
         /\ Fits(c, todo[1].msg)
         /\ todo[1].msg.flag # 3 => Listed(c)
         /\ \A i \in DOMAIN toClient[c] : toClient[c][i].flag \notin {3, 9}
         /\ todo[1].msg.flag \in {3, 9} =>
              /\ Len(todo') = 1 /\ todo'[1].fd = fd[c]
              /\ todo'[1].op \in {"close", "remove"}
         /\ mode[c] = "login" /\ toClient[c] = << >> =>
              todo[1].msg.flag \in {2, 3}
         /\ Undisturbed => peer[c] = "up"
<1> USE DEF ChatInvariant
<1>1. /\ Len(todo) \in Nat \ {0} /\ 1 \in DOMAIN todo /\ todo[1] \in Todos
      /\ Len(todo') = Len(todo) - 1 /\ DOMAIN todo' = 1 .. Len(todo')
      /\ \A i \in DOMAIN todo' : todo'[i] = todo[i + 1]
  BY TodoShifts
<1>2. /\ mode[c] \notin {"start", "connected"} /\ Fits(c, todo[1].msg)
      /\ todo[1].msg.flag # 3 => Listed(c)
  BY <1>1 DEF TodoInv, OpenAt
<1>3. todo[1].msg \in Messages
  BY <1>1 DEF Todos
<1>4. \A i \in DOMAIN toClient[c] : toClient[c][i].flag \notin {3, 9}
  BY DEF ToClientInv
<1>5. ASSUME todo[1].msg.flag \in {3, 9}
      PROVE  /\ Len(todo') = 1 /\ todo'[1].fd = fd[c]
             /\ todo'[1].op \in {"close", "remove"}
  <2>1. Len(todo) = 2 /\ todo[2].op \in {"close", "remove"} /\ todo[2].fd = fd[c]
    BY <1>1, <1>5 DEF TodoInv
  <2>2. Len(todo') = 1 /\ 1 \in DOMAIN todo'
    <3>1. Len(todo') = 1
      BY <1>1, <2>1
    <3>2. DOMAIN todo' = 1 .. 1
      BY <1>1, <3>1
    <3> QED
      BY <3>1, <3>2
  <2>3. todo'[1] = todo[2]
    BY <1>1, <2>2
  <2> QED
    BY <2>1, <2>2, <2>3
<1>6. ASSUME mode[c] = "login", toClient[c] = << >>, todo[1].msg.flag # 3
      PROVE  todo[1].msg.flag = 2
  <2>1. todo[1] = Send(fd[c], Plain(2))
    BY <1>2, <1>6 DEF VerdictInv
  <2>2. Send(fd[c], Plain(2)).msg = Plain(2)
    BY DEF Send
  <2>3. Plain(2).flag = 2
    BY DEF Plain
  <2> QED
    BY <2>1, <2>2, <2>3
<1>7. ASSUME Undisturbed, peer[c] # "up" PROVE FALSE
  <2>1. HeardLast(c)
    BY <1>7 DEF FarewellInv, Connected
  <2> QED
    BY <1>1, <2>1 DEF HeardLast
<1> QED
  BY <1>2, <1>3, <1>4, <1>5, <1>6, <1>7

\* A message is on its way, or lost, or the sender of a %B is passed over.
LEMMA SendKeeps ==
  ASSUME ChatInvariant, UNCHANGED clientVars,
         SkipSender \/ \E c \in Clients : SafeSend(c) \/ SafeSendLost(c)
  PROVE  ChatInvariant'
<1> USE DEF ChatInvariant
<1>1. /\ serverUp /\ todo # << >> /\ todo' = Tail(todo) /\ Next1.op \in {"send", "skip"}
      /\ UNCHANGED <<serverUp, list, pollSet, stdinHungUp, backlog, sock, fd, toServer,
                     mode, clientHandle, stdinLine, linesRead>>
  BY DEF SkipSender, SafeSend, SafeSendLost, Doing, SendDone, netVars, clientVars
<1>2. /\ Len(todo) \in Nat \ {0} /\ 1 \in DOMAIN todo /\ Next1 = todo[1]
      /\ todo' \in Seq(Todos)
      /\ \A i \in DOMAIN todo' : i + 1 \in DOMAIN todo /\ todo'[i] = todo[i + 1]
  BY <1>1, TodoShifts
<1>3. todo[1].op \in {"send", "skip"}
  BY <1>1, <1>2
<1>4. /\ toClient \in [Clients -> Seq(Messages)] /\ peer \in [Clients -> PeerStates]
  BY DEF TypeOK, NetTypeOK
<1>5. \A d \in Clients : /\ Listed(d)' = Listed(d)
                         /\ Connected(d)' = Connected(d)
  BY <1>1 DEF Listed, NodeOf, Connected
<1>6. TodoInv'
  BY <1>1, <1>3, SendEndsTodo
<1>7. /\ ConnInv' /\ PollSetMatchesSockets' /\ ListMatchesSockets' /\ ToServerInv'
      /\ ServerTypeOK'
  <2>1. ConnInv' /\ PollSetMatchesSockets' /\ ListMatchesSockets'
    BY <1>1 DEF ConnInv, PollSetMatchesSockets, ListMatchesSockets
  <2>2. ToServerInv'
    BY <1>1, <1>5 DEF ToServerInv
  <2>3. ServerTypeOK'
    BY <1>1, <1>2 DEF TypeOK, ServerTypeOK, Todos
  <2> QED
    BY <2>1, <2>2, <2>3
<1>8. \A d \in Clients : \A i \in DOMAIN toClient[d] :
        toClient[d][i].flag \in {3, 9} => sock[d] = "closed"
  BY <1>3 DEF ToClientInv
<1>9. \A d \in Clients : HeardLast(d) =>
        HeardLast(d)' /\ ~ (todo[1].op = "send" /\ todo[1].fd = fd[d])
  <2> SUFFICES ASSUME NEW d \in Clients, HeardLast(d)
               PROVE  HeardLast(d)' /\ ~ (todo[1].op = "send" /\ todo[1].fd = fd[d])
    OBVIOUS
  <2>1. /\ ~ Listed(d) /\ toServer[d] = << >>
        /\ \A i \in DOMAIN todo : todo[i].op = "send" => todo[i].fd # fd[d]
    BY <1>3 DEF HeardLast
  <2>2. \A i \in DOMAIN todo' : todo'[i].op = "send" => todo'[i].fd # fd[d]
    BY <1>2, <2>1
  <2> QED
    BY <1>1, <1>2, <1>5, <2>1, <2>2 DEF HeardLast
<1>10. CASE UNCHANGED <<toClient, peer>> /\ todo[1].op = "skip"
  <2>1. TypeOK'
    BY <1>1, <1>7, <1>10 DEF TypeOK, NetTypeOK, ClientTypeOK
  <2>2. ModeInv'
    BY <1>1, <1>5, <1>10 DEF ModeInv
  <2>3. ToClientInv'
    BY <1>1, <1>5, <1>8, <1>10 DEF ToClientInv, NothingAfterBye, Fits
  <2>4. VerdictInv'
    <3>1. \A f, m : Send(f, m).op = "send"
      BY DEF Send
    <3> QED
      BY <1>1, <1>5, <1>10, <3>1 DEF VerdictInv, FirstIsVerdict
  <2>5. FarewellInv'
    BY <1>1, <1>5, <1>9, <1>10 DEF FarewellInv, Undisturbed
  <2> QED
    BY <1>6, <1>7, <2>1, <2>2, <2>3, <2>4, <2>5
<1>11. ASSUME NEW c \in Clients, SafeSend(c) \/ SafeSendLost(c)
       PROVE  ChatInvariant'
  <2>1. todo[1].op = "send" /\ fd[c] = todo[1].fd /\ sock[c] = "open"
    BY <1>2, <1>11 DEF SafeSend, SafeSendLost, Doing
  <2>2. /\ mode[c] \notin {"start", "connected"}
        /\ todo[1].msg \in Messages
        /\ Fits(c, todo[1].msg)
        /\ todo[1].msg.flag # 3 => Listed(c)
        /\ \A i \in DOMAIN toClient[c] : toClient[c][i].flag \notin {3, 9}
        /\ todo[1].msg.flag \in {3, 9} =>
             /\ Len(todo') = 1 /\ todo'[1].fd = fd[c]
             /\ todo'[1].op \in {"close", "remove"}
        /\ mode[c] = "login" /\ toClient[c] = << >> =>
             todo[1].msg.flag \in {2, 3}
        /\ Undisturbed => peer[c] = "up"
    BY <1>1, <2>1, SendTarget
  <2>3. CASE SafeSendLost(c)
    <3>1. /\ peer[c] # "up" /\ UNCHANGED toClient
          /\ peer' = [peer EXCEPT ![c] = IF @ = "fin" THEN "dead" ELSE @]
      BY <2>3 DEF SafeSendLost
    <3>2. /\ \A d \in Clients : d # c => peer'[d] = peer[d]
          /\ peer'[c] # "up" /\ peer' \in [Clients -> PeerStates]
      BY <1>4, <3>1 DEF PeerStates
    <3>3. ~ Undisturbed
      BY <2>2, <3>1
    <3>4. TypeOK'
      BY <1>1, <1>7, <3>1, <3>2 DEF TypeOK, NetTypeOK, ClientTypeOK
    <3>5. mode[c] = "gone"
      BY <3>1 DEF ModeInv
    <3>6. ModeInv'
      BY <1>1, <1>5, <3>1, <3>2, <3>5 DEF ModeInv
    <3>7. ToClientInv'
      BY <1>1, <1>5, <1>8, <3>1 DEF ToClientInv, NothingAfterBye, Fits
    <3>8. VerdictInv'
      <4>1. ASSUME NEW d \in Clients, mode[d] = "login", Listed(d), toClient[d] = << >>
            PROVE  FALSE
        <5>1. todo[1].fd = fd[d]
          <6>1. todo[1] = Send(fd[d], Plain(2))
            BY <4>1 DEF VerdictInv
          <6> QED
            BY <6>1, SendShape
        <5> QED
          BY <2>1, <3>5, <4>1, <5>1 DEF ConnInv
      <4> QED
        BY <1>1, <1>5, <3>1, <4>1 DEF VerdictInv, FirstIsVerdict
    <3>9. FarewellInv'
      BY <3>3 DEF FarewellInv, Undisturbed
    <3> QED
      BY <1>6, <1>7, <3>4, <3>6, <3>7, <3>8, <3>9
  <2>4. CASE SafeSend(c)
    <3>1. /\ peer[c] = "up" /\ UNCHANGED peer
          /\ toClient' = [toClient EXCEPT ![c] = Append(toClient[c], todo[1].msg)]
      BY <1>2, <2>4 DEF SafeSend
    <3>2. /\ toClient[c] \in Seq(Messages) /\ toClient'[c] = Append(toClient[c], todo[1].msg)
          /\ \A d \in Clients : d # c => toClient'[d] = toClient[d]
      BY <1>4, <3>1
    <3>3. /\ Len(toClient[c]) \in Nat /\ DOMAIN toClient[c] = 1 .. Len(toClient[c])
          /\ toClient'[c] \in Seq(Messages) /\ toClient'[c] # << >>
          /\ Len(toClient'[c]) = Len(toClient[c]) + 1
          /\ DOMAIN toClient'[c] = 1 .. Len(toClient[c]) + 1
          /\ \A i \in 1 .. Len(toClient[c]) : toClient'[c][i] = toClient[c][i]
          /\ toClient'[c][Len(toClient[c]) + 1] = todo[1].msg
      BY <2>2, <3>2, AppendEffect, LenProperties
    <3>4. \A i \in DOMAIN toClient'[c] :
            \/ i \in DOMAIN toClient[c] /\ toClient'[c][i] = toClient[c][i]
            \/ i = Len(toClient'[c]) /\ toClient'[c][i] = todo[1].msg
      BY <3>3
    <3>5. TypeOK'
      <4>1. toClient' \in [Clients -> Seq(Messages)]
        BY <1>4, <3>1, <3>2, <3>3
      <4>2. NetTypeOK'
        BY <1>1, <3>1, <4>1 DEF TypeOK, NetTypeOK
      <4> QED
        BY <1>1, <1>7, <4>2 DEF TypeOK, ClientTypeOK
    <3>6. ModeInv'
      BY <1>1, <1>5, <2>1, <2>2, <3>1, <3>2 DEF ModeInv
    <3>7. ToClientInv'
      <4>1. NothingAfterBye'
        BY <2>2, <3>2, <3>4 DEF ToClientInv, NothingAfterBye
      <4>2. ASSUME NEW d \in Clients, NEW i \in DOMAIN toClient'[d]
            PROVE  LET m == toClient'[d][i]
                   IN  /\ Fits(d, m)
                       /\ m.flag # 3 => sock[d] = "closed" \/ Listed(d)
                       /\ m.flag \in {3, 9} =>
                            sock[d] = "closed"
                              \/ /\ Len(todo') = 1 /\ todo'[1].fd = fd[d]
                                 /\ todo'[1].op \in {"close", "remove"}
        <5>1. CASE i \in DOMAIN toClient[d] /\ toClient'[d][i] = toClient[d][i]
          BY <1>8, <5>1 DEF ToClientInv
        <5>2. CASE d = c /\ toClient'[d][i] = todo[1].msg
          BY <2>2, <5>2
        <5> QED
          BY <3>2, <3>4, <5>1, <5>2
      <4> QED
        BY <1>1, <1>5, <4>1, <4>2 DEF ToClientInv, Fits
    <3>8. VerdictInv'
      <4>1. ASSUME NEW d \in Clients, mode[d] = "login", toClient'[d] # << >>
            PROVE  Head(toClient'[d]).flag \in {2, 3}
        <5>1. CASE d # c
          BY <3>2, <4>1, <5>1 DEF VerdictInv, FirstIsVerdict
        <5>2. CASE d = c /\ toClient[c] = << >>
          <6>1. toClient'[c] = << todo[1].msg >>
            BY <3>2, <5>2
          <6> QED
            BY <2>2, <4>1, <5>2, <6>1
        <5>3. CASE d = c /\ toClient[c] # << >>
          <6>1. Head(toClient'[c]) = Head(toClient[c])
            <7>1. Len(toClient[c]) \in Nat \ {0} /\ Head(toClient[c]) = toClient[c][1]
              BY <3>2, <5>3, TailEffect
            <7>2. Head(toClient'[c]) = toClient'[c][1]
              BY <3>3, TailEffect
            <7> QED
              BY <3>3, <7>1, <7>2
          <6> QED
            BY <4>1, <5>3, <6>1 DEF VerdictInv, FirstIsVerdict
        <5> QED
          BY <5>1, <5>2, <5>3
      <4>2. ASSUME NEW d \in Clients, mode[d] = "login", Listed(d), toClient'[d] = << >>
            PROVE  FALSE
        <5>1. d # c /\ toClient[d] = << >>
          BY <3>2, <3>3, <4>2
        <5>2. todo[1].fd = fd[d]
          <6>1. todo[1] = Send(fd[d], Plain(2))
            BY <4>2, <5>1 DEF VerdictInv
          <6> QED
            BY <6>1, SendShape
        <5> QED
          BY <2>1, <5>1, <5>2 DEF ConnInv
      <4> QED
        BY <1>1, <1>5, <4>1, <4>2 DEF VerdictInv, FirstIsVerdict
    <3>9. FarewellInv'
      BY <1>1, <1>5, <1>9, <3>1 DEF FarewellInv, Undisturbed
    <3> QED
      BY <1>6, <1>7, <3>5, <3>6, <3>7, <3>8, <3>9
  <2> QED
    BY <1>11, <2>3, <2>4
<1> QED
  <2>1. SkipSender => UNCHANGED <<toClient, peer>> /\ todo[1].op = "skip"
    BY <1>2 DEF SkipSender, Doing, netVars
  <2> QED
    BY <1>10, <1>11, <2>1

-----------------------------------------------------------------------------
(* What recvFromClient() makes of a message. *)

\* What may be sent to the clients in L, none of it the last they hear.
AnswersTo(L) ==
  {t \in Todos : \/ t.op = "skip" /\ t.fd = 0
                 \/ /\ t.op = "send" /\ t.msg.flag \notin {3, 9}
                    /\ \E e \in L : fd[e] = t.fd /\ Fits(e, t.msg)}

\* Handlers only write to c, which has logged in or just does, and to those
\* in the list.
Answered(c) ==
  /\ todo' \in Seq(Todos)
  /\ TodoInv'
  /\ \A i \in DOMAIN todo' : todo'[i].op = "send" =>
       \E e \in Clients : sock[e] = "open" /\ fd[e] = todo'[i].fd /\ (e = c \/ Listed(e))

OnlySends == \A i \in DOMAIN todo' : todo'[i].op \in {"send", "skip"}

LEMMA AnswersKeep ==
  ASSUME ChatInvariant, UNCHANGED <<sock, fd, mode, clientHandle>>,
         NEW c \in Clients, sock[c] = "open", mode[c] \notin {"start", "connected"},
         NEW L \in SUBSET Clients,
         \A e \in L : (e = c \/ Listed(e)) /\ Listed(e)',
         todo' \in Seq(AnswersTo(L))
  PROVE  Answered(c) /\ OnlySends
<1> USE DEF ChatInvariant
<1>1. todo' \in Seq(Todos)
  <2>1. AnswersTo(L) \subseteq Todos
    BY DEF AnswersTo
  <2> HIDE DEF AnswersTo
  <2>2. todo' \in [1 .. Len(todo') -> AnswersTo(L)] /\ Len(todo') \in Nat
    BY LenProperties
  <2>3. todo' \in [1 .. Len(todo') -> Todos]
    BY <2>1, <2>2
  <2> QED
    BY <2>2, <2>3, FunctionIsSeq
<1>2. \A i \in DOMAIN todo' : todo'[i] \in AnswersTo(L)
  <2> HIDE DEF AnswersTo
  <2> QED
    BY LenProperties, ElementOfSeq
<1>3. ASSUME NEW i \in DOMAIN todo'
      PROVE  /\ todo'[i].op \in {"send", "skip"}
             /\ todo'[i].op = "skip" => todo'[i].fd = 0
             /\ todo'[i].op = "send" =>
                  /\ todo'[i].msg.flag \notin {3, 9}
                  /\ \E e \in L : fd[e] = todo'[i].fd /\ Fits(e, todo'[i].msg)
  BY <1>2 DEF AnswersTo
<1>4. \A e \in L : sock[e] = "open" /\ mode[e] \notin {"start", "connected"} /\ e \in Clients
  BY DEF Listed, ModeInv
<1>5. SendsGoToClients'
  BY <1>3, <1>4 DEF SendsGoToClients
<1>6. ASSUME NEW i \in DOMAIN todo', NEW d \in Clients, OpenAt(d, todo'[i].fd)
      PROVE  /\ mode[d] \notin {"start", "connected"}
             /\ todo'[i].op = "send" => Fits(d, todo'[i].msg)
             /\ todo'[i].op = "send" => Listed(d)'
             /\ todo'[i].op # "close"
  <2>1. CASE todo'[i].op = "skip"
    BY <1>3, <1>6, <2>1 DEF ConnInv, OpenAt
  <2>2. CASE todo'[i].op = "send"
    <3>1. PICK e \in L : fd[e] = todo'[i].fd /\ Fits(e, todo'[i].msg)
      BY <1>3, <2>2
    <3>2. d = e
      BY <1>4, <1>6, <3>1 DEF ConnInv, OpenAt
    <3> QED
      BY <1>4, <2>2, <3>1, <3>2
  <2> QED
    BY <1>3, <2>1, <2>2
<1>7. TodoInv'
  BY <1>3, <1>5, <1>6 DEF TodoInv, OpenAt, Fits
<1>8. \A i \in DOMAIN todo' : todo'[i].op = "send" =>
        \E e \in Clients : sock[e] = "open" /\ fd[e] = todo'[i].fd /\ (e = c \/ Listed(e))
  BY <1>3, <1>4
<1> QED
  BY <1>1, <1>3, <1>7, <1>8 DEF Answered, OnlySends

\* A message is taken from its connection, which is one that has its turn.
Takes(c) ==
  /\ serverUp /\ sock[c] = "open" /\ todo = << >> /\ toServer[c] # << >>
  /\ toServer' = [toServer EXCEPT ![c] = Tail(@)]
  /\ UNCHANGED <<serverUp, pollSet, stdinHungUp, backlog, sock, fd, peer, toClient>>
  /\ UNCHANGED clientVars

\* What is known of the message.
LEMMA TakenMessage ==
  ASSUME ChatInvariant, NEW c \in Clients, Takes(c)
  PROVE  LET m == Head(toServer[c])
         IN  /\ m \in Messages
             /\ mode[c] \notin {"start", "connected"}
             /\ m.flag \in {1, 4, 5} => m.name = clientHandle[c]
             /\ m.flag = 1 => Len(toServer[c]) = 1 /\ ~ Listed(c)
             /\ m.flag # 1 => Listed(c)
             /\ LeadIsTyped(m)
<1> USE DEF ChatInvariant
<1>1. toServer[c] \in Seq(Messages) /\ toServer[c] # << >>
  BY DEF Takes, TypeOK, NetTypeOK
<1>2. /\ Head(toServer[c]) = toServer[c][1] /\ toServer[c][1] \in Messages
      /\ Len(toServer[c]) \in Nat \ {0}
  BY <1>1, TailEffect
<1>3. 1 \in DOMAIN toServer[c]
  BY <1>1, <1>2, LenProperties
<1>4. mode[c] \notin {"start", "connected"}
  BY <1>1 DEF ModeInv
<1> QED
  BY <1>2, <1>3, <1>4 DEF ToServerInv

LEMMA ReceiveKeeps ==
  ASSUME ChatInvariant, NEW c \in Clients, Takes(c), Answered(c),
         LET m == Head(toServer[c])
         IN  \/ UNCHANGED list
             \/ /\ m.flag = 1 /\ available(list, m.name)
                /\ list' = addNode(list, makeNode(m.name, fd[c]))
                /\ todo' = << Send(fd[c], Plain(2)) >>
  PROVE  ChatInvariant'
<1> USE DEF ChatInvariant
<1> DEFINE m == Head(toServer[c])
           node == makeNode(m.name, fd[c])
           Enters == /\ m.flag = 1 /\ available(list, m.name)
                     /\ list' = addNode(list, node)
                     /\ todo' = << Send(fd[c], Plain(2)) >>
<1>1. /\ serverUp /\ sock[c] = "open" /\ todo = << >> /\ toServer[c] # << >>
      /\ toServer' = [toServer EXCEPT ![c] = Tail(@)]
      /\ UNCHANGED <<serverUp, pollSet, stdinHungUp, backlog, sock, fd, peer, toClient,
                     mode, clientHandle, stdinLine, linesRead>>
  BY DEF Takes, clientVars
<1>2. /\ m \in Messages
      /\ mode[c] \notin {"start", "connected"}
      /\ m.flag \in {1, 4, 5} => m.name = clientHandle[c]
      /\ m.flag = 1 => Len(toServer[c]) = 1 /\ ~ Listed(c)
      /\ m.flag # 1 => Listed(c)
  BY TakenMessage
<1>3. /\ toServer \in [Clients -> Seq(Messages)] /\ fd \in [Clients -> {0} \cup Fds]
      /\ list \in Seq(Nodes) /\ NoTwins(list)
  BY DEF TypeOK, NetTypeOK, ServerTypeOK, Nodes, NoTwins, ListMatchesSockets
<1>4. /\ Len(toServer[c]) \in Nat \ {0} /\ toServer'[c] = Tail(toServer[c])
      /\ toServer' \in [Clients -> Seq(Messages)]
      /\ DOMAIN toServer[c] = 1 .. Len(toServer[c])
      /\ DOMAIN toServer'[c] = 1 .. Len(toServer[c]) - 1
      /\ \A i \in 1 .. Len(toServer[c]) - 1 : toServer'[c][i] = toServer[c][i + 1]
      /\ \A d \in Clients : d # c => toServer'[d] = toServer[d]
  <2>1. toServer[c] \in Seq(Messages)
    BY <1>3
  <2>2. /\ Len(toServer[c]) \in Nat \ {0}
        /\ Tail(toServer[c]) \in Seq(Messages)
        /\ DOMAIN Tail(toServer[c]) = 1 .. Len(toServer[c]) - 1
        /\ \A i \in 1 .. Len(toServer[c]) - 1 : Tail(toServer[c])[i] = toServer[c][i + 1]
    BY <1>1, <2>1, TailEffect
  <2>3. DOMAIN toServer[c] = 1 .. Len(toServer[c])
    BY <2>1, LenProperties
  <2>4. /\ toServer'[c] = Tail(toServer[c])
        /\ \A d \in Clients : d # c => toServer'[d] = toServer[d]
    BY <1>1, <1>3
  <2>5. toServer' \in [Clients -> Seq(Messages)]
    BY <1>1, <1>3, <2>2
  <2> QED
    BY <2>2, <2>3, <2>4, <2>5
<1>5. fd[c] \in Fds /\ \A d \in Clients : d # c => fd[d] # fd[c]
  BY <1>1, <1>3 DEF ConnInv
<1>6. UNCHANGED list \/ Enters
  OBVIOUS
<1>7. ASSUME Enters
      PROVE  /\ node \in Nodes /\ node.handle = clientHandle[c] /\ node.socketNum = fd[c]
             /\ ~ Listed(c)
             /\ list' \in Seq(Nodes) /\ NoTwins(list')
             /\ \A i \in DOMAIN list' : list'[i] = node \/ \E j \in DOMAIN list : list'[i] = list[j]
             /\ \E i \in DOMAIN list' : list'[i] = node
             /\ \A j \in DOMAIN list : \E i \in DOMAIN list' : list'[i] = list[j]
  <2>1. m.name = clientHandle[c] /\ ~ Listed(c) /\ clientHandle[c] \in Handles
    BY <1>2, <1>7 DEF TypeOK, ClientTypeOK
  <2>2. node \in Nodes /\ node.handle = m.name /\ node.socketNum = fd[c]
    BY <1>5, <2>1 DEF makeNode, Nodes
  <2>3. \A i \in DOMAIN list : list[i].socketNum # fd[c]
    BY <1>1, <2>1 DEF Listed, NodeOf
  <2> HIDE DEF node
  <2>4. available(list, node.handle) /\ list' = addNode(list, node)
    BY <1>7, <2>2
  <2>5. /\ list' \in Seq(Nodes) /\ NoTwins(list')
        /\ \A i \in DOMAIN list' : list'[i] = node \/ \E j \in DOMAIN list : list'[i] = list[j]
        /\ \E i \in DOMAIN list' : list'[i] = node
        /\ \A j \in DOMAIN list : \E i \in DOMAIN list' : list'[i] = list[j]
    BY <1>3, <2>2, <2>3, <2>4, AddNodeEffect
  <2> QED
    BY <2>1, <2>2, <2>5
<1> HIDE DEF node, m
<1>8. /\ \A d \in Clients : d # c => Listed(d)' = Listed(d)
      /\ Listed(c)' = (Listed(c) \/ Enters)
  <2>1. CASE UNCHANGED list
    <3>1. Enters => FALSE
      <4>1. Enters => \E i \in DOMAIN list' : list'[i] = node
        BY <1>7
      <4>2. Enters => ~ Listed(c) /\ node.socketNum = fd[c]
        BY <1>7
      <4> QED
        BY <1>1, <2>1, <4>1, <4>2 DEF Listed, NodeOf
    <3> QED
      BY <1>1, <2>1, <3>1 DEF Listed, NodeOf
  <2>2. CASE Enters
    <3>1. ASSUME NEW d \in Clients, d # c PROVE Listed(d)' = Listed(d)
      <4>1. (\E i \in DOMAIN list' : list'[i].socketNum = fd[d]) <=>
              (\E j \in DOMAIN list : list[j].socketNum = fd[d])
        <5>1. fd[d] # node.socketNum
          BY <1>5, <1>7, <2>2, <3>1
        <5>2. \A i \in DOMAIN list' :
                list'[i] = node \/ \E j \in DOMAIN list : list'[i] = list[j]
          BY <1>7, <2>2
        <5>3. \A j \in DOMAIN list : \E i \in DOMAIN list' : list'[i] = list[j]
          BY <1>7, <2>2
        <5> QED
          BY <5>1, <5>2, <5>3
      <4> QED
        BY <1>1, <4>1 DEF Listed, NodeOf
    <3>2. Listed(c)'
      BY <1>1, <1>7, <2>2 DEF Listed, NodeOf
    <3> QED
      BY <2>2, <3>1, <3>2 DEF Listed
  <2> QED
    BY <1>6, <2>1, <2>2
<1>9. \A d \in Clients : Connected(d)' = Connected(d)
  BY <1>1 DEF Connected
<1>10. TypeOK'
  <2>1. NetTypeOK'
    BY <1>1, <1>4 DEF TypeOK, NetTypeOK
  <2>2. list' \in Seq(Nodes)
    BY <1>3, <1>6, <1>7
  <2>3. ServerTypeOK'
    BY <1>1, <2>2 DEF TypeOK, ServerTypeOK, Nodes, Todos, Answered
  <2> QED
    BY <1>1, <2>1, <2>3 DEF TypeOK, ClientTypeOK
<1>11. ConnInv' /\ PollSetMatchesSockets'
  BY <1>1 DEF ConnInv, PollSetMatchesSockets
<1>12. ListMatchesSockets'
  <2>1. CASE UNCHANGED list
    BY <1>1, <2>1 DEF ListMatchesSockets
  <2>2. CASE Enters
    <3>1. ASSUME NEW i \in DOMAIN list'
          PROVE  \E d \in Clients : /\ sock[d] = "open" /\ fd[d] = list'[i].socketNum
                                    /\ clientHandle[d] = list'[i].handle
      BY <1>1, <1>7, <2>2 DEF ListMatchesSockets
    <3> QED
      BY <1>1, <1>7, <2>2, <3>1 DEF ListMatchesSockets, NoTwins
  <2> QED
    BY <1>6, <2>1, <2>2
<1>13. ModeInv'
  <2>1. \A d \in Clients : toServer'[d] # << >> => toServer[d] # << >>
    BY <1>1, <1>4
  <2> QED
    BY <1>1, <1>2, <1>8, <1>9, <2>1 DEF ModeInv
<1>14. ToServerInv'
  <2> SUFFICES ASSUME NEW d \in Clients, NEW i \in DOMAIN toServer'[d]
               PROVE  /\ toServer'[d][i].flag \in {1, 4, 5} =>
                           toServer'[d][i].name = clientHandle[d]
                      /\ toServer'[d][i].flag = 1 =>
                           /\ Len(toServer'[d]) = 1
                           /\ mode[d] \in {"login", "gone"} /\ ~ Listed(d)'
                      /\ toServer'[d][i].flag # 1 => Listed(d)'
                      /\ LeadIsTyped(toServer'[d][i])
    BY <1>1 DEF ToServerInv
  <2>1. CASE d # c
    BY <1>4, <1>8, <2>1 DEF ToServerInv
  <2>2. CASE d = c
    <3>1. Len(toServer[c]) \in Nat /\ i \in 1 .. Len(toServer[c]) - 1
      BY <1>4, <2>2
    <3>2. i + 1 \in 1 .. Len(toServer[c]) /\ Len(toServer[c]) # 1
      <4>1. \A n \in Nat : i \in 1 .. n - 1 => i + 1 \in 1 .. n /\ n # 1
        OBVIOUS
      <4> QED
        BY <3>1, <4>1
    <3>3. toServer'[d][i] = toServer[c][i + 1] /\ i + 1 \in DOMAIN toServer[c]
      BY <1>4, <2>2, <3>1, <3>2
    <3>4. toServer[c][i + 1].flag # 1
      BY <3>2, <3>3 DEF ToServerInv
    <3> QED
      BY <1>8, <2>2, <3>3, <3>4 DEF ToServerInv
  <2> QED
    BY <2>1, <2>2
<1>15. ToClientInv'
  <2>1. ~ (Len(todo) = 1)
    BY <1>1
  <2>2. \A d \in Clients : \A i \in DOMAIN toClient[d] :
          /\ Fits(d, toClient[d][i])
          /\ toClient[d][i].flag # 3 => sock[d] = "closed" \/ Listed(d)'
          /\ toClient[d][i].flag \in {3, 9} => sock[d] = "closed"
    BY <1>8, <2>1 DEF ToClientInv
  <2>3. NothingAfterBye'
    BY <1>1 DEF ToClientInv, NothingAfterBye
  <2> QED
    BY <1>1, <2>2, <2>3 DEF ToClientInv, Fits
<1>16. TodoInv'
  BY DEF Answered
<1>17. VerdictInv'
  <2>1. FirstIsVerdict'
    BY <1>1 DEF VerdictInv, FirstIsVerdict
  <2>2. ASSUME NEW d \in Clients, mode[d] = "login", toClient[d] = << >>, Listed(d)'
        PROVE  todo' # << >> /\ todo'[1] = Send(fd[d], Plain(2))
    <3>1. ~ Listed(d)
      BY <1>1, <2>2 DEF VerdictInv
    <3>2. d = c /\ Enters
      BY <1>8, <2>2, <3>1
    <3> QED
      BY <3>2
  <2> QED
    BY <1>1, <2>1, <2>2 DEF VerdictInv
<1>18. FarewellInv'
  <2>1. ASSUME NEW d \in Clients, HeardLast(d) PROVE HeardLast(d)'
    <3>1. ~ (Len(todo) = 1)
      BY <1>1
    <3>2. ~ Listed(d) /\ toServer[d] = << >>
      BY <2>1, <3>1 DEF HeardLast
    <3>3. d # c
      BY <1>1, <3>2
    <3>4. \A i \in DOMAIN todo' : todo'[i].op = "send" => todo'[i].fd # fd[d]
      BY <3>2, <3>3 DEF Answered, ConnInv
    <3> QED
      BY <1>1, <1>4, <1>8, <3>2, <3>3, <3>4 DEF HeardLast
  <2> QED
    BY <1>1, <1>9, <2>1 DEF FarewellInv, Undisturbed
<1> QED
  BY <1>10, <1>11, <1>12, <1>13, <1>14, <1>15, <1>16, <1>17, <1>18

\* The two answers after which a connection is closed.
LEMMA ByeAnswered ==
  ASSUME ChatInvariant, NEW c \in Clients, Takes(c), UNCHANGED list,
         \/ ~ Listed(c) /\ todo' = << Send(fd[c], Plain(3)), CloseIt(fd[c]) >>
         \/ Listed(c) /\ todo' = << Send(fd[c], Plain(9)), RemoveIt(fd[c]) >>
  PROVE  Answered(c)
<1> USE DEF ChatInvariant
<1>1. /\ sock[c] = "open" /\ UNCHANGED <<sock, fd, mode, clientHandle>>
      /\ mode[c] \notin {"start", "connected"}
  BY TakenMessage DEF Takes, clientVars
<1>2. fd[c] \in Fds /\ fd[c] # 0
  BY <1>1 DEF ConnInv, TypeOK, NetTypeOK
<1>3. \A d \in Clients : Listed(d)' = Listed(d)
  BY <1>1 DEF Listed, NodeOf
<1>4. \A k \in {3, 9} : /\ Plain(k) \in Messages /\ Plain(k).flag = k
                        /\ Fits(c, Plain(k))
  <2>1. {3, 9, 13} \subseteq Flags
    BY DEF Flags
  <2> QED
    BY <2>1, PlainShapes DEF Fits
<1>5. Plain(13) \in Messages
  BY PlainShapes DEF Flags
<1>6. /\ \A k \in {3, 9} : Send(fd[c], Plain(k)) \in Todos
      /\ CloseIt(fd[c]) \in Todos /\ RemoveIt(fd[c]) \in Todos
  BY <1>2, <1>4, <1>5 DEF Send, CloseIt, RemoveIt, Todos
<1>7. /\ CloseIt(fd[c]).op = "close" /\ CloseIt(fd[c]).fd = fd[c]
      /\ RemoveIt(fd[c]).op = "remove" /\ RemoveIt(fd[c]).fd = fd[c]
  BY DEF CloseIt, RemoveIt
<1>8. PICK k \in {3, 9}, t \in {CloseIt(fd[c]), RemoveIt(fd[c])} :
        /\ todo' = << Send(fd[c], Plain(k)), t >>
        /\ t.op = "close" => ~ Listed(c)
        /\ k # 3 => Listed(c)
  BY <1>7
<1>9. /\ todo' \in Seq(Todos) /\ Len(todo') = 2
      /\ DOMAIN todo' = 1 .. 2
      /\ todo'[1] = Send(fd[c], Plain(k)) /\ todo'[2] = t
  BY <1>6, <1>8
<1>10. /\ todo'[1].op = "send" /\ todo'[1].fd = fd[c] /\ todo'[1].msg = Plain(k)
       /\ todo'[2].op \in {"close", "remove"} /\ todo'[2].fd = fd[c]
       /\ todo'[2].op = "close" => ~ Listed(c)
  BY <1>7, <1>8, <1>9, SendShape
<1>11. \A i \in DOMAIN todo' : todo'[i].fd = fd[c] /\ (i = 1 \/ i = 2)
  BY <1>9, <1>10
<1>12. TodoInv'
  <2>1. SendsGoToClients'
    BY <1>1, <1>11 DEF SendsGoToClients
  <2>2. ASSUME NEW i \in DOMAIN todo', NEW d \in Clients, OpenAt(d, todo'[i].fd)
        PROVE  /\ mode[d] \notin {"start", "connected"}
               /\ todo'[i].op = "send" => Fits(d, todo'[i].msg)
               /\ todo'[i].op = "send" /\ todo'[i].msg.flag # 3 => Listed(d)
               /\ todo'[i].op = "close" => ~Listed(d)
    <3>1. d = c
      BY <1>1, <1>11, <2>2 DEF ConnInv, OpenAt
    <3>2. CASE i = 1
      BY <1>1, <1>4, <1>8, <1>10, <3>1, <3>2
    <3>3. CASE i = 2
      BY <1>1, <1>10, <3>1, <3>3
    <3> QED
      BY <1>11, <3>2, <3>3
  <2>3. ASSUME NEW i \in DOMAIN todo'
        PROVE  /\ todo'[i].op \in {"close", "remove"} => i = Len(todo')
               /\ todo'[i].op = "send" /\ todo'[i].msg.flag \in {3, 9} =>
                    /\ i = 1 /\ Len(todo') = 2
                    /\ todo'[2].op \in {"close", "remove"} /\ todo'[2].fd = todo'[1].fd
    BY <1>9, <1>10, <1>11
  <2> QED
    BY <1>1, <1>3, <2>1, <2>2, <2>3 DEF TodoInv, OpenAt, Fits
<1> QED
  BY <1>1, <1>9, <1>11, <1>12 DEF Answered

\* checkClient() of a handle that is free.
LEMMA EntryAnswered ==
  ASSUME ChatInvariant, NEW c \in Clients, Takes(c), Listed(c)',
         todo' = << Send(fd[c], Plain(2)) >>
  PROVE  Answered(c)
<1> USE DEF ChatInvariant
<1>1. /\ sock[c] = "open" /\ UNCHANGED <<sock, fd, mode, clientHandle>>
      /\ mode[c] \notin {"start", "connected"}
  BY TakenMessage DEF Takes, clientVars
<1>2. Plain(2) \in Messages /\ Plain(2).flag = 2
  BY MessageShapes DEF Flags
<1>3. Send(fd[c], Plain(2)) \in Todos
  BY <1>2 DEF Send, Todos, TypeOK, NetTypeOK
<1>4. Fits(c, Plain(2))
  BY <1>2 DEF Fits
<1>5. Send(fd[c], Plain(2)) \in AnswersTo({c})
  BY <1>2, <1>3, <1>4, SendShape DEF AnswersTo
<1>6. todo' \in Seq(AnswersTo({c}))
  BY <1>5
<1> QED
  BY <1>1, <1>6, AnswersKeep

\* Answers to clients that are in the list stay within it.
LEMMA ListedAnswered ==
  ASSUME ChatInvariant, NEW c \in Clients, Takes(c), UNCHANGED list,
         todo' \in Seq(AnswersTo({e \in Clients : Listed(e)}))
  PROVE  Answered(c) /\ OnlySends
<1>1. /\ sock[c] = "open" /\ UNCHANGED <<sock, fd, mode, clientHandle>>
      /\ mode[c] \notin {"start", "connected"}
  BY TakenMessage DEF Takes, clientVars
<1>2. \A e \in Clients : Listed(e) => Listed(e)'
  BY <1>1 DEF Listed, NodeOf
<1> QED
  BY <1>1, <1>2, AnswersKeep

LEMMA ListedOnes ==
  ASSUME ChatInvariant, NEW e \in Clients, Listed(e),
         NEW m \in Messages, m.flag \notin {3, 9}, Fits(e, m)
  PROVE  Send(fd[e], m) \in AnswersTo({d \in Clients : Listed(d)})
<1>1. Send(fd[e], m) \in Todos
  BY DEF Send, Todos, ChatInvariant, TypeOK, NetTypeOK
<1> QED
  BY <1>1, SendShape DEF AnswersTo

\* sendB(), sendM() and sendL()
LEMMA ForwardAnswered ==
  ASSUME ChatInvariant, NEW c \in Clients, Takes(c),
         LET m == Head(toServer[c])
         IN  \/ m.flag = 4 /\ sendB(c, m)
             \/ m.flag = 5 /\ sendM(c, m)
             \/ m.flag = 10 /\ sendL(c, m)
  PROVE  Answered(c) /\ OnlySends /\ UNCHANGED list
<1> USE DEF ChatInvariant
<1> DEFINE A == AnswersTo({e \in Clients : Listed(e)})
<1>0. PICK m \in Messages : m = Head(toServer[c])
  BY TakenMessage
<1>1. /\ Listed(c)
      /\ m.flag \in {4, 5} => m.name = clientHandle[c]
  BY <1>0, TakenMessage
<1>2. UNCHANGED list
  BY DEF sendB, sendM, sendL
<1>3. /\ DOMAIN list = 1 .. Len(list) /\ Len(list) \in Nat
      /\ \A i \in 1 .. Len(list) : list[i] \in Nodes
  BY Domains
<1>4. ASSUME NEW k \in {7, 11, 12, 13}, NEW h \in Handles, NEW n \in Nat
      PROVE  /\ Send(fd[c], Named(k, h)) \in A
             /\ Send(fd[c], [Plain(k) EXCEPT !.count = n]) \in A
             /\ Send(fd[c], Plain(k)) \in A
  <2>1. k \in Flags
    BY DEF Flags
  <2>2. ASSUME NEW m0 \in Messages, m0.flag = k PROVE Send(fd[c], m0) \in A
    <3>1. m0.flag \notin {3, 4, 5, 9}
      BY <2>2
    <3>2. Fits(c, m0)
      BY <3>1 DEF Fits
    <3> QED
      BY <1>1, <3>1, <3>2, ListedOnes
  <2>3. /\ Named(k, h) \in Messages /\ Named(k, h).flag = k
        /\ Plain(k) \in Messages /\ Plain(k).flag = k
        /\ \A n0 \in Nat : LET m0 == [Plain(k) EXCEPT !.count = n0]
                           IN  m0 \in Messages /\ m0.flag = k
    BY <2>1, MessageShapes
  <2>4. /\ [Plain(k) EXCEPT !.count = n] \in Messages
        /\ [Plain(k) EXCEPT !.count = n].flag = k
    BY <2>3
  <2> HIDE DEF A
  <2> QED
    BY <2>2, <2>3, <2>4
<1>5. findSocket(list, clientHandle[c]) = fd[c] /\ fd[c] # 0
  BY <1>1, FindSocketGives
<1>6. CASE m.flag = 4 /\ sendB(c, m)
  <2> DEFINE to(i) ==
        CASE list[i].socketNum = 0 ->
               sendFlag7(findSocket(list, m.name), list[i].handle)
          [] list[i].socketNum = findSocket(list, m.name) -> Skip
          [] OTHER -> Send(list[i].socketNum, m)
  <2>1. todo' = [i \in 1 .. Len(list) |-> to(i)]
    BY <1>3, <1>6 DEF sendB
  <2>2. ASSUME NEW i \in 1 .. Len(list) PROVE to(i) \in A
    <3>1. list[i].socketNum # 0
      BY <1>3, FdsAreNumbers DEF Nodes
    <3>2. PICK e \in Clients : /\ Listed(e) /\ fd[e] = list[i].socketNum
                               /\ clientHandle[e] = list[i].handle
      BY <1>3, NodeHasOwner
    <3>3. CASE list[i].socketNum = fd[c]
      <4>1. to(i) = Skip
        BY <1>1, <1>5, <1>6, <3>1, <3>3
      <4>2. Plain(13) \in Messages
        BY PlainShapes DEF Flags
      <4> QED
        BY <4>1, <4>2 DEF Skip, AnswersTo, Todos
    <3>4. CASE list[i].socketNum # fd[c]
      <4>1. to(i) = Send(fd[e], m)
        BY <1>1, <1>5, <1>6, <3>1, <3>2, <3>4
      <4>2. clientHandle[e] # clientHandle[c]
        BY <1>1, <3>2, <3>4, ListedApart
      <4>3. Fits(e, m)
        BY <1>1, <1>6, <4>2 DEF Fits
      <4> QED
        BY <1>6, <3>2, <4>1, <4>3, ListedOnes
    <3> QED
      BY <3>3, <3>4
  <2> HIDE DEF to, A
  <2>3. todo' \in [1 .. Len(list) -> A]
    BY <2>1, <2>2
  <2>4. todo' \in Seq(A)
    BY <1>3, <2>3, FunctionIsSeq
  <2> QED
    BY <1>2, <2>4, ListedAnswered DEF A
<1>7. CASE m.flag = 5 /\ sendM(c, m)
  <2> DEFINE to(i) ==
        IF findSocket(list, m.to[i]) = 0
        THEN sendFlag7(findSocket(list, m.name), m.to[i])
        ELSE Send(findSocket(list, m.to[i]), m)
  <2>1. /\ DOMAIN m.to = 1 .. Len(m.to) /\ Len(m.to) \in Nat
        /\ \A i \in 1 .. Len(m.to) : m.to[i] \in Handles
    <3>1. m.to \in Seq(Handles)
      BY DEF Messages
    <3> QED
      BY <3>1, LenProperties, ElementOfSeq
  <2>2. todo' = [i \in 1 .. Len(m.to) |-> to(i)]
    BY <1>0, <1>7, <2>1 DEF sendM
  <2>3. ASSUME NEW i \in 1 .. Len(m.to) PROVE to(i) \in A
    <3>1. m.to[i] \in Handles
      BY <2>1
    <3>2. CASE findSocket(list, m.to[i]) = 0
      <4>1. to(i) = Send(fd[c], Named(7, m.to[i]))
        BY <1>1, <1>5, <1>7, <3>2 DEF sendFlag7
      <4> QED
        BY <1>4, <3>1, <4>1
    <3>3. CASE findSocket(list, m.to[i]) # 0
      <4>1. PICK e \in Clients : /\ Listed(e) /\ fd[e] = findSocket(list, m.to[i])
                                 /\ clientHandle[e] = m.to[i]
        BY <3>3, FindSocketGives
      <4>2. to(i) = Send(fd[e], m)
        BY <3>3, <4>1
      <4>3. Fits(e, m)
        BY <1>7, <2>1, <4>1 DEF Fits
      <4> QED
        BY <1>7, <4>1, <4>2, <4>3, ListedOnes
    <3> QED
      BY <3>2, <3>3
  <2> HIDE DEF to, A
  <2>4. todo' \in [1 .. Len(m.to) -> A]
    BY <2>2, <2>3
  <2>5. todo' \in Seq(A)
    BY <2>1, <2>4, FunctionIsSeq
  <2> QED
    BY <1>2, <2>5, ListedAnswered DEF A
<1>8. CASE m.flag = 10 /\ sendL(c, m)
  <2> DEFINE first == << Send(fd[c], [Plain(11) EXCEPT !.count = findListLength(list)]) >>
             rest  == [i \in DOMAIN list |-> Send(fd[c], Named(12, list[i].handle))]
             last  == << Send(fd[c], Plain(13)) >>
  <2>1. todo' = first \o rest \o last
    BY <1>8 DEF sendL
  <2>2. clientHandle[c] \in Handles
    BY DEF TypeOK, ClientTypeOK
  <2>3. first \in Seq(A) /\ last \in Seq(A)
    <3>1. /\ Send(fd[c], [Plain(11) EXCEPT !.count = findListLength(list)]) \in A
          /\ Send(fd[c], Plain(13)) \in A
      BY <1>3, <1>4, <2>2 DEF findListLength
    <3> HIDE DEF A
    <3> QED
      BY <3>1
  <2>4. rest \in [1 .. Len(list) -> A]
    <3>1. \A i \in 1 .. Len(list) : list[i].handle \in Handles
      BY <1>3 DEF Nodes
    <3>2. \A i \in 1 .. Len(list) : Send(fd[c], Named(12, list[i].handle)) \in A
      BY <1>4, <3>1
    <3> HIDE DEF A
    <3> QED
      BY <1>3, <3>2
  <2> HIDE DEF A, first, rest, last
  <2>5. rest \in Seq(A)
    BY <1>3, <2>4, FunctionIsSeq
  <2>6. first \o rest \in Seq(A)
    BY <2>3, <2>5, ConcatProperties
  <2>7. todo' \in Seq(A)
    BY <2>1, <2>3, <2>6, ConcatProperties
  <2> QED
    BY <1>2, <2>7, ListedAnswered DEF A
<1> QED
  BY <1>0, <1>6, <1>7, <1>8

\* recvFromClient() and the packetResponse() of every flag.
LEMMA RecvKeeps ==
  ASSUME ChatInvariant, NEW c \in Clients, RecvFromClient(c), UNCHANGED clientVars
  PROVE  ChatInvariant'
<1> USE DEF ChatInvariant
<1> DEFINE m == Head(toServer[c])
<1>1. Takes(c) /\ packetResponse(c, m)
  BY DEF RecvFromClient, Polled, Takes
<1>2. /\ m.flag \in {1, 4, 5} => m.name = clientHandle[c]
      /\ m.flag = 1 => ~ Listed(c)
      /\ m.flag # 1 => Listed(c)
      /\ m \in Messages
  BY <1>1, TakenMessage
<1>3. CASE m.flag = 1 /\ checkClient(c, m) /\ available(list, m.name)
  <2>1. /\ list' = addNode(list, makeNode(m.name, fd[c]))
        /\ todo' = << Send(fd[c], Plain(2)) >>
    BY <1>3 DEF checkClient
  <2>2. Listed(c)'
    <3>1. list' = << makeNode(m.name, fd[c]) >> \o list
      BY <1>3, <2>1 DEF addNode, makeNode
    <3>2. list \in Seq(Nodes) /\ makeNode(m.name, fd[c]) \in Nodes
      <4>1. fd[c] \in Fds /\ clientHandle[c] \in Handles
        BY <1>1 DEF Takes, ConnInv, TypeOK, NetTypeOK, ClientTypeOK
      <4> QED
        BY <1>2, <1>3, <4>1 DEF TypeOK, ServerTypeOK, Nodes, makeNode
    <3>3. << makeNode(m.name, fd[c]) >> \in Seq(Nodes)
          /\ Len(<< makeNode(m.name, fd[c]) >>) = 1
          /\ << makeNode(m.name, fd[c]) >>[1] = makeNode(m.name, fd[c])
      BY <3>2
    <3>4. /\ list' \in Seq(Nodes) /\ Len(list') = 1 + Len(list) /\ Len(list) \in Nat
          /\ list'[1] = makeNode(m.name, fd[c])
      BY <3>1, <3>2, <3>3, ConcatProperties, LenProperties
    <3>5. 1 \in DOMAIN list' /\ list'[1].socketNum = fd[c]
      BY <3>4, LenProperties DEF makeNode
    <3> QED
      BY <1>1, <3>5 DEF Listed, NodeOf, Takes
  <2>3. Answered(c)
    BY <1>1, <2>1, <2>2, EntryAnswered
  <2> QED
    BY <1>1, <1>3, <2>1, <2>3, ReceiveKeeps
<1>4. CASE m.flag = 1 /\ checkClient(c, m) /\ ~ available(list, m.name)
  <2>1. list' = list /\ todo' = << Send(fd[c], Plain(3)), CloseIt(fd[c]) >>
    BY <1>4 DEF checkClient
  <2>2. Answered(c)
    BY <1>1, <1>2, <1>4, <2>1, ByeAnswered
  <2> QED
    BY <1>1, <2>1, <2>2, ReceiveKeeps
<1>5. CASE \/ m.flag = 4 /\ sendB(c, m)
           \/ m.flag = 5 /\ sendM(c, m)
           \/ m.flag = 10 /\ sendL(c, m)
  <2>1. Answered(c) /\ UNCHANGED list
    BY <1>1, <1>5, ForwardAnswered
  <2> QED
    BY <1>1, <2>1, ReceiveKeeps
<1>6. CASE m.flag = 8 /\ sendE(c, m)
  <2>1. list' = list /\ todo' = << Send(fd[c], Plain(9)), RemoveIt(fd[c]) >>
    BY <1>6 DEF sendE
  <2>2. Answered(c)
    BY <1>1, <1>2, <1>6, <2>1, ByeAnswered
  <2> QED
    BY <1>1, <2>1, <2>2, ReceiveKeeps
<1>7. CASE m.flag \notin {1, 4, 5, 8, 10} /\ UNCHANGED <<list, todo>>
  <2>1. todo' = << >> /\ UNCHANGED list
    BY <1>1, <1>7 DEF Takes
  <2>2. todo' \in Seq(AnswersTo({e \in Clients : Listed(e)}))
    BY <2>1, EmptySeq
  <2>3. Answered(c)
    BY <1>1, <2>1, <2>2, ListedAnswered
  <2> QED
    BY <1>1, <2>1, <2>3, ReceiveKeeps
<1> QED
  BY <1>1, <1>3, <1>4, <1>5, <1>6, <1>7 DEF packetResponse

\* The server only exits when a client has been interrupted, its own standard
\* input has hung up or a %M without destinations overran the buffer.
LEMMA Exits ==
  ASSUME ChatInvariant,
         \/ RecvFromStdin \/ SafeSendFails
         \/ \E c \in Clients : RecvError(c) \/ RecvOverruns(c)
  PROVE  ServerExits /\ ~ Undisturbed
<1> USE DEF ChatInvariant
<1>1. CASE RecvFromStdin
  <2>1. PICK i \in 0 .. pollSet.max - 1 : i \notin pollSet.members /\ Polled(i)
    BY <1>1 DEF RecvFromStdin
  <2>2. stdinHungUp
    BY <2>1 DEF Polled, pollCallReturns, ReadySlots
  <2> QED
    BY <1>1, <2>2 DEF RecvFromStdin, FarewellInv
<1>2. CASE SafeSendFails
  <2>1. /\ serverUp /\ todo # << >> /\ Head(todo).op = "send"
        /\ \/ Head(todo).fd = 0
           \/ \E c \in Clients : /\ fd[c] = Head(todo).fd /\ sock[c] = "open"
                                 /\ peer[c] \in {"dead", "rst"}
        /\ ServerExits
    BY <1>2 DEF SafeSendFails, Doing, Next1
  <2>2. 1 \in DOMAIN todo /\ Head(todo) = todo[1]
    <3>1. todo \in Seq(Todos)
      BY DEF TypeOK, ServerTypeOK, Todos
    <3>2. Len(todo) \in Nat \ {0} /\ Head(todo) = todo[1]
      BY <2>1, <3>1, TailEffect
    <3> QED
      BY <3>1, <3>2, LenProperties
  <2>3. todo[1].fd # 0
    <3>1. PICK c \in Clients : sock[c] = "open" /\ fd[c] = todo[1].fd
      BY <2>1, <2>2 DEF TodoInv, SendsGoToClients
    <3> QED
      BY <3>1 DEF ConnInv
  <2>4. PICK c \in Clients : /\ fd[c] = todo[1].fd /\ sock[c] = "open"
                             /\ peer[c] \in {"dead", "rst"}
    BY <2>1, <2>2, <2>3
  <2>5. ~ Undisturbed
    BY <2>4 DEF FarewellInv, Connected
  <2> QED
    BY <2>1, <2>5
<1>3. ASSUME NEW c \in Clients, RecvError(c)
      PROVE  ServerExits /\ ~ Undisturbed
  BY <1>3 DEF RecvError, FarewellInv, Connected
<1>4. ASSUME NEW c \in Clients, RecvOverruns(c)
      PROVE  ServerExits /\ ~ Undisturbed
  <2> DEFINE m == Head(toServer[c])
  <2>1. /\ toServer[c] # << >> /\ toServer[c] \in Seq(Messages)
        /\ Overruns(m) /\ ServerExits
    BY <1>4 DEF RecvOverruns, TypeOK, NetTypeOK
  <2>2. m = toServer[c][1] /\ 1 \in DOMAIN toServer[c]
    BY <2>1, TailEffect, LenProperties
  <2>3. LeadIsTyped(m)
    BY <2>2 DEF ToServerInv
  <2>4. m.count \in LeadBytes /\ m.count > 100
    BY <2>1, <2>3 DEF Overruns, LeadIsTyped, MAX_HANDLE_SIZE
  <2>5. m.count \notin 0 .. MAX_HANDLE_SIZE
    <3>1. PICK n : n = m.count
      OBVIOUS
    <3>2. n > 100 => n \notin 0 .. 100
      BY ONLY SMT
    <3> QED
      BY <2>4, <3>1, <3>2 DEF MAX_HANDLE_SIZE
  <2> QED
    BY <2>1, <2>4, <2>5 DEF Undisturbed
<1> QED
  BY <1>1, <1>2, <1>3, <1>4

-----------------------------------------------------------------------------
(* The invariant. *)

LEMMA ChatStart == Init => ChatInvariant
<1> SUFFICES ASSUME Init PROVE ChatInvariant
  OBVIOUS
<1>1. /\ backlog = << >> /\ list = << >> /\ todo = << >> /\ serverUp = TRUE
      /\ stdinHungUp = FALSE
      /\ pollSet = addToPollSet(setupPollSet, ListenFd)
      /\ sock = [c \in Clients |-> "none"] /\ fd = [c \in Clients |-> 0]
      /\ peer = [c \in Clients |-> "up"]
      /\ toServer = [c \in Clients |-> << >>] /\ toClient = [c \in Clients |-> << >>]
      /\ mode = [c \in Clients |-> "start"] /\ clientHandle \in [Clients -> Handles]
      /\ stdinLine = [c \in Clients |-> NoLine] /\ linesRead = [c \in Clients |-> 0]
  BY DEF Init, NetInit, ServerInit, ClientInit, makeLinkedList
<1>2. DOMAIN << >> = {} /\ \A S : << >> \in Seq(S)
  BY EmptySeq
<1>3. \A c \in Clients : /\ sock[c] = "none" /\ fd[c] = 0 /\ peer[c] = "up"
                         /\ toServer[c] = << >> /\ toClient[c] = << >>
                         /\ mode[c] = "start" /\ stdinLine[c] = NoLine /\ ~ Listed(c)
  BY <1>1 DEF Listed
<1>4. /\ pollSet.members = {ListenFd} /\ pollSet.max = ListenFd + 1
      /\ pollSet.size \in Nat /\ pollSet.max <= pollSet.size
      /\ pollSet \in [members : SUBSET Nat, max : Nat, size : Nat]
  BY <1>1, PollSetAssumption DEF addToPollSet, setupPollSet, ListenFd
<1>5. NetTypeOK
  BY <1>1, <1>2 DEF NetTypeOK, SockStates, PeerStates
<1>6. ServerTypeOK
  BY <1>1, <1>2, <1>4 DEF ServerTypeOK
<1>7. ClientTypeOK
  BY <1>1, ChatClientAssumption DEF ClientTypeOK, Modes
<1>8. ConnInv
  BY <1>1, <1>2, <1>3 DEF ConnInv
<1>9. PollSetMatchesSockets
  BY <1>3, <1>4 DEF PollSetMatchesSockets, ListenFd
<1>10. ListMatchesSockets
  BY <1>1, <1>2 DEF ListMatchesSockets
<1>11. ModeInv
  BY <1>3 DEF ModeInv
<1>12. ToServerInv /\ ToClientInv
  BY <1>2, <1>3 DEF ToServerInv, ToClientInv, NothingAfterBye
<1>13. TodoInv
  BY <1>1, <1>2 DEF TodoInv, SendsGoToClients
<1>14. VerdictInv
  BY <1>3 DEF VerdictInv, FirstIsVerdict
<1>15. FarewellInv
  BY <1>1, <1>3 DEF FarewellInv
<1> QED
  BY <1>5, <1>6, <1>7, <1>8, <1>9, <1>10, <1>11, <1>12, <1>13, <1>14, <1>15
  DEF ChatInvariant, TypeOK

LEMMA ChatStep == ChatInvariant /\ [Next]_vars => ChatInvariant'
<1> SUFFICES ASSUME ChatInvariant, [Next]_vars PROVE ChatInvariant'
  OBVIOUS
<1>1. CASE Idle \/ UNCHANGED vars \/ (StdinHangsUp /\ UNCHANGED clientVars)
  BY <1>1, IdleKeeps DEF Idle
<1>2. CASE \E c \in Clients : ClientConnects(c) \/ ClientNext(c) \/ PersonNext(c)
  BY <1>2, ClientKeeps
<1>3. CASE ServerNext
  <2>1. ServerStep /\ UNCHANGED clientVars
    BY <1>3 DEF ServerNext
  <2>2. CASE AddNewClient
    BY <2>1, <2>2, AcceptKeeps
  <2>3. CASE SkipSender \/ \E c \in Clients : SafeSend(c) \/ SafeSendLost(c)
    BY <2>1, <2>3, SendKeeps
  <2>4. CASE \/ RecvFromStdin \/ SafeSendFails
             \/ \E c \in Clients : RecvError(c) \/ RecvOverruns(c)
    BY <2>1, <2>4, Exits, ExitKeeps
  <2>5. ASSUME NEW c \in Clients, RecvFromClient(c)
        PROVE  ChatInvariant'
    BY <2>1, <2>5, RecvKeeps
  <2>6. ASSUME NEW c \in Clients, RecvEof(c) \/ CloseRefused(c) \/ CloseLeaver(c)
        PROVE  ChatInvariant'
    BY <2>1, <2>6, Departures, DepartKeeps
  <2> QED
    BY <2>1, <2>2, <2>3, <2>4, <2>5, <2>6 DEF ServerStep
<1> QED
  BY <1>1, <1>2, <1>3 DEF Next

\* In every state of the chat its list, its descriptors, what is left of a
\* handler and what is under way fit together as ChatInvariant says.
THEOREM ChatIsConsistent == Spec => []ChatInvariant
  BY ChatStart, ChatStep, PTL DEF Spec

\* However clients come and go and numbers are given again, every node is that
\* of an open connection under its own client's handle, and there are no two of
\* a handle or of a socket.
THEOREM ListAgrees == Spec => []ListMatchesSockets
<1>1. ChatInvariant => ListMatchesSockets
  BY DEF ChatInvariant
<1> QED
  BY <1>1, ChatIsConsistent, PTL

\* The poll set is the listening socket and the open connections, and stays
\* inside its array, for any number of connections and any POLL_SET_SIZE.
THEOREM PollSetAgrees == Spec => []PollSetMatchesSockets
<1>1. ChatInvariant => PollSetMatchesSockets
  BY DEF ChatInvariant
<1> QED
  BY <1>1, ChatIsConsistent, PTL

\* A %M reaches only those it names, and a %B everybody but its sender.
THEOREM MessagesAreAddressed == Spec => []OnlyAddressedReceive
<1>1. ChatInvariant => OnlyAddressedReceive
  BY DEF ChatInvariant, ToClientInv, Fits, OnlyAddressedReceive
<1> QED
  BY <1>1, ChatIsConsistent, PTL

\* checkClient() and removeClient() never leave two people talking under one
\* handle.
THEOREM HandlesAreApart == Spec => []NobodySharesAHandle
<1>1. ChatInvariant => NobodySharesAHandle
  <2> SUFFICES ASSUME ChatInvariant, NEW c \in Clients, NEW d \in Clients, c # d,
                      clientHandle[c] = clientHandle[d],
                      mode[c] \in {"run", "list"}, mode[d] \in {"run", "list"}
               PROVE  sock[c] = "closed" \/ sock[d] = "closed"
    BY DEF NobodySharesAHandle
  <2>1. ~ (Listed(c) /\ Listed(d))
    BY ListedApart DEF ChatInvariant
  <2> QED
    BY <2>1 DEF ChatInvariant, ModeInv
<1> QED
  BY <1>1, ChatIsConsistent, PTL

\* Nothing the clients send or do makes the server exit while nobody is
\* interrupted, its standard input stays open, and the byte that follows the
\* number of destinations in a %M that has none is a length that fits in
\* findTextLen()'s buffer.
THEOREM ServerSurvives ==
  ASSUME Killable = {}, StdinMayHangUp = FALSE,
         LeadBytes \subseteq 0 .. MAX_HANDLE_SIZE
  PROVE  Spec => []ServerStaysUp
<1>1. ChatInvariant => ServerStaysUp
  BY DEF ChatInvariant, FarewellInv, Undisturbed, ServerStaysUp
<1> QED
  BY <1>1, ChatIsConsistent, PTL

-----------------------------------------------------------------------------
(* Who is in the room. *)

\* A client that has no claim to stay.
Leaves(c) ==
  \/ mode[c] = "gone" \/ sock[c] = "closed" \/ ~serverUp
  \/ \E i \in DOMAIN toServer[c] : toServer[c][i].flag = 8
  \/ \E i \in DOMAIN todo : /\ todo[i].op \in {"close", "remove"}
                            /\ todo[i].fd = fd[c]

LEMMA RoomStays ==
  ASSUME UNCHANGED <<clientHandle, serverUp>>,
         \A d \in Clients : Listed(d)' <=> Listed(d),
         \A d \in Clients : Leaves(d)' <=> Leaves(d)
  PROVE  UNCHANGED Room!roomVars
<1>1. {d \in Clients : Listed(d)}' = {d \in Clients : Listed(d)}
  OBVIOUS
<1>2. {d \in Clients : Leaves(d)}' = {d \in Clients : Leaves(d)}
  OBVIOUS
<1> QED
  BY <1>1, <1>2 DEF Room!roomVars, Leaves

LEMMA RoomWant ==
  ASSUME UNCHANGED <<clientHandle, serverUp>>, NEW c \in Clients,
         \A d \in Clients : Listed(d)' <=> Listed(d),
         \A d \in Clients : Leaves(d)' <=> Leaves(d) \/ d = c
  PROVE  Room!WantToLeave(c)
<1>1. {d \in Clients : Listed(d)}' = {d \in Clients : Listed(d)}
  OBVIOUS
<1>2. {d \in Clients : Leaves(d)}' = {d \in Clients : Leaves(d)} \cup {c}
  OBVIOUS
<1> QED
  BY <1>1, <1>2 DEF Room!WantToLeave, Leaves

\* What a client does itself can only end its claim.
LEMMA ClientRoom ==
  ASSUME ChatInvariant, NEW c \in Clients,
         ClientConnects(c) \/ ClientNext(c) \/ PersonNext(c)
  PROVE  Room!WantToLeave(c) \/ UNCHANGED Room!roomVars
<1> USE DEF ChatInvariant
<1>1. UNCHANGED <<serverUp, list, pollSet, todo, stdinHungUp>>
  BY DEF ClientConnects, ClientNext, PersonNext, serverVars
<1>2. /\ mode \in [Clients -> Modes] /\ sock \in [Clients -> SockStates]
      /\ toServer \in [Clients -> Seq(Messages)]
  BY DEF TypeOK, NetTypeOK, ClientTypeOK
<1>3. CASE serverUp /\ Connect(c)
  <2>1. /\ mode[c] = "start" /\ mode' = [mode EXCEPT ![c] = "connected"]
        /\ sock[c] = "none" /\ sock' = [sock EXCEPT ![c] = "backlog"]
        /\ UNCHANGED <<clientHandle, fd, toServer>>
    BY <1>3 DEF Connect, ModeInv
  <2>2. \A d \in Clients : /\ sock'[d] = "open" <=> sock[d] = "open"
                           /\ sock'[d] = "closed" <=> sock[d] = "closed"
                           /\ mode'[d] = "gone" <=> mode[d] = "gone"
    BY <1>2, <2>1
  <2>3. \A d \in Clients : Listed(d)' <=> Listed(d)
    BY <1>1, <2>1, <2>2 DEF Listed, NodeOf
  <2>4. \A d \in Clients : Leaves(d)' <=> Leaves(d)
    BY <1>1, <2>1, <2>2 DEF Leaves
  <2> QED
    BY <1>1, <2>1, <2>3, <2>4, RoomStays
<1>4. ASSUME UNCHANGED <<clientHandle, sock, fd, toServer>>
      PROVE  \A d \in Clients : /\ Listed(d)' <=> Listed(d)
                                /\ mode'[d] = mode[d] => (Leaves(d)' <=> Leaves(d))
                                /\ mode'[d] # "gone" /\ mode[d] # "gone" =>
                                     (Leaves(d)' <=> Leaves(d))
                                /\ mode'[d] = "gone" => Leaves(d)'
  BY <1>1, <1>4 DEF Listed, NodeOf, Leaves
<1>5. CASE \/ HandleTooLong(c) \/ SendFails(c) \/ AckSaysLeave(c)
           \/ ServerTerminated(c) \/ Interrupt(c) \/ ConnectFails(c)
  <2>1. /\ mode' = [mode EXCEPT ![c] = "gone"]
        /\ UNCHANGED <<clientHandle, sock, fd, toServer>>
    BY <1>5 DEF HandleTooLong, SendFails, AckSaysLeave, ServerTerminated, Interrupt,
                ConnectFails, ClientExits, netVars
  <2>2. mode'[c] = "gone" /\ \A d \in Clients : d # c => mode'[d] = mode[d]
    BY <1>2, <2>1
  <2> QED
    BY <1>1, <1>4, <2>1, <2>2, RoomWant
<1>6. CASE AckFromServer(c) \/ SendNothing(c) \/ \E line \in Lines : ReadLine(c, line)
  <2>1. UNCHANGED <<clientHandle, sock, fd, toServer>>
    BY <1>6 DEF AckFromServer, SendNothing, ReadLine, LineDone, netVars
  <2>2. \A d \in Clients : mode'[d] = mode[d] \/ (mode'[d] # "gone" /\ mode[d] # "gone")
    BY <1>2, <1>6 DEF AckFromServer, AckWaits, AfterMessage, SendNothing, ReadLine, LineDone
  <2> QED
    BY <1>1, <1>4, <2>1, <2>2, RoomStays
<1>7. CASE Login(c) \/ SendToServer(c)
  <2>1. /\ UNCHANGED <<clientHandle, sock, fd>>
        /\ UNCHANGED toServer \/ \E m : toServer' = [toServer EXCEPT ![c] = Append(@, m)]
        /\ \A d \in Clients : mode'[d] = mode[d] \/ (mode'[d] # "gone" /\ mode[d] # "gone")
    BY <1>2, <1>7 DEF Login, SendToServer, LineDone
  <2>2. CASE UNCHANGED toServer
    BY <1>1, <1>4, <2>1, <2>2, RoomStays
  <2>3. ASSUME NEW m, toServer' = [toServer EXCEPT ![c] = Append(@, m)]
        PROVE  Room!WantToLeave(c) \/ UNCHANGED Room!roomVars
    <3>1. /\ toServer'[c] = Append(toServer[c], m)
          /\ \A d \in Clients : d # c => toServer'[d] = toServer[d]
      BY <1>2, <2>3
    <3>2. toServer[c] \in Seq(Messages \cup {m})
      BY <1>2
    <3>3. /\ DOMAIN toServer[c] = 1 .. Len(toServer[c]) /\ Len(toServer[c]) \in Nat
          /\ DOMAIN toServer'[c] = 1 .. Len(toServer[c]) + 1
          /\ \A i \in 1 .. Len(toServer[c]) : toServer'[c][i] = toServer[c][i]
          /\ toServer'[c][Len(toServer[c]) + 1] = m
      BY <3>1, <3>2, AppendEffect, LenProperties
    <3>4. (\E i \in DOMAIN toServer'[c] : toServer'[c][i].flag = 8) <=>
            (\E i \in DOMAIN toServer[c] : toServer[c][i].flag = 8) \/ m.flag = 8
      <4>1. \A n \in Nat :
              /\ n + 1 \in 1 .. n + 1
              /\ \A i \in 1 .. n : i \in 1 .. n + 1
              /\ \A i \in 1 .. n + 1 : i \in 1 .. n \/ i = n + 1
        OBVIOUS
      <4>2. /\ Len(toServer[c]) + 1 \in DOMAIN toServer'[c]
            /\ \A i \in DOMAIN toServer[c] : i \in DOMAIN toServer'[c]
            /\ \A i \in DOMAIN toServer'[c] : i \in DOMAIN toServer[c] \/ i = Len(toServer[c]) + 1
            /\ \A i \in DOMAIN toServer[c] : toServer'[c][i] = toServer[c][i]
        BY <3>3, <4>1
      <4> QED
        BY <3>3, <4>2
    <3>5. \A d \in Clients : Listed(d)' <=> Listed(d)
      BY <1>1, <2>1 DEF Listed, NodeOf
    <3>6. /\ \A d \in Clients : d # c => (Leaves(d)' <=> Leaves(d))
          /\ m.flag = 8 => Leaves(c)'
          /\ m.flag # 8 => (Leaves(c)' <=> Leaves(c))
      BY <1>1, <2>1, <3>1, <3>4 DEF Leaves
    <3>7. CASE m.flag = 8
      BY <1>1, <2>1, <3>5, <3>6, <3>7, RoomWant
    <3>8. CASE m.flag # 8
      BY <1>1, <2>1, <3>5, <3>6, <3>8, RoomStays
    <3> QED
      BY <3>7, <3>8
  <2> QED
    BY <2>1, <2>2, <2>3
<1> QED
  BY <1>3, <1>5, <1>6, <1>7 DEF ClientConnects, ClientNext, PersonNext, ClientStep

\* The node of a client that has no claim left is taken out.
LEMMA DepartRoom ==
  ASSUME ChatInvariant, NEW c \in Clients, Departs(c), Leaves(c), UNCHANGED clientVars
  PROVE  Room!Leave(c) \/ UNCHANGED Room!roomVars
<1> USE DEF ChatInvariant
<1>1. /\ serverUp /\ sock[c] = "open" /\ todo' = << >>
      /\ sock' = [sock EXCEPT ![c] = "closed"]
      /\ fd' = [fd EXCEPT ![c] = 0]
      /\ toServer' = [toServer EXCEPT ![c] = << >>]
      /\ UNCHANGED <<serverUp, mode, clientHandle>>
      /\ todo = << >> \/ (Len(todo) = 1 /\ todo[1].fd = fd[c])
  BY DEF Departs, removeClient, clientVars
<1>2. /\ sock \in [Clients -> SockStates] /\ fd \in [Clients -> {0} \cup Fds]
      /\ toServer \in [Clients -> Seq(Messages)]
  BY DEF TypeOK, NetTypeOK
<1>3. /\ sock'[c] = "closed"
      /\ \A d \in Clients : d # c =>
           sock'[d] = sock[d] /\ fd'[d] = fd[d] /\ toServer'[d] = toServer[d]
  BY <1>1, <1>2
<1>4. \A d \in Clients : d # c => fd[d] # fd[c]
  BY <1>1 DEF ConnInv
<1>5. \A d \in Clients : d # c => (Listed(d)' <=> Listed(d))
  <2>1. /\ \A i \in DOMAIN list' : \E j \in DOMAIN list : list'[i] = list[j]
        /\ \A j \in DOMAIN list :
             list[j].socketNum # fd[c] => \E i \in DOMAIN list' : list'[i] = list[j]
    BY DEF Departs, IsWithout
  <2> SUFFICES ASSUME NEW d \in Clients, d # c PROVE Listed(d)' <=> Listed(d)
    OBVIOUS
  <2>2. (\E i \in DOMAIN list' : list'[i].socketNum = fd[d]) <=>
          (\E j \in DOMAIN list : list[j].socketNum = fd[d])
    BY <1>4, <2>1
  <2> QED
    BY <1>3, <2>2 DEF Listed, NodeOf
<1>6. ~ Listed(c)'
  BY <1>3 DEF Listed
<1>7. \A d \in Clients : Leaves(d)' <=> Leaves(d)
  <2>1. DOMAIN todo' = {}
    BY <1>1
  <2>2. \A i \in DOMAIN todo : todo[i].fd = fd[c]
    <3>1. DOMAIN todo = 1 .. Len(todo) /\ DOMAIN << >> = {}
      BY Domains
    <3> QED
      BY <1>1, <3>1
  <2>3. \A d \in Clients : d # c => (Leaves(d)' <=> Leaves(d))
    BY <1>1, <1>3, <1>4, <2>1, <2>2 DEF Leaves
  <2>4. Leaves(c)'
    BY <1>3 DEF Leaves
  <2> QED
    BY <2>3, <2>4
<1>8. CASE ~ Listed(c)
  BY <1>1, <1>5, <1>6, <1>7, <1>8, RoomStays
<1>9. CASE Listed(c)
  <2>1. {d \in Clients : Listed(d)}' = {d \in Clients : Listed(d)} \ {c}
    BY <1>5, <1>6
  <2>2. {d \in Clients : Leaves(d)}' = {d \in Clients : Leaves(d)}
    BY <1>7
  <2>3. c \in {d \in Clients : Listed(d)} /\ c \in {d \in Clients : Leaves(d)}
    BY <1>9
  <2> QED
    BY <1>1, <2>1, <2>2, <2>3 DEF Room!Leave, Leaves
<1> QED
  BY <1>8, <1>9

\* recvFromClient(): a handle that is entered was free, and one whose handle is
\* refused loses its claim.
LEMMA ReceiveRoom ==
  ASSUME ChatInvariant, NEW c \in Clients, RecvFromClient(c), UNCHANGED clientVars,
         ChatInvariant'
  PROVE  \/ Room!Enter(c) \/ Room!WantToLeave(c) \/ UNCHANGED Room!roomVars
<1> USE DEF ChatInvariant
<1> DEFINE m == Head(toServer[c])
<1>1. Takes(c) /\ packetResponse(c, m)
  BY DEF RecvFromClient, Polled, Takes
<1>2. /\ serverUp /\ sock[c] = "open" /\ todo = << >>
      /\ toServer' = [toServer EXCEPT ![c] = Tail(@)]
      /\ UNCHANGED <<serverUp, sock, fd, mode, clientHandle>>
      /\ toServer[c] # << >> /\ toServer \in [Clients -> Seq(Messages)]
  BY <1>1 DEF Takes, clientVars, TypeOK, NetTypeOK
<1>3. /\ m.flag \in {1, 4, 5} => m.name = clientHandle[c]
      /\ m.flag = 1 => ~ Listed(c)
      /\ m.flag # 1 => Listed(c)
  BY <1>1, TakenMessage
<1>4. \A d \in Clients : d # c => fd[d] # fd[c]
  BY <1>2 DEF ConnInv
<1>5. /\ toServer'[c] = Tail(toServer[c])
      /\ \A d \in Clients : d # c => toServer'[d] = toServer[d]
  BY <1>2
<1>6. (\E i \in DOMAIN toServer[c] : toServer[c][i].flag = 8) <=>
        m.flag = 8 \/ (\E i \in DOMAIN toServer'[c] : toServer'[c][i].flag = 8)
  <2>1. toServer[c] \in Seq(Messages)
    BY <1>2
  <2>2. /\ Len(toServer[c]) \in Nat \ {0} /\ m = toServer[c][1]
        /\ DOMAIN Tail(toServer[c]) = 1 .. Len(toServer[c]) - 1
        /\ \A i \in 1 .. Len(toServer[c]) - 1 : Tail(toServer[c])[i] = toServer[c][i + 1]
    BY <1>2, <2>1, TailEffect
  <2>3. DOMAIN toServer[c] = 1 .. Len(toServer[c])
    BY <2>1, LenProperties
  <2>4. \A n \in Nat \ {0} : /\ 1 \in 1 .. n
                             /\ \A i \in 1 .. n - 1 : i + 1 \in 1 .. n
                             /\ \A i \in 1 .. n : i = 1 \/ (i - 1 \in 1 .. n - 1 /\ (i - 1) + 1 = i)
    OBVIOUS
  <2> HIDE DEF m
  <2>5. /\ 1 \in DOMAIN toServer[c]
        /\ \A i \in DOMAIN toServer'[c] :
             i + 1 \in DOMAIN toServer[c] /\ toServer'[c][i] = toServer[c][i + 1]
        /\ \A i \in DOMAIN toServer[c] :
             i = 1 \/ (i - 1 \in DOMAIN toServer'[c] /\ toServer'[c][i - 1] = toServer[c][i])
    <3>1. \A i \in 1 .. Len(toServer[c]) - 1 : i + 1 \in 1 .. Len(toServer[c])
      BY <2>2, <2>4
    <3>2. ASSUME NEW i \in 1 .. Len(toServer[c]), i # 1
          PROVE  /\ i - 1 \in 1 .. Len(toServer[c]) - 1
                 /\ Tail(toServer[c])[i - 1] = toServer[c][i]
      <4>1. i - 1 \in 1 .. Len(toServer[c]) - 1 /\ (i - 1) + 1 = i
        BY <2>2, <2>4, <3>2
      <4> QED
        BY <2>2, <4>1
    <3>3. 1 \in 1 .. Len(toServer[c])
      BY <2>2, <2>4
    <3> QED
      BY <1>5, <2>2, <2>3, <3>1, <3>2, <3>3
  <2> QED
    BY <2>2, <2>5
<1>7. DOMAIN todo = {}
  BY <1>2
<1>8. CASE m.flag = 1 /\ checkClient(c, m) /\ available(list, m.name)
  <2>1. /\ list' = addNode(list, makeNode(m.name, fd[c]))
        /\ todo' = << Send(fd[c], Plain(2)) >>
    BY <1>8 DEF checkClient
  <2> DEFINE node == makeNode(m.name, fd[c])
  <2>2. /\ node \in Nodes /\ node.handle = m.name /\ node.socketNum = fd[c]
        /\ list \in Seq(Nodes) /\ NoTwins(list)
    <3>1. fd[c] \in Fds /\ clientHandle[c] \in Handles
      BY <1>2 DEF ConnInv, TypeOK, NetTypeOK, ClientTypeOK
    <3> QED
      BY <1>3, <1>8, <3>1
      DEF makeNode, Nodes, TypeOK, ServerTypeOK, NoTwins, ListMatchesSockets
  <2>3. \A i \in DOMAIN list : list[i].socketNum # fd[c]
    BY <1>2, <1>3, <1>8 DEF Listed, NodeOf
  <2> HIDE DEF node
  <2>4. /\ \A i \in DOMAIN list' : list'[i] = node \/ \E j \in DOMAIN list : list'[i] = list[j]
        /\ \E i \in DOMAIN list' : list'[i] = node
        /\ \A j \in DOMAIN list : \E i \in DOMAIN list' : list'[i] = list[j]
    <3>1. list' = addNode(list, node) /\ available(list, node.handle)
      BY <1>8, <2>1, <2>2 DEF node
    <3> QED
      BY <2>2, <2>3, <3>1, AddNodeEffect
  <2>5. Listed(c)' /\ ~ Listed(c)
    BY <1>2, <1>3, <1>8, <2>2, <2>4 DEF Listed, NodeOf
  <2>6. ASSUME NEW d \in Clients, d # c PROVE Listed(d)' <=> Listed(d)
    <3>1. fd[d] # node.socketNum
      BY <1>4, <2>2, <2>6
    <3>2. (\E i \in DOMAIN list' : list'[i].socketNum = fd[d]) <=>
            (\E j \in DOMAIN list : list[j].socketNum = fd[d])
      BY <2>4, <3>1
    <3> QED
      BY <1>2, <3>2 DEF Listed, NodeOf
  <2>7. \A d \in Clients : Leaves(d)' <=> Leaves(d)
    <3>1. \A i \in DOMAIN todo' : todo'[i].op = "send"
      <4>1. DOMAIN todo' = {1} /\ todo'[1] = Send(fd[c], Plain(2))
        BY <2>1
      <4> QED
        BY <4>1, SendShape
    <3> QED
      BY <1>2, <1>5, <1>6, <1>7, <1>8, <3>1 DEF Leaves
  <2>8. \A d \in Clients : Listed(d) => clientHandle[d] # clientHandle[c]
    BY <1>3, <1>8, ListedHasNode DEF available
  <2>9. {d \in Clients : Listed(d)}' = {d \in Clients : Listed(d)} \cup {c}
    BY <2>5, <2>6
  <2>10. {d \in Clients : Leaves(d)}' = {d \in Clients : Leaves(d)}
    BY <2>7
  <2>11. c \notin {d \in Clients : Listed(d)}
    BY <2>5
  <2> QED
    BY <1>2, <2>8, <2>9, <2>10, <2>11 DEF Room!Enter, Leaves
<1>9. ASSUME UNCHANGED list,
             \A i \in DOMAIN todo' :
               todo'[i].op \in {"close", "remove"} => todo'[i].fd = fd[c],
             m.flag = 8 => \E i \in DOMAIN todo' : todo'[i].op \in {"close", "remove"}
      PROVE  Room!WantToLeave(c) \/ UNCHANGED Room!roomVars
  <2>1. \A d \in Clients : Listed(d)' <=> Listed(d)
    BY <1>2, <1>9 DEF Listed, NodeOf
  <2>2. \A d \in Clients : d # c => (Leaves(d)' <=> Leaves(d))
    BY <1>2, <1>4, <1>5, <1>7, <1>9 DEF Leaves
  <2>3. Leaves(c) => Leaves(c)'
    BY <1>2, <1>6, <1>7, <1>9 DEF Leaves
  <2>4. CASE Leaves(c)'
    BY <1>2, <2>1, <2>2, <2>4, RoomWant
  <2>5. CASE ~ Leaves(c)'
    BY <1>2, <2>1, <2>2, <2>3, <2>5, RoomStays
  <2> QED
    BY <2>4, <2>5
<1>10. CASE \/ m.flag = 1 /\ checkClient(c, m) /\ ~ available(list, m.name)
            \/ m.flag = 8 /\ sendE(c, m)
  <2>1. UNCHANGED list
    BY <1>10 DEF checkClient, sendE
  <2>2. PICK s, t : /\ todo' = << s, t >> /\ s.op = "send"
                    /\ t.op \in {"close", "remove"} /\ t.fd = fd[c]
    <3>1. /\ CloseIt(fd[c]).op = "close" /\ CloseIt(fd[c]).fd = fd[c]
          /\ RemoveIt(fd[c]).op = "remove" /\ RemoveIt(fd[c]).fd = fd[c]
      BY DEF CloseIt, RemoveIt
    <3>2. \/ todo' = << Send(fd[c], Plain(3)), CloseIt(fd[c]) >>
          \/ todo' = << Send(fd[c], Plain(9)), RemoveIt(fd[c]) >>
      BY <1>10 DEF checkClient, sendE
    <3> QED
      BY <3>1, <3>2, SendShape
  <2>3. DOMAIN todo' = {1, 2} /\ todo'[1] = s /\ todo'[2] = t
    BY <2>2
  <2> QED
    BY <1>9, <2>1, <2>2, <2>3
<1>11. CASE \/ m.flag = 4 /\ sendB(c, m)
            \/ m.flag = 5 /\ sendM(c, m)
            \/ m.flag = 10 /\ sendL(c, m)
  <2>1. OnlySends /\ UNCHANGED list
    BY <1>1, <1>11, ForwardAnswered
  <2> QED
    BY <1>9, <1>11, <2>1 DEF OnlySends
<1>12. CASE m.flag \notin {1, 4, 5, 8, 10} /\ UNCHANGED <<list, todo>>
  BY <1>7, <1>9, <1>12
<1> QED
  BY <1>1, <1>8, <1>10, <1>11, <1>12 DEF packetResponse

\* accept() and the sending of what a handler has to send change nothing.
LEMMA ServerRoom ==
  ASSUME ChatInvariant, UNCHANGED clientVars,
         \/ AddNewClient \/ SkipSender
         \/ \E c \in Clients : SafeSend(c) \/ SafeSendLost(c)
  PROVE  UNCHANGED Room!roomVars
<1> USE DEF ChatInvariant
<1>1. CASE AddNewClient
  <2>1. /\ UNCHANGED <<serverUp, list, todo, toServer, mode, clientHandle>>
        /\ todo = << >> /\ sock' = [sock EXCEPT ![Head(backlog)] = "open"]
        /\ ListenFd \in ReadySlots(pollSet, ReadableFds, stdinHungUp) /\ serverUp
    BY <1>1 DEF AddNewClient, Polled, pollCallReturns, clientVars
  <2>2. PICK f \in Fds : /\ \A d \in Clients : fd[d] # f
                         /\ fd' = [fd EXCEPT ![Head(backlog)] = f]
    BY <1>1 DEF AddNewClient, IsNextFd
  <2>3. backlog # << >>
    BY <2>1, Polls
  <2>4. PICK c \in Clients : c = Head(backlog) /\ sock[c] = "backlog"
    <3>1. backlog \in Seq(Clients)
      BY DEF TypeOK, NetTypeOK
    <3>2. Len(backlog) \in Nat \ {0} /\ Head(backlog) = backlog[1] /\ backlog[1] \in Clients
      BY <2>3, <3>1, TailEffect
    <3>3. 1 \in DOMAIN backlog
      BY <3>1, <3>2, LenProperties
    <3> QED
      BY <3>2, <3>3 DEF ConnInv
  <2>5. /\ sock'[c] = "open" /\ fd'[c] = f
        /\ \A d \in Clients : d # c => sock'[d] = sock[d] /\ fd'[d] = fd[d]
    BY <2>1, <2>2, <2>4 DEF TypeOK, NetTypeOK
  <2>6. \A d \in Clients : Listed(d)' <=> Listed(d)
    <3>1. \A i \in DOMAIN list : list[i].socketNum # f
      BY <2>2, NodeHasOwner
    <3>2. ~ Listed(c)' /\ ~ Listed(c)
      BY <2>1, <2>4, <2>5, <3>1 DEF Listed, NodeOf
    <3>3. \A d \in Clients : d # c => (Listed(d)' <=> Listed(d))
      BY <2>1, <2>5 DEF Listed, NodeOf
    <3> QED
      BY <3>2, <3>3
  <2>7. DOMAIN todo = {}
    BY <2>1
  <2>8. \A d \in Clients : Leaves(d)' <=> Leaves(d)
    BY <2>1, <2>4, <2>5, <2>7 DEF Leaves
  <2> QED
    BY <2>1, <2>6, <2>8, RoomStays
<1>2. CASE SkipSender \/ \E c \in Clients : SafeSend(c) \/ SafeSendLost(c)
  <2>1. /\ todo # << >> /\ todo' = Tail(todo) /\ Next1.op \in {"send", "skip"}
        /\ UNCHANGED <<serverUp, list, sock, fd, toServer, mode, clientHandle>>
    BY <1>2 DEF SkipSender, SafeSend, SafeSendLost, Doing, SendDone, netVars, clientVars
  <2>2. /\ Len(todo) \in Nat \ {0} /\ Next1 = todo[1]
        /\ Len(todo') = Len(todo) - 1
        /\ DOMAIN todo' = 1 .. Len(todo')
        /\ \A i \in DOMAIN todo' : i + 1 \in DOMAIN todo /\ todo'[i] = todo[i + 1]
    BY <2>1, TodoShifts
  <2>3. DOMAIN todo = 1 .. Len(todo)
    BY Domains
  <2>4. \A i \in DOMAIN todo : i # 1 =>
          \E j \in DOMAIN todo' : todo'[j] = todo[i]
    <3>1. \A n \in Nat : \A i \in 1 .. n :
            i # 1 => i - 1 \in 1 .. n - 1 /\ (i - 1) + 1 = i
      OBVIOUS
    <3>2. ASSUME NEW i \in DOMAIN todo, i # 1
          PROVE  i - 1 \in DOMAIN todo' /\ todo'[i - 1] = todo[i]
      <4>1. i - 1 \in DOMAIN todo' /\ (i - 1) + 1 = i
        BY <2>2, <2>3, <3>1, <3>2
      <4> QED
        BY <2>2, <4>1
    <3> QED
      BY <3>2
  <2>5. todo[1].op \notin {"close", "remove"}
    BY <2>1, <2>2
  <2>6. \A d \in Clients : Listed(d)' <=> Listed(d)
    BY <2>1 DEF Listed, NodeOf
  <2>7. \A f : (\E i \in DOMAIN todo' : todo'[i].op \in {"close", "remove"} /\ todo'[i].fd = f)
          <=> (\E i \in DOMAIN todo : todo[i].op \in {"close", "remove"} /\ todo[i].fd = f)
    BY <2>2, <2>4, <2>5
  <2>8. \A d \in Clients : Leaves(d)' <=> Leaves(d)
    <3> SUFFICES ASSUME NEW d \in Clients PROVE Leaves(d)' <=> Leaves(d)
      OBVIOUS
    <3>1. fd'[d] = fd[d] /\ toServer'[d] = toServer[d] /\ mode'[d] = mode[d]
          /\ sock'[d] = sock[d] /\ serverUp' = serverUp
      BY <2>1
    <3>2. (\E i \in DOMAIN todo' : todo'[i].op \in {"close", "remove"} /\ todo'[i].fd = fd[d])
          <=> (\E i \in DOMAIN todo : todo[i].op \in {"close", "remove"} /\ todo[i].fd = fd[d])
      BY <2>7
    <3> QED
      BY <3>1, <3>2 DEF Leaves
  <2> QED
    BY <2>1, <2>6, <2>8, RoomStays
<1> QED
  BY <1>1, <1>2

\* A server that exits puts everybody out.
LEMMA ExitRoom ==
  ASSUME ServerExits, serverUp, UNCHANGED clientVars
  PROVE  Room!Shut
<1>1. /\ serverUp' = FALSE /\ UNCHANGED clientHandle
      /\ \A c \in Clients : sock'[c] # "open"
  BY DEF ServerExits, clientVars
<1>2. {d \in Clients : Listed(d)}' = {}
  BY <1>1 DEF Listed
<1>3. {d \in Clients : Leaves(d)}' = Clients
  BY <1>1 DEF Leaves
<1> QED
  BY <1>1, <1>2, <1>3 DEF Room!Shut, Leaves

LEMMA RoomStart == Init => Room!Init
<1> SUFFICES ASSUME Init PROVE Room!Init
  OBVIOUS
<1>1. /\ todo = << >> /\ serverUp = TRUE
      /\ sock = [c \in Clients |-> "none"]
      /\ toServer = [c \in Clients |-> << >>]
      /\ mode = [c \in Clients |-> "start"] /\ clientHandle \in [Clients -> Handles]
  BY DEF Init, NetInit, ServerInit, ClientInit
<1>2. DOMAIN << >> = {}
  OBVIOUS
<1>3. \A c \in Clients : ~ Listed(c) /\ ~ Leaves(c)
  BY <1>1, <1>2 DEF Listed, Leaves
<1>4. {d \in Clients : Listed(d)} = {} /\ {d \in Clients : Leaves(d)} = {}
  BY <1>3
<1> QED
  BY <1>1, <1>4 DEF Room!Init, Leaves

LEMMA RoomStep ==
  ASSUME ChatInvariant, ChatInvariant', [Next]_vars
  PROVE  [Room!Next]_(Room!roomVars)
<1> USE DEF ChatInvariant
<1>1. CASE Idle \/ UNCHANGED vars \/ (StdinHangsUp /\ UNCHANGED clientVars)
  <2>1. UNCHANGED <<serverUp, list, todo, sock, fd, toServer, mode, clientHandle>>
    BY <1>1 DEF Idle, StdinHangsUp, vars, serverVars, clientVars, netVars
  <2>2. \A d \in Clients : (Listed(d)' <=> Listed(d)) /\ (Leaves(d)' <=> Leaves(d))
    BY <2>1 DEF Listed, NodeOf, Leaves
  <2> QED
    BY <2>1, <2>2, RoomStays
<1>2. CASE \E c \in Clients : ClientConnects(c) \/ ClientNext(c) \/ PersonNext(c)
  BY <1>2, ClientRoom DEF Room!Next
<1>3. CASE ServerNext
  <2>1. ServerStep /\ UNCHANGED clientVars
    BY <1>3 DEF ServerNext
  <2>2. CASE \/ AddNewClient \/ SkipSender
             \/ \E c \in Clients : SafeSend(c) \/ SafeSendLost(c)
    BY <2>1, <2>2, ServerRoom
  <2>3. CASE \/ RecvFromStdin \/ SafeSendFails
             \/ \E c \in Clients : RecvError(c) \/ RecvOverruns(c)
    <3>1. serverUp /\ ServerExits
      BY <2>3 DEF RecvFromStdin, SafeSendFails, RecvError, RecvOverruns, Polled,
                  Doing
    <3> QED
      BY <2>1, <3>1, ExitRoom DEF Room!Next
  <2>4. ASSUME NEW c \in Clients, RecvFromClient(c)
        PROVE  [Room!Next]_(Room!roomVars)
    BY <2>1, <2>4, ReceiveRoom DEF Room!Next
  <2>5. ASSUME NEW c \in Clients, RecvEof(c) \/ CloseRefused(c) \/ CloseLeaver(c)
        PROVE  [Room!Next]_(Room!roomVars)
    <3>1. Departs(c)
      BY <2>5, Departures
    <3>2. CASE RecvEof(c)
      <4>1. Leaves(c)
        BY <3>2 DEF RecvEof, ModeInv, Leaves
      <4> QED
        BY <2>1, <3>1, <4>1, DepartRoom DEF Room!Next
    <3>3. CASE CloseRefused(c) \/ CloseLeaver(c)
      <4>1. todo # << >> /\ Head(todo).op \in {"close", "remove"} /\ Head(todo).fd = fd[c]
        BY <3>3 DEF CloseRefused, CloseLeaver, Doing, Next1
      <4>2. 1 \in DOMAIN todo /\ Head(todo) = todo[1]
        <5>1. todo \in Seq(Todos)
          BY DEF TypeOK, ServerTypeOK, Todos
        <5>2. Len(todo) \in Nat \ {0} /\ Head(todo) = todo[1]
          BY <4>1, <5>1, TailEffect
        <5> QED
          BY <5>1, <5>2, LenProperties
      <4>3. Leaves(c)
        BY <4>1, <4>2 DEF Leaves
      <4> QED
        BY <2>1, <3>1, <4>3, DepartRoom DEF Room!Next
    <3> QED
      BY <2>5, <3>2, <3>3
  <2> QED
    BY <2>1, <2>2, <2>3, <2>4, <2>5 DEF ServerStep
<1> QED
  BY <1>1, <1>2, <1>3 DEF Next

\* The server keeps the promise of ChatRoom: nobody enters under a handle in
\* use, and nobody is put out who has a claim to stay.
THEOREM RoomIsKept == Spec => ImplementsRoom
<1>1. ChatInvariant /\ ChatInvariant' /\ [Next]_vars => [Room!Next]_(Room!roomVars)
  BY RoomStep
<1> QED
  BY <1>1, RoomStart, ChatIsConsistent, PTL DEF Spec, ImplementsRoom, Room!Spec

-----------------------------------------------------------------------------
(* What %L is answered: a list that is whole stays whole. *)

\* Where the messages of s \o t are.
LEMMA ConcatEffect ==
  ASSUME NEW S, NEW s \in Seq(S), NEW t \in Seq(S)
  PROVE  /\ s \o t \in Seq(S) /\ Len(s) \in Nat /\ Len(t) \in Nat
         /\ Len(s \o t) = Len(s) + Len(t)
         /\ DOMAIN s = 1 .. Len(s) /\ DOMAIN t = 1 .. Len(t)
         /\ DOMAIN (s \o t) = 1 .. Len(s) + Len(t)
         /\ \A i \in 1 .. Len(s) : (s \o t)[i] = s[i]
         /\ \A i \in 1 .. Len(t) : (s \o t)[Len(s) + i] = t[i]
<1>1. s \o t \in Seq(S) /\ Len(s) \in Nat /\ Len(t) \in Nat
      /\ Len(s \o t) = Len(s) + Len(t)
      /\ \A i \in 1 .. Len(s) + Len(t) :
           (s \o t)[i] = IF i <= Len(s) THEN s[i] ELSE t[i - Len(s)]
  BY ConcatProperties, LenProperties
<1>2. \A i \in 1 .. Len(t) : Len(s) + i \in 1 .. Len(s) + Len(t)
                             /\ ~ (Len(s) + i <= Len(s)) /\ Len(s) + i - Len(s) = i
  BY <1>1
<1>3. \A i \in 1 .. Len(s) : i \in 1 .. Len(s) + Len(t) /\ i <= Len(s)
  BY <1>1
<1> QED
  BY <1>1, <1>2, <1>3, LenProperties

\* More messages, none of them a FLAG_11, and a list at i stays where it is.
LEMMA ListStays ==
  ASSUME NEW s \in Seq(Messages), NEW t \in Seq(Messages),
         NEW i \in DOMAIN s, IsListAt(s, i)
  PROVE  IsListAt(s \o t, i)
<1> DEFINE n == s[i].count
           u == s \o t
<1>1. /\ Len(s) \in Nat /\ Len(t) \in Nat /\ DOMAIN s = 1 .. Len(s)
      /\ Len(u) = Len(s) + Len(t)
      /\ \A k \in 1 .. Len(s) : u[k] = s[k]
  BY ConcatEffect
<1>2. i \in 1 .. Len(s) /\ s[i] \in Messages
  BY <1>1, ElementOfSeq
<1>3. n \in Nat
  BY <1>2 DEF Messages
<1>4. /\ i + n + 1 <= Len(s)
      /\ \A j \in i + 1 .. i + n : s[j].flag = 12
      /\ \A j, k \in i + 1 .. i + n : j # k => s[j].name # s[k].name
      /\ s[i + n + 1].flag = 13
  BY DEF IsListAt
<1> HIDE DEF n, u
<1>5. \A j \in i + 1 .. i + n + 1 : u[j] = s[j]
  BY <1>1, <1>2, <1>3, <1>4
<1>6. i + n + 1 \in i + 1 .. i + n + 1 /\ (\A j \in i + 1 .. i + n : j \in i + 1 .. i + n + 1)
      /\ i + n + 1 <= Len(u)
  BY <1>1, <1>2, <1>3, <1>4
<1>7. u[i].count = n
  BY <1>1, <1>2 DEF n
<1> QED
  BY <1>4, <1>5, <1>6, <1>7 DEF IsListAt, u

LEMMA ListsKept ==
  ASSUME NEW s \in Seq(Messages), NEW t \in Seq(Messages), ListsAreWhole(s),
         \A i \in DOMAIN t : t[i].flag = 11 => IsListAt(s \o t, Len(s) + i)
  PROVE  ListsAreWhole(s \o t) /\ (EndsList(s) => EndsList(s \o t))
<1> DEFINE u == s \o t
<1>1. /\ Len(s) \in Nat /\ Len(t) \in Nat
      /\ DOMAIN s = 1 .. Len(s) /\ DOMAIN t = 1 .. Len(t)
      /\ DOMAIN u = 1 .. Len(s) + Len(t)
      /\ \A k \in 1 .. Len(s) : u[k] = s[k]
      /\ \A k \in 1 .. Len(t) : u[Len(s) + k] = t[k]
  BY ConcatEffect
<1>2. \A i \in DOMAIN s : IsListAt(s, i) => IsListAt(u, i)
  BY ListStays
<1> HIDE DEF u
<1>3. ASSUME NEW i \in DOMAIN u, u[i].flag = 11 PROVE IsListAt(u, i)
  <2>1. CASE i <= Len(s)
    <3>1. i \in DOMAIN s /\ s[i].flag = 11
      BY <1>1, <1>3, <2>1
    <3> QED
      BY <1>2, <3>1 DEF ListsAreWhole
  <2>2. CASE ~ (i <= Len(s))
    <3>1. i - Len(s) \in 1 .. Len(t) /\ Len(s) + (i - Len(s)) = i
      BY <1>1, <1>3, <2>2
    <3>2. t[i - Len(s)].flag = 11
      BY <1>1, <1>3, <3>1
    <3> QED
      BY <1>1, <3>1, <3>2 DEF u
  <2> QED
    BY <2>1, <2>2
<1>4. ASSUME EndsList(s) PROVE EndsList(u)
  <2>1. PICK i \in DOMAIN s : s[i].flag = 13 /\ \A j \in 1 .. i - 1 : s[j].flag = 12
    BY <1>4 DEF EndsList
  <2>2. i \in DOMAIN u /\ u[i] = s[i] /\ \A j \in 1 .. i - 1 : j \in 1 .. Len(s)
    BY <1>1, <2>1
  <2>3. \A j \in 1 .. i - 1 : u[j].flag = 12
    BY <1>1, <2>1, <2>2
  <2> QED
    BY <2>1, <2>2, <2>3 DEF EndsList
<1> QED
  BY <1>3, <1>4 DEF ListsAreWhole, u

\* A message is read: after a FLAG_11 the rest of its list is next.
LEMMA ListRead ==
  ASSUME NEW s \in Seq(Messages), s # << >>, ListsAreWhole(s)
  PROVE  /\ ListsAreWhole(Tail(s))
         /\ Head(s).flag = 11 => EndsList(Tail(s))
         /\ EndsList(s) /\ Head(s).flag # 13 => EndsList(Tail(s))
<1> DEFINE u == Tail(s)
<1>1. /\ Len(s) \in Nat \ {0} /\ Head(s) = s[1] /\ DOMAIN s = 1 .. Len(s)
      /\ Len(u) = Len(s) - 1 /\ DOMAIN u = 1 .. Len(s) - 1
      /\ \A i \in 1 .. Len(s) - 1 : u[i] = s[i + 1]
      /\ \A i \in 1 .. Len(s) : s[i] \in Messages
  BY TailEffect, LenProperties, ElementOfSeq
<1> HIDE DEF u
<1>2. ASSUME NEW i \in DOMAIN u, u[i].flag = 11 PROVE IsListAt(u, i)
  <2> DEFINE n == s[i + 1].count
  <2>1. i \in 1 .. Len(s) - 1 /\ i + 1 \in 1 .. Len(s) /\ u[i] = s[i + 1]
    BY <1>1, <1>2
  <2>2. n \in Nat
    BY <1>1, <2>1 DEF Messages
  <2>3. IsListAt(s, i + 1)
    BY <1>1, <1>2, <2>1 DEF ListsAreWhole
  <2>4. /\ i + 1 + n + 1 <= Len(s)
        /\ \A j \in i + 1 + 1 .. i + 1 + n : s[j].flag = 12
        /\ \A j, k \in i + 1 + 1 .. i + 1 + n : j # k => s[j].name # s[k].name
        /\ s[i + 1 + n + 1].flag = 13
    BY <2>3 DEF IsListAt
  <2> HIDE DEF n
  <2>5. \A j \in i + 1 .. i + n : /\ j \in 1 .. Len(s) - 1
                                  /\ j + 1 \in i + 1 + 1 .. i + 1 + n
    BY <1>1, <2>1, <2>2, <2>4
  <2>6. \A j \in i + 1 .. i + n : u[j] = s[j + 1] /\ u[j].flag = 12
    BY <1>1, <2>4, <2>5
  <2>7. ASSUME NEW j \in i + 1 .. i + n, NEW k \in i + 1 .. i + n, j # k
        PROVE  u[j].name # u[k].name
    <3>1. j + 1 # k + 1
      BY <2>1, <2>2, <2>7
    <3> QED
      BY <2>4, <2>5, <2>6, <3>1
  <2>8. i + n + 1 \in 1 .. Len(s) - 1 /\ i + n + 1 + 1 = i + 1 + n + 1 /\ i + n + 1 <= Len(u)
    BY <1>1, <2>1, <2>2, <2>4
  <2>9. u[i + n + 1].flag = 13
    BY <1>1, <2>4, <2>8
  <2>10. u[i].count = n
    BY <2>1 DEF n
  <2> QED
    BY <2>6, <2>7, <2>8, <2>9, <2>10 DEF IsListAt
<1>3. ASSUME Head(s).flag = 11 PROVE EndsList(u)
  <2> DEFINE n == s[1].count
  <2>1. 1 \in 1 .. Len(s) /\ n \in Nat
    BY <1>1 DEF Messages
  <2>2. IsListAt(s, 1)
    BY <1>1, <1>3 DEF ListsAreWhole
  <2>3. /\ 1 + n + 1 <= Len(s) /\ s[1 + n + 1].flag = 13
        /\ \A j \in 1 + 1 .. 1 + n : s[j].flag = 12
    BY <2>2 DEF IsListAt
  <2> HIDE DEF n
  <2>4. /\ n + 1 \in 1 .. Len(s) - 1 /\ n + 1 + 1 = 1 + n + 1 /\ n + 1 - 1 = n
        /\ \A j \in 1 .. n : j \in 1 .. Len(s) - 1 /\ j + 1 \in 1 + 1 .. 1 + n
    BY <1>1, <2>1, <2>3
  <2>5. PICK k \in DOMAIN u : k = n + 1
    BY <1>1, <2>4
  <2>6. u[k].flag = 13
    BY <1>1, <2>3, <2>4, <2>5
  <2>7. ASSUME NEW j \in 1 .. k - 1 PROVE u[j].flag = 12
    <3>1. j \in 1 .. n
      BY <2>1, <2>5
    <3>2. u[j] = s[j + 1] /\ s[j + 1].flag = 12
      BY <1>1, <2>3, <2>4, <3>1
    <3> QED
      BY <3>2
  <2> QED
    BY <2>6, <2>7 DEF EndsList
<1>4. ASSUME EndsList(s), Head(s).flag # 13 PROVE EndsList(u)
  <2>1. PICK i \in DOMAIN s : s[i].flag = 13 /\ \A j \in 1 .. i - 1 : s[j].flag = 12
    BY <1>4 DEF EndsList
  <2>2. i # 1
    BY <1>1, <1>4, <2>1
  <2>3. /\ i - 1 \in 1 .. Len(s) - 1 /\ i - 1 + 1 = i
        /\ \A j \in 1 .. i - 1 - 1 : j \in 1 .. Len(s) - 1 /\ j + 1 \in 1 .. i - 1
    BY <1>1, <2>1, <2>2
  <2>4. i - 1 \in DOMAIN u /\ u[i - 1].flag = 13 /\ \A j \in 1 .. i - 1 - 1 : u[j].flag = 12
    BY <1>1, <2>1, <2>3
  <2> QED
    BY <2>4 DEF EndsList
<1> QED
  BY <1>2, <1>3, <1>4 DEF ListsAreWhole, u

\* The messages of what is left of a handler.
Msgs(td) == [i \in DOMAIN td |-> td[i].msg]

LEMMA MsgsShape ==
  ASSUME NEW td \in Seq(Todos)
  PROVE  /\ Msgs(td) \in Seq(Messages) /\ Len(Msgs(td)) = Len(td)
         /\ DOMAIN Msgs(td) = DOMAIN td /\ DOMAIN td = 1 .. Len(td)
         /\ \A i \in DOMAIN td : Msgs(td)[i] = td[i].msg
         /\ td = << >> => Msgs(td) = << >>
<1>1. /\ DOMAIN td = 1 .. Len(td) /\ Len(td) \in Nat
      /\ \A i \in 1 .. Len(td) : td[i] \in Todos
  BY LenProperties, ElementOfSeq
<1>2. Msgs(td) \in [1 .. Len(td) -> Messages]
  BY <1>1 DEF Msgs, Todos
<1>3. Msgs(td) \in Seq(Messages) /\ Len(Msgs(td)) = Len(td)
  BY <1>1, <1>2, FunctionIsSeq
<1>4. td = << >> => Msgs(td) = << >>
  BY <1>3, EmptySeq
<1> QED
  BY <1>1, <1>3, <1>4 DEF Msgs

LEMMA RestShape == \A c : Rest(c) = IF AllFor(c) THEN Msgs(todo) ELSE << >>
  BY DEF Rest, Msgs

\* The sequences ListReplyIsWhole speaks of.
LEMMA UnderwayShape ==
  ASSUME TypeOK, NEW c \in Clients
  PROVE  /\ toClient[c] \in Seq(Messages) /\ Underway(c) \in Seq(Messages)
         /\ todo \in Seq(Todos)
         /\ ~ AllFor(c) \/ todo = << >> => Underway(c) = toClient[c]
<1>1. toClient[c] \in Seq(Messages) /\ todo \in Seq(Todos)
  BY DEF TypeOK, NetTypeOK, ServerTypeOK, Todos
<1>2. Msgs(todo) \in Seq(Messages) /\ (todo = << >> => Msgs(todo) = << >>)
  BY <1>1, MsgsShape
<1>3. Rest(c) \in Seq(Messages) /\ (~ AllFor(c) \/ todo = << >> => Rest(c) = << >>)
  BY <1>2, RestShape, EmptySeq
<1>4. toClient[c] \o << >> = toClient[c]
  BY <1>1, ConcatEmptySeq
<1> QED
  BY <1>1, <1>3, <1>4, ConcatProperties DEF Underway

\* More is under way to c, and a list in it is whole.
Grows(c) ==
  \E t \in Seq(Messages) :
    /\ Underway(c)' = Underway(c) \o t
    /\ \A i \in DOMAIN t : t[i].flag = 11 =>
         IsListAt(Underway(c) \o t, Len(Underway(c)) + i)

LEMMA GrowthKeeps ==
  ASSUME TypeOK, ListReplyIsWhole, serverUp, UNCHANGED mode, ListGoesAlone',
         \A c \in Clients : mode[c] # "gone" => Grows(c)
  PROVE  ListReplyIsWhole'
<1>1. ASSUME NEW c \in Clients, mode'[c] # "gone"
      PROVE  /\ ListsAreWhole(Underway(c)')
             /\ mode'[c] = "list" => EndsList(Underway(c)')
  <2>1. mode[c] # "gone" /\ mode'[c] = mode[c]
    BY <1>1
  <2>2. PICK t \in Seq(Messages) :
          /\ Underway(c)' = Underway(c) \o t
          /\ \A i \in DOMAIN t : t[i].flag = 11 =>
               IsListAt(Underway(c) \o t, Len(Underway(c)) + i)
    BY <2>1 DEF Grows
  <2>3. Underway(c) \in Seq(Messages)
    BY UnderwayShape
  <2>4. /\ ListsAreWhole(Underway(c))
        /\ mode[c] = "list" => EndsList(Underway(c))
    BY <2>1 DEF ListReplyIsWhole
  <2>5. /\ ListsAreWhole(Underway(c) \o t)
        /\ EndsList(Underway(c)) => EndsList(Underway(c) \o t)
    BY <2>2, <2>3, <2>4, ListsKept
  <2> QED
    BY <2>1, <2>2, <2>4, <2>5
<1> QED
  BY <1>1 DEF ListReplyIsWhole

\* Nothing in it is a FLAG_11.
LEMMA PlainGrowth ==
  ASSUME NEW c \in Clients, NEW t \in Seq(Messages),
         Underway(c)' = Underway(c) \o t,
         \A i \in DOMAIN t : t[i].flag # 11
  PROVE  Grows(c)
  BY DEF Grows

LEMMA NoGrowth ==
  ASSUME TypeOK, NEW c \in Clients, Underway(c)' = Underway(c)
  PROVE  Grows(c)
<1>1. Underway(c) \in Seq(Messages)
  BY UnderwayShape
<1>2. Underway(c) \o << >> = Underway(c)
  BY <1>1, ConcatEmptySeq
<1>3. << >> \in Seq(Messages) /\ DOMAIN << >> = {}
  BY EmptySeq
<1> QED
  BY <1>2, <1>3, PlainGrowth

\* What the handler still has to send goes to c from now on.
LEMMA RestGrowth ==
  ASSUME NEW c \in Clients, Underway(c) = toClient[c], todo' \in Seq(Todos),
         toClient'[c] = toClient[c],
         AllFor(c)' => \A i \in DOMAIN todo' : todo'[i].msg.flag # 11
  PROVE  Grows(c)
<1> DEFINE t == IF AllFor(c)' THEN Msgs(todo') ELSE << >>
<1>1. Rest(c)' = t
  BY DEF Rest, Msgs
<1>2. /\ Msgs(todo') \in Seq(Messages) /\ DOMAIN Msgs(todo') = DOMAIN todo'
      /\ \A i \in DOMAIN todo' : Msgs(todo')[i] = todo'[i].msg
  BY MsgsShape
<1>3. t \in Seq(Messages) /\ \A i \in DOMAIN t : t[i].flag # 11
  <2>1. CASE AllFor(c)'
    BY <1>2, <2>1
  <2>2. CASE ~ AllFor(c)'
    BY <2>2, EmptySeq
  <2> QED
    BY <2>1, <2>2
<1>4. Underway(c)' = Underway(c) \o t
  BY <1>1 DEF Underway
<1> QED
  BY <1>3, <1>4, PlainGrowth

\* Nothing is left to send before, or after, what does not send.
LEMMA QuietLists ==
  ASSUME ChatInvariant, ListReplyIsWhole, serverUp, todo' = << >>,
         todo = << >> \/ todo[1].op \in {"close", "remove"},
         UNCHANGED <<toClient, mode>>
  PROVE  ListReplyIsWhole'
<1>1. TypeOK /\ todo \in Seq(Todos)
  BY DEF ChatInvariant, TypeOK, ServerTypeOK, Todos
<1>2. todo' \in Seq(Todos) /\ DOMAIN todo' = {}
  BY EmptySeq
<1>3. ASSUME NEW c \in Clients PROVE Grows(c)
  <2>1. ~ AllFor(c) \/ todo = << >>
    <3>1. todo # << >> => 1 \in DOMAIN todo
      BY <1>1, EmptySeq, LenProperties
    <3> QED
      BY <3>1 DEF AllFor
  <2>2. Underway(c) = toClient[c]
    BY <1>1, <2>1, UnderwayShape
  <2> QED
    BY <1>2, <2>2, RestGrowth
<1>4. ListGoesAlone'
  BY <1>2 DEF ListGoesAlone
<1> QED
  BY <1>1, <1>3, <1>4, GrowthKeeps

\* What is left of a list after a step of it, or of anything else.
LEMMA AloneShifts ==
  ASSUME ChatInvariant, ListGoesAlone, todo # << >>, todo' = Tail(todo),
         UNCHANGED <<sock, fd>>
  PROVE  /\ ListGoesAlone'
         /\ \A c \in Clients : AllFor(c) => AllFor(c)'
         /\ \A c \in Clients : ~ AllFor(c) =>
              /\ AllFor(c)' => \A i \in DOMAIN todo' : todo'[i].msg.flag # 11
              /\ todo[1].op = "send" /\ todo[1].fd = fd[c] /\ sock[c] = "open" =>
                   todo[1].msg.flag # 11
<1>1. /\ 1 \in DOMAIN todo
      /\ \A i \in DOMAIN todo' : i + 1 \in DOMAIN todo /\ todo'[i] = todo[i + 1]
  BY TodoShifts
<1>2. \A c \in Clients : AllFor(c) => AllFor(c)'
  BY <1>1 DEF AllFor
<1>3. ListGoesAlone'
  BY <1>1, <1>2 DEF ListGoesAlone
<1>4. ASSUME NEW c \in Clients, NEW d \in Clients, AllFor(d),
             sock[c] = "open", NEW i \in DOMAIN todo, todo[i].fd = fd[c]
      PROVE  c = d
  BY <1>4 DEF AllFor, ChatInvariant, ConnInv
<1>5. ASSUME NEW c \in Clients, ~ AllFor(c), AllFor(c)', NEW i \in DOMAIN todo',
             todo'[i].msg.flag = 11
      PROVE  FALSE
  <2>1. sock[c] = "open" /\ todo'[i].op = "send" /\ todo'[i].fd = fd[c]
    BY <1>5 DEF AllFor
  <2>2. i + 1 \in DOMAIN todo /\ todo[i + 1] = todo'[i]
    BY <1>1
  <2>3. PICK d \in Clients : AllFor(d)
    BY <1>5, <2>1, <2>2 DEF ListGoesAlone
  <2> QED
    BY <1>4, <1>5, <2>1, <2>2, <2>3
<1>6. ASSUME NEW c \in Clients, ~ AllFor(c), sock[c] = "open",
             todo[1].op = "send", todo[1].fd = fd[c], todo[1].msg.flag = 11
      PROVE  FALSE
  <2>1. PICK d \in Clients : AllFor(d)
    BY <1>1, <1>6 DEF ListGoesAlone
  <2> QED
    BY <1>1, <1>4, <1>6, <2>1
<1> QED
  BY <1>2, <1>3, <1>5, <1>6

LEMMA AppendInFront ==
  ASSUME NEW q \in Seq(Messages), NEW t \in Seq(Messages), NEW m \in Messages
  PROVE  Append(q, m) \o t = q \o (<< m >> \o t)
<1> DEFINE one == << m >>
<1>0. one \in Seq(Messages)
  OBVIOUS
<1>1. one \in Seq(Messages) /\ Len(one) = 1 /\ one[1] = m
  OBVIOUS
<1> HIDE DEF one
<1>2. /\ q \o one \in Seq(Messages) /\ Len(q \o one) = Len(q) + 1
      /\ Len(q) \in Nat
      /\ \A i \in 1 .. Len(q) : (q \o one)[i] = q[i]
      /\ (q \o one)[Len(q) + 1] = m
  <2>1. /\ q \o one \in Seq(Messages) /\ Len(q) \in Nat
        /\ Len(q \o one) = Len(q) + Len(one)
        /\ \A i \in 1 .. Len(q) : (q \o one)[i] = q[i]
        /\ \A i \in 1 .. Len(one) : (q \o one)[Len(q) + i] = one[i]
    BY <1>0, ConcatEffect
  <2>2. 1 \in 1 .. Len(one)
    BY <1>1
  <2>3. (q \o one)[Len(q) + 1] = one[1]
    BY <2>1, <2>2
  <2> QED
    BY <1>1, <2>1, <2>3
<1>3. /\ Append(q, m) \in Seq(Messages) /\ Len(Append(q, m)) = Len(q) + 1
      /\ \A i \in 1 .. Len(q) : Append(q, m)[i] = q[i]
      /\ Append(q, m)[Len(q) + 1] = m
  BY AppendEffect
<1> DEFINE a == Append(q, m)
           b == q \o one
<1> HIDE DEF a, b
<1>4. a \in Seq(Messages) /\ b \in Seq(Messages) /\ Len(a) = Len(b)
  BY <1>2, <1>3 DEF a, b
<1>5. \A i \in 1 .. Len(a) : a[i] = b[i]
  <2>1. Len(q) \in Nat /\ Len(a) = Len(q) + 1
    BY <1>2, <1>3 DEF a
  <2>2. \A i \in 1 .. Len(a) : i \in 1 .. Len(q) \/ i = Len(q) + 1
    BY <2>1
  <2> QED
    BY <1>2, <1>3, <2>2 DEF a, b
<1>6. a = b
  BY <1>4, <1>5, SeqEqual
<1>7. (q \o one) \o t = q \o (one \o t)
  BY <1>1, ConcatAssociative
<1> QED
  BY <1>6, <1>7 DEF a, b, one

\* safeSend() to c: a message less to send, a message more under way.
LEMMA SentGrows ==
  ASSUME ChatInvariant, ListGoesAlone, NEW c \in Clients,
         todo # << >>, todo' = Tail(todo), todo[1].op = "send",
         todo[1].fd = fd[c], sock[c] = "open", UNCHANGED <<sock, fd>>,
         toClient'[c] = Append(toClient[c], todo[1].msg)
  PROVE  Grows(c)
<1> DEFINE m == todo[1].msg
           t == IF AllFor(c)' THEN Msgs(todo') ELSE << >>
<1>1. TypeOK /\ todo \in Seq(Todos) /\ toClient[c] \in Seq(Messages)
  BY DEF ChatInvariant, TypeOK, ServerTypeOK, NetTypeOK, Todos
<1>2. /\ Len(todo) \in Nat \ {0} /\ todo[1] \in Todos /\ todo' \in Seq(Todos)
      /\ Len(todo') = Len(todo) - 1 /\ 1 \in DOMAIN todo
      /\ DOMAIN todo' = 1 .. Len(todo')
      /\ \A i \in DOMAIN todo' : i + 1 \in DOMAIN todo /\ todo'[i] = todo[i + 1]
  BY TodoShifts
<1>3. m \in Messages
  BY <1>2 DEF Todos
<1>4. /\ Msgs(todo') \in Seq(Messages) /\ Len(Msgs(todo')) = Len(todo')
      /\ DOMAIN Msgs(todo') = DOMAIN todo'
      /\ \A i \in DOMAIN todo' : Msgs(todo')[i] = todo'[i].msg
  BY <1>2, MsgsShape
<1>5. Rest(c)' = t /\ t \in Seq(Messages)
  BY <1>4, EmptySeq DEF Rest, Msgs
<1> HIDE DEF t, m
<1>6. /\ << m >> \in Seq(Messages) /\ Len(<< m >>) = 1 /\ << m >>[1] = m
      /\ << m >> \o t \in Seq(Messages)
      /\ Underway(c)' = toClient[c] \o (<< m >> \o t)
  <2>1. << m >> \in Seq(Messages) /\ Len(<< m >>) = 1 /\ << m >>[1] = m
    BY <1>3
  <2>2. Append(toClient[c], m) \o t = toClient[c] \o (<< m >> \o t)
    BY <1>1, <1>3, <1>5, AppendInFront
  <2>3. << m >> \o t \in Seq(Messages)
    BY <1>5, <2>1, ConcatProperties
  <2>4. Underway(c)' = Append(toClient[c], m) \o t
    BY <1>5 DEF Underway, m
  <2> QED
    BY <2>1, <2>2, <2>3, <2>4
<1>7. /\ Len(t) \in Nat /\ Len(<< m >> \o t) = 1 + Len(t)
      /\ DOMAIN t = 1 .. Len(t) /\ DOMAIN (<< m >> \o t) = 1 .. 1 + Len(t)
      /\ (<< m >> \o t)[1] = m
      /\ \A i \in 1 .. Len(t) : (<< m >> \o t)[1 + i] = t[i]
  BY <1>5, <1>6, ConcatEffect
<1>8. CASE AllFor(c)
  <2>1. AllFor(c)' /\ t = Msgs(todo')
    BY <1>8, AloneShifts DEF t
  <2>2. /\ Msgs(todo) \in Seq(Messages) /\ Len(Msgs(todo)) = Len(todo)
        /\ DOMAIN Msgs(todo) = DOMAIN todo /\ DOMAIN todo = 1 .. Len(todo)
        /\ \A i \in DOMAIN todo : Msgs(todo)[i] = todo[i].msg
    BY <1>1, MsgsShape
  <2>3. Len(<< m >> \o t) = Len(Msgs(todo))
    <3>1. Len(t) = Len(todo')
      BY <1>4, <2>1
    <3>2. Len(<< m >> \o t) = 1 + (Len(todo) - 1)
      BY <1>2, <1>7, <3>1
    <3>3. 1 + (Len(todo) - 1) = Len(todo)
      BY <1>2
    <3> QED
      BY <2>2, <3>2, <3>3
  <2>4. ASSUME NEW i \in 1 .. Len(Msgs(todo)) PROVE (<< m >> \o t)[i] = Msgs(todo)[i]
    <3>1. CASE i = 1
      BY <1>2, <1>7, <2>2, <3>1 DEF m
    <3>2. CASE i # 1
      <4>1. i - 1 \in DOMAIN todo' /\ i - 1 + 1 = i /\ 1 + (i - 1) = i /\ i - 1 \in 1 .. Len(t)
        BY <1>2, <1>4, <2>1, <2>2, <2>4, <3>2
      <4>2. (<< m >> \o t)[i] = todo'[i - 1].msg
        BY <1>4, <1>7, <2>1, <4>1
      <4> QED
        BY <1>2, <2>2, <4>1, <4>2
    <3> QED
      BY <3>1, <3>2
  <2>5. << m >> \o t = Msgs(todo)
    BY <1>6, <2>2, <2>3, <2>4, SeqEqual
  <2>6. Underway(c)' = Underway(c)
    BY <1>6, <1>8, <2>5, RestShape DEF Underway
  <2> QED
    BY <1>1, <2>6, NoGrowth
<1>9. CASE ~ AllFor(c)
  <2>1. Underway(c) = toClient[c]
    BY <1>1, <1>9, UnderwayShape
  <2>2. /\ AllFor(c)' => \A i \in DOMAIN todo' : todo'[i].msg.flag # 11
        /\ m.flag # 11
    BY <1>9, AloneShifts DEF m
  <2>3. \A i \in DOMAIN t : t[i].flag # 11
    <3>1. CASE AllFor(c)'
      <4>1. t = Msgs(todo')
        BY <3>1 DEF t
      <4>2. \A i \in DOMAIN t : i \in DOMAIN todo' /\ t[i] = todo'[i].msg
        BY <1>4, <4>1
      <4>3. \A i \in DOMAIN todo' : todo'[i].msg.flag # 11
        BY <2>2, <3>1
      <4> QED
        BY <4>2, <4>3
    <3>2. CASE ~ AllFor(c)'
      <4>1. t = << >>
        BY <3>2 DEF t
      <4> QED
        BY <4>1
    <3> QED
      BY <3>1, <3>2
  <2>4. ASSUME NEW i \in DOMAIN (<< m >> \o t) PROVE (<< m >> \o t)[i].flag # 11
    <3>1. i = 1 \/ (i - 1 \in 1 .. Len(t) /\ 1 + (i - 1) = i)
      BY <1>7, <2>4
    <3> QED
      BY <1>7, <2>2, <2>3, <3>1
  <2> QED
    BY <1>6, <2>1, <2>4, PlainGrowth
<1> QED
  BY <1>8, <1>9

\* A message is sent or lost, or the sender of a %B passed over.
LEMMA SendLists ==
  ASSUME ChatInvariant, ListReplyIsWhole, UNCHANGED clientVars,
         SkipSender \/ \E c \in Clients : SafeSend(c) \/ SafeSendLost(c)
  PROVE  ListReplyIsWhole'
<1>1. /\ serverUp /\ todo # << >> /\ todo' = Tail(todo) /\ Next1 = todo[1]
      /\ UNCHANGED <<sock, fd, mode>>
  <2>1. /\ serverUp /\ todo # << >> /\ todo' = Tail(todo)
        /\ UNCHANGED <<sock, fd, mode>>
    BY DEF SkipSender, SafeSend, SafeSendLost, Doing, SendDone, netVars, clientVars
  <2> QED
    BY <2>1, TodoShifts
<1>2. TypeOK /\ todo' \in Seq(Todos) /\ 1 \in DOMAIN todo
  BY <1>1, TodoShifts DEF ChatInvariant
<1>3. ListGoesAlone
  BY <1>1 DEF ListReplyIsWhole
<1>4. /\ ListGoesAlone'
      /\ \A c \in Clients : ~ AllFor(c) /\ AllFor(c)' =>
           \A i \in DOMAIN todo' : todo'[i].msg.flag # 11
  BY <1>1, <1>3, AloneShifts
<1>5. ASSUME NEW d \in Clients, ~ AllFor(d), toClient'[d] = toClient[d]
      PROVE  Grows(d)
  <2>1. Underway(d) = toClient[d]
    BY <1>2, <1>5, UnderwayShape
  <2> QED
    BY <1>2, <1>4, <1>5, <2>1, RestGrowth
<1>6. ASSUME NEW d \in Clients, mode[d] # "gone" PROVE Grows(d)
  <2>1. CASE SkipSender
    <3>1. todo[1].op # "send" /\ UNCHANGED toClient
      BY <1>1, <2>1 DEF SkipSender, Doing, netVars
    <3>2. ~ AllFor(d)
      BY <1>2, <3>1 DEF AllFor
    <3> QED
      BY <1>5, <3>1, <3>2
  <2>2. ASSUME NEW c \in Clients, SafeSend(c) \/ SafeSendLost(c)
        PROVE  Grows(d)
    <3>1. todo[1].op = "send" /\ todo[1].fd = fd[c] /\ sock[c] = "open"
      BY <1>1, <2>2 DEF SafeSend, SafeSendLost, Doing
    <3>2. CASE SafeSend(c) /\ c = d
      <4>1. toClient'[c] = Append(toClient[c], todo[1].msg)
        BY <1>1, <1>2, <3>2 DEF SafeSend, TypeOK, NetTypeOK
      <4> QED
        BY <1>1, <1>3, <3>1, <3>2, <4>1, SentGrows
    <3>3. CASE SafeSendLost(c) /\ c = d
      BY <1>6, <3>3 DEF SafeSendLost, ChatInvariant, ModeInv
    <3>4. CASE c # d
      <4>1. toClient'[d] = toClient[d]
        BY <1>2, <2>2, <3>4 DEF SafeSend, SafeSendLost, TypeOK, NetTypeOK
      <4>2. ~ AllFor(d)
        BY <1>2, <3>1, <3>4 DEF AllFor, ChatInvariant, ConnInv
      <4> QED
        BY <1>5, <4>1, <4>2
    <3> QED
      BY <2>2, <3>2, <3>3, <3>4
  <2> QED
    BY <2>1, <2>2
<1> QED
  BY <1>1, <1>2, <1>4, <1>6, GrowthKeeps

\* Only sendL() sends the messages of a list.
LEMMA OtherAnswers ==
  ASSUME ChatInvariant, NEW c \in Clients, Takes(c), NEW m \in Messages,
         m.flag # 10, packetResponse(c, m)
  PROVE  \A i \in DOMAIN todo' : todo'[i].op = "send" => todo'[i].msg.flag \notin {11, 12, 13}
<1>1. \A f \in {2, 3, 9, 13} : Plain(f).flag = f
  BY DEF Plain
<1>2. \A f, h : Named(f, h).flag = f
  BY DEF Named, Plain
<1>3. CASE m.flag = 1 /\ checkClient(c, m)
  <2>1. \/ todo' = << Send(fd[c], Plain(2)) >>
        \/ todo' = << Send(fd[c], Plain(3)), CloseIt(fd[c]) >>
    BY <1>3 DEF checkClient
  <2>2. \A i \in DOMAIN todo' : \/ todo'[i] = Send(fd[c], Plain(2))
                               \/ todo'[i] = Send(fd[c], Plain(3))
                               \/ todo'[i] = CloseIt(fd[c])
    BY <2>1
  <2>3. CloseIt(fd[c]).op = "close"
    BY DEF CloseIt
  <2> QED
    BY <1>1, <2>2, <2>3, SendShape
<1>4. CASE m.flag = 4 /\ sendB(c, m)
  <2>1. ASSUME NEW i \in DOMAIN todo'
        PROVE  \/ \E f, h : todo'[i] = Send(f, Named(7, h))
               \/ todo'[i] = Skip
               \/ \E f : todo'[i] = Send(f, m)
    <3>1. i \in DOMAIN list /\ todo'[i] =
            CASE list[i].socketNum = 0 ->
                   sendFlag7(findSocket(list, m.name), list[i].handle)
              [] list[i].socketNum = findSocket(list, m.name) -> Skip
              [] OTHER -> Send(list[i].socketNum, m)
      BY <1>4, <2>1 DEF sendB
    <3> QED
      BY <3>1 DEF sendFlag7
  <2>2. Skip.op = "skip"
    BY DEF Skip
  <2> QED
    BY <1>2, <1>4, <2>1, <2>2, SendShape
<1>5. CASE m.flag = 5 /\ sendM(c, m)
  <2>1. ASSUME NEW i \in DOMAIN todo'
        PROVE  \/ \E f, h : todo'[i] = Send(f, Named(7, h))
               \/ \E f : todo'[i] = Send(f, m)
    BY <1>5, <2>1 DEF sendM, sendFlag7
  <2> QED
    BY <1>2, <1>5, <2>1, SendShape
<1>6. CASE m.flag = 8 /\ sendE(c, m)
  <2>1. \A i \in DOMAIN todo' : \/ todo'[i] = Send(fd[c], Plain(9))
                               \/ todo'[i] = RemoveIt(fd[c])
    BY <1>6 DEF sendE
  <2>2. RemoveIt(fd[c]).op = "remove"
    BY DEF RemoveIt
  <2> QED
    BY <1>1, <2>1, <2>2, SendShape
<1>7. CASE UNCHANGED todo
  <2>1. DOMAIN todo' = {}
    BY <1>7 DEF Takes
  <2> QED
    BY <2>1
<1> QED
  BY <1>3, <1>4, <1>5, <1>6, <1>7 DEF packetResponse

\* What sendL() leaves to be sent.
LEMMA ListAnswer ==
  ASSUME ChatInvariant, NEW c \in Clients, Takes(c), NEW m \in Messages, sendL(c, m),
         todo' \in Seq(Todos)
  PROVE  /\ Len(list) \in Nat /\ Len(todo') = Len(list) + 2
         /\ DOMAIN todo' = 1 .. Len(list) + 2
         /\ todo'[1] = Send(fd[c], [Plain(11) EXCEPT !.count = Len(list)])
         /\ \A i \in 1 .. Len(list) :
              todo'[i + 1] = Send(fd[c], Named(12, list[i].handle))
         /\ todo'[Len(list) + 2] = Send(fd[c], Plain(13))
<1> DEFINE S == {Send(fd[c], x) : x \in Messages}
           a == Send(fd[c], [Plain(11) EXCEPT !.count = Len(list)])
           z == Send(fd[c], Plain(13))
           first == << a >>
           rest  == [i \in DOMAIN list |-> Send(fd[c], Named(12, list[i].handle))]
           last  == << z >>
<1>1. /\ DOMAIN list = 1 .. Len(list) /\ Len(list) \in Nat
      /\ \A i \in 1 .. Len(list) : list[i].handle \in Handles
  BY Domains DEF ChatInvariant, Nodes
<1>2. todo' = (first \o rest) \o last
  BY DEF sendL, findListLength
<1>3. a \in S /\ z \in S /\ \A h \in Handles : Send(fd[c], Named(12, h)) \in S
  <2>1. 11 \in Flags /\ 12 \in Flags /\ 13 \in Flags
    BY DEF Flags
  <2>2. [Plain(11) EXCEPT !.count = Len(list)] \in Messages
    <3>1. NoHandle \in Handles \cup {NoHandle}
      OBVIOUS
    <3> QED
      BY <1>1, <2>1, <3>1, MessageShapes
  <2>3. Plain(13) \in Messages
    BY <2>1, PlainShapes
  <2>4. \A h \in Handles : Named(12, h) \in Messages
    BY <2>1, MessageShapes
  <2> QED
    BY <2>2, <2>3, <2>4
<1> HIDE DEF S, a, z
<1>4. rest \in [1 .. Len(list) -> S]
  BY <1>1, <1>3
<1>5. first \in Seq(S) /\ last \in Seq(S) /\ Len(first) = 1 /\ Len(last) = 1
      /\ first[1] = a /\ last[1] = z
  BY <1>3
<1>6. \A i \in 1 .. Len(list) : rest[i] = Send(fd[c], Named(12, list[i].handle))
  BY <1>1
<1> HIDE DEF first, rest, last
<1>7. rest \in Seq(S) /\ Len(rest) = Len(list)
  BY <1>1, <1>4, FunctionIsSeq
<1>8. first \in Seq(S) /\ last \in Seq(S) /\ rest \in Seq(S)
  BY <1>5, <1>7
<1> DEFINE fr == first \o rest
<1>9. /\ fr \in Seq(S) /\ Len(fr) = Len(first) + Len(rest)
      /\ \A i \in 1 .. Len(first) : fr[i] = first[i]
      /\ \A i \in 1 .. Len(rest) : fr[Len(first) + i] = rest[i]
  BY <1>8, ConcatEffect
<1>10. fr \in Seq(S)
  BY <1>9
<1> HIDE DEF fr
<1>11. /\ Len(todo') = Len(fr) + Len(last)
       /\ DOMAIN todo' = 1 .. Len(fr) + Len(last)
       /\ \A i \in 1 .. Len(fr) : todo'[i] = fr[i]
       /\ \A i \in 1 .. Len(last) : todo'[Len(fr) + i] = last[i]
  <2>1. /\ Len(fr \o last) = Len(fr) + Len(last)
        /\ DOMAIN (fr \o last) = 1 .. Len(fr) + Len(last)
        /\ \A i \in 1 .. Len(fr) : (fr \o last)[i] = fr[i]
        /\ \A i \in 1 .. Len(last) : (fr \o last)[Len(fr) + i] = last[i]
    BY <1>8, <1>10, ConcatEffect
  <2>2. todo' = fr \o last
    BY <1>2 DEF fr
  <2> QED
    BY <2>1, <2>2
<1>12. Len(fr) = Len(list) + 1 /\ Len(fr) + Len(last) = Len(list) + 2
  BY <1>1, <1>5, <1>7, <1>9
<1>13. todo'[1] = a
  <2>1. 1 \in 1 .. Len(first) /\ 1 \in 1 .. Len(fr)
    BY <1>1, <1>5, <1>12
  <2> QED
    BY <1>5, <1>9, <1>11, <2>1
<1>14. ASSUME NEW i \in 1 .. Len(list)
       PROVE  todo'[i + 1] = Send(fd[c], Named(12, list[i].handle))
  <2>1. i \in 1 .. Len(rest) /\ Len(first) + i = i + 1 /\ i + 1 \in 1 .. Len(fr)
    BY <1>1, <1>5, <1>7, <1>12
  <2>2. fr[i + 1] = rest[i]
    BY <1>9, <2>1
  <2> QED
    BY <1>6, <1>11, <2>1, <2>2
<1>15. todo'[Len(list) + 2] = z
  <2>1. 1 \in 1 .. Len(last) /\ Len(fr) + 1 = Len(list) + 2
    BY <1>1, <1>5, <1>12
  <2> QED
    BY <1>5, <1>11, <2>1
<1> QED
  BY <1>1, <1>11, <1>12, <1>13, <1>14, <1>15 DEF a, z

\* Then a whole list is under way to c.
LEMMA ListGrows ==
  ASSUME ChatInvariant, NEW c \in Clients, Takes(c), NEW m \in Messages, sendL(c, m),
         todo' \in Seq(Todos)
  PROVE  AllFor(c)' /\ Grows(c)
<1> DEFINE n == Len(list)
           t == Msgs(todo')
           q == toClient[c]
           u == q \o t
<1>1. /\ n \in Nat /\ Len(todo') = n + 2 /\ DOMAIN todo' = 1 .. n + 2
      /\ todo'[1] = Send(fd[c], [Plain(11) EXCEPT !.count = n])
      /\ \A i \in 1 .. n : todo'[i + 1] = Send(fd[c], Named(12, list[i].handle))
      /\ todo'[n + 2] = Send(fd[c], Plain(13))
  BY ListAnswer
<1>2. ASSUME NEW i \in 1 .. n + 2
      PROVE  i = 1 \/ (i - 1 \in 1 .. n /\ i - 1 + 1 = i) \/ i = n + 2
  BY <1>1, <1>2
<1>3. AllFor(c)'
  <2>1. \A i \in DOMAIN todo' : \E x : todo'[i] = Send(fd[c], x)
    BY <1>1, <1>2
  <2>2. sock'[c] = "open" /\ fd'[c] = fd[c]
    BY DEF Takes
  <2> QED
    BY <2>1, <2>2, SendShape DEF AllFor
<1>4. /\ t \in Seq(Messages) /\ Len(t) = n + 2 /\ DOMAIN t = 1 .. n + 2
      /\ \A i \in 1 .. n + 2 : t[i] = todo'[i].msg
  BY <1>1, MsgsShape
<1>5. /\ t[1].flag = 11 /\ t[1].count = n
      /\ \A i \in 1 .. n : t[i + 1] = Named(12, list[i].handle)
      /\ t[n + 2].flag = 13
  <2>1. /\ [Plain(11) EXCEPT !.count = n].flag = 11
        /\ [Plain(11) EXCEPT !.count = n].count = n
        /\ Plain(13).flag = 13
    BY DEF Plain
  <2>2. 1 \in 1 .. n + 2 /\ n + 2 \in 1 .. n + 2 /\ \A i \in 1 .. n : i + 1 \in 1 .. n + 2
    BY <1>1
  <2>3. /\ t[1] = [Plain(11) EXCEPT !.count = n]
        /\ t[n + 2] = Plain(13)
        /\ \A i \in 1 .. n : t[i + 1] = Named(12, list[i].handle)
    <3>1. /\ todo'[1].msg = [Plain(11) EXCEPT !.count = n]
          /\ todo'[n + 2].msg = Plain(13)
          /\ \A i \in 1 .. n : todo'[i + 1].msg = Named(12, list[i].handle)
      BY <1>1, SendShape
    <3>2. /\ t[1] = todo'[1].msg /\ t[n + 2] = todo'[n + 2].msg
          /\ \A i \in 1 .. n : t[i + 1] = todo'[i + 1].msg
      BY <1>4, <2>2
    <3> HIDE DEF n, t
    <3> QED
      BY <3>1, <3>2
  <2> QED
    BY <2>1, <2>3
<1>6. \A i \in 1 .. n : t[i + 1].flag = 12 /\ t[i + 1].name = list[i].handle
  BY <1>5 DEF Named, Plain
<1>7. \A i, j \in 1 .. n : i # j => list[i].handle # list[j].handle
  BY Domains DEF ChatInvariant, ListMatchesSockets
<1>8. q \in Seq(Messages) /\ Underway(c) = q
  BY UnderwayShape DEF ChatInvariant, Takes
<1>9. Underway(c)' = Underway(c) \o t
  <2>1. Rest(c)' = t
    BY <1>3 DEF Rest, Msgs
  <2> QED
    BY <1>8, <2>1 DEF Underway, Takes
<1> HIDE DEF n, t, q, u
<1>10. /\ Len(q) \in Nat /\ Len(u) = Len(q) + (n + 2)
       /\ \A i \in 1 .. n + 2 : u[Len(q) + i] = t[i]
  <2>1. t \in Seq(Messages) /\ q \in Seq(Messages)
    BY <1>4, <1>8
  <2>2. /\ Len(q) \in Nat /\ Len(u) = Len(q) + Len(t)
        /\ \A i \in 1 .. Len(t) : u[Len(q) + i] = t[i]
    BY <2>1, ConcatEffect DEF u
  <2> QED
    BY <1>4, <2>2
<1>11. ASSUME NEW i \in DOMAIN t, t[i].flag = 11
       PROVE  i = 1
  <2>1. i = 1 \/ (i - 1 \in 1 .. n /\ i - 1 + 1 = i) \/ i = n + 2
    BY <1>2, <1>4, <1>11
  <2> QED
    BY <1>5, <1>6, <1>11, <2>1
<1>12. IsListAt(u, Len(q) + 1)
  <2> DEFINE k == Len(q) + 1
  <2>1. u[k].count = n
    <3>1. 1 \in 1 .. n + 2
      BY <1>1 DEF n
    <3> QED
      BY <1>5, <1>10, <3>1
  <2>2. n \in Nat /\ k \in Nat /\ k + n + 1 <= Len(u)
    BY <1>1, <1>10 DEF n
  <2>3. ASSUME NEW j \in k + 1 .. k + n
        PROVE  /\ j - k \in 1 .. n /\ u[j] = t[j - k + 1]
    <3>1. j - k \in 1 .. n /\ j - k + 1 \in 1 .. n + 2 /\ Len(q) + (j - k + 1) = j
      BY <1>10, <2>2, <2>3
    <3> QED
      BY <1>10, <3>1
  <2>4. u[k + n + 1].flag = 13
    <3>1. n + 2 \in 1 .. n + 2 /\ Len(q) + (n + 2) = k + n + 1
      BY <1>10, <2>2
    <3>2. u[Len(q) + (n + 2)] = t[n + 2]
      BY <1>10, <3>1
    <3> QED
      BY <1>5, <3>1, <3>2
  <2>5. \A j \in k + 1 .. k + n : u[j].flag = 12 /\ u[j].name = list[j - k].handle
    BY <1>6, <2>3
  <2>6. ASSUME NEW i \in k + 1 .. k + n, NEW j \in k + 1 .. k + n, i # j
        PROVE  u[i].name # u[j].name
    <3>1. i - k # j - k /\ i - k \in 1 .. n /\ j - k \in 1 .. n
      BY <2>2, <2>6
    <3> QED
      BY <1>7, <2>5, <3>1 DEF n
  <2> HIDE DEF k
  <2>7. IsListAt(u, k)
    BY <2>1, <2>2, <2>4, <2>5, <2>6 DEF IsListAt
  <2> QED
    BY <2>7 DEF k
<1>13. \A i \in DOMAIN t : t[i].flag = 11 => IsListAt(Underway(c) \o t, Len(Underway(c)) + i)
  BY <1>8, <1>11, <1>12 DEF u
<1> QED
  BY <1>3, <1>4, <1>9, <1>13 DEF Grows

\* recvFromClient() of a message, whatever it is.
LEMMA ReceiveLists ==
  ASSUME ChatInvariant, ChatInvariant', ListReplyIsWhole, NEW c \in Clients,
         RecvFromClient(c), UNCHANGED clientVars
  PROVE  ListReplyIsWhole'
<1>1. Takes(c) /\ packetResponse(c, Head(toServer[c]))
  BY DEF RecvFromClient, Polled, Takes
<1>2. PICK m \in Messages : m = Head(toServer[c])
  BY <1>1, TakenMessage
<1>3. packetResponse(c, m)
  BY <1>1, <1>2
<1>4. /\ serverUp /\ todo = << >> /\ sock[c] = "open"
      /\ UNCHANGED <<sock, fd, mode, toClient>>
  BY <1>1 DEF Takes, clientVars
<1>5. TypeOK /\ todo' \in Seq(Todos)
  BY DEF ChatInvariant, TypeOK, ServerTypeOK, Todos
<1>6. \A d \in Clients : Underway(d) = toClient[d]
  BY <1>4, <1>5, UnderwayShape
<1>7. CASE m.flag = 10 /\ sendL(c, m)
  <2>1. AllFor(c)' /\ Grows(c)
    BY <1>1, <1>5, <1>7, ListGrows
  <2>2. ListGoesAlone'
    BY <2>1 DEF ListGoesAlone
  <2>3. ASSUME NEW d \in Clients, d # c PROVE Grows(d)
    <3>1. ASSUME AllFor(d)', NEW i \in DOMAIN todo' PROVE FALSE
      <4>1. fd'[d] = fd'[c] /\ sock'[d] = "open" /\ sock'[c] = "open"
        BY <2>1, <3>1 DEF AllFor
      <4> QED
        BY <1>4, <2>3, <4>1 DEF ChatInvariant, ConnInv
    <3> QED
      BY <1>4, <1>5, <1>6, <3>1, RestGrowth
  <2> QED
    BY <1>4, <1>5, <2>1, <2>2, <2>3, GrowthKeeps
<1>8. CASE m.flag # 10
  <2>1. \A i \in DOMAIN todo' : todo'[i].op = "send" =>
          todo'[i].msg.flag \notin {11, 12, 13}
    BY <1>1, <1>3, <1>8, OtherAnswers
  <2>2. ListGoesAlone'
    BY <2>1 DEF ListGoesAlone
  <2>3. ASSUME NEW d \in Clients PROVE Grows(d)
    <3>1. AllFor(d)' => \A i \in DOMAIN todo' : todo'[i].msg.flag # 11
      BY <2>1 DEF AllFor
    <3> QED
      BY <1>4, <1>5, <1>6, <3>1, RestGrowth
  <2> QED
    BY <1>4, <1>5, <2>2, <2>3, GrowthKeeps
<1> QED
  BY <1>3, <1>7, <1>8 DEF packetResponse

\* The first of the messages under way is read.
LEMMA TailInFront ==
  ASSUME NEW q \in Seq(Messages), NEW t \in Seq(Messages), q # << >>
  PROVE  /\ Tail(q) \o t = Tail(q \o t) /\ q \o t # << >>
         /\ Head(q \o t) = Head(q)
<1> DEFINE a == Tail(q) \o t
           u == q \o t
<1>1. /\ Len(q) \in Nat \ {0} /\ Head(q) = q[1] /\ Tail(q) \in Seq(Messages)
      /\ Len(Tail(q)) = Len(q) - 1
      /\ \A i \in 1 .. Len(q) - 1 : Tail(q)[i] = q[i + 1]
  BY TailEffect
<1>2. /\ u \in Seq(Messages) /\ Len(t) \in Nat /\ Len(u) = Len(q) + Len(t)
      /\ \A i \in 1 .. Len(q) : u[i] = q[i]
      /\ \A i \in 1 .. Len(t) : u[Len(q) + i] = t[i]
  BY ConcatEffect
<1>3. Tail(q) \in Seq(Messages)
  BY <1>1
<1>4. /\ a \in Seq(Messages) /\ Len(a) = Len(Tail(q)) + Len(t)
      /\ \A i \in 1 .. Len(Tail(q)) : a[i] = Tail(q)[i]
      /\ \A i \in 1 .. Len(t) : a[Len(Tail(q)) + i] = t[i]
  BY <1>3, ConcatEffect
<1> HIDE DEF a, u
<1>5. Len(u) # 0 /\ u # << >>
  BY <1>1, <1>2, EmptySeq
<1>6. /\ Head(u) = u[1] /\ Tail(u) \in Seq(Messages) /\ Len(Tail(u)) = Len(u) - 1
      /\ \A i \in 1 .. Len(u) - 1 : Tail(u)[i] = u[i + 1]
  <2>1. u \in Seq(Messages)
    BY <1>2
  <2> QED
    BY <1>5, <2>1, TailEffect
<1>7. Head(u) = Head(q)
  <2>1. 1 \in 1 .. Len(q)
    BY <1>1
  <2> QED
    BY <1>1, <1>2, <1>6, <2>1
<1>8. Len(a) = Len(Tail(u)) /\ Len(Tail(u)) = Len(q) - 1 + Len(t)
  BY <1>1, <1>2, <1>4, <1>6
<1>9. ASSUME NEW i \in 1 .. Len(a) PROVE a[i] = Tail(u)[i]
  <2>1. Tail(u)[i] = u[i + 1]
    BY <1>2, <1>6, <1>8
  <2>2. CASE i <= Len(q) - 1
    <3>1. i \in 1 .. Len(Tail(q)) /\ i \in 1 .. Len(q) - 1 /\ i + 1 \in 1 .. Len(q)
      BY <1>1, <2>2
    <3> QED
      BY <1>1, <1>2, <1>4, <2>1, <3>1
  <2>3. CASE ~ (i <= Len(q) - 1)
    <3> DEFINE k == i - (Len(q) - 1)
    <3>1. k \in 1 .. Len(t) /\ Len(Tail(q)) + k = i /\ Len(q) + k = i + 1
      BY <1>1, <1>2, <1>8, <2>3
    <3> HIDE DEF k
    <3>2. a[Len(Tail(q)) + k] = t[k] /\ u[Len(q) + k] = t[k]
      BY <1>2, <1>4, <3>1
    <3> QED
      BY <2>1, <3>1, <3>2
  <2> QED
    BY <2>2, <2>3
<1>10. a = Tail(u)
  BY <1>4, <1>6, <1>8, <1>9, SeqEqual
<1> QED
  BY <1>5, <1>7, <1>10 DEF a, u

\* What the server has under way to d does not change by what a client does, but
\* for what that client reads.
LEMMA ClientLists ==
  ASSUME ChatInvariant, ListReplyIsWhole, NEW c \in Clients,
         ClientConnects(c) \/ ClientNext(c) \/ PersonNext(c)
  PROVE  ListReplyIsWhole'
<1>1. /\ mode \in [Clients -> Modes] /\ toClient \in [Clients -> Seq(Messages)]
      /\ sock \in [Clients -> SockStates]
  BY DEF ChatInvariant, TypeOK, NetTypeOK, ClientTypeOK
<1>2. UNCHANGED <<todo, serverUp, fd>>
  BY DEF ClientConnects, ClientNext, PersonNext, ClientStep, serverVars, Connect,
         ConnectFails, ReadLine, Interrupt, HandleTooLong, Login, SendToServer, SendNothing,
         SendFails, AckFromServer, AckSaysLeave, ServerTerminated, ClientExits, LineDone,
         netVars
<1>3. \A d \in Clients : sock'[d] = "open" <=> sock[d] = "open"
  <2>1. CASE UNCHANGED sock
    BY <2>1
  <2>2. CASE Connect(c)
    BY <1>1, <2>2 DEF Connect, ChatInvariant, ModeInv, SockStates
  <2> QED
    BY <2>1, <2>2
    DEF ClientConnects, ClientNext, PersonNext, ClientStep,
         ConnectFails, ReadLine, Interrupt, HandleTooLong, Login, SendToServer, SendNothing,
         SendFails, AckFromServer, AckSaysLeave, ServerTerminated, ClientExits, LineDone,
         netVars
<1>4. \A d \in Clients : AllFor(d)' <=> AllFor(d)
  BY <1>2, <1>3 DEF AllFor
<1>5. \A d \in Clients : Rest(d)' = Rest(d)
  BY <1>2, <1>4 DEF Rest
<1>6. ListGoesAlone => ListGoesAlone'
  BY <1>2, <1>4 DEF ListGoesAlone
<1>7. \A d \in Clients \ {c} : mode'[d] = mode[d] /\ toClient'[d] = toClient[d]
  BY <1>1
  DEF ClientConnects, ClientNext, PersonNext, ClientStep, Connect,
       ConnectFails, ReadLine, Interrupt, HandleTooLong, Login, SendToServer, SendNothing,
       SendFails, AckFromServer, AckSaysLeave, ServerTerminated, ClientExits, LineDone,
       netVars
<1>8. \/ mode'[c] = "gone"
      \/ AckFromServer(c)
      \/ toClient'[c] = toClient[c] /\ mode'[c] # "list" /\ mode[c] # "gone"
      \/ toClient'[c] = toClient[c] /\ mode'[c] = mode[c]
  BY <1>1
  DEF ClientConnects, ClientNext, PersonNext, ClientStep, Connect,
       ConnectFails, ReadLine, Interrupt, HandleTooLong, Login, SendToServer, SendNothing,
       SendFails, AckSaysLeave, ServerTerminated, ClientExits, LineDone,
       netVars
<1>9. ASSUME serverUp, NEW d \in Clients, mode'[d] # "gone"
      PROVE  /\ ListsAreWhole(Underway(d)')
             /\ mode'[d] = "list" => EndsList(Underway(d)')
  <2>1. mode[d] # "gone" =>
          /\ ListsAreWhole(Underway(d))
          /\ mode[d] = "list" => EndsList(Underway(d))
    BY <1>9 DEF ListReplyIsWhole
  <2>2. CASE /\ toClient'[d] = toClient[d] /\ mode[d] # "gone"
             /\ mode'[d] = mode[d] \/ mode'[d] # "list"
    <3>1. Underway(d)' = Underway(d)
      BY <1>5, <2>2 DEF Underway
    <3> QED
      BY <2>1, <2>2, <3>1
  <2>3. CASE d = c /\ AckFromServer(c)
    <3> DEFINE q == toClient[c]
    <3>1. /\ q \in Seq(Messages) /\ q # << >> /\ toClient'[c] = Tail(q)
          /\ mode'[c] = AfterMessage(c, Head(q).flag)
          /\ mode[c] \in {"login", "list", "run"}
      BY <1>1, <2>3 DEF AckFromServer, AckWaits
    <3>2. Rest(c) \in Seq(Messages) /\ Underway(c) \in Seq(Messages)
      <4>1. todo \in Seq(Todos)
        BY DEF ChatInvariant, TypeOK, ServerTypeOK, Todos
      <4>2. Msgs(todo) \in Seq(Messages)
        BY <4>1, MsgsShape
      <4>3. Underway(c) \in Seq(Messages)
        BY UnderwayShape DEF ChatInvariant
      <4> QED
        BY <4>2, <4>3, EmptySeq, RestShape
    <3>3. /\ Underway(c)' = Tail(Underway(c)) /\ Underway(c) # << >>
          /\ Head(Underway(c)) = Head(q)
      <4>1. Underway(c)' = Tail(q) \o Rest(c) /\ Underway(c) = q \o Rest(c)
        BY <1>5, <3>1 DEF Underway
      <4> HIDE DEF q
      <4> QED
        BY <3>1, <3>2, <4>1, TailInFront
    <3>4. /\ ListsAreWhole(Underway(c))
          /\ mode[c] = "list" => EndsList(Underway(c))
      BY <2>1, <2>3, <3>1
    <3>5. /\ ListsAreWhole(Tail(Underway(c)))
          /\ Head(q).flag = 11 => EndsList(Tail(Underway(c)))
          /\ EndsList(Underway(c)) /\ Head(q).flag # 13 => EndsList(Tail(Underway(c)))
      BY <3>2, <3>3, <3>4, ListRead
    <3>6. mode'[c] = "list" =>
            Head(q).flag = 11 \/ (mode[c] = "list" /\ Head(q).flag # 13)
      BY <3>1 DEF AfterMessage
    <3> QED
      BY <2>3, <3>3, <3>4, <3>5, <3>6
  <2> QED
    BY <1>1, <1>7, <1>8, <1>9, <2>2, <2>3
<1> QED
  BY <1>2, <1>6, <1>9 DEF ListReplyIsWhole

LEMMA ListStart == Init => ListReplyIsWhole
<1> SUFFICES ASSUME Init PROVE ListReplyIsWhole
  OBVIOUS
<1>1. TypeOK /\ todo = << >>
  BY ChatStart DEF ChatInvariant, Init, ServerInit
<1>2. ListGoesAlone
  BY <1>1 DEF ListGoesAlone
<1>3. ASSUME NEW c \in Clients
      PROVE  ListsAreWhole(Underway(c)) /\ mode[c] # "list"
  <2>1. toClient[c] = << >> /\ mode[c] = "start"
    BY DEF Init, NetInit, ClientInit
  <2>2. Underway(c) = << >>
    BY <1>1, <2>1, UnderwayShape
  <2> QED
    BY <2>1, <2>2 DEF ListsAreWhole
<1> QED
  BY <1>2, <1>3 DEF ListReplyIsWhole

LEMMA ListStep ==
  ASSUME ChatInvariant, ChatInvariant', ListReplyIsWhole, [Next]_vars
  PROVE  ListReplyIsWhole'
<1>1. CASE Idle \/ UNCHANGED vars \/ (StdinHangsUp /\ UNCHANGED clientVars)
  <2>1. UNCHANGED <<serverUp, todo, sock, fd, toClient, mode>>
    BY <1>1 DEF Idle, StdinHangsUp, vars, serverVars, clientVars, netVars
  <2>2. \A c \in Clients : AllFor(c)' = AllFor(c) /\ Underway(c)' = Underway(c)
    BY <2>1 DEF AllFor, Underway, Rest
  <2> QED
    BY <2>1, <2>2 DEF ListReplyIsWhole, ListGoesAlone
<1>2. CASE \E c \in Clients : ClientConnects(c) \/ ClientNext(c) \/ PersonNext(c)
  BY <1>2, ClientLists
<1>3. CASE ServerNext
  <2>1. ServerStep /\ UNCHANGED clientVars
    BY <1>3 DEF ServerNext
  <2>2. CASE AddNewClient
    BY <2>1, <2>2, QuietLists DEF AddNewClient, Polled, clientVars
  <2>3. CASE SkipSender \/ \E c \in Clients : SafeSend(c) \/ SafeSendLost(c)
    BY <2>1, <2>3, SendLists
  <2>4. CASE \/ RecvFromStdin \/ SafeSendFails
             \/ \E c \in Clients : RecvError(c) \/ RecvOverruns(c)
    <3>1. ~ serverUp'
      BY <2>4, Exits DEF ServerExits
    <3> QED
      BY <3>1 DEF ListReplyIsWhole
  <2>5. ASSUME NEW c \in Clients, RecvFromClient(c)
        PROVE  ListReplyIsWhole'
    BY <2>1, <2>5, ReceiveLists
  <2>6. ASSUME NEW c \in Clients, RecvEof(c) \/ CloseRefused(c) \/ CloseLeaver(c)
        PROVE  ListReplyIsWhole'
    <3>1. Departs(c)
      BY <2>6, Departures
    <3>2. /\ serverUp /\ todo' = << >> /\ UNCHANGED <<toClient, mode>>
          /\ todo = << >> \/ todo[1].op \in {"close", "remove"}
      BY <2>1, <3>1 DEF Departs, removeClient, clientVars
    <3> QED
      BY <3>2, QuietLists
  <2> QED
    BY <2>1, <2>2, <2>3, <2>4, <2>5, <2>6 DEF ServerStep
<1> QED
  BY <1>1, <1>2, <1>3 DEF Next

\* The answer to a %L: however slowly the client reads and whatever the others
\* do meanwhile, a FLAG_11 is followed by as many different handles as it says
\* and by a FLAG_13, and the loop of runClient() that reads them finds its end.
THEOREM ListsArriveWhole == Spec => []ListReplyIsWhole
<1>1. ChatInvariant /\ ChatInvariant' /\ ListReplyIsWhole /\ [Next]_vars
        => ListReplyIsWhole'
  BY ListStep
<1> QED
  BY <1>1, ListStart, ChatIsConsistent, PTL DEF Spec
=============================================================================
