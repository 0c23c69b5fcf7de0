------------------------------ MODULE ChatProofs ------------------------------
(***************************************************************************)
(* The chat: what its sequences, its list and its messages are, and that no  *)
(* step of a client, or of the person at it, breaks the inductive invariant. *)
(***************************************************************************)
EXTENDS ChatInv, DataLemmas, FiniteSetTheorems

Nodes == [handle : Handles, socketNum : Fds]

Todos == [op : {"send", "skip", "close", "remove"},
          fd : {0} \cup Fds, msg : Messages]

-----------------------------------------------------------------------------
(* Sequences and numbers. *)

LEMMA FdsAreNumbers == \A f \in Fds : f \in Nat /\ f > ListenFd /\ f # 0
<1>1. Cardinality(Clients) \in Nat
  BY ChatNetAssumption, FS_CardinalityType
<1> QED
  BY <1>1 DEF Fds, ListenFd

LEMMA FunctionIsSeq ==
  ASSUME NEW S, NEW n \in Nat, NEW f \in [1 .. n -> S]
  PROVE  f \in Seq(S) /\ Len(f) = n
<1>1. f \in Seq(S)
  BY SeqDef
<1>2. DOMAIN f = 1 .. Len(f) /\ Len(f) \in Nat
  BY <1>1, LenProperties
<1> QED
  BY <1>1, <1>2

\* A message less, or a message more, in a queue.
LEMMA TailEffect ==
  ASSUME NEW S, NEW q \in Seq(S), q # << >>
  PROVE  /\ Len(q) \in Nat \ {0} /\ Head(q) = q[1] /\ q[1] \in S
         /\ Tail(q) \in Seq(S)
         /\ Len(Tail(q)) = Len(q) - 1
         /\ DOMAIN Tail(q) = 1 .. Len(q) - 1
         /\ \A i \in 1 .. Len(q) - 1 : Tail(q)[i] = q[i + 1]
<1>1. /\ Len(q) \in Nat \ {0}
      /\ Tail(q) \in Seq(S)
      /\ Len(Tail(q)) = Len(q) - 1
      /\ \A i \in 1 .. Len(Tail(q)) : Tail(q)[i] = q[i + 1]
      /\ DOMAIN Tail(q) = 1 .. Len(Tail(q))
  BY EmptySeq, HeadTailProperties, LenProperties
<1>2. q[1] \in S /\ Head(q) = q[1]
  BY <1>1, ElementOfSeq
<1> QED
  BY <1>1, <1>2

LEMMA AppendEffect ==
  ASSUME NEW S, NEW q \in Seq(S), NEW m \in S
  PROVE  /\ Len(q) \in Nat
         /\ Append(q, m) \in Seq(S)
         /\ Len(Append(q, m)) = Len(q) + 1
         /\ DOMAIN Append(q, m) = 1 .. Len(q) + 1
         /\ \A i \in 1 .. Len(q) : Append(q, m)[i] = q[i]
         /\ Append(q, m)[Len(q) + 1] = m
         /\ Append(q, m) # << >>
<1>1. /\ Len(q) \in Nat
      /\ Append(q, m) \in Seq(S)
      /\ Len(Append(q, m)) = Len(q) + 1
      /\ DOMAIN Append(q, m) = 1 .. Len(Append(q, m))
      /\ \A i \in 1 .. Len(q) : Append(q, m)[i] = q[i]
      /\ Append(q, m)[Len(q) + 1] = m
  BY AppendProperties, LenProperties
<1> QED
  BY <1>1, EmptySeq

\* Every queue is counted from 1.
LEMMA Domains ==
  ASSUME TypeOK
  PROVE  /\ DOMAIN list = 1 .. Len(list) /\ Len(list) \in Nat
         /\ \A i \in 1 .. Len(list) : list[i] \in Nodes
         /\ DOMAIN todo = 1 .. Len(todo) /\ Len(todo) \in Nat
         /\ \A i \in 1 .. Len(todo) : todo[i] \in Todos
         /\ \A c \in Clients :
              /\ DOMAIN toServer[c] = 1 .. Len(toServer[c]) /\ Len(toServer[c]) \in Nat
              /\ DOMAIN toClient[c] = 1 .. Len(toClient[c]) /\ Len(toClient[c]) \in Nat
              /\ \A i \in 1 .. Len(toServer[c]) : toServer[c][i] \in Messages
              /\ \A i \in 1 .. Len(toClient[c]) : toClient[c][i] \in Messages
<1> USE DEF TypeOK, NetTypeOK, ServerTypeOK, Nodes, Todos
<1>1. list \in Seq(Nodes) /\ todo \in Seq(Todos)
  OBVIOUS
<1>2. \A c \in Clients : toServer[c] \in Seq(Messages) /\ toClient[c] \in Seq(Messages)
  OBVIOUS
<1> QED
  BY <1>1, <1>2, LenProperties, ElementOfSeq

-----------------------------------------------------------------------------
(* The list, and what is looked up in it. *)

NoTwins(l) ==
  \A i, j \in DOMAIN l :
    i # j => l[i].handle # l[j].handle /\ l[i].socketNum # l[j].socketNum

LEMMA FindSocketEffect ==
  ASSUME NEW l \in Seq(Nodes), NoTwins(l), NEW h
  PROVE  \/ available(l, h) /\ findSocket(l, h) = 0
         \/ \E i \in DOMAIN l : l[i].handle = h /\ findSocket(l, h) = l[i].socketNum
<1>1. CASE available(l, h)
  BY <1>1 DEF findSocket
<1>2. CASE ~ available(l, h)
  <2>1. PICK i \in DOMAIN l : l[i].handle = h
    BY <1>2 DEF available
  <2>2. DOMAIN l = 1 .. Len(l) /\ Len(l) \in Nat
    BY LenProperties
  <2>3. IsFirstNamed(l, h, i)
    BY <2>1, <2>2 DEF IsFirstNamed, NoTwins
  <2>4. (CHOOSE k \in DOMAIN l : IsFirstNamed(l, h, k)) \in DOMAIN l
        /\ IsFirstNamed(l, h, CHOOSE k \in DOMAIN l : IsFirstNamed(l, h, k))
    BY <2>1, <2>3
  <2> QED
    BY <1>2, <2>4 DEF findSocket, IsFirstNamed
<1> QED
  BY <1>1, <1>2

\* r is l without its node on descriptor f.
IsWithout(l, r, f) ==
  /\ r \in Seq(Nodes) /\ NoTwins(r)
  /\ \A i \in DOMAIN r : r[i].socketNum # f /\ \E j \in DOMAIN l : r[i] = l[j]
  /\ \A j \in DOMAIN l : l[j].socketNum # f => \E i \in DOMAIN r : r[i] = l[j]

LEMMA RemoveNodeEffect ==
  ASSUME NEW l \in Seq(Nodes), NoTwins(l), NEW f
  PROVE  IsWithout(l, removeNode(l, findNode(l, f)), f)
<1>0. DOMAIN l = 1 .. Len(l) /\ Len(l) \in Nat
  BY LenProperties
<1>1. CASE \A i \in DOMAIN l : l[i].socketNum # f
  BY <1>1 DEF findNode, removeNode, IsWithout
<1>2. CASE \E i \in DOMAIN l : l[i].socketNum = f
  <2>1. PICK i \in DOMAIN l : l[i].socketNum = f
    BY <1>2
  <2>2. IsFirstOn(l, f, i) /\ \A k \in DOMAIN l : IsFirstOn(l, f, k) => k = i
    BY <1>0, <2>1 DEF IsFirstOn, NoTwins
  <2>3. (CHOOSE k \in DOMAIN l : IsFirstOn(l, f, k)) = i
    BY <2>2
  <2>4. findNode(l, f) = i /\ i # 0
    BY <1>0, <2>1, <2>3 DEF findNode
  <2>5. /\ IsFirstNamed(l, l[i].handle, i)
        /\ \A k \in DOMAIN l : IsFirstNamed(l, l[i].handle, k) => k = i
    BY <1>0 DEF IsFirstNamed, NoTwins
  <2>6. (CHOOSE k \in DOMAIN l : IsFirstNamed(l, l[i].handle, k)) = i
    BY <2>5
  <2>7. removeNode(l, findNode(l, f)) = RemoveAt(l, i)
    BY <2>4, <2>6 DEF removeNode
  <2> DEFINE r == RemoveAt(l, i)
             from(j) == IF j < i THEN j ELSE j + 1
  <2>8. /\ r \in Seq(Nodes) /\ Len(r) = Len(l) - 1
        /\ \A j \in 1 .. Len(l) - 1 : r[j] = l[from(j)]
    BY <1>0, RemoveEffect
  <2>9. DOMAIN r = 1 .. Len(l) - 1
    BY <2>8, LenProperties
  <2> HIDE DEF r
  <2>10. \A j \in DOMAIN r : from(j) \in DOMAIN l /\ from(j) # i
    BY <1>0, <2>9
  <2>11. \A j, k \in DOMAIN r : j # k => from(j) # from(k)
    BY <1>0, <2>9
  <2>12. \A j \in DOMAIN l : j # i => \E k \in DOMAIN r : from(k) = j
    <3> SUFFICES ASSUME NEW j \in DOMAIN l, j # i
                 PROVE  \E k \in DOMAIN r : from(k) = j
      OBVIOUS
    <3>1. CASE j < i
      BY <1>0, <2>9, <3>1
    <3>2. CASE j > i
      <4>1. j - 1 \in DOMAIN r /\ from(j - 1) = j
        BY <1>0, <2>9, <3>2
      <4> QED
        BY <4>1
    <3> QED
      BY <1>0, <3>1, <3>2
  <2> HIDE DEF from
  <2>13. NoTwins(r)
    BY <2>8, <2>9, <2>10, <2>11 DEF NoTwins
  <2>14. \A j \in DOMAIN r : r[j].socketNum # f /\ \E k \in DOMAIN l : r[j] = l[k]
    BY <2>1, <2>8, <2>9, <2>10 DEF NoTwins
  <2>15. \A j \in DOMAIN l : l[j].socketNum # f => \E k \in DOMAIN r : r[k] = l[j]
    BY <2>1, <2>8, <2>9, <2>12
  <2>16. IsWithout(l, r, f)
    BY <2>8, <2>13, <2>14, <2>15 DEF IsWithout
  <2> QED
    BY <2>7, <2>16 DEF r
<1> QED
  BY <1>1, <1>2

\* A node whose handle and descriptor are new goes in front.
LEMMA AddNodeEffect ==
  ASSUME NEW l \in Seq(Nodes), NoTwins(l), NEW node \in Nodes,
         available(l, node.handle), \A i \in DOMAIN l : l[i].socketNum # node.socketNum,
         NEW r, r = addNode(l, node)
  PROVE  /\ r \in Seq(Nodes) /\ NoTwins(r)
         /\ \A i \in DOMAIN r : r[i] = node \/ \E j \in DOMAIN l : r[i] = l[j]
         /\ \E i \in DOMAIN r : r[i] = node
         /\ \A j \in DOMAIN l : \E i \in DOMAIN r : r[i] = l[j]
<1>0. r = << node >> \o l
  BY DEF addNode
<1>1. /\ << node >> \in Seq(Nodes) /\ Len(<< node >>) = 1
      /\ << node >>[1] = node
  OBVIOUS
<1>2. /\ r \in Seq(Nodes) /\ Len(r) = 1 + Len(l)
      /\ \A i \in 1 .. 1 + Len(l) : r[i] = IF i <= 1 THEN << node >>[i] ELSE l[i - 1]
  BY <1>0, <1>1, ConcatProperties
<1>3. /\ DOMAIN r = 1 .. 1 + Len(l) /\ DOMAIN l = 1 .. Len(l) /\ Len(l) \in Nat
  BY <1>2, LenProperties
<1>4. r[1] = node /\ 1 \in DOMAIN r
  BY <1>1, <1>2, <1>3
<1>5. \A i \in DOMAIN r : i # 1 => i - 1 \in DOMAIN l /\ r[i] = l[i - 1]
  BY <1>2, <1>3
<1>6. \A j \in DOMAIN l : j + 1 \in DOMAIN r /\ r[j + 1] = l[j]
  BY <1>2, <1>3
<1>7. NoTwins(r)
  <2> SUFFICES ASSUME NEW i \in DOMAIN r, NEW j \in DOMAIN r, i # j
               PROVE  r[i].handle # r[j].handle /\ r[i].socketNum # r[j].socketNum
    BY DEF NoTwins
  <2>1. CASE i = 1 \/ j = 1
    BY <1>4, <1>5, <2>1 DEF available
  <2>2. CASE i # 1 /\ j # 1
    <3>1. i - 1 # j - 1
      BY <1>3, <2>2
    <3> QED
      BY <1>5, <2>2, <3>1 DEF NoTwins
  <2> QED
    BY <2>1, <2>2
<1> QED
  BY <1>2, <1>4, <1>5, <1>6, <1>7

-----------------------------------------------------------------------------
(* Who is listed. *)

LEMMA NodeHasOwner ==
  ASSUME ListMatchesSockets, NEW i \in DOMAIN list
  PROVE  \E c \in Clients : /\ Listed(c) /\ fd[c] = list[i].socketNum
                            /\ clientHandle[c] = list[i].handle
  BY DEF ListMatchesSockets, Listed, NodeOf

LEMMA ListedHasNode ==
  ASSUME ConnInv, ListMatchesSockets, NEW c \in Clients, Listed(c)
  PROVE  \E i \in DOMAIN list : /\ list[i].socketNum = fd[c]
                                /\ list[i].handle = clientHandle[c]
<1>1. sock[c] = "open"
  BY DEF Listed
<1>2. PICK i \in DOMAIN list : list[i].socketNum = fd[c]
  BY DEF Listed, NodeOf
<1> QED
  BY <1>1, <1>2 DEF ListMatchesSockets, ConnInv

LEMMA ListedApart ==
  ASSUME ConnInv, ListMatchesSockets, NEW c \in Clients, NEW d \in Clients,
         Listed(c), Listed(d), c # d
  PROVE  fd[c] # fd[d] /\ clientHandle[c] # clientHandle[d]
<1>1. fd[c] # fd[d]
  BY DEF ConnInv, Listed
<1>2. PICK i \in DOMAIN list : list[i].socketNum = fd[c] /\ list[i].handle = clientHandle[c]
  BY ListedHasNode
<1>3. PICK j \in DOMAIN list : list[j].socketNum = fd[d] /\ list[j].handle = clientHandle[d]
  BY ListedHasNode
<1> QED
  BY <1>1, <1>2, <1>3 DEF ListMatchesSockets

\* findSocket() gives the descriptor of the client listed under a handle.
LEMMA FindSocketGives ==
  ASSUME TypeOK, ConnInv, ListMatchesSockets, NEW h
  PROVE  /\ findSocket(list, h) \in {0} \cup Fds
         /\ findSocket(list, h) # 0 =>
              \E c \in Clients : /\ Listed(c) /\ fd[c] = findSocket(list, h)
                                 /\ clientHandle[c] = h
         /\ \A c \in Clients : Listed(c) /\ clientHandle[c] = h =>
              findSocket(list, h) = fd[c] /\ fd[c] # 0
<1>1. list \in Seq(Nodes) /\ NoTwins(list)
  BY DEF TypeOK, ServerTypeOK, Nodes, NoTwins, ListMatchesSockets
<1>2. CASE available(list, h) /\ findSocket(list, h) = 0
  <2>1. ASSUME NEW c \in Clients, Listed(c) PROVE clientHandle[c] # h
    BY <1>2, <2>1, ListedHasNode DEF available
  <2> QED
    BY <1>2, <2>1
<1>3. ASSUME NEW i \in DOMAIN list, list[i].handle = h,
             findSocket(list, h) = list[i].socketNum
      PROVE  /\ findSocket(list, h) \in Fds
             /\ \E c \in Clients : /\ Listed(c) /\ fd[c] = findSocket(list, h)
                                   /\ clientHandle[c] = h
             /\ \A c \in Clients : Listed(c) /\ clientHandle[c] = h =>
                  findSocket(list, h) = fd[c] /\ fd[c] # 0
  <2>1. list[i] \in Nodes
    BY Domains
  <2>2. PICK d \in Clients : /\ Listed(d) /\ fd[d] = list[i].socketNum
                             /\ clientHandle[d] = h
    BY <1>3, NodeHasOwner
  <2>3. ASSUME NEW c \in Clients, Listed(c), clientHandle[c] = h PROVE c = d
    BY <2>2, <2>3, ListedApart
  <2>4. fd[d] # 0
    BY <2>2 DEF Listed, ConnInv
  <2> QED
    BY <1>3, <2>1, <2>2, <2>3, <2>4 DEF Nodes
<1> QED
  BY <1>1, <1>2, <1>3, FindSocketEffect

-----------------------------------------------------------------------------
(* What a client does does not move the server. *)

LEMMA ClientFrame ==
  ASSUME ChatInvariant, UNCHANGED <<serverVars, backlog, sock, fd, clientHandle>>
  PROVE  /\ ConnInv' /\ PollSetMatchesSockets' /\ ListMatchesSockets'
         /\ UNCHANGED <<list, todo, serverUp, stdinHungUp, pollSet>>
         /\ ServerTypeOK'
         /\ \A c \in Clients : /\ Listed(c)' = Listed(c)
                               /\ Connected(c)' = Connected(c)
<1>1. UNCHANGED <<list, todo, serverUp, stdinHungUp, pollSet, backlog, sock, fd, clientHandle>>
  BY DEF serverVars
<1>2. ConnInv' /\ PollSetMatchesSockets' /\ ListMatchesSockets' /\ ServerTypeOK'
  BY <1>1 DEF ChatInvariant, TypeOK, ConnInv, PollSetMatchesSockets,
              ListMatchesSockets, ServerTypeOK
<1>3. \A c \in Clients : Listed(c)' = Listed(c) /\ Connected(c)' = Connected(c)
  BY <1>1 DEF Listed, NodeOf, Connected
<1> QED
  BY <1>1, <1>2, <1>3

\* A client process ends, in an orderly way or not.
Ends(c) ==
  /\ mode[c] # "start"
  /\ mode' = [mode EXCEPT ![c] = "gone"]
  /\ stdinLine' = [stdinLine EXCEPT ![c] = NoLine]
  /\ toClient' = [toClient EXCEPT ![c] = << >>]
  /\ \E how \in {"fin", "rst"} :
       /\ peer' = [peer EXCEPT ![c] = how]
       /\ Undisturbed => ~Connected(c) \/ (how = "fin" /\ HeardLast(c))
  /\ UNCHANGED <<serverVars, clientHandle, linesRead, backlog, sock, fd, toServer>>

LEMMA EndKeeps ==
  ASSUME ChatInvariant, NEW c \in Clients, Ends(c)
  PROVE  ChatInvariant'
<1> USE DEF ChatInvariant
<1>1. /\ mode' = [mode EXCEPT ![c] = "gone"]
      /\ stdinLine' = [stdinLine EXCEPT ![c] = NoLine]
      /\ toClient' = [toClient EXCEPT ![c] = << >>]
      /\ UNCHANGED <<serverVars, clientHandle, linesRead, backlog, sock, fd, toServer>>
  BY DEF Ends
<1>2. PICK how \in {"fin", "rst"} :
        /\ peer' = [peer EXCEPT ![c] = how]
        /\ Undisturbed => ~Connected(c) \/ (how = "fin" /\ HeardLast(c))
  BY DEF Ends
<1>3. /\ ConnInv' /\ PollSetMatchesSockets' /\ ListMatchesSockets'
      /\ UNCHANGED <<list, todo, serverUp, stdinHungUp, pollSet>>
      /\ ServerTypeOK'
      /\ \A d \in Clients : /\ Listed(d)' = Listed(d)
                            /\ Connected(d)' = Connected(d)
  BY <1>1, ClientFrame
<1>4. /\ peer \in [Clients -> PeerStates] /\ mode \in [Clients -> Modes]
      /\ toClient \in [Clients -> Seq(Messages)]
      /\ stdinLine \in [Clients -> Lines \cup {NoLine}]
  BY DEF TypeOK, NetTypeOK, ClientTypeOK
<1>5. /\ mode'[c] = "gone" /\ peer'[c] = how /\ toClient'[c] = << >> /\ stdinLine'[c] = NoLine
      /\ \A d \in Clients : d # c =>
           /\ mode'[d] = mode[d] /\ peer'[d] = peer[d]
           /\ toClient'[d] = toClient[d] /\ stdinLine'[d] = stdinLine[d]
  BY <1>1, <1>2, <1>4
<1>6. TypeOK'
  <2>1. << >> \in Seq(Messages)
    BY EmptySeq
  <2>2. NetTypeOK'
    BY <1>1, <1>2, <2>1 DEF TypeOK, NetTypeOK, PeerStates
  <2>3. ClientTypeOK'
    BY <1>1 DEF TypeOK, ClientTypeOK, Modes
  <2> QED
    BY <1>3, <2>2, <2>3 DEF TypeOK
<1>7. ModeInv'
  BY <1>1, <1>3, <1>5 DEF ModeInv, Ends
<1>8. ToServerInv'
  BY <1>1, <1>3, <1>5 DEF ToServerInv
<1>9. ToClientInv'
  BY <1>1, <1>3, <1>5 DEF ToClientInv, NothingAfterBye, Fits
<1>10. TodoInv'
  BY <1>1, <1>3, <1>5 DEF TodoInv, SendsGoToClients, OpenAt, Fits
<1>11. VerdictInv'
  BY <1>1, <1>3, <1>5 DEF VerdictInv, FirstIsVerdict
<1>12. FarewellInv'
  BY <1>1, <1>2, <1>3, <1>5 DEF FarewellInv, HeardLast, Undisturbed, PeerStates
<1> QED
  BY <1>3, <1>6, <1>7, <1>8, <1>9, <1>10, <1>11, <1>12

\* The five ways a client process comes to its end.
LEMMA Endings ==
  ASSUME ChatInvariant, NEW c \in Clients, UNCHANGED serverVars,
         \/ HandleTooLong(c) \/ SendFails(c) \/ AckSaysLeave(c)
         \/ ServerTerminated(c) \/ Interrupt(c)
  PROVE  Ends(c)
<1> USE DEF ChatInvariant
<1> DEFINE how == IF toClient[c] = << >> THEN "fin" ELSE "rst"
<1>1. CASE HandleTooLong(c)
  <2>1. mode[c] = "connected" /\ ClientExits(c)
    BY <1>1 DEF HandleTooLong
  <2>2. toClient[c] = << >> /\ toServer[c] = << >> /\ ~ Listed(c)
    BY <2>1 DEF ModeInv
  <2>3. ASSUME NEW i \in DOMAIN todo, todo[i].op = "send", todo[i].fd = fd[c]
        PROVE  FALSE
    <3>1. PICK d \in Clients : sock[d] = "open" /\ fd[d] = todo[i].fd
      BY <2>3 DEF TodoInv, SendsGoToClients
    <3>2. OpenAt(c, todo[i].fd)
      BY <2>3, <3>1 DEF ConnInv, OpenAt
    <3> QED
      BY <2>1, <3>2 DEF TodoInv
  <2>4. HeardLast(c)
    BY <2>2, <2>3 DEF HeardLast
  <2> QED
    BY <2>1, <2>2, <2>4 DEF Ends, ClientExits
<1>2. CASE SendFails(c) \/ ServerTerminated(c)
  <2>1. mode[c] # "start" /\ ClientExits(c) /\ ~ Connected(c)
    BY <1>2 DEF SendFails, ServerTerminated, ModeInv, AckWaits, Connected
  <2>2. how \in {"fin", "rst"} /\ peer' = [peer EXCEPT ![c] = how]
    BY <2>1 DEF ClientExits
  <2> HIDE DEF how
  <2> QED
    BY <2>1, <2>2 DEF Ends, ClientExits
<1>3. CASE Interrupt(c)
  <2>1. mode[c] # "start" /\ ClientExits(c) /\ ~ Undisturbed
    BY <1>3 DEF Interrupt, Undisturbed
  <2>2. how \in {"fin", "rst"} /\ peer' = [peer EXCEPT ![c] = how]
    BY <2>1 DEF ClientExits
  <2> HIDE DEF how
  <2> QED
    BY <2>1, <2>2 DEF Ends, ClientExits
<1>4. CASE AckSaysLeave(c)
  <2>1. /\ AckWaits(c) /\ toClient[c] # << >> /\ Head(toClient[c]).flag \in {3, 9}
        /\ mode' = [mode EXCEPT ![c] = "gone"]
        /\ peer' = [peer EXCEPT ![c] = IF Len(toClient[c]) = 1 THEN "fin" ELSE "rst"]
        /\ toClient' = [toClient EXCEPT ![c] = << >>]
        /\ UNCHANGED <<clientHandle, stdinLine, linesRead, backlog, sock, fd, toServer>>
    BY <1>4 DEF AckSaysLeave
  <2>2. mode[c] # "start" /\ stdinLine[c] = NoLine
    BY <2>1 DEF AckWaits, ModeInv
  <2>3. stdinLine' = [stdinLine EXCEPT ![c] = NoLine]
    BY <2>1, <2>2 DEF TypeOK, ClientTypeOK
  <2>4. 1 \in DOMAIN toClient[c] /\ toClient[c][1].flag \in {3, 9}
    <3>1. toClient[c] \in Seq(Messages)
      BY DEF TypeOK, NetTypeOK
    <3>2. Len(toClient[c]) \in Nat \ {0} /\ Head(toClient[c]) = toClient[c][1]
      BY <2>1, <3>1, TailEffect
    <3> QED
      BY <2>1, <3>2, Domains
  <2>5. Len(toClient[c]) = 1
    BY <2>4 DEF ToClientInv, NothingAfterBye
  <2>6. ~ Connected(c) \/ HeardLast(c)
    BY <2>4 DEF ToClientInv, Connected, HeardLast
  <2> QED
    BY <2>1, <2>2, <2>3, <2>5, <2>6 DEF Ends
<1> QED
  BY <1>1, <1>2, <1>3, <1>4

LEMMA ConnectKeeps ==
  ASSUME ChatInvariant, NEW c \in Clients, UNCHANGED serverVars,
         serverUp, Connect(c)
  PROVE  ChatInvariant'
<1> USE DEF ChatInvariant
<1>1. /\ mode[c] = "start" /\ mode' = [mode EXCEPT ![c] = "connected"]
      /\ sock' = [sock EXCEPT ![c] = "backlog"]
      /\ backlog' = Append(backlog, c)
      /\ UNCHANGED <<clientHandle, stdinLine, linesRead, fd, peer, toServer, toClient>>
      /\ UNCHANGED <<serverUp, list, pollSet, todo, stdinHungUp>>
  BY DEF Connect, serverVars
<1>2. /\ sock[c] = "none" /\ toServer[c] = << >> /\ toClient[c] = << >>
      /\ peer[c] = "up" /\ fd[c] = 0
  BY <1>1 DEF ModeInv, ConnInv
<1>3. /\ sock \in [Clients -> SockStates] /\ mode \in [Clients -> Modes]
      /\ backlog \in Seq(Clients)
  BY DEF TypeOK, NetTypeOK, ClientTypeOK
<1>4. /\ sock'[c] = "backlog" /\ mode'[c] = "connected"
      /\ \A d \in Clients : d # c => sock'[d] = sock[d] /\ mode'[d] = mode[d]
  BY <1>1, <1>3
<1>5. /\ Len(backlog) \in Nat /\ DOMAIN backlog = 1 .. Len(backlog)
      /\ backlog' \in Seq(Clients) /\ DOMAIN backlog' = 1 .. Len(backlog) + 1
      /\ \A i \in 1 .. Len(backlog) : backlog'[i] = backlog[i] /\ backlog[i] \in Clients
      /\ backlog'[Len(backlog) + 1] = c
  <2>1. Len(backlog') = Len(backlog) + 1 /\ backlog' \in Seq(Clients)
    BY <1>1, <1>3, AppendProperties
  <2> QED
    BY <1>1, <1>3, <2>1, AppendProperties, LenProperties, ElementOfSeq
<1>6. \A d \in Clients : Listed(d)' = Listed(d)
  BY <1>1, <1>2, <1>4 DEF Listed, NodeOf
<1>7. \A f : \A d \in Clients : OpenAt(d, f)' = OpenAt(d, f)
  BY <1>1, <1>2, <1>4 DEF OpenAt
<1>8. TypeOK'
  BY <1>1, <1>5 DEF TypeOK, NetTypeOK, ServerTypeOK, ClientTypeOK, SockStates, Modes
<1>9. ConnInv'
  <2>1. \A i \in 1 .. Len(backlog) : backlog[i] # c
    BY <1>2, <1>5 DEF ConnInv
  <2>2. \A i \in DOMAIN backlog' : sock'[backlog'[i]] = "backlog"
    BY <1>4, <1>5, <2>1 DEF ConnInv
  <2>3. \A i, j \in DOMAIN backlog' : i # j => backlog'[i] # backlog'[j]
    BY <1>5, <2>1 DEF ConnInv
  <2> QED
    BY <1>1, <1>2, <1>4, <2>2, <2>3 DEF ConnInv
<1>10. PollSetMatchesSockets'
  <2>1. {d \in Clients : sock'[d] = "open"} = {d \in Clients : sock[d] = "open"}
    BY <1>2, <1>4
  <2> QED
    BY <1>1, <2>1 DEF PollSetMatchesSockets
<1>11. ListMatchesSockets'
  BY <1>1, <1>2, <1>4 DEF ListMatchesSockets
<1>12. ModeInv'
  BY <1>1, <1>2, <1>4, <1>6 DEF ModeInv, Connected
<1>13. ToServerInv'
  BY <1>1, <1>2, <1>4, <1>6 DEF ToServerInv
<1>14. ToClientInv'
  BY <1>1, <1>2, <1>4, <1>6 DEF ToClientInv, NothingAfterBye, Fits
<1>15. TodoInv'
  <2>1. SendsGoToClients'
    BY <1>1, <1>2, <1>4 DEF TodoInv, SendsGoToClients
  <2>2. \A f : \A d \in Clients : OpenAt(d, f) => d # c
    BY <1>2 DEF OpenAt
  <2> QED
    BY <1>1, <1>4, <1>6, <1>7, <2>1, <2>2 DEF TodoInv, Fits
<1>16. VerdictInv'
  BY <1>1, <1>4, <1>6 DEF VerdictInv, FirstIsVerdict
<1>17. FarewellInv'
  BY <1>1, <1>2, <1>4, <1>6 DEF FarewellInv, HeardLast, Undisturbed, Connected
<1> QED
  BY <1>8, <1>9, <1>10, <1>11, <1>12, <1>13, <1>14, <1>15, <1>16, <1>17

\* Nothing is started, or a line is read, or dropped.
LEMMA PersonKeeps ==
  ASSUME ChatInvariant, NEW c \in Clients, UNCHANGED serverVars,
         \/ ~ serverUp /\ ConnectFails(c)
         \/ \E line \in Lines : ReadLine(c, line)
         \/ SendNothing(c)
  PROVE  ChatInvariant'
<1> USE DEF ChatInvariant
<1>1. UNCHANGED <<clientHandle, backlog, sock, fd, peer, toServer, toClient>>
  BY DEF ConnectFails, ReadLine, SendNothing, LineDone, netVars
<1>2. /\ ConnInv' /\ PollSetMatchesSockets' /\ ListMatchesSockets'
      /\ UNCHANGED <<list, todo, serverUp, stdinHungUp, pollSet>>
      /\ ServerTypeOK'
      /\ \A d \in Clients : /\ Listed(d)' = Listed(d)
                            /\ Connected(d)' = Connected(d)
  BY <1>1, ClientFrame
<1>3. /\ \/ UNCHANGED mode
         \/ ~ serverUp /\ mode[c] = "start" /\ mode' = [mode EXCEPT ![c] = "gone"]
      /\ \/ UNCHANGED stdinLine
         \/ mode[c] = "run" /\ UNCHANGED mode
            /\ \E line \in Lines \cup {NoLine} : stdinLine' = [stdinLine EXCEPT ![c] = line]
  BY DEF ConnectFails, ReadLine, SendNothing, LineDone, ModeInv
<1>4. /\ stdinLine \in [Clients -> Lines \cup {NoLine}]
      /\ mode \in [Clients -> Modes]
  BY DEF TypeOK, ClientTypeOK
<1>5. TypeOK'
  <2>1. linesRead' \in [Clients -> 0 .. MaxLines]
    BY ChatClientAssumption
    DEF ConnectFails, ReadLine, SendNothing, LineDone, TypeOK, ClientTypeOK
  <2>2. mode' \in [Clients -> Modes] /\ stdinLine' \in [Clients -> Lines \cup {NoLine}]
    BY <1>3, <1>4 DEF Modes
  <2> QED
    BY <1>1, <1>2, <2>1, <2>2 DEF TypeOK, NetTypeOK, ClientTypeOK
<1>6. /\ \A d \in Clients : mode'[d] = mode[d] \/ (mode[d] = "start" /\ mode'[d] = "gone")
      /\ \A d \in Clients : stdinLine'[d] # NoLine =>
            stdinLine[d] # NoLine \/ mode'[d] = "run"
      /\ \A d \in Clients : stdinLine[d] # NoLine => mode'[d] = "run"
  BY <1>3, <1>4 DEF ModeInv
<1>7. ModeInv'
  BY <1>1, <1>2, <1>6 DEF ModeInv
<1>8. ToServerInv'
  BY <1>1, <1>2, <1>6 DEF ToServerInv
<1>9. ToClientInv'
  BY <1>1, <1>2 DEF ToClientInv, NothingAfterBye, Fits
<1>10. TodoInv'
  BY <1>1, <1>2, <1>6 DEF TodoInv, SendsGoToClients, OpenAt, Fits
<1>11. VerdictInv'
  BY <1>1, <1>2, <1>6 DEF VerdictInv, FirstIsVerdict
<1>12. FarewellInv'
  BY <1>1, <1>2, <1>6 DEF FarewellInv, HeardLast, Undisturbed
<1> QED
  BY <1>2, <1>5, <1>7, <1>8, <1>9, <1>10, <1>11, <1>12

\* The messages the programs make.
LEMMA MessageShapes ==
  ASSUME NEW f \in Flags, NEW h \in Handles \cup {NoHandle}
  PROVE  /\ Plain(f) \in Messages /\ Plain(f).flag = f
         /\ Named(f, h) \in Messages /\ Named(f, h).flag = f /\ Named(f, h).name = h
         /\ \A n \in Nat :
              LET m == [Plain(f) EXCEPT !.count = n]
              IN  m \in Messages /\ m.flag = f
<1>1. << >> \in Seq(Handles)
  BY EmptySeq
<1>2. Plain(f) = [flag |-> f, name |-> NoHandle, to |-> << >>, count |-> 0]
  BY DEF Plain
<1>3. Named(f, h) = [flag |-> f, name |-> h, to |-> << >>, count |-> 0]
  BY <1>2 DEF Named
<1>4. /\ [flag |-> f, name |-> NoHandle, to |-> << >>, count |-> 0] \in Messages
      /\ [flag |-> f, name |-> h, to |-> << >>, count |-> 0] \in Messages
  BY <1>1 DEF Messages
<1>5. Plain(f) \in Messages /\ Plain(f).flag = f
  BY <1>2, <1>4
<1>6. Named(f, h) \in Messages /\ Named(f, h).flag = f /\ Named(f, h).name = h
  BY <1>3, <1>4
<1>7. ASSUME NEW n \in Nat
      PROVE  LET m == [Plain(f) EXCEPT !.count = n]
             IN  m \in Messages /\ m.flag = f
  <2>1. [Plain(f) EXCEPT !.count = n] =
          [flag |-> f, name |-> NoHandle, to |-> << >>, count |-> n]
    BY <1>2
  <2>2. [flag |-> f, name |-> NoHandle, to |-> << >>, count |-> n] \in Messages
    BY <1>1 DEF Messages
  <2> QED
    BY <2>1, <2>2
<1> QED
  BY <1>5, <1>6, <1>7

\* A message that is a flag and nothing else.
LEMMA PlainShapes == \A f \in Flags : Plain(f) \in Messages /\ Plain(f).flag = f
<1> SUFFICES ASSUME NEW f \in Flags
             PROVE  Plain(f) \in Messages /\ Plain(f).flag = f
  OBVIOUS
<1>1. NoHandle \in Handles \cup {NoHandle}
  OBVIOUS
<1> QED
  BY <1>1, MessageShapes

\* What a client sends carries its own handle.
LEMMA LineMessage ==
  ASSUME TypeOK, NEW c \in Clients, stdinLine[c] # NoLine, stdinLine[c].flag # 0
  PROVE  /\ procStdin(c, stdinLine[c]) \in Messages
         /\ procStdin(c, stdinLine[c]).flag = stdinLine[c].flag
         /\ procStdin(c, stdinLine[c]).flag \in {4, 5, 8, 10}
         /\ procStdin(c, stdinLine[c]).flag \in {4, 5} =>
              procStdin(c, stdinLine[c]).name = clientHandle[c]
         /\ LeadIsTyped(procStdin(c, stdinLine[c]))
<1> DEFINE line == stdinLine[c]
<1>1. line \in Lines /\ clientHandle[c] \in Handles
  BY DEF TypeOK, ClientTypeOK
<1>3. CASE \/ line \in [flag : {5}, to : DestLists, lead : {0}]
           \/ line \in [flag : {5}, to : {<< >>}, lead : LeadBytes]
  <2>1. /\ line.flag = 5 /\ line.to \in Seq(Handles) /\ line.lead \in Nat
        /\ line.to = << >> => line.lead \in LeadBytes
    <3>1. CASE line \in [flag : {5}, to : DestLists, lead : {0}]
      BY <3>1, ChatNetAssumption
    <3>2. CASE line \in [flag : {5}, to : {<< >>}, lead : LeadBytes]
      <4>1. line.flag = 5 /\ line.to = << >> /\ line.lead \in LeadBytes
        BY <3>2
      <4>2. << >> \in Seq(Handles) /\ LeadBytes \subseteq Nat
        BY ChatNetAssumption, EmptySeq
      <4> QED
        BY <4>1, <4>2
    <3> QED
      BY <1>3, <3>1, <3>2
  <2>2. procStdin(c, line) = [flag |-> 5, name |-> clientHandle[c],
                              to |-> line.to, count |-> line.lead]
    BY <2>1 DEF procStdin
  <2>3. 5 \in Flags
    BY DEF Flags
  <2>4. /\ procStdin(c, line) \in Messages
        /\ procStdin(c, line).flag = 5 /\ procStdin(c, line).name = clientHandle[c]
        /\ procStdin(c, line).to = line.to /\ procStdin(c, line).count = line.lead
    BY <1>1, <2>1, <2>2, <2>3 DEF Messages
  <2>5. LeadIsTyped(procStdin(c, line))
    BY <2>1, <2>4 DEF LeadIsTyped
  <2> QED
    BY <2>1, <2>4, <2>5
<1>4. CASE line \in [flag : {0, 4, 8, 10}, to : {<< >>}, lead : {0}]
  <2>1. line.flag \in {4, 8, 10}
    BY <1>4
  <2>2. /\ line.flag = 4 => procStdin(c, line) = Named(4, clientHandle[c])
        /\ line.flag # 4 => procStdin(c, line) = Plain(line.flag)
    BY <2>1 DEF procStdin
  <2>3. {4, 8, 10} \subseteq Flags
    BY DEF Flags
  <2>4. /\ procStdin(c, line) \in Messages /\ procStdin(c, line).flag = line.flag
        /\ line.flag = 4 => procStdin(c, line).name = clientHandle[c]
    BY <1>1, <2>1, <2>2, <2>3, MessageShapes
  <2>5. LeadIsTyped(procStdin(c, line))
    BY <2>1, <2>4 DEF LeadIsTyped
  <2> QED
    BY <2>1, <2>4, <2>5
<1> QED
  BY <1>1, <1>3, <1>4 DEF Lines

\* login() and sendToServer() put a message on its way.
LEMMA ClientSendKeeps ==
  ASSUME ChatInvariant, NEW c \in Clients, UNCHANGED serverVars,
         Login(c) \/ SendToServer(c)
  PROVE  ChatInvariant'
<1> USE DEF ChatInvariant
<1>1. UNCHANGED <<clientHandle, linesRead, backlog, sock, fd, peer, toClient>>
  BY DEF Login, SendToServer, LineDone
<1>2. /\ ConnInv' /\ PollSetMatchesSockets' /\ ListMatchesSockets'
      /\ UNCHANGED <<list, todo, serverUp, stdinHungUp, pollSet>>
      /\ ServerTypeOK'
      /\ \A d \in Clients : /\ Listed(d)' = Listed(d)
                            /\ Connected(d)' = Connected(d)
  BY <1>1, ClientFrame
<1>3. /\ mode \in [Clients -> Modes]
      /\ stdinLine \in [Clients -> Lines \cup {NoLine}]
      /\ toServer \in [Clients -> Seq(Messages)]
  BY DEF TypeOK, NetTypeOK, ClientTypeOK
<1>4. peer[c] = "up"
  BY DEF Login, SendToServer, ModeInv
<1>5. CASE Login(c) /\ ~ Connected(c)
  <2>1. /\ mode[c] = "connected" /\ mode' = [mode EXCEPT ![c] = "login"]
        /\ UNCHANGED <<stdinLine, toServer>>
    BY <1>5 DEF Login
  <2>2. mode'[c] = "login" /\ \A d \in Clients : d # c => mode'[d] = mode[d]
    BY <1>3, <2>1
  <2>3. TypeOK'
    BY <1>1, <1>2, <2>1 DEF TypeOK, NetTypeOK, ClientTypeOK, Modes
  <2>4. ModeInv'
    BY <1>1, <1>2, <2>1, <2>2 DEF ModeInv
  <2>5. ToServerInv' /\ ToClientInv'
    BY <1>1, <1>2, <2>1, <2>2, <1>5
    DEF ToServerInv, ToClientInv, NothingAfterBye, Fits, ModeInv
  <2>6. TodoInv'
    BY <1>1, <1>2, <2>2 DEF TodoInv, SendsGoToClients, OpenAt, Fits
  <2>7. VerdictInv'
    BY <1>1, <1>2, <2>1, <2>2 DEF VerdictInv, FirstIsVerdict, ModeInv
  <2>8. FarewellInv'
    BY <1>1, <1>2, <1>4, <2>1, <2>2 DEF FarewellInv, HeardLast, Undisturbed
  <2> QED
    BY <1>2, <2>3, <2>4, <2>5, <2>6, <2>7, <2>8
<1>6. ASSUME NEW m \in Messages, Connected(c),
             toServer' = [toServer EXCEPT ![c] = Append(@, m)],
             \/ /\ mode[c] = "connected" /\ mode' = [mode EXCEPT ![c] = "login"]
                /\ UNCHANGED stdinLine /\ m.flag = 1 /\ m.name = clientHandle[c]
             \/ /\ mode[c] = "run" /\ UNCHANGED mode
                /\ stdinLine' = [stdinLine EXCEPT ![c] = NoLine]
                /\ m.flag \in {4, 5, 8, 10}
                /\ m.flag \in {4, 5} => m.name = clientHandle[c],
             LeadIsTyped(m)
      PROVE  ChatInvariant'
  <2>1. /\ Len(toServer[c]) \in Nat /\ DOMAIN toServer[c] = 1 .. Len(toServer[c])
        /\ toServer' \in [Clients -> Seq(Messages)]
        /\ toServer'[c] = Append(toServer[c], m) /\ toServer'[c] # << >>
        /\ Len(toServer'[c]) = Len(toServer[c]) + 1
        /\ DOMAIN toServer'[c] = 1 .. Len(toServer[c]) + 1
        /\ \A i \in 1 .. Len(toServer[c]) : toServer'[c][i] = toServer[c][i]
        /\ toServer'[c][Len(toServer[c]) + 1] = m
        /\ \A d \in Clients : d # c => toServer'[d] = toServer[d]
    <3>1. toServer'[c] = Append(toServer[c], m)
          /\ \A d \in Clients : d # c => toServer'[d] = toServer[d]
      BY <1>3, <1>6
    <3>2. /\ Len(toServer[c]) \in Nat /\ DOMAIN toServer[c] = 1 .. Len(toServer[c])
      BY Domains
    <3>3. /\ Append(toServer[c], m) \in Seq(Messages)
          /\ Len(Append(toServer[c], m)) = Len(toServer[c]) + 1
          /\ DOMAIN Append(toServer[c], m) = 1 .. Len(toServer[c]) + 1
          /\ \A i \in 1 .. Len(toServer[c]) : Append(toServer[c], m)[i] = toServer[c][i]
          /\ Append(toServer[c], m)[Len(toServer[c]) + 1] = m
          /\ Append(toServer[c], m) # << >>
      BY <1>3, AppendEffect
    <3>4. toServer' \in [Clients -> Seq(Messages)]
      BY <1>3, <1>6, <3>3
    <3> QED
      BY <3>1, <3>2, <3>3, <3>4
  <2>2. \A d \in Clients : d # c => mode'[d] = mode[d] /\ stdinLine'[d] = stdinLine[d]
    BY <1>3, <1>6
  <2>3. \/ mode[c] = "connected" /\ mode'[c] = "login" /\ m.flag = 1 /\ toServer[c] = << >>
           /\ ~ Listed(c) /\ toClient[c] = << >> /\ stdinLine'[c] = NoLine
        \/ mode[c] = "run" /\ mode'[c] = "run" /\ Listed(c) /\ m.flag # 1
           /\ stdinLine'[c] = NoLine
    BY <1>3, <1>6 DEF ModeInv, Connected
  <2>4. TypeOK'
    <3>1. mode' \in [Clients -> Modes] /\ stdinLine' \in [Clients -> Lines \cup {NoLine}]
      BY <1>3, <1>6 DEF Modes
    <3> QED
      BY <1>1, <1>2, <2>1, <3>1 DEF TypeOK, NetTypeOK, ClientTypeOK
  <2>5. ModeInv'
    BY <1>1, <1>2, <1>4, <1>6, <2>1, <2>2, <2>3 DEF ModeInv
  <2>6. ToServerInv'
    <3> SUFFICES ASSUME NEW d \in Clients, NEW i \in DOMAIN toServer'[d]
                 PROVE  /\ toServer'[d][i].flag \in {1, 4, 5} =>
                             toServer'[d][i].name = clientHandle[d]
                        /\ toServer'[d][i].flag = 1 =>
                             /\ Len(toServer'[d]) = 1
                             /\ mode'[d] \in {"login", "gone"} /\ ~ Listed(d)
                        /\ toServer'[d][i].flag # 1 => Listed(d)
                        /\ LeadIsTyped(toServer'[d][i])
      BY <1>1, <1>2 DEF ToServerInv
    <3>1. CASE d # c
      <4>1. i \in DOMAIN toServer[d] /\ toServer'[d] = toServer[d] /\ mode'[d] = mode[d]
        BY <2>1, <2>2, <3>1
      <4> QED
        BY <4>1 DEF ToServerInv
    <3>2. CASE d = c /\ i = Len(toServer[c]) + 1
      <4>1. toServer[c] = << >> => Len(toServer[c]) = 0
        OBVIOUS
      <4> QED
        BY <1>6, <2>1, <2>3, <3>2, <4>1
    <3>3. CASE d = c /\ i \in 1 .. Len(toServer[c])
      <4>1. toServer[c] # << >>
        BY <2>1, <3>3
      <4> QED
        BY <2>1, <2>3, <3>3, <4>1 DEF ToServerInv
    <3> QED
      BY <2>1, <3>1, <3>2, <3>3
  <2>7. ToClientInv'
    BY <1>1, <1>2 DEF ToClientInv, NothingAfterBye, Fits
  <2>8. TodoInv'
    BY <1>1, <1>2, <2>2, <2>3 DEF TodoInv, SendsGoToClients, OpenAt, Fits
  <2>9. VerdictInv'
    BY <1>1, <1>2, <2>2, <2>3 DEF VerdictInv, FirstIsVerdict
  <2>10. FarewellInv'
    BY <1>1, <1>2, <1>4, <2>1, <2>2 DEF FarewellInv, HeardLast, Undisturbed
  <2> QED
    BY <1>2, <2>4, <2>5, <2>6, <2>7, <2>8, <2>9, <2>10
<1>7. CASE Login(c) /\ Connected(c)
  <2>1. clientHandle[c] \in Handles
    BY DEF TypeOK, ClientTypeOK
  <2>2. /\ Named(1, clientHandle[c]) \in Messages
        /\ Named(1, clientHandle[c]).flag = 1
        /\ Named(1, clientHandle[c]).name = clientHandle[c]
    BY <2>1, MessageShapes DEF Flags
  <2>3. LeadIsTyped(Named(1, clientHandle[c]))
    BY <2>2 DEF LeadIsTyped
  <2> QED
    BY <1>6, <1>7, <2>2, <2>3 DEF Login
<1>8. CASE SendToServer(c)
  <2>1. /\ stdinLine[c] # NoLine /\ stdinLine[c].flag # 0 /\ Connected(c)
        /\ toServer' = [toServer EXCEPT ![c] = Append(@, procStdin(c, stdinLine[c]))]
        /\ UNCHANGED mode /\ stdinLine' = [stdinLine EXCEPT ![c] = NoLine]
    BY <1>8 DEF SendToServer, LineDone
  <2>2. mode[c] = "run"
    BY <2>1 DEF ModeInv
  <2> QED
    BY <1>6, <2>1, <2>2, LineMessage
<1> QED
  BY <1>5, <1>7, <1>8

\* ackFromServer() takes a message, other than one that says to leave.
LEMMA AckKeeps ==
  ASSUME ChatInvariant, NEW c \in Clients, UNCHANGED serverVars, AckFromServer(c)
  PROVE  ChatInvariant'
<1> USE DEF ChatInvariant
<1>1. UNCHANGED <<clientHandle, stdinLine, linesRead, backlog, sock, fd, peer, toServer>>
  BY DEF AckFromServer
<1>2. /\ ConnInv' /\ PollSetMatchesSockets' /\ ListMatchesSockets'
      /\ UNCHANGED <<list, todo, serverUp, stdinHungUp, pollSet>>
      /\ ServerTypeOK'
      /\ \A d \in Clients : /\ Listed(d)' = Listed(d)
                            /\ Connected(d)' = Connected(d)
  BY <1>1, ClientFrame
<1>3. /\ mode \in [Clients -> Modes] /\ toClient \in [Clients -> Seq(Messages)]
      /\ toClient[c] \in Seq(Messages) /\ toClient[c] # << >>
      /\ toClient' = [toClient EXCEPT ![c] = Tail(@)]
      /\ mode' = [mode EXCEPT ![c] = AfterMessage(c, Head(toClient[c]).flag)]
  BY DEF AckFromServer, TypeOK, NetTypeOK, ClientTypeOK
<1>4. /\ Len(toClient[c]) \in Nat \ {0} /\ Head(toClient[c]) = toClient[c][1]
      /\ DOMAIN toClient[c] = 1 .. Len(toClient[c])
      /\ Tail(toClient[c]) \in Seq(Messages)
      /\ Len(Tail(toClient[c])) = Len(toClient[c]) - 1
      /\ DOMAIN Tail(toClient[c]) = 1 .. Len(toClient[c]) - 1
      /\ \A i \in 1 .. Len(toClient[c]) - 1 : Tail(toClient[c])[i] = toClient[c][i + 1]
  BY <1>3, TailEffect, Domains
<1>5. /\ toClient'[c] = Tail(toClient[c])
      /\ \A d \in Clients : d # c => toClient'[d] = toClient[d] /\ mode'[d] = mode[d]
      /\ mode'[c] \in {"run", "list"} /\ mode[c] \in {"login", "run", "list"}
      /\ mode'[c] \in {"run", "list"} => stdinLine[c] = NoLine
  BY <1>3 DEF AfterMessage, AckFromServer, AckWaits, ModeInv
<1>6. toClient[c][1].flag \notin {3, 9} /\ 1 \in DOMAIN toClient[c]
  BY <1>4 DEF AckFromServer
<1>7. sock[c] = "closed" \/ Listed(c)
  BY <1>6 DEF ToClientInv
<1>8. TypeOK'
  <2>1. toClient' \in [Clients -> Seq(Messages)]
    BY <1>3, <1>4
  <2>2. mode' \in [Clients -> Modes]
    <3>1. AfterMessage(c, Head(toClient[c]).flag) \in Modes
      BY DEF AfterMessage, Modes
    <3> QED
      BY <1>3, <3>1
  <2>3. NetTypeOK'
    BY <1>1, <2>1 DEF TypeOK, NetTypeOK
  <2>4. ClientTypeOK'
    BY <1>1, <2>2 DEF TypeOK, ClientTypeOK
  <2> QED
    BY <1>2, <2>3, <2>4 DEF TypeOK
<1>9. ModeInv'
  BY <1>1, <1>2, <1>3, <1>5, <1>7 DEF ModeInv
<1>10. ToServerInv'
  <2>1. \A i \in DOMAIN toServer[c] : toServer[c][i].flag # 1
    BY <1>4, <1>7 DEF ToServerInv, ModeInv, Connected
  <2> QED
    BY <1>1, <1>2, <1>5, <2>1 DEF ToServerInv
<1>11. \A d \in Clients : \A i \in DOMAIN toClient'[d] :
         \E j \in DOMAIN toClient[d] :
           /\ toClient'[d][i] = toClient[d][j]
           /\ j = Len(toClient[d]) => i = Len(toClient'[d])
  <2> SUFFICES ASSUME NEW d \in Clients, NEW i \in DOMAIN toClient'[d]
               PROVE  \E j \in DOMAIN toClient[d] :
                        /\ toClient'[d][i] = toClient[d][j]
                        /\ j = Len(toClient[d]) => i = Len(toClient'[d])
    OBVIOUS
  <2>1. CASE d = c
    <3>1. /\ Len(toClient[c]) \in Nat /\ i \in 1 .. Len(toClient[c]) - 1
          /\ Len(toClient'[d]) = Len(toClient[c]) - 1
      BY <1>4, <1>5, <2>1
    <3>2. i + 1 \in 1 .. Len(toClient[c])
          /\ (i + 1 = Len(toClient[c]) => i = Len(toClient[c]) - 1)
      BY <3>1
    <3>3. toClient'[d][i] = toClient[c][i + 1]
      BY <1>4, <1>5, <2>1, <3>1
    <3>4. i + 1 \in DOMAIN toClient[d]
      BY <1>4, <2>1, <3>2
    <3> QED
      BY <2>1, <3>1, <3>2, <3>3, <3>4
  <2>2. CASE d # c
    BY <1>5, <2>2
  <2> QED
    BY <2>1, <2>2
<1>12. ToClientInv'
  <2>1. NothingAfterBye'
    BY <1>11 DEF ToClientInv, NothingAfterBye
  <2>2. ASSUME NEW d \in Clients, NEW i \in DOMAIN toClient'[d]
        PROVE  LET m == toClient'[d][i]
               IN  /\ Fits(d, m)
                   /\ m.flag # 3 => sock[d] = "closed" \/ Listed(d)
                   /\ m.flag \in {3, 9} =>
                        sock[d] = "closed"
                          \/ /\ Len(todo) = 1 /\ todo[1].fd = fd[d]
                             /\ todo[1].op \in {"close", "remove"}
    <3>1. PICK j \in DOMAIN toClient[d] : toClient'[d][i] = toClient[d][j]
      BY <1>11
    <3> QED
      BY <3>1 DEF ToClientInv
  <2> QED
    BY <1>1, <1>2, <2>1, <2>2 DEF ToClientInv, Fits
<1>13. TodoInv'
  BY <1>1, <1>2, <1>5 DEF TodoInv, SendsGoToClients, OpenAt, Fits
<1>14. VerdictInv'
  BY <1>1, <1>2, <1>5 DEF VerdictInv, FirstIsVerdict
<1>15. FarewellInv'
  BY <1>1, <1>2, <1>5 DEF FarewellInv, HeardLast, Undisturbed
<1> QED
  BY <1>2, <1>8, <1>9, <1>10, <1>12, <1>13, <1>14, <1>15

\* Every step of a client.
LEMMA ClientKeeps ==
  ASSUME ChatInvariant, NEW c \in Clients,
         ClientConnects(c) \/ ClientNext(c) \/ PersonNext(c)
  PROVE  ChatInvariant'
  BY EndKeeps, Endings, ConnectKeeps, PersonKeeps, ClientSendKeeps, AckKeeps
  DEF ClientConnects, ClientNext, PersonNext, ClientStep
=============================================================================
