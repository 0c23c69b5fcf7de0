------------------------------- MODULE ChatInv -------------------------------
(***************************************************************************)
(* The inductive invariant of Chat.  The hand-over of a handle or of a        *)
(* descriptor number is safe because the server finishes one handler before   *)
(* it polls again; the invariant ties what is left of the handler, the list,  *)
(* the connections and the messages under way together.                       *)
(***************************************************************************)
EXTENDS Chat

OpenAt(c, f) == sock[c] = "open" /\ fd[c] = f

\* Descriptors and backlog are those of the connections; a server that has
\* gone has none.
ConnInv ==
  /\ \A c \in Clients : fd[c] # 0 <=> sock[c] = "open"
  /\ \A c, d \in Clients : c # d /\ sock[c] = "open" => fd[c] # fd[d]
  /\ \A i \in DOMAIN backlog : sock[backlog[i]] = "backlog"
  /\ \A i, j \in DOMAIN backlog : i # j => backlog[i] # backlog[j]
  /\ ~serverUp => /\ list = << >> /\ todo = << >> /\ backlog = << >>
                  /\ \A c \in Clients : sock[c] \in {"none", "closed"}

\* Where a client process can be, by what became of its connection.
ModeInv ==
  \A c \in Clients :
    /\ mode[c] = "start" => sock[c] = "none"
    /\ mode[c] \in {"start", "connected"} =>
         toServer[c] = << >> /\ toClient[c] = << >> /\ peer[c] = "up" /\ ~Listed(c)
    /\ mode[c] \in {"run", "list"} => sock[c] = "closed" \/ Listed(c)
    /\ stdinLine[c] # NoLine => mode[c] = "run"
    /\ toClient[c] # << >> => sock[c] \in {"open", "closed"}
    /\ toServer[c] # << >> => Connected(c)
    /\ peer[c] # "up" => mode[c] = "gone"

\* What stands in the place of destinations that are missing was put there.
LeadIsTyped(m) == m.flag = 5 /\ m.to = << >> => m.count \in LeadBytes

\* A client's own handle is in what it sends; it logs in once, and is listed
\* when anything else of it is read.
ToServerInv ==
  \A c \in Clients : \A i \in DOMAIN toServer[c] :
    LET m == toServer[c][i]
    IN  /\ m.flag \in {1, 4, 5} => m.name = clientHandle[c]
        /\ m.flag = 1 => /\ Len(toServer[c]) = 1
                         /\ mode[c] \in {"login", "gone"} /\ ~Listed(c)
        /\ m.flag # 1 => Listed(c)
        /\ LeadIsTyped(m)

\* A message that may be sent to c.
Fits(c, m) ==
  /\ m.flag = 5 => \E j \in DOMAIN m.to : m.to[j] = clientHandle[c]
  /\ m.flag = 4 => m.name # clientHandle[c]

ToClientInv ==
  /\ NothingAfterBye
  /\ \A c \in Clients : \A i \in DOMAIN toClient[c] :
       LET m == toClient[c][i]
       IN  /\ Fits(c, m)
           /\ m.flag # 3 => sock[c] = "closed" \/ Listed(c)
           /\ m.flag \in {3, 9} =>
                sock[c] = "closed"
                  \/ /\ Len(todo) = 1 /\ todo[1].fd = fd[c]
                     /\ todo[1].op \in {"close", "remove"}

\* What is left of a handler.
TodoInv ==
  /\ SendsGoToClients
  /\ \A i \in DOMAIN todo : \A c \in Clients : OpenAt(c, todo[i].fd) =>
       /\ mode[c] \notin {"start", "connected"}
       /\ todo[i].op = "send" => Fits(c, todo[i].msg)
       /\ todo[i].op = "send" /\ todo[i].msg.flag # 3 => Listed(c)
       /\ todo[i].op = "close" => ~Listed(c)
  /\ \A i \in DOMAIN todo :
       /\ todo[i].op \in {"close", "remove"} => i = Len(todo)
       /\ todo[i].op = "send" /\ todo[i].msg.flag \in {3, 9} =>
            /\ i = 1 /\ Len(todo) = 2
            /\ todo[2].op \in {"close", "remove"} /\ todo[2].fd = todo[1].fd

\* Until login() has its answer, the answer is the first thing under way.
VerdictInv ==
  /\ FirstIsVerdict
  /\ \A c \in Clients : mode[c] = "login" /\ toClient[c] = << >> /\ Listed(c) =>
       todo # << >> /\ todo[1] = Send(fd[c], Plain(2))

\* Nobody is interrupted, the server's standard input stays open, and what
\* people write in place of destinations keeps findTextLen() in its buffer.
Undisturbed ==
  /\ Killable = {} /\ ~StdinMayHangUp
  /\ LeadBytes \subseteq 0 .. MAX_HANDLE_SIZE

\* The server will not send to c again: it has closed or is about to, or has
\* never heard of c.
HeardLast(c) ==
  \/ /\ ~Listed(c) /\ toServer[c] = << >>
     /\ \A i \in DOMAIN todo : todo[i].op = "send" => todo[i].fd # fd[c]
  \/ Len(todo) = 1 /\ todo[1].fd = fd[c] /\ todo[1].op \in {"close", "remove"}

\* Then a client closes its socket only when the server will not send to it.
FarewellInv ==
  Undisturbed =>
    /\ serverUp /\ ~stdinHungUp
    /\ \A c \in Clients : peer[c] # "up" /\ Connected(c) =>
         peer[c] = "fin" /\ mode[c] = "gone" /\ HeardLast(c)

ChatInvariant ==
  /\ TypeOK /\ ConnInv /\ PollSetMatchesSockets /\ ListMatchesSockets
  /\ ModeInv /\ ToServerInv /\ ToClientInv /\ TodoInv /\ VerdictInv
  /\ FarewellInv
=============================================================================
