----------------------------- MODULE ChatClient -----------------------------
(***************************************************************************)
(* The chat clients: 2A:Chat/myClient.c, with what procStdin() of parse.c     *)
(* makes of a line.  A client is one process: it reads a line from its        *)
(* standard input, or one message from the server, and deals with it before   *)
(* it polls again.                                                            *)
(***************************************************************************)
EXTENDS ChatNet

CONSTANTS
  MaxLines,      \* lines typed at one client
  Killable,      \* clients somebody may interrupt
  LongHandles    \* handles of more than 99 characters

ASSUME ChatClientAssumption ==
  /\ MaxLines \in Nat
  /\ Killable \subseteq Clients /\ LongHandles \subseteq Handles

VARIABLES
  mode,          \* where the process is
  clientHandle,  \* argv[1]
  stdinLine,     \* the line that sendToServer() is sending
  linesRead      \* lines read so far

clientVars == <<mode, clientHandle, stdinLine, linesRead>>

\* "list": in the loop of runClient() between a FLAG_11 and its FLAG_13.
Modes == {"start", "connected", "login", "run", "list", "gone"}

\* What a line asks for, by findType(): %M, %B, %E, %L or none of them.  FLAG_6
\* is not used: it stands for no line.  A %M whose second word is one character
\* that is no 1-9 has no destinations; lead is the byte that follows then.
NoLine == [flag |-> 6, to |-> << >>, lead |-> 0]
Lines ==
  [flag : {0, 4, 8, 10}, to : {<< >>}, lead : {0}]
    \cup [flag : {5}, to : DestLists, lead : {0}]
    \cup [flag : {5}, to : {<< >>}, lead : LeadBytes]

ClientTypeOK ==
  /\ mode \in [Clients -> Modes]
  /\ clientHandle \in [Clients -> Handles]
  /\ stdinLine \in [Clients -> Lines \cup {NoLine}]
  /\ linesRead \in [Clients -> 0 .. MaxLines]

ClientInit ==
  /\ mode = [c \in Clients |-> "start"]
  /\ clientHandle \in [Clients -> Handles]
  /\ stdinLine = [c \in Clients |-> NoLine]
  /\ linesRead = [c \in Clients |-> 0]

-----------------------------------------------------------------------------
\* The process ends, and its socket with it; only a socket with nothing unread
\* is closed in an orderly way.  What it has sent can still be read.
ClientExits(c) ==
  /\ mode' = [mode EXCEPT ![c] = "gone"]
  /\ stdinLine' = [stdinLine EXCEPT ![c] = NoLine]
  /\ peer' = [peer EXCEPT ![c] = IF toClient[c] = << >> THEN "fin" ELSE "rst"]
  /\ toClient' = [toClient EXCEPT ![c] = << >>]
  /\ UNCHANGED <<clientHandle, linesRead, backlog, sock, fd, toServer>>

\* The server's end of the connection still takes what is sent.
Connected(c) == sock[c] \in {"backlog", "open"}

\* tcpClientSetup(): the kernel of the server completes the connection.
\* without a server, connect() fails.
Connect(c) ==
  /\ mode[c] = "start"
  /\ mode' = [mode EXCEPT ![c] = "connected"]
  /\ sock' = [sock EXCEPT ![c] = "backlog"]
  /\ backlog' = Append(backlog, c)
  /\ UNCHANGED <<clientHandle, stdinLine, linesRead, fd, peer, toServer, toClient>>

ConnectFails(c) ==
  /\ mode[c] = "start"
  /\ mode' = [mode EXCEPT ![c] = "gone"]
  /\ UNCHANGED <<clientHandle, stdinLine, linesRead, netVars>>

\* main() tests the length of the handle once it has connected.
HandleTooLong(c) ==
  /\ mode[c] = "connected"
  /\ clientHandle[c] \in LongHandles
  /\ ClientExits(c)

\* login(), up to the answer it waits for
Login(c) ==
  /\ mode[c] = "connected"
  /\ clientHandle[c] \notin LongHandles
  /\ mode' = [mode EXCEPT ![c] = "login"]
  /\ toServer' = IF Connected(c)
                 THEN [toServer EXCEPT ![c] = Append(@, Named(1, clientHandle[c]))]
                 ELSE toServer
  /\ UNCHANGED <<clientHandle, stdinLine, linesRead,
                 backlog, sock, fd, peer, toClient>>

-----------------------------------------------------------------------------
\* runClient(): standard input has the lowest descriptor, so that pollCall()
\* returns it before the socket.

ReadLine(c, line) ==
  /\ mode[c] = "run" /\ stdinLine[c] = NoLine
  /\ linesRead[c] < MaxLines
  /\ stdinLine' = [stdinLine EXCEPT ![c] = line]
  /\ linesRead' = [linesRead EXCEPT ![c] = @ + 1]
  /\ UNCHANGED <<mode, clientHandle, netVars>>

\* procStdin(): proc_M, proc_B, proc_E and proc_L
procStdin(c, line) ==
  CASE line.flag = 5 -> [flag |-> 5, name |-> clientHandle[c],
                          to |-> line.to, count |-> line.lead]
    [] line.flag = 4 -> Named(4, clientHandle[c])
    [] OTHER         -> Plain(line.flag)

LineDone(c) ==
  /\ stdinLine' = [stdinLine EXCEPT ![c] = NoLine]
  /\ UNCHANGED <<mode, clientHandle, linesRead, backlog, sock, fd, peer, toClient>>

\* send() blocks while the buffers are full.
SendToServer(c) ==
  /\ stdinLine[c] # NoLine /\ stdinLine[c].flag # 0
  /\ Connected(c)
  /\ Len(toServer[c]) < InBuf
  /\ toServer' = [toServer EXCEPT ![c] = Append(@, procStdin(c, stdinLine[c]))]
  /\ LineDone(c)

\* A line that is no command is sent as 0 bytes; to a server that has closed,
\* the bytes are lost...
SendNothing(c) ==
  /\ stdinLine[c] # NoLine
  /\ stdinLine[c].flag = 0 \/ ~Connected(c)
  /\ UNCHANGED toServer
  /\ LineDone(c)

\* ... or, once a reset has come back, the send() fails.
SendFails(c) ==
  /\ stdinLine[c] # NoLine /\ ~Connected(c)
  /\ ClientExits(c)

-----------------------------------------------------------------------------
\* ackFromServer() and packetResponse(), called by login() and by runClient()

AckWaits(c) ==
  \/ mode[c] \in {"login", "list"}
  \/ mode[c] = "run" /\ stdinLine[c] = NoLine

AfterMessage(c, flag) ==
  IF \/ mode[c] = "run" /\ flag = 11
     \/ mode[c] = "list" /\ flag # 13
  THEN "list"
  ELSE "run"

AckFromServer(c) ==
  /\ AckWaits(c) /\ toClient[c] # << >>
  /\ Head(toClient[c]).flag \notin {3, 9}
  /\ mode' = [mode EXCEPT ![c] = AfterMessage(c, Head(toClient[c]).flag)]
  /\ toClient' = [toClient EXCEPT ![c] = Tail(@)]
  /\ UNCHANGED <<clientHandle, stdinLine, linesRead,
                 backlog, sock, fd, peer, toServer>>

\* FLAG_3 and FLAG_9: exit(0), with the message itself read.
AckSaysLeave(c) ==
  /\ AckWaits(c) /\ toClient[c] # << >>
  /\ Head(toClient[c]).flag \in {3, 9}
  /\ mode' = [mode EXCEPT ![c] = "gone"]
  /\ peer' = [peer EXCEPT ![c] = IF Len(toClient[c]) = 1 THEN "fin" ELSE "rst"]
  /\ toClient' = [toClient EXCEPT ![c] = << >>]
  /\ UNCHANGED <<clientHandle, stdinLine, linesRead, backlog, sock, fd, toServer>>

\* 0 bytes: "Server Terminated"
ServerTerminated(c) ==
  /\ AckWaits(c) /\ toClient[c] = << >> /\ sock[c] = "closed"
  /\ ClientExits(c)

\* Somebody interrupts the client.
Interrupt(c) ==
  /\ c \in Killable /\ mode[c] \notin {"start", "gone"}
  /\ ClientExits(c)

\* What the process does by itself.
ClientStep(c) ==
  \/ HandleTooLong(c) \/ Login(c)
  \/ SendToServer(c) \/ SendNothing(c) \/ SendFails(c)
  \/ AckFromServer(c) \/ AckSaysLeave(c) \/ ServerTerminated(c)
=============================================================================
