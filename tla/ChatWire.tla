------------------------------ MODULE ChatWire ------------------------------
(***************************************************************************)
(* The way of one line of the chat: typed at a client, sent, taken apart and  *)
(* answered by the server, shown at the client the answer is for.  Every step *)
(* is a computation on bytes; what is checked is that the parts that come out *)
(* at the end are those that were typed, with what was typed defined by the   *)
(* positions of its words and not by the steps of the parser.                 *)
(***************************************************************************)
EXTENDS ChatMessage, FiniteSets

CONSTANTS
  TypedLines,    \* the lines people type
  Names,         \* the handles of the clients
  ListLengths    \* how many clients may be logged in

ASSUME ChatWireAssumption ==
  /\ TypedLines \subseteq Seq(1 .. 127)
  /\ Names \subseteq Seq(1 .. 127 \ {SPACE})
  /\ \A h \in Names : Len(h) \in 1 .. MAX_HANDLE_SIZE

\* Two of the four bytes of the count are modelled.
ASSUME ListLengthsAssumption == ListLengths \subseteq 0 .. 256 * 256 - 1

VARIABLES
  stage,
  line, sendHandle,   \* stdbuf and the handle of the client that reads it
  pdu,                \* what the client sends
  dests,              \* the destinations the server finds in it
  answer,             \* what the server sends because of it
  put,                \* the handle and the count the server put into it
  shown               \* what the receiver prints: a name, a text, a count

vars == <<stage, line, sendHandle, pdu, dests, answer, put, shown>>

Nothing == [name |-> << >>, text |-> << >>, count |-> 0]

Init ==
  /\ stage = "typed"
  /\ line \in TypedLines /\ sendHandle \in Names
  /\ pdu = << >> /\ dests = << >> /\ answer = << >>
  /\ put = Nothing /\ shown = Nothing

\* login(), and case FLAG_1 of packetResponse() at the server
Register ==
  /\ stage = "typed" /\ stage' = "registered"
  /\ pdu' = login(sendHandle)
  /\ shown' = [Nothing EXCEPT !.name = createStrHandle(messageOf(login(sendHandle)))]
  /\ UNCHANGED <<line, sendHandle, dests, answer, put>>

\* sendToServer(); a line that is no command sends 0 bytes
SendLine ==
  /\ stage = "typed" /\ stage' = "sent"
  /\ pdu' = procStdin(line, sendHandle)
  /\ UNCHANGED <<line, sendHandle, dests, answer, put, shown>>

Message == messageOf(pdu)
Received(flag) == stage = "sent" /\ pdu # << >> /\ flagOf(Message) = flag

\* sendB() and sendM(): the message is forwarded as it is.  When findTextLen()
\* does not come back from a %M without destinations, nothing is (ChatServer).
Broadcast ==
  /\ Received(4) /\ stage' = "served"
  /\ answer' = createNewMessage(4, ntohs(pdu), Message)
  /\ UNCHANGED <<line, sendHandle, pdu, dests, put, shown>>

Forward ==
  /\ Received(5) /\ stage' = "served"
  /\ dests' = [i \in 1 .. findNumHandles(Message) |-> findDestHandle(Message, i)]
  /\ answer' = createNewMessage(5, ntohs(pdu), Message)
  /\ UNCHANGED <<line, sendHandle, pdu, put, shown>>

\* sendFlag7() for a destination that is not logged in
Refuse(i) ==
  /\ stage = "served" /\ i \in DOMAIN dests /\ stage' = "refused"
  /\ answer' = sendFlag7(dests[i])
  /\ put' = [Nothing EXCEPT !.name = dests[i]]
  /\ UNCHANGED <<line, sendHandle, pdu, dests, shown>>

\* sendL(): the FLAG_11 and one of the FLAG_12
ListClients(n, h) ==
  /\ Received(10) /\ stage' = "listed"
  /\ answer' = fillFlag11(n) \o fillFlag12(h)
  /\ put' = [Nothing EXCEPT !.name = h, !.count = n]
  /\ UNCHANGED <<line, sendHandle, pdu, dests, shown>>

\* packetResponse() of the client
Show ==
  /\ stage = "served"
  /\ flagOf(Message) = 4 \/ dests # << >>
  /\ stage' = "shown"
  /\ LET m == messageOf(answer)
     IN  shown' = [Nothing EXCEPT
            !.name = findSender(m),
            !.text = IF flagOf(m) = 4 THEN getText4(m, ntohs(answer))
                                      ELSE getText(m, ntohs(answer))]
  /\ UNCHANGED <<line, sendHandle, pdu, dests, answer, put>>

ShowRefusal ==
  /\ stage = "refused" /\ stage' = "shown"
  /\ shown' = [Nothing EXCEPT !.name = findSender(messageOf(answer))]
  /\ UNCHANGED <<line, sendHandle, pdu, dests, answer, put>>

\* The second recv() begins where the first PDU ends.
ShowList ==
  /\ stage = "listed" /\ stage' = "shown"
  /\ LET second == Drop(answer, ntohs(answer))
     IN  shown' = [Nothing EXCEPT !.count = flag11Count(messageOf(answer)),
                                  !.name  = findSender(messageOf(second))]
  /\ UNCHANGED <<line, sendHandle, pdu, dests, answer, put>>

Next ==
  \/ Register \/ SendLine \/ Broadcast \/ Forward
  \/ \E i \in DOMAIN dests : Refuse(i)
  \/ \E n \in ListLengths, h \in Names : ListClients(n, h)
  \/ Show \/ ShowRefusal \/ ShowList

Spec == Init /\ [][Next]_vars

-----------------------------------------------------------------------------
(***************************************************************************)
(* What was typed, by the positions of its words.                             *)
(***************************************************************************)

IsSpace(s, i) == s[i] = SPACE
WordStarts(s) == {i \in DOMAIN s : ~IsSpace(s, i) /\ (i = 1 \/ IsSpace(s, i - 1))}
WordCount == Cardinality(WordStarts(line))
StartOf(k) == CHOOSE i \in WordStarts(line) :
                Cardinality({j \in WordStarts(line) : j < i}) = k - 1

\* The k-th word, and the line from there on; nothing when there is none.
From(k) == IF k > WordCount THEN << >> ELSE SubSeq(line, StartOf(k), Len(line))
Word(k) ==
  IF k > WordCount THEN << >>
  ELSE LET e == CHOOSE j \in StartOf(k) .. Len(line) :
                  /\ \A i \in StartOf(k) .. j : ~IsSpace(line, i)
                  /\ j = Len(line) \/ IsSpace(line, j + 1)
       IN  SubSeq(line, StartOf(k), e)

HasNumber == Len(Word(2)) = 1 /\ Word(2)[1] \in DIGIT
NumberTyped == IF HasNumber THEN Word(2)[1] - 48 ELSE 1
FirstDest == IF HasNumber THEN 3 ELSE 2

\* A %M whose second word is a number of 1 to 9 or a handle of more than one
\* character.
WellFormed == IF HasNumber THEN NumberTyped > 0 ELSE Len(Word(2)) # 1

-----------------------------------------------------------------------------
\* The length of every PDU is that of its bytes: recv() with MSG_WAITALL
\* neither waits for more nor leaves something for the next message.
LengthIsBytes ==
  /\ pdu # << >> => ntohs(pdu) = Len(pdu)
  /\ answer # << >> =>
       \/ ntohs(answer) = Len(answer)
       \/ stage \in {"listed", "shown"} /\
            ntohs(answer) + ntohs(Drop(answer, ntohs(answer))) = Len(answer)

\* The server finds the destinations of a %M that were typed, in that order,
\* each cut at MAX_HANDLE_SIZE; those that were announced and not typed are
\* empty.
DestsAreTyped ==
  stage = "served" /\ flagOf(Message) = 5 /\ WellFormed =>
    dests = [i \in 1 .. NumberTyped |-> Take(Word(FirstDest + i - 1), MAX_HANDLE_SIZE)]

\* The receiver is shown the sender's handle and the rest of the line, cut at
\* MAX_SEND_TXT: of a %M what follows its destinations, of a %B everything but
\* a number in front.
TextIsTyped ==
  stage = "shown" /\ flagOf(messageOf(answer)) \in {4, 5} =>
    /\ shown.name = sendHandle
    /\ flagOf(Message) = 4 => shown.text = Take(From(FirstDest), MAX_SEND_TXT)
    /\ flagOf(Message) = 5 /\ WellFormed =>
         shown.text = Take(From(FirstDest + NumberTyped), MAX_SEND_TXT)

\* The server registers the handle a client was started with; a refusal names
\* the very destination that was refused, and the list is shown with the count
\* and the handle the server put in.
NamesAreKept ==
  /\ stage = "registered" => shown.name = sendHandle
  /\ stage = "shown" /\ flagOf(messageOf(answer)) \in {7, 11} =>
       shown.name = put.name /\ shown.count = put.count
=============================================================================
