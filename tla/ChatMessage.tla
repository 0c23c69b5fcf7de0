---------------------------- MODULE ChatMessage ----------------------------
(***************************************************************************)
(* The messages of the chat, byte by byte: 2A:Chat/parse.c, which makes a     *)
(* PDU of a line, recvparse.c, which takes one apart, and the fill functions  *)
(* of myServer.c.  A character is its code; a string is the sequence of its   *)
(* characters without the NUL, and a pointer into a string is what is left    *)
(* of it from there.  A message is a PDU without its two bytes of length.     *)
(***************************************************************************)
EXTENDS Integers, Sequences, SequencesExt

CONSTANTS
  MAX_HANDLE_SIZE,     \* 100
  MAX_SEND_TXT         \* 200

ASSUME ChatMessageAssumption ==
  MAX_HANDLE_SIZE \in Nat \ {0} /\ MAX_SEND_TXT \in Nat

SPACE == 32
PERCENT == 37
DIGIT == 48 .. 57

\* No string contains a NUL.
NULL == << 0 >>

TYPE_M == 1
TYPE_B == 2
TYPE_E == 3
TYPE_L == 4

\* The longest prefix of s whose characters are all in chars.
PrefixIn(s, chars) ==
  LET n == CHOOSE k \in 0 .. Len(s) :
             /\ \A i \in 1 .. k : s[i] \in chars
             /\ k < Len(s) => s[k + 1] \notin chars
  IN  SubSeq(s, 1, n)

Drop(s, n) == SubSeq(s, n + 1, Len(s))
Take(s, n) == SubSeq(s, 1, IF n < Len(s) THEN n ELSE Len(s))

skipSpaces(s) == Drop(s, Len(PrefixIn(s, {SPACE})))
wordOf(s) == PrefixIn(s, 0 .. 255 \ {SPACE})

-----------------------------------------------------------------------------
\* From a line to a PDU.

convertCharType(char) ==
  CASE char \in {77, 109} -> TYPE_M
    [] char \in {66, 98}  -> TYPE_B
    [] char \in {69, 101} -> TYPE_E
    [] char \in {76, 108} -> TYPE_L
    [] OTHER -> -1

findType(stdbuf) ==
  LET s == skipSpaces(stdbuf)
  IN  IF s = << >> \/ s[1] # PERCENT THEN -1
      ELSE IF Len(s) = 1 THEN convertCharType(0)
      ELSE convertCharType(s[2])

\* The first word, at most len characters of it.
findStr(stdbuf, len) ==
  IF stdbuf = NULL THEN << >> ELSE Take(wordOf(skipSpaces(stdbuf)), len)

\* Mutant of stepString: it stops at the space behind the word.
stepStringToSpace(stdbuf) ==
  IF stdbuf = NULL THEN NULL
  ELSE LET s    == skipSpaces(stdbuf)
           rest == Drop(s, Len(wordOf(s)))
       IN  IF rest = << >> THEN NULL ELSE rest

\* What follows the first word and the spaces behind it; NULL when the string
\* ends with the word.
stepString(stdbuf) ==
  IF stdbuf = NULL THEN NULL
  ELSE LET s    == skipSpaces(stdbuf)
           rest == Drop(s, Len(wordOf(s)))
       IN  IF rest = << >> THEN NULL ELSE skipSpaces(rest)

\* A string of one character counts as a number, any other as a handle.
convertStrToInt(str) ==
  IF Len(str) # 1 THEN 1
  ELSE IF str[1] \in DIGIT \ {48} THEN str[1] - 48 ELSE -1

getHandleNum(stdbuf) == convertStrToInt(findStr(stepString(stdbuf), 3))

isNumber(str) == Len(str) = 1 /\ str[1] \in DIGIT

findFirstHandle(stdbuf) ==
  LET second == stepString(stdbuf)
  IN  IF isNumber(findStr(second, MAX_HANDLE_SIZE + 1))
      THEN stepString(second)
      ELSE second

\* strlen() and the bytes, as in fillSender(), fillBuff() and fillHandle()
fillHandle(handle) == << Len(handle) >> \o handle

fillText(text) == IF text = NULL THEN << >> ELSE Take(text, MAX_SEND_TXT)

fillChatHeader(flag, pduLen) == << pduLen \div 256, pduLen % 256, flag >>

\* The PDU of a flag and of what follows it.
PDU(flag, body) == fillChatHeader(flag, 3 + Len(body)) \o body

\* Mutant of proc_B: the flag is not counted.
proc_BShort(stdbuf, sendHandle) ==
  LET body == fillHandle(sendHandle) \o fillText(findFirstHandle(stdbuf))
  IN  fillChatHeader(4, 2 + Len(body)) \o body

proc_B(stdbuf, sendHandle) ==
  PDU(4, fillHandle(sendHandle) \o fillText(findFirstHandle(stdbuf)))

\* Mutant of proc_M: it steps to the next handle before it copies one.
proc_MFromSecond(stdbuf, sendHandle) ==
  LET num == getHandleNum(stdbuf)
      from[i \in 0 .. 9] == IF i = 0 THEN findFirstHandle(stdbuf)
                                     ELSE stepString(from[i - 1])
      handles == [i \in 1 .. num |-> fillHandle(findStr(from[i], MAX_HANDLE_SIZE))]
  IN  PDU(5, fillHandle(sendHandle) \o << num % 256 >> \o FlattenSeq(handles)
               \o fillText(from[IF num = -1 THEN 0 ELSE num]))

\* A number of -1 is stored as the byte 255, and no handle is copied.
proc_M(stdbuf, sendHandle) ==
  LET num == getHandleNum(stdbuf)
      from[i \in 0 .. 9] == IF i = 0 THEN findFirstHandle(stdbuf)
                                     ELSE stepString(from[i - 1])
      handles == [i \in 1 .. num |->
                    fillHandle(findStr(from[i - 1], MAX_HANDLE_SIZE))]
  IN  PDU(5, fillHandle(sendHandle) \o << num % 256 >> \o FlattenSeq(handles)
               \o fillText(from[IF num = -1 THEN 0 ELSE num]))

\* What sendToServer() sends for a line; nothing for one that is no command.
procStdin(stdbuf, sendHandle) ==
  CASE findType(stdbuf) = TYPE_M -> proc_M(stdbuf, sendHandle)
    [] findType(stdbuf) = TYPE_B -> proc_B(stdbuf, sendHandle)
    [] findType(stdbuf) = TYPE_E -> PDU(8, << >>)
    [] findType(stdbuf) = TYPE_L -> PDU(10, << >>)
    [] OTHER -> << >>

login(handle) == PDU(1, fillHandle(handle))

-----------------------------------------------------------------------------
\* From a PDU to its parts.

\* What recv() is asked for: the length, then as many bytes as it says.
ntohs(pdu) == 256 * pdu[1] + pdu[2]
messageOf(pdu) == SubSeq(pdu, 3, ntohs(pdu))

\* char is signed.
signed(byte) == IF byte > 127 THEN byte - 256 ELSE byte

flagOf(message) == message[1]

findSender(message) == SubSeq(message, 3, 2 + message[2])

createStrHandle(message) == Take(findSender(message), MAX_HANDLE_SIZE)

findNumHandles(message) == signed(message[3 + message[2]])

\* The length byte of a destination, by nextHandle() from the first.
destHandleAt(message, num) ==
  LET at[i \in 1 .. 9] == IF i = 1 THEN 4 + message[2]
                          ELSE at[i - 1] + message[at[i - 1]] + 1
  IN  at[num]

\* getHandle()
findDestHandle(message, num) ==
  LET at == destHandleAt(message, num)
  IN  SubSeq(message, at + 1, at + message[at])

findTextStart(message) ==
  LET at == destHandleAt(message, findNumHandles(message))
  IN  at + message[at] + 1

\* textStart - dataStart is one less than the index.
findTextLen(message, pduLen) == pduLen - (findTextStart(message) - 1) - 3 + 1

getText(message, pduLen) ==
  SubSeq(message, findTextStart(message),
         findTextStart(message) + findTextLen(message, pduLen) - 1)

\* flag4resp() and findTextLen4()
getText4(message, pduLen) ==
  LET n == Len(findSender(message))
  IN  SubSeq(message, 3 + n, 2 + n + (pduLen - n - 3 - 1))

-----------------------------------------------------------------------------
\* What the server sends.

\* The message without its flag behind a new header.
createNewMessage(flag, pduLen, message) ==
  fillChatHeader(flag, pduLen) \o SubSeq(message, 2, 1 + pduLen - 3)

sendFlag7(destHandle) ==
  createNewMessage(7, 3 + 1 + Len(destHandle),
                   << 7 >> \o fillHandle(destHandle))

\* fillFlag12() as sendFlag12() uses it
fillFlag12(handle) ==
  createNewMessage(12, 2 + 1 + 1 + Len(handle), << 12 >> \o fillHandle(handle))

\* fillFlag11(), FLAG_11_LEN bytes of which the last four are never filled in.
fillFlag11(len) ==
  << 0, 11, 11 >> \o << 0, 0, len \div 256, len % 256 >> \o << 0, 0, 0, 0 >>

\* Mutant of flag11Count: only the last of the four bytes is read.
flag11CountLow(message) == message[5]

flag11Count(message) ==
  ((message[2] * 256 + message[3]) * 256 + message[4]) * 256 + message[5]
=============================================================================
