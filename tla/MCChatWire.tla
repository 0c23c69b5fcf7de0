----------------------------- MODULE MCChatWire -----------------------------
(* Model-checking instance of ChatWire: a command and up to MaxTokens more     *)
(* words or spaces.                                                           *)
EXTENDS ChatWire

CONSTANTS MaxTokens

\* %M, " %m", %B and a %M with a letter behind it
Commands == {<< 37, 77 >>, << 32, 37, 109 >>, << 37, 66 >>, << 37, 77, 97 >>}
\* a space, and the words 2, 0, a and aaa behind one
Tokens == {<< 32 >>, << 32, 50 >>, << 32, 48 >>, << 32, 97 >>, << 32, 97, 97, 97 >>}
TypedInstance ==
  {c \o FlattenSeq(t) : c \in Commands, t \in SeqOf(Tokens, MaxTokens)}
    \cup {<< 37, 76 >>, << 37, 101 >>, << 97 >>, << 37 >>}
NamesInstance == {<< 97 >>, << 98, 99 >>}
LengthsInstance == {0, 1, 255, 256, 65535}
=============================================================================
