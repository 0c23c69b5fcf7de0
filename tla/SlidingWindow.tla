---------------------------- MODULE SlidingWindow ----------------------------
(***************************************************************************)
(* The ring buffer of 3A:Rcopy/buffer.c.  Sender and receiver each own one.  *)
(* A slot holds one chunk of the file, or nothing.  A chunk is named by the  *)
(* position of the read() that produced it (1, 2, ...); NoData names the     *)
(* zero-length payload resend() builds when it finds an empty slot.          *)
(*                                                                           *)
(* buffer.c keeps the stale bytes of a deleted element and only clears its   *)
(* flag.  Every caller looks at the flag before it uses the bytes, so here   *)
(* an empty slot has no content.                                             *)
(***************************************************************************)
EXTENDS Integers

CONSTANT WindowSize     \* argv[3] of rcopy, sent to the server in FNAME

\* args.c: "Window size needs to be greater than 1" is printed for sizes
\* below 1; that is the only test on it.
ASSUME WindowSizeAssumption == WindowSize \in Nat \ {0}

EMPTY  == -1
NoData == 0

Slots == 0 .. WindowSize - 1

Index(seqNum) == seqNum % WindowSize

createWindow == [i \in Slots |-> EMPTY]

addElement(window, seqNum, element) ==
  [window EXCEPT ![Index(seqNum)] = element]

deleteElement(window, seqNum) ==
  [window EXCEPT ![Index(seqNum)] = EMPTY]

getElement(window, seqNum) == window[Index(seqNum)]

isEmptySpot(window, seqNum) == window[Index(seqNum)] = EMPTY

isWindowEmpty(window) == \A i \in Slots : window[i] = EMPTY

isWindowFull(window) == \A i \in Slots : window[i] # EMPTY

\* Mutant of removeFromBuffer: the acknowledged number goes too.
removeFromBufferTooFar(window, lower, seqNum) ==
  [i \in Slots |-> IF \E l \in lower .. seqNum : Index(l) = i
                   THEN EMPTY
                   ELSE window[i]]

\* removeFromBuffer of server.c: one deleteElement for each sequence number
\* from the lower bound up to, not including, the acknowledged one.
removeFromBuffer(window, lower, seqNum) ==
  [i \in Slots |-> IF \E l \in lower .. seqNum - 1 : Index(l) = i
                   THEN EMPTY
                   ELSE window[i]]
=============================================================================
