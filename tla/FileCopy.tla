------------------------------- MODULE FileCopy -------------------------------
(***************************************************************************)
(* What a file transfer promises the person who runs rcopy, and all it       *)
(* promises: the output file grows by the chunks of the input file, in order *)
(* and without a gap; the copy is reported done only when the whole file is  *)
(* there; and nothing is written after the report.                           *)
(***************************************************************************)
EXTENDS Integers, Sequences

CONSTANT FileLength

VARIABLES
  copied,        \* the chunks of the output file
  status         \* "copying", then "done" or "failed"

copyVars == <<copied, status>>

Init == copied = << >> /\ status = "copying"

Grow ==
  /\ status = "copying"
  /\ Len(copied) < FileLength
  /\ copied' = Append(copied, Len(copied) + 1)
  /\ UNCHANGED status

Report ==
  /\ status = "copying"
  /\ Len(copied) = FileLength
  /\ status' = "done"
  /\ UNCHANGED copied

Fail ==
  /\ status = "copying"
  /\ status' = "failed"
  /\ UNCHANGED copied

Next == Grow \/ Report \/ Fail

Spec == Init /\ [][Next]_copyVars
=============================================================================
