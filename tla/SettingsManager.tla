-------------------------- MODULE SettingsManager --------------------------
(***************************************************************************)
(* Who decides what the error library does: Lab7UDP/libcpe464,                *)
(* SettingsManager.cpp, and the part of PacketManager.cpp it sets.  A          *)
(* variable of the environment comes before what the program asks for in      *)
(* sendErr_init().                                                             *)
(*                                                                           *)
(* An environment gives each key Unset, or what its text holds: for a number   *)
(* the number or NotANumber, for a list the sequence of its tokens.            *)
(***************************************************************************)
EXTENDS Integers, Sequences, SequencesExt

CONSTANTS
  Unset, NotANumber,
  UINT32          \* 2^32

ASSUME SettingsAssumption ==
  /\ Unset # NotANumber /\ NotANumber \notin Int
  /\ UINT32 \in Nat \ {0}

\* The events of MsgEvents/: a drop event drops everything or a list of
\* message numbers.
Event(kind, dropAll, dropList) ==
  [kind |-> kind, dropAll |-> dropAll, dropList |-> dropList]
infoSeqNo     == Event("info", FALSE, {})
errorDrop     == Event("drop", TRUE, {})
errorFlipBits == Event("flip", FALSE, {})
setDropSpecific(dropList) == Event("drop", FALSE, dropList)

Events == [kind : {"info", "drop", "flip"}, dropAll : BOOLEAN, dropList : SUBSET Nat]

\* entry.isSet: a number that cannot be read counts as not set, a list never.
isSet(value) == value \notin {Unset, NotANumber}

\* The tokens up to the first that is no number
parser2ListLong(tokens) ==
  LET n == CHOOSE k \in 0 .. Len(tokens) :
             /\ \A i \in 1 .. k : tokens[i] # NotANumber
             /\ k < Len(tokens) => tokens[k + 1] = NotANumber
  IN  SubSeq(tokens, 1, n)

\* Negative numbers are left out; the others lose what does not fit.
parserLong2Uint32(tokens) ==
  {v % UINT32 : v \in {w \in Range(parser2ListLong(tokens)) : w >= 0}}

-----------------------------------------------------------------------------
\* g_PktMgr, before and after the SettingsManager has read the environment.

PacketManager(time) ==
  [rate |-> 0, msgNo |-> 0, seed |-> time, standard |-> << >>, chance |-> << >>,
   history |-> << >>]

addMsgEvent_Standard(mgr, event) == [mgr EXCEPT !.standard = Append(@, event)]
addMsgEvent_Random(mgr, event)   == [mgr EXCEPT !.chance = Append(@, event)]

loadEnvData_SeedRand(mgr, env) ==
  IF isSet(env.seed) THEN [mgr EXCEPT !.seed = env.seed] ELSE mgr

loadEnvData_ErrRate(mgr, env) ==
  IF isSet(env.rate) THEN [mgr EXCEPT !.rate = env.rate] ELSE mgr

loadEnvData_ErrDrop(mgr, env) ==
  IF env.drop = Unset THEN mgr
  ELSE IF parserLong2Uint32(env.drop) = {}
  THEN addMsgEvent_Random(mgr, errorDrop)
  ELSE addMsgEvent_Standard(mgr, setDropSpecific(parserLong2Uint32(env.drop)))

\* A list of messages to flip is refused ("TODO implement").
loadEnvData_ErrFlip(mgr, env) ==
  IF env.flip # Unset /\ parserLong2Uint32(env.flip) = {}
  THEN addMsgEvent_Random(mgr, errorFlipBits)
  ELSE mgr

loadEnvData(env, time) ==
  loadEnvData_ErrFlip(
    loadEnvData_ErrDrop(
      loadEnvData_ErrRate(
        loadEnvData_SeedRand(PacketManager(time), env), env), env), env)

-----------------------------------------------------------------------------
\* setUserMode_...: refused when the environment has spoken.

setUserMode_SeedRand(mgr, env, seedValue) ==
  IF isSet(env.seed) THEN mgr ELSE [mgr EXCEPT !.seed = seedValue]

setUserMode_ErrRate(mgr, env, rate) ==
  IF isSet(env.rate) THEN mgr ELSE [mgr EXCEPT !.rate = rate]

\* Mutant of setUserMode_ErrDrop: the environment is not asked.
setUserMode_ErrDropAnyway(mgr, env, isEnabled) ==
  IF isEnabled THEN addMsgEvent_Random(mgr, errorDrop) ELSE mgr

setUserMode_ErrDrop(mgr, env, isEnabled) ==
  IF env.drop = Unset /\ isEnabled
  THEN addMsgEvent_Random(mgr, errorDrop) ELSE mgr

setUserMode_ErrFlip(mgr, env, isEnabled) ==
  IF env.flip = Unset /\ isEnabled
  THEN addMsgEvent_Random(mgr, errorFlipBits) ELSE mgr
=============================================================================
