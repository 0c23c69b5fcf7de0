------------------------------ MODULE ChatRoom ------------------------------
(***************************************************************************)
(* What the chat server promises about who is in the room: nobody enters      *)
(* under a handle that is in use, and nobody is put out who has not asked to  *)
(* leave, gone away or been refused, until the room itself closes.            *)
(***************************************************************************)
CONSTANTS Clients, Handles

VARIABLES
  handle,        \* what each client calls itself
  members,       \* who is in the room
  leaving,       \* who has no claim to stay
  open           \* the room is there

roomVars == <<handle, members, leaving, open>>

Init ==
  /\ handle \in [Clients -> Handles]
  /\ members = {} /\ leaving = {} /\ open = TRUE

Enter(c) ==
  /\ open /\ c \notin members
  /\ \A d \in members : handle[d] # handle[c]
  /\ members' = members \cup {c}
  /\ UNCHANGED <<handle, leaving, open>>

WantToLeave(c) ==
  /\ leaving' = leaving \cup {c}
  /\ UNCHANGED <<handle, members, open>>

Leave(c) ==
  /\ c \in members /\ c \in leaving
  /\ members' = members \ {c}
  /\ UNCHANGED <<handle, leaving, open>>

Shut ==
  /\ open /\ open' = FALSE
  /\ members' = {} /\ leaving' = Clients
  /\ UNCHANGED handle

Next ==
  \/ \E c \in Clients : Enter(c) \/ WantToLeave(c) \/ Leave(c)
  \/ Shut

Spec == Init /\ [][Next]_roomVars
=============================================================================
