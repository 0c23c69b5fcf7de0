----------------------------- MODULE HandleList -----------------------------
(***************************************************************************)
(* The linked list of logged-in clients: 2A:Chat/linkedlist.c.  A list is a  *)
(* sequence of nodes, its head first; a pointer to a node is its position,   *)
(* and 0 stands for NULL.                                                     *)
(***************************************************************************)
EXTENDS Naturals, Sequences, SequencesExt

makeNode(handle, socketNum) == [handle |-> handle, socketNum |-> socketNum]

makeLinkedList == << >>

\* Mutant of available: the walk does not get past the head.
availableAtHead(list, handle) == list = << >> \/ list[1].handle # handle

available(list, handle) ==
  \A i \in DOMAIN list : list[i].handle # handle

\* A node goes in front; one whose handle is taken is not added.
addNode(list, node) ==
  IF available(list, node.handle) THEN << node >> \o list ELSE list

findListLength(list) == Len(list)

\* The walks stop at the first match.
IsFirstNamed(list, handle, i) ==
  /\ i \in DOMAIN list
  /\ list[i].handle = handle
  /\ \A j \in 1 .. i - 1 : list[j].handle # handle

IsFirstOn(list, socketNum, i) ==
  /\ i \in DOMAIN list
  /\ list[i].socketNum = socketNum
  /\ \A j \in 1 .. i - 1 : list[j].socketNum # socketNum

\* The socket of the client with this handle, 0 when there is none.
findSocket(list, handle) ==
  IF available(list, handle)
  THEN 0
  ELSE list[CHOOSE i \in DOMAIN list : IsFirstNamed(list, handle, i)].socketNum

\* The node of the client on this socket, NULL when there is none.
findNode(list, socketNum) ==
  IF \A i \in DOMAIN list : list[i].socketNum # socketNum
  THEN 0
  ELSE CHOOSE i \in DOMAIN list : IsFirstOn(list, socketNum, i)

\* Mutant of removeNode: it forgets the nodes in front of the one removed.
removeNodeAndAllBefore(list, node) == SubSeq(list, node + 1, Len(list))

\* Unlinks the first node that has the handle of the one given.
removeNode(list, node) ==
  IF node = 0
  THEN list
  ELSE RemoveAt(list, CHOOSE i \in DOMAIN list :
                        IsFirstNamed(list, list[node].handle, i))
=============================================================================
