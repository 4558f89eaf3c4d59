-------------------------- MODULE AbstractRegistry --------------------------
(***************************************************************************)
(* What the chat server promises of names: a name belongs to one member,   *)
(* to one room, or to nobody; a room is made of members; and whoever       *)
(* leaves is gone from all rooms at once.                                  *)
(***************************************************************************)
EXTENDS Integers, FiniteSets

CONSTANT Names

VARIABLES
  members,     \* the names that clients have
  rooms        \* for each name the members of the room, none if it is none

vars == <<members, rooms>>

Init == members = {} /\ rooms = [n \in Names |-> {}]

Free(n) == n \notin members /\ rooms[n] = {}

Join(n) ==
  /\ Free(n)
  /\ members' = members \cup {n}
  /\ UNCHANGED rooms

Create(r, room) ==
  /\ Free(r)
  /\ room \subseteq members
  /\ Cardinality(room) >= 2
  /\ rooms' = [rooms EXCEPT ![r] = room]
  /\ UNCHANGED members

Leave(n) ==
  /\ n \in members
  /\ members' = members \ {n}
  /\ rooms' = [r \in Names |-> rooms[r] \ {n}]

Next ==
  \E n \in Names : \/ Join(n)
                   \/ Leave(n)
                   \/ \E room \in SUBSET Names : Create(n, room)

Spec == Init /\ [][Next]_vars
=============================================================================
