------------------------------- MODULE MCChat -------------------------------
(***************************************************************************)
(* Instances of Chat for TLC.                                              *)
(***************************************************************************)
EXTENDS Chat

\* Three processes that each have a name of their own, two that do, and two
\* that give the same one.
ThreeProcs  == 1 .. 3
ThreeNames  == 1 .. 3
EachOwn     == [p \in ThreeProcs |-> p]
TwoProcs    == 1 .. 2
OwnNames    == [p \in TwoProcs |-> p]

\* Four names for groups, and groups of two members, the one who creates the
\* group being one of them.
SevenNames == 1 .. 7
FourGroups == 4 .. 7
Pairings   == {{2}, {3}}

\* Constraint: one user at a time does something, the server hears one in each
\* round (so its walk over the clients cannot go astray), only the first one
\* creates groups, and until somebody leaves they are created in this order,
\* which makes the second name an inner node of the map with two children, and
\* the last one a left child of the right one.
Created == <<4, 5, 7, 6>>
OneCreates ==
  /\ Cardinality({p \in Procs : phase[p] \notin {"new", "idle", "left"}}) <= 1
  /\ Cardinality(readfds) <= 1
  /\ \A p \in Procs \ {1} : asked[p] = 0
  /\ \/ \E p \in Procs : phase[p] = "left"
     \/ \A i, j \in DOMAIN Created :
          i < j /\ groups[Created[j]] # {} => groups[Created[i]] # {}

\* View: all states in which the server is gone count as one.
DownAlike == IF Down THEN <<stage>> ELSE vars
=============================================================================
