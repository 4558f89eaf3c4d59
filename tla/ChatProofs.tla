----------------------------- MODULE ChatProofs -----------------------------
(***************************************************************************)
(* What holds of the chat for all processes, names and requests: first     *)
(* what also holds when the loop over the groups passes over one (MayMiss) *)
(* and a message to a group puts a member that has left back into the map, *)
(* a ghost; then what holds of the registry as long as that cannot happen. *)
(***************************************************************************)
EXTENDS Chat, FiniteSetTheorems, SequenceTheorems, WellFoundedInduction, TLAPS

Msgs == [kind : MessageKinds, req : Nat]

\* A stream to a client never ends after the first of the two messages by
\* which a text is passed on.
Whole(s) == s # << >> => s[Len(s)].kind # "SEND"

\* A connection that waits to be accepted is the only one of its process, and
\* has no descriptor; main accepts only if there is one; and no client has the
\* standard input or the listening socket.
Backlogged ==
  /\ stage = "connect" => backlog # << >>
  /\ \A p \in Procs : sock[p] \notin {StdinFd, ListenFd}
  /\ \A i \in DOMAIN backlog : phase[backlog[i]] # "new" /\ sock[backlog[i]] = NoFd
  /\ \A i, j \in DOMAIN backlog : backlog[i] = backlog[j] => i = j
  /\ \A p \in Procs : phase[p] = "new" => sock[p] = NoFd

AskedFor ==
  /\ \A p \in Procs : \A i \in DOMAIN toServer[p] :
       toServer[p][i].cmd = "create_group" => toServer[p][i].name \in GroupNames
  /\ Groups \subseteq GroupNames

\* The names that a process gave, without the ghosts of WithGhosts.
Owned == {n \in Registered : clients[n] # StdinFd}

SocketsHold ==
  \A n \in Owned :
    \E p \in Procs : /\ sock[p] = clients[n]
                     /\ NameOf[p] = n
                     /\ \A q \in Procs \ {p} : sock[q] # sock[p]

\* The walk meets no ghost: it takes place only in rounds without a line.
GhostsUnvisited ==
  /\ walk \subseteq Owned
  /\ stage = "walk" => StdinFd \notin readfds

IInv ==
  /\ TypeOK
  /\ SocketsHold
  /\ GhostsUnvisited
  /\ Backlogged
  /\ AskedFor
  /\ \A p \in Procs : Whole(toClient[p])

-----------------------------------------------------------------------------
(* Operators of the model. *)

LEMMA MinIsIn ==
  ASSUME NEW S, S \subseteq Nat, S # {}
  PROVE  Min(S) \in S /\ \A y \in S : Min(S) <= y
<1>. DEFINE Less == {ss \in Nat \X Nat : ss[1] < ss[2]}
<1>1. OpToRel(<, Nat) = Less
  BY Zenon DEF OpToRel
<1>2. IsWellFoundedOn(Less, Nat)
  BY <1>1, NatLessThanWellFounded, Zenon
<1>3. PICK x \in S : \A y \in S : ~ (<<y, x>> \in Less)
  <2>. HIDE DEF Less
  <2>. QED
    BY <1>2, WFMin
<1>4. ASSUME NEW y \in S PROVE x <= y
  <2>1. x \in Nat /\ y \in Nat
    OBVIOUS
  <2>2. <<y, x>> \in Less <=> y < x
    BY <2>1
  <2>. QED
    BY <1>3, <2>1, <2>2
<1>5. \E z \in S : \A y \in S : z <= y
  BY <1>4
<1>. QED
  BY <1>5 DEF Min

\* A process without a descriptor leaves one free for itself.
LEMMA FreeFdIsFree ==
  ASSUME IInv, NEW p \in Procs, sock[p] = NoFd
  PROVE  /\ FreeFd \in Nat /\ FreeFd \notin {NoFd, StdinFd, ListenFd}
         /\ \A q \in Procs : sock[q] # FreeFd
<1>. DEFINE N    == Cardinality(Procs)
            fds  == ListenFd + 1 .. ListenFd + N
            free == {fd \in fds : \A q \in Procs : sock[q] # fd}
<1>1. N \in Nat
  BY ProcsAssumption, FS_CardinalityType
<1>2. fds \subseteq Nat /\ NoFd \notin fds /\ StdinFd \notin fds /\ ListenFd \notin fds
  BY <1>1 DEF ListenFd, StdinFd, NoFd
<1>3. free # {}
  <2>. SUFFICES ASSUME free = {} PROVE FALSE
    OBVIOUS
  <2>1. \A fd \in fds : \E q \in Procs \ {p} : sock[q] = fd
    BY <1>2
  <2>. DEFINE f == [fd \in fds |-> CHOOSE q \in Procs \ {p} : sock[q] = fd]
  <2>2. f \in [fds -> Procs \ {p}] /\ \A fd \in fds : sock[f[fd]] = fd
    BY <2>1
  <2>3. IsFiniteSet(Procs \ {p}) /\ Cardinality(Procs \ {p}) = N - 1
    BY ProcsAssumption, FS_RemoveElement
  <2>4. IsFiniteSet(fds) /\ Cardinality(fds) = N
    <3>. DEFINE lo == ListenFd + 1
                hi == ListenFd + N
    <3>1. lo \in Int /\ hi \in Int /\ (IF lo > hi THEN 0 ELSE hi - lo + 1) = N
      BY <1>1 DEF ListenFd
    <3>. HIDE DEF lo, hi
    <3>2. IsFiniteSet(lo .. hi)
          /\ Cardinality(lo .. hi) = IF lo > hi THEN 0 ELSE hi - lo + 1
      BY <3>1, FS_Interval
    <3>. QED
      BY <3>1, <3>2 DEF lo, hi
  <2>5. Cardinality(Procs \ {p}) < Cardinality(fds)
    BY <1>1, <2>3, <2>4
  <2>. HIDE DEF f, fds
  <2>6. PICK x, y \in fds : x # y /\ f[x] = f[y]
    BY <2>2, <2>3, <2>4, <2>5, FS_PigeonHole
  <2>. QED
    BY <2>2, <2>6
<1>4. free \subseteq Nat
  BY <1>2
<1>5. Min(free) \in free
  <2>. HIDE DEF free
  <2>. QED
    BY <1>3, <1>4, MinIsIn
<1>6. FreeFd = Min(free)
  BY DEF FreeFd
<1>. QED
  BY <1>2, <1>5, <1>6

\* A registered name has the connection of one process, which gave this name.
LEMMA OwnerIs ==
  ASSUME SocketsHold, NEW n \in Owned
  PROVE  /\ Owner(n) \in Procs
         /\ sock[Owner(n)] = clients[n]
         /\ NameOf[Owner(n)] = n
         /\ \A q \in Procs : sock[q] = clients[n] => q = Owner(n)
<1>1. PICK p \in Procs : /\ sock[p] = clients[n]
                         /\ NameOf[p] = n
                         /\ \A q \in Procs \ {p} : sock[q] # sock[p]
  BY DEF SocketsHold
<1>2. Owner(n) = p
  BY <1>1 DEF Owner
<1>. QED
  BY <1>1, <1>2

\* The walk stands on a client that is registered.
LEMMA VisitedIs ==
  ASSUME IInv, NEW n \in Names, Visits(n)
  PROVE  n \in walk /\ n \in Owned /\ n \in Registered
<1>1. /\ walk \subseteq Owned /\ walk \subseteq Nat /\ walk # {} /\ n = Min(walk)
      /\ Owned \subseteq Registered
  BY NamesAssumption DEF IInv, GhostsUnvisited, Visits, Owned, Registered
<1>. QED
  BY <1>1, MinIsIn

\* Messages that are passed on whole keep the streams whole.
LEMMA PushedIs ==
  ASSUME NEW inbox \in [Procs -> Seq(Msgs)], \A p \in Procs : Whole(inbox[p]),
         NEW ps, NEW ms \in Seq(Msgs), ms # << >>, Whole(ms)
  PROVE  /\ Pushed(inbox, ps, ms) \in [Procs -> Seq(Msgs)]
         /\ \A p \in Procs : Whole(Pushed(inbox, ps, ms)[p])
<1>1. ASSUME NEW p \in Procs
      PROVE  inbox[p] \o ms \in Seq(Msgs) /\ Whole(inbox[p] \o ms)
  <2>1. /\ inbox[p] \o ms \in Seq(Msgs)
        /\ Len(inbox[p] \o ms) = Len(inbox[p]) + Len(ms)
        /\ \A i \in 1 .. Len(inbox[p]) + Len(ms) : (inbox[p] \o ms)[i] =
              IF i <= Len(inbox[p]) THEN inbox[p][i] ELSE ms[i - Len(inbox[p])]
    BY ConcatProperties
  <2>2. /\ Len(inbox[p]) \in Nat /\ Len(ms) \in Nat /\ Len(ms) # 0
        /\ ~ Len(inbox[p]) + Len(ms) <= Len(inbox[p])
        /\ Len(inbox[p]) + Len(ms) - Len(inbox[p]) = Len(ms)
        /\ Len(inbox[p]) + Len(ms) \in 1 .. Len(inbox[p]) + Len(ms)
    <3>1. Len(inbox[p]) \in Nat /\ Len(ms) \in Nat /\ Len(ms) # 0
      OBVIOUS
    <3>. QED
      BY <3>1
  <2>3. (inbox[p] \o ms)[Len(inbox[p] \o ms)] = ms[Len(ms)]
    BY <2>1, <2>2
  <2>. QED
    BY <2>1, <2>3 DEF Whole
<1>. QED
  BY <1>1 DEF Pushed

LEMMA AnswersAreWhole ==
  /\ \A kind \in MessageKinds \ {"SEND"}, no \in Nat :
       LET ms == <<Message(kind, no)>>
       IN  ms \in Seq(Msgs) /\ ms # << >> /\ Whole(ms)
  /\ SendPop \in Seq(Msgs) /\ SendPop # << >> /\ Whole(SendPop)
  BY DEF Message, MessageKinds, Msgs, SendPop, Whole

-----------------------------------------------------------------------------
LEMMA InitIInv == Init => IInv
<1>. SUFFICES ASSUME Init PROVE IInv
  OBVIOUS
<1>1. /\ clients \in [Names -> {NoFd, StdinFd} \cup Nat]
      /\ \A n \in Names : clients[n] = NoFd /\ groups[n] = {} /\ clientsList[n] = 0
      /\ clientsList \in [Names -> Nat] /\ groups \in [Names -> SUBSET Names]
      /\ sock \in [Procs -> {NoFd} \cup Nat]
  BY DEF Init, ServerInit
<1>2. Owned = {} /\ Groups = {}
  BY <1>1 DEF Owned, Registered, Groups
<1>3. /\ backlog = << >> /\ backlog \in Seq(Procs)
      /\ toServer \in [Procs -> Seq(Requests)]
      /\ toClient \in [Procs -> Seq(Msgs)]
      /\ \A p \in Procs : toServer[p] = << >> /\ toClient[p] = << >>
  BY DEF Init, ServerInit
<1>4. TypeOK
  BY <1>1, <1>3 DEF Init, ServerInit, TypeOK, Phases, Msgs
<1>5. SocketsHold /\ GhostsUnvisited
  BY <1>2 DEF Init, ServerInit, SocketsHold, GhostsUnvisited
<1>6. Backlogged /\ AskedFor /\ \A p \in Procs : Whole(toClient[p])
  BY <1>1, <1>2, <1>3
  DEF Init, ServerInit, Backlogged, AskedFor, Whole, StdinFd, ListenFd, NoFd
<1>. QED
  BY <1>4, <1>5, <1>6 DEF IInv

-----------------------------------------------------------------------------
(* What a client does: nothing to the registry, and little to the net. *)

ClientEffect(p) ==
  /\ UNCHANGED mainVars /\ UNCHANGED registryVars
  /\ \/ backlog' = backlog
     \/ phase[p] = "new" /\ phase'[p] # "new" /\ backlog' = Append(backlog, p)
  /\ phase' \in [Procs -> Phases]
  /\ \A q \in Procs : phase[q] # "new" => phase'[q] # "new"
  /\ \/ toServer' = toServer
     \/ \E r \in Requests :
          /\ r.cmd = "create_group" => r.name \in GroupNames
          /\ toServer' = [toServer EXCEPT ![p] = Append(@, r)]
  /\ toClient' \in [Procs -> Seq(Msgs)]
  /\ \A q \in Procs : Whole(toClient'[q])
  /\ closed' \subseteq Procs
  /\ asked' \in [Procs -> Nat]

LEMMA TailIsWhole ==
  ASSUME NEW s \in Seq(Msgs), Whole(s), s # << >>
  PROVE  Tail(s) \in Seq(Msgs) /\ Whole(Tail(s))
<1>1. /\ Tail(s) \in Seq(Msgs) /\ Len(Tail(s)) = Len(s) - 1
      /\ \A i \in 1 .. Len(Tail(s)) : Tail(s)[i] = s[i + 1]
  BY HeadTailProperties
<1>2. ASSUME Tail(s) # << >> PROVE Tail(s)[Len(Tail(s))] = s[Len(s)]
  <2>1. Len(Tail(s)) \in Nat /\ Len(Tail(s)) # 0 /\ Len(s) \in Nat
    BY <1>1, <1>2
  <2>2. Len(Tail(s)) \in 1 .. Len(Tail(s)) /\ Len(Tail(s)) + 1 = Len(s)
    BY <1>1, <2>1
  <2>. QED
    BY <1>1, <2>2
<1>. QED
  BY <1>1, <1>2 DEF Whole

\* A SEND is followed by its text.
LEMMA TextFollows ==
  ASSUME NEW s \in Seq(Msgs), Whole(s), s # << >>, Head(s).kind = "SEND"
  PROVE  Tail(s) # << >>
<1>1. Len(s) \in Nat /\ Len(s) # 0 /\ Head(s) = s[1]
  OBVIOUS
<1>2. Len(s) # 1
  BY <1>1 DEF Whole
<1>3. Len(Tail(s)) = Len(s) - 1 /\ Len(<< >>) = 0
  BY HeadTailProperties
<1>4. Len(Tail(s)) # 0
  BY <1>1, <1>2, <1>3
<1>. QED
  BY <1>3, <1>4

LEMMA InboxIs ==
  ASSUME IInv, NEW p \in Procs
  PROVE  toClient[p] \in Seq(Msgs) /\ Whole(toClient[p])
  BY DEF IInv, TypeOK, Msgs

\* The stream to p becomes shorter.
LEMMA InboxBecomes ==
  ASSUME IInv, NEW p \in Procs, NEW s \in Seq(Msgs), Whole(s),
         toClient' = [toClient EXCEPT ![p] = s]
  PROVE  toClient' \in [Procs -> Seq(Msgs)] /\ \A q \in Procs : Whole(toClient'[q])
  BY DEF IInv, TypeOK, Msgs

LEMMA LeavesIs ==
  ASSUME IInv, NEW p \in Procs, Leaves(p)
  PROVE  /\ phase' \in [Procs -> Phases]
         /\ \A q \in Procs : phase[q] # "new" => phase'[q] # "new"
         /\ toClient' \in [Procs -> Seq(Msgs)]
         /\ \A q \in Procs : Whole(toClient'[q])
         /\ closed' \subseteq Procs
<1>1. << >> \in Seq(Msgs) /\ Whole(<< >>)
  BY DEF Whole
<1>2. toClient' = [toClient EXCEPT ![p] = << >>]
  BY DEF Leaves
<1>. QED
  BY <1>1, <1>2, InboxBecomes DEF Leaves, Moves, IInv, TypeOK, Phases

LEMMA MovesIs ==
  ASSUME IInv, NEW p \in Procs, NEW to \in Phases \ {"new"}, Moves(p, to)
  PROVE  /\ phase' \in [Procs -> Phases]
         /\ phase'[p] # "new"
         /\ \A q \in Procs : phase[q] # "new" => phase'[q] # "new"
  BY DEF Moves, IInv, TypeOK

LEMMA SameNet ==
  ASSUME IInv, toClient' = toClient, closed' = closed
  PROVE  /\ toClient' \in [Procs -> Seq(Msgs)]
         /\ \A q \in Procs : Whole(toClient'[q])
         /\ closed' \subseteq Procs
  BY DEF IInv, TypeOK, Msgs

LEMMA SameAsked ==
  ASSUME IInv, asked' = asked
  PROVE  asked' \in [Procs -> Nat]
  BY DEF IInv, TypeOK

LEMMA RequestIs ==
  ASSUME NEW cmd \in {"name", "create_group", "send", "who", "exit"}, NEW n \in Names,
         NEW ms \in MemberLists \cup {{}}, NEW no \in Nat
  PROVE  /\ Ask(cmd, n, ms, no) \in Requests
         /\ Ask(cmd, n, ms, no).cmd = cmd /\ Ask(cmd, n, ms, no).name = n
  BY DEF Ask, Requests

LEMMA UserEffect ==
  ASSUME IInv, NEW p \in Procs, UserStep(p)
  PROVE  ClientEffect(p)
<1>0. NameOf[p] \in Names /\ asked \in [Procs -> Nat] /\ 0 \in Nat
      /\ GroupNames \subseteq Names /\ asked[p] + 1 \in Nat
  BY NameOfAssumption, GroupNamesAssumption DEF IInv, TypeOK
<1>1. CASE Connect(p)
  <2>1. CASE Moves(p, "naming") /\ UNCHANGED <<toClient, closed>>
             /\ phase[p] = "new" /\ backlog' = Append(backlog, p)
    BY <1>1, <2>1, MovesIs, SameNet, SameAsked DEF Connect, ClientEffect, Phases
  <2>2. CASE Leaves(p) /\ UNCHANGED backlog
    BY <1>1, <2>2, LeavesIs, SameAsked DEF Connect, ClientEffect
  <2>. QED
    BY <1>1, <2>1, <2>2 DEF Connect
<1>2. CASE ReadsCommand(p)
  BY <1>2, MovesIs, SameNet, SameAsked DEF ReadsCommand, ClientEffect, Phases, netVars
<1>3. CASE Refuses(p)
  BY <1>3, MovesIs, SameNet, SameAsked DEF Refuses, ClientEffect, Phases, netVars
<1>4. CASE Asks(p)
  <2>1. CASE Leaves(p) /\ UNCHANGED <<asked, toServer>>
    BY <1>4, <2>1, LeavesIs, SameAsked DEF Asks, ClientEffect
  <2>2. CASE /\ asked' = [asked EXCEPT ![p] = @ + 1]
             /\ Moves(p, "waiting")
             /\ UNCHANGED <<toClient, closed>>
             /\ ~ (Leaves(p) /\ UNCHANGED <<asked, toServer>>)
    <3>1. \E r \in Requests : /\ r.cmd = "create_group" => r.name \in GroupNames
                              /\ Writes(p, r)
      <4>1. ASSUME NEW g \in GroupNames, NEW ms \in MemberLists,
                   Writes(p, Ask("create_group", g, ms, asked[p] + 1))
            PROVE  \E r \in Requests : /\ r.cmd = "create_group" => r.name \in GroupNames
                                       /\ Writes(p, r)
        <5>1. /\ Ask("create_group", g, ms, asked[p] + 1) \in Requests
              /\ Ask("create_group", g, ms, asked[p] + 1).name = g
          BY <1>0, RequestIs
        <5>. QED
          BY <4>1, <5>1
      <4>2. ASSUME NEW cmd \in {"send", "who"}, NEW n \in Names,
                   Writes(p, Ask(cmd, n, {}, asked[p] + 1))
            PROVE  \E r \in Requests : /\ r.cmd = "create_group" => r.name \in GroupNames
                                       /\ Writes(p, r)
        <5>1. /\ Ask(cmd, n, {}, asked[p] + 1) \in Requests
              /\ Ask(cmd, n, {}, asked[p] + 1).cmd # "create_group"
          BY <1>0 DEF Ask, Requests
        <5>. QED
          BY <4>2, <5>1
      <4>. QED
        BY <1>0, <1>4, <2>2, <4>1, <4>2 DEF Asks
    <3>2. asked' \in [Procs -> Nat]
      BY <1>0, <2>2
    <3>3. /\ phase' \in [Procs -> Phases]
          /\ \A q \in Procs : phase[q] # "new" => phase'[q] # "new"
      BY <2>2, MovesIs DEF Phases
    <3>. QED
      BY <1>4, <2>2, <3>1, <3>2, <3>3, SameNet DEF Asks, ClientEffect, Writes
  <2>. QED
    BY <1>4, <2>1, <2>2 DEF Asks
<1>5. CASE ExitsClient(p)
  <2>1. /\ Ask("exit", NameOf[p], {}, 0) \in Requests
        /\ Ask("exit", NameOf[p], {}, 0).cmd # "create_group"
    BY <1>0, RequestIs
  <2>. QED
    BY <1>5, <2>1, LeavesIs, SameAsked DEF ExitsClient, ClientEffect, Writes
<1>6. CASE Crashes(p)
  BY <1>6, LeavesIs, SameAsked DEF Crashes, ClientEffect
<1>. QED
  BY <1>1, <1>2, <1>3, <1>4, <1>5, <1>6 DEF UserStep

LEMMA SystemEffect ==
  ASSUME IInv, NEW p \in Procs, ClientStep(p)
  PROVE  ClientEffect(p)
<1>0. /\ NameOf[p] \in Names /\ 0 \in Nat
      /\ phase' = phase =>
           /\ phase' \in [Procs -> Phases]
           /\ \A q \in Procs : phase[q] # "new" => phase'[q] # "new"
  BY NameOfAssumption DEF IInv, TypeOK
<1>1. CASE SendName(p)
  <2>1. /\ Ask("name", NameOf[p], {}, 0) \in Requests
        /\ Ask("name", NameOf[p], {}, 0).cmd # "create_group"
    BY <1>0, RequestIs
  <2>. QED
    BY <1>1, <2>1, MovesIs, SameNet, SameAsked
    DEF SendName, ClientEffect, Phases, Writes
<1>2. ASSUME toClient[p] # << >>, toClient' = [toClient EXCEPT ![p] = Tail(@)]
      PROVE  toClient' \in [Procs -> Seq(Msgs)] /\ \A q \in Procs : Whole(toClient'[q])
  <2>1. Tail(toClient[p]) \in Seq(Msgs) /\ Whole(Tail(toClient[p]))
    BY <1>2, InboxIs, TailIsWhole
  <2>2. toClient' = [toClient EXCEPT ![p] = Tail(toClient[p])]
    BY <1>2
  <2>. QED
    BY <2>1, <2>2, InboxBecomes
<1>3. closed' = closed => closed' \subseteq Procs
  BY DEF IInv, TypeOK
<1>4. CASE Connected(p)
  <2>1. CASE Leaves(p)
    BY <1>4, <2>1, LeavesIs, SameAsked DEF Connected, ClientEffect
  <2>2. CASE /\ toClient' = [toClient EXCEPT ![p] = Tail(@)]
             /\ Moves(p, "idle")
             /\ UNCHANGED closed
    BY <1>2, <1>3, <1>4, <2>2, MovesIs, SameAsked DEF Connected, ClientEffect, Phases
  <2>. QED
    BY <1>4, <2>1, <2>2 DEF Connected
<1>5. CASE ReadsAnswer(p)
  BY <1>2, <1>3, <1>5, MovesIs, SameAsked DEF ReadsAnswer, ClientEffect, Phases
<1>6. CASE ReadsMessage(p)
  <2>1. CASE Leaves(p)
    BY <1>6, <2>1, LeavesIs, SameAsked DEF ReadsMessage, ClientEffect
  <2>2. CASE /\ Head(toClient[p]).kind = "SEND"
             /\ toClient' = [toClient EXCEPT ![p] = Tail(Tail(@))]
             /\ UNCHANGED <<phase, closed>>
    <3>1. Tail(toClient[p]) \in Seq(Msgs) /\ Whole(Tail(toClient[p]))
          /\ Tail(toClient[p]) # << >>
      BY <1>6, <2>2, InboxIs, TailIsWhole, TextFollows DEF ReadsMessage
    <3>2. Tail(Tail(toClient[p])) \in Seq(Msgs) /\ Whole(Tail(Tail(toClient[p])))
      BY <3>1, TailIsWhole
    <3>3. toClient' = [toClient EXCEPT ![p] = Tail(Tail(toClient[p]))]
      BY <2>2
    <3>4. toClient' \in [Procs -> Seq(Msgs)] /\ \A q \in Procs : Whole(toClient'[q])
      BY <3>2, <3>3, InboxBecomes
    <3>. QED
      BY <1>0, <1>3, <1>6, <2>2, <3>4, SameAsked DEF ReadsMessage, ClientEffect
  <2>3. CASE /\ toClient' = [toClient EXCEPT ![p] = Tail(@)]
             /\ UNCHANGED <<phase, closed>>
    BY <1>0, <1>2, <1>3, <1>6, <2>3, SameAsked DEF ReadsMessage, ClientEffect
  <2>. QED
    BY <1>6, <2>1, <2>2, <2>3 DEF ReadsMessage
<1>7. CASE LosesServer(p)
  BY <1>7, LeavesIs, SameAsked DEF LosesServer, ClientEffect
<1>. QED
  BY <1>1, <1>4, <1>5, <1>6, <1>7 DEF ClientStep

\* A step that adds at most ghosts to the registry.
Haunted ==
  /\ UNCHANGED <<clientsList, groups, sock>>
  /\ \E ns : clients' = WithGhosts(ns)

LEMMA SameIsHaunted ==
  ASSUME IInv, UNCHANGED registryVars
  PROVE  Haunted
<1>1. WithGhosts({}) = clients
  BY DEF WithGhosts, IInv, TypeOK
<1>. QED
  BY <1>1 DEF registryVars, Haunted

LEMMA HauntedIs ==
  ASSUME IInv, Haunted
  PROVE  /\ Registered \subseteq Registered' /\ Owned' = Owned
         /\ Groups' \subseteq GroupNames /\ SocketsHold'
         /\ clients' \in [Names -> {NoFd, StdinFd} \cup Nat]
         /\ clientsList' \in [Names -> Nat]
         /\ groups' \in [Names -> SUBSET Names]
         /\ sock' \in [Procs -> {NoFd} \cup Nat]
<1>1. clientsList' = clientsList /\ groups' = groups /\ sock' = sock
  BY DEF Haunted
<1>2. PICK ns : clients' = WithGhosts(ns)
  BY DEF Haunted
<1>3. clients \in [Names -> {NoFd, StdinFd} \cup Nat]
  BY DEF IInv, TypeOK
<1>4. /\ clients' \in [Names -> {NoFd, StdinFd} \cup Nat]
      /\ \A n \in Names : \/ clients'[n] = clients[n]
                          \/ clients[n] = NoFd /\ clients'[n] = StdinFd
  BY <1>2, <1>3 DEF WithGhosts, Registered
<1>5. Registered \subseteq Registered' /\ Owned' = Owned
  BY <1>4 DEF Registered, Owned, StdinFd, NoFd
<1>6. SocketsHold'
  <2>. SUFFICES ASSUME NEW n \in Owned
                PROVE  \E p \in Procs : /\ sock[p] = clients'[n]
                                        /\ NameOf[p] = n
                                        /\ \A q \in Procs \ {p} : sock[q] # sock[p]
    BY <1>1, <1>5 DEF SocketsHold
  <2>1. clients'[n] = clients[n]
    BY <1>4 DEF Owned, Registered
  <2>. QED
    BY <2>1 DEF IInv, SocketsHold
<1>7. Groups' = Groups
  BY <1>1 DEF Groups
<1>. QED
  BY <1>1, <1>4, <1>5, <1>6, <1>7 DEF IInv, TypeOK, AskedFor

LEMMA ClientIInv ==
  ASSUME IInv, NEW p \in Procs, ClientEffect(p)
  PROVE  IInv'
<1>1. /\ Registered \subseteq Registered' /\ Owned' = Owned
      /\ Groups' \subseteq GroupNames /\ SocketsHold'
      /\ clients' \in [Names -> {NoFd, StdinFd} \cup Nat]
      /\ clientsList' \in [Names -> Nat]
      /\ groups' \in [Names -> SUBSET Names]
      /\ sock' \in [Procs -> {NoFd} \cup Nat]
  BY SameIsHaunted, HauntedIs DEF ClientEffect
<1>2. stage' = stage /\ readfds' = readfds /\ walk' = walk /\ sock' = sock /\ groups' = groups
  BY DEF ClientEffect, mainVars, registryVars
<1>3. backlog' \in Seq(Procs) /\ Backlogged'
  <2>1. backlog \in Seq(Procs) /\ DOMAIN backlog = 1 .. Len(backlog)
    BY DEF IInv, TypeOK
  <2>2. CASE backlog' = backlog
    <3>1. \A i \in DOMAIN backlog : backlog[i] \in Procs
      BY <2>1
    <3>2. \A i \in DOMAIN backlog : phase'[backlog[i]] # "new" /\ sock'[backlog[i]] = NoFd
      BY <1>2, <3>1 DEF ClientEffect, IInv, Backlogged
    <3>3. \A q \in Procs : phase'[q] = "new" => sock'[q] = NoFd
      BY <1>2 DEF ClientEffect, IInv, Backlogged
    <3>4. \A i, j \in DOMAIN backlog : backlog[i] = backlog[j] => i = j
      BY DEF IInv, Backlogged
    <3>. QED
      BY <1>2, <2>1, <2>2, <3>2, <3>3, <3>4 DEF Backlogged, IInv
  <2>3. CASE phase[p] = "new" /\ phase'[p] # "new" /\ backlog' = Append(backlog, p)
    <3>1. /\ backlog' \in Seq(Procs) /\ Len(backlog') = Len(backlog) + 1
          /\ DOMAIN backlog' = 1 .. Len(backlog) + 1
          /\ \A i \in 1 .. Len(backlog) : backlog'[i] = backlog[i]
          /\ backlog'[Len(backlog) + 1] = p
      BY <2>1, <2>3, AppendProperties
    <3>2. \A i \in DOMAIN backlog : backlog[i] # p
      BY <2>3 DEF IInv, Backlogged
    <3>3. \A i \in DOMAIN backlog' : i \in DOMAIN backlog \/ i = Len(backlog) + 1
      BY <2>1, <3>1
    <3>4. \A i \in DOMAIN backlog : backlog'[i] = backlog[i] /\ backlog[i] \in Procs
      BY <2>1, <3>1
    <3>5. ASSUME NEW i \in DOMAIN backlog'
          PROVE  phase'[backlog'[i]] # "new" /\ sock'[backlog'[i]] = NoFd
      <4>1. CASE i \in DOMAIN backlog
        BY <1>2, <3>4, <4>1 DEF ClientEffect, IInv, Backlogged
      <4>2. CASE i = Len(backlog) + 1
        BY <1>2, <2>3, <3>1, <4>2 DEF IInv, Backlogged
      <4>. QED
        BY <3>3, <4>1, <4>2
    <3>6. \A i, j \in DOMAIN backlog' : backlog'[i] = backlog'[j] => i = j
      BY <3>1, <3>2, <3>3, <3>4 DEF IInv, Backlogged
    <3>7. \A q \in Procs : phase'[q] = "new" => sock'[q] = NoFd
      BY <1>2 DEF ClientEffect, IInv, Backlogged
    <3>. QED
      BY <1>2, <2>3, <3>1, <3>5, <3>6, <3>7, AppendProperties DEF Backlogged, IInv
  <2>. QED
    BY <2>2, <2>3 DEF ClientEffect
<1>4. /\ toServer' \in [Procs -> Seq(Requests)]
      /\ \A q \in Procs : \A i \in DOMAIN toServer'[q] :
           toServer'[q][i].cmd = "create_group" => toServer'[q][i].name \in GroupNames
  <2>1. CASE toServer' = toServer
    BY <2>1 DEF IInv, TypeOK, AskedFor
  <2>2. ASSUME NEW r \in Requests, r.cmd = "create_group" => r.name \in GroupNames,
               toServer' = [toServer EXCEPT ![p] = Append(@, r)]
        PROVE  /\ toServer' \in [Procs -> Seq(Requests)]
               /\ \A q \in Procs : \A i \in DOMAIN toServer'[q] :
                    toServer'[q][i].cmd = "create_group" => toServer'[q][i].name \in GroupNames
    <3>1. toServer \in [Procs -> Seq(Requests)] /\ toServer[p] \in Seq(Requests)
      BY DEF IInv, TypeOK
    <3>2. /\ toServer' \in [Procs -> Seq(Requests)]
          /\ toServer'[p] = Append(toServer[p], r)
          /\ \A q \in Procs \ {p} : toServer'[q] = toServer[q]
      BY <2>2, <3>1
    <3>3. ASSUME NEW i \in DOMAIN toServer'[p]
          PROVE  \/ toServer'[p][i] = r
                 \/ i \in DOMAIN toServer[p] /\ toServer'[p][i] = toServer[p][i]
      <4>1. /\ Len(toServer'[p]) = Len(toServer[p]) + 1
            /\ toServer'[p] \in Seq(Requests)
            /\ \A j \in 1 .. Len(toServer[p]) : toServer'[p][j] = toServer[p][j]
            /\ toServer'[p][Len(toServer[p]) + 1] = r
        BY <3>1, <3>2, AppendProperties
      <4>2. Len(toServer[p]) \in Nat /\ i \in 1 .. Len(toServer[p]) + 1
            /\ DOMAIN toServer[p] = 1 .. Len(toServer[p])
        BY <3>1, <4>1
      <4>. QED
        BY <4>1, <4>2
    <3>. QED
      BY <2>2, <3>2, <3>3 DEF IInv, AskedFor
  <2>. QED
    BY <2>1, <2>2 DEF ClientEffect
<1>5. TypeOK'
  BY <1>1, <1>2, <1>3, <1>4 DEF ClientEffect, IInv, TypeOK, Msgs
<1>6. GhostsUnvisited'
  BY <1>1, <1>2 DEF IInv, GhostsUnvisited
<1>. QED
  BY <1>1, <1>2, <1>3, <1>4, <1>5, <1>6 DEF ClientEffect, IInv, AskedFor

-----------------------------------------------------------------------------
(* What the server does besides its registry. *)

Stages == {"select", "connect", "stdin", "walk", "exited", "dead"}

MainIsOK ==
  /\ stage' \in Stages
  /\ readfds' \subseteq 0 .. MAX_CLIENTS
  /\ stage' = "connect" => backlog # << >>
  /\ stage' = "walk" => StdinFd \notin readfds'

InboxesAreOK ==
  /\ toClient' \in [Procs -> Seq(Msgs)]
  /\ \A p \in Procs : Whole(toClient'[p])

OutboxesAreOK ==
  /\ toServer' \in [Procs -> Seq(Requests)]
  /\ \A p \in Procs : \A i \in DOMAIN toServer'[p] :
       toServer'[p][i].cmd = "create_group" => toServer'[p][i].name \in GroupNames

ServerEffect ==
  MainIsOK /\ InboxesAreOK /\ OutboxesAreOK /\ UNCHANGED <<closed, phase, asked>>

LEMMA SameBoxes ==
  ASSUME IInv
  PROVE  /\ toClient' = toClient => InboxesAreOK
         /\ toServer' = toServer => OutboxesAreOK
  BY DEF IInv, TypeOK, AskedFor, Msgs, InboxesAreOK, OutboxesAreOK

LEMMA TakenIs ==
  ASSUME IInv, NEW p \in Procs, toServer[p] # << >>, toServer' = Taken(p)
  PROVE  OutboxesAreOK
<1>1. toServer \in [Procs -> Seq(Requests)] /\ toServer[p] \in Seq(Requests)
  BY DEF IInv, TypeOK
<1>2. /\ toServer' \in [Procs -> Seq(Requests)]
      /\ toServer'[p] = Tail(toServer[p])
      /\ \A q \in Procs \ {p} : toServer'[q] = toServer[q]
  BY <1>1 DEF Taken
<1>3. ASSUME NEW i \in DOMAIN toServer'[p]
      PROVE  i + 1 \in DOMAIN toServer[p] /\ toServer'[p][i] = toServer[p][i + 1]
  <2>1. /\ Tail(toServer[p]) \in Seq(Requests)
        /\ Len(Tail(toServer[p])) = Len(toServer[p]) - 1
        /\ \A j \in 1 .. Len(Tail(toServer[p])) : Tail(toServer[p])[j] = toServer[p][j + 1]
    BY <1>1, HeadTailProperties
  <2>. QED
    BY <1>1, <1>2, <2>1
<1>4. \A i \in DOMAIN toServer'[p] :
        toServer'[p][i].cmd = "create_group" => toServer'[p][i].name \in GroupNames
  BY <1>3 DEF IInv, AskedFor
<1>5. \A q \in Procs \ {p} : \A i \in DOMAIN toServer'[q] :
        toServer'[q][i].cmd = "create_group" => toServer'[q][i].name \in GroupNames
  BY <1>2 DEF IInv, AskedFor
<1>. QED
  BY <1>2, <1>4, <1>5 DEF OutboxesAreOK

LEMMA HeadIs ==
  ASSUME IInv, NEW p \in Procs, toServer[p] # << >>
  PROVE  /\ Head(toServer[p]) \in Requests /\ Head(toServer[p]).no \in Nat
         /\ Head(toServer[p]).name \in Names /\ Head(toServer[p]).members \subseteq Names
         /\ Head(toServer[p]).cmd = "create_group" => Head(toServer[p]).name \in GroupNames
<1>1. toServer[p] \in Seq(Requests)
  BY DEF IInv, TypeOK
<1>2. Head(toServer[p]) = toServer[p][1] /\ 1 \in DOMAIN toServer[p]
  BY <1>1
<1>3. Head(toServer[p]) \in Requests
  BY <1>1, <1>2
<1>. QED
  BY <1>2, <1>3, ListsAssumption DEF Requests, IInv, AskedFor

\* A round that goes on with names it was going to visit.
LEMMA RoundIs ==
  ASSUME IInv, NEW at \in Stages \ {"connect"}, RoundAt(at, readfds),
         stage = "walk"
  PROVE  MainIsOK
  BY DEF RoundAt, MainIsOK, IInv, TypeOK, GhostsUnvisited

LEMMA AtWalkIs ==
  ASSUME NEW ns
  PROVE  AtWalk(ns) \in Stages \ {"connect"}
  BY DEF AtWalk, Stages

LEMMA GoOnIs ==
  ASSUME IInv, NEW n, GoOn(n), stage = "walk"
  PROVE  MainIsOK /\ walk' = walk \ {n}
  BY RoundIs, AtWalkIs DEF GoOn, Visited

LEMMA DiesIs ==
  ASSUME Dies
  PROVE  MainIsOK /\ walk' = {}
  BY DEF Dies, MainIsOK, Stages

\* The request at hand is taken and answered.
LEMMA AnswerIs ==
  ASSUME IInv, stage = "walk", NEW n \in Owned, NEW kind \in MessageKinds \ {"SEND"},
         NEW inbox \in [Procs -> Seq(Msgs)], \A p \in Procs : Whole(inbox[p]),
         toServer[Owner(n)] # << >>, Answer(n, inbox, kind)
  PROVE  InboxesAreOK /\ MainIsOK /\ walk' \subseteq walk /\ n \notin walk'
<1>1. Owner(n) \in Procs
  BY OwnerIs DEF IInv
<1>2. Head(toServer[Owner(n)]).no \in Nat
  BY <1>1, HeadIs
<1>. DEFINE ms == <<Message(kind, Head(toServer[Owner(n)]).no)>>
<1>3. ms \in Seq(Msgs) /\ ms # << >> /\ Whole(ms)
  BY <1>2, AnswersAreWhole
<1>4. toClient' = Pushed(inbox, {Owner(n)}, ms)
  BY DEF Answer
<1>5. InboxesAreOK
  <2>. HIDE DEF ms
  <2>. QED
    BY <1>3, <1>4, PushedIs DEF InboxesAreOK
<1>6. MainIsOK /\ walk' \subseteq walk /\ n \notin walk'
  BY GoOnIs, DiesIs DEF Answer
<1>. QED
  BY <1>5, <1>6

\* A step that leaves the registry alone, or adds ghosts.
LEMMA QuietIInv ==
  ASSUME IInv, ServerEffect, Haunted \/ UNCHANGED registryVars,
         backlog' = backlog, walk' \subseteq Owned
  PROVE  IInv'
<1>0. Haunted /\ sock' = sock
  BY SameIsHaunted DEF Haunted
<1>1. /\ Registered \subseteq Registered' /\ Owned' = Owned
      /\ Groups' \subseteq GroupNames /\ SocketsHold'
      /\ clients' \in [Names -> {NoFd, StdinFd} \cup Nat]
      /\ clientsList' \in [Names -> Nat]
      /\ groups' \in [Names -> SUBSET Names]
      /\ sock' \in [Procs -> {NoFd} \cup Nat]
  BY <1>0, HauntedIs
<1>2. Backlogged'
  BY <1>0 DEF ServerEffect, MainIsOK, IInv, Backlogged
<1>3. walk' \subseteq Registered' /\ GhostsUnvisited'
  BY <1>1 DEF ServerEffect, MainIsOK, GhostsUnvisited, Owned
<1>4. TypeOK'
  BY <1>1, <1>3 DEF ServerEffect, MainIsOK, InboxesAreOK, OutboxesAreOK, Stages, IInv, TypeOK, Msgs
<1>. QED
  BY <1>1, <1>2, <1>3, <1>4
  DEF ServerEffect, InboxesAreOK, OutboxesAreOK, IInv, AskedFor

LEMMA SelectIInv ==
  ASSUME IInv, NEW typed \in BOOLEAN, Select(typed), UNCHANGED clientVars
  PROVE  IInv'
<1>. DEFINE fds == {sock[p] : p \in Readable}
                     \cup {fd \in {ListenFd} : backlog # << >>}
                     \cup {fd \in {StdinFd} : typed}
            at  == IF ListenFd \in fds THEN "connect"
                   ELSE IF StdinFd \in fds THEN "stdin" ELSE AtWalk(walk')
<1>1. RoundAt(at, fds)
  BY DEF Select
<1>2. fds \subseteq 0 .. MAX_CLIENTS
  BY WatchedAssumption
  DEF Readable, Watched, IInv, TypeOK, ListenFd, StdinFd, NoFd
<1>2a. walk' \subseteq Owned
  BY DEF Select, Owned
<1>3. at \in Stages
  BY AtWalkIs DEF Stages
<1>4. at = "connect" => backlog # << >>
  <2>1. ListenFd \in fds => backlog # << >>
    BY DEF IInv, Backlogged, Readable, ListenFd, StdinFd
  <2>2. AtWalk(walk') # "connect"
    BY AtWalkIs
  <2>. QED
    BY <2>1, <2>2
<1>4a. at = "walk" => StdinFd \notin fds
  OBVIOUS
<1>5. MainIsOK
  <2>. HIDE DEF at, fds
  <2>. QED
    BY <1>1, <1>2, <1>3, <1>4, <1>4a DEF RoundAt, MainIsOK
<1>6. ServerEffect /\ UNCHANGED registryVars /\ backlog' = backlog
  BY <1>5, SameBoxes DEF ServerEffect, Select, netVars, clientVars
<1>. QED
  BY <1>2a, <1>6, QuietIInv

LEMMA StdinIInv ==
  ASSUME IInv, StdinIgnored, UNCHANGED clientVars
  PROVE  IInv'
<1>1. MainIsOK /\ walk' = walk
  BY DEF StdinIgnored, RoundAt, MainIsOK, Stages
<1>2. ServerEffect /\ UNCHANGED registryVars /\ backlog' = backlog
  BY <1>1, SameBoxes DEF ServerEffect, StdinIgnored, netVars, clientVars
<1>3. walk' \subseteq Owned
  BY <1>1 DEF IInv, GhostsUnvisited
<1>. QED
  BY <1>2, <1>3, QuietIInv

LEMMA ServerExitIInv ==
  ASSUME IInv, ServerExit, UNCHANGED clientVars
  PROVE  IInv'
<1>1. MainIsOK /\ walk' = {}
  BY DEF ServerExit, MainIsOK, Stages
<1>2. PICK ps : toClient' = Pushed(toClient, ps, <<Message("server_exit", 0)>>)
  BY DEF ServerExit
<1>3. /\ <<Message("server_exit", 0)>> \in Seq(Msgs)
      /\ <<Message("server_exit", 0)>> # << >>
      /\ Whole(<<Message("server_exit", 0)>>)
  BY AnswersAreWhole DEF MessageKinds
<1>4. toClient \in [Procs -> Seq(Msgs)] /\ \A p \in Procs : Whole(toClient[p])
  BY DEF IInv, TypeOK, Msgs
<1>5. InboxesAreOK
  BY <1>2, <1>3, <1>4, PushedIs DEF InboxesAreOK
<1>6. ServerEffect /\ UNCHANGED registryVars /\ backlog' = backlog
  BY <1>1, <1>5, SameBoxes DEF ServerEffect, ServerExit, clientVars
<1>. QED
  BY <1>1, <1>6, QuietIInv

LEMMA ReadFailsIInv ==
  ASSUME IInv, NEW n \in Names, ReadFails(n), UNCHANGED clientVars
  PROVE  IInv'
<1>1. MainIsOK /\ walk' \subseteq walk
  BY GoOnIs, DiesIs DEF ReadFails, Visits
<1>2. ServerEffect /\ UNCHANGED registryVars /\ backlog' = backlog
  BY <1>1, SameBoxes DEF ServerEffect, ReadFails, netVars, clientVars
<1>3. walk' \subseteq Owned
  BY <1>1 DEF IInv, GhostsUnvisited
<1>. QED
  BY <1>2, <1>3, QuietIInv

LEMMA WhoIInv ==
  ASSUME IInv, NEW n \in Names, Who(n), UNCHANGED clientVars
  PROVE  IInv'
<1>1. /\ n \in Owned /\ toServer[Owner(n)] # << >> /\ toServer' = Taken(Owner(n))
      /\ Owner(n) \in Procs /\ stage = "walk"
  BY VisitedIs, OwnerIs DEF Who, Request, Visits, IInv
<1>2. toClient \in [Procs -> Seq(Msgs)] /\ \A p \in Procs : Whole(toClient[p])
  BY DEF IInv, TypeOK, Msgs
<1>3. "who_list" \in MessageKinds \ {"SEND"} /\ Answer(n, toClient, "who_list")
  BY DEF MessageKinds, Who
<1>4. InboxesAreOK /\ MainIsOK /\ walk' \subseteq walk
  BY <1>1, <1>2, <1>3, AnswerIs
<1>5. ServerEffect /\ UNCHANGED registryVars /\ backlog' = backlog
  BY <1>1, <1>4, TakenIs DEF ServerEffect, Who, clientVars
<1>6. walk' \subseteq Owned
  BY <1>4 DEF IInv, GhostsUnvisited
<1>. QED
  BY <1>5, <1>6, QuietIInv

LEMMA SendIInv ==
  ASSUME IInv, NEW n \in Names, Send(n), UNCHANGED clientVars
  PROVE  IInv'
<1>1. /\ n \in Owned /\ toServer[Owner(n)] # << >> /\ toServer' = Taken(Owner(n))
      /\ Owner(n) \in Procs /\ stage = "walk"
  BY VisitedIs, OwnerIs DEF Send, Request, Visits, IInv
<1>. DEFINE to      == Head(toServer[Owner(n)]).name
            targets == Targets(n, to)
            reached(ns) == Pushed(toClient, Owners(ns), SendPop)
<1>2. clients = WithGhosts({})
  BY DEF WithGhosts, IInv, TypeOK
<1>3. toClient \in [Procs -> Seq(Msgs)] /\ \A p \in Procs : Whole(toClient[p])
  BY DEF IInv, TypeOK, Msgs
<1>4. ASSUME NEW ns
      PROVE  reached(ns) \in [Procs -> Seq(Msgs)] /\ \A p \in Procs : Whole(reached(ns)[p])
  <2>1. SendPop \in Seq(Msgs) /\ SendPop # << >> /\ Whole(SendPop)
    BY AnswersAreWhole
  <2>. QED
    BY <1>3, <2>1, PushedIs
<1>5. "success" \in MessageKinds \ {"SEND"} /\ "failure" \in MessageKinds \ {"SEND"}
  BY DEF MessageKinds
<1>6. /\ InboxesAreOK /\ MainIsOK /\ walk' \subseteq walk
      /\ \E ns : clients' = WithGhosts(ns)
  <2>. HIDE DEF to, targets, reached
  <2>1. CASE Answer(n, reached(targets), "success") /\ clients' = WithGhosts(targets)
    BY <1>1, <1>4, <1>5, <2>1, AnswerIs
  <2>2. ASSUME NEW some, Answer(n, reached(some), "failure"), clients' = WithGhosts(some)
        PROVE  /\ InboxesAreOK /\ MainIsOK /\ walk' \subseteq walk
               /\ \E ns : clients' = WithGhosts(ns)
    BY <1>1, <1>4, <1>5, <2>2, AnswerIs
  <2>3. ASSUME NEW some, toClient' = reached(some), Dies, clients' = WithGhosts(some)
        PROVE  /\ InboxesAreOK /\ MainIsOK /\ walk' \subseteq walk
               /\ \E ns : clients' = WithGhosts(ns)
    BY <1>4, <2>3, DiesIs DEF InboxesAreOK
  <2>4. CASE Answer(n, toClient, "failure") /\ UNCHANGED clients
    BY <1>1, <1>2, <1>3, <1>5, <2>4, AnswerIs
  <2>. QED
    BY <2>1, <2>2, <2>3, <2>4 DEF Send, to, targets, reached
<1>7. ServerEffect /\ Haunted /\ backlog' = backlog
  BY <1>1, <1>6, TakenIs DEF ServerEffect, Send, clientVars, Haunted
<1>8. walk' \subseteq Owned
  BY <1>6 DEF IInv, GhostsUnvisited
<1>. QED
  BY <1>7, <1>8, QuietIInv

LEMMA CreateGroupIInv ==
  ASSUME IInv, NEW n \in Names, CreateGroup(n), UNCHANGED clientVars
  PROVE  IInv'
<1>1. /\ n \in Owned /\ toServer[Owner(n)] # << >> /\ toServer' = Taken(Owner(n))
      /\ Owner(n) \in Procs /\ Head(toServer[Owner(n)]).cmd = "create_group"
      /\ stage = "walk" /\ n \in Names
  BY VisitedIs, OwnerIs DEF CreateGroup, Request, Visits, IInv
<1>. DEFINE r     == Head(toServer[Owner(n)])
            group == r.members \cup {n}
<1>2. r.name \in GroupNames /\ r.name \in Names /\ group \subseteq Names
  BY <1>1, HeadIs
<1>3. toClient \in [Procs -> Seq(Msgs)] /\ \A p \in Procs : Whole(toClient[p])
  BY DEF IInv, TypeOK, Msgs
<1>4. {"success", "failure", "name_exists"} \subseteq MessageKinds \ {"SEND"}
  BY DEF MessageKinds
<1>5. PICK kind \in {"success", "failure", "name_exists"} : Answer(n, toClient, kind)
  BY DEF CreateGroup
<1>6. InboxesAreOK /\ MainIsOK /\ walk' \subseteq walk
  BY <1>1, <1>3, <1>4, <1>5, AnswerIs
<1>7. ServerEffect /\ UNCHANGED <<clients, clientsList, sock, backlog>>
  BY <1>1, <1>6, TakenIs DEF ServerEffect, CreateGroup, clientVars
<1>8. walk' \subseteq Owned
  BY <1>6 DEF IInv, GhostsUnvisited
<1>9. CASE groups' = groups
  BY <1>7, <1>8, <1>9, QuietIInv DEF registryVars
<1>10. CASE groups' = [groups EXCEPT ![r.name] = group]
  <2>. HIDE DEF r, group
  <2>1. groups \in [Names -> SUBSET Names]
    BY DEF IInv, TypeOK
  <2>2. /\ groups' \in [Names -> SUBSET Names]
        /\ \A g \in Names \ {r.name} : groups'[g] = groups[g]
    BY <1>2, <1>10, <2>1
  <2>3. Registered' = Registered /\ Owned' = Owned
    BY <1>7 DEF Registered, Owned
  <2>4. Groups' \subseteq Groups \cup {r.name}
    BY <2>2 DEF Groups
  <2>5. SocketsHold'
    BY <1>7, <2>3 DEF IInv, SocketsHold
  <2>6. Backlogged'
    BY <1>7 DEF ServerEffect, MainIsOK, IInv, Backlogged
  <2>7. walk' \subseteq Registered' /\ GhostsUnvisited'
    BY <1>7, <1>8, <2>3 DEF ServerEffect, MainIsOK, GhostsUnvisited, Owned
  <2>8. TypeOK'
    BY <1>7, <2>2, <2>7
    DEF ServerEffect, MainIsOK, InboxesAreOK, OutboxesAreOK, Stages, IInv, TypeOK, Msgs
  <2>9. AskedFor'
    BY <1>2, <1>7, <2>4 DEF ServerEffect, OutboxesAreOK, IInv, AskedFor
  <2>10. \A p \in Procs : Whole(toClient'[p])
    BY <1>7 DEF ServerEffect, InboxesAreOK
  <2>. QED
    BY <2>5, <2>6, <2>7, <2>8, <2>9, <2>10 DEF IInv
<1>. QED
  BY <1>9, <1>10 DEF CreateGroup

-----------------------------------------------------------------------------
(* Who comes. *)

\* The connection that is accepted is the only one of its process.
LEMMA NextInLine ==
  ASSUME IInv, stage = "connect"
  PROVE  /\ Head(backlog) \in Procs /\ sock[Head(backlog)] = NoFd
         /\ phase[Head(backlog)] # "new"
         /\ Tail(backlog) \in Seq(Procs)
         /\ \A i \in DOMAIN Tail(backlog) :
              /\ Tail(backlog)[i] # Head(backlog)
              /\ i + 1 \in DOMAIN backlog /\ Tail(backlog)[i] = backlog[i + 1]
<1>1. backlog # << >> /\ backlog \in Seq(Procs)
  BY DEF IInv, TypeOK, Backlogged
<1>2. /\ Head(backlog) = backlog[1] /\ 1 \in DOMAIN backlog
      /\ Len(backlog) \in Nat /\ DOMAIN backlog = 1 .. Len(backlog)
  BY <1>1
<1>3. /\ Tail(backlog) \in Seq(Procs) /\ Len(Tail(backlog)) = Len(backlog) - 1
      /\ \A i \in 1 .. Len(Tail(backlog)) : Tail(backlog)[i] = backlog[i + 1]
  BY <1>1, HeadTailProperties
<1>4. ASSUME NEW i \in DOMAIN Tail(backlog)
      PROVE  /\ i + 1 \in DOMAIN backlog /\ i + 1 # 1
             /\ Tail(backlog)[i] = backlog[i + 1]
  BY <1>2, <1>3
<1>. QED
  BY <1>1, <1>2, <1>3, <1>4 DEF IInv, Backlogged

\* A fresh descriptor disturbs no client.
LEMMA SockGrows ==
  ASSUME IInv, NEW p \in Procs, sock[p] = NoFd,
         sock' = [sock EXCEPT ![p] = FreeFd]
  PROVE  /\ sock' \in [Procs -> {NoFd} \cup Nat]
         /\ sock'[p] = FreeFd /\ FreeFd \in Nat /\ FreeFd \notin {NoFd, StdinFd}
         /\ \A q \in Procs \ {p} : sock'[q] = sock[q] /\ sock'[q] # FreeFd
         /\ \A q \in Procs : sock'[q] \notin {StdinFd, ListenFd}
         /\ \A n \in Owned :
              \E q \in Procs \ {p} : /\ sock'[q] = clients[n]
                                     /\ NameOf[q] = n
                                     /\ \A o \in Procs \ {q} : sock'[o] # sock'[q]
<1>1. /\ FreeFd \in Nat /\ FreeFd \notin {NoFd, StdinFd, ListenFd}
      /\ \A q \in Procs : sock[q] # FreeFd
  BY FreeFdIsFree
<1>2. /\ sock \in [Procs -> {NoFd} \cup Nat]
      /\ \A q \in Procs : sock[q] \notin {StdinFd, ListenFd}
  BY DEF IInv, TypeOK, Backlogged
<1>3. /\ sock' \in [Procs -> {NoFd} \cup Nat] /\ sock'[p] = FreeFd
      /\ \A q \in Procs \ {p} : sock'[q] = sock[q] /\ sock'[q] # FreeFd
      /\ \A q \in Procs : sock'[q] \notin {StdinFd, ListenFd}
  BY <1>1, <1>2
<1>4. ASSUME NEW n \in Owned
      PROVE  \E q \in Procs \ {p} : /\ sock'[q] = clients[n]
                                    /\ NameOf[q] = n
                                    /\ \A o \in Procs \ {q} : sock'[o] # sock'[q]
  <2>1. PICK q \in Procs : /\ sock[q] = clients[n] /\ NameOf[q] = n
                           /\ \A o \in Procs \ {q} : sock[o] # sock[q]
    BY DEF IInv, SocketsHold
  <2>2. q # p
    BY <2>1 DEF Owned, Registered
  <2>. QED
    BY <1>3, <2>1, <2>2
<1>. QED
  BY <1>1, <1>3, <1>4

LEMMA ConnectIInv ==
  ASSUME IInv, ConnectNewClient, UNCHANGED clientVars
  PROVE  IInv'
<1>. DEFINE p == Head(backlog)
            n == NameOf[p]
<1>1. /\ p \in Procs /\ sock[p] = NoFd /\ phase[p] # "new" /\ n \in Names
      /\ backlog' = Tail(backlog) /\ sock' = [sock EXCEPT ![p] = FreeFd]
      /\ Tail(backlog) \in Seq(Procs)
      /\ \A i \in DOMAIN Tail(backlog) :
           Tail(backlog)[i] # p /\ i + 1 \in DOMAIN backlog /\ Tail(backlog)[i] = backlog[i + 1]
  BY NextInLine, NameOfAssumption DEF ConnectNewClient
<1>2. /\ groups' = groups /\ closed' = closed /\ phase' = phase /\ asked' = asked
  BY DEF ConnectNewClient, clientVars
<1>3. /\ stage' \in Stages \ {"connect"} /\ readfds' \subseteq 0 .. MAX_CLIENTS
      /\ walk' \subseteq walk
      /\ stage' = "walk" => StdinFd \notin readfds'
  <2>1. CASE AfterConnect
    <3>1. readfds \subseteq 0 .. MAX_CLIENTS
      BY DEF IInv, TypeOK
    <3>. QED
      BY <2>1, <3>1, AtWalkIs DEF AfterConnect, RoundAt, Stages
  <2>2. CASE Dies
    BY <2>2 DEF Dies, Stages
  <2>. QED
    BY <2>1, <2>2 DEF ConnectNewClient
<1>4. MainIsOK
  BY <1>3 DEF MainIsOK
<1>5. InboxesAreOK /\ OutboxesAreOK
  <2>. HIDE DEF p, n
  <2>1. toClient \in [Procs -> Seq(Msgs)] /\ \A q \in Procs : Whole(toClient[q])
    BY DEF IInv, TypeOK, Msgs
  <2>2. ASSUME NEW kind \in {"success", "name_exists"},
               toServer[p] # << >>, toServer' = Taken(p),
               toClient' = Pushed(toClient, {p}, <<Message(kind, 0)>>)
        PROVE  InboxesAreOK /\ OutboxesAreOK
    <3>1. kind \in MessageKinds \ {"SEND"} /\ 0 \in Nat
      BY DEF MessageKinds
    <3>. DEFINE ms == <<Message(kind, 0)>>
    <3>2. ms \in Seq(Msgs) /\ ms # << >> /\ Whole(ms)
      BY <3>1, AnswersAreWhole
    <3>3. toClient' = Pushed(toClient, {p}, ms)
      BY <2>2
    <3>4. InboxesAreOK
      <4>. HIDE DEF ms
      <4>. QED
        BY <2>1, <3>2, <3>3, PushedIs DEF InboxesAreOK
    <3>. QED
      BY <1>1, <2>2, <3>4, TakenIs
  <2>3. CASE toServer' = toServer /\ toClient' = toClient
    BY <2>3, SameBoxes
  <2>. QED
    BY <2>2, <2>3 DEF ConnectNewClient, p, n
<1>6. Backlogged'
  <2>. HIDE DEF p, n
  <2>1. /\ \A q \in Procs \ {p} : sock'[q] = sock[q]
        /\ \A q \in Procs : sock'[q] \notin {StdinFd, ListenFd}
    BY <1>1, SockGrows
  <2>2. \A i \in DOMAIN backlog : phase[backlog[i]] # "new" /\ sock[backlog[i]] = NoFd
    BY DEF IInv, Backlogged
  <2>3. \A i \in DOMAIN backlog' : backlog'[i] \in Procs \ {p}
    BY <1>1
  <2>4. \A i \in DOMAIN backlog' : phase'[backlog'[i]] # "new" /\ sock'[backlog'[i]] = NoFd
    BY <1>1, <1>2, <2>1, <2>2, <2>3
  <2>5. \A i, j \in DOMAIN backlog' : backlog'[i] = backlog'[j] => i = j
    <3>. SUFFICES ASSUME NEW i \in DOMAIN backlog', NEW j \in DOMAIN backlog',
                         backlog'[i] = backlog'[j]
                  PROVE  i = j
      OBVIOUS
    <3>1. i \in Int /\ j \in Int /\ i + 1 = j + 1
      BY <1>1 DEF IInv, Backlogged
    <3>. QED
      BY <3>1
  <2>6. \A q \in Procs : phase'[q] = "new" => sock'[q] = NoFd
    BY <1>1, <1>2, <2>1 DEF IInv, Backlogged
  <2>. QED
    BY <1>3, <2>1, <2>4, <2>5, <2>6 DEF Backlogged
<1>7. Groups' = Groups
  BY <1>2 DEF Groups
<1>8. /\ sock' \in [Procs -> {NoFd} \cup Nat]
      /\ sock'[p] = FreeFd /\ FreeFd \in Nat /\ FreeFd \notin {NoFd, StdinFd}
      /\ \A q \in Procs \ {p} : sock'[q] # FreeFd
      /\ \A m \in Owned :
           \E q \in Procs \ {p} : /\ sock'[q] = clients[m]
                                  /\ NameOf[q] = m
                                  /\ \A o \in Procs \ {q} : sock'[o] # sock'[q]
  <2>. HIDE DEF p, n
  <2>. QED
    BY <1>1, SockGrows
<1>9. ASSUME /\ clients' \in [Names -> {NoFd, StdinFd} \cup Nat]
             /\ clientsList' \in [Names -> Nat]
             /\ Owned \subseteq Owned' /\ SocketsHold'
      PROVE  IInv'
  <2>1. walk' \subseteq Registered' /\ GhostsUnvisited'
    BY <1>3, <1>9 DEF IInv, GhostsUnvisited, Owned
  <2>2. TypeOK'
    BY <1>1, <1>2, <1>3, <1>5, <1>8, <1>9, <2>1
    DEF InboxesAreOK, OutboxesAreOK, Stages, IInv, TypeOK, Msgs
  <2>3. AskedFor'
    BY <1>5, <1>7 DEF OutboxesAreOK, IInv, AskedFor
  <2>. QED
    BY <1>5, <1>6, <1>9, <2>1, <2>2, <2>3 DEF InboxesAreOK, IInv
<1>10. CASE UNCHANGED <<clients, clientsList>>
  <2>. HIDE DEF p, n
  <2>1. Owned' = Owned
    BY <1>10 DEF Owned, Registered
  <2>2. SocketsHold'
    BY <1>8, <1>10, <2>1 DEF SocketsHold
  <2>. QED
    BY <1>9, <1>10, <2>1, <2>2 DEF IInv, TypeOK
<1>11. CASE /\ ~ NameTaken(n)
            /\ clients' = [clients EXCEPT ![n] = FreeFd]
            /\ clientsList' = [clientsList EXCEPT ![n] = @ + 1]
  <2>0. NameOf[p] = n
    OBVIOUS
  <2>. HIDE DEF p, n
  <2>1. n \notin Owned
    BY <1>1, <1>11 DEF NameTaken, Owned
  <2>2. /\ clients \in [Names -> {NoFd, StdinFd} \cup Nat] /\ clientsList \in [Names -> Nat]
    BY DEF IInv, TypeOK
  <2>3. /\ clients' \in [Names -> {NoFd, StdinFd} \cup Nat] /\ clientsList' \in [Names -> Nat]
        /\ clients'[n] = FreeFd
        /\ \A m \in Names \ {n} : clients'[m] = clients[m]
    BY <1>1, <1>8, <1>11, <2>2
  <2>4. Owned' = Owned \cup {n}
    BY <1>1, <1>8, <2>3 DEF Owned, Registered
  <2>5. SocketsHold'
    <3>1. ASSUME NEW m \in Owned
          PROVE  \E q \in Procs : /\ sock'[q] = clients'[m] /\ NameOf[q] = m
                                  /\ \A o \in Procs \ {q} : sock'[o] # sock'[q]
      <4>1. m \in Names \ {n}
        BY <2>1 DEF Owned, Registered
      <4>. QED
        BY <1>8, <2>3, <4>1
    <3>2. /\ p \in Procs /\ sock'[p] = clients'[n] /\ NameOf[p] = n
          /\ \A o \in Procs \ {p} : sock'[o] # sock'[p]
      BY <1>1, <1>8, <2>0, <2>3
    <3>. QED
      BY <2>4, <3>1, <3>2 DEF SocketsHold
  <2>. QED
    BY <1>9, <2>3, <2>4, <2>5
<1>. QED
  BY <1>10, <1>11 DEF ConnectNewClient

-----------------------------------------------------------------------------
(* Who leaves. *)

LEMMA ClientExitIInv ==
  ASSUME IInv, NEW n \in Names, ClientExit(n), UNCHANGED clientVars
  PROVE  IInv'
<1>1. /\ n \in Owned /\ toServer[Owner(n)] # << >> /\ toServer' = Taken(Owner(n))
      /\ Owner(n) \in Procs /\ sock[Owner(n)] = clients[n] /\ NameOf[Owner(n)] = n
      /\ stage = "walk"
  BY VisitedIs, OwnerIs DEF ClientExit, Request, Visits, IInv
<1>2. /\ clients' = Unregistered(n)
      /\ clientsList' = [clientsList EXCEPT ![n] = 0]
      /\ sock' = [sock EXCEPT ![Owner(n)] = NoFd]
      /\ UNCHANGED <<backlog, toClient, closed, phase, asked>>
  BY DEF ClientExit, clientVars
<1>3. PICK missed \in SUBSET MayMiss(n) :
        groups' = [g \in Names |-> IF g \in missed THEN groups[g] ELSE MembersLeft(g, n)]
  BY DEF ClientExit
<1>4. /\ clients \in [Names -> {NoFd, StdinFd} \cup Nat] /\ clientsList \in [Names -> Nat]
      /\ groups \in [Names -> SUBSET Names] /\ sock \in [Procs -> {NoFd} \cup Nat]
  BY DEF IInv, TypeOK
<1>5. /\ clients' \in [Names -> {NoFd, StdinFd} \cup Nat] /\ clientsList' \in [Names -> Nat]
      /\ sock' \in [Procs -> {NoFd} \cup Nat]
      /\ clients'[n] = NoFd
      /\ \A m \in Names \ {n} : clients'[m] = clients[m]
      /\ sock'[Owner(n)] = NoFd
      /\ \A q \in Procs \ {Owner(n)} : sock'[q] = sock[q]
  BY <1>1, <1>2, <1>4 DEF Unregistered
<1>6. Owned' = Owned \ {n} /\ Registered' = Registered \ {n}
  BY <1>5 DEF Owned, Registered
<1>7. groups' \in [Names -> SUBSET Names] /\ Groups' \subseteq Groups
  BY <1>3, <1>4 DEF Groups, MembersLeft
<1>8. MainIsOK /\ walk' \subseteq Owned \ {n}
  <2>1. walk \subseteq Owned
    BY DEF IInv, GhostsUnvisited
  <2>2. CASE GoOn(n)
    BY <1>1, <2>1, <2>2, GoOnIs
  <2>3. CASE Dies
    BY <2>3, DiesIs
  <2>4. ASSUME NEW ns, ns \subseteq Owned \ {n},
               walk' = ns, RoundAt(AtWalk(ns), readfds)
        PROVE  MainIsOK /\ walk' \subseteq Owned \ {n}
    BY <1>1, <2>4, AtWalkIs, RoundIs
  <2>. QED
    <3>. DEFINE from(k) == {m \in Registered \ {n} : m >= k /\ clients[m] \in readfds}
    <3>1. \A k : from(k) \subseteq Owned \ {n}
      BY <1>1 DEF IInv, GhostsUnvisited, Owned
    <3>2. \/ GoOn(n) \/ Dies
          \/ \E k \in Registered \ {n} : walk' = from(k) /\ RoundAt(AtWalk(from(k)), readfds)
      BY DEF ClientExit
    <3>. HIDE DEF from
    <3>. QED
      BY <2>2, <2>3, <2>4, <3>1, <3>2
<1>9. InboxesAreOK /\ OutboxesAreOK
  BY <1>1, <1>2, SameBoxes, TakenIs
<1>10. SocketsHold'
  <2>1. ASSUME NEW m \in Owned \ {n}
        PROVE  \E q \in Procs : /\ sock'[q] = clients'[m] /\ NameOf[q] = m
                                /\ \A o \in Procs \ {q} : sock'[o] # sock'[q]
    <3>1. PICK q \in Procs : /\ sock[q] = clients[m] /\ NameOf[q] = m
                             /\ \A o \in Procs \ {q} : sock[o] # sock[q]
      BY DEF IInv, SocketsHold
    <3>2. m \in Names /\ m # n /\ clients[m] # NoFd
      BY DEF Owned, Registered
    <3>3. q # Owner(n)
      BY <1>1, <3>1, <3>2
    <3>. QED
      BY <1>1, <1>5, <3>1, <3>2, <3>3
  <2>. QED
    BY <1>6, <2>1 DEF SocketsHold
<1>11. walk' \subseteq Registered' /\ GhostsUnvisited'
  BY <1>6, <1>8 DEF MainIsOK, GhostsUnvisited, Owned
<1>12. Backlogged'
  BY <1>1, <1>2, <1>5, <1>8 DEF MainIsOK, IInv, Backlogged, StdinFd, ListenFd, NoFd
<1>13. TypeOK'
  BY <1>2, <1>5, <1>7, <1>8, <1>9, <1>11
  DEF MainIsOK, InboxesAreOK, OutboxesAreOK, Stages, IInv, TypeOK, Msgs
<1>14. AskedFor' /\ \A p \in Procs : Whole(toClient'[p])
  BY <1>7, <1>9 DEF InboxesAreOK, OutboxesAreOK, IInv, AskedFor
<1>. QED
  BY <1>10, <1>11, <1>12, <1>13, <1>14 DEF IInv

-----------------------------------------------------------------------------
LEMMA StutterIInv ==
  ASSUME IInv, UNCHANGED vars
  PROVE  IInv'
<1>1. /\ UNCHANGED registryVars /\ backlog' = backlog /\ walk' = walk
      /\ ServerEffect
  BY SameBoxes
  DEF vars, mainVars, registryVars, netVars, clientVars, ServerEffect, MainIsOK, Stages,
      IInv, TypeOK, Backlogged, GhostsUnvisited
<1>2. walk' \subseteq Owned
  BY <1>1 DEF IInv, GhostsUnvisited
<1>. QED
  BY <1>1, <1>2, QuietIInv

LEMMA NextIInv ==
  ASSUME IInv, [Next]_vars
  PROVE  IInv'
<1>1. ASSUME NEW p \in Procs, ClientStep(p) \/ UserStep(p)
      PROVE  IInv'
  BY <1>1, SystemEffect, UserEffect, ClientIInv
<1>2. ASSUME ServerStep, UNCHANGED clientVars
      PROVE  IInv'
  BY <1>2, SelectIInv, ConnectIInv, StdinIInv, ServerExitIInv, ReadFailsIInv,
     SendIInv, WhoIInv, CreateGroupIInv, ClientExitIInv DEF ServerStep
<1>3. CASE UNCHANGED vars
  BY <1>3, StutterIInv
<1>. QED
  BY <1>1, <1>2, <1>3 DEF Next

LEMMA Inductive == Spec => []IInv
<1>1. Init => IInv
  BY InitIInv
<1>2. IInv /\ [Next]_vars => IInv'
  BY NextIInv
<1>. QED
  BY <1>1, <1>2, PTL DEF Spec

\* The state of the server and of all clients keeps its types.
THEOREM ChatTyped == Spec => []TypeOK
<1>1. IInv => TypeOK
  BY DEF IInv
<1>. QED
  BY <1>1, Inductive, PTL

\* A name that a process gave keeps the connection of this process alone,
\* although descriptors are used again, and also when a group was passed over
\* and a message has put one of its former members back into the map.
THEOREM OwnedNamesKeepSockets == Spec => []SocketsHold
<1>1. IInv => SocketsHold
  BY DEF IInv
<1>. QED
  BY <1>1, Inductive, PTL

-----------------------------------------------------------------------------
(***************************************************************************)
(* The registry, as long as users have fewer than four names for groups:   *)
(* with four, the loop that erases groups can go astray (see MayMiss).     *)
(***************************************************************************)
FewGroups == Cardinality(GroupNames) < 4

NoGhosts == Registered = Owned

RegistryInv == RegistryAgrees /\ NamesUnique /\ NoGhosts

\* Missing a group takes four: the one that stays, the emptied one, the one
\* missed and one behind it.
LEMMA NoneMissed ==
  ASSUME IInv, FewGroups, NEW n
  PROVE  MayMiss(n) = {}
<1>. SUFFICES ASSUME NEW g \in Groups, NEW before \in Groups, NEW h \in Groups,
                     NEW behind \in Groups,
                     before < h, h < g, g < behind
              PROVE  FALSE
  BY DEF MayMiss
<1>1. /\ before \in GroupNames /\ h \in GroupNames
      /\ g \in GroupNames /\ behind \in GroupNames
  BY DEF IInv, AskedFor
<1>2. before \in Nat /\ h \in Nat /\ g \in Nat /\ behind \in Nat
  BY <1>1, NamesAssumption, GroupNamesAssumption
<1>. DEFINE one   == {before}
            two   == one \cup {h}
            three == two \cup {g}
            four  == three \cup {behind}
<1>3. h \notin one /\ g \notin two /\ behind \notin three
  BY <1>2
<1>4. IsFiniteSet(two) /\ Cardinality(two) = 2
  <2>1. IsFiniteSet(one) /\ Cardinality(one) = 1
    BY FS_Singleton
  <2>. HIDE DEF one
  <2>. QED
    BY <1>3, <2>1, FS_AddElement
<1>5. IsFiniteSet(three) /\ Cardinality(three) = 3
  <2>. HIDE DEF two
  <2>. QED
    BY <1>3, <1>4, FS_AddElement
<1>6. Cardinality(four) = 4
  <2>. HIDE DEF three
  <2>. QED
    BY <1>3, <1>5, FS_AddElement
<1>7. four \subseteq GroupNames /\ IsFiniteSet(GroupNames)
  BY <1>1, NamesAssumption, GroupNamesAssumption, FS_Subset
<1>8. Cardinality(four) <= Cardinality(GroupNames)
      /\ Cardinality(GroupNames) \in Nat
  <2>. HIDE DEF four
  <2>. QED
    BY <1>7, FS_Subset, FS_CardinalityType
<1>. QED
  BY <1>6, <1>8 DEF FewGroups

LEMMA InitRegistry == Init => RegistryInv /\ Registry!Init
<1>. SUFFICES ASSUME Init PROVE RegistryInv /\ Registry!Init
  OBVIOUS
<1>1. \A n \in Names : clients[n] = NoFd /\ groups[n] = {} /\ clientsList[n] = 0
  BY DEF Init, ServerInit
<1>2. Registered = {} /\ Groups = {} /\ Owned = {}
  BY <1>1 DEF Owned, Registered, Groups
<1>. QED
  BY <1>1, <1>2 DEF Init, ServerInit, RegistryInv, RegistryAgrees, NamesUnique,
                    NoGhosts, Registry!Init

LEMMA SameRegistry ==
  ASSUME RegistryInv, UNCHANGED registryVars
  PROVE  RegistryInv' /\ UNCHANGED <<Registered, groups>>
<1>1. /\ clients' = clients /\ clientsList' = clientsList /\ groups' = groups
  BY DEF registryVars
<1>2. Registered' = Registered /\ Groups' = Groups /\ Owned' = Owned
  BY <1>1 DEF Registered, Groups, Owned
<1>. QED
  BY <1>1, <1>2 DEF RegistryInv, RegistryAgrees, NamesUnique, NoGhosts

\* Every member of a group is registered, so nobody is added by a message.
LEMMA SendRegistry ==
  ASSUME IInv, RegistryInv, NEW n \in Names, Send(n)
  PROVE  UNCHANGED registryVars
<1>. DEFINE to == Head(toServer[Owner(n)]).name
<1>1. /\ toServer[Owner(n)] # << >> /\ Owner(n) \in Procs
      /\ UNCHANGED <<clientsList, groups, sock>>
  BY VisitedIs, OwnerIs DEF Send, Request, IInv
<1>2. to \in Names
  BY <1>1, HeadIs
<1>3. Targets(n, to) \subseteq Registered
  BY <1>2 DEF Targets, RegistryInv, RegistryAgrees
<1>4. \/ clients' = clients
      \/ \E ns \in SUBSET Targets(n, to) : clients' = WithGhosts(ns)
  <2>1. \A m : {k \in Targets(n, to) : k < m} \in SUBSET Targets(n, to)
    OBVIOUS
  <2>2. Targets(n, to) \in SUBSET Targets(n, to)
    OBVIOUS
  <2>. QED
    BY <2>1, <2>2 DEF Send
<1>5. \A ns : ns \subseteq Registered => WithGhosts(ns) = clients
  BY DEF WithGhosts, IInv, TypeOK
<1>. QED
  BY <1>1, <1>3, <1>4, <1>5 DEF registryVars

\* A new group has a free name and registered members.
LEMMA CreateGroupRegistry ==
  ASSUME IInv, RegistryInv, NEW n \in Names, CreateGroup(n)
  PROVE  /\ RegistryInv' /\ Registered' = Registered
         /\ \/ groups' = groups
            \/ \E r \in Names, room \in SUBSET Names : Registry!Create(r, room)
<1>1. /\ n \in Names /\ toServer[Owner(n)] # << >> /\ Owner(n) \in Procs
      /\ Head(toServer[Owner(n)]).cmd = "create_group"
      /\ UNCHANGED <<clients, clientsList, sock>>
  BY VisitedIs, OwnerIs DEF CreateGroup, Request, IInv
<1>. DEFINE r     == Head(toServer[Owner(n)])
            group == r.members \cup {n}
<1>2. r.name \in Names /\ group \subseteq Names
  BY <1>1, HeadIs
<1>3. CASE groups' = groups
  BY <1>1, <1>3, SameRegistry DEF registryVars
<1>4. CASE ~ NameTaken(r.name) /\ GroupIsValid(group)
           /\ groups' = [groups EXCEPT ![r.name] = group]
  <2>. HIDE DEF r, group
  <2>1. r.name \notin Registered /\ groups[r.name] = {} /\ r.name \notin Groups
    BY <1>2, <1>4 DEF NameTaken, Groups
  <2>2. group \subseteq Registered /\ Cardinality(group) >= 2
    BY <1>4 DEF GroupIsValid, Listed, RegistryInv, RegistryAgrees
  <2>3. groups \in [Names -> SUBSET Names]
    BY DEF IInv, TypeOK
  <2>4. /\ groups' \in [Names -> SUBSET Names]
        /\ groups'[r.name] = group
        /\ \A g \in Names \ {r.name} : groups'[g] = groups[g]
    BY <1>2, <1>4, <2>3
  <2>5. Registered' = Registered /\ Owned' = Owned
    BY <1>1 DEF Registered, Owned
  <2>6. Groups' \subseteq Groups \cup {r.name}
    BY <2>4 DEF Groups
  <2>7. Registry!Create(r.name, group)
    BY <1>4, <2>1, <2>2, <2>5
    DEF Registry!Create, Registry!Free, Registry!Cardinality, Cardinality
  <2>8. RegistryInv'
    BY <1>1, <2>1, <2>2, <2>4, <2>5, <2>6
    DEF RegistryInv, RegistryAgrees, NamesUnique, NoGhosts
  <2>. QED
    BY <1>2, <2>5, <2>7, <2>8
<1>. QED
  BY <1>3, <1>4 DEF CreateGroup

LEMMA ConnectRegistry ==
  ASSUME IInv, RegistryInv, ConnectNewClient
  PROVE  /\ RegistryInv'
         /\ \/ UNCHANGED <<Registered, groups>>
            \/ \E n \in Names : Registry!Join(n)
<1>. DEFINE p == Head(backlog)
            n == NameOf[p]
<1>1. /\ p \in Procs /\ sock[p] = NoFd /\ n \in Names /\ groups' = groups
      /\ stage = "connect"
  BY NextInLine, NameOfAssumption DEF ConnectNewClient
<1>2. FreeFd \in Nat /\ FreeFd \notin {NoFd, StdinFd}
  BY <1>1, FreeFdIsFree
<1>3. Groups' = Groups
  BY <1>1 DEF Groups
<1>4. CASE UNCHANGED <<clients, clientsList>>
  <2>1. Registered' = Registered /\ Owned' = Owned
    BY <1>4 DEF Registered, Owned
  <2>. QED
    BY <1>1, <1>3, <1>4, <2>1
    DEF RegistryInv, RegistryAgrees, NamesUnique, NoGhosts
<1>5. CASE /\ ~ NameTaken(n)
           /\ clients' = [clients EXCEPT ![n] = FreeFd]
           /\ clientsList' = [clientsList EXCEPT ![n] = @ + 1]
  <2>. HIDE DEF p, n
  <2>1. n \notin Registered /\ groups[n] = {} /\ n \notin Groups
    BY <1>1, <1>5 DEF NameTaken, Groups
  <2>2. /\ clients \in [Names -> {NoFd, StdinFd} \cup Nat] /\ clientsList \in [Names -> Nat]
        /\ clientsList[n] = 0
    BY <1>1, <2>1 DEF IInv, TypeOK, RegistryInv, RegistryAgrees
  <2>3. /\ clients'[n] = FreeFd /\ clientsList'[n] = 1
        /\ \A m \in Names \ {n} : clients'[m] = clients[m] /\ clientsList'[m] = clientsList[m]
    BY <1>1, <1>5, <2>2
  <2>4. Registered' = Registered \cup {n} /\ Owned' = Owned \cup {n}
    BY <1>1, <1>2, <2>3 DEF Registered, Owned
  <2>5. RegistryInv'
    BY <1>1, <1>3, <2>1, <2>3, <2>4
    DEF RegistryInv, RegistryAgrees, NamesUnique, NoGhosts
  <2>6. Registry!Join(n)
    BY <1>1, <2>1, <2>4 DEF Registry!Join, Registry!Free
  <2>. QED
    BY <1>1, <2>5, <2>6
<1>. QED
  BY <1>4, <1>5 DEF ConnectNewClient

LEMMA ExitLeaves ==
  ASSUME IInv, FewGroups, NEW n \in Names, ClientExit(n)
  PROVE  groups' = [g \in Names |-> groups[g] \ {n}]
<1>1. PICK missed \in SUBSET MayMiss(n) :
        groups' = [g \in Names |-> IF g \in missed THEN groups[g]
                                   ELSE MembersLeft(g, n)]
  BY DEF ClientExit
<1>2. missed = {}
  BY <1>1, NoneMissed
<1>. QED
  BY <1>1, <1>2 DEF MembersLeft

LEMMA ClientExitRegistry ==
  ASSUME IInv, RegistryInv, FewGroups, NEW n \in Names, ClientExit(n)
  PROVE  RegistryInv' /\ Registry!Leave(n)
<1>1. n \in Registered
  BY VisitedIs DEF ClientExit, Request
<1>2. /\ clients' = Unregistered(n)
      /\ clientsList' = [clientsList EXCEPT ![n] = 0]
  BY DEF ClientExit
<1>3. groups' = [g \in Names |-> groups[g] \ {n}]
  BY ExitLeaves
<1>4. /\ clients \in [Names -> {NoFd, StdinFd} \cup Nat] /\ clientsList \in [Names -> Nat]
  BY DEF IInv, TypeOK
<1>5. /\ clients'[n] = NoFd /\ clientsList'[n] = 0
      /\ \A m \in Names \ {n} : clients'[m] = clients[m] /\ clientsList'[m] = clientsList[m]
      /\ \A g \in Names : groups'[g] = groups[g] \ {n}
  BY <1>2, <1>3, <1>4 DEF Unregistered
<1>6. Registered' = Registered \ {n} /\ Owned' = Owned \ {n}
  BY <1>5 DEF Registered, Owned
<1>7. Groups' \subseteq Groups
  BY <1>5 DEF Groups
<1>8. RegistryInv'
  BY <1>5, <1>6, <1>7
  DEF RegistryInv, RegistryAgrees, NamesUnique, NoGhosts, Registered
<1>9. Registry!Leave(n)
  BY <1>1, <1>3, <1>6 DEF Registry!Leave
<1>. QED
  BY <1>8, <1>9

LEMMA NextRegistry ==
  ASSUME IInv, RegistryInv, FewGroups, [Next]_vars
  PROVE  RegistryInv' /\ [Registry!Next]_<<Registered, groups>>
<1>1. CASE UNCHANGED registryVars
  BY <1>1, SameRegistry
<1>2. ASSUME NEW p \in Procs, ClientStep(p) \/ UserStep(p)
      PROVE  UNCHANGED registryVars
  BY <1>2, SystemEffect, UserEffect DEF ClientEffect
<1>3. ASSUME NEW n \in Names, ClientExit(n)
      PROVE  RegistryInv' /\ [Registry!Next]_<<Registered, groups>>
  BY <1>3, ClientExitRegistry DEF Registry!Next
<1>4. ASSUME NEW n \in Names, CreateGroup(n)
      PROVE  RegistryInv' /\ [Registry!Next]_<<Registered, groups>>
  BY <1>4, CreateGroupRegistry DEF Registry!Next
<1>5. CASE ConnectNewClient
  BY <1>5, ConnectRegistry DEF Registry!Next
<1>6. ASSUME NEW n \in Names, Send(n)
      PROVE  UNCHANGED registryVars
  BY <1>6, SendRegistry
<1>7. ASSUME \/ \E typed \in BOOLEAN : Select(typed)
             \/ StdinIgnored \/ ServerExit
             \/ \E n \in Names : ReadFails(n) \/ Who(n)
      PROVE  UNCHANGED registryVars
  BY <1>7 DEF Select, StdinIgnored, ServerExit, ReadFails, Who
<1>8. UNCHANGED vars => UNCHANGED registryVars
  BY DEF vars
<1>. QED
  BY <1>1, <1>2, <1>3, <1>4, <1>5, <1>6, <1>7, <1>8 DEF Next, ServerStep

LEMMA RegistryInvAlways ==
  ASSUME FewGroups
  PROVE  Spec => []RegistryInv
<1>1. IInv /\ RegistryInv /\ [Next]_vars => RegistryInv'
  BY NextRegistry
<1>. QED
  BY <1>1, InitRegistry, Inductive, PTL DEF Spec

\* No name is ever that of a client and of a group: not in any order in which
\* processes connect, create groups, leave, crash and come back.
THEOREM NamesStayUnique ==
  ASSUME FewGroups
  PROVE  Spec => []NamesUnique
<1>1. RegistryInv => NamesUnique
  BY DEF RegistryInv
<1>. QED
  BY <1>1, RegistryInvAlways, PTL

\* Groups never have a member that is not registered, and the list that
\* create_group is checked against is the map's.
THEOREM RegistryStaysConsistent ==
  ASSUME FewGroups
  PROVE  Spec => []RegistryAgrees
<1>1. RegistryInv => RegistryAgrees
  BY DEF RegistryInv
<1>. QED
  BY <1>1, RegistryInvAlways, PTL

\* Each registered name keeps the connection of the process that gave it,
\* although descriptors are used again.
THEOREM SocketsStayTheirs ==
  ASSUME FewGroups
  PROVE  Spec => []SocketsAgree
<1>1. IInv /\ RegistryInv => SocketsAgree
  BY DEF IInv, SocketsHold, RegistryInv, NoGhosts, SocketsAgree
<1>. QED
  BY <1>1, Inductive, RegistryInvAlways, PTL

\* Every step of the server and its clients is a step of the registry or
\* leaves it alone: the loop over the clients can go astray, the names do not.
THEOREM ServerKeepsRegistry ==
  ASSUME FewGroups
  PROVE  Spec => ImplementsRegistry
<1>1. IInv /\ RegistryInv /\ [Next]_vars => [Registry!Next]_<<Registered, groups>>
  BY NextRegistry
<1>. QED
  BY <1>1, InitRegistry, Inductive, RegistryInvAlways, PTL
  DEF Spec, ImplementsRegistry, Registry!Spec, Registry!vars

-----------------------------------------------------------------------------
(***************************************************************************)
(* The request of a client that waits: it is under way, or its answer is.  *)
(***************************************************************************)
None(s, K) == \A i \in DOMAIN s : s[i] \notin K
Once(s, K) == \E i \in DOMAIN s : s[i] \in K /\ \A j \in DOMAIN s : s[j] \in K => j = i

LEMMA NoneOrOnceAppend ==
  ASSUME NEW T, NEW s \in Seq(T), NEW e \in T, NEW K
  PROVE  /\ None(s, K) /\ e \notin K => None(Append(s, e), K)
         /\ None(s, K) /\ e \in K => Once(Append(s, e), K)
         /\ Once(s, K) /\ e \notin K => Once(Append(s, e), K)
<1>1. /\ Len(s) \in Nat /\ DOMAIN s = 1 .. Len(s)
      /\ DOMAIN Append(s, e) = 1 .. Len(s) + 1
      /\ \A i \in 1 .. Len(s) : Append(s, e)[i] = s[i]
      /\ Append(s, e)[Len(s) + 1] = e
  BY AppendProperties, LenProperties
<1>2. \A i : i \in DOMAIN Append(s, e) <=> i \in DOMAIN s \/ i = Len(s) + 1
  BY <1>1
<1>3. \A i \in DOMAIN s : Append(s, e)[i] = s[i]
  BY <1>1
<1>4. None(s, K) /\ e \notin K => None(Append(s, e), K)
  BY <1>1, <1>2, <1>3 DEF None
<1>5. None(s, K) /\ e \in K => Once(Append(s, e), K)
  BY <1>1, <1>2, <1>3 DEF None, Once
<1>6. Once(s, K) /\ e \notin K => Once(Append(s, e), K)
  BY <1>1, <1>2, <1>3 DEF Once
<1>. QED
  BY <1>4, <1>5, <1>6

LEMMA NoneOrOnceTail ==
  ASSUME NEW T, NEW s \in Seq(T), s # << >>, NEW K
  PROVE  /\ None(s, K) => None(Tail(s), K)
         /\ Once(s, K) /\ Head(s) \in K => None(Tail(s), K)
         /\ Once(s, K) /\ Head(s) \notin K => Once(Tail(s), K)
<1>1. /\ Len(s) \in Nat \ {0} /\ DOMAIN s = 1 .. Len(s)
      /\ Head(s) = s[1] /\ Tail(s) \in Seq(T) /\ Len(Tail(s)) = Len(s) - 1
      /\ DOMAIN Tail(s) = 1 .. Len(s) - 1
      /\ \A i \in 1 .. Len(s) - 1 : Tail(s)[i] = s[i + 1]
  BY HeadTailProperties, LenProperties, EmptySeq
<1>2. ASSUME NEW i \in DOMAIN Tail(s)
      PROVE  i + 1 \in DOMAIN s /\ i + 1 # 1 /\ Tail(s)[i] = s[i + 1]
  BY <1>1
<1>3. None(s, K) => None(Tail(s), K)
  BY <1>2 DEF None
<1>4. ASSUME Once(s, K), Head(s) \in K PROVE None(Tail(s), K)
  <2>1. 1 \in DOMAIN s
    BY <1>1
  <2>2. \A j \in DOMAIN s : s[j] \in K => j = 1
    BY <1>1, <1>4, <2>1 DEF Once
  <2>. QED
    BY <1>2, <2>2 DEF None
<1>5. ASSUME Once(s, K), Head(s) \notin K PROVE Once(Tail(s), K)
  <2>1. PICK i \in DOMAIN s : s[i] \in K /\ \A j \in DOMAIN s : s[j] \in K => j = i
    BY <1>5 DEF Once
  <2>2. i # 1
    BY <1>1, <1>5, <2>1
  <2>3. i - 1 \in DOMAIN Tail(s) /\ (i - 1) + 1 = i
    BY <1>1, <2>2
  <2>4. Tail(s)[i - 1] \in K
    BY <1>2, <2>1, <2>3
  <2>5. \A j \in DOMAIN Tail(s) : Tail(s)[j] \in K => j = i - 1
    <3>1. \A j \in DOMAIN Tail(s) : Tail(s)[j] \in K => j + 1 = i
      BY <1>2, <2>1
    <3>. QED
      BY <1>1, <3>1
  <2>. QED
    BY <2>3, <2>4, <2>5 DEF Once
<1>. QED
  BY <1>3, <1>4, <1>5

LEMMA NoneOrOnceConcat ==
  ASSUME NEW T, NEW s \in Seq(T), NEW r \in Seq(T), NEW K, None(r, K)
  PROVE  /\ None(s, K) => None(s \o r, K)
         /\ Once(s, K) => Once(s \o r, K)
<1>1. /\ Len(s) \in Nat /\ Len(r) \in Nat
      /\ DOMAIN s = 1 .. Len(s) /\ DOMAIN r = 1 .. Len(r)
      /\ DOMAIN (s \o r) = 1 .. Len(s) + Len(r)
      /\ \A i \in 1 .. Len(s) + Len(r) :
           (s \o r)[i] = IF i <= Len(s) THEN s[i] ELSE r[i - Len(s)]
  BY ConcatProperties, LenProperties
<1>2. \A i \in DOMAIN s : i \in DOMAIN (s \o r) /\ (s \o r)[i] = s[i]
  BY <1>1
<1>3. ASSUME NEW i \in DOMAIN (s \o r), (s \o r)[i] \in K
      PROVE  i \in DOMAIN s /\ (s \o r)[i] = s[i]
  <2>1. CASE i <= Len(s)
    BY <1>1, <2>1
  <2>2. CASE ~ (i <= Len(s))
    <3>1. i - Len(s) \in DOMAIN r /\ (s \o r)[i] = r[i - Len(s)]
      BY <1>1, <2>2
    <3>. QED
      BY <1>3, <3>1 DEF None
  <2>. QED
    BY <2>1, <2>2
<1>. QED
  BY <1>2, <1>3, Zenon DEF None, Once

-----------------------------------------------------------------------------
Asking(no)    == {r \in Requests : r.no = no}
Answering(no) == {m \in Msgs : m.req = no}

\* What the streams of p do not hold.
NotAsked(p) == {r \in Requests : r.no > asked[p] \/ (r.cmd = "exit" /\ p \notin closed)}
NotMade(p)  == {m \in Msgs : m.req > asked[p]}

OneUnderWay(p) ==
  LET no == asked[p]
  IN  /\ no # 0
      /\ \/ Once(toServer[p], Asking(no)) /\ None(toClient[p], Answering(no))
         \/ None(toServer[p], Asking(no)) /\ Once(toClient[p], Answering(no))

\* A client that has not been accepted has heard nothing, and does not wait;
\* nor does one that has closed its end.
AnswerAt(p) ==
  /\ p \in closed => phase[p] = "left" /\ toClient[p] = << >>
  /\ sock[p] = NoFd => toClient[p] = << >> /\ phase[p] \notin {"idle", "typing", "waiting"}
  /\ None(toServer[p], NotAsked(p)) /\ None(toClient[p], NotMade(p))
  /\ phase[p] = "waiting" /\ ~ Down => OneUnderWay(p)

AnswerInv == \A p \in Procs : AnswerAt(p)

LEMMA StreamsAre ==
  ASSUME IInv, NEW p \in Procs
  PROVE  /\ toServer[p] \in Seq(Requests) /\ toClient[p] \in Seq(Msgs)
         /\ asked[p] \in Nat /\ sock[p] \in {NoFd} \cup Nat
BY DEF IInv, TypeOK, Msgs

LEMMA InitAnswer == Init => AnswerInv
<1>. SUFFICES ASSUME Init, NEW p \in Procs PROVE AnswerAt(p)
  BY DEF AnswerInv
<1>1. toServer[p] = << >> /\ toClient[p] = << >> /\ phase[p] = "new" /\ closed = {}
  BY DEF Init, ServerInit
<1>. QED
  BY <1>1 DEF AnswerAt, None

-----------------------------------------------------------------------------
(* The clients. *)

\* A step that does not concern p.
LEMMA OtherAnswer ==
  ASSUME NEW p \in Procs, AnswerAt(p), stage' = stage,
         phase'[p] = phase[p], asked'[p] = asked[p], sock'[p] = sock[p],
         toServer'[p] = toServer[p], toClient'[p] = toClient[p],
         p \in closed' <=> p \in closed
  PROVE  AnswerAt(p)'
BY DEF AnswerAt, OneUnderWay, NotAsked, NotMade, Down

\* A client that goes on without waiting.
LEMMA GoesOnAnswer ==
  ASSUME NEW p \in Procs, AnswerAt(p), phase[p] # "left", phase'[p] # "waiting",
         phase'[p] \in {"idle", "typing"} => sock[p] # NoFd,
         toClient[p] = << >> => toClient'[p] = << >>,
         UNCHANGED <<asked, sock, closed>>,
         None(toServer'[p], NotAsked(p)), None(toClient'[p], NotMade(p))
  PROVE  AnswerAt(p)'
BY DEF AnswerAt, NotAsked, NotMade

\* One that leaves.
LEMMA LeavesAnswer ==
  ASSUME IInv, NEW p \in Procs, AnswerAt(p), Leaves(p), UNCHANGED <<asked, sock>>,
         \/ toServer'[p] = toServer[p]
         \/ \E r \in Requests : r.no = 0 /\ toServer'[p] = Append(toServer[p], r)
  PROVE  AnswerAt(p)'
<1>1. /\ phase'[p] = "left" /\ p \in closed' /\ toClient'[p] = << >>
  BY DEF Leaves, Moves, IInv, TypeOK
<1>2. /\ NotAsked(p)' \subseteq NotAsked(p)
      /\ \A r \in Requests : r.no = 0 => r \notin NotAsked(p)'
  BY <1>1, StreamsAre DEF NotAsked
<1>3. None(toServer[p], NotAsked(p)')
  BY <1>2 DEF AnswerAt, None
<1>4. None(toServer'[p], NotAsked(p)')
  <2>. DEFINE K == NotAsked(p)'
  <2>1. ASSUME NEW r \in Requests, r.no = 0 PROVE None(Append(toServer[p], r), K)
    <3>1. r \notin K /\ None(toServer[p], K) /\ toServer[p] \in Seq(Requests)
      BY <1>2, <1>3, <2>1, StreamsAre
    <3>. HIDE DEF K
    <3>. QED
      BY <3>1, NoneOrOnceAppend
  <2>. HIDE DEF K
  <2>. QED
    BY <1>3, <2>1 DEF K
<1>. QED
  BY <1>1, <1>4 DEF AnswerAt, None

LEMMA ReadsOn ==
  ASSUME IInv, NEW p \in Procs, AnswerAt(p), toClient[p] # << >>
  PROVE  /\ sock[p] # NoFd /\ p \notin closed
         /\ Tail(toClient[p]) \in Seq(Msgs) /\ None(Tail(toClient[p]), NotMade(p))
         /\ Tail(toClient[p]) # << >> => None(Tail(Tail(toClient[p])), NotMade(p))
<1>1. toClient[p] \in Seq(Msgs)
  BY StreamsAre
<1>2. Tail(toClient[p]) \in Seq(Msgs) /\ None(Tail(toClient[p]), NotMade(p))
  BY <1>1, NoneOrOnceTail, HeadTailProperties DEF AnswerAt
<1>3. Tail(toClient[p]) # << >> => None(Tail(Tail(toClient[p])), NotMade(p))
  BY <1>2, NoneOrOnceTail
<1>. QED
  BY <1>2, <1>3 DEF AnswerAt

\* What p asks next is under way, once.
LEMMA AsksAnswer ==
  ASSUME IInv, NEW p \in Procs, AnswerAt(p), phase[p] = "typing",
         NEW r \in Requests, r.no = asked[p] + 1, r.cmd # "exit",
         toServer'[p] = Append(toServer[p], r), toClient'[p] = toClient[p],
         asked'[p] = asked[p] + 1, UNCHANGED <<sock, closed>>
  PROVE  AnswerAt(p)'
<1>. DEFINE no == asked[p] + 1
<1>1. /\ toServer[p] \in Seq(Requests) /\ toClient[p] \in Seq(Msgs)
      /\ asked[p] \in Nat
      /\ None(toServer[p], NotAsked(p)) /\ None(toClient[p], NotMade(p))
  BY StreamsAre DEF AnswerAt
<1>2. /\ \A q \in Requests : q.no \in Nat
      /\ \A m \in Msgs : m.req \in Nat
  BY DEF Requests, Msgs
<1>3. /\ Asking(no) \subseteq NotAsked(p) /\ NotAsked(p)' \subseteq NotAsked(p)
      /\ r \notin NotAsked(p)' /\ r \in Asking(no)
      /\ Answering(no) \subseteq NotMade(p) /\ NotMade(p)' \subseteq NotMade(p)
  BY <1>1, <1>2 DEF Asking, Answering, NotAsked, NotMade
<1>. HIDE DEF no
<1>4. /\ None(toServer[p], Asking(no)) /\ None(toServer[p], NotAsked(p)')
      /\ None(toClient[p], Answering(no)) /\ None(toClient[p], NotMade(p)')
  BY <1>1, <1>3 DEF None
<1>5. Once(toServer'[p], Asking(no))
  BY <1>1, <1>3, <1>4, NoneOrOnceAppend
<1>6. None(toServer'[p], NotAsked(p)')
  <2>. DEFINE K == NotAsked(p)'
  <2>1. r \notin K /\ None(toServer[p], K)
    BY <1>3, <1>4
  <2>. HIDE DEF K
  <2>2. None(Append(toServer[p], r), K)
    BY <1>1, <2>1, NoneOrOnceAppend
  <2>. QED
    BY <2>2 DEF K
<1>7. no # 0 /\ asked'[p] = no
  BY <1>1 DEF no
<1>. QED
  BY <1>4, <1>5, <1>6, <1>7 DEF AnswerAt, OneUnderWay

\* No step of p concerns another client.
LEMMA OnlyOwnAnswer ==
  ASSUME IInv, AnswerInv, NEW p \in Procs, ClientStep(p) \/ UserStep(p),
         NEW q \in Procs \ {p}
  PROVE  AnswerAt(q)'
<1>1. /\ phase \in [Procs -> Phases] /\ asked \in [Procs -> Nat]
      /\ DOMAIN toServer = Procs /\ DOMAIN toClient = Procs
  BY DEF IInv, TypeOK
<1>2. CASE UserStep(p)
  BY <1>1, <1>2, OtherAnswer
  DEF UserStep, Connect, ReadsCommand, Refuses, Asks, ExitsClient, Crashes,
      Leaves, Moves, Writes, AnswerInv, mainVars, registryVars, netVars
<1>3. CASE ClientStep(p)
  BY <1>1, <1>3, OtherAnswer
  DEF ClientStep, SendName, Connected, ReadsAnswer, ReadsMessage, LosesServer,
      Leaves, Moves, Writes, AnswerInv, mainVars, registryVars, netVars
<1>. QED
  BY <1>2, <1>3

LEMMA UserAnswer ==
  ASSUME IInv, NEW p \in Procs, AnswerAt(p), UserStep(p)
  PROVE  AnswerAt(p)'
<1>1. /\ phase \in [Procs -> Phases] /\ asked \in [Procs -> Nat]
      /\ DOMAIN toServer = Procs /\ DOMAIN toClient = Procs
      /\ NameOf[p] \in Names /\ GroupNames \subseteq Names
  BY NameOfAssumption, GroupNamesAssumption DEF IInv, TypeOK
<1>2. sock' = sock
  BY DEF UserStep, Connect, ReadsCommand, Refuses, Asks, ExitsClient, Crashes,
         registryVars
<1>3. CASE Connect(p)
  <2>1. CASE Moves(p, "naming") /\ UNCHANGED <<toClient, closed>>
    BY <1>1, <1>2, <1>3, <2>1, GoesOnAnswer DEF Connect, Moves, AnswerAt
  <2>2. CASE Leaves(p)
    BY <1>2, <1>3, <2>2, LeavesAnswer DEF Connect
  <2>. QED
    BY <1>3, <2>1, <2>2 DEF Connect
<1>4. CASE ReadsCommand(p) \/ Refuses(p)
  BY <1>1, <1>2, <1>4, GoesOnAnswer
  DEF ReadsCommand, Refuses, Moves, AnswerAt, netVars
<1>5. CASE Asks(p)
  <2>1. CASE Leaves(p) /\ UNCHANGED <<asked, toServer>>
    BY <1>2, <2>1, LeavesAnswer
  <2>2. CASE ~ (Leaves(p) /\ UNCHANGED <<asked, toServer>>)
    <3>1. /\ phase[p] = "typing" /\ asked' = [asked EXCEPT ![p] = @ + 1]
          /\ UNCHANGED <<toClient, closed>>
      BY <1>5, <2>2 DEF Asks
    <3>2. ASSUME NEW cmd \in {"create_group", "send", "who"}, NEW n \in Names,
                 NEW ms \in MemberLists \cup {{}},
                 Writes(p, Ask(cmd, n, ms, asked[p] + 1))
          PROVE  AnswerAt(p)'
      <4>. DEFINE r == Ask(cmd, n, ms, asked[p] + 1)
      <4>1. r \in Requests /\ r.no = asked[p] + 1 /\ r.cmd # "exit"
        BY <1>1 DEF Ask, Requests
      <4>2. toServer'[p] = Append(toServer[p], r)
        BY <1>1, <3>2 DEF Writes
      <4>. HIDE DEF r
      <4>. QED
        BY <1>1, <1>2, <3>1, <4>1, <4>2, AsksAnswer
    <3>3. \/ \E g \in GroupNames, ms \in MemberLists :
               Writes(p, Ask("create_group", g, ms, asked[p] + 1))
          \/ \E n \in Names : Writes(p, Ask("send", n, {}, asked[p] + 1))
          \/ Writes(p, Ask("who", NameOf[p], {}, asked[p] + 1))
      BY <1>5, <2>2 DEF Asks
    <3>. QED
      BY <1>1, <3>2, <3>3
  <2>. QED
    BY <2>1, <2>2
<1>6. CASE ExitsClient(p)
  <2>1. /\ Ask("exit", NameOf[p], {}, 0) \in Requests
        /\ Ask("exit", NameOf[p], {}, 0).no = 0
    BY <1>1 DEF Ask, Requests
  <2>2. toServer'[p] = Append(toServer[p], Ask("exit", NameOf[p], {}, 0))
    BY <1>1, <1>6 DEF ExitsClient, Writes
  <2>. QED
    BY <1>2, <1>6, <2>1, <2>2, LeavesAnswer DEF ExitsClient
<1>7. CASE Crashes(p)
  BY <1>2, <1>7, LeavesAnswer DEF Crashes
<1>. QED
  BY <1>3, <1>4, <1>5, <1>6, <1>7 DEF UserStep

LEMMA SystemAnswer ==
  ASSUME IInv, NEW p \in Procs, AnswerAt(p), ClientStep(p)
  PROVE  AnswerAt(p)'
<1>1. /\ phase \in [Procs -> Phases] /\ asked \in [Procs -> Nat]
      /\ DOMAIN toServer = Procs /\ DOMAIN toClient = Procs
      /\ NameOf[p] \in Names
  BY NameOfAssumption DEF IInv, TypeOK
<1>2. sock' = sock
  BY DEF ClientStep, SendName, Connected, ReadsAnswer, ReadsMessage, LosesServer,
         registryVars
<1>3. CASE SendName(p)
  <2>. DEFINE r == Ask("name", NameOf[p], {}, 0)
  <2>1. r \in Requests /\ r \notin NotAsked(p)
    BY <1>1 DEF Ask, Requests, NotAsked
  <2>2. toServer[p] \in Seq(Requests) /\ None(toServer[p], NotAsked(p))
    BY StreamsAre DEF AnswerAt
  <2>3. toServer'[p] = Append(toServer[p], r)
    BY <1>1, <1>3 DEF SendName, Writes
  <2>. HIDE DEF r
  <2>4. None(toServer'[p], NotAsked(p))
    BY <2>1, <2>2, <2>3, NoneOrOnceAppend
  <2>. QED
    BY <1>1, <1>2, <1>3, <2>4, GoesOnAnswer DEF SendName, Moves, AnswerAt
<1>4. ASSUME Moves(p, "idle"), phase[p] # "left", toClient[p] # << >>,
             toClient' = [toClient EXCEPT ![p] = Tail(@)],
             UNCHANGED <<toServer, closed, asked>>
      PROVE  AnswerAt(p)'
  <2>1. /\ toClient'[p] = Tail(toClient[p]) /\ phase'[p] = "idle"
        /\ toServer'[p] = toServer[p]
    BY <1>1, <1>4 DEF Moves
  <2>2. sock[p] # NoFd /\ None(toClient'[p], NotMade(p))
    BY <1>4, <2>1, ReadsOn
  <2>. QED
    BY <1>2, <1>4, <2>1, <2>2, GoesOnAnswer DEF AnswerAt
<1>5. CASE Connected(p)
  BY <1>2, <1>4, <1>5, LeavesAnswer DEF Connected
<1>6. CASE ReadsAnswer(p)
  BY <1>4, <1>6 DEF ReadsAnswer
<1>7. CASE ReadsMessage(p)
  <2>1. CASE Leaves(p)
    BY <1>2, <1>7, <2>1, LeavesAnswer DEF ReadsMessage
  <2>2. CASE ~ Leaves(p)
    <3>1. /\ phase[p] = "idle" /\ toClient[p] # << >>
          /\ UNCHANGED <<phase, closed, toServer, asked>>
          /\ \/ toClient'[p] = Tail(toClient[p])
             \/ /\ Head(toClient[p]).kind = "SEND"
                /\ toClient'[p] = Tail(Tail(toClient[p]))
      BY <1>1, <1>7, <2>2 DEF ReadsMessage
    <3>2. Head(toClient[p]).kind = "SEND" => Tail(toClient[p]) # << >>
      BY <3>1, InboxIs, TextFollows
    <3>3. sock[p] # NoFd /\ None(toClient'[p], NotMade(p))
      BY <3>1, <3>2, ReadsOn
    <3>. QED
      BY <1>2, <3>1, <3>3, GoesOnAnswer DEF AnswerAt
  <2>. QED
    BY <2>1, <2>2
<1>8. CASE LosesServer(p)
  BY <1>2, <1>8, LeavesAnswer DEF LosesServer
<1>. QED
  BY <1>3, <1>5, <1>6, <1>7, <1>8 DEF ClientStep

-----------------------------------------------------------------------------
(***************************************************************************)
(* The server.  A stream may get messages that answer nothing; one of its  *)
(* requests may be taken, and is then answered, if its client waits and    *)
(* the server lives on.                                                    *)
(***************************************************************************)
Quiet == {m \in Msgs : m.req = 0}

Overhears(q, box) ==
  \E ms \in Seq(Quiet) : /\ box = toClient[q] \o ms
                         /\ ms # << >> => sock'[q] # NoFd /\ q \notin closed

IsAnswered(q) ==
  /\ sock'[q] # NoFd
  /\ \E box \in Seq(Msgs), m \in Msgs :
       /\ Overhears(q, box)
       /\ m.req = Head(toServer[q]).no
       /\ toClient'[q] = IF q \in closed THEN box ELSE Append(box, m)

Served(q) ==
  /\ sock'[q] = NoFd => sock[q] = NoFd \/ q \in closed
  /\ \/ toServer'[q] = toServer[q] /\ Overhears(q, toClient'[q])
     \/ /\ toServer[q] # << >> /\ toServer'[q] = Tail(toServer[q])
        /\ \/ (phase[q] # "waiting" \/ Down') /\ Overhears(q, toClient'[q])
           \/ IsAnswered(q)

LEMMA OverheardIs ==
  ASSUME IInv, NEW q \in Procs, NEW box, Overhears(q, box)
  PROVE  /\ box \in Seq(Msgs)
         /\ sock'[q] = NoFd \/ q \in closed => box = toClient[q]
         /\ \A no \in Nat \ {0} :
              /\ None(toClient[q], Answering(no)) => None(box, Answering(no))
              /\ Once(toClient[q], Answering(no)) => Once(box, Answering(no))
         /\ None(toClient[q], NotMade(q)) => None(box, NotMade(q))
<1>1. toClient[q] \in Seq(Msgs) /\ asked[q] \in Nat
  BY StreamsAre
<1>2. PICK ms \in Seq(Quiet) : /\ box = toClient[q] \o ms
                               /\ ms # << >> => sock'[q] # NoFd /\ q \notin closed
  BY DEF Overhears
<1>3. /\ \A i \in DOMAIN ms : ms[i] \in Quiet
      /\ Quiet \subseteq Msgs
  BY ElementOfSeq, LenProperties DEF Quiet
<1>4. ms \in Seq(Msgs)
  BY <1>3, SeqDef
<1>5. box \in Seq(Msgs) /\ toClient[q] \o << >> = toClient[q]
  BY <1>1, <1>2, <1>4, ConcatProperties, ConcatEmptySeq
<1>6. ASSUME NEW K, K \cap Quiet = {}
      PROVE  /\ None(toClient[q], K) => None(box, K)
             /\ Once(toClient[q], K) => Once(box, K)
  <2>1. None(ms, K)
    BY <1>3, <1>6 DEF None
  <2>. QED
    BY <1>1, <1>2, <1>4, <2>1, NoneOrOnceConcat
<1>7. /\ \A no \in Nat \ {0} : Answering(no) \cap Quiet = {}
      /\ NotMade(q) \cap Quiet = {}
  BY <1>1 DEF Answering, NotMade, Quiet
<1>. QED
  BY <1>2, <1>5, <1>6, <1>7

LEMMA ServedAnswer ==
  ASSUME IInv, NEW q \in Procs, AnswerAt(q), Served(q), ~ Down,
         UNCHANGED clientVars, closed' = closed
  PROVE  AnswerAt(q)'
<1>1. /\ toServer[q] \in Seq(Requests) /\ asked[q] \in Nat
      /\ phase' = phase /\ asked' = asked
  BY StreamsAre DEF clientVars
<1>2. NotAsked(q)' = NotAsked(q) /\ NotMade(q)' = NotMade(q)
  BY <1>1 DEF NotAsked, NotMade
<1>3. /\ None(toServer[q], NotAsked(q)) /\ None(toClient[q], NotMade(q))
      /\ q \in closed => phase[q] = "left" /\ toClient[q] = << >>
      /\ sock[q] = NoFd => toClient[q] = << >> /\ phase[q] \notin {"idle", "typing", "waiting"}
  BY DEF AnswerAt
<1>4. sock'[q] = NoFd => toClient[q] = << >> /\ phase[q] \notin {"idle", "typing", "waiting"}
  BY <1>3 DEF Served
<1>5. /\ phase[q] = "waiting" => q \notin closed /\ OneUnderWay(q)
      /\ phase[q] = "waiting" => asked[q] \in Nat \ {0}
  BY <1>1 DEF AnswerAt, OneUnderWay
<1>6. CASE toServer'[q] = toServer[q] /\ Overhears(q, toClient'[q])
  <2>1. phase[q] = "waiting" => OneUnderWay(q)'
    BY <1>1, <1>5, <1>6, OverheardIs DEF OneUnderWay
  <2>. QED
    BY <1>1, <1>2, <1>3, <1>4, <1>6, <2>1, OverheardIs DEF AnswerAt
<1>7. CASE /\ toServer[q] # << >> /\ toServer'[q] = Tail(toServer[q])
           /\ phase[q] # "waiting" \/ Down'
           /\ Overhears(q, toClient'[q])
  <2>1. None(toServer'[q], NotAsked(q))
    BY <1>1, <1>3, <1>7, NoneOrOnceTail
  <2>. QED
    BY <1>1, <1>2, <1>3, <1>4, <1>7, <2>1, OverheardIs DEF AnswerAt
<1>8. CASE /\ toServer[q] # << >> /\ toServer'[q] = Tail(toServer[q])
           /\ IsAnswered(q)
  <2>. DEFINE no == asked[q]
              k  == Head(toServer[q]).no
  <2>1. PICK box \in Seq(Msgs), m \in Msgs :
          /\ Overhears(q, box) /\ m.req = k
          /\ toClient'[q] = IF q \in closed THEN box ELSE Append(box, m)
    BY <1>8 DEF IsAnswered
  <2>2. /\ Head(toServer[q]) \in Requests /\ k \in Nat
        /\ Head(toServer[q]) \notin NotAsked(q)
    <3>1. 1 \in DOMAIN toServer[q] /\ Head(toServer[q]) = toServer[q][1]
      BY <1>1, <1>8
    <3>. QED
      BY <1>3, <1>8, <3>1, HeadIs DEF None
  <2>3. k <= no /\ m \notin NotMade(q)
    BY <1>1, <2>1, <2>2 DEF NotAsked, NotMade
  <2>4. /\ Head(toServer[q]) \in Asking(no) <=> k = no
        /\ m \in Answering(no) <=> k = no
    BY <2>1, <2>2 DEF Asking, Answering
  <2>. HIDE DEF k, no
  <2>5. None(box, NotMade(q)) /\ (q \in closed => box = toClient[q])
    BY <1>3, <2>1, OverheardIs
  <2>6. None(toServer'[q], NotAsked(q))
    BY <1>1, <1>3, <1>8, NoneOrOnceTail
  <2>7. None(Append(box, m), NotMade(q))
    BY <2>1, <2>3, <2>5, NoneOrOnceAppend
  <2>8. None(toClient'[q], NotMade(q)) /\ (q \in closed => toClient'[q] = << >>)
    BY <1>3, <2>1, <2>5, <2>7
  <2>9. ASSUME phase[q] = "waiting" PROVE OneUnderWay(q)'
    <3>1. toClient'[q] = Append(box, m) /\ no \in Nat \ {0} /\ asked'[q] = no
      BY <1>1, <1>5, <2>1, <2>9 DEF no
    <3>2. CASE Once(toServer[q], Asking(no)) /\ None(toClient[q], Answering(no))
      <4>1. None(box, Answering(no))
        BY <2>1, <3>1, <3>2, OverheardIs
      <4>2. CASE k = no
        <5>1. None(Tail(toServer[q]), Asking(no))
          BY <1>1, <1>8, <2>4, <3>2, <4>2, NoneOrOnceTail
        <5>2. Once(Append(box, m), Answering(no))
          BY <2>1, <2>4, <2>5, <4>1, <4>2, NoneOrOnceAppend
        <5>. QED
          BY <1>8, <3>1, <5>1, <5>2 DEF OneUnderWay
      <4>3. CASE k # no
        <5>1. Once(Tail(toServer[q]), Asking(no))
          BY <1>1, <1>8, <2>4, <3>2, <4>3, NoneOrOnceTail
        <5>2. None(Append(box, m), Answering(no))
          BY <2>1, <2>4, <2>5, <4>1, <4>3, NoneOrOnceAppend
        <5>. QED
          BY <1>8, <3>1, <5>1, <5>2 DEF OneUnderWay
      <4>. QED
        BY <4>2, <4>3
    <3>3. CASE None(toServer[q], Asking(no)) /\ Once(toClient[q], Answering(no))
      <4>1. Once(box, Answering(no))
        BY <2>1, <3>1, <3>3, OverheardIs
      <4>2. k # no
        <5>1. 1 \in DOMAIN toServer[q] /\ Head(toServer[q]) = toServer[q][1]
          BY <1>1, <1>8
        <5>. QED
          BY <2>4, <3>3, <5>1 DEF None
      <4>3. None(Tail(toServer[q]), Asking(no))
        BY <1>1, <1>8, <3>3, NoneOrOnceTail
      <4>4. Once(Append(box, m), Answering(no))
        BY <2>1, <2>4, <2>5, <4>1, <4>2, NoneOrOnceAppend
      <4>. QED
        BY <1>8, <3>1, <4>3, <4>4 DEF OneUnderWay
    <3>. QED
      BY <1>5, <2>9, <3>2, <3>3 DEF OneUnderWay, no
  <2>. QED
    BY <1>1, <1>2, <1>3, <1>4, <1>8, <2>6, <2>8, <2>9 DEF AnswerAt, IsAnswered
<1>. QED
  BY <1>6, <1>7, <1>8 DEF Served

LEMMA Unheard ==
  ASSUME IInv, NEW q \in Procs
  PROVE  Overhears(q, toClient[q])
<1>1. << >> \in Seq(Quiet) /\ toClient[q] = toClient[q] \o << >>
  BY StreamsAre, ConcatEmptySeq
<1>. QED
  BY <1>1 DEF Overhears

LEMMA PushedHeard ==
  ASSUME IInv, NEW q \in Procs, NEW ps, NEW ms \in Seq(Quiet),
         q \in ps => sock'[q] # NoFd
  PROVE  Overhears(q, Pushed(toClient, ps, ms)[q])
<1>1. CASE q \in ps \ closed
  BY <1>1 DEF Overhears, Pushed
<1>2. CASE q \notin ps \ closed
  BY <1>2, Unheard DEF Pushed
<1>. QED
  BY <1>1, <1>2

LEMMA QuietIs ==
  /\ \A kind \in MessageKinds : <<Message(kind, 0)>> \in Seq(Quiet)
  /\ SendPop \in Seq(Quiet)
BY DEF Quiet, Msgs, Message, MessageKinds, SendPop

\* No answer is owed: what is said is heard, and nothing is taken.
LEMMA PushedServes ==
  ASSUME IInv, sock' = sock, toServer' = toServer, NEW q \in Procs,
         \/ toClient' = toClient
         \/ \E ns, ms : ms \in Seq(Quiet) /\ toClient' = Pushed(toClient, Owners(ns), ms)
  PROVE  Served(q)
<1>1. CASE toClient' = toClient
  BY <1>1, Unheard DEF Served
<1>2. ASSUME NEW ns, NEW ms, ms \in Seq(Quiet), toClient' = Pushed(toClient, Owners(ns), ms)
      PROVE  Served(q)
  <2>1. q \in Owners(ns) => sock'[q] # NoFd
    BY DEF Owners
  <2>. QED
    BY <1>2, <2>1, PushedHeard DEF Served
<1>. QED
  BY <1>1, <1>2

\* The request at hand is answered.
LEMMA AnswerServes ==
  ASSUME IInv, sock' = sock, NEW n \in Owned, NEW kind \in MessageKinds,
         NEW inbox, \A q \in Procs : Overhears(q, inbox[q]),
         toServer[Owner(n)] # << >>, toServer' = Taken(Owner(n)),
         Answer(n, inbox, kind), NEW q \in Procs
  PROVE  Served(q)
<1>. DEFINE p == Owner(n)
            m == Message(kind, Head(toServer[p]).no)
<1>1. p \in Procs /\ sock[p] = clients[n] /\ clients[n] # NoFd
  BY OwnerIs DEF IInv, Owned, Registered
<1>2. Overhears(q, inbox[q]) /\ inbox[q] \in Seq(Msgs)
  BY OverheardIs
<1>3. toClient'[q] = IF q = p /\ q \notin closed THEN inbox[q] \o <<m>> ELSE inbox[q]
  BY DEF Answer, Pushed
<1>4. m \in Msgs /\ m.req = Head(toServer[p]).no
  BY <1>1, HeadIs DEF Message, Msgs
<1>5. toServer'[q] = IF q = p THEN Tail(toServer[q]) ELSE toServer[q]
  BY DEF Taken, IInv, TypeOK
<1>. HIDE DEF m, p
<1>6. CASE q # p
  BY <1>2, <1>3, <1>5, <1>6 DEF Served
<1>7. CASE q = p
  <2>1. toClient'[q] = IF q \in closed THEN inbox[q] ELSE Append(inbox[q], m)
    <3>1. inbox[q] \o <<m>> = Append(inbox[q], m)
      BY <1>2, <1>4, AppendIsConcat
    <3>. QED
      BY <1>3, <1>7, <3>1
  <2>2. IsAnswered(q)
    BY <1>1, <1>2, <1>4, <1>7, <2>1 DEF IsAnswered
  <2>. QED
    BY <1>1, <1>5, <1>7, <2>2 DEF Served, p
<1>. QED
  BY <1>6, <1>7

\* A request of exit is the last that a process makes.
LEMMA ExitIsLast ==
  ASSUME IInv, NEW q \in Procs, AnswerAt(q), toServer[q] # << >>,
         Head(toServer[q]).cmd = "exit"
  PROVE  q \in closed /\ phase[q] # "waiting"
<1>1. Head(toServer[q]) \in Requests
  BY HeadIs
<1>2. Head(toServer[q]) \notin NotAsked(q)
  <2>1. toServer[q] \in Seq(Requests)
    BY StreamsAre
  <2>2. 1 \in DOMAIN toServer[q] /\ Head(toServer[q]) = toServer[q][1]
    BY <2>1
  <2>. QED
    BY <2>2 DEF AnswerAt, None
<1>3. q \in closed
  BY <1>1, <1>2 DEF NotAsked
<1>. QED
  BY <1>3 DEF AnswerAt

LEMMA ConnectServes ==
  ASSUME IInv, AnswerInv, ConnectNewClient, NEW q \in Procs
  PROVE  Served(q)
<1>. DEFINE p == Head(backlog)
<1>1. /\ p \in Procs /\ sock[p] = NoFd
      /\ sock' = [sock EXCEPT ![p] = FreeFd] /\ closed' = closed
  BY NextInLine DEF ConnectNewClient
<1>2. /\ \/ toServer' = toServer /\ toClient' = toClient
         \/ \E kind \in {"success", "name_exists"} :
              /\ toServer[p] # << >> /\ toServer' = Taken(p)
              /\ toClient' = Pushed(toClient, {p}, <<Message(kind, 0)>>)
  BY DEF ConnectNewClient
<1>. HIDE DEF p
<1>3. sock'[p] # NoFd /\ \A o \in Procs \ {p} : sock'[o] = sock[o]
  BY <1>1, SockGrows
<1>4. phase[p] # "waiting"
  BY <1>1 DEF AnswerInv, AnswerAt
<1>5. CASE toServer' = toServer /\ toClient' = toClient
  BY <1>3, <1>5, Unheard DEF Served
<1>6. ASSUME NEW kind \in {"success", "name_exists"},
             toServer[p] # << >>, toServer' = Taken(p),
             toClient' = Pushed(toClient, {p}, <<Message(kind, 0)>>)
      PROVE  Served(q)
  <2>1. <<Message(kind, 0)>> \in Seq(Quiet)
    BY QuietIs DEF MessageKinds
  <2>. DEFINE ms == <<Message(kind, 0)>>
  <2>. HIDE DEF ms
  <2>2. Overhears(q, Pushed(toClient, {p}, ms)[q])
    BY <1>3, <2>1, PushedHeard DEF ms
  <2>3. toServer'[q] = IF q = p THEN Tail(toServer[q]) ELSE toServer[q]
    BY <1>6 DEF Taken, IInv, TypeOK
  <2>. QED
    BY <1>3, <1>4, <1>6, <2>2, <2>3 DEF Served, ms
<1>. QED
  BY <1>2, <1>5, <1>6

LEMMA ExitServes ==
  ASSUME IInv, AnswerInv, NEW n \in Names, ClientExit(n), NEW q \in Procs
  PROVE  Served(q)
<1>. DEFINE p == Owner(n)
<1>1. /\ p \in Procs /\ toServer[p] # << >> /\ Head(toServer[p]).cmd = "exit"
      /\ toServer' = Taken(p) /\ sock' = [sock EXCEPT ![p] = NoFd]
      /\ toClient' = toClient
  BY VisitedIs, OwnerIs DEF ClientExit, Request, IInv
<1>. HIDE DEF p
<1>2. p \in closed /\ phase[p] # "waiting"
  BY <1>1, ExitIsLast DEF AnswerInv
<1>3. /\ toServer'[q] = IF q = p THEN Tail(toServer[q]) ELSE toServer[q]
      /\ sock'[q] = IF q = p THEN NoFd ELSE sock[q]
  BY <1>1 DEF Taken, IInv, TypeOK
<1>. QED
  BY <1>1, <1>2, <1>3, Unheard DEF Served

LEMMA SendServes ==
  ASSUME IInv, AnswerInv, NEW n \in Names, Send(n), NEW q \in Procs
  PROVE  Served(q)
<1>. DEFINE p == Owner(n)
            reached(ns) == Pushed(toClient, Owners(ns), SendPop)
<1>1. /\ n \in Owned /\ p \in Procs /\ toServer[p] # << >>
      /\ toServer' = Taken(p) /\ sock' = sock
  BY VisitedIs, OwnerIs DEF Send, Request, IInv
<1>2. \A ns : \A o \in Procs : Overhears(o, reached(ns)[o])
  BY <1>1, QuietIs, PushedHeard DEF Owners
<1>3. \/ \E ns : \E kind \in MessageKinds : Answer(n, reached(ns), kind)
      \/ Answer(n, toClient, "failure")
      \/ \E ns : toClient' = reached(ns) /\ Dies
  BY DEF Send, MessageKinds
<1>. HIDE DEF p, reached
<1>4. ASSUME NEW ns, NEW kind \in MessageKinds, Answer(n, reached(ns), kind)
      PROVE  Served(q)
  <2>. DEFINE inbox == reached(ns)
  <2>1. (\A o \in Procs : Overhears(o, inbox[o])) /\ Answer(n, inbox, kind)
    BY <1>2, <1>4
  <2>2. toServer[Owner(n)] # << >> /\ toServer' = Taken(Owner(n))
    BY <1>1 DEF p
  <2>. HIDE DEF inbox
  <2>. QED
    BY <1>1, <2>1, <2>2, AnswerServes
<1>5. CASE Answer(n, toClient, "failure")
  BY <1>1, <1>5, Unheard, AnswerServes DEF p, MessageKinds
<1>6. ASSUME NEW ns, toClient' = reached(ns), Dies
      PROVE  Served(q)
  <2>1. toServer'[q] = IF q = p THEN Tail(toServer[q]) ELSE toServer[q]
    BY <1>1 DEF Taken, IInv, TypeOK
  <2>2. Down'
    BY <1>6 DEF Dies, Down
  <2>. QED
    BY <1>1, <1>2, <1>6, <2>1, <2>2 DEF Served
<1>. QED
  BY <1>3, <1>4, <1>5, <1>6

LEMMA ServerServes ==
  ASSUME IInv, AnswerInv, ServerStep, NEW q \in Procs
  PROVE  Served(q) /\ ~ Down /\ closed' = closed
<1>1. ASSUME NEW typed \in BOOLEAN, Select(typed)
      PROVE  Served(q) /\ ~ Down /\ closed' = closed
  BY <1>1, PushedServes DEF Select, Down, registryVars, netVars
<1>2. CASE ConnectNewClient
  BY <1>2, ConnectServes DEF ConnectNewClient, Down
<1>3. CASE StdinIgnored
  BY <1>3, PushedServes DEF StdinIgnored, Down, registryVars, netVars
<1>4. CASE ServerExit
  <2>1. <<Message("server_exit", 0)>> \in Seq(Quiet)
    BY QuietIs DEF MessageKinds
  <2>2. \E ns : toClient' = Pushed(toClient, Owners(ns), <<Message("server_exit", 0)>>)
    BY <1>4 DEF ServerExit
  <2>. QED
    BY <1>4, <2>1, <2>2, PushedServes DEF ServerExit, Down, registryVars
<1>5. ASSUME NEW n \in Names, ReadFails(n)
      PROVE  Served(q) /\ ~ Down /\ closed' = closed
  BY <1>5, PushedServes DEF ReadFails, Visits, Down, registryVars, netVars
<1>6. ASSUME NEW n \in Names, CreateGroup(n)
      PROVE  Served(q) /\ ~ Down /\ closed' = closed
  <2>1. /\ n \in Owned /\ toServer[Owner(n)] # << >>
        /\ toServer' = Taken(Owner(n)) /\ sock' = sock
        /\ \E kind \in MessageKinds : Answer(n, toClient, kind)
    BY <1>6, VisitedIs DEF CreateGroup, Request, MessageKinds
  <2>. QED
    BY <1>6, <2>1, Unheard, AnswerServes DEF CreateGroup, Request, Visits, Down
<1>7. ASSUME NEW n \in Names, Send(n)
      PROVE  Served(q) /\ ~ Down /\ closed' = closed
  BY <1>7, SendServes DEF Send, Request, Visits, Down
<1>8. ASSUME NEW n \in Names, Who(n)
      PROVE  Served(q) /\ ~ Down /\ closed' = closed
  <2>1. /\ n \in Owned /\ toServer[Owner(n)] # << >>
        /\ toServer' = Taken(Owner(n)) /\ sock' = sock
        /\ Answer(n, toClient, "who_list") /\ "who_list" \in MessageKinds
    BY <1>8, VisitedIs DEF Who, Request, MessageKinds, registryVars
  <2>. QED
    BY <1>8, <2>1, Unheard, AnswerServes DEF Who, Request, Visits, Down
<1>9. ASSUME NEW n \in Names, ClientExit(n)
      PROVE  Served(q) /\ ~ Down /\ closed' = closed
  BY <1>9, ExitServes DEF ClientExit, Request, Visits, Down
<1>. QED
  BY <1>1, <1>2, <1>3, <1>4, <1>5, <1>6, <1>7, <1>8, <1>9 DEF ServerStep

LEMMA NextAnswer ==
  ASSUME IInv, AnswerInv, [Next]_vars
  PROVE  AnswerInv'
<1>. SUFFICES ASSUME NEW q \in Procs PROVE AnswerAt(q)'
  BY DEF AnswerInv
<1>1. AnswerAt(q)
  BY DEF AnswerInv
<1>2. CASE ServerStep /\ UNCHANGED clientVars
  BY <1>1, <1>2, ServerServes, ServedAnswer
<1>3. ASSUME NEW p \in Procs, ClientStep(p) \/ UserStep(p)
      PROVE  AnswerAt(q)'
  BY <1>1, <1>3, UserAnswer, SystemAnswer, OnlyOwnAnswer
<1>4. CASE UNCHANGED vars
  BY <1>1, <1>4, OtherAnswer DEF vars, mainVars, registryVars, netVars, clientVars
<1>. QED
  BY <1>2, <1>3, <1>4 DEF Next

\* One place of the two streams concerns the request that is waited for.
LEMMA OneIsCounted ==
  ASSUME IInv, AnswerInv
  PROVE  RequestNotForgotten
<1>. SUFFICES ASSUME NEW p \in Procs, phase[p] = "waiting", ~ Down
              PROVE  Cardinality(Outstanding(p)) + Cardinality(Answers(p)) = 1
  BY DEF RequestNotForgotten
<1>1. /\ toServer[p] \in Seq(Requests) /\ toClient[p] \in Seq(Msgs)
      /\ OneUnderWay(p)
  BY StreamsAre DEF AnswerInv, AnswerAt
<1>2. /\ \A i \in DOMAIN toServer[p] : toServer[p][i] \in Requests
      /\ \A i \in DOMAIN toClient[p] : toClient[p][i] \in Msgs
  BY <1>1
<1>. DEFINE no == asked[p]
<1>3. /\ None(toServer[p], Asking(no)) => Outstanding(p) = {}
      /\ Once(toServer[p], Asking(no)) => \E i : Outstanding(p) = {i}
  BY <1>2 DEF None, Once, Asking, Outstanding
<1>4. /\ None(toClient[p], Answering(no)) => Answers(p) = {}
      /\ Once(toClient[p], Answering(no)) => \E i : Answers(p) = {i}
  BY <1>2 DEF None, Once, Answering, Answers
<1>5. Cardinality({}) = 0 /\ \A i : Cardinality({i}) = 1
  BY FS_EmptySet, FS_Singleton
<1>. QED
  <2>1. CASE Once(toServer[p], Asking(no)) /\ None(toClient[p], Answering(no))
    <3>1. Cardinality(Outstanding(p)) = 1 /\ Cardinality(Answers(p)) = 0
      BY <1>3, <1>4, <1>5, <2>1
    <3>. QED
      BY <3>1
  <2>2. CASE None(toServer[p], Asking(no)) /\ Once(toClient[p], Answering(no))
    <3>1. Cardinality(Outstanding(p)) = 0 /\ Cardinality(Answers(p)) = 1
      BY <1>3, <1>4, <1>5, <2>2
    <3>. QED
      BY <3>1
  <2>. QED
    BY <1>1, <2>1, <2>2 DEF OneUnderWay

\* The request of a client that waits is never lost by the server and never
\* answered twice, whatever the others do at the same time: it is under way,
\* or its answer is.
THEOREM RequestsAreNotForgotten == Spec => []RequestNotForgotten
<1>1. Init => AnswerInv
  BY InitAnswer
<1>2. IInv /\ AnswerInv /\ [Next]_vars => AnswerInv'
  BY NextAnswer
<1>3. IInv /\ AnswerInv => RequestNotForgotten
  BY OneIsCounted
<1>. QED
  BY <1>1, <1>2, <1>3, Inductive, PTL DEF Spec
=============================================================================
