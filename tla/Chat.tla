-------------------------------- MODULE Chat --------------------------------
(***************************************************************************)
(* The chat: the server together with its clients, ex4/whatsappClient.cpp. *)
(*                                                                         *)
(* A client waits in select for the server or for its user.  A command is  *)
(* sent and the NEXT message that arrives is read as its answer; messages  *)
(* of other clients arrive on the same stream.  Any failing read ends the  *)
(* process.                                                                *)
(*                                                                         *)
(* A definition Mut<Name>, always just before <Name>, is <Name> with a     *)
(* plausible mistake; nothing uses it but the mutation runs.               *)
(***************************************************************************)
EXTENDS ChatServer, Functions

CONSTANTS
  GroupNames,    \* names users ask groups to have
  MemberLists,   \* and the lists of members they give
  Commands,      \* the commands users give, besides `exit'
  MayCrash,      \* processes that can be killed by their users
  MaxRequests    \* bound: requests of all processes, `exit' not counted

ASSUME GroupNamesAssumption == GroupNames \subseteq Names
ASSUME ListsAssumption      == MemberLists \subseteq SUBSET Names
ASSUME CommandsAssumption   == Commands \subseteq {"create_group", "send", "who"}
ASSUME MayCrashAssumption   == MayCrash \subseteq Procs
ASSUME RequestsAssumption   == MaxRequests \in Nat

VARIABLES
  phase,         \* where each process is
  asked          \* how many requests it has sent

clientVars == <<phase, asked>>
vars       == <<mainVars, registryVars, netVars, clientVars>>

Phases == {"new", "naming", "connecting", "idle", "typing", "waiting", "left"}

\* A command, and what parseCommand finds in it.
Ask(cmd, name, members, no) ==
  [cmd |-> cmd, name |-> name, members |-> members, no |-> no]

Requests ==
  [cmd : {"name", "create_group", "send", "who", "exit"},
   name : Names, members : MemberLists \cup {{}}, no : Nat]

-----------------------------------------------------------------------------
Init ==
  /\ ServerInit
  /\ phase = [p \in Procs |-> "new"]
  /\ asked = [p \in Procs |-> 0]

Moves(p, to) == phase' = [phase EXCEPT ![p] = to]

Writes(p, r) == toServer' = [toServer EXCEPT ![p] = Append(@, r)]

\* The process ends and its socket is closed; what it has not read is lost.
Leaves(p) ==
  /\ Moves(p, "left")
  /\ closed' = closed \cup {p}
  /\ toClient' = [toClient EXCEPT ![p] = << >>]

\* Nothing more will come from the server.
AtEnd(p) == toClient[p] = << >> /\ Down

Connect(p) ==
  /\ phase[p] = "new"
  /\ \/ /\ ~ Down
        /\ backlog' = Append(backlog, p)
        /\ Moves(p, "naming")
        /\ UNCHANGED <<toClient, closed>>
     \/ /\ Down
        /\ Leaves(p)
        /\ UNCHANGED backlog
  /\ UNCHANGED <<toServer, asked>>
  /\ UNCHANGED mainVars /\ UNCHANGED registryVars

SendName(p) ==
  /\ phase[p] = "naming"
  /\ Writes(p, Ask("name", NameOf[p], {}, 0))
  /\ Moves(p, "connecting")
  /\ UNCHANGED <<backlog, toClient, closed, asked>>
  /\ UNCHANGED mainVars /\ UNCHANGED registryVars

\* Only SUCCESS lets the client go on.
Connected(p) ==
  /\ phase[p] = "connecting"
  /\ toClient[p] # << >>
  /\ \/ /\ Head(toClient[p]).kind = "success"
        /\ toClient' = [toClient EXCEPT ![p] = Tail(@)]
        /\ Moves(p, "idle")
        /\ UNCHANGED closed
     \/ /\ Head(toClient[p]).kind # "success"
        /\ Leaves(p)
  /\ UNCHANGED <<backlog, toServer, asked>>
  /\ UNCHANGED mainVars /\ UNCHANGED registryVars

\* select reports only the user's input, so nothing had arrived by then.
ReadsCommand(p) ==
  /\ phase[p] = "idle"
  /\ toClient[p] = << >>
  /\ ~ Down
  /\ Moves(p, "typing")
  /\ UNCHANGED asked
  /\ UNCHANGED mainVars /\ UNCHANGED registryVars /\ UNCHANGED netVars

\* Invalid input, and commands about one's own name, are refused at once.
Refuses(p) ==
  /\ phase[p] = "typing"
  /\ Moves(p, "idle")
  /\ UNCHANGED asked
  /\ UNCHANGED mainVars /\ UNCHANGED registryVars /\ UNCHANGED netVars

\* create_group, send and who; the write to a server that is gone can end
\* the process.
Asks(p) ==
  /\ phase[p] = "typing"
  /\ FoldFunction(+, 0, asked) < MaxRequests
  /\ \/ /\ asked' = [asked EXCEPT ![p] = @ + 1]
        /\ Moves(p, "waiting")
        /\ \/ /\ "create_group" \in Commands
              /\ \E g \in GroupNames \ {NameOf[p]}, ms \in MemberLists :
                   Writes(p, Ask("create_group", g, ms, asked[p] + 1))
           \/ /\ "send" \in Commands
              /\ \E n \in Names \ {NameOf[p]} :
                   Writes(p, Ask("send", n, {}, asked[p] + 1))
           \/ /\ "who" \in Commands
              /\ Writes(p, Ask("who", NameOf[p], {}, asked[p] + 1))
        /\ UNCHANGED <<toClient, closed>>
     \/ /\ Down
        /\ Leaves(p)
        /\ UNCHANGED <<asked, toServer>>
  /\ UNCHANGED backlog
  /\ UNCHANGED mainVars /\ UNCHANGED registryVars

\* exit_client does not wait for the server.
ExitsClient(p) ==
  /\ phase[p] = "typing"
  /\ Writes(p, Ask("exit", NameOf[p], {}, 0))
  /\ Leaves(p)
  /\ UNCHANGED <<backlog, asked>>
  /\ UNCHANGED mainVars /\ UNCHANGED registryVars

\* Whatever comes next is read as the answer.
ReadsAnswer(p) ==
  /\ phase[p] = "waiting"
  /\ toClient[p] # << >>
  /\ toClient' = [toClient EXCEPT ![p] = Tail(@)]
  /\ Moves(p, "idle")
  /\ UNCHANGED <<backlog, toServer, closed, asked>>
  /\ UNCHANGED mainVars /\ UNCHANGED registryVars

\* In the main loop: the end of the server, a message of another client,
\* which is two reads, or anything else, which is dropped.
ReadsMessage(p) ==
  /\ phase[p] = "idle"
  /\ toClient[p] # << >>
  /\ LET kind == Head(toClient[p]).kind IN
     \/ /\ kind = "server_exit"
        /\ Leaves(p)
     \/ /\ kind = "SEND"
        /\ toClient' = [toClient EXCEPT ![p] = Tail(Tail(@))]
        /\ UNCHANGED <<phase, closed>>
     \/ /\ kind \notin {"server_exit", "SEND"}
        /\ toClient' = [toClient EXCEPT ![p] = Tail(@)]
        /\ UNCHANGED <<phase, closed>>
  /\ UNCHANGED <<backlog, toServer, asked>>
  /\ UNCHANGED mainVars /\ UNCHANGED registryVars

\* A read finds the stream at its end.
LosesServer(p) ==
  /\ phase[p] \in {"connecting", "idle", "waiting"}
  /\ AtEnd(p)
  /\ Leaves(p)
  /\ UNCHANGED <<backlog, toServer, asked>>
  /\ UNCHANGED mainVars /\ UNCHANGED registryVars

\* The user kills the client, or ends it with a line of blanks.
Crashes(p) ==
  /\ p \in MayCrash
  /\ phase[p] \notin {"new", "left"}
  /\ Leaves(p)
  /\ UNCHANGED <<backlog, toServer, asked>>
  /\ UNCHANGED mainVars /\ UNCHANGED registryVars

\* What a client does without its user.
ClientStep(p) ==
  SendName(p) \/ Connected(p) \/ ReadsAnswer(p) \/ ReadsMessage(p) \/ LosesServer(p)

UserStep(p) ==
  Connect(p) \/ ReadsCommand(p) \/ Refuses(p) \/ Asks(p) \/ ExitsClient(p) \/ Crashes(p)

Next ==
  \/ ServerStep /\ UNCHANGED clientVars
  \/ \E p \in Procs : ClientStep(p) \/ UserStep(p)

Spec == Init /\ [][Next]_vars

\* The kernel runs the server and every client; the operator does not type a
\* line in every single round.
FairSpec ==
  /\ Spec
  /\ WF_vars(ServerStep /\ UNCHANGED clientVars)
  /\ SF_vars(Select(FALSE) /\ UNCHANGED clientVars)
  /\ \A p \in Procs : WF_vars(ClientStep(p))

-----------------------------------------------------------------------------
TypeOK ==
  /\ stage \in {"select", "connect", "stdin", "walk", "exited", "dead"}
  /\ readfds \subseteq 0 .. MAX_CLIENTS
  /\ walk \subseteq Registered
  /\ clients \in [Names -> {NoFd, StdinFd} \cup Nat]
  /\ clientsList \in [Names -> Nat]
  /\ groups \in [Names -> SUBSET Names]
  /\ sock \in [Procs -> {NoFd} \cup Nat]
  /\ backlog \in Seq(Procs)
  /\ toServer \in [Procs -> Seq(Requests)]
  /\ toClient \in [Procs -> Seq([kind : MessageKinds, req : Nat])]
  /\ closed \subseteq Procs
  /\ phase \in [Procs -> Phases]
  /\ asked \in [Procs -> Nat]

\* "no other group or client with this name is allowed": through any order of
\* connecting, creating, leaving and reconnecting.
NamesUnique == Registered \cap Groups = {}

\* A group has only members that are registered, and the list that requests
\* are checked against holds exactly the clients of the map, once each.
RegistryAgrees ==
  /\ \A g \in Names : groups[g] \subseteq Registered
  /\ \A n \in Names : clientsList[n] = IF n \in Registered THEN 1 ELSE 0

\* A client of the map has the socket of one process, which gave this name,
\* and the socket is open: no request is ever attributed to someone else.
SocketsAgree ==
  \A n \in Registered :
    \E p \in Procs : /\ sock[p] = clients[n]
                     /\ NameOf[p] = n
                     /\ \A q \in Procs \ {p} : sock[q] # sock[p]

\* The names follow the promise of the registry through every order of
\* connecting, creating groups and leaving, also when the loop over the
\* clients goes astray over a freed node.
Registry == INSTANCE AbstractRegistry WITH members <- Registered, rooms <- groups

ImplementsRegistry == Registry!Spec

\* While a client waits and the server is up, its request or the answer to it
\* is under way, and only one of them: no handler forgets to answer or
\* answers twice, however the request ends.
Outstanding(p) == {i \in DOMAIN toServer[p] : toServer[p][i].no = asked[p]}
Answers(p)     == {i \in DOMAIN toClient[p] : toClient[p][i].req = asked[p]}
RequestNotForgotten ==
  \A p \in Procs :
    phase[p] = "waiting" /\ ~ Down =>
      Cardinality(Outstanding(p)) + Cardinality(Answers(p)) = 1

\* The server reads from a client that owes it nothing: its walk has gone
\* astray and it hangs.
Hangs ==
  /\ stage = "walk"
  /\ \A p \in Owners({Min(walk)}) : toServer[p] = << >> /\ p \notin closed

\* A client that waits stops waiting, whatever the others and the server do,
\* unless the server hangs over a freed node.
AwaitedAnswerComes ==
  \A p \in Procs : phase[p] = "waiting" ~> (phase[p] # "waiting" \/ Hangs)

\* What a client reads as its answer is the answer to its request: what it
\* prints is "Whether the operation was successful".
AnswerBelongsToRequest ==
  [][\A p \in Procs :
       ReadsAnswer(p) /\ ~ Down => Head(toClient[p]).req = asked[p]]_vars

\* "Unregisters the client from the server and removes it from all groups": no
\* group keeps a client that has left, whatever groups the exit empties.
ExitLeavesAllGroups ==
  [][\A n \in Names : ClientExit(n) => \A g \in Names : n \notin groups'[g]]_vars
=============================================================================
