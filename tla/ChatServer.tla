----------------------------- MODULE ChatServer -----------------------------
(***************************************************************************)
(* The chat server, ex4/whatsappServer.cpp: one thread that waits in       *)
(* select, accepts a client, reads a line of its own input, or walks over  *)
(* its map of clients and handles one request of each that has data.       *)
(*                                                                         *)
(* Reads and writes block, so whatever a handler does is one step.  A      *)
(* stream carries whole messages: send_data always writes WA_MAX_INPUT     *)
(* bytes.  A write to a socket whose other end is closed can succeed, fail *)
(* or kill the process: SIGPIPE is not handled.                            *)
(*                                                                         *)
(* A definition Mut<Name>, always just before <Name>, is <Name> with a     *)
(* plausible mistake; nothing uses it but the mutation runs.               *)
(***************************************************************************)
EXTENDS Integers, Sequences, FiniteSets, FiniteSetsExt

CONSTANTS
  Procs,        \* client processes; each connects at most once
  Names,        \* names of clients and groups, in the order of std::string
  NameOf,       \* the name each client process gives
  MAX_CLIENTS

ASSUME NamesAssumption   == Names \subseteq Nat /\ IsFiniteSet(Names)
ASSUME NameOfAssumption  == NameOf \in [Procs -> Names]
ASSUME ProcsAssumption   == IsFiniteSet(Procs)

StdinFd   == 0
ListenFd  == 3    \* sockfd; clients get larger descriptors
NoFd      == -1

ASSUME WatchedAssumption == MAX_CLIENTS \in Nat /\ ListenFd <= MAX_CLIENTS

VARIABLES
  stage,        \* where main is
  readfds,      \* what select reported
  walk,         \* the names the loop over clients has still to handle
  clients,      \* the descriptor of each name, NoFd if not in the map
  clientsList,  \* how often each name is in the vector; its order is
                \* irrelevant, every reader sorts it first
  groups,       \* the members of each name, none if it is not a group
  sock,         \* the server's descriptor of each process's connection
  backlog,      \* connections not accepted yet
  toServer,     \* messages under way, from each process
  toClient,     \* and to each
  closed        \* processes that closed their end

mainVars     == <<stage, readfds, walk>>
registryVars == <<clients, clientsList, groups, sock>>
netVars      == <<backlog, toServer, toClient, closed>>

Registered == {n \in Names : clients[n] # NoFd}
Groups     == {g \in Names : groups[g] # {}}
Listed     == {n \in Names : clientsList[n] > 0}
Down       == stage \in {"exited", "dead"}

Owners(ns) == {p \in Procs : sock[p] # NoFd /\ \E n \in ns : clients[n] = sock[p]}
Owner(n)   == CHOOSE p \in Procs : sock[p] = clients[n]

\* What can be said to a client; req is history: the number of the request
\* that is answered.
Message(kind, no) == [kind |-> kind, req |-> no]
MessageKinds == {"success", "failure", "name_exists", "who_list",
                 "SEND", "text", "server_exit"}

\* The two writes by which a message is passed on.
SendPop == <<Message("SEND", 0), Message("text", 0)>>

Pushed(inbox, ps, messages) ==
  [p \in Procs |-> IF p \in ps \ closed THEN inbox[p] \o messages ELSE inbox[p]]

Taken(p) == [toServer EXCEPT ![p] = Tail(@)]

-----------------------------------------------------------------------------
ServerInit ==
  /\ stage = "select" /\ readfds = {} /\ walk = {}
  /\ clients = [n \in Names |-> NoFd]
  /\ clientsList = [n \in Names |-> 0]
  /\ groups = [g \in Names |-> {}]
  /\ sock = [p \in Procs |-> NoFd]
  /\ backlog = << >>
  /\ toServer = [p \in Procs |-> << >>]
  /\ toClient = [p \in Procs |-> << >>]
  /\ closed = {}

\* The kernel ends the process.
Dies == stage' = "dead" /\ readfds' = {} /\ walk' = {}

\* select looks at the descriptors below MAX_CLIENTS + 1.
MutWatched(fd) == fd < MAX_CLIENTS
Watched(fd) == fd <= MAX_CLIENTS

Readable == {p \in Procs : /\ sock[p] # NoFd /\ Watched(sock[p])
                           /\ toServer[p] # << >> \/ p \in closed}

\* Where a round goes on; at its end readfds is of no use any more.
RoundAt(at, fds) ==
  /\ stage' = at
  /\ readfds' = IF at = "select" THEN {} ELSE fds

AtWalk(ns) == IF ns = {} THEN "select" ELSE "walk"

\* A name that is registered later in this round has no bit in readfds, so
\* the names to walk over are known here.
Select(typed) ==
  LET fds == {sock[p] : p \in Readable}
               \cup {fd \in {ListenFd} : backlog # << >>}
               \cup {fd \in {StdinFd} : typed}
  IN  /\ stage = "select"
      /\ fds # {}
      /\ walk' = IF StdinFd \in fds THEN {}
                 ELSE {n \in Registered : clients[n] \in fds}
      /\ RoundAt(IF ListenFd \in fds THEN "connect"
                 ELSE IF StdinFd \in fds THEN "stdin" ELSE AtWalk(walk'), fds)
      /\ UNCHANGED registryVars /\ UNCHANGED netVars

-----------------------------------------------------------------------------
\* accept: the lowest free descriptor.
FreeFd ==
  Min({fd \in ListenFd + 1 .. ListenFd + Cardinality(Procs) :
         \A p \in Procs : sock[p] # fd})

AfterConnect ==
  /\ RoundAt(IF StdinFd \in readfds THEN "stdin" ELSE AtWalk(walk), readfds)
  /\ UNCHANGED walk

MutNameTaken(n) == n \in Registered
NameTaken(n) == n \in Registered \cup Groups

\* connectNewClient blocks until the new client has sent its name or is gone.
\* A connection that is refused is not closed.
ConnectNewClient ==
  /\ stage = "connect"
  /\ LET p == Head(backlog)
         n == NameOf[p]
     IN  /\ backlog' = Tail(backlog)
         /\ sock' = [sock EXCEPT ![p] = FreeFd]
         /\ \/ /\ toServer[p] # << >>
               /\ ~ NameTaken(n)
               /\ clients' = [clients EXCEPT ![n] = FreeFd]
               /\ clientsList' = [clientsList EXCEPT ![n] = @ + 1]
               /\ toServer' = Taken(p)
               /\ toClient' = Pushed(toClient, {p}, <<Message("success", 0)>>)
            \/ /\ toServer[p] # << >>
               /\ NameTaken(n)
               /\ toServer' = Taken(p)
               /\ toClient' = Pushed(toClient, {p}, <<Message("name_exists", 0)>>)
               /\ UNCHANGED <<clients, clientsList>>
            \/ /\ toServer[p] = << >>
               /\ p \in closed
               /\ UNCHANGED <<clients, clientsList, toServer, toClient>>
         /\ \/ AfterConnect
            \/ p \in closed /\ Dies
  /\ UNCHANGED <<groups, closed>>

\* Anything but EXIT is ignored, and so are the clients in this round.
StdinIgnored ==
  /\ stage = "stdin"
  /\ RoundAt("select", {})
  /\ UNCHANGED walk
  /\ UNCHANGED registryVars /\ UNCHANGED netVars

\* serverExit: one after the other is told, until a write kills the process.
ServerExit ==
  /\ stage = "stdin"
  /\ readfds' = {} /\ walk' = {}
  /\ \/ /\ stage' = "exited"
        /\ toClient' = Pushed(toClient, Owners(Registered),
                              <<Message("server_exit", 0)>>)
     \/ \E n \in Registered :
          /\ Owners({n}) \cap closed # {}
          /\ stage' = "dead"
          /\ toClient' = Pushed(toClient, Owners({m \in Registered : m < n}),
                                <<Message("server_exit", 0)>>)
  /\ UNCHANGED registryVars /\ UNCHANGED <<backlog, toServer, closed>>

-----------------------------------------------------------------------------
(* handleClientRequest for the client n that the walk is at. *)
Visits(n) == stage = "walk" /\ walk # {} /\ n = Min(walk)

MutVisited(n) == walk
Visited(n) == walk \ {n}

GoOn(n) ==
  /\ walk' = Visited(n)
  /\ RoundAt(AtWalk(Visited(n)), readfds)

\* The read fails: the client is gone without a word, and stays registered.
ReadFails(n) ==
  LET p == Owner(n) IN
  /\ Visits(n)
  /\ toServer[p] = << >>
  /\ p \in closed
  /\ GoOn(n) \/ Dies
  /\ UNCHANGED registryVars /\ UNCHANGED netVars

Request(n, cmd) ==
  LET p == Owner(n) IN
  /\ Visits(n)
  /\ toServer[p] # << >>
  /\ Head(toServer[p]).cmd = cmd
  /\ toServer' = Taken(p)

\* The answer is written, and the loop goes on unless that was fatal.
MutAnswer(n, inbox, kind) ==
  LET p == Owner(n) IN
  /\ toClient' = IF kind = "failure" THEN inbox
                 ELSE Pushed(inbox, {p}, <<Message(kind, Head(toServer[p]).no)>>)
  /\ \/ GoOn(n)
     \/ p \in closed /\ Dies
Answer(n, inbox, kind) ==
  LET p == Owner(n) IN
  /\ toClient' = Pushed(inbox, {p}, <<Message(kind, Head(toServer[p]).no)>>)
  /\ \/ GoOn(n)
     \/ p \in closed /\ Dies

\* removeGroupDuplicates and subset: at least two, all of them listed.
GroupIsValid(group) == Cardinality(group) >= 2 /\ group \subseteq Listed

CreateGroup(n) ==
  LET r     == Head(toServer[Owner(n)])
      group == r.members \cup {n}
  IN  /\ Request(n, "create_group")
      /\ \/ /\ NameTaken(r.name)
            /\ Answer(n, toClient, "name_exists")
            /\ UNCHANGED groups
         \/ /\ ~ NameTaken(r.name)
            /\ ~ GroupIsValid(group)
            /\ Answer(n, toClient, "failure")
            /\ UNCHANGED groups
         \/ /\ ~ NameTaken(r.name)
            /\ GroupIsValid(group)
            /\ groups' = [groups EXCEPT ![r.name] = group]
            /\ Answer(n, toClient, "success")
      /\ UNCHANGED <<clients, clientsList, sock, backlog, closed>>

\* clients[clientName] adds a member that is not registered, with descriptor
\* 0: the message is then written to the server's own terminal.
WithGhosts(ns) ==
  [m \in Names |-> IF m \in ns \ Registered THEN StdinFd ELSE clients[m]]

\* Whom a message goes to: a client, or the other members of a group.
Targets(n, to) ==
  IF to \in Registered THEN {to}
  ELSE IF n \in groups[to] THEN groups[to] \ {n}
  ELSE {}

CanSend(n, to) == to \in Registered \/ n \in groups[to]

\* send: to everyone, or to those before the first write that fails.
Send(n) ==
  LET to      == Head(toServer[Owner(n)]).name
      targets == Targets(n, to)
      reached(ns) == Pushed(toClient, Owners(ns), SendPop)
  IN  /\ Request(n, "send")
      /\ \/ /\ CanSend(n, to)
            /\ Answer(n, reached(targets), "success")
            /\ clients' = WithGhosts(targets)
         \/ \E m \in targets :
              /\ Owners({m}) \cap closed # {}
              /\ \/ Answer(n, reached({k \in targets : k < m}), "failure")
                 \/ /\ toClient' = reached({k \in targets : k < m})
                    /\ Dies
              /\ clients' = WithGhosts({k \in targets : k < m})
         \/ /\ ~ CanSend(n, to)
            /\ Answer(n, toClient, "failure")
            /\ UNCHANGED clients
      /\ UNCHANGED <<clientsList, groups, sock, backlog, closed>>

Who(n) ==
  /\ Request(n, "who")
  /\ Answer(n, toClient, "who_list")
  /\ UNCHANGED registryVars /\ UNCHANGED <<backlog, closed>>

MutUnregistered(n) == clients
Unregistered(n) == [clients EXCEPT ![n] = NoFd]

MutMembersLeft(g, n) == groups[g]
MembersLeft(g, n) == groups[g] \ {n}

\* The loop over the groups erases the element h it stands on when the last
\* member leaves, and increments through the freed node.  If h was an inner node
\* of the tree with its successor further down, the successor g has taken its
\* place, and the loop goes on behind g.  That takes a group before h that
\* stays and one behind g; otherwise the loop goes on as intended or crashes.
MayMiss(n) ==
  {g \in Groups :
     \E before, h, behind \in Groups :
       /\ before < h /\ h < g /\ g < behind
       /\ groups[before] # {n} /\ groups[h] = {n}
       /\ \A o \in Groups : o <= h \/ g <= o}

\* clientExit erases the element of `clients' that the loop in main stands on,
\* and main then increments through the freed node: to the next client, to
\* any other (which may be one it has handled already), or to a crash.
ClientExit(n) ==
  LET p == Owner(n)
      from(k) == {m \in Registered \ {n} : m >= k /\ clients[m] \in readfds}
  IN  /\ Request(n, "exit")
      /\ clients' = Unregistered(n)
      /\ clientsList' = [clientsList EXCEPT ![n] = 0]
      /\ \E missed \in SUBSET MayMiss(n) :
           groups' = [g \in Names |-> IF g \in missed THEN groups[g]
                                      ELSE MembersLeft(g, n)]
      /\ sock' = [sock EXCEPT ![p] = NoFd]
      /\ \/ GoOn(n)
         \/ \E k \in Registered \ {n} :
              /\ walk' = from(k)
              /\ RoundAt(AtWalk(from(k)), readfds)
         \/ Dies
      /\ UNCHANGED <<backlog, toClient, closed>>

ServerStep ==
  \/ \E typed \in BOOLEAN : Select(typed)
  \/ ConnectNewClient
  \/ StdinIgnored
  \/ ServerExit
  \/ \E n \in Names :
       \/ ReadFails(n)
       \/ CreateGroup(n)
       \/ Send(n)
       \/ Who(n)
       \/ ClientExit(n)
=============================================================================
