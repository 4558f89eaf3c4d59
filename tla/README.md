# TLA+ models of os_2018

The repository holds four operating-systems exercises: a user-level thread
library (`ex2`), a multi-threaded MapReduce framework (`ex3`), a chat server and
client over sockets (`ex4`) and a virtual memory library (`ex5`). This directory
holds specifications of its concurrent core, the TLC configurations that check
them on small instances, and proofs of the properties that can be proved for
every value of the constants. Four parts are shown to implement an abstract
specification of what they promise: the scheduler, the barrier, the names of the
chat and its transport. The virtual memory is unfinished and not modelled.

Run TLC from this directory, for example
`tlc -config uthreads_disciplined.cfg MCUThreads.tla`, and the proofs with
`tlapm UThreadsProofs.tla`. `PROJECT.json` lists every run, the source lines
behind every definition, the hazards, the findings and the theorems.

## The system

| part | state | operations | interacts by |
|---|---|---|---|
| `ex2/uthreads.cpp` | control blocks `uthreads[]`, free ids, `ready`, `current_thread`, saved contexts `env[]`, signal mask, quantum counters | `uthread_init/spawn/terminate/block/resume/sync/get_*`, `switch_threads` | calls of the program; the SIGVTALRM handler interrupts it |
| `ex3/Barrier.cpp` | a counter, a condition variable | `barrier()` | the framework's threads, mutex |
| `ex3/MapReduceFramework.cpp` | input index, one intermediate vector per thread, the queue of groups, a semaphore, a flag, the output vector | `runMapReduceFramework`, the map, sort, shuffle and reduce phases, `emit2`, `emit3` | shared memory, atomics, two mutexes, the barrier, callbacks of the client |
| `ex4` server | map of clients to sockets, groups, list of names, descriptor set | connect, create group, send, who, exit | byte streams to every client, `select` |
| `ex4` client | its name and socket | the same commands, one answer awaited for each but exit | byte stream to the server, on which messages of others arrive too |
| `ex4` common, io | none | `read_data`, `send_data`, parsing, printing | used by both |
| `ex5/PhysicalMemory.cpp` | RAM, swap file | `PMread/PMwrite/PMevict/PMrestore` | called by the virtual memory |
| `ex5/VirtualMemory.cpp` | page tables inside RAM | helpers of the translation; `VMread` and `VMwrite` are stubs | calls physical memory |

What is hard in them, and what makes each correct:

* **uthreads.** The timer interrupts the program anywhere the signal is not
  masked: between the line that unmasks it and the switch that follows, in
  `uthread_init` once the timer is armed, and in `uthread_get_quantums`.
  Correct means: the scheduler never runs dry; an id in use has a control block;
  the ready queue holds the runnable threads, once each; a thread waits in
  `uthread_sync` until the very step in which the other one ends; nobody starves.
* **Barrier.** Threads of two rounds can be inside at once; a condition variable
  may wake on its own. Correct means: nobody returns before all have called,
  every round starts with a clean counter, everybody passes.
* **MapReduce.** Thread 0 edits structures that the others own without a lock;
  the others take groups from a queue while it fills it, and read the end flag
  outside the mutex. Correct means: each pair is reduced once, with the pairs of
  its key only and with all of them, never a null pointer; the framework returns
  and leaves nothing behind.
* **Chat.** A map is changed while it is walked; one thread serves everybody with
  blocking reads; answers and messages share a stream; clients vanish. Correct
  means: names are unique and every member of a group is a client through any
  order of joining and leaving; every request is answered once, and in the end;
  the answer a client reads is its own.
* **Transport.** Reads and writes move any number of bytes, and a process can end
  within a frame. Correct means: each call of `read_data` answers one call of
  `send_data`, in order and with its message, and the end is seen only after the
  last frame. For frames that arrive in pieces the code does not achieve that.
* **Memory.** The translation is unfinished, and nothing that compiles uses the
  physical memory: see the end.

## Modules

| module | models | uses |
|---|---|---|
| `SeqFilter` | the erase-remove idiom on `ready` and on vectors | |
| `AbstractScheduler` | what a thread library promises its program | |
| `UThreads` | `ex2/uthreads.cpp` | `SeqFilter`; implements `AbstractScheduler` |
| `AbstractBarrier` | what a reusable barrier promises | |
| `Barrier` | `ex3/Barrier.cpp` | implements `AbstractBarrier` |
| `Shuffle` | one turn of the loop of `shufflePhase` and the sort orders, as operators | `SeqFilter` |
| `MapReduce` | all threads of one `runMapReduceFramework` | `Barrier`, `Shuffle` |
| `AbstractRegistry` | what the server promises about names | |
| `ChatServer` | `ex4/whatsappServer.cpp`, the streams and the kernel's part in them | |
| `Chat` | `ex4/whatsappClient.cpp`, and the server together with its clients | `ChatServer`; implements `AbstractRegistry` |
| `FrameQueue` | what `send_data` and `read_data` promise together | |
| `Transport` | the two of them in `ex4/whatsappCommon.h`, byte by byte | implements `FrameQueue` |
| `MCUThreads`, `MCBarrier`, `MCMapReduce`, `MCChat`, `MCTransport` | the instances for TLC | |
| `SeqFilterProofs`, `UThreadsProofs`, `BarrierProofs`, `MapReduceProofs`, `GroupProofs`, `ChatProofs`, `TransportProofs` | theorems | |

A definition `MutX` stands just before `X`. It is `X` with a plausible mistake
(a missing reset, an off-by-one, a dropped line); it is used only to see that a
property fails when the code makes that mistake.

### UThreads

`spawn`, `terminate`, `block`, `resume` and `sync` mask SIGVTALRM in their bodies,
so each is one action. Three of them unmask it before they call `switch_threads`:
`uthread_terminate` of oneself (358-359), `uthread_block` of oneself (390-391) and
`uthread_sync` (452-453). Those put the thread in a `context` of its own,
`term_switch` or `block_switch`, and the switch is a later action. The handler
runs with the signal masked, so a preemption is one action; the end of a
synchronous switch, after line 215 has installed the handler again, is a point
where the handler can nest (`switching`, `PreemptLate`), and so is the place
between lines 176 and 177 of a synchronous switch. There the nested handler puts
itself back into the shared `sa`, so the outer call installs it instead of
ignoring the signal, and can be interrupted anywhere from then on; the model
(`PreemptRaced`) calls that undefined.

Two calls never mask the signal and are cut into steps.

* `uthread_init`, once the timer is armed at line 256: `InitBlock` up to
  `uthreads[0]`, `InitTotal` is line 271, `InitMain` line 272. An expiry before
  `uthreads[0]` is set is undefined (`TimerBeforeMain`). One after it requeues the
  main thread and switches to it (`PreemptInit`); between lines 271 and 272 its
  quantum stays in the total, and line 272 takes it from the main thread.
* `uthread_get_quantums`: `GetQuantums` begins it (`context` is `asking`) and
  `QuantumsRead` ends it. A thread preempted in it while others spawn or terminate
  (`Overtaken`, `context` is `stale`) may read a null control block or go on in a
  set that has changed: `QuantumsLost`, undefined.

`TimerPoints` names the five kinds of places where the timer may expire.

`current_thread`, `ready`, `unused_ids`, `total_quantums` are the code's
variables. `allocated` is the set of non-null entries of `uthreads[]`; the flags
of the control blocks are sets of ids, their `sync_dependencies` a function to
sequences. `env[]` is `context`: where a thread goes on when it runs. A null or
out-of-range access, `front()` of an empty deque and a jump to a frame that is
gone end in `process = "undefined"`; nothing is claimed about what follows. An
allocation that fails is a choice; a failing `sigaction` or `setitimer`, which
ends the process, is left out, and so are the allocator and the streams, which the
handler may find in the middle of a call of the program and uses itself (it
deletes control blocks). `uthread_get_tid` and `uthread_get_total_quantums` read
one variable and are no actions.

The model is one of the library AND of a program that may call anything at any
time. Four constants restrict it: `PreemptPoints`, where the timer may expire;
`ClientIds`, what ids it passes; `KillsWaiting`, whether it terminates threads that
wait in a sync; `AsksUnmasked`, whether it calls `uthread_get_quantums` with
SIGVTALRM open. `Disciplined` is the program that passes ids in range, does not
terminate a waiting thread and masks SIGVTALRM itself around
`uthread_get_quantums` (the call is then one read), with a timer that expires in
its own code only. The last is an assumption about when the timer happens to
expire: a long quantum makes another place unlikely, and nothing in the code
excludes it. With `AsksUnmasked = TRUE` and all else as it is,
`NoUndefinedBehaviour` fails. Where the code is right without these restrictions
the property is checked and proved without them.

`AbstractScheduler` has no queue, no signal and no window: threads exist, are
held or wait for another one's end, the processor goes only to a thread that may
run, and only such a thread makes calls. The refinement mapping of `UThreads`
forgets `ready`, `context`, masks and counters and maps the flags and
`sync_dependencies` to the sets of held and of waiting threads. The step that
blocks a thread is the abstract call; the switch behind it is `Elect`.

### Barrier and AbstractBarrier

The mutex is held from the entry to the wait, so that is one action, `Enter`; a
woken thread takes the mutex again and returns in a second one. `waiters` are the
threads inside `pthread_cond_wait`, `returning` those past it. `arrived` and
`left` are history variables that count each thread's calls and returns; they are
the state of `AbstractBarrier`, so the refinement mapping is the identity on them
and hides the counter and the condition variable. `AnyWakeupSpec` adds returns of
the wait that POSIX allows without a broadcast (`WakeSpuriously`); only
`CallsAreCounted` and the types hold for it.

### Shuffle and MapReduce

A thread is at a program point `pc`, split where threads share state: at the
atomic increment, around each critical section, at `sem_wait` and `sem_post`, at
the flag. A critical section of a mutex is one action. `emitted[t]` and
`sorted[t]` are the same vector before and after `sortPhase`; `vectors` is the
vector of vectors while thread 0 takes it apart, a set because
`std::sort` orders it by address anyway. The address of every key object is data
of the model (`address`), because `vectorComp` compares pointers. The client is
the environment: `map` emits the pairs `PairsOf` gives for its input, and
`reduce` emits once, as the sample clients do. `timesReduced` is a history
variable. Failing pthread and semaphore calls end the process and are left out.

`MapReduce` EXTENDS `Barrier`: `SortPhase` calls `Enter` and `PassBarrier` calls
`Return`, with one round (`OnceAssumption`).

### ChatServer and Chat

The server has one thread and its reads and writes block, so everything a handler
does is one action: `Select`, `ConnectNewClient`, `StdinIgnored`, `ServerExit` and
one action per request. `stage` is where `main` is in its loop; `readfds` is what
`select` reported and `walk` the names the loop over `clients` has still to reach.
`clients` and `groups` are the maps, with `NoFd` and the empty set for a name that
is not there (a group without members is erased); `clientsList` says how often a
name is in the vector, whose order no reader depends on. `sock` gives the
descriptor of every connection the server holds, the refused ones included.

`toServer` and `toClient` are the two directions of each connection, in whole
messages; `closed` the processes that have closed their end. A write to a closed
connection can succeed (the data is still under way), fail, or kill the server,
which does not handle SIGPIPE: three outcomes, from the kernel. `req` in a message
to a client is a history field: the request that it answers, so that a property
can say which answer a client has read.

Two walks erase the element they stand on. When `clientExit` removes the client
from the map that `main` is walking, the model lets the walk go on as intended,
go on at any other client, which it may have served already and then waits for,
or crash. When a group loses its last member, the walk over `groups` goes on as
intended or crashes, or passes over the next group (`MayMiss`). `std::map` moves
the successor of an erased inner node into its place; if that successor was not
the node's right child, the increment through the freed node, whose links are
still there, goes to what is left of the right subtree, behind the successor. So
one group before the erased one stays, and one is behind the group that is
missed: it takes four. A missed group keeps a member that has left; a message to
it puts that name back into `clients`, with descriptor 0 (a ghost,
`WithGhosts`).

A client is in one `phase`. `ReadsCommand` is the moment `select` reports only
the user's input; messages can still arrive before the command is sent.
`ReadsAnswer` takes the next message whatever it is, and `ReadsMessage` drops
what it does not know, as the code does. Commands come from `Commands`,
`GroupNames` and `MemberLists`; commands with invalid names are refused by the
client (`Refuses`) and never reach the server. `Crashes` is the user who kills the
client, or types a line of blanks (`parseCommand` then passes a null pointer to
`strcmp`, `whatsappio.cpp:128`).

`AbstractRegistry` knows only names: those of members, and for each room its
members. The refinement maps `Registered` to the members and `groups` to the
rooms and hides sockets, streams and the walk, so it says in particular that no
walk over a freed node, failed write or reused descriptor ever changes a name.

### FrameQueue and Transport

One direction of a connection. `put` is `bcount` in `send_data`, `taken` the bytes
`read_data` has so far; each `write` and `read` moves a number of bytes the
kernels choose. A byte is its message and its place in the frame, so the model can
say whose bytes a call has read. The sender or the receiver can end between two
calls and within one; a write to a receiver that is gone ends the sender (it fails
or kills). `ReadPiece` copies to the start of `buf` each time, as line 64 does, and
`delivered` keeps for each call its bytes, in how many pieces they came, and the
text that `string(buf)` makes of the buffer.

The mapping to `FrameQueue` gives what the calls of `read_data` have returned: of
each call, whether its frame came in one piece, and the text. The queue is the
frames sent and not yet read, a partly read frame still being in it. `FrameQueue`
promises one answer per frame, in order; the message itself for a frame that came
in one piece, and for one that came in several only some bytes of that message and
none of another, because the pieces overwrite each other in `buf`. That is all the
code keeps of "loop until full buffer" (line 62). Which bytes a call has taken is a
property of its own (`FramesKeepTheirBounds`), proved from the same invariant.

The stream is taken to lose nothing. A TCP socket that is closed with unread input
may reset the connection and drop what is under way to the other end; the model
does not have that. `LengthAssumption` says that a message fits its frame: the
limits behind it are those of `whatsappio.h`, and the `memcpy` in `send_data` (line
78) does not look at them.

In the two chat modules a message is whole; `Transport` is the justification as
far as frames arrive in one piece.

## Runs

| run | asks | bounds |
|---|---|---|
| `uthreads_disciplined` | ready queue and its order, sync lists, undefined steps, the abstract scheduler and starvation, for a disciplined program | 4 ids, timer in the program's own code |
| `uthreads_anything` | main thread, ids and the accounting of quantums, for any program and any expiry of the timer | 3 ids, ids -1 and 3, counters to 2, at most 2 entries in all dependants, queue of at most 3 |
| `uthreads_kill_waiting`, `uthreads_lost_wakeup` | sentences of the documentation the code does not keep | 3 ids |
| `barrier_promise` | the barrier, its counter, who sleeps for whom, its refinement and its liveness | 4 threads, 3 rounds |
| `mapreduce_framework` | all properties of the framework without spurious wakeups, that it is never stuck, and that it returns | 3 threads, 3 inputs, 4 pairs, 2 keys, 8 orders of addresses |
| `mapreduce_split_key` | one reduce per key, in any heap | the same, all 24 orders |
| `chat_safety` | names, the abstract registry, sockets and requests under any interleaving | 3 clients, a group, 2 requests besides exits, one client may crash |
| `chat_answers` | a waiting client stops waiting | 2 clients, 3 requests, one may crash |
| `chat_crossed_answer` | an answer belongs to its request | the same |
| `transport_frames` | texts of frames in one piece, the frame queue, and that everything gets through | frames of 4 bytes, 3 messages of 1, 4 and 0 bytes, 6 bytes under way |
| `chat_skipped_group` | who leaves, leaves every group | 3 clients, 4 groups; a constraint lets one user at a time act and fixes the order in which the groups are created |

Why these bounds are enough to see the interesting cases. Three ids are a main
thread, a thread and another one that reuses an id or waits for it; four add a
chain of two syncs. Three threads are enough for one to race another at the queue
while thread 0 still fills it, and two keys spread over three inputs make a
vector that starts with the larger key come before, between or after those that
do not; the eight orders of addresses are the four in which larger keys are
higher and four that mix them. Four threads and three rounds let a fast thread lap
a slow one at the barrier. Three clients are two members of a group and one that
joins under a name just taken, or sends to a member that is leaving; two clients
are enough for a message to cross an answer, and three requests for the one
after that to read a stale answer. `MAX_CLIENTS` is chosen to admit exactly the
clients of the instance. A stream of a frame and a half lets a write stop in the
middle of a frame and the next frame start behind the rest of the last one; the
three messages are one that leaves padding, one that fills its frame and an empty
one. This is the only capacity that was checked, one and a half frames:
`AllGetThrough` says nothing of smaller or larger buffers. The four groups of
`chat_skipped_group` are the least with which the loop over the groups can miss one.

`QuantumCap` stops the counters, and `QuantumsAccounted` compares them up to the
cap; `FewDependants` and `ShortQueue` cut off states in which a program that
terminates waiting threads lists one again and again; `MaxRequests` bounds the
requests. The views `EndsAlike` and `DownAlike` count all states of a dead
process, or server, as one; `chat_answers` has no view, so it also explores how
the clients of a dead server end. `CHECK_DEADLOCK FALSE` is used only where the
system stops: at the end of the barrier's rounds, after the framework's return
(that it returns is checked), when the chat's requests are used up and when all
messages are through or a process has ended.

Fairness. `FairSpec` of `UThreads` assumes that a switch that has begun is
finished (it is straight-line code) and that the timer expires while the signal
is open (a thread that computes uses up virtual time; weak fairness, so a thread
that keeps the signal masked is not preempted). `FairBarrierSpec` and `FairSpec`
of `MapReduce` assume that the kernel runs every thread that can run. `sem_wait`
needs no strong fairness: the last posts leave a token for everyone. `FairSpec` of
`Chat` assumes that the server and every client run when they can (users need not
type), and, as strong fairness of `Select(FALSE)`, that the operator does not type
a line in every single round, since a round with a line serves no client. A
standard input at its end would break this assumption and starve the clients.
`FairSpec` of `Transport` assumes that the kernels move bytes when there is room
or data, and that a process that has not ended goes on with its call.

### Where the code and its documentation disagree

1. `uthread_terminate` leaves the ended id in other threads' `sync_dependencies`
   (`uthreads.cpp:346-355`), against "deletes it from all relevant control
   structures"; the later loop dereferences a null pointer or wakes a thread that
   reuses the id. (`uthreads_kill_waiting`)
2. The windows between unmasking and switching let a resume be lost. A thread
   blocks itself and is preempted in the window (390-391), which queues it while
   it is blocked; others resume it, block it and resume it again, and the last
   resume queues it once. That entry is used up when it finishes its old switch,
   and it is in no queue although it is not blocked. (`uthreads_lost_wakeup`)
3. `vectorComp` compares pointers, so a key can be reduced in two parts,
   depending on the allocator. (`mapreduce_split_key`)
4. A client takes any message for the answer to its request
   (`whatsappClient.cpp:44,57,66`). (`chat_crossed_answer`)
5. `clientExit` erases groups from the map it walks over and can leave a client in a
   group that it passes over (`whatsappServer.cpp:86-92`), against "removes it from
   all groups" (`whatsappServer.h:88`). Client 1 creates the groups 4, 5, 7, 6, of
   itself and client 2 or 3. In the tree 5 is then the root and 6 the left child of
   7. Client 3 exits, then client 1: 4 keeps client 2, 5 loses its last member, 6
   takes its place, and the loop goes on at 7: 6 keeps client 1. (`chat_skipped_group`)

Others are in the models without a run of their own. The barrier's wait is not in
a loop (`Barrier.cpp:33`): with `AnyWakeupSpec` one of two threads calls the
barrier, waits, wakes on its own and returns, and `NobodyAhead` fails although
`Barrier.h:5` promises "a multiple use barrier". `read_data` passes `buf` and not
`bp` to `read` (`whatsappCommon.h:64`), against "loop until full buffer": a frame
that arrives in two pieces is read as its second piece, followed by what the first
one left behind it. `WholeFrameIsItsMessage` and `ImplementsFrameQueue` are the
part of the promise that holds. `uthread_block` of a blocked thread returns with
SIGVTALRM masked (`uthreads.cpp:392-397`, actions `BlockAgain`), and so do
`terminate` and `resume` with an invalid id (`RefusedMasked`), though
`uthreads.h:57` speaks of "no effect"; `is_valid` accepts ids out of range (line
121), against `uthreads.h:41`. After `uthread_init` the total of quantums can be
more than 1, against `uthreads.h:95` ("Right after the call to uthread_init, the
value should be 1"): an expiry after line 271 adds one. `exit_client` prints and
exits before the server has unregistered the client, against
`whatsappServer.h:89`, so a message to it can still kill the server. A client
killed without `exit` stays registered until a write to it does that.

## Proofs

TLAPS checks these for every value of the constants that satisfies the named
assumptions of the modules.

* `SeqFilterProofs`: what the filter keeps, and what appending, taking the head
  and concatenating do to a sequence's range and to its being without
  repetitions. The filter keeps any order (`KeepInOrder`). `KeepIn` is a recursive
  function; its properties follow from the least length at which they would fail
  (`LeastNat`). `InFrontOf` is who stands before an element: appending and
  filtering add nobody to it (`FrontOfAppend`, `FrontOfKept`).
* `UThreadsProofs`: `UThreadsTyped`, `MainIsNeverLost` and `IdsAlwaysAgree` for
  any program and any expiry of the timer. The main thread is lost only by a
  step that drops it from `ready` while another runs; the invariant adds that
  it is never flagged blocked and never in a window. For ids, the invariant says
  which contexts an id that is free but still allocated can have.
  Under `Disciplined`, which excludes the two steps of `uthread_get_quantums` and
  the windows by its assumptions and not by an argument: `DisciplinedIsDefined`,
  `ReadyQueueExact`, `SyncRelationExact`, `RunningIsRunnable` and `SyncEndsWithTermination`. The
  properties are not inductive one by one: that a terminated thread's dependants
  are allocated needs the exact sync relation, that requeueing them repeats
  nobody needs the exact ready queue, and both need to know that only the running
  thread can be in a window. The invariant is their conjunction with that fact.
  `LibraryImplementsScheduler` is the refinement, step by step from the same
  invariant: the only thread in a window is the running one, so a call is made by
  a thread that may run, and the exact ready queue makes the next one runnable.
  `RoundRobin` is that no step puts a thread in front of one that stays queued
  (`NobodyOvertakes`). It needs the same invariant: whoever is appended, by a
  spawn, a resume, a release or a preemption, was not in the queue already.
  `QuantumsAddUp` holds for any program: the total quantums are the sum of the
  threads' own, those of ended threads included, and of those that expired between
  lines 271 and 272 of `uthread_init` (`QuantumsAccounted`). The sum is a fold over
  the set of ids, and what folds compute is usually shown by induction over the
  set; here the partial sums exist because a smallest subset without one would
  have one (`SumsExist`, on cardinalities), so a change of one counter changes the
  sum by the difference (`TotalChanges`). The invariant follows `uthread_init`
  assignment by assignment, up to what the last one loses.
* `BarrierProofs`: `BarrierHolds`, `BarrierCounts` and `BarrierImplementsPromise`.
  The invariant `OneRound`: some `r` rounds are over, the waiting threads have
  arrived `r + 1` times, all others `r` times; so the last arrival finds all the
  others waiting, and a thread that returns has arrived no more often than anybody.
  With `count < numThreads` it also gives `NobodySleepsForNothing`: a thread
  sleeps only while another one that is awake has still to arrive.
  `AnyWakeupCountsCalls` and `BarrierTyped` hold for `AnyWakeupSpec`, where no such
  `r` exists: the invariant counts the set of all calls made so far.
* `MapReduceProofs`, all for a barrier whose wait returns only after a broadcast, as
  is `GroupProofs`: `FrameworkTyped`; `ShuffleIsAlone`, from the barrier's
  invariant and the link between program points and calls of the barrier;
  `NullIsNeverReduced`, from the balance of tokens: those in the semaphore, those
  held at a check, those used up by threads that found the queue empty and the
  one owed for a pushed group add up to the groups in the queue and the last
  posts. A thread that holds a token and finds the queue empty therefore holds
  one of the last posts, which come after the flag. `ReturnsClean` follows from
  the same balance once all threads have left. `FrameworkNeverStuck` (`NoDeadlock`)
  puts the three together: a sleeper at the barrier has somebody awake to wait
  for; when the others are finished, waiting or joining, thread 0 has made all the
  posts and by the balance one is left for every thread that waits; and only the
  last thread joins. `RolesInv` adds who can be at which program point.
* `GroupProofs`, for any input, any threads and any allocation of the keys. A pair
  is in one of four kinds of places: the vectors, a thread's hands, the queue, or
  out. `Apart` says it is in no two of them, and `TakeMove`, `PushMove`, `PopMove`
  and `OutMove` that the steps of the queue keep that and lose nothing; with
  `PhaseInv`, what is where before and after thread 0 shuffles, this gives
  `PairsReducedOnce`. `ReducesOneKey` needs that a turn of the loop finds a group
  at all, although the vectors are ordered by addresses: they are not empty and
  share no pair (`VectorsInv`), so their first pairs have different addresses and
  a least vector exists (`LeastVector`), whose first pair is in the group.
  `ReducesKeysOnce` applies the same four moves to keys: where larger keys have
  larger addresses the loop stops at no vector that holds the key, since every
  vector is in the order of its keys (`GroupIsWhole`).
* `ChatProofs`: two layers. `ChatTyped`, `OwnedNamesKeepSockets` and
  `RequestsAreNotForgotten` hold for any processes, names, groups, member lists
  and requests, so also when the walk over `groups` passes over one and ghosts
  appear. Their invariant `IInv` speaks of `Owned`, the names in `clients` that are
  no ghosts: each has the socket of the process that gave it (`SocketsHold`), and
  the walk over the clients meets no ghost, because a ghost's descriptor is the
  standard input's and a round with a line serves nobody (`GhostsUnvisited`). It
  adds that waiting connections are different processes without a descriptor (so a
  fresh one is nobody's), that `main` accepts only if one waits, that groups have
  names users asked for, and that a stream never ends after the first half of a
  message. A descriptor is always free by counting processes (`FreeFdIsFree`, a
  pigeonhole).
  `NamesStayUnique`, `RegistryStaysConsistent`, `SocketsStayTheirs` and
  `ServerKeepsRegistry` assume `FewGroups`: users have fewer than four names for
  groups. Then no group is missed (`NoneMissed` counts the four it takes), and
  `RegistryInv` (the map, the list and the groups agree, and nobody is a ghost) is
  inductive beside `IInv`. From four groups on a client that exits may stay in one
  (see above), and with a ghost in the map the other properties can fail too.
  `RequestsAreNotForgotten` has an invariant of its own for each client
  (`AnswerAt`): its streams hold nothing newer than what it asked, a request of
  `exit` only after it closed its end, and while it waits one message, which is
  its request or the answer. What the server says unasked has number 0 and changes
  none of this (`Overhears`); a request that is taken is answered, or its client
  has left, or the server dies with it (`Served`).
* `TransportProofs`: `TransportTyped`, `FramesAreKept`, `WholeFramesAreRead` and
  `TransportIsFrameQueue`, for any frame size, capacity and messages. The
  invariant: the bytes read by this call, followed by those under way, are the
  bytes of the frames after the last one read, up to `put` of the next. So
  `WA_MAX_INPUT` bytes taken from its front are one frame, however they are cut.
  For the refinement it adds that `buf` holds bytes of one message only
  (`OfFrame`): the text `string(buf)` makes of it is then letters of that message
  (`TextOfFrame`), and the message if nothing in `buf` was overwritten
  (`WholeText`).

Only model-checked: liveness (`ReadyEventuallyRuns`, `EverybodyPasses`,
`FrameworkReturns`, `AwaitedAnswerComes`, `SentIsRead`, `AllGetThrough`), which is
out of the prover's reach. Every invariant, action property and refinement the
passing runs check is also a theorem. Proved but in no run: `RunningNotBlocked`,
`NobodyAhead`, `SocketsHold` and `FramesKeepTheirBounds`, on which theorems about
checked properties rest, and the type `BarrierTypeOK`.

## Not modelled

* `ex5`. `find_frameToEvict` and `frameEvicter` take an array of references, which
  is not C++, so `VirtualMemory.cpp` does not compile; `VMread` and `VMwrite` return
  1, `findPysicalAdd` stops in the middle, and `findEmptyTable` ends without a
  `return` on one path. What is there could not page: a leaf of the search for a
  page to evict falls through to the loop at line 101, which takes the page's number
  for a frame's (104); `max_phys_fr` is never set, so `frameEvicter` would evict and
  clear frame 0, the root table; nothing calls `PMrestore`. A model of it would be
  of a pager that the repository does not have. `getOffset` computes `address % 16`
  as `address % (20 - 4)`, which is right only for these widths.
* Spurious wakeups of the barrier's wait in the framework, output streams and the
  allocator interrupted by the handler of `ex2`, a TCP connection that drops data,
  messages longer than a frame.
* The demos and test programs, the printing functions, the characters of the text
  protocol, command line and address handling, and system calls whose failure ends
  the process.
