------------------------------ MODULE UThreads ------------------------------
(***************************************************************************)
(* The user-level thread library, ex2/uthreads.cpp: one process, one       *)
(* kernel thread, many user threads that are switched by a virtual-time    *)
(* timer (SIGVTALRM) or because the running thread blocks, synchronises or *)
(* terminates.                                                             *)
(*                                                                         *)
(* spawn, terminate, block, resume and sync mask SIGVTALRM in their bodies,*)
(* so each is one action.  Three of them unmask the signal BEFORE they call*)
(* switch_threads; they leave the thread in a "window" of its own, and the *)
(* switch is a second action.  uthread_init and uthread_get_quantums never *)
(* mask the signal, so they are cut into the steps it can fall between.    *)
(*                                                                         *)
(* A definition Mut<Name>, always just before <Name>, is <Name> with a     *)
(* plausible mistake; nothing uses it but the mutation runs.               *)
(***************************************************************************)
EXTENDS Integers, FiniteSets, Sequences, Functions, SeqFilter

CONSTANTS
  MaxThreadNum,    \* MAX_THREAD_NUM
  PreemptPoints,   \* where the timer may expire: see TimerPoints
  KillsWaiting,    \* may the program terminate a thread that waits in sync?
  AsksUnmasked,    \* may it call uthread_get_quantums with SIGVTALRM open?
  ClientIds,       \* the ids the program passes to the library
  QuantumCap       \* bound: counters of quantums stop here

(***************************************************************************)
(* "init"    in uthread_init, after the timer is armed                     *)
(* "user"    in the program's own code and in uthread_get_quantums         *)
(* "window"  between sigprocmask(SIG_UNBLOCK) and switch_threads           *)
(* "race"    in switch_threads, before the handler is taken away           *)
(* "late"    in switch_threads, after the handler is installed again       *)
(* The code allows all five.  {"user"} assumes that the timer never happens*)
(* to expire elsewhere, not even in a masked body, after which the signal  *)
(* would come in the window; nothing in the code sees to that.             *)
(***************************************************************************)
TimerPoints == {"init", "user", "window", "race", "late"}

Tid  == 0 .. MaxThreadNum - 1
Main == 0

ASSUME MaxThreadNumAssumption   == MaxThreadNum \in Nat \ {0}
ASSUME PreemptPointsAssumption  == PreemptPoints \subseteq TimerPoints
ASSUME KillsWaitingAssumption   == KillsWaiting \in BOOLEAN
ASSUME AsksUnmaskedAssumption   == AsksUnmasked \in BOOLEAN
ASSUME ClientIdsAssumption      == ClientIds \subseteq Int
ASSUME QuantumCapAssumption     == QuantumCap \in Nat \ {0}

VARIABLES
  process,           \* what the process as a whole is doing: see TypeOK
  unused_ids,        \* unique_id::unused_ids
  allocated,         \* the ids whose uthreads[] entry is not null
  blocked_directly,  \* the threads with this flag set
  sync_blocked,      \* the threads with this flag set
  sync_dependencies, \* for each thread, the threads that wait for its end
  quantums,          \* for each thread, the quantums it has started
  total_quantums,
  retired_quantums,  \* history: quantums of the total that no block counts
  ready,             \* the ready queue
  current_thread,
  sigmask,           \* is SIGVTALRM "blocked" or "open" in the running thread
  context            \* where each thread continues when it runs (env[])

ids        == <<unused_ids, allocated>>
flags      == <<blocked_directly, sync_blocked, sync_dependencies>>
accounting == <<quantums, total_quantums, retired_quantums>>
scheduling == <<ready, current_thread>>
vars == <<process, ids, flags, accounting, scheduling, sigmask, context>>

-----------------------------------------------------------------------------
(***************************************************************************)
(* process: "start", before uthread_init; "armed", in uthread_init with    *)
(* the timer running and no main thread yet; "created" and "counting",     *)
(* before its last two assignments; "running", in a thread;                *)
(* "switching", at the end of switch_threads with the next thread already  *)
(* current; "exited"; "undefined", after a step whose behaviour C++ leaves *)
(* undefined (a null or out-of-range access, a jump to a dead frame).      *)
(*                                                                         *)
(* context: "user", in the program's code; "asking", in                    *)
(* uthread_get_quantums, and "stale", in it with ids changed since it began; *)
(* "block_switch" and "term_switch", in the window before switch_threads;  *)
(* "corrupt", in a frame that will jump to a buffer whose frame is gone.   *)
(***************************************************************************)
Processes == {"start", "armed", "created", "counting", "running", "switching",
              "exited", "undefined"}
Contexts  == {"user", "asking", "stale", "block_switch", "term_switch",
              "corrupt"}

TypeOK ==
  /\ process \in Processes
  /\ unused_ids \subseteq Tid \ {Main}
  /\ allocated \subseteq Tid
  /\ blocked_directly \subseteq Tid \ {Main}
  /\ sync_blocked \subseteq Tid \ {Main}
  /\ sync_dependencies \in [Tid -> Seq(Tid \ {Main})]
  /\ quantums \in [Tid -> 0 .. QuantumCap]
  /\ total_quantums \in 0 .. QuantumCap
  /\ retired_quantums \in 0 .. QuantumCap
  /\ ready \in Seq(Tid)
  /\ current_thread \in Tid
  /\ sigmask \in {"open", "blocked"}
  /\ context \in [Tid -> Contexts]

Alive      == process \in {"running", "switching"}
InUserCode == process = "running" /\ context[current_thread] = "user"

\* unique_id::is_used and is_valid.  An id out of range counts as valid.
IsUsed(id)  == id \notin unused_ids
IsValid(id) == ~ (id \in Tid /\ ~ IsUsed(id))

Capped(n) == IF n < QuantumCap THEN n ELSE QuantumCap

Init ==
  /\ process = "start"
  /\ unused_ids = Tid \ {Main}
  /\ allocated = {}
  /\ blocked_directly = {}
  /\ sync_blocked = {}
  /\ sync_dependencies = [t \in Tid |-> << >>]
  /\ quantums = [t \in Tid |-> 0]
  /\ total_quantums = 0
  /\ retired_quantums = 0
  /\ ready = << >>
  /\ current_thread = Main
  /\ sigmask = "open"
  /\ context = [t \in Tid |-> "user"]

-----------------------------------------------------------------------------
(***************************************************************************)
(* How the process ends.                                                   *)
(***************************************************************************)

\* uthreads_exit: every control block is deleted, the process is gone.
Exit ==
  /\ process' = "exited"
  /\ allocated' = {}
  /\ UNCHANGED <<unused_ids, flags, accounting, scheduling, sigmask, context>>

Undefined ==
  /\ process' = "undefined"
  /\ UNCHANGED <<ids, flags, accounting, scheduling, sigmask, context>>

-----------------------------------------------------------------------------
(***************************************************************************)
(* uthread_init arms the timer first and only then creates the main        *)
(* thread's control block.                                                 *)
(***************************************************************************)
InitTimer ==
  /\ process = "start"
  /\ process' = "armed"
  /\ UNCHANGED <<ids, flags, accounting, scheduling, sigmask, context>>

InitBlock ==
  /\ process = "armed"
  /\ process' = "created"
  /\ allocated' = {Main}
  /\ UNCHANGED <<unused_ids, flags, accounting, scheduling, sigmask, context>>

InitTotal ==
  /\ process = "created"
  /\ process' = "counting"
  /\ total_quantums' = 1
  /\ UNCHANGED <<ids, flags, quantums, retired_quantums, scheduling, sigmask,
                 context>>

InitMain ==
  /\ process = "counting"
  /\ process' = "running"
  /\ quantums' = [quantums EXCEPT ![Main] = 1]
  /\ UNCHANGED <<ids, flags, total_quantums, retired_quantums, scheduling,
                 sigmask, context>>

InitNoMemory == process = "armed" /\ Exit

\* The handler runs while uthreads[0] is still null: line 210 dereferences it.
TimerBeforeMain ==
  /\ process = "armed"
  /\ "init" \in PreemptPoints
  /\ Undefined

-----------------------------------------------------------------------------
(***************************************************************************)
(* A change of the unused ids under the threads that are in the middle of  *)
(* uthread_get_quantums: they look their id up in a set that is no longer  *)
(* what it was, or have looked it up and will read uthreads[tid].          *)
(***************************************************************************)
Overtaken == [t \in Tid |-> IF context[t] = "asking" THEN "stale"
                                                     ELSE context[t]]

(***************************************************************************)
(* The end of a control block: `new thread()' in its place, or delete.     *)
(* Deleted blocks keep no state; the model gives them the initial values.  *)
(***************************************************************************)
Retire(t) == retired_quantums' = Capped(retired_quantums + quantums[t])

\* The sync dependants of t that become ready: those not blocked directly.
MutReleased(t) == sync_dependencies[t]
Released(t) == KeepIn(sync_dependencies[t], Tid \ blocked_directly)

\* The threads still in a sync when t has released its dependants.
MutStillSynced(t) == sync_blocked
StillSynced(t) == sync_blocked \ Range(sync_dependencies[t])

\* `ready' once t has been erased from it.
MutReadyWithout(t) == ready
ReadyWithout(t) == KeepIn(ready, Tid \ {t})

\* `ready' with t at its tail.
MutRequeued(t) == <<t>> \o ready
Requeued(t) == Append(ready, t)

(***************************************************************************)
(* uthread_spawn: the least unused id, a new control block and context,    *)
(* the tail of `ready'.                                                    *)
(***************************************************************************)
LeastUnused(id) == id \in unused_ids /\ \A other \in unused_ids : id <= other

SpawnFull ==
  /\ InUserCode
  /\ unused_ids = {}
  /\ sigmask' = "open"
  /\ UNCHANGED <<process, ids, flags, accounting, scheduling, context>>

SpawnNoMemory == InUserCode /\ unused_ids # {} /\ Exit

Spawn(id) ==
  /\ InUserCode
  /\ LeastUnused(id)
  /\ unused_ids' = unused_ids \ {id}
  /\ allocated' = allocated \cup {id}
  /\ blocked_directly' = blocked_directly \ {id}
  /\ sync_blocked' = sync_blocked \ {id}
  /\ sync_dependencies' = [sync_dependencies EXCEPT ![id] = << >>]
  /\ quantums' = [quantums EXCEPT ![id] = 0]
  /\ Retire(id)
  /\ context' = [Overtaken EXCEPT ![id] = "user"]
  /\ ready' = Requeued(id)
  /\ sigmask' = "open"
  /\ UNCHANGED <<process, total_quantums, current_thread>>

-----------------------------------------------------------------------------
(***************************************************************************)
(* uthread_terminate.  An id it refuses leaves the signal masked.  A       *)
(* thread that ends itself keeps its control block until switch_threads.   *)
(***************************************************************************)
RefusedMasked(t) ==
  /\ InUserCode
  /\ ~ IsValid(t)
  /\ sigmask' = "blocked"
  /\ UNCHANGED <<process, ids, flags, accounting, scheduling, context>>

TerminateMain == InUserCode /\ Main \in ClientIds /\ Exit

\* The thread exists, and the program's discipline lets it be terminated.
Terminable(t) ==
  /\ InUserCode
  /\ t \in Tid \ {Main}
  /\ IsUsed(t)
  /\ KillsWaiting \/ t \notin sync_blocked

\* uthreads[tid] is read out of range, or a dependant's block is null.
TerminateUndefined(t) ==
  /\ \/ InUserCode /\ t \notin Tid
     \/ Terminable(t) /\ ~ Range(sync_dependencies[t]) \subseteq allocated
  /\ Undefined

\* Its dependants leave their sync and, unless blocked directly, become ready.
MutLeavesQueues(t) ==
  /\ Range(sync_dependencies[t]) \subseteq allocated
  /\ unused_ids' = unused_ids
  /\ ready' = ReadyWithout(t) \o Released(t)
LeavesQueues(t) ==
  /\ Range(sync_dependencies[t]) \subseteq allocated
  /\ unused_ids' = unused_ids \cup {t}
  /\ ready' = ReadyWithout(t) \o Released(t)

TerminateSelf(t) ==
  /\ Terminable(t)
  /\ t = current_thread
  /\ LeavesQueues(t)
  /\ sync_blocked' = StillSynced(t)
  /\ context' = [Overtaken EXCEPT ![t] = "term_switch"]
  /\ sigmask' = "open"
  /\ UNCHANGED <<process, allocated, blocked_directly, sync_dependencies,
                 accounting, current_thread>>

TerminateOther(t) ==
  /\ Terminable(t)
  /\ t # current_thread
  /\ LeavesQueues(t)
  /\ allocated' = allocated \ {t}
  /\ blocked_directly' = blocked_directly \ {t}
  /\ sync_blocked' = StillSynced(t) \ {t}
  /\ sync_dependencies' = [sync_dependencies EXCEPT ![t] = << >>]
  /\ quantums' = [quantums EXCEPT ![t] = 0]
  /\ Retire(t)
  /\ context' = [Overtaken EXCEPT ![t] = "user"]
  /\ sigmask' = "open"
  /\ UNCHANGED <<process, total_quantums, current_thread>>

Terminate(t) ==
  \/ RefusedMasked(t)
  \/ TerminateUndefined(t)
  \/ TerminateSelf(t)
  \/ TerminateOther(t)

-----------------------------------------------------------------------------
(***************************************************************************)
(* uthread_block.  Blocking a thread that is blocked already returns with  *)
(* the signal masked.                                                      *)
(***************************************************************************)
MutBlockable(t) == InUserCode /\ t \in Tid /\ IsUsed(t)
Blockable(t) == InUserCode /\ t \in Tid \ {Main} /\ IsUsed(t)

BlockInvalid(t) ==
  /\ InUserCode
  /\ ~ IsValid(t) \/ t = Main
  /\ sigmask' = "open"
  /\ UNCHANGED <<process, ids, flags, accounting, scheduling, context>>

BlockSelf(t) ==
  /\ Blockable(t)
  /\ t = current_thread
  /\ blocked_directly' = blocked_directly \cup {t}
  /\ context' = [context EXCEPT ![t] = "block_switch"]
  /\ sigmask' = "open"
  /\ UNCHANGED <<process, ids, sync_blocked, sync_dependencies, accounting,
                 scheduling>>

BlockOther(t) ==
  /\ Blockable(t)
  /\ t # current_thread
  /\ t \notin blocked_directly
  /\ blocked_directly' = blocked_directly \cup {t}
  /\ ready' = ReadyWithout(t)
  /\ sigmask' = "open"
  /\ UNCHANGED <<process, ids, sync_blocked, sync_dependencies, accounting,
                 current_thread, context>>

BlockAgain(t) ==
  /\ Blockable(t)
  /\ t # current_thread
  /\ t \in blocked_directly
  /\ sigmask' = "blocked"
  /\ UNCHANGED <<process, ids, flags, accounting, scheduling, context>>

Block(t) ==
  \/ BlockInvalid(t)
  \/ InUserCode /\ t \notin Tid /\ Undefined
  \/ BlockSelf(t)
  \/ BlockOther(t)
  \/ BlockAgain(t)

(***************************************************************************)
(* uthread_resume.  An id it refuses leaves the signal masked.             *)
(***************************************************************************)
\* The main thread, the running thread, or a thread not blocked directly.
ResumeNothing(t) ==
  /\ InUserCode
  /\ t \in Tid
  /\ IsUsed(t)
  /\ t \in {Main, current_thread} \/ t \notin blocked_directly
  /\ sigmask' = "open"
  /\ UNCHANGED <<process, ids, flags, accounting, scheduling, context>>

MutResumeBlocked(t) ==
  /\ InUserCode
  /\ t \in Tid \ {Main, current_thread}
  /\ IsUsed(t)
  /\ t \in blocked_directly
  /\ blocked_directly' = blocked_directly \ {t}
  /\ sync_blocked' = sync_blocked \ {t}
  /\ ready' = Requeued(t)
  /\ sigmask' = "open"
  /\ UNCHANGED <<process, ids, sync_dependencies, accounting,
                 current_thread, context>>
ResumeBlocked(t) ==
  /\ InUserCode
  /\ t \in Tid \ {Main, current_thread}
  /\ IsUsed(t)
  /\ t \in blocked_directly
  /\ blocked_directly' = blocked_directly \ {t}
  /\ ready' = IF t \in sync_blocked THEN ready ELSE Requeued(t)
  /\ sigmask' = "open"
  /\ UNCHANGED <<process, ids, sync_blocked, sync_dependencies, accounting,
                 current_thread, context>>

Resume(t) ==
  \/ RefusedMasked(t)
  \/ InUserCode /\ t \notin Tid /\ Undefined
  \/ ResumeNothing(t)
  \/ ResumeBlocked(t)

(***************************************************************************)
(* uthread_sync.                                                           *)
(***************************************************************************)
SyncInvalid(t) ==
  /\ InUserCode
  /\ ~ IsValid(t) \/ current_thread = Main \/ t = current_thread
  /\ sigmask' = "open"
  /\ UNCHANGED <<process, ids, flags, accounting, scheduling, context>>

SyncWith(t) ==
  /\ InUserCode
  /\ current_thread # Main
  /\ t \in Tid \ {current_thread}
  /\ IsUsed(t)
  /\ sync_blocked' = sync_blocked \cup {current_thread}
  /\ sync_dependencies' =
       [sync_dependencies EXCEPT ![t] = Append(@, current_thread)]
  /\ context' = [context EXCEPT ![current_thread] = "block_switch"]
  /\ sigmask' = "open"
  /\ UNCHANGED <<process, ids, blocked_directly, accounting, scheduling>>

Sync(t) ==
  \/ SyncInvalid(t)
  \/ InUserCode /\ current_thread # Main /\ t \notin Tid /\ Undefined
  \/ SyncWith(t)

(***************************************************************************)
(* uthread_get_quantums: the id is looked up and uthreads[tid] read with   *)
(* SIGVTALRM open.                                                         *)
(***************************************************************************)
GetQuantums(t) ==
  \/ InUserCode /\ t \notin Tid /\ Undefined
  \/ /\ InUserCode
     /\ AsksUnmasked
     /\ t \in Tid
     /\ context' = [context EXCEPT ![current_thread] = "asking"]
     /\ UNCHANGED <<process, ids, flags, accounting, scheduling, sigmask>>

QuantumsRead ==
  /\ process = "running"
  /\ context[current_thread] \in {"asking", "stale"}
  /\ context' = [context EXCEPT ![current_thread] = "user"]
  /\ UNCHANGED <<process, ids, flags, accounting, scheduling, sigmask>>

\* The lookup stood on a node of the set that is gone, or was over and
\* uthreads[tid] has become null.
QuantumsLost ==
  /\ process = "running"
  /\ context[current_thread] = "stale"
  /\ Undefined

-----------------------------------------------------------------------------
(***************************************************************************)
(* switch_threads.                                                         *)
(***************************************************************************)

\* Each switch counts a quantum for the thread it makes current.
MutStartQuantum(q, t) ==
  IF t = current_thread THEN q ELSE [q EXCEPT ![t] = Capped(@ + 1)]
StartQuantum(q, t) == [q EXCEPT ![t] = Capped(@ + 1)]

(***************************************************************************)
(* The common part: the head of `queue' becomes current and starts a       *)
(* quantum.  live and q are the control blocks and their counters once the *)
(* previous thread's fate is settled.                                      *)
(***************************************************************************)
Dispatch(queue, live, q, next) ==
  IF queue = << >> \/ Head(queue) \notin live
  THEN /\ process' = "undefined"
       /\ ready' = queue
       /\ quantums' = q
       /\ UNCHANGED <<current_thread, total_quantums>>
  ELSE /\ process' = next
       /\ current_thread' = Head(queue)
       /\ ready' = Tail(queue)
       /\ quantums' = StartQuantum(q, Head(queue))
       /\ total_quantums' = Capped(total_quantums + 1)

\* switch_threads(BLOCK_SWITCH): the caller goes nowhere.
SwitchBlocked ==
  /\ process = "running"
  /\ context[current_thread] = "block_switch"
  /\ context' = [context EXCEPT ![current_thread] = "user"]
  /\ Dispatch(ready, allocated, quantums, "switching")
  /\ UNCHANGED <<ids, flags, retired_quantums, sigmask>>

\* switch_threads(TERMINATE_SWITCH): the caller's control block is deleted.
SwitchTerminated ==
  LET dead == current_thread IN
  /\ process = "running"
  /\ context[dead] = "term_switch"
  /\ context' = [context EXCEPT ![dead] = "user"]
  /\ allocated' = allocated \ {dead}
  /\ blocked_directly' = blocked_directly \ {dead}
  /\ sync_blocked' = sync_blocked \ {dead}
  /\ sync_dependencies' = [sync_dependencies EXCEPT ![dead] = << >>]
  /\ Retire(dead)
  /\ Dispatch(ready, allocated \ {dead}, [quantums EXCEPT ![dead] = 0],
              "switching")
  /\ UNCHANGED <<unused_ids, sigmask>>

\* siglongjmp to the next thread.
Longjmp ==
  /\ process = "switching"
  /\ process' = "running"
  /\ UNCHANGED <<ids, flags, accounting, scheduling, sigmask, context>>

(***************************************************************************)
(* switch_threads as the handler of SIGVTALRM.  The signal is masked while *)
(* its handler runs, so the whole switch is one step.                      *)
(***************************************************************************)
Preemptible ==
  \/ /\ "user" \in PreemptPoints
     /\ context[current_thread] \in {"user", "asking", "stale"}
  \/ /\ "window" \in PreemptPoints
     /\ context[current_thread] \in {"block_switch", "term_switch"}

Preempt ==
  /\ process = "running"
  /\ sigmask = "open"
  /\ Preemptible
  /\ Dispatch(Requeued(current_thread), allocated, quantums, "running")
  /\ UNCHANGED <<ids, flags, retired_quantums, sigmask, context>>

\* The same in uthread_init, where the main thread takes over from itself.  A
\* quantum that starts after line 271 stays in the total, but line 272 is
\* going to take it from the main thread.
PreemptInit ==
  /\ process \in {"created", "counting"}
  /\ "init" \in PreemptPoints
  /\ Dispatch(Requeued(Main), allocated, quantums, process)
  /\ retired_quantums' = IF process = "counting"
                         THEN Capped(retired_quantums + 1)
                         ELSE retired_quantums
  /\ UNCHANGED <<ids, flags, sigmask, context>>

(***************************************************************************)
(* The signal between the outer call's sa_handler = SIG_IGN and its        *)
(* sigaction: the two calls share `sa', so the outer one installs the      *)
(* handler that the nested one has put back, and its own switch can be     *)
(* interrupted anywhere.  A second signal, between front() and pop_front() *)
(* say, pops the queue twice and jumps to the dead frame.                  *)
(***************************************************************************)
PreemptRaced ==
  /\ process = "running"
  /\ sigmask = "open"
  /\ "race" \in PreemptPoints
  /\ context[current_thread] \in {"block_switch", "term_switch"}
  /\ Undefined

\* The handler's sigsetjmp overwrites the buffer the outer call will jump to.
PreemptLate ==
  /\ process = "switching"
  /\ "late" \in PreemptPoints
  /\ context' = [context EXCEPT ![current_thread] = "corrupt"]
  /\ Dispatch(Requeued(current_thread), allocated, quantums, "running")
  /\ UNCHANGED <<ids, flags, retired_quantums, sigmask>>

ResumeCorrupt ==
  /\ process = "running"
  /\ context[current_thread] = "corrupt"
  /\ Undefined

-----------------------------------------------------------------------------
\* The process is gone, or nothing can be said of it any more.
Halted == process \in {"exited", "undefined"} /\ UNCHANGED vars

Start ==
  \/ InitTimer \/ InitBlock \/ InitTotal \/ InitMain \/ InitNoMemory
  \/ TimerBeforeMain \/ PreemptInit
Switch == SwitchBlocked \/ SwitchTerminated \/ Longjmp

Call(t) ==
  Terminate(t) \/ Block(t) \/ Resume(t) \/ Sync(t) \/ GetQuantums(t)

Next ==
  \/ Start
  \/ SpawnFull \/ SpawnNoMemory
  \/ \E id \in Tid : Spawn(id)
  \/ TerminateMain
  \/ \E t \in ClientIds : Call(t)
  \/ QuantumsRead \/ QuantumsLost
  \/ Switch
  \/ Preempt \/ PreemptRaced \/ PreemptLate \/ ResumeCorrupt
  \/ Halted

Spec == Init /\ [][Next]_vars

(***************************************************************************)
(* A switch that has begun is finished, and a thread that computes uses up *)
(* its virtual-time quantum: while the signal is open, the timer expires.  *)
(***************************************************************************)
Fairness ==
  /\ WF_vars(Switch)
  /\ WF_vars(Preempt)

FairSpec == Spec /\ Fairness

-----------------------------------------------------------------------------
(***************************************************************************)
(* Properties that hold wherever the timer expires and whatever the        *)
(* program does.                                                           *)
(***************************************************************************)

\* The main thread is running or waits in `ready': the library always has a
\* thread to switch to, so ready.front() never reads an empty deque.
MainNeverLost ==
  Alive /\ current_thread # Main => Main \in Range(ready)

\* An id that was handed out has a control block; an id that may be handed out
\* again still has one only while its thread is on its way out; and the
\* running thread has one.
IdsAgree ==
  Alive =>
    /\ Tid \ unused_ids \subseteq allocated
    /\ \A t \in allocated \cap unused_ids :
         context[t] \in {"term_switch", "corrupt"}
    /\ current_thread \in allocated

\* uthread_get_total_quantums is the sum of what the threads, the ended ones
\* included, were given: every switch starts one quantum of one thread.  The
\* quantums that a signal between lines 271 and 272 adds to the total are
\* counted as retired: line 272 takes them from the main thread again, and the
\* total is then not 1 "right after the call to uthread_init" (uthreads.h).
QuantumsAccounted ==
  Alive =>
    total_quantums = Capped(retired_quantums + FoldFunction(+, 0, quantums))

-----------------------------------------------------------------------------
(***************************************************************************)
(* Properties of a program that gives the library room: it passes ids in   *)
(* range, does not terminate a thread that waits in uthread_sync, and masks*)
(* SIGVTALRM itself around uthread_get_quantums (the call is then a read   *)
(* that changes nothing); and the timer happens to expire in its own code. *)
(***************************************************************************)
Disciplined ==
  /\ PreemptPoints = {"user"}
  /\ ~ KillsWaiting
  /\ ~ AsksUnmasked
  /\ ClientIds \subseteq Tid

\* The threads that exist for the program (an ending one does not).
Live == allocated \ unused_ids

\* The threads that wait for the end of u.
Waiters(u) == Range(sync_dependencies[u])

Runnable == Live \ (blocked_directly \cup sync_blocked)

\* No step executes anything C++ leaves undefined.
NoUndefinedBehaviour == process # "undefined"

\* The ready queue holds, once each, the threads that are blocked in neither
\* way and do not run: no wakeup is lost, none is given twice.
ReadyIffRunnable ==
  Alive =>
    /\ IsInjective(ready)
    /\ Range(ready) = Runnable \ {current_thread}

\* A thread in its own code is not blocked (the comment at line 416).
RunningNotBlocked == InUserCode => current_thread \in Runnable

\* A thread has its sync flag exactly while one living thread lists it, once.
SyncExact ==
  Alive =>
    /\ sync_blocked = UNION {Waiters(u) : u \in Live}
    /\ \A u \in Live : IsInjective(sync_dependencies[u])
    /\ \A u, v \in Live : u # v => Waiters(u) \cap Waiters(v) = {}

\* uthread_sync "blocks the RUNNING thread until thread with ID tid will
\* terminate": a thread leaves its sync in the step in which that thread ends.
SyncHoldsUntilTermination ==
  [][\A t \in sync_blocked :
       t \notin sync_blocked' =>
         \E u \in Live : t \in Waiters(u) /\ u \in unused_ids']_vars

\* Round robin: a thread that stays in the ready queue is overtaken by nobody,
\* whatever is spawned, resumed, released, blocked or terminated meanwhile.
Ahead(t) ==
  {ready[i] : i \in {k \in DOMAIN ready :
                       \E j \in DOMAIN ready : k < j /\ ready[j] = t}}

NobodyOvertakes ==
  [][\A t \in Range(ready) \cap Range(ready') :
       Ahead(t)' \subseteq Ahead(t)]_vars

\* Round robin: as long as nobody leaves the signal masked, a ready thread is
\* run (or blocked or terminated by another thread) in the end.
ReadyEventuallyRuns ==
  \A t \in Tid :
    t \in Range(ready) ~>
      t \notin Range(ready) \/ sigmask = "blocked" \/ ~ Alive

-----------------------------------------------------------------------------
(***************************************************************************)
(* The promise of the library, without queue, ids, windows and signals.    *)
(***************************************************************************)
Sched == INSTANCE AbstractScheduler WITH
           running <- current_thread,
           exists  <- Live,
           held    <- blocked_directly \cap Live,
           waiters <- [u \in Tid |-> IF u \in Live THEN Waiters(u) ELSE {}]

\* Every call of the library and every switch is one step of the promise, or
\* none: whatever is queued in `ready', the processor only ever goes to a
\* thread that exists, is not blocked and waits for nobody, and a call changes
\* no other thread's state than the one it names and its dependants.
ImplementsScheduler == Sched!Spec

-----------------------------------------------------------------------------
(***************************************************************************)
(* What the documentation says and the code does not keep.                 *)
(***************************************************************************)

\* uthread_terminate "deletes it from all relevant control structures"
\* (uthreads.h:38): no living thread lists one that has ended.
DependantsExist ==
  Alive => \A u \in Live : Waiters(u) \subseteq Live

\* uthread_resume "moves it to the READY state" (uthreads.h:65): a thread
\* blocked in neither way runs or is ready.
UnblockedIsScheduled ==
  Alive => Runnable \subseteq Range(ready) \cup {current_thread}
=============================================================================
