------------------------- MODULE AbstractScheduler -------------------------
(***************************************************************************)
(* What a thread library promises its program: which threads exist, which  *)
(* one has the processor, and what the calls do to them.  There is no      *)
(* queue, no signal and no window here: a call takes effect at once, and a *)
(* thread that may not run loses the processor before anything else        *)
(* happens.                                                                *)
(***************************************************************************)
CONSTANTS Tid, Main

VARIABLES
  running,   \* the thread that has the processor
  exists,    \* the threads that have been spawned and not terminated
  held,      \* the threads that were blocked and not resumed since
  waiters    \* for each thread, the threads that wait for its end

vars == <<running, exists, held, waiters>>

Waiting  == UNION {waiters[t] : t \in exists}
Runnable == exists \ (held \cup Waiting)

\* A call is made by a thread that may run.
MayCall == running \in Runnable

Init ==
  /\ running = Main
  /\ exists = {}
  /\ held = {}
  /\ waiters = [t \in Tid |-> {}]

Begin ==
  /\ exists = {}
  /\ exists' = {Main}
  /\ UNCHANGED <<running, held, waiters>>

Spawn(t) ==
  /\ MayCall
  /\ t \notin exists
  /\ exists' = exists \cup {t}
  /\ UNCHANGED <<running, held, waiters>>

\* The end of t releases the threads that wait for it, and nobody else.
End(t) ==
  /\ MayCall
  /\ t \in exists \ (Waiting \cup {Main})
  /\ exists' = exists \ {t}
  /\ held' = held \ {t}
  /\ waiters' = [waiters EXCEPT ![t] = {}]
  /\ UNCHANGED running

Hold(t) ==
  /\ MayCall
  /\ t \in exists \ {Main}
  /\ held' = held \cup {t}
  /\ UNCHANGED <<running, exists, waiters>>

\* A thread that also waits for another one's end goes on waiting.
Release(t) ==
  /\ MayCall
  /\ t \in held
  /\ held' = held \ {t}
  /\ UNCHANGED <<running, exists, waiters>>

WaitFor(t) ==
  /\ MayCall
  /\ running # Main
  /\ t \in exists \ {running}
  /\ waiters' = [waiters EXCEPT ![t] = @ \cup {running}]
  /\ UNCHANGED <<running, exists, held>>

\* The processor is given only to a thread that may run.
Elect ==
  /\ running' \in Runnable
  /\ UNCHANGED <<exists, held, waiters>>

Shutdown ==
  /\ MayCall
  /\ exists' = {}
  /\ held' = {}
  /\ waiters' = [t \in Tid |-> {}]
  /\ UNCHANGED running

Next ==
  \/ Begin
  \/ \E t \in Tid : \/ Spawn(t) \/ End(t)
                    \/ Hold(t) \/ Release(t) \/ WaitFor(t)
  \/ Elect
  \/ Shutdown

Spec == Init /\ [][Next]_vars
=============================================================================
