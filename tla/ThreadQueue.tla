----------------------------- MODULE ThreadQueue -----------------------------
(***************************************************************************)
(* hbc::thread_queue: a queue of runnables served by at most thread_count  *)
(* worker threads, each kept in a slot of the array `threads`.             *)
(*                                                                         *)
(* The processes are the workers, one per occupied slot, and the owner,    *)
(* the client thread that pushes, pops, joins and destroys the queue.      *)
(* Every critical section of `mutex` is one atomic step; what the code     *)
(* does between two critical sections is a step of its own.  The one       *)
(* critical section that never ends, the destructor's, is pc = "stuck".    *)
(*                                                                         *)
(* A slot says what its pointer designates and what that thread is doing:  *)
(*   "null"     no thread: the slot is 0                                   *)
(*   "wild"     a cell of the malloc'd array nobody has written yet        *)
(*   "dud"      a pthread_t for which pthread_create failed                *)
(*   "ready"    a worker about to call pop (the loop condition of run)     *)
(*   "running"  a worker inside runnable->run()                            *)
(*   "leaving"  a worker whose pop returned 0 and that has yet to detach   *)
(***************************************************************************)
EXTENDS Integers, Sequences

CONSTANTS ThreadCount,  \* the constructor's argument
          Runnables,    \* the runnables clients can push, each once
          Spawners,     \* those whose run() itself pushes to the queue
          SlotFaults,   \* which faults slots can have: subset of Broken
          None          \* no runnable

Slots  == 0 .. ThreadCount - 1
Live   == {"ready", "running", "leaving"}
Broken == {"wild", "dud"}

ASSUME ThreadCountAssumption == ThreadCount \in Nat \ {0}
ASSUME SpawnersAssumption    == Spawners \subseteq Runnables
ASSUME SlotFaultsAssumption  == SlotFaults \subseteq Broken
ASSUME NoneAssumption        == None \notin Runnables

VARIABLES
    queue,    \* the member `runnables`, oldest first
    slot,     \* the array `threads`
    holding,  \* the local `runnable` of the worker in each slot
    pc,       \* where the owner is
    at,       \* the owner's local `i` in join; the slot whose thread it joins
    current,  \* in join: `thread` still designates the thread of slot `at`
    late,     \* a runnable was pushed since the last join began
    pushed,   \* history: what was pushed, in order
    popped,   \* history: what left the queue, in order
    outcome   \* history: how each runnable ended

vars == <<queue, slot, holding, pc, at, current, late, pushed, popped, outcome>>

joinVars == <<pc, at, current>>
history  == <<pushed, popped, outcome>>

Idle    == {"idle", "joined"}
InJoin  == {"scan", "deref", "wait"}
Ended   == {"stuck", "gone", "crashed"}

\* Nobody holds the mutex for ever, and the process is there.
MutexFree == pc \notin Ended

Queued(r) == \E k \in DOMAIN queue : queue[k] = r
Held(r)   == \E i \in Slots : holding[i] = r
Pushed(r) == \E k \in DOMAIN pushed : pushed[k] = r
Fresh(r)  == ~Queued(r) /\ ~Held(r) /\ outcome[r] = "none"

TypeOK ==
    /\ queue \in Seq(Runnables)
    /\ slot \in [Slots -> {"null"} \cup Live \cup Broken]
    /\ holding \in [Slots -> Runnables \cup {None}]
    /\ pc \in Idle \cup InJoin \cup Ended
    /\ at \in 0 .. ThreadCount
    /\ current \in BOOLEAN
    /\ late \in BOOLEAN
    /\ pushed \in Seq(Runnables)
    /\ popped \in Seq(Runnables)
    /\ outcome \in [Runnables -> {"none", "executed", "taken", "discarded"}]

-----------------------------------------------------------------------------

Init ==
    /\ queue = << >>
    /\ slot \in [Slots -> {"null"} \cup (SlotFaults \cap {"wild"})]
    /\ holding = [i \in Slots |-> None]
    /\ pc = "idle"
    /\ at = 0
    /\ current = FALSE
    /\ late = FALSE
    /\ pushed = << >>
    /\ popped = << >>
    /\ outcome = [r \in Runnables |-> "none"]

\* What pthread_create, whose result push ignores, can leave in a slot.
Created == {"ready"} \cup (SlotFaults \cap {"dud"})

\* Mutant of Push: the runnable goes to the front.
PushAtFront(r) ==
    /\ MutexFree
    /\ Fresh(r)
    /\ queue' = <<r>> \o queue
    /\ pushed' = Append(pushed, r)
    /\ slot' = [i \in Slots |-> IF slot[i] = "null" THEN "ready" ELSE slot[i]]
    /\ late' = TRUE
    /\ UNCHANGED <<holding, joinVars, popped, outcome>>

\* push: queue the runnable, and start a worker in every slot that is 0.
Push(r) ==
    /\ MutexFree
    /\ Fresh(r)
    /\ queue' = Append(queue, r)
    /\ pushed' = Append(pushed, r)
    /\ \E made \in [Slots -> Created] :
          slot' = [i \in Slots |-> IF slot[i] = "null" THEN made[i] ELSE slot[i]]
    /\ late' = TRUE
    /\ UNCHANGED <<holding, joinVars, popped, outcome>>

OwnerPush(r) ==
    /\ pc \in Idle
    /\ Push(r)

\* A runnable pushes from its run(), in the thread of the worker of slot i.
NestedPush(i, r) ==
    /\ slot[i] = "running"
    /\ holding[i] \in Spawners
    /\ Push(r)

\* The worker's loop condition, runnable = queue->pop().
Pop(i) ==
    /\ MutexFree
    /\ slot[i] = "ready"
    /\ \/ /\ queue # << >>
          /\ holding' = [holding EXCEPT ![i] = Head(queue)]
          /\ popped' = Append(popped, Head(queue))
          /\ queue' = Tail(queue)
          /\ slot' = [slot EXCEPT ![i] = "running"]
       \/ /\ queue = << >>
          /\ slot' = [slot EXCEPT ![i] = "leaving"]
          /\ UNCHANGED <<queue, holding, popped>>
    /\ UNCHANGED <<joinVars, late, pushed, outcome>>

\* Mutant of Finish: the worker serves one runnable only.
FinishAndLeave(i) ==
    /\ pc # "crashed"
    /\ slot[i] = "running"
    /\ outcome' = [outcome EXCEPT ![holding[i]] = "executed"]
    /\ holding' = [holding EXCEPT ![i] = None]
    /\ slot' = [slot EXCEPT ![i] = "leaving"]
    /\ UNCHANGED <<queue, joinVars, late, pushed, popped>>

\* runnable->run() returns; the worker deletes the runnable.  No lock is needed.
Finish(i) ==
    /\ pc # "crashed"
    /\ slot[i] = "running"
    /\ outcome' = [outcome EXCEPT ![holding[i]] = "executed"]
    /\ holding' = [holding EXCEPT ![i] = None]
    /\ slot' = [slot EXCEPT ![i] = "ready"]
    /\ UNCHANGED <<queue, joinVars, late, pushed, popped>>

\* detach(pthread_self()), then the end of the thread.  detach dereferences
\* every slot that is not 0 to compare ids, an unwritten one included.
Leave(i) ==
    /\ MutexFree
    /\ slot[i] = "leaving"
    /\ \/ /\ slot' = [slot EXCEPT ![i] = "null"]
          /\ current' = (current /\ at # i)
          /\ UNCHANGED pc
       \/ /\ \E j \in Slots : slot[j] = "wild"
          /\ pc' = "crashed"
          /\ UNCHANGED <<slot, current>>
    /\ UNCHANGED <<queue, holding, at, late, history>>

\* The client calls the public pop and owns what it returns.
OwnerPop ==
    /\ pc \in Idle
    /\ queue # << >>
    /\ popped' = Append(popped, Head(queue))
    /\ outcome' = [outcome EXCEPT ![Head(queue)] = "taken"]
    /\ queue' = Tail(queue)
    /\ UNCHANGED <<slot, holding, joinVars, late, pushed>>

-----------------------------------------------------------------------------
(* join, from its call to its return.                                      *)

JoinBegin ==
    /\ pc \in Idle
    /\ pc' = "scan"
    /\ at' = 0
    /\ late' = FALSE
    /\ current' = FALSE
    /\ UNCHANGED <<queue, slot, holding, history>>

\* Mutant of JoinScan: i is not incremented.
JoinScanNoAdvance ==
    /\ pc = "scan"
    /\ at < ThreadCount
    /\ IF slot[at] = "null" THEN UNCHANGED <<pc, current>>
       ELSE pc' = "deref" /\ current' = TRUE
    /\ UNCHANGED <<at, queue, slot, holding, late, history>>

\* Copy threads[i] under the lock; move on if it is 0, keep the pointer if not.
JoinScan ==
    /\ pc = "scan"
    /\ at < ThreadCount
    /\ \/ /\ slot[at] = "null"
          /\ at' = at + 1
          /\ UNCHANGED <<pc, current>>
       \/ /\ slot[at] # "null"
          /\ pc' = "deref"
          /\ current' = TRUE
          /\ UNCHANGED at
    /\ UNCHANGED <<queue, slot, holding, late, history>>

\* Mutant of JoinReturn: the last slot is not looked at.
JoinReturnEarly ==
    /\ pc = "scan"
    /\ at >= ThreadCount - 1
    /\ pc' = "joined"
    /\ UNCHANGED <<queue, slot, holding, at, current, late, history>>

JoinReturn ==
    /\ pc = "scan"
    /\ at = ThreadCount
    /\ pc' = "joined"
    /\ UNCHANGED <<queue, slot, holding, at, current, late, history>>

\* Mutant of Rescan: i ends up before the front.
RescanBeforeFront ==
    /\ pc' = "scan"
    /\ at' = -1
    /\ current' = FALSE

\* i = 0: back to the front of the array.
Rescan ==
    /\ pc' = "scan"
    /\ at' = 0
    /\ current' = FALSE

\* *thread, read after the lock was released, is the id of a worker.
JoinValid ==
    /\ pc = "deref"
    /\ current
    /\ slot[at] \in Live
    /\ pc' = "wait"
    /\ UNCHANGED <<queue, slot, holding, at, current, late, history>>

\* The worker deleted the cell in between, and the freed memory still holds the
\* id of that ended thread, so pthread_join returns at once ...
JoinStale ==
    /\ pc = "deref"
    /\ ~current
    /\ Rescan
    /\ UNCHANGED <<queue, slot, holding, late, history>>

\* ... or the memory now is the cell of a later worker, and its id is joined ...
JoinRecycled(j) ==
    /\ pc = "deref"
    /\ ~current
    /\ slot[j] \in Live
    /\ pc' = "wait"
    /\ at' = j
    /\ current' = TRUE
    /\ UNCHANGED <<queue, slot, holding, late, history>>

\* ... or the process dies on a thread id that is none.
JoinCrash ==
    /\ pc = "deref"
    /\ ~current \/ slot[at] \in Broken
    /\ pc' = "crashed"
    /\ UNCHANGED <<queue, slot, holding, at, current, late, history>>

\* pthread_join refuses the id of an unwritten or never started slot.
JoinRefused ==
    /\ pc = "deref"
    /\ current
    /\ slot[at] \in Broken
    /\ Rescan
    /\ UNCHANGED <<queue, slot, holding, late, history>>

\* pthread_join returns: the joined worker has left.
JoinWait ==
    /\ pc = "wait"
    /\ ~current
    /\ Rescan
    /\ UNCHANGED <<queue, slot, holding, late, history>>

-----------------------------------------------------------------------------
(* The destructor.  detach_all holds the mutex and calls detach, which     *)
(* locks it again, for the first slot that is not 0.                       *)

DestroyStuck ==
    /\ pc \in Idle
    /\ \E i \in Slots :
          /\ slot[i] # "null"
          /\ \A j \in Slots : j < i => slot[j] = "null"
          /\ pc' \in {"stuck"} \cup IF slot[i] = "wild" THEN {"crashed"} ELSE {}
    /\ UNCHANGED <<queue, slot, holding, at, current, late, history>>

\* Mutant of DestroyDone: the destructor does not care for running workers.
DestroyAtOnce ==
    /\ pc \in Idle
    /\ pc' = "gone"
    /\ outcome' = [r \in Runnables |-> IF Queued(r) THEN "discarded" ELSE outcome[r]]
    /\ popped' = popped \o queue
    /\ queue' = << >>
    /\ UNCHANGED <<slot, holding, at, current, late, pushed>>

\* Mutant of DestroyDone: what is queued is removed and not deleted.
DestroyLeaking ==
    /\ pc \in Idle
    /\ \A i \in Slots : slot[i] = "null"
    /\ pc' = "gone"
    /\ popped' = popped \o queue
    /\ queue' = << >>
    /\ UNCHANGED <<slot, holding, at, current, late, pushed, outcome>>

DestroyDone ==
    /\ pc \in Idle
    /\ \A i \in Slots : slot[i] = "null"
    /\ pc' = "gone"
    /\ outcome' = [r \in Runnables |-> IF Queued(r) THEN "discarded" ELSE outcome[r]]
    /\ popped' = popped \o queue
    /\ queue' = << >>
    /\ UNCHANGED <<slot, holding, at, current, late, pushed>>

-----------------------------------------------------------------------------

JoinStep ==
    \/ JoinScan \/ JoinReturn \/ JoinValid \/ JoinStale
    \/ JoinCrash \/ JoinRefused \/ JoinWait
    \/ \E j \in Slots : JoinRecycled(j)

OwnerCall ==
    \/ \E r \in Runnables : OwnerPush(r)
    \/ OwnerPop \/ JoinBegin \/ DestroyStuck \/ DestroyDone

Worker(i) == Pop(i) \/ Finish(i) \/ Leave(i)

Next ==
    \/ OwnerCall
    \/ JoinStep
    \/ \E i \in Slots : Worker(i)
    \/ \E i \in Slots, r \in Runnables : NestedPush(i, r)

\* Threads are scheduled and runnables return; which call the owner makes next,
\* and whether a runnable pushes, is up to the client.
Fairness ==
    /\ WF_vars(JoinStep)
    /\ \A i \in Slots : WF_vars(Worker(i))

Spec     == Init /\ [][Next]_vars
FairSpec == Spec /\ Fairness

-----------------------------------------------------------------------------
(* Properties.                                                             *)

\* Runnables leave the queue in the order push queued them, whoever pops them
\* (workers, the client, the destructor), and none is lost on the way.
FifoOrder == pushed = popped \o queue

\* No runnable is in two places: it is once in the queue, or in the hands of one
\* worker, or ended.
AtMostOneHome ==
    \A r \in Runnables :
        /\ \A j, k \in DOMAIN queue : queue[j] = r /\ queue[k] = r => j = k
        /\ \A i, j \in Slots : holding[i] = r /\ holding[j] = r => i = j
        /\ ~(Queued(r) /\ Held(r))
        /\ Queued(r) \/ Held(r) => outcome[r] = "none"

\* What was pushed, and only that, is in one of these places: none is dropped.
NoneAstray ==
    \A r \in Runnables : Pushed(r) <=> Queued(r) \/ Held(r) \/ outcome[r] # "none"

\* A runnable that was pushed is in exactly one place: once in the queue, in the
\* hands of one worker, or ended (run, taken by a client, or deleted with the
\* queue).  So it is never run twice, never deleted twice (by a worker and by the
\* destructor, say), never deleted while it runs, and never popped and forgotten.
RunnableHasOneHome == AtMostOneHome /\ NoneAstray

\* When join returns and nobody pushed since it began, no worker is left: the
\* scan, which looks at one slot per critical section, did not miss one.
JoinQuiesces ==
    pc = "joined" /\ ~late => \A i \in Slots : slot[i] = "null"

\* A worker that has not yet seen the queue empty takes what is queued.
Active(i) == slot[i] \in {"ready", "running"}

WorkerDrains ==
    \A r \in Runnables :
        (Queued(r) /\ \E i \in Slots : Active(i)) ~> (~Queued(r) \/ pc \in Ended)

\* join returns, unless the process crashed or a slot holds a pointer that is no
\* thread's: then join meets it again and again.
JoinReturns ==
    pc \in InJoin ~> \/ pc \in Idle \cup {"crashed"}
                     \/ \E i \in Slots : slot[i] \in Broken

\* Every step is a step of the task pool the client sees.
Pool == INSTANCE TaskPool WITH
            Tasks <- Runnables, Lanes <- Slots, NoTask <- None,
            pending <- queue, busy <- holding, open <- (pc # "gone")

ImplementsTaskPool == Pool!Spec

(* What the repository says of join, and the code does not do.             *)

\* thread_test pushes, joins, and goes on as if the runnables were done: join
\* with no push since it began returns when the queue has been worked off.
JoinDrains == pc = "joined" /\ ~late => queue = << >>

\* The comment in join: it goes back to the front to see if there are any new
\* threads, and exits when there are not.
JoinSeesNewThreads ==
    pc = "scan" /\ at = ThreadCount => \A i \in Slots : slot[i] = "null"
=============================================================================
