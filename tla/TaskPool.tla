------------------------------ MODULE TaskPool ------------------------------
(***************************************************************************)
(* What a thread_queue promises its client, without threads, slots or a    *)
(* mutex: tasks start in the order they were submitted, each at most once, *)
(* and at most one per lane at a time.  A client may withdraw the oldest   *)
(* task itself, and closing the pool drops the tasks nobody started.       *)
(* Nothing is promised about a task ever being started.                    *)
(***************************************************************************)
EXTENDS Sequences

CONSTANTS Tasks,    \* the tasks a client can submit
          Lanes,    \* the places in which a task runs
          NoTask    \* an idle lane

VARIABLES pending,  \* submitted and not yet started, oldest first
          busy,     \* the task each lane is running
          open,     \* the pool was not closed
          outcome   \* how a task ended, or "none" while it has not

vars == <<pending, busy, open, outcome>>

Submitted(t) ==
    \/ \E k \in DOMAIN pending : pending[k] = t
    \/ \E l \in Lanes : busy[l] = t
    \/ outcome[t] # "none"

Init ==
    /\ pending = << >>
    /\ busy = [l \in Lanes |-> NoTask]
    /\ open = TRUE
    /\ outcome = [t \in Tasks |-> "none"]

Submit(t) ==
    /\ open
    /\ ~Submitted(t)
    /\ pending' = Append(pending, t)
    /\ UNCHANGED <<busy, open, outcome>>

Start(l) ==
    /\ pending # << >>
    /\ busy[l] = NoTask
    /\ busy' = [busy EXCEPT ![l] = Head(pending)]
    /\ pending' = Tail(pending)
    /\ UNCHANGED <<open, outcome>>

Complete(l) ==
    /\ busy[l] # NoTask
    /\ outcome' = [outcome EXCEPT ![busy[l]] = "executed"]
    /\ busy' = [busy EXCEPT ![l] = NoTask]
    /\ UNCHANGED <<pending, open>>

Withdraw ==
    /\ pending # << >>
    /\ outcome' = [outcome EXCEPT ![Head(pending)] = "taken"]
    /\ pending' = Tail(pending)
    /\ UNCHANGED <<busy, open>>

Close ==
    /\ open
    /\ open' = FALSE
    /\ \A l \in Lanes : busy[l] = NoTask
    /\ outcome' = [t \in Tasks |-> IF \E k \in DOMAIN pending : pending[k] = t
                                   THEN "discarded" ELSE outcome[t]]
    /\ pending' = << >>
    /\ UNCHANGED busy

Next ==
    \/ \E t \in Tasks : Submit(t)
    \/ \E l \in Lanes : Start(l) \/ Complete(l)
    \/ Withdraw
    \/ Close

Spec == Init /\ [][Next]_vars
=============================================================================
