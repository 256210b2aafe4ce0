------------------------------- MODULE TaskQueue -------------------------------
(***************************************************************************)
(* What core/host_worker_pool.h promises its callers, without threads,     *)
(* mutexes or condition variables: a bounded first-in first-out queue of   *)
(* tasks, each accepted task run exactly once by one of a fixed number of  *)
(* workers, and nothing accepted once the pool is closed.                  *)
(***************************************************************************)
EXTENDS Naturals, Sequences, FiniteSets, SequencesExt

CONSTANTS Tasks, Threads, Capacity

VARIABLES
    queue,      \* accepted tasks, oldest first
    running,    \* tasks a worker has taken
    finished,   \* tasks that ran to their end
    open        \* the pool still accepts tasks

vars == <<queue, running, finished, open>>

Accepted == Range(queue) \union running \union finished

Init ==
    /\ queue = << >>
    /\ running = {}
    /\ finished = {}
    /\ open = TRUE

Accept(t) ==
    /\ open
    /\ t \notin Accepted
    /\ Len(queue) < Capacity
    /\ queue' = Append(queue, t)
    /\ UNCHANGED <<running, finished, open>>

Start ==
    /\ queue # << >>
    /\ Cardinality(running) < Threads
    /\ running' = running \union {Head(queue)}
    /\ queue' = Tail(queue)
    /\ UNCHANGED <<finished, open>>

Finish(t) ==
    /\ t \in running
    /\ running' = running \ {t}
    /\ finished' = finished \union {t}
    /\ UNCHANGED <<queue, open>>

Close ==
    /\ open
    /\ open' = FALSE
    /\ UNCHANGED <<queue, running, finished>>

Next == Start \/ Close \/ \E t \in Tasks : Accept(t) \/ Finish(t)

Safety == Init /\ [][Next]_vars

Spec == Safety /\ WF_vars(Start) /\ \A t \in Tasks : WF_vars(Finish(t))
=============================================================================
