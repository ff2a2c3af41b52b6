------------------------------ MODULE TaskPool ------------------------------
(***************************************************************************)
(* What a pool of threads promises to those who commit tasks to it: a task *)
(* is started once, in the order the tasks were queued, and ends once.     *)
(* Nothing is said of when, or of how many run side by side.               *)
(***************************************************************************)
EXTENDS Sequences, FiniteSets

CONSTANT Tasks

VARIABLES queue,    \* committed, not started
          running,  \* started
          done      \* ended

vars == <<queue, running, done>>

Known(t) == t \in running \cup done \/ \E i \in DOMAIN queue : queue[i] = t

Init == queue = <<>> /\ running = {} /\ done = {}

Commit(t) ==
    /\ ~Known(t)
    /\ queue' = Append(queue, t)
    /\ UNCHANGED <<running, done>>

Begin ==
    /\ queue # <<>>
    /\ Head(queue) \notin running \cup done
    /\ queue' = Tail(queue)
    /\ running' = running \cup {Head(queue)}
    /\ UNCHANGED done

End(t) ==
    /\ t \in running
    /\ running' = running \ {t}
    /\ done' = done \cup {t}
    /\ UNCHANGED queue

Next == Begin \/ \E t \in Tasks : Commit(t) \/ End(t)

Spec == Init /\ [][Next]_vars

\* A pool that may be deleted and made anew: what has started is let end first, what
\* has not is dropped.
Discard ==
    /\ running = {}
    /\ queue' = <<>>
    /\ UNCHANGED <<running, done>>

LossySpec == Init /\ [][Next \/ Discard]_vars

=============================================================================
