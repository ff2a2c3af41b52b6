--------------------------- MODULE MCHThreadPool ---------------------------
(* Values for TLC: the setups of the pool.                                  *)
EXTENDS HThreadPool, TLC

CONSTANTS c1, c2, t1, t2

\* A pool that grows, shrinks and is waited for.
Growing == [min_thread_num |-> 1, max_thread_num |-> 2,
            calls |-> c1 :> {"commit"} @@ c2 :> {"wait"},
            tasks |-> {t1, t2}]

\* A pool that grows and shrinks and is paused, resumed and stopped.
Paused == [min_thread_num |-> 1, max_thread_num |-> 2,
           calls |-> c1 :> {"commit"} @@ c2 :> {"stop", "pause", "resume"},
           tasks |-> {t1, t2}]

\* A pool of one thread that two clients give tasks at once.
Shared == [min_thread_num |-> 1, max_thread_num |-> 1,
           calls |-> [c \in Clients |-> {"commit"}], tasks |-> {t1, t2}]

\* A pool that is stopped while it is waited for.
Stopped == [min_thread_num |-> 1, max_thread_num |-> 2,
            calls |-> c1 :> {"commit", "stop"} @@ c2 :> {"wait"}, tasks |-> {t1}]

\* A pool of two threads started by two clients at once.
Started == [min_thread_num |-> 2, max_thread_num |-> 2,
            calls |-> [c \in Clients |-> {"start"}], tasks |-> {}]

MCSetups == {Growing, Paused, Shared, Stopped, Started}

=============================================================================
