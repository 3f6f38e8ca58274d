------------------------------ MODULE Lockstep ------------------------------
(***************************************************************************)
(* What ggml_graph_compute promises, whatever runs it: a graph of size     *)
(* nodes is computed by n threads node by node; no thread works on a node  *)
(* before all have finished the one before, none works on a node twice,    *)
(* and when the call returns the threads have all finished the same nodes. *)
(***************************************************************************)
EXTENDS Naturals

CONSTANTS
    NThreads,  \* n_threads_max
    Sizes      \* numbers of nodes that graphs have

VARIABLES
    computing, \* a call is under way
    n, size,   \* threads and nodes it asks for
    done       \* nodes of the graph a thread has finished

Threads == 0 .. NThreads - 1

vars == <<computing, n, size, done>>

Init ==
    /\ computing = FALSE
    /\ n = NThreads /\ size = 0
    /\ done = [t \in Threads |-> 0]

Start(k, s) ==
    /\ ~computing
    /\ computing' = TRUE
    /\ n' = k /\ size' = s
    /\ done' = [t \in Threads |-> 0]

Work(t) ==
    /\ computing
    /\ t < n /\ done[t] < size
    /\ \A u \in Threads : u < n => done[u] >= done[t]
    /\ done' = [done EXCEPT ![t] = @ + 1]
    /\ UNCHANGED <<computing, n, size>>

\* The call may end early: an abort callback is asked after each node.
Return ==
    /\ computing
    /\ \A t \in Threads : t < n => done[t] = done[0]
    /\ computing' = FALSE
    /\ UNCHANGED <<n, size, done>>

Next ==
    \/ \E k \in 1 .. NThreads, s \in Sizes : Start(k, s)
    \/ \E t \in Threads : Work(t)
    \/ Return

Spec == Init /\ [][Next]_vars

=============================================================================
