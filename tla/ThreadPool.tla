----------------------------- MODULE ThreadPool -----------------------------
(***************************************************************************)
(* The thread pool of ggml/src/ggml.c, as built without OpenMP: the main   *)
(* thread (0) starts a graph, the workers find it by polling or are woken, *)
(* and all of them compute the graph's nodes with a barrier after each.    *)
(* Pausing, resuming and freeing the pool are the main thread's calls too. *)
(*                                                                         *)
(* A step is one access to a shared atomic, or one critical section of the *)
(* pool's mutex; kicking off a graph, which workers may watch without the  *)
(* mutex, is two.  Atomics are sequentially consistent.  How a node is     *)
(* computed is left out: a graph is its number of nodes.  The caller       *)
(* builds its next graph in the memory of the last (ggml-backend.c:1696),  *)
(* so a worker reads n_nodes of the graph that is there.                   *)
(***************************************************************************)
EXTENDS Naturals, FiniteSets

CONSTANTS
    NThreads,   \* n_threads_max
    Counts,     \* numbers of threads that graphs ask for (cplan->n_threads)
    Sizes,      \* numbers of nodes that graphs have
    Aborts,     \* the abort callback may ask to abort
    Graphs,     \* bound: graphs computed
    Settled     \* the caller starts a graph of another shape, or after an abort,
                \* only when no worker is still busy with the last one

ASSUME ThreadsAssumption ==
    /\ NThreads \in Nat \ {0}
    /\ Counts \subseteq Nat \ {0}
    /\ Sizes \subseteq Nat
    /\ Graphs \in Nat
    /\ Aborts \in BOOLEAN /\ Settled \in BOOLEAN

Threads == 0 .. NThreads - 1
Workers == Threads \ {0}

VARIABLES
    pc,               \* where each thread is
    n_graph, n_barrier, n_barrier_passed, n_threads_cur,
    stop, pause, abort,
    plan,             \* the graph of the call: its nodes, and the threads it gets
    last_graph,       \* ggml_compute_state::last_graph
    seen,             \* the n_graph a polling worker has read
    node,             \* node_n, the node a thread is at
    nth, passed,      \* n_threads and n_passed of ggml_barrier
    ec,               \* the status of the current call
    done,             \* history: nodes of the current graph a thread finished
    begun             \* history: times a thread began the current graph

flags   == <<stop, pause, abort, ec>>
bars    == <<n_barrier, n_barrier_passed>>
locals  == <<node, nth, passed>>
polls   == <<last_graph, seen>>
history == <<done, begun>>
vars == <<pc, n_graph, n_barrier, n_barrier_passed, n_threads_cur, stop, pause, abort, plan,
          last_graph, seen, node, nth, passed, ec, done, begun>>

Go(t, to) == pc' = [pc EXCEPT ![t] = to]

Computing == {"begin", "loop", "node", "barrier", "read", "enter", "last", "pass", "spin"}

Asleep == {"paused", "asleep"}

\* ggml_threadpool_new_impl: paused as the parameters say.
Init ==
    /\ pc = [t \in Threads |-> IF t = 0 THEN "idle" ELSE "top"]
    /\ n_graph = 0 /\ n_barrier = 0 /\ n_barrier_passed = 0
    /\ n_threads_cur = NThreads
    /\ stop = FALSE /\ pause \in BOOLEAN /\ abort = FALSE
    /\ plan = [n_threads |-> NThreads, n_nodes |-> 0]
    /\ last_graph = [t \in Workers |-> 0]
    /\ seen = [t \in Workers |-> 0]
    /\ node = [t \in Threads |-> 0]
    /\ nth = [t \in Threads |-> 0]
    /\ passed = [t \in Threads |-> 0]
    /\ ec = "success"
    /\ done = [t \in Threads |-> 0]
    /\ begun = [t \in Threads |-> 0]

-----------------------------------------------------------------------------
(* Computing a graph: ggml_graph_compute_thread and ggml_barrier.          *)

Begin(t) ==
    /\ pc[t] = "begin"
    /\ begun' = [begun EXCEPT ![t] = @ + 1]
    /\ node' = [node EXCEPT ![t] = 0]
    /\ Go(t, "loop")
    /\ UNCHANGED <<n_graph, bars, n_threads_cur, flags, plan, polls, nth, passed, done>>

\* Mutant of Loop: the last node is not reached.
LoopSkipsLast(t) ==
    /\ pc[t] = "loop"
    /\ IF node[t] + 1 < plan.n_nodes /\ ~abort
       THEN Go(t, "node")
       ELSE Go(t, IF t = 0 THEN "return" ELSE "top")
    /\ UNCHANGED <<n_graph, bars, n_threads_cur, flags, plan, polls, locals, history>>

\* The condition of the loop over the nodes.
Loop(t) ==
    /\ pc[t] = "loop"
    /\ IF node[t] < plan.n_nodes /\ ~abort
       THEN Go(t, "node")
       ELSE Go(t, IF t = 0 THEN "return" ELSE "top")
    /\ UNCHANGED <<n_graph, bars, n_threads_cur, flags, plan, polls, locals, history>>

\* ggml_compute_forward, after which thread 0 asks the abort callback.
Forward(t) ==
    /\ pc[t] = "node"
    /\ done' = [done EXCEPT ![t] = @ + 1]
    /\ \/ UNCHANGED flags
       \/ /\ t = 0 /\ Aborts
          /\ abort' = TRUE /\ ec' = "aborted"
          /\ UNCHANGED <<stop, pause>>
    /\ Go(t, "barrier")
    /\ UNCHANGED <<n_graph, bars, n_threads_cur, plan, polls, locals, begun>>

\* Leaving the barrier, for the next node.
Onwards(t) ==
    /\ node' = [node EXCEPT ![t] = @ + 1]
    /\ Go(t, "loop")

\* A single thread passes at once.
Barrier(t) ==
    /\ pc[t] = "barrier"
    /\ nth' = [nth EXCEPT ![t] = n_threads_cur]
    /\ IF n_threads_cur = 1 THEN Onwards(t) ELSE Go(t, "read") /\ UNCHANGED node
    /\ UNCHANGED <<n_graph, bars, n_threads_cur, flags, plan, polls, passed, history>>

\* Mutant of ReadPassed: n_passed is that of an earlier barrier.
ReadPassedNot(t) ==
    /\ pc[t] = "read"
    /\ Go(t, "enter")
    /\ UNCHANGED <<n_graph, bars, n_threads_cur, flags, plan, polls, locals, history>>

ReadPassed(t) ==
    /\ pc[t] = "read"
    /\ passed' = [passed EXCEPT ![t] = n_barrier_passed]
    /\ Go(t, "enter")
    /\ UNCHANGED <<n_graph, bars, n_threads_cur, flags, plan, polls, node, nth, history>>

\* Mutant of Enter: the last but one takes itself for the last.
EnterEarly(t) ==
    /\ pc[t] = "enter"
    /\ n_barrier' = n_barrier + 1
    /\ Go(t, IF n_barrier = nth[t] - 2 THEN "last" ELSE "spin")
    /\ UNCHANGED <<n_graph, n_barrier_passed, n_threads_cur, flags, plan, polls, locals, history>>

Enter(t) ==
    /\ pc[t] = "enter"
    /\ n_barrier' = n_barrier + 1
    /\ Go(t, IF n_barrier = nth[t] - 1 THEN "last" ELSE "spin")
    /\ UNCHANGED <<n_graph, n_barrier_passed, n_threads_cur, flags, plan, polls, locals, history>>

\* Mutant of LastResets: the counter is not reset.
LastKeepsCount(t) ==
    /\ pc[t] = "last"
    /\ Go(t, "pass")
    /\ UNCHANGED <<n_graph, bars, n_threads_cur, flags, plan, polls, locals, history>>

LastResets(t) ==
    /\ pc[t] = "last"
    /\ n_barrier' = 0
    /\ Go(t, "pass")
    /\ UNCHANGED <<n_graph, n_barrier_passed, n_threads_cur, flags, plan, polls, locals, history>>

LastPasses(t) ==
    /\ pc[t] = "pass"
    /\ n_barrier_passed' = n_barrier_passed + 1
    /\ Onwards(t)
    /\ UNCHANGED <<n_graph, n_barrier, n_threads_cur, flags, plan, polls, nth, passed, history>>

Spin(t) ==
    /\ pc[t] = "spin"
    /\ n_barrier_passed # passed[t]
    /\ Onwards(t)
    /\ UNCHANGED <<n_graph, bars, n_threads_cur, flags, plan, polls, nth, passed, history>>

Compute(t) ==
    \/ Begin(t) \/ Loop(t) \/ Forward(t)
    \/ Barrier(t) \/ ReadPassed(t) \/ Enter(t) \/ LastResets(t) \/ LastPasses(t) \/ Spin(t)

-----------------------------------------------------------------------------
(* A worker between graphs: ggml_graph_compute_secondary_thread.           *)

\* Nobody takes the mutex while the main thread kicks off a graph.
MutexFree == pc[0] # "announce"

\* The test of the pause loop, without the mutex, then the test of stop.
Top(w) ==
    /\ pc[w] = "top"
    /\ Go(w, IF pause THEN "lock" ELSE IF stop THEN "exited" ELSE "poll")
    /\ UNCHANGED <<n_graph, bars, n_threads_cur, flags, plan, polls, locals, history>>

\* Mutant of PauseWait: waits without another look at pause.
PauseWaitUnchecked(w) ==
    /\ pc[w] = "lock"
    /\ MutexFree
    /\ Go(w, "paused")
    /\ UNCHANGED <<n_graph, bars, n_threads_cur, flags, plan, polls, locals, history>>

\* The test again, under the mutex, and the wait.
PauseWait(w) ==
    /\ pc[w] = "lock"
    /\ MutexFree
    /\ Go(w, IF pause THEN "paused" ELSE "top")
    /\ UNCHANGED <<n_graph, bars, n_threads_cur, flags, plan, polls, locals, history>>

\* poll_for_work skips the polling of a thread the graph has no use for.
Poll(w) ==
    /\ pc[w] = "poll"
    /\ Go(w, IF w < n_threads_cur THEN "ready" ELSE "sleep")
    /\ UNCHANGED <<n_graph, bars, n_threads_cur, flags, plan, polls, locals, history>>

\* A round of polling, which looks at n_graph; the rounds are limited.
Look(w) ==
    /\ pc[w] = "ready"
    /\ IF stop \/ pause \/ n_graph = last_graph[w]
       THEN Go(w, "sleep") /\ UNCHANGED seen
       ELSE Go(w, "active") /\ seen' = [seen EXCEPT ![w] = n_graph]
    /\ UNCHANGED <<n_graph, bars, n_threads_cur, flags, plan, last_graph, locals, history>>

\* Mutant of LookActive: the graph is not noted.
LookActiveForgets(w) ==
    /\ pc[w] = "active"
    /\ IF w < n_threads_cur THEN Go(w, "begin") ELSE Go(w, "ready") \/ Go(w, "sleep")
    /\ UNCHANGED <<n_graph, bars, n_threads_cur, flags, plan, polls, locals, history>>

\* The rest of thread_ready: is the graph for this thread?
LookActive(w) ==
    /\ pc[w] = "active"
    /\ last_graph' = [last_graph EXCEPT ![w] = seen[w]]
    /\ IF w < n_threads_cur THEN Go(w, "begin") ELSE Go(w, "ready") \/ Go(w, "sleep")
    /\ UNCHANGED <<n_graph, bars, n_threads_cur, flags, plan, seen, locals, history>>

\* Mutant of Sleep: a graph for others is not noted.
SleepForgets(w) ==
    /\ pc[w] = "sleep"
    /\ MutexFree
    /\ IF stop \/ pause
       THEN Go(w, "top") /\ UNCHANGED last_graph
       ELSE /\ last_graph' = [last_graph EXCEPT ![w] = IF w < n_threads_cur THEN n_graph ELSE @]
            /\ Go(w, IF n_graph # last_graph[w] /\ w < n_threads_cur THEN "begin" ELSE "asleep")
    /\ UNCHANGED <<n_graph, bars, n_threads_cur, flags, plan, seen, locals, history>>

\* check_for_work under the mutex: thread_ready, or wait for the condition.
Sleep(w) ==
    /\ pc[w] = "sleep"
    /\ MutexFree
    /\ IF stop \/ pause
       THEN Go(w, "top") /\ UNCHANGED last_graph
       ELSE /\ last_graph' = [last_graph EXCEPT ![w] = n_graph]
            /\ Go(w, IF n_graph # last_graph[w] /\ w < n_threads_cur THEN "begin" ELSE "asleep")
    /\ UNCHANGED <<n_graph, bars, n_threads_cur, flags, plan, seen, locals, history>>

Worker(w) ==
    \/ Top(w) \/ PauseWait(w) \/ Poll(w) \/ Look(w) \/ LookActive(w) \/ Sleep(w) \/ Compute(w)

\* Where a thread goes on when its ggml_cond_wait returns.
Woken(p) == IF p = "paused" THEN "top" ELSE IF p = "asleep" THEN "sleep" ELSE p

\* ggml_cond_wait may return for no reason.
Spurious(w) ==
    /\ pc[w] \in Asleep
    /\ MutexFree
    /\ Go(w, Woken(pc[w]))
    /\ UNCHANGED <<n_graph, bars, n_threads_cur, flags, plan, polls, locals, history>>

-----------------------------------------------------------------------------
(* The main thread.                                                        *)

\* ggml_cond_broadcast, by the main thread on its way to p.
Broadcast(p) == pc' = [t \in Threads |-> IF t = 0 THEN p ELSE Woken(pc[t])]

\* The worker has seen the last graph and is through with it, or is held up by
\* the pause, which ends only after the next graph is announced.
AtRest(w) ==
    \/ pc[w] \notin Computing \cup {"active"} /\ last_graph[w] = n_graph
    \/ pc[w] \in {"top", "lock", "paused"} /\ pause

\* What a model does that generates: the same graph, right after the last.  An empty one has
\* no barrier, so that the call may return before the workers have found the graph.
SameAgain == plan' = plan /\ plan.n_nodes > 0 /\ ec = "success"

\* No more threads than there are.
Granted(c) == IF c > NThreads THEN NThreads ELSE c

\* ggml_graph_compute: the parameters are set while no worker should use them.  Settled is
\* a condition on the caller, which the code does not make.
StartGraph ==
    /\ pc[0] = "idle"
    /\ n_graph < Graphs
    /\ \E c \in Counts, s \in Sizes : plan' = [n_threads |-> Granted(c), n_nodes |-> s]
    /\ Settled => SameAgain \/ \A w \in Workers : AtRest(w)
    /\ abort' = FALSE /\ ec' = "success"
    /\ done' = [t \in Threads |-> 0]
    /\ begun' = [t \in Threads |-> 0]
    /\ Go(0, "kick")
    /\ UNCHANGED <<n_graph, bars, n_threads_cur, stop, pause, polls, locals>>

\* ggml_graph_compute_kickoff takes the mutex.
Kick ==
    /\ pc[0] = "kick"
    /\ n_threads_cur' = plan.n_threads
    /\ Go(0, "announce")
    /\ UNCHANGED <<n_graph, bars, flags, plan, polls, locals, history>>

Announce ==
    /\ pc[0] = "announce"
    /\ n_graph' = n_graph + 1
    /\ pause' = FALSE
    /\ Broadcast("begin")
    /\ UNCHANGED <<bars, n_threads_cur, stop, abort, ec, plan, polls, locals, history>>

Return ==
    /\ pc[0] = "return"
    /\ Go(0, "idle")
    /\ UNCHANGED <<n_graph, bars, n_threads_cur, flags, plan, polls, locals, history>>

\* ggml_threadpool_pause and ggml_threadpool_resume
Pause ==
    /\ pc[0] = "idle"
    /\ ~pause
    /\ pause' = TRUE
    /\ Broadcast("idle")
    /\ UNCHANGED <<n_graph, bars, n_threads_cur, stop, abort, ec, plan, polls, locals, history>>

Resume ==
    /\ pc[0] = "idle"
    /\ pause
    /\ pause' = FALSE
    /\ Broadcast("idle")
    /\ UNCHANGED <<n_graph, bars, n_threads_cur, stop, abort, ec, plan, polls, locals, history>>

\* ggml_threadpool_free, and its joining of the workers
Free ==
    /\ pc[0] = "idle"
    /\ stop' = TRUE /\ pause' = FALSE
    /\ Broadcast("joining")
    /\ UNCHANGED <<n_graph, bars, n_threads_cur, abort, ec, plan, polls, locals, history>>

Joined ==
    /\ pc[0] = "joining"
    /\ \A w \in Workers : pc[w] = "exited"
    /\ Go(0, "freed")
    /\ UNCHANGED <<n_graph, bars, n_threads_cur, flags, plan, polls, locals, history>>

Freed == pc[0] = "freed" /\ UNCHANGED vars

Main ==
    \/ StartGraph \/ Kick \/ Announce \/ Return
    \/ Pause \/ Resume \/ Free \/ Joined \/ Freed
    \/ Compute(0)

Next == Main \/ \E w \in Workers : Worker(w) \/ Spurious(w)

Spec == Init /\ [][Next]_vars

\* Threads run; the main thread need not make a call but finishes the one it
\* has made.
FairSpec ==
    /\ Spec
    /\ \A w \in Workers : WF_vars(Worker(w))
    /\ WF_vars(Kick \/ Announce \/ Return \/ Joined \/ Compute(0))

-----------------------------------------------------------------------------
(* Properties.                                                             *)

PoolStates == {"top", "lock", "paused", "poll", "ready", "active", "sleep", "asleep", "exited"}

MainStates == {"idle", "kick", "announce", "return", "joining", "freed"}

TypeOK ==
    /\ pc \in [Threads -> MainStates \cup PoolStates \cup Computing]
    /\ pc[0] \in MainStates \cup Computing
    /\ \A w \in Workers : pc[w] \in PoolStates \cup Computing
    /\ n_graph \in 0 .. Graphs
    /\ n_barrier \in 0 .. NThreads /\ n_barrier_passed \in Nat
    /\ n_threads_cur \in 1 .. NThreads
    /\ stop \in BOOLEAN /\ pause \in BOOLEAN /\ abort \in BOOLEAN
    /\ plan \in [n_threads : 1 .. NThreads, n_nodes : Sizes \cup {0}]
    /\ last_graph \in [Workers -> 0 .. Graphs] /\ seen \in [Workers -> 0 .. Graphs]
    /\ node \in [Threads -> Nat] /\ nth \in [Threads -> 0 .. NThreads]
    /\ passed \in [Threads -> Nat]
    /\ ec \in {"success", "aborted"}
    /\ done \in [Threads -> Nat] /\ begun \in [Threads -> Nat]

\* Who is in the barrier and has not been let through.
Held == {t \in Threads : pc[t] = "spin" /\ passed[t] = n_barrier_passed}

\* The counter of the barrier is the number of threads held by it, so that the
\* last one of n_threads_cur is recognised: it is reset before anybody is let
\* through, and nobody enters the next barrier before that (ggml_barrier).
BarrierCounts ==
    n_barrier = IF \E t \in Threads : pc[t] = "pass" THEN 0
                ELSE Cardinality(Held \cup {t \in Threads : pc[t] = "last"})

\* "The main thread is the only one that can dispatch new work": a worker takes up a
\* graph when it is to compute it, and once, whether it was polling, asleep, late or
\* paused (last_graph in ggml_graph_compute_thread_ready).  It rests on Settled: a
\* worker that is late for one graph and reads the n_threads_cur of the next may take
\* up what is not for it, or the same twice.
DispatchedOnce ==
    \A w \in Workers : begun[w] <= 1 /\ (begun[w] = 1 => w < plan.n_threads)

\* A call that reports success has had every node computed by every one of its
\* threads (ggml_graph_compute).
SuccessMeansDone ==
    pc[0] = "return" /\ ec = "success" =>
        \A t \in Threads : done[t] = IF t < plan.n_threads THEN plan.n_nodes ELSE 0

\* "No worker threads should be accessing the parameters below at this stage":
\* when the main thread sets the parameters of a graph, no worker is still on
\* its way out of the last one, about to look at abort and n_nodes.  The code does not
\* keep this (see the README).
ParametersUnread ==
    [][pc[0] = "idle" /\ pc'[0] = "kick" => \A w \in Workers : pc[w] \notin Computing]_vars

\* Every call returns: the workers that a graph needs are found polling or are
\* woken, all get through the barriers, and a pool is freed also when it is
\* paused.
CallsReturn == pc[0] \notin {"idle", "freed"} ~> pc[0] \in {"idle", "freed"}

\* Every call returns that is not aborted: the workers a graph needs are found
\* polling or are woken, all get through the barriers, and a pool is freed also when
\* it is paused (ggml_graph_compute_kickoff, ggml_barrier, ggml_threadpool_free).
CallsReturnUnlessAborted ==
    pc[0] \notin {"idle", "freed"} ~> (pc[0] \in {"idle", "freed"} \/ ec = "aborted")

\* Left alone, with the pool running or paused, the workers come to rest and stay
\* at rest, so that a caller who waits long enough does start its graphs settled.
WorkersSettle ==
    \A p \in BOOLEAN :
        <>[](pc[0] = "idle" /\ pause = p) => <>[](\A w \in Workers : AtRest(w))

\* The pool computes graphs in lockstep (Lockstep).
Abstract == INSTANCE Lockstep WITH
    computing <- pc[0] \notin {"idle", "joining", "freed"},
    n         <- plan.n_threads,
    size      <- plan.n_nodes

ImplementsLockstep == Abstract!Spec

=============================================================================
