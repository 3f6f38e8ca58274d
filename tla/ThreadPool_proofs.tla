-------------------------- MODULE ThreadPool_proofs --------------------------
(***************************************************************************)
(* Proofs about ThreadPool, for any number of threads, graphs of any sizes *)
(* and any thread counts, with a caller that waits for the workers before  *)
(* it starts a graph of another shape, or after an abort (Settled), and    *)
(* with one that never waits, and has graphs of one shape only (Uniform):  *)
(* the barrier counts right, every worker takes up a graph once, a call    *)
(* that reports success has computed every node, and the threads work in   *)
(* lockstep.                                                               *)
(***************************************************************************)
EXTENDS ThreadPool, Integers, FiniteSetTheorems, TLAPS

USE ThreadsAssumption

\* In the barrier of the node it has computed, and not let through yet.
Arrived ==
    {t \in Threads : \/ pc[t] \in {"barrier", "read", "enter", "last", "pass"}
                     \/ pc[t] = "spin" /\ passed[t] = n_barrier_passed}

\* The node the team is at, as thread t knows it.
Level(t) == IF t \in Arrived THEN done[t] - 1 ELSE done[t]

Team == 0 .. plan.n_threads - 1

\* The main thread has set the parameters and not announced the graph.
Setup == pc[0] \in {"kick", "announce"}

ValuesInv ==
    /\ TypeOK
    /\ pc[0] # "kick" => n_threads_cur = plan.n_threads
    /\ \A w \in Workers : last_graph[w] <= n_graph /\ seen[w] <= n_graph
    /\ abort <=> ec = "aborted"

\* Only threads of the team compute.
TeamOf(t) ==
    /\ pc[t] \in Computing => t \in Team /\ n_threads_cur = plan.n_threads
    /\ begun[t] \in {0, 1}
    /\ begun[t] = 0 => done[t] = 0
    /\ t \notin Team => begun[t] = 0

\* A thread that has begun the graph has finished the nodes before the one it is at; one that
\* has not, and is not about to, is on its way out of the last graph.
NodeOf(t) ==
    /\ pc[t] \in {"barrier", "read", "enter", "last", "pass", "node"} => begun[t] = 1
    /\ pc[t] = "begin" => begun[t] = 0
    /\ pc[t] \in {"barrier", "read", "enter", "last", "pass", "spin", "node"} => node[t] < plan.n_nodes
    /\ pc[t] = "loop" => node[t] <= plan.n_nodes
    /\ begun[t] = 1 /\ pc[t] \in {"loop", "node"} => done[t] = node[t]
    /\ begun[t] = 1 /\ pc[t] \in {"barrier", "read", "enter", "last", "pass", "spin"} =>
           done[t] = node[t] + 1
    /\ begun[t] = 0 /\ pc[t] \in {"loop", "spin"} =>
           /\ t # 0 /\ plan.n_nodes > 0
           /\ pc[t] = "loop" => node[t] = plan.n_nodes
           /\ pc[t] = "spin" => node[t] + 1 = plan.n_nodes /\ passed[t] < n_barrier_passed

\* All in the barrier wait for the same passage.
PassOf(t) ==
    /\ pc[t] \in {"enter", "last", "pass"} => passed[t] = n_barrier_passed
    /\ pc[t] \in {"read", "enter", "last", "pass", "spin"} => nth[t] = n_threads_cur
    /\ pc[t] = "spin" => passed[t] <= n_barrier_passed

TeamInv == \A t \in Threads : TeamOf(t) /\ NodeOf(t) /\ PassOf(t)

\* Whoever takes itself for the last is the last.
LastInv ==
    \A t \in Threads : pc[t] \in {"last", "pass"} => \A u \in Team : u # t => u \in Held

\* Nobody is ahead of the others by more than the node in hand.
LevelInv == \A t \in Team : Level(t) = Level(0)

\* What a worker has to do with the current graph.
WorkerOf(w) ==
    /\ Setup =>
        \/ AtRest(w)
        \/ /\ n_threads_cur = plan.n_threads /\ plan.n_nodes > 0
           /\ \/ w \notin Team /\ pc[w] \in PoolStates
              \/ w \in Team /\ pc[w] \in {"loop", "spin"} /\ last_graph[w] = n_graph
    /\ ~Setup =>
        /\ begun[w] = 1 => last_graph[w] = n_graph /\ pc[w] # "active"
        /\ begun[w] = 0 /\ pc[w] = "begin" => last_graph[w] = n_graph
        /\ begun[w] = 0 /\ pc[w] \in {"loop", "spin"} => last_graph[w] # n_graph
        /\ w \in Team /\ pc[w] = "active" => seen[w] = n_graph

WorkerInv == \A w \in Workers : WorkerOf(w)

MainInv ==
    /\ Setup => n_graph < Graphs /\ \A t \in Threads : begun[t] = 0
    /\ pc[0] \in {"return", "idle", "joining", "freed"} /\ ec = "success" =>
           done[0] = plan.n_nodes

\* Once the main thread has left the barrier of the node it aborted at, nobody begins another.
AbortInv ==
    abort /\ 0 \notin Arrived => \A t \in Team : t \notin Arrived /\ pc[t] # "node"

IInv ==
    /\ ValuesInv /\ TeamInv /\ LastInv /\ BarrierCounts
    /\ LevelInv /\ WorkerInv /\ MainInv /\ AbortInv

-----------------------------------------------------------------------------
(* The values of constants and variables.                                  *)

LEMMA ThreadFacts ==
    /\ 0 \in Threads /\ 0 \notin Workers /\ Threads = Workers \cup {0}
    /\ Workers \subseteq Threads /\ Threads \subseteq Nat
    BY DEF Threads, Workers

LEMMA Values ==
    ASSUME IInv
    PROVE  /\ pc \in [Threads -> MainStates \cup PoolStates \cup Computing]
           /\ pc[0] \in MainStates \cup Computing
           /\ \A w \in Workers : pc[w] \in PoolStates \cup Computing
           /\ n_graph \in Nat /\ n_barrier \in Nat /\ n_barrier_passed \in Nat
           /\ n_threads_cur \in 1 .. NThreads
           /\ plan.n_threads \in 1 .. NThreads /\ plan.n_nodes \in Nat
           /\ last_graph \in [Workers -> Nat] /\ seen \in [Workers -> Nat]
           /\ node \in [Threads -> Nat] /\ nth \in [Threads -> 0 .. NThreads]
           /\ passed \in [Threads -> Nat] /\ done \in [Threads -> Nat]
           /\ begun \in [Threads -> Nat]
           /\ Team \subseteq Threads /\ 0 \in Team
    <1>1. TypeOK
        BY DEF IInv, ValuesInv
    <1>2. plan.n_threads \in 1 .. NThreads /\ plan.n_nodes \in Nat
        <2>1. plan \in [n_threads : 1 .. NThreads, n_nodes : Sizes \cup {0}]
            BY <1>1 DEF TypeOK
        <2>2. Sizes \cup {0} \subseteq Nat
            OBVIOUS
        <2> HIDE ThreadsAssumption
        <2> QED BY <2>1, <2>2
    <1>3. Team \subseteq Threads /\ 0 \in Team
        BY <1>2 DEF Team, Threads
    <1>4. last_graph \in [Workers -> Nat] /\ seen \in [Workers -> Nat] /\ nth \in [Threads -> 0 .. NThreads]
        BY <1>1 DEF TypeOK
    <1> QED BY <1>1, <1>2, <1>3, <1>4 DEF TypeOK

\* A graph gets a thread, and no more than there are.
LEMMA GrantedIsThere == ASSUME NEW c \in Counts PROVE Granted(c) \in 1 .. NThreads
    BY DEF Granted

LEMMA IntervalSize ==
    ASSUME NEW k \in Nat \ {0}
    PROVE  IsFiniteSet(0 .. k - 1) /\ Cardinality(0 .. k - 1) = k
    BY FS_Interval

\* How many threads the barrier holds.
LEMMA HeldFinite ==
    /\ IsFiniteSet(Threads) /\ Cardinality(Threads) = NThreads
    /\ IsFiniteSet(Held) /\ Cardinality(Held) \in 0 .. NThreads
    <1>1. IsFiniteSet(Threads) /\ Cardinality(Threads) = NThreads
        BY IntervalSize DEF Threads
    <1>2. IsFiniteSet(Held) /\ Cardinality(Held) <= NThreads
        BY <1>1, FS_Subset DEF Held
    <1> QED BY <1>1, <1>2, FS_CardinalityType

\* Only threads of the team are held.
LEMMA HeldInTeam ==
    ASSUME IInv
    PROVE  /\ Held \subseteq Team /\ Held \subseteq Arrived /\ Arrived \subseteq Team
           /\ \A t \in Arrived : begun[t] = 1 /\ done[t] = node[t] + 1 /\ node[t] < plan.n_nodes
    <1>1. ASSUME NEW t \in Arrived PROVE t \in Team /\ begun[t] = 1
        <2>1. t \in Threads /\ TeamOf(t) /\ NodeOf(t) /\ PassOf(t)
            BY DEF Arrived, IInv, TeamInv
        <2>2. passed[t] \in Nat /\ n_barrier_passed \in Nat
            BY <2>1, Values
        <2> QED BY <2>1, <2>2 DEF Arrived, TeamOf, NodeOf, Computing
    <1>2. ASSUME NEW t \in Arrived PROVE done[t] = node[t] + 1 /\ node[t] < plan.n_nodes
        <2>1. t \in Threads /\ NodeOf(t)
            BY DEF Arrived, IInv, TeamInv
        <2> QED BY <1>1, <2>1 DEF Arrived, NodeOf
    <1>3. Held \subseteq Arrived
        BY DEF Held, Arrived
    <1> QED BY <1>1, <1>2, <1>3

\* What the counter is, with the thread that has taken itself for the last.
LEMMA LastAlone ==
    ASSUME IInv, NEW t \in Threads, pc[t] \in {"last", "pass"}
    PROVE  /\ \A u \in Threads \ {t} : pc[u] \notin {"last", "pass"}
           /\ \A u \in Team \ {t} : u \in Held /\ pc[u] = "spin"
           /\ t \in Team
    <1>1. \A u \in Team \ {t} : u \in Held /\ pc[u] = "spin"
        BY DEF IInv, LastInv, Held
    <1>2. \A u \in Threads : pc[u] \in Computing => u \in Team
        BY DEF IInv, TeamInv, TeamOf
    <1> QED BY <1>1, <1>2 DEF Computing

-----------------------------------------------------------------------------
(* A step of a thread that computes.                                       *)

\* What such a step leaves alone.
ComputeFrame(t) ==
    /\ UNCHANGED <<n_graph, n_threads_cur, plan, last_graph, seen, stop, pause>>
    /\ \A u \in Threads \ {t} :
           /\ pc'[u] = pc[u] /\ node'[u] = node[u] /\ nth'[u] = nth[u] /\ passed'[u] = passed[u]
           /\ done'[u] = done[u] /\ begun'[u] = begun[u]

\* A step of t keeps the invariant if it keeps what the invariant says of t, and t was not held.
LEMMA ComputeKeeps ==
    ASSUME IInv, NEW t \in Threads, ComputeFrame(t), n_barrier_passed' = n_barrier_passed,
           pc[t] \in Computing, t \notin Held,
           pc'[t] \in Computing \cup {IF t = 0 THEN "return" ELSE "top"},
           TypeOK', abort' <=> ec' = "aborted", t # 0 => ec' = ec,
           TeamOf(t)', NodeOf(t)', PassOf(t)',
           pc'[t] \in {"last", "pass"} => \A u \in Team : u # t => u \in Held,
           BarrierCounts', plan.n_threads = 1 \/ Level(t)' = Level(t),
           t # 0 => WorkerOf(t)',
           Setup => begun'[t] = begun[t],
           t = 0 /\ pc'[0] = "return" /\ ec' = "success" => done'[0] = plan.n_nodes,
           AbortInv'
    PROVE  IInv'
    <1>1. Team' = Team /\ (Setup' <=> Setup) /\ t \in Team
        <2>1. t = 0 => ~Setup /\ ~Setup'
            BY DEF Setup, Computing
        <2>2. t # 0 => pc'[0] = pc[0]
            BY ThreadFacts DEF ComputeFrame
        <2>3. t \in Team
            BY DEF IInv, TeamInv, TeamOf
        <2> QED BY <2>1, <2>2, <2>3 DEF Team, Setup, ComputeFrame
    <1>2. \A u \in Threads \ {t} : (u \in Arrived' <=> u \in Arrived) /\ (u \in Held' <=> u \in Held)
        BY DEF ComputeFrame, Arrived, Held
    <1>3. \A u \in Threads \ {t} : pc[u] \notin {"last", "pass"}
        BY <1>1 DEF IInv, LastInv
    <1>4. ValuesInv'
        <2>1. pc'[0] # "kick" => n_threads_cur' = plan'.n_threads
            <3>1. CASE t = 0
                BY <3>1 DEF IInv, TeamInv, TeamOf, ComputeFrame
            <3>2. CASE t # 0
                BY <3>2, ThreadFacts DEF IInv, ValuesInv, ComputeFrame
            <3> QED BY <3>1, <3>2
        <2> QED BY <2>1 DEF IInv, ValuesInv, ComputeFrame
    <1>5. TeamInv'
        <2>1. ASSUME NEW u \in Threads, u # t PROVE TeamOf(u)' /\ NodeOf(u)' /\ PassOf(u)'
            <3>1. TeamOf(u) /\ NodeOf(u) /\ PassOf(u)
                BY DEF IInv, TeamInv
            <3>2. UNCHANGED <<plan, n_threads_cur, n_barrier_passed>> /\ pc'[u] = pc[u]
                  /\ node'[u] = node[u] /\ nth'[u] = nth[u] /\ passed'[u] = passed[u]
                  /\ done'[u] = done[u] /\ begun'[u] = begun[u]
                BY <2>1 DEF ComputeFrame
            <3>3. TeamOf(u)'
                BY <1>1, <3>1, <3>2 DEF TeamOf
            <3>4. NodeOf(u)'
                BY <3>1, <3>2 DEF NodeOf
            <3>5. PassOf(u)'
                BY <3>1, <3>2 DEF PassOf
            <3> QED BY <3>3, <3>4, <3>5
        <2> QED BY <2>1 DEF TeamInv
    <1>6. LastInv'
        <2>1. ASSUME NEW u \in Threads, pc'[u] \in {"last", "pass"}, NEW v \in Team, v # u
              PROVE  v \in Held'
            <3>1. u = t
                BY <1>3, <2>1 DEF ComputeFrame
            <3>2. v \in Threads \ {t}
                BY <2>1, <3>1, Values
            <3> QED BY <1>2, <2>1, <3>1, <3>2
        <2> QED BY <1>1, <2>1 DEF LastInv
    <1>7. LevelInv'
        <2>1. CASE plan.n_threads = 1
            <3>1. Team' = {0}
                BY <1>1, <2>1 DEF Team
            <3> QED BY <3>1 DEF LevelInv
        <2>2. CASE plan.n_threads # 1
            <3>1. ASSUME NEW u \in Threads PROVE Level(u)' = Level(u)
                <4>1. CASE u # t
                    BY <1>2, <4>1 DEF Level, ComputeFrame
                <4> QED BY <2>2, <4>1
            <3>2. Team \subseteq Threads /\ 0 \in Threads
                BY Values, ThreadFacts
            <3> QED BY <1>1, <3>1, <3>2 DEF LevelInv, IInv
        <2> QED BY <2>1, <2>2
    <1>8. WorkerInv'
        <2>1. ASSUME NEW w \in Workers PROVE WorkerOf(w)'
            <3>1. CASE w # t
                <4>1. WorkerOf(w) /\ w \in Threads
                    BY ThreadFacts DEF IInv, WorkerInv
                <4>2. UNCHANGED <<n_graph, n_threads_cur, plan, last_graph, seen, pause>>
                      /\ pc'[w] = pc[w] /\ begun'[w] = begun[w]
                    BY <3>1, <4>1 DEF ComputeFrame
                <4> QED BY <1>1, <4>1, <4>2 DEF WorkerOf, AtRest
            <3>2. CASE w = t
                BY <3>2, ThreadFacts
            <3> QED BY <3>1, <3>2
        <2> QED BY <2>1 DEF WorkerInv
    <1>9. MainInv'
        <2>1. ASSUME Setup' PROVE n_graph' < Graphs /\ \A u \in Threads : begun'[u] = 0
            BY <1>1, <2>1 DEF IInv, MainInv, ComputeFrame
        <2>2. ASSUME pc'[0] \in {"return", "idle", "joining", "freed"}, ec' = "success"
              PROVE  done'[0] = plan'.n_nodes
            <3>1. CASE t = 0
                BY <2>2, <3>1 DEF Computing, ComputeFrame
            <3>2. CASE t # 0
                BY <2>2, <3>2, ThreadFacts DEF IInv, MainInv, ComputeFrame
            <3> QED BY <3>1, <3>2
        <2> QED BY <2>1, <2>2 DEF MainInv
    <1> QED BY <1>4, <1>5, <1>6, <1>7, <1>8, <1>9 DEF IInv

\* The hypotheses of ComputeKeeps that a step shares with others: it counts nobody in or out.
LEMMA CountKept ==
    ASSUME IInv, NEW t \in Threads, ComputeFrame(t), n_barrier_passed' = n_barrier_passed,
           n_barrier' = n_barrier, pc[t] \notin {"last", "pass"}, pc'[t] \notin {"last", "pass"},
           t \notin Held, t \notin Held'
    PROVE  BarrierCounts'
    <1>1. Held' = Held
        BY DEF Held, ComputeFrame
    <1>2. \A u \in Threads : /\ pc'[u] = "pass" <=> pc[u] = "pass"
                             /\ pc'[u] = "last" <=> pc[u] = "last"
        BY DEF ComputeFrame
    <1>3. {u \in Threads : pc'[u] = "last"} = {u \in Threads : pc[u] = "last"}
        BY <1>2
    <1> QED BY <1>1, <1>2, <1>3 DEF IInv, BarrierCounts

\* A step that takes nobody into the barrier or out of it, and into no node after an abort.
LEMMA AbortKept ==
    ASSUME IInv, NEW t \in Threads, ComputeFrame(t), n_barrier_passed' = n_barrier_passed,
           abort' = abort, t \in Arrived' <=> t \in Arrived, pc'[t] = "node" => ~abort
    PROVE  AbortInv'
    <1>1. Team' = Team /\ Team \subseteq Threads /\ 0 \in Threads
        BY Values, ThreadFacts DEF Team, ComputeFrame
    <1>2. \A u \in Threads : u \in Arrived' <=> u \in Arrived
        BY DEF ComputeFrame, Arrived
    <1>3. \A u \in Threads : pc'[u] = "node" => pc[u] = "node" \/ ~abort
        BY DEF ComputeFrame
    <1> QED BY <1>1, <1>2, <1>3 DEF IInv, AbortInv

LEMMA BeginKeeps == ASSUME IInv, NEW t \in Threads, Begin(t) PROVE IInv'
    <1>0. TypeOK /\ TeamOf(t) /\ NodeOf(t) /\ PassOf(t) /\ Team' = Team
        BY DEF IInv, ValuesInv, TeamInv, Begin, Team
    <1>1. /\ pc[t] = "begin" /\ pc'[t] = "loop" /\ begun[t] = 0 /\ begun'[t] = 1
          /\ node'[t] = 0 /\ done'[t] = 0 /\ done[t] = 0 /\ ComputeFrame(t)
          /\ UNCHANGED <<n_graph, n_barrier, n_barrier_passed, n_threads_cur, plan, abort, ec, nth,
                         passed, done, last_graph, seen>>
        BY <1>0, Values DEF Begin, Go, TeamOf, NodeOf, ComputeFrame, bars, flags, polls, Computing
    <1>2. t \notin Held /\ t \notin Held' /\ t \notin Arrived /\ t \notin Arrived'
        BY <1>1 DEF Held, Arrived
    <1>3. TypeOK'
        <2>1. begun' = [begun EXCEPT ![t] = begun[t] + 1] /\ node' = [node EXCEPT ![t] = 0]
              /\ pc' = [pc EXCEPT ![t] = "loop"] /\ UNCHANGED <<flags, bars, polls>>
            BY DEF Begin, Go
        <2>2. begun' \in [Threads -> Nat] /\ node' \in [Threads -> Nat]
            BY <2>1, Values
        <2>3. pc' \in [Threads -> MainStates \cup PoolStates \cup Computing]
              /\ pc'[0] \in MainStates \cup Computing
              /\ \A w \in Workers : pc'[w] \in PoolStates \cup Computing
            BY <2>1, ThreadFacts, Values DEF Computing
        <2> QED BY <1>0, <1>1, <2>1, <2>2, <2>3 DEF TypeOK, flags, bars
    <1>4. BarrierCounts'
        BY <1>1, <1>2, CountKept
    <1>5. ~Setup /\ ~Setup'
        <2>1. CASE t = 0
            BY <1>1, <2>1 DEF Setup
        <2>2. CASE t # 0
            <3>1. WorkerOf(t)
                BY <2>2, ThreadFacts DEF IInv, WorkerInv
            <3>2. ~Setup
                BY <1>1, <3>1 DEF WorkerOf, AtRest, PoolStates, Computing
            <3> QED BY <1>1, <2>2, <3>2, ThreadFacts DEF Setup, ComputeFrame
        <2> QED BY <2>1, <2>2
    <1>6. TeamOf(t)' /\ NodeOf(t)' /\ PassOf(t)'
        BY <1>0, <1>1, Values DEF TeamOf, NodeOf, PassOf, Computing
    <1>7. Level(t)' = Level(t)
        BY <1>1, <1>2 DEF Level
    <1>8. t # 0 => WorkerOf(t)'
        <2>1. t # 0 => last_graph[t] = n_graph
            BY <1>1, <1>5, ThreadFacts DEF IInv, WorkerInv, WorkerOf
        <2> QED BY <1>1, <1>5, <2>1 DEF WorkerOf
    <1>9. AbortInv'
        BY <1>1, <1>2, AbortKept
    <1> QED BY <1>1, <1>2, <1>3, <1>4, <1>5, <1>6, <1>7, <1>8, <1>9, ComputeKeeps
            DEF IInv, ValuesInv, Computing

LEMMA LoopKeeps == ASSUME IInv, NEW t \in Threads, Loop(t) PROVE IInv'
    <1> DEFINE to == IF node[t] < plan.n_nodes /\ ~abort THEN "node"
                     ELSE IF t = 0 THEN "return" ELSE "top"
    <1>0. TypeOK /\ TeamOf(t) /\ NodeOf(t) /\ PassOf(t) /\ Team' = Team
        BY DEF IInv, ValuesInv, TeamInv, Loop, Team
    <1>1. /\ pc[t] = "loop" /\ pc'[t] = to /\ begun'[t] = begun[t] /\ pc' = [pc EXCEPT ![t] = to]
          /\ node'[t] = node[t] /\ done'[t] = done[t] /\ ComputeFrame(t)
          /\ UNCHANGED <<n_graph, n_barrier, n_barrier_passed, n_threads_cur, plan, flags, nth,
                         node, begun, passed, done, last_graph, seen>>
        BY <1>0, Values DEF Loop, Go, ComputeFrame, bars, flags, polls, locals, history
    <1>2. t \notin Held /\ t \notin Held' /\ t \notin Arrived /\ t \notin Arrived'
        BY <1>1 DEF Held, Arrived
    <1>3. TypeOK'
        <2>1. pc' \in [Threads -> MainStates \cup PoolStates \cup Computing]
              /\ pc'[0] \in MainStates \cup Computing
              /\ \A w \in Workers : pc'[w] \in PoolStates \cup Computing
            BY <1>1, ThreadFacts, Values DEF Computing, MainStates, PoolStates
        <2> QED BY <1>0, <1>1, <2>1 DEF TypeOK, flags
    <1>4. BarrierCounts'
        BY <1>1, <1>2, CountKept
    <1>5. /\ begun[t] = 1 => node[t] = done[t]
          /\ begun[t] = 0 => node[t] = plan.n_nodes /\ t # 0
          /\ begun[t] \in {0, 1} /\ node[t] \in Nat /\ plan.n_nodes \in Nat /\ node[t] <= plan.n_nodes
        BY <1>0, <1>1, Values DEF TeamOf, NodeOf
    <1>6. TeamOf(t)' /\ NodeOf(t)' /\ PassOf(t)'
        <2>1. TeamOf(t)'
            BY <1>0, <1>1 DEF TeamOf, Computing
        <2>2. NodeOf(t)'
            BY <1>1, <1>5 DEF NodeOf
        <2>3. PassOf(t)'
            BY <1>1 DEF PassOf
        <2> QED BY <2>1, <2>2, <2>3
    <1>7. Level(t)' = Level(t)
        BY <1>1, <1>2 DEF Level
    <1>8. ASSUME t # 0 PROVE WorkerOf(t)'
        <2>1. WorkerOf(t) /\ (Setup' <=> Setup)
            BY <1>1, <1>8, ThreadFacts DEF IInv, WorkerInv, Setup, ComputeFrame
        <2>2. CASE Setup
            <3>1. begun[t] = 0
                BY <2>2 DEF IInv, MainInv
            <3>2. last_graph[t] = n_graph
                BY <1>1, <2>1, <2>2 DEF WorkerOf, AtRest, PoolStates, Computing
            <3>3. pc'[t] = "top"
                BY <1>1, <1>5, <1>8, <3>1
            <3> QED BY <1>1, <2>1, <2>2, <3>2, <3>3 DEF WorkerOf, AtRest, Computing
        <2>3. CASE ~Setup
            BY <1>1, <1>5, <1>8, <2>1, <2>3 DEF WorkerOf
        <2> QED BY <2>2, <2>3
    <1>9. AbortInv'
        BY <1>1, <1>2, AbortKept DEF flags
    <1>10. ASSUME t = 0, pc'[0] = "return", ec' = "success" PROVE done'[0] = plan.n_nodes
        <2>1. ~abort
            BY <1>1, <1>10 DEF IInv, ValuesInv, flags
        <2> QED BY <1>1, <1>5, <1>10, <2>1
    <1>11. /\ pc'[t] \in Computing \cup {IF t = 0 THEN "return" ELSE "top"} /\ pc[t] \in Computing
           /\ pc[t] \notin {"last", "pass"} /\ pc'[t] \notin {"last", "pass"}
        BY <1>1 DEF Computing
    <1>12. (abort' <=> ec' = "aborted") /\ ec' = ec
        BY <1>1 DEF IInv, ValuesInv, flags
    <1> QED BY <1>1, <1>2, <1>3, <1>4, <1>6, <1>7, <1>8, <1>9, <1>10, <1>11, <1>12, ComputeKeeps

\* A thread at a node, or in the barrier behind it, has begun the graph that is being computed.
LEMMA AtNode ==
    ASSUME IInv, NEW t \in Threads, pc[t] \in {"node", "barrier", "read", "enter", "last", "pass"}
    PROVE  ~Setup /\ begun[t] = 1 /\ t \in Team /\ n_threads_cur = plan.n_threads
           /\ (t # 0 => last_graph[t] = n_graph) /\ TeamOf(t) /\ NodeOf(t) /\ PassOf(t)
    <1>1. TeamOf(t) /\ NodeOf(t) /\ PassOf(t)
        BY DEF IInv, TeamInv
    <1>2. begun[t] = 1 /\ t \in Team /\ n_threads_cur = plan.n_threads
        BY <1>1 DEF TeamOf, NodeOf, Computing
    <1>3. ~Setup
        BY <1>2 DEF IInv, MainInv
    <1> QED BY <1>1, <1>2, <1>3, ThreadFacts DEF IInv, WorkerInv, WorkerOf

LEMMA ForwardKeeps == ASSUME IInv, NEW t \in Threads, Forward(t) PROVE IInv'
    <1>0. TypeOK /\ Team' = Team
        BY DEF IInv, ValuesInv, Forward, Team
    <1>1. /\ pc[t] = "node" /\ pc'[t] = "barrier" /\ begun'[t] = begun[t]
          /\ pc' = [pc EXCEPT ![t] = "barrier"] /\ done' = [done EXCEPT ![t] = done[t] + 1]
          /\ node'[t] = node[t] /\ done'[t] = done[t] + 1 /\ ComputeFrame(t)
          /\ UNCHANGED <<n_graph, n_barrier, n_barrier_passed, n_threads_cur, plan, stop, pause, nth,
                         node, begun, passed, last_graph, seen>>
        BY <1>0, Values DEF Forward, Go, ComputeFrame, bars, flags, polls, locals
    <1>2. ~Setup /\ begun[t] = 1 /\ t \in Team /\ n_threads_cur = plan.n_threads
          /\ (t # 0 => last_graph[t] = n_graph) /\ TeamOf(t) /\ NodeOf(t) /\ PassOf(t)
        BY <1>1, AtNode
    <1>3. t \notin Held /\ t \notin Held' /\ t \notin Arrived /\ t \in Arrived'
        BY <1>1 DEF Held, Arrived
    <1>4. (abort' = abort /\ ec' = ec) \/ (t = 0 /\ abort' = TRUE /\ ec' = "aborted")
        BY DEF Forward, flags
    <1>5. TypeOK'
        <2>1. pc' \in [Threads -> MainStates \cup PoolStates \cup Computing]
              /\ pc'[0] \in MainStates \cup Computing
              /\ \A w \in Workers : pc'[w] \in PoolStates \cup Computing
            BY <1>1, ThreadFacts, Values DEF Computing, MainStates, PoolStates
        <2>2. done' \in [Threads -> Nat]
            BY <1>1, Values
        <2>3. abort' \in BOOLEAN /\ ec' \in {"success", "aborted"}
            BY <1>0, <1>4 DEF TypeOK
        <2> QED BY <1>0, <1>1, <2>1, <2>2, <2>3 DEF TypeOK
    <1>6. BarrierCounts'
        BY <1>1, <1>3, CountKept
    <1>7. done[t] = node[t] /\ node[t] < plan.n_nodes /\ done[t] \in Nat
        BY <1>1, <1>2, Values DEF NodeOf
    <1>8. TeamOf(t)' /\ NodeOf(t)' /\ PassOf(t)'
        <2>1. TeamOf(t)'
            BY <1>0, <1>1, <1>2 DEF TeamOf, Computing
        <2>2. NodeOf(t)'
            BY <1>1, <1>2, <1>7 DEF NodeOf
        <2>3. PassOf(t)'
            BY <1>1 DEF PassOf
        <2> QED BY <2>1, <2>2, <2>3
    <1>9. Level(t)' = Level(t)
        BY <1>1, <1>3, <1>7 DEF Level
    <1>10. ASSUME t # 0 PROVE WorkerOf(t)'
        <2>1. ~Setup'
            BY <1>1, <1>2, <1>10, ThreadFacts DEF Setup, ComputeFrame
        <2> QED BY <1>1, <1>2, <1>10, <2>1 DEF WorkerOf
    <1>11. AbortInv'
        <2>1. CASE t = 0
            BY <1>3, <2>1 DEF AbortInv
        <2>2. CASE t # 0
            <3>1. 0 \in Arrived' <=> 0 \in Arrived
                BY <1>1, <2>2, ThreadFacts DEF Arrived, ComputeFrame
            <3>2. ~(abort /\ 0 \notin Arrived)
                BY <1>1, <1>2 DEF IInv, AbortInv
            <3> QED BY <1>4, <2>2, <3>1, <3>2 DEF AbortInv
        <2> QED BY <2>1, <2>2
    <1>12. /\ pc'[t] \in Computing \cup {IF t = 0 THEN "return" ELSE "top"} /\ pc[t] \in Computing
           /\ pc'[t] \notin {"last", "pass"} /\ ~(t = 0 /\ pc'[0] = "return")
        BY <1>1 DEF Computing
    <1>13. (abort' <=> ec' = "aborted") /\ (t # 0 => ec' = ec)
        BY <1>4 DEF IInv, ValuesInv
    <1> QED BY <1>1, <1>2, <1>3, <1>5, <1>6, <1>8, <1>9, <1>10, <1>11, <1>12, <1>13, ComputeKeeps

LEMMA BarrierKeeps == ASSUME IInv, NEW t \in Threads, Barrier(t) PROVE IInv'
    <1> DEFINE alone == n_threads_cur = 1
    <1>0. TypeOK /\ Team' = Team
        BY DEF IInv, ValuesInv, Barrier, Team
    <1>1. /\ pc[t] = "barrier" /\ pc'[t] = (IF alone THEN "loop" ELSE "read")
          /\ pc' = [pc EXCEPT ![t] = IF alone THEN "loop" ELSE "read"]
          /\ node' = [node EXCEPT ![t] = IF alone THEN node[t] + 1 ELSE node[t]]
          /\ nth' = [nth EXCEPT ![t] = n_threads_cur]
          /\ node'[t] = (IF alone THEN node[t] + 1 ELSE node[t])
          /\ nth'[t] = n_threads_cur /\ passed' = passed
          /\ UNCHANGED <<n_graph, n_barrier, n_barrier_passed, n_threads_cur, plan, flags, done, begun,
                         last_graph, seen>>
        BY <1>0, Values DEF Barrier, Go, Onwards, bars, polls, history
    <1>a. ComputeFrame(t)
        BY <1>1, Values DEF ComputeFrame, flags
    <1>2. ~Setup /\ begun[t] = 1 /\ t \in Team /\ n_threads_cur = plan.n_threads
          /\ (t # 0 => last_graph[t] = n_graph) /\ TeamOf(t) /\ NodeOf(t) /\ PassOf(t)
        BY <1>1, AtNode
    <1>3. t \notin Held /\ t \notin Held' /\ t \in Arrived /\ (t \in Arrived' <=> ~alone)
        BY <1>1 DEF Held, Arrived
    <1>4. TypeOK'
        <2>1. pc' \in [Threads -> MainStates \cup PoolStates \cup Computing]
              /\ pc'[0] \in MainStates \cup Computing
              /\ \A w \in Workers : pc'[w] \in PoolStates \cup Computing
            BY <1>1, ThreadFacts, Values DEF Computing, MainStates, PoolStates
        <2>2. node' \in [Threads -> Nat] /\ nth' \in [Threads -> 0 .. NThreads]
            BY <1>1, Values
        <2> QED BY <1>0, <1>1, <2>1, <2>2 DEF TypeOK, flags
    <1>5. BarrierCounts'
        BY <1>1, <1>a, <1>3, CountKept
    <1>6. done[t] = node[t] + 1 /\ node[t] < plan.n_nodes /\ node[t] \in Nat /\ plan.n_nodes \in Nat
        BY <1>1, <1>2, Values DEF NodeOf
    <1>7. TeamOf(t)' /\ NodeOf(t)' /\ PassOf(t)'
        <2>1. TeamOf(t)'
            BY <1>0, <1>1, <1>2 DEF TeamOf, Computing
        <2>2. NodeOf(t)'
            BY <1>1, <1>2, <1>6 DEF NodeOf
        <2>3. PassOf(t)'
            BY <1>1 DEF PassOf
        <2> QED BY <2>1, <2>2, <2>3
    <1>8. plan.n_threads = 1 \/ Level(t)' = Level(t)
        BY <1>1, <1>2, <1>3 DEF Level
    <1>9. ASSUME t # 0 PROVE WorkerOf(t)'
        <2>1. ~Setup'
            BY <1>1, <1>2, <1>9, ThreadFacts DEF Setup
        <2> QED BY <1>1, <1>2, <1>9, <2>1 DEF WorkerOf
    <1>10. AbortInv'
        <2>1. CASE alone
            <3>1. Team = {0} /\ t = 0
                BY <1>2, <2>1 DEF Team
            <3> QED BY <1>0, <1>1, <1>3, <2>1, <3>1 DEF AbortInv
        <2>2. CASE ~alone
            BY <1>1, <1>a, <1>3, <2>2, AbortKept DEF flags
        <2> QED BY <2>1, <2>2
    <1>11. /\ pc'[t] \in Computing \cup {IF t = 0 THEN "return" ELSE "top"} /\ pc[t] \in Computing
           /\ pc'[t] \notin {"last", "pass"} /\ ~(t = 0 /\ pc'[0] = "return")
        BY <1>1 DEF Computing
    <1>12. (abort' <=> ec' = "aborted") /\ ec' = ec
        BY <1>1 DEF IInv, ValuesInv, flags
    <1> HIDE DEF alone
    <1> QED BY <1>1, <1>a, <1>2, <1>3, <1>4, <1>5, <1>7, <1>8, <1>9, <1>10, <1>11, <1>12, ComputeKeeps

LEMMA ReadPassedKeeps == ASSUME IInv, NEW t \in Threads, ReadPassed(t) PROVE IInv'
    <1>0. TypeOK /\ Team' = Team
        BY DEF IInv, ValuesInv, ReadPassed, Team
    <1>1. /\ pc[t] = "read" /\ pc'[t] = "enter" /\ pc' = [pc EXCEPT ![t] = "enter"]
          /\ passed' = [passed EXCEPT ![t] = n_barrier_passed] /\ passed'[t] = n_barrier_passed
          /\ UNCHANGED <<n_graph, n_barrier, n_barrier_passed, n_threads_cur, plan, flags, done, begun,
                         node, nth, last_graph, seen>>
        BY <1>0, Values DEF ReadPassed, Go, bars, polls, history
    <1>a. ComputeFrame(t)
        BY <1>1, Values DEF ComputeFrame, flags
    <1>2. ~Setup /\ begun[t] = 1 /\ t \in Team /\ n_threads_cur = plan.n_threads
          /\ (t # 0 => last_graph[t] = n_graph) /\ TeamOf(t) /\ NodeOf(t) /\ PassOf(t)
        BY <1>1, AtNode
    <1>3. t \notin Held /\ t \notin Held' /\ t \in Arrived /\ t \in Arrived'
        BY <1>1 DEF Held, Arrived
    <1>4. TypeOK'
        <2>1. pc' \in [Threads -> MainStates \cup PoolStates \cup Computing]
              /\ pc'[0] \in MainStates \cup Computing
              /\ \A w \in Workers : pc'[w] \in PoolStates \cup Computing
            BY <1>1, ThreadFacts, Values DEF Computing, MainStates, PoolStates
        <2>2. passed' \in [Threads -> Nat]
            BY <1>1, Values
        <2> QED BY <1>0, <1>1, <2>1, <2>2 DEF TypeOK, flags
    <1>5. BarrierCounts'
        BY <1>1, <1>a, <1>3, CountKept
    <1>6. TeamOf(t)' /\ NodeOf(t)' /\ PassOf(t)'
        <2>1. TeamOf(t)'
            BY <1>0, <1>1, <1>2 DEF TeamOf, Computing
        <2>2. NodeOf(t)'
            BY <1>1, <1>2 DEF NodeOf
        <2>3. PassOf(t)'
            BY <1>1, <1>2 DEF PassOf
        <2> QED BY <2>1, <2>2, <2>3
    <1>7. Level(t)' = Level(t)
        BY <1>1, <1>3 DEF Level
    <1>8. ASSUME t # 0 PROVE WorkerOf(t)'
        <2>1. ~Setup'
            BY <1>1, <1>2, <1>8, ThreadFacts DEF Setup
        <2> QED BY <1>1, <1>2, <1>8, <2>1 DEF WorkerOf
    <1>9. AbortInv'
        BY <1>1, <1>a, <1>3, AbortKept DEF flags
    <1>10. /\ pc'[t] \in Computing \cup {IF t = 0 THEN "return" ELSE "top"} /\ pc[t] \in Computing
           /\ pc'[t] \notin {"last", "pass"} /\ ~(t = 0 /\ pc'[0] = "return")
        BY <1>1 DEF Computing
    <1>11. (abort' <=> ec' = "aborted") /\ ec' = ec
        BY <1>1 DEF IInv, ValuesInv, flags
    <1> QED BY <1>1, <1>a, <1>2, <1>3, <1>4, <1>5, <1>6, <1>7, <1>8, <1>9, <1>10, <1>11, ComputeKeeps

\* The last thread of the team finds all others held; any other one is held itself.
LEMMA EnterKeeps == ASSUME IInv, NEW t \in Threads, Enter(t) PROVE IInv'
    <1> DEFINE last == n_barrier = nth[t] - 1
    <1>0. TypeOK /\ Team' = Team
        BY DEF IInv, ValuesInv, Enter, Team
    <1>1. /\ pc[t] = "enter" /\ pc'[t] = (IF last THEN "last" ELSE "spin")
          /\ pc' = [pc EXCEPT ![t] = IF last THEN "last" ELSE "spin"]
          /\ n_barrier' = n_barrier + 1
          /\ UNCHANGED <<n_graph, n_barrier_passed, n_threads_cur, plan, flags, done, begun,
                         node, nth, passed, last_graph, seen>>
        BY <1>0, Values DEF Enter, Go, polls, history, locals
    <1>a. ComputeFrame(t)
        BY <1>1, Values DEF ComputeFrame, flags
    <1>2. ~Setup /\ begun[t] = 1 /\ t \in Team /\ n_threads_cur = plan.n_threads
          /\ (t # 0 => last_graph[t] = n_graph) /\ TeamOf(t) /\ NodeOf(t) /\ PassOf(t)
        BY <1>1, AtNode
    <1>3. /\ passed[t] = n_barrier_passed /\ nth[t] = plan.n_threads
          /\ t \notin Held /\ t \in Arrived /\ t \in Arrived' /\ (t \in Held' <=> ~last)
        BY <1>1, <1>2 DEF Held, Arrived, PassOf
    <1>4. \A u \in Threads : pc[u] \notin {"last", "pass"}
        BY <1>1, <1>2, <1>3 DEF IInv, LastInv
    <1>5. n_barrier = Cardinality(Held) /\ Held \subseteq Team \ {t}
        <2>1. {u \in Threads : pc[u] = "last"} = {} /\ Held \cup {} = Held
            BY <1>4
        <2> QED BY <1>3, <1>4, <2>1, HeldInTeam DEF IInv, BarrierCounts
    <1>6. IsFiniteSet(Team \ {t}) /\ Cardinality(Team \ {t}) = plan.n_threads - 1
        <2>1. IsFiniteSet(Team) /\ Cardinality(Team) = plan.n_threads
            <3>1. plan.n_threads \in Nat \ {0}
                BY Values
            <3> QED BY <3>1, IntervalSize DEF Team
        <2> QED BY <1>2, <2>1, FS_RemoveElement, ZenonT(60)
    <1>7. n_barrier <= plan.n_threads - 1
        BY <1>5, <1>6, FS_Subset
    <1>8. last => \A u \in Team : u # t => u \in Held
        <2>1. last => Held = Team \ {t}
            BY <1>3, <1>5, <1>6, FS_Subset
        <2> QED BY <2>1
    <1>9. TypeOK'
        <2>1. pc' \in [Threads -> MainStates \cup PoolStates \cup Computing]
              /\ pc'[0] \in MainStates \cup Computing
              /\ \A w \in Workers : pc'[w] \in PoolStates \cup Computing
            BY <1>1, ThreadFacts, Values DEF Computing, MainStates, PoolStates
        <2>2. n_barrier' \in 0 .. NThreads
            BY <1>1, <1>7, Values
        <2> QED BY <1>0, <1>1, <2>1, <2>2 DEF TypeOK, flags
    <1>10. BarrierCounts'
        <2>1. \A u \in Threads : pc'[u] # "pass"
            BY <1>1, <1>4, <1>a DEF ComputeFrame
        <2>2. Held' \cup {u \in Threads : pc'[u] = "last"} = Held \cup {t}
            BY <1>1, <1>3, <1>4, <1>a DEF ComputeFrame, Held
        <2>3. Cardinality(Held \cup {t}) = Cardinality(Held) + 1
            BY <1>3, HeldFinite, FS_AddElement
        <2> QED BY <1>1, <1>5, <2>1, <2>2, <2>3 DEF BarrierCounts
    <1>11. done[t] = node[t] + 1 /\ node[t] < plan.n_nodes
        BY <1>1, <1>2 DEF NodeOf
    <1>12. TeamOf(t)' /\ NodeOf(t)' /\ PassOf(t)'
        <2>1. TeamOf(t)'
            BY <1>0, <1>1, <1>2 DEF TeamOf, Computing
        <2>2. NodeOf(t)'
            BY <1>1, <1>2, <1>11 DEF NodeOf
        <2>3. PassOf(t)'
            BY <1>1, <1>2, <1>3, Values DEF PassOf
        <2> QED BY <2>1, <2>2, <2>3
    <1>13. Level(t)' = Level(t)
        BY <1>1, <1>3 DEF Level
    <1>14. ASSUME t # 0 PROVE WorkerOf(t)'
        <2>1. ~Setup'
            BY <1>1, <1>2, <1>14, ThreadFacts DEF Setup
        <2> QED BY <1>1, <1>2, <1>14, <2>1 DEF WorkerOf
    <1>15. AbortInv'
        BY <1>1, <1>a, <1>3, AbortKept DEF flags
    <1>16. /\ pc'[t] \in Computing \cup {IF t = 0 THEN "return" ELSE "top"} /\ pc[t] \in Computing
           /\ ~(t = 0 /\ pc'[0] = "return") /\ (pc'[t] \in {"last", "pass"} => last)
        BY <1>1 DEF Computing
    <1>17. (abort' <=> ec' = "aborted") /\ ec' = ec
        BY <1>1 DEF IInv, ValuesInv, flags
    <1> HIDE DEF last
    <1> QED BY <1>1, <1>a, <1>2, <1>3, <1>8, <1>9, <1>10, <1>12, <1>13, <1>14, <1>15, <1>16, <1>17,
               ComputeKeeps

LEMMA LastResetsKeeps == ASSUME IInv, NEW t \in Threads, LastResets(t) PROVE IInv'
    <1>0. TypeOK /\ Team' = Team
        BY DEF IInv, ValuesInv, LastResets, Team
    <1>1. /\ pc[t] = "last" /\ pc'[t] = "pass" /\ pc' = [pc EXCEPT ![t] = "pass"] /\ n_barrier' = 0
          /\ UNCHANGED <<n_graph, n_barrier_passed, n_threads_cur, plan, flags, done, begun,
                         node, nth, passed, last_graph, seen>>
        BY <1>0, Values DEF LastResets, Go, polls, history, locals
    <1>a. ComputeFrame(t)
        BY <1>1, Values DEF ComputeFrame, flags
    <1>2. ~Setup /\ begun[t] = 1 /\ t \in Team /\ n_threads_cur = plan.n_threads
          /\ (t # 0 => last_graph[t] = n_graph) /\ TeamOf(t) /\ NodeOf(t) /\ PassOf(t)
        BY <1>1, AtNode
    <1>3. t \notin Held /\ t \in Arrived /\ t \in Arrived'
        BY <1>1 DEF Held, Arrived
    <1>4. \A u \in Team : u # t => u \in Held
        BY <1>1 DEF IInv, LastInv
    <1>5. TypeOK'
        <2>1. pc' \in [Threads -> MainStates \cup PoolStates \cup Computing]
              /\ pc'[0] \in MainStates \cup Computing
              /\ \A w \in Workers : pc'[w] \in PoolStates \cup Computing
            BY <1>1, ThreadFacts, Values DEF Computing, MainStates, PoolStates
        <2> QED BY <1>0, <1>1, <2>1 DEF TypeOK, flags
    <1>6. BarrierCounts'
        BY <1>1 DEF BarrierCounts
    <1>7. TeamOf(t)' /\ NodeOf(t)' /\ PassOf(t)'
        BY <1>0, <1>1, <1>2 DEF TeamOf, NodeOf, PassOf, Computing
    <1>8. Level(t)' = Level(t)
        BY <1>1, <1>3 DEF Level
    <1>9. ASSUME t # 0 PROVE WorkerOf(t)'
        <2>1. ~Setup'
            BY <1>1, <1>2, <1>9, ThreadFacts DEF Setup
        <2> QED BY <1>1, <1>2, <1>9, <2>1 DEF WorkerOf
    <1>10. AbortInv'
        BY <1>1, <1>a, <1>3, AbortKept DEF flags
    <1>11. /\ pc'[t] \in Computing \cup {IF t = 0 THEN "return" ELSE "top"} /\ pc[t] \in Computing
           /\ ~(t = 0 /\ pc'[0] = "return")
        BY <1>1 DEF Computing
    <1>12. (abort' <=> ec' = "aborted") /\ ec' = ec
        BY <1>1 DEF IInv, ValuesInv, flags
    <1> QED BY <1>1, <1>a, <1>2, <1>3, <1>4, <1>5, <1>6, <1>7, <1>8, <1>9, <1>10, <1>11, <1>12,
               ComputeKeeps

LEMMA SpinKeeps == ASSUME IInv, NEW t \in Threads, Spin(t) PROVE IInv'
    <1>0. TypeOK /\ TeamOf(t) /\ NodeOf(t) /\ PassOf(t) /\ Team' = Team
        BY DEF IInv, ValuesInv, TeamInv, Spin, Team
    <1>1. /\ pc[t] = "spin" /\ pc'[t] = "loop" /\ pc' = [pc EXCEPT ![t] = "loop"]
          /\ node' = [node EXCEPT ![t] = node[t] + 1] /\ node'[t] = node[t] + 1
          /\ n_barrier_passed # passed[t]
          /\ UNCHANGED <<n_graph, n_barrier, n_barrier_passed, n_threads_cur, plan, flags, done, begun,
                         nth, passed, last_graph, seen>>
        BY <1>0, Values DEF Spin, Onwards, Go, polls, history, bars
    <1>a. ComputeFrame(t)
        BY <1>1, Values DEF ComputeFrame, flags
    <1>2. t \notin Held /\ t \notin Held' /\ t \notin Arrived /\ t \notin Arrived'
        BY <1>1 DEF Held, Arrived
    <1>3. TypeOK'
        <2>1. pc' \in [Threads -> MainStates \cup PoolStates \cup Computing]
              /\ pc'[0] \in MainStates \cup Computing
              /\ \A w \in Workers : pc'[w] \in PoolStates \cup Computing
            BY <1>1, ThreadFacts, Values DEF Computing, MainStates, PoolStates
        <2>2. node' \in [Threads -> Nat]
            BY <1>1, Values
        <2> QED BY <1>0, <1>1, <2>1, <2>2 DEF TypeOK, flags
    <1>4. BarrierCounts'
        BY <1>1, <1>a, <1>2, CountKept
    <1>5. /\ node[t] < plan.n_nodes /\ node[t] \in Nat /\ plan.n_nodes \in Nat /\ begun[t] \in {0, 1}
          /\ begun[t] = 1 => done[t] = node[t] + 1
          /\ begun[t] = 0 => node[t] + 1 = plan.n_nodes /\ t # 0 /\ plan.n_nodes > 0
        BY <1>0, <1>1, Values DEF TeamOf, NodeOf
    <1>6. TeamOf(t)' /\ NodeOf(t)' /\ PassOf(t)'
        <2>1. TeamOf(t)'
            BY <1>0, <1>1 DEF TeamOf, Computing
        <2>2. NodeOf(t)'
            BY <1>1, <1>5 DEF NodeOf
        <2>3. PassOf(t)'
            BY <1>1 DEF PassOf
        <2> QED BY <2>1, <2>2, <2>3
    <1>7. Level(t)' = Level(t)
        BY <1>1, <1>2 DEF Level
    <1>8. ASSUME t # 0 PROVE WorkerOf(t)'
        <2>1. WorkerOf(t) /\ (Setup' <=> Setup)
            BY <1>1, <1>8, ThreadFacts DEF IInv, WorkerInv, Setup
        <2>2. CASE Setup
            BY <1>0, <1>1, <2>1, <2>2 DEF WorkerOf, AtRest, PoolStates, Computing
        <2>3. CASE ~Setup
            BY <1>1, <1>8, <2>1, <2>3 DEF WorkerOf
        <2> QED BY <2>2, <2>3
    <1>9. AbortInv'
        BY <1>1, <1>a, <1>2, AbortKept DEF flags
    <1>10. /\ pc'[t] \in Computing \cup {IF t = 0 THEN "return" ELSE "top"} /\ pc[t] \in Computing
           /\ pc'[t] \notin {"last", "pass"} /\ ~(t = 0 /\ pc'[0] = "return")
        BY <1>1 DEF Computing
    <1>11. (abort' <=> ec' = "aborted") /\ ec' = ec
        BY <1>1 DEF IInv, ValuesInv, flags
    <1> QED BY <1>1, <1>a, <1>2, <1>3, <1>4, <1>6, <1>7, <1>8, <1>9, <1>10, <1>11, ComputeKeeps

\* The last thread lets all others through at once: whoever was held is not any more.
LEMMA LastPassesKeeps == ASSUME IInv, NEW t \in Threads, LastPasses(t) PROVE IInv'
    <1>0. TypeOK /\ Team' = Team
        BY DEF IInv, ValuesInv, LastPasses, Team
    <1>1. /\ pc[t] = "pass" /\ pc'[t] = "loop" /\ pc' = [pc EXCEPT ![t] = "loop"]
          /\ node' = [node EXCEPT ![t] = node[t] + 1] /\ node'[t] = node[t] + 1
          /\ n_barrier_passed' = n_barrier_passed + 1
          /\ UNCHANGED <<n_graph, n_barrier, n_threads_cur, plan, flags, done, begun,
                         nth, passed, last_graph, seen>>
        BY <1>0, Values DEF LastPasses, Onwards, Go, polls, history
    <1>a. ComputeFrame(t)
        BY <1>1, Values DEF ComputeFrame, flags
    <1>2. ~Setup /\ begun[t] = 1 /\ t \in Team /\ n_threads_cur = plan.n_threads
          /\ (t # 0 => last_graph[t] = n_graph) /\ TeamOf(t) /\ NodeOf(t) /\ PassOf(t)
        BY <1>1, AtNode
    <1>3. \A u \in Team \ {t} : u \in Held /\ pc[u] = "spin" /\ passed[u] = n_barrier_passed
        BY <1>1, LastAlone DEF Held
    <1>4. Team \subseteq Threads /\ \A u \in Threads \ Team : pc[u] \notin Computing
        BY Values DEF IInv, TeamInv, TeamOf
    <1>5. \A u \in Threads : u \notin Arrived' /\ u \notin Held' /\ pc'[u] \notin {"last", "pass", "node"}
        <2>1. ASSUME NEW u \in Threads
              PROVE  /\ u \notin Arrived' /\ u \notin Held'
                     /\ pc'[u] \notin {"last", "pass", "node"}
            <3>1. CASE u = t
                BY <1>1, <3>1 DEF Arrived, Held
            <3>2. CASE u \in Team \ {t}
                <4>1. pc'[u] = "spin" /\ passed'[u] # n_barrier_passed'
                    BY <1>1, <1>3, <3>2, Values
                <4> QED BY <4>1 DEF Arrived, Held
            <3>3. CASE u \notin Team
                <4>1. pc'[u] = pc[u] /\ pc[u] \notin Computing
                    BY <1>a, <1>2, <1>4, <3>3 DEF ComputeFrame
                <4> QED BY <4>1 DEF Arrived, Held, Computing
            <3> QED BY <3>1, <3>2, <3>3
        <2> QED BY <2>1
    <1>6. \A u \in Team : u \in Arrived
        BY <1>1, <1>3, <1>4 DEF Arrived
    <1>7. TypeOK'
        <2>1. pc' \in [Threads -> MainStates \cup PoolStates \cup Computing]
              /\ pc'[0] \in MainStates \cup Computing
              /\ \A w \in Workers : pc'[w] \in PoolStates \cup Computing
            BY <1>1, ThreadFacts, Values DEF Computing, MainStates, PoolStates
        <2>2. node' \in [Threads -> Nat] /\ n_barrier_passed' \in Nat
            BY <1>1, Values
        <2> QED BY <1>0, <1>1, <2>1, <2>2 DEF TypeOK, flags
    <1>8. Setup' <=> Setup
        BY <1>1, Values DEF Setup
    <1>9. ValuesInv'
        <2>1. pc'[0] # "kick"
            BY <1>1, <1>2, <1>8 DEF Setup
        <2> QED BY <1>1, <1>2, <1>7, <2>1 DEF IInv, ValuesInv, flags
    <1>10. TeamInv'
        <2>1. done[t] = node[t] + 1 /\ node[t] < plan.n_nodes /\ node[t] \in Nat /\ plan.n_nodes \in Nat
            BY <1>1, <1>2, Values DEF NodeOf
        <2>2. TeamOf(t)' /\ NodeOf(t)' /\ PassOf(t)'
            <3>1. TeamOf(t)'
                BY <1>0, <1>1, <1>2 DEF TeamOf, Computing
            <3>2. NodeOf(t)'
                BY <1>1, <1>2, <2>1 DEF NodeOf
            <3>3. PassOf(t)'
                BY <1>1 DEF PassOf
            <3> QED BY <3>1, <3>2, <3>3
        <2>3. ASSUME NEW u \in Threads, u # t PROVE TeamOf(u)' /\ NodeOf(u)' /\ PassOf(u)'
            <3>1. TeamOf(u) /\ NodeOf(u) /\ PassOf(u)
                BY DEF IInv, TeamInv
            <3>2. UNCHANGED <<plan, n_threads_cur>> /\ pc'[u] = pc[u] /\ node'[u] = node[u]
                  /\ nth'[u] = nth[u] /\ passed'[u] = passed[u] /\ done'[u] = done[u]
                  /\ begun'[u] = begun[u]
                BY <1>a, <2>3 DEF ComputeFrame
            <3>3. pc[u] \in Computing => pc[u] = "spin"
                BY <1>3, <1>4, <2>3
            <3>4. passed[u] \in Nat /\ n_barrier_passed \in Nat
                BY Values
            <3>5. TeamOf(u)'
                BY <1>0, <3>1, <3>2 DEF TeamOf
            <3>6. NodeOf(u)'
                BY <1>1, <3>1, <3>2, <3>4 DEF NodeOf
            <3>7. PassOf(u)'
                BY <1>1, <3>1, <3>2, <3>3, <3>4 DEF PassOf, Computing
            <3> QED BY <3>5, <3>6, <3>7
        <2> QED BY <2>2, <2>3 DEF TeamInv
    <1>11. LastInv'
        BY <1>5 DEF LastInv
    <1>12. BarrierCounts'
        <2>1. n_barrier = 0
            BY <1>1 DEF IInv, BarrierCounts
        <2>2. Held' = {} /\ {u \in Threads : pc'[u] = "last"} = {} /\ {} \cup {} = {}
            BY <1>5 DEF Held
        <2>3. Cardinality({}) = 0
            BY FS_EmptySet
        <2> QED BY <1>1, <2>1, <2>2, <2>3 DEF BarrierCounts
    <1>13. LevelInv'
        <2>1. ASSUME NEW u \in Team PROVE Level(u)' = done[u] /\ Level(u) = done[u] - 1 /\ done[u] \in Nat
            BY <1>1, <1>4, <1>5, <1>6, Values DEF Level
        <2>2. ASSUME NEW u \in Team PROVE Level(u)' = Level(0)'
            <3>1. Level(u) = Level(0) /\ 0 \in Team
                BY Values DEF IInv, LevelInv
            <3> QED BY <2>1, <3>1
        <2> QED BY <1>0, <2>2 DEF LevelInv
    <1>14. WorkerInv'
        <2>1. ASSUME NEW w \in Workers PROVE WorkerOf(w)'
            <3>1. WorkerOf(w) /\ w \in Threads
                BY ThreadFacts DEF IInv, WorkerInv
            <3>2. CASE w = t
                BY <1>1, <1>2, <1>8, <3>2, ThreadFacts DEF WorkerOf
            <3>3. CASE w # t
                BY <1>0, <1>1, <1>a, <1>2, <1>8, <3>1, <3>3 DEF WorkerOf, ComputeFrame
            <3> QED BY <3>2, <3>3
        <2> QED BY <2>1 DEF WorkerInv
    <1>15. MainInv'
        <2>1. pc'[0] \notin {"return", "idle", "joining", "freed"}
            <3>1. CASE t = 0
                BY <1>1, <3>1
            <3>2. CASE t # 0
                BY <1>1, <1>3, <3>2, Values
            <3> QED BY <3>1, <3>2
        <2> QED BY <1>2, <1>8, <2>1 DEF MainInv
    <1>16. AbortInv'
        BY <1>0, <1>4, <1>5 DEF AbortInv
    <1> QED BY <1>9, <1>10, <1>11, <1>12, <1>13, <1>14, <1>15, <1>16 DEF IInv

LEMMA ComputeStep == ASSUME IInv, NEW t \in Threads, Compute(t) PROVE IInv'
    BY BeginKeeps, LoopKeeps, ForwardKeeps, BarrierKeeps, ReadPassedKeeps, EnterKeeps, LastResetsKeeps,
       LastPassesKeeps, SpinKeeps DEF Compute

-----------------------------------------------------------------------------
(* A step of a worker between graphs.                                      *)

PoolFrame(w) ==
    /\ UNCHANGED <<n_graph, n_barrier, n_barrier_passed, n_threads_cur, stop, pause, abort, ec, plan,
                   node, nth, passed, done, begun>>
    /\ \A u \in Threads \ {w} : pc'[u] = pc[u]
    /\ \A u \in Workers \ {w} : last_graph'[u] = last_graph[u] /\ seen'[u] = seen[u]

LEMMA PoolKeeps ==
    ASSUME IInv, NEW w \in Workers, PoolFrame(w), TypeOK',
           pc[w] \in PoolStates, pc'[w] \in PoolStates \cup {"begin"},
           last_graph'[w] <= n_graph, seen'[w] <= n_graph,
           pc'[w] = "begin" => w \in Team /\ n_threads_cur = plan.n_threads /\ begun[w] = 0,
           WorkerOf(w)'
    PROVE  IInv'
    <1>1. w \in Threads /\ w # 0 /\ pc'[0] = pc[0] /\ Team' = Team /\ (Setup' <=> Setup)
        BY ThreadFacts DEF PoolFrame, Team, Setup
    <1>2. \A u \in Threads : \A p \in Computing \ {"begin"} : pc'[u] = p <=> pc[u] = p
        BY DEF PoolFrame, PoolStates, Computing
    <1>3. Held' = Held /\ Arrived' = Arrived
        BY <1>2 DEF PoolFrame, Held, Arrived, Computing
    <1>4. ValuesInv'
        BY <1>1 DEF IInv, ValuesInv, PoolFrame
    <1>5. TeamInv'
        <2>1. ASSUME NEW u \in Threads PROVE TeamOf(u)' /\ NodeOf(u)' /\ PassOf(u)'
            <3>1. TeamOf(u) /\ NodeOf(u) /\ PassOf(u)
                BY DEF IInv, TeamInv
            <3>2. UNCHANGED <<plan, n_threads_cur, n_barrier_passed, node, nth, passed, done, begun>>
                BY DEF PoolFrame
            <3>3. CASE u = w
                <4>1. TeamOf(u)'
                    BY <1>1, <3>1, <3>2, <3>3 DEF TeamOf, PoolStates, Computing
                <4>2. NodeOf(u)' /\ PassOf(u)'
                    BY <3>2, <3>3 DEF NodeOf, PassOf, PoolStates
                <4> QED BY <4>1, <4>2
            <3>4. CASE u # w
                <4>1. pc'[u] = pc[u]
                    BY <3>4 DEF PoolFrame
                <4> QED BY <1>1, <3>1, <3>2, <4>1 DEF TeamOf, NodeOf, PassOf
            <3> QED BY <3>3, <3>4
        <2> QED BY <2>1 DEF TeamInv
    <1>6. LastInv'
        BY <1>1, <1>2, <1>3 DEF IInv, LastInv, Computing
    <1>7. BarrierCounts'
        <2>1. {u \in Threads : pc'[u] = "last"} = {u \in Threads : pc[u] = "last"}
            BY <1>2 DEF Computing
        <2>2. \A u \in Threads : pc'[u] = "pass" <=> pc[u] = "pass"
            BY <1>2 DEF Computing
        <2> QED BY <1>3, <2>1, <2>2 DEF IInv, BarrierCounts, PoolFrame
    <1>8. LevelInv'
        BY <1>1, <1>3 DEF IInv, LevelInv, Level, PoolFrame
    <1>9. WorkerInv'
        <2>1. ASSUME NEW u \in Workers, u # w PROVE WorkerOf(u)'
            <3>1. WorkerOf(u) /\ u \in Threads
                BY ThreadFacts DEF IInv, WorkerInv
            <3>2. pc'[u] = pc[u] /\ last_graph'[u] = last_graph[u] /\ seen'[u] = seen[u]
                  /\ UNCHANGED <<n_graph, n_threads_cur, plan, pause, begun>>
                BY <2>1, <3>1 DEF PoolFrame
            <3> QED BY <1>1, <3>1, <3>2 DEF WorkerOf, AtRest
        <2> QED BY <2>1 DEF WorkerInv
    <1>10. MainInv'
        BY <1>1 DEF IInv, MainInv, PoolFrame
    <1>11. AbortInv'
        <2>1. Team \subseteq Threads
            BY Values
        <2> QED BY <1>1, <1>2, <1>3, <2>1 DEF IInv, AbortInv, PoolFrame, Computing
    <1> QED BY <1>4, <1>5, <1>6, <1>7, <1>8, <1>9, <1>10, <1>11 DEF IInv

\* What a step between graphs has to show of the types: it only moves w.
LEMMA PoolTypes ==
    ASSUME IInv, NEW w \in Workers, PoolFrame(w), NEW p \in PoolStates \cup {"begin"},
           pc' = [pc EXCEPT ![w] = p],
           \/ last_graph' = last_graph
           \/ \E g \in 0 .. Graphs : last_graph' = [last_graph EXCEPT ![w] = g],
           seen' = seen \/ seen' = [seen EXCEPT ![w] = n_graph]
    PROVE  TypeOK'
    <1>0. TypeOK
        BY DEF IInv, ValuesInv
    <1>1. pc' \in [Threads -> MainStates \cup PoolStates \cup Computing]
          /\ pc'[0] \in MainStates \cup Computing
          /\ \A u \in Workers : pc'[u] \in PoolStates \cup Computing
        <2>1. p \in PoolStates \cup Computing
            BY DEF Computing
        <2> QED BY <2>1, ThreadFacts, Values
    <1>2. last_graph' \in [Workers -> 0 .. Graphs]
        BY <1>0 DEF TypeOK
    <1>3. seen' \in [Workers -> 0 .. Graphs]
        BY <1>0 DEF TypeOK
    <1> QED BY <1>0, <1>1, <1>2, <1>3 DEF TypeOK, PoolFrame

\* Facts about a worker between graphs.
LEMMA PoolFacts ==
    ASSUME IInv, NEW w \in Workers, pc[w] \in PoolStates
    PROVE  /\ w \in Threads /\ w \in Nat /\ n_graph \in 0 .. Graphs /\ n_threads_cur \in Nat
           /\ last_graph[w] \in 0 .. Graphs /\ seen[w] \in 0 .. Graphs
           /\ last_graph[w] <= n_graph /\ seen[w] <= n_graph
           /\ begun[w] \in {0, 1} /\ WorkerOf(w)
           /\ (pc[0] # "kick" => n_threads_cur = plan.n_threads)
           /\ (w < plan.n_threads <=> w \in Team) /\ (w \notin Team => begun[w] = 0)
           /\ (Setup => begun[w] = 0)
    <1>1. w \in Threads /\ w \in Nat
        BY ThreadFacts
    <1>2. TypeOK
        BY DEF IInv, ValuesInv
    <1>3. n_graph \in 0 .. Graphs /\ last_graph[w] \in 0 .. Graphs /\ seen[w] \in 0 .. Graphs
        BY <1>2 DEF TypeOK
    <1>4. last_graph[w] <= n_graph /\ seen[w] <= n_graph /\ WorkerOf(w)
          /\ (pc[0] # "kick" => n_threads_cur = plan.n_threads)
        BY DEF IInv, ValuesInv, WorkerInv
    <1>5. begun[w] \in {0, 1} /\ (w \notin Team => begun[w] = 0) /\ (Setup => begun[w] = 0)
        BY <1>1 DEF IInv, TeamInv, TeamOf, MainInv
    <1>6. (w < plan.n_threads <=> w \in Team) /\ n_threads_cur \in Nat
        BY <1>1, Values DEF Team
    <1> QED BY <1>1, <1>3, <1>4, <1>5, <1>6

LEMMA PoolStep ==
    ASSUME IInv, NEW w \in Workers,
           Top(w) \/ PauseWait(w) \/ Poll(w) \/ Look(w) \/ LookActive(w) \/ Sleep(w) \/ Spurious(w)
    PROVE  IInv'
    <1>1. pc[w] \in PoolStates
        BY DEF Top, PauseWait, Poll, Look, LookActive, Sleep, Spurious, Asleep, PoolStates
    <1>2. TypeOK /\ w \in Threads /\ 0 \in Threads /\ w # 0
        BY ThreadFacts DEF IInv, ValuesInv
    <1>3. Setup' <=> Setup
        <2>1. pc'[0] = pc[0]
            BY <1>2, Values DEF Top, PauseWait, Poll, Look, LookActive, Sleep, Spurious, Go
        <2> QED BY <2>1 DEF Setup
    <1>4. Team' = Team
        BY DEF Top, PauseWait, Poll, Look, LookActive, Sleep, Spurious, Team
    <1>5. CASE Top(w) \/ PauseWait(w) \/ Poll(w) \/ Spurious(w)
        <2>1. PICK p \in PoolStates \ {"active"} : pc' = [pc EXCEPT ![w] = p]
            BY <1>5 DEF Top, PauseWait, Poll, Spurious, Go, Asleep, Woken, PoolStates
        <2>2. pc'[w] = p /\ UNCHANGED <<last_graph, seen, n_graph, n_threads_cur, plan, pause, begun>>
            BY <1>2, <1>5, <2>1, Values DEF Top, PauseWait, Poll, Spurious, polls, flags, history
        <2>3. PoolFrame(w)
            BY <1>5, <2>1, <2>2, Values
               DEF Top, PauseWait, Poll, Spurious, PoolFrame, bars, flags, locals, history
        <2>4. TypeOK'
            BY <2>1, <2>2, <2>3, PoolTypes
        <2>5. pc[w] \in {"top", "lock", "paused"} /\ pause => p \in {"top", "lock", "paused"}
            BY <1>2, <1>5, <2>2, Values DEF Top, PauseWait, Poll, Spurious, Asleep, Woken, Go
        <2>6. WorkerOf(w)'
            <3>1. WorkerOf(w) /\ p # "begin" /\ p # "loop" /\ p # "spin" /\ p \notin Computing
                BY <1>1, PoolFacts DEF PoolStates, Computing
            <3>2. AtRest(w) => AtRest(w)'
                BY <2>2, <2>5, <3>1, <2>1 DEF AtRest
            <3> QED BY <1>1, <1>3, <1>4, <2>1, <2>2, <3>1, <3>2 DEF WorkerOf, PoolStates
        <2> QED BY <1>1, <2>1, <2>2, <2>3, <2>4, <2>6, PoolFacts, PoolKeeps DEF PoolStates
    <1>6. CASE Look(w)
        <2> DEFINE found == ~(stop \/ pause \/ n_graph = last_graph[w])
                   p == IF found THEN "active" ELSE "sleep"
        <2>1. /\ pc[w] = "ready" /\ pc' = [pc EXCEPT ![w] = p] /\ pc'[w] = p
              /\ seen' = (IF found THEN [seen EXCEPT ![w] = n_graph] ELSE seen)
              /\ (found => seen'[w] = n_graph) /\ (~found => seen'[w] = seen[w])
              /\ UNCHANGED <<last_graph, n_graph, n_threads_cur, plan, pause, begun>>
            BY <1>2, <1>6, Values DEF Look, Go, flags, history
        <2>2. PoolFrame(w)
            BY <1>6, <2>1, Values DEF Look, PoolFrame, bars, flags, locals, history
        <2>3. TypeOK'
            BY <2>1, <2>2, PoolTypes DEF PoolStates
        <2>4. WorkerOf(w)'
            BY <1>1, <1>3, <1>4, <2>1, PoolFacts DEF WorkerOf, AtRest, PoolStates, Computing
        <2>5. p \in PoolStates /\ p # "begin"
            BY DEF PoolStates
        <2>6. last_graph'[w] <= n_graph /\ seen'[w] <= n_graph
            BY <1>1, <2>1, PoolFacts
        <2> HIDE DEF p
        <2> QED BY <1>1, <2>1, <2>2, <2>3, <2>4, <2>5, <2>6, PoolKeeps
    <1>7. CASE LookActive(w)
        <2>1. PICK p \in {"begin", "ready", "sleep"} :
                  /\ pc' = [pc EXCEPT ![w] = p]
                  /\ p = "begin" <=> w < n_threads_cur
            BY <1>7 DEF LookActive, Go
        <2>2. /\ pc[w] = "active" /\ pc'[w] = p
              /\ last_graph' = [last_graph EXCEPT ![w] = seen[w]] /\ last_graph'[w] = seen[w]
              /\ UNCHANGED <<seen, n_graph, n_threads_cur, plan, pause, begun>>
            BY <1>2, <1>7, <2>1, Values DEF LookActive, flags, history
        <2>3. PoolFrame(w)
            BY <1>7, <2>1, <2>2, Values DEF LookActive, PoolFrame, bars, flags, locals, history
        <2>4. TypeOK'
            BY <1>1, <2>1, <2>2, <2>3, PoolFacts, PoolTypes DEF PoolStates
        <2>5. Setup => w \notin Team /\ n_threads_cur = plan.n_threads /\ p # "begin"
            BY <1>1, <2>1, <2>2, PoolFacts DEF WorkerOf, AtRest
        <2>6. ~Setup => begun[w] = 0 /\ n_threads_cur = plan.n_threads
                        /\ (w \in Team => seen[w] = n_graph) /\ (p = "begin" <=> w \in Team)
            BY <1>1, <2>1, <2>2, PoolFacts DEF WorkerOf, Setup
        <2>7. WorkerOf(w)'
            <3>1. CASE Setup
                <4>1. pc'[w] \in PoolStates /\ w \notin Team' /\ n_threads_cur' = plan'.n_threads
                    BY <1>4, <2>1, <2>2, <2>5, <3>1 DEF PoolStates
                <4>2. plan'.n_nodes > 0
                    BY <1>1, <2>2, <3>1, PoolFacts DEF WorkerOf, AtRest
                <4> QED BY <1>3, <3>1, <4>1, <4>2 DEF WorkerOf
            <3>2. CASE ~Setup
                BY <1>3, <1>4, <2>1, <2>2, <2>6, <3>2 DEF WorkerOf
            <3> QED BY <3>1, <3>2
        <2>8. p \in PoolStates \cup {"begin"}
            BY DEF PoolStates
        <2>9. last_graph'[w] <= n_graph /\ seen'[w] <= n_graph
            BY <1>1, <2>2, PoolFacts
        <2> QED BY <1>1, <2>2, <2>3, <2>4, <2>5, <2>6, <2>7, <2>8, <2>9, PoolKeeps
    <1>8. CASE Sleep(w)
        <2>1. PICK p \in {"top", "begin", "asleep"} :
                  /\ pc' = [pc EXCEPT ![w] = p]
                  /\ p = "begin" => n_graph # last_graph[w] /\ w < n_threads_cur
                  /\ p = "top" => last_graph' = last_graph
                  /\ p # "top" => last_graph' = [last_graph EXCEPT ![w] = n_graph]
            <3>1. CASE stop \/ pause
                BY <1>8, <3>1 DEF Sleep, Go
            <3>2. CASE ~(stop \/ pause) /\ n_graph # last_graph[w] /\ w < n_threads_cur
                BY <1>8, <3>2 DEF Sleep, Go
            <3>3. CASE ~(stop \/ pause) /\ ~(n_graph # last_graph[w] /\ w < n_threads_cur)
                BY <1>8, <3>3 DEF Sleep, Go
            <3> QED BY <3>1, <3>2, <3>3
        <2>2. /\ pc[w] = "sleep" /\ pc'[w] = p /\ pc[0] # "announce"
              /\ last_graph'[w] = (IF p = "top" THEN last_graph[w] ELSE n_graph)
              /\ UNCHANGED <<seen, n_graph, n_threads_cur, plan, pause, begun>>
            BY <1>2, <1>8, <2>1, Values DEF Sleep, MutexFree, flags, history
        <2>3. PoolFrame(w)
            BY <1>8, <2>1, <2>2, Values DEF Sleep, PoolFrame, bars, flags, locals, history
        <2>4. p \in PoolStates \cup {"begin"} /\ p \notin {"loop", "spin", "active"}
            BY DEF PoolStates
        <2>5. TypeOK'
            BY <1>1, <2>1, <2>3, <2>4, <2>2, PoolFacts, PoolTypes
        <2>6. Setup => p # "begin"
            BY <1>1, <2>1, <2>2, PoolFacts DEF WorkerOf, AtRest
        <2>7. ~Setup => n_threads_cur = plan.n_threads /\ (p = "begin" => begun[w] = 0 /\ w \in Team)
            BY <1>1, <2>1, <2>2, PoolFacts DEF WorkerOf, Setup
        <2>8. WorkerOf(w)'
            <3>1. CASE Setup
                <4>1. WorkerOf(w) /\ p \in {"top", "asleep"}
                    BY <1>1, <2>6, <3>1, PoolFacts
                <4> QED BY <1>3, <1>4, <2>2, <3>1, <4>1 DEF WorkerOf, AtRest, PoolStates, Computing
            <3>2. CASE ~Setup
                BY <1>1, <1>3, <1>4, <2>2, <2>4, <2>7, <3>2, PoolFacts DEF WorkerOf
            <3> QED BY <3>1, <3>2
        <2>9. last_graph'[w] <= n_graph /\ seen'[w] <= n_graph
            BY <1>1, <2>2, PoolFacts
        <2> QED BY <1>1, <2>2, <2>3, <2>4, <2>5, <2>6, <2>7, <2>8, <2>9, PoolKeeps
    <1> QED BY <1>5, <1>6, <1>7, <1>8

-----------------------------------------------------------------------------
(* The main thread's steps.                                                *)

\* When a call is over, no thread is at a node of it, and when it succeeded, all have
\* finished all nodes.
LEMMA CallOver ==
    ASSUME IInv, pc[0] \in {"return", "idle", "joining", "freed"}
    PROVE  /\ \A t \in Team : t \notin Arrived /\ pc[t] # "node" /\ done[t] = done[0]
           /\ ec = "success" => done[0] = plan.n_nodes
    <1>1. 0 \notin Arrived /\ 0 \in Team /\ Team \subseteq Threads
        BY Values DEF Arrived
    <1>2. ec = "success" => done[0] = plan.n_nodes
        BY DEF IInv, MainInv
    <1>3. ASSUME NEW t \in Team PROVE t \notin Arrived /\ pc[t] # "node"
        <2>1. CASE abort
            BY <1>1, <2>1 DEF IInv, AbortInv
        <2>2. CASE ~abort
            <3>1. done[0] = plan.n_nodes
                <4>1. ec \in {"success", "aborted"}
                    BY DEF IInv, ValuesInv, TypeOK
                <4> QED BY <1>2, <2>2, <4>1 DEF IInv, ValuesInv
            <3>2. Level(t) = Level(0)
                BY DEF IInv, LevelInv
            <3>3. node[t] \in Nat /\ done[t] \in Nat /\ plan.n_nodes \in Nat /\ t \in Threads
                BY <1>1, Values
            <3>4. t \notin Arrived
                BY <1>1, <3>1, <3>2, <3>3, HeldInTeam DEF Level
            <3>5. NodeOf(t)
                BY <3>3 DEF IInv, TeamInv
            <3> QED BY <1>1, <3>1, <3>2, <3>3, <3>4, <3>5 DEF Level, NodeOf
        <2> QED BY <2>1, <2>2
    <1>4. ASSUME NEW t \in Team PROVE done[t] = done[0]
        <2>1. Level(t) = Level(0)
            BY DEF IInv, LevelInv
        <2> QED BY <1>1, <1>3, <2>1 DEF Level
    <1> QED BY <1>2, <1>3, <1>4

\* A step that starts or ends a call, or wakes workers.
MainFrame ==
    /\ UNCHANGED <<n_barrier, n_barrier_passed, plan, last_graph, seen, node, nth, passed, done, begun>>
    /\ \A w \in Workers : pc'[w] = pc[w] \/ (pc[w] = "paused" /\ pc'[w] = "top")
                          \/ (pc[w] = "asleep" /\ pc'[w] = "sleep")

LEMMA MainKeeps ==
    ASSUME IInv, MainFrame, TypeOK',
           pc[0] \in MainStates, pc'[0] \in MainStates \cup {"begin"},
           n_graph <= n_graph', abort' = abort, ec' = ec,
           pc'[0] # "kick" => n_threads_cur' = plan.n_threads,
           n_threads_cur' = n_threads_cur \/ n_threads_cur' = plan.n_threads,
           pc'[0] = "begin" => begun[0] = 0,
           WorkerInv', MainInv'
    PROVE  IInv'
    <1>1. Team' = Team /\ Team \subseteq Threads /\ 0 \in Team /\ 0 \in Threads
        BY Values, ThreadFacts DEF MainFrame, Team
    <1>2. \A t \in Threads : \A p \in Computing \ {"begin"} : pc'[t] = p <=> pc[t] = p
        <2>1. \A w \in Workers : \A p \in Computing \ {"begin"} : pc'[w] = p <=> pc[w] = p
            BY DEF MainFrame, Computing
        <2>2. \A p \in Computing \ {"begin"} : pc'[0] # p /\ pc[0] # p
            BY DEF MainStates, Computing
        <2> QED BY <2>1, <2>2, ThreadFacts
    <1>3. Held' = Held /\ Arrived' = Arrived
        BY <1>2 DEF MainFrame, Held, Arrived, Computing
    <1>4. ValuesInv'
        <2>1. \A w \in Workers : last_graph'[w] <= n_graph' /\ seen'[w] <= n_graph'
            <3>1. n_graph' \in Nat /\ n_graph \in Nat
                BY Values DEF TypeOK
            <3>2. ASSUME NEW w \in Workers PROVE last_graph[w] \in Nat /\ seen[w] \in Nat
                                                 /\ last_graph[w] <= n_graph /\ seen[w] <= n_graph
                BY Values DEF IInv, ValuesInv
            <3> QED BY <3>1, <3>2 DEF MainFrame
        <2> QED BY <2>1 DEF IInv, ValuesInv, MainFrame
    <1>5. TeamInv'
        <2>1. ASSUME NEW t \in Threads PROVE TeamOf(t)' /\ NodeOf(t)' /\ PassOf(t)'
            <3>1. TeamOf(t) /\ NodeOf(t) /\ PassOf(t)
                BY DEF IInv, TeamInv
            <3>2. UNCHANGED <<plan, n_barrier_passed, node, nth, passed, done, begun>>
                BY DEF MainFrame
            <3>3. CASE t = 0
                <4>1. pc'[t] \in MainStates \cup {"begin"}
                    BY <3>3
                <4>2. TeamOf(t)'
                    BY <1>1, <3>1, <3>2, <3>3, <4>1 DEF TeamOf, MainStates, Computing
                <4>3. NodeOf(t)' /\ PassOf(t)'
                    BY <3>2, <3>3, <4>1 DEF NodeOf, PassOf, MainStates
                <4> QED BY <4>2, <4>3
            <3>4. CASE t # 0
                <4>1. \/ pc'[t] = pc[t]
                      \/ pc'[t] \in {"top", "sleep"}
                    BY <3>4, ThreadFacts DEF MainFrame
                <4>2. pc[t] \in Computing => n_threads_cur' = n_threads_cur
                    BY <3>1 DEF TeamOf
                <4>3. TeamOf(t)'
                    BY <1>1, <3>1, <3>2, <4>1, <4>2 DEF TeamOf, Computing
                <4>4. NodeOf(t)'
                    BY <3>1, <3>2, <4>1 DEF NodeOf
                <4>5. PassOf(t)'
                    BY <3>1, <3>2, <4>1, <4>2 DEF PassOf, Computing
                <4> QED BY <4>3, <4>4, <4>5
            <3> QED BY <3>3, <3>4
        <2> QED BY <2>1 DEF TeamInv
    <1>6. LastInv'
        BY <1>1, <1>2, <1>3 DEF IInv, LastInv, Computing
    <1>7. BarrierCounts'
        <2>1. {u \in Threads : pc'[u] = "last"} = {u \in Threads : pc[u] = "last"}
            BY <1>2 DEF Computing
        <2>2. \A u \in Threads : pc'[u] = "pass" <=> pc[u] = "pass"
            BY <1>2 DEF Computing
        <2> QED BY <1>3, <2>1, <2>2 DEF IInv, BarrierCounts, MainFrame
    <1>8. LevelInv'
        BY <1>1, <1>3 DEF IInv, LevelInv, Level, MainFrame
    <1>9. AbortInv'
        BY <1>1, <1>2, <1>3 DEF IInv, AbortInv, Computing
    <1> QED BY <1>4, <1>5, <1>6, <1>7, <1>8, <1>9 DEF IInv

\* A step of the main thread from p to q that leaves the graph alone keeps what the workers do.
LEMMA MainTypes ==
    ASSUME IInv, MainFrame, pc[0] \in MainStates,
           \E p \in MainStates \cup {"begin"} :
               pc' = [pc EXCEPT ![0] = p] \/ pc' = [t \in Threads |-> IF t = 0 THEN p ELSE Woken(pc[t])],
           n_graph' \in 0 .. Graphs, n_threads_cur' \in 1 .. NThreads,
           stop' \in BOOLEAN, pause' \in BOOLEAN, abort' = abort, ec' = ec
    PROVE  TypeOK'
    <1>0. TypeOK
        BY DEF IInv, ValuesInv
    <1>1. pc' \in [Threads -> MainStates \cup PoolStates \cup Computing]
          /\ pc'[0] \in MainStates \cup Computing
          /\ \A u \in Workers : pc'[u] \in PoolStates \cup Computing
        <2>1. PICK p \in MainStates \cup {"begin"} :
                  \/ pc' = [pc EXCEPT ![0] = p]
                  \/ pc' = [t \in Threads |-> IF t = 0 THEN p ELSE Woken(pc[t])]
            OBVIOUS
        <2>2. \A x \in PoolStates \cup Computing : Woken(x) \in PoolStates \cup Computing
            BY DEF Woken, PoolStates, Computing
        <2>3. p \in MainStates \cup Computing
            BY DEF Computing
        <2> QED BY <2>1, <2>2, <2>3, ThreadFacts, Values
    <1> QED BY <1>0, <1>1 DEF TypeOK, MainFrame

LEMMA KickKeeps == ASSUME IInv, Kick PROVE IInv'
    <1>1. /\ pc[0] = "kick" /\ pc' = [pc EXCEPT ![0] = "announce"] /\ pc'[0] = "announce"
          /\ n_threads_cur' = plan.n_threads
          /\ UNCHANGED <<n_graph, stop, pause, abort, ec, plan, last_graph, begun>>
        BY ThreadFacts, Values DEF Kick, Go, flags, polls, history
    <1>2. MainFrame
        BY <1>1, ThreadFacts, Values DEF Kick, MainFrame, bars, polls, locals, history
    <1>3. TypeOK'
        <2>1. n_graph' \in 0 .. Graphs /\ n_threads_cur' \in 1 .. NThreads
              /\ stop' \in BOOLEAN /\ pause' \in BOOLEAN
            BY <1>1, Values DEF IInv, ValuesInv, TypeOK
        <2>2. "announce" \in MainStates \cup {"begin"} /\ pc[0] \in MainStates
            BY <1>1 DEF MainStates
        <2> QED BY <1>1, <1>2, <2>1, <2>2, MainTypes
    <1>4. WorkerInv'
        <2>1. ASSUME NEW w \in Workers PROVE WorkerOf(w)'
            <3>1. WorkerOf(w) /\ Setup /\ Setup' /\ w \in Threads /\ w # 0
                BY <1>1, ThreadFacts DEF IInv, WorkerInv, Setup
            <3>2. pc'[w] = pc[w] /\ Team' = Team
                BY <1>1, <3>1, Values DEF Team
            <3> QED BY <1>1, <3>1, <3>2 DEF WorkerOf, AtRest
        <2> QED BY <2>1 DEF WorkerInv
    <1>5. MainInv'
        BY <1>1 DEF IInv, MainInv, Setup
    <1>6. pc[0] \in MainStates /\ pc'[0] \in MainStates \cup {"begin"} /\ n_graph <= n_graph'
        BY <1>1, Values DEF MainStates
    <1> QED BY <1>1, <1>2, <1>3, <1>4, <1>5, <1>6, MainKeeps

LEMMA AnnounceKeeps == ASSUME IInv, Announce PROVE IInv'
    <1>1. /\ pc[0] = "announce" /\ pc'[0] = "begin" /\ n_graph' = n_graph + 1 /\ pause' = FALSE
          /\ pc' = [t \in Threads |-> IF t = 0 THEN "begin" ELSE Woken(pc[t])]
          /\ UNCHANGED <<n_threads_cur, stop, abort, ec, plan, last_graph, seen, begun>>
        BY ThreadFacts DEF Announce, Broadcast, polls, history
    <1>2. MainFrame
        BY <1>1, ThreadFacts DEF Announce, MainFrame, bars, polls, locals, history, Woken
    <1>3. TypeOK'
        <2>1. n_graph' \in 0 .. Graphs /\ n_threads_cur' \in 1 .. NThreads
              /\ stop' \in BOOLEAN /\ pause' \in BOOLEAN
            <3>1. n_graph \in 0 .. Graphs /\ n_threads_cur \in 1 .. NThreads /\ stop \in BOOLEAN
                BY DEF IInv, ValuesInv, TypeOK
            <3>2. n_graph < Graphs
                BY <1>1 DEF IInv, MainInv, Setup
            <3>3. Graphs \in Nat
                OBVIOUS
            <3>4. n_graph + 1 \in 0 .. Graphs
                BY <3>1, <3>2, <3>3
            <3> QED BY <1>1, <3>1, <3>4
        <2>2. pc[0] \in MainStates
            BY <1>1 DEF MainStates
        <2> QED BY <1>1, <1>2, <2>1, <2>2, MainTypes
    <1>4. Setup /\ ~Setup' /\ Team' = Team /\ n_threads_cur = plan.n_threads
        BY <1>1 DEF Setup, Team, IInv, ValuesInv
    <1>5. WorkerInv'
        <2>1. ASSUME NEW w \in Workers PROVE WorkerOf(w)'
            <3>1. WorkerOf(w) /\ w \in Threads /\ begun[w] = 0 /\ last_graph[w] <= n_graph
                BY <1>4, ThreadFacts DEF IInv, WorkerInv, MainInv, ValuesInv
            <3>2. last_graph[w] \in Nat /\ n_graph \in Nat
                BY Values
            <3>3. \/ pc'[w] = pc[w]
                  \/ pc'[w] \in {"top", "sleep"}
                BY <1>2 DEF MainFrame
            <3>4. pc'[w] # "begin"
                BY <1>4, <3>1, <3>3 DEF WorkerOf, AtRest, PoolStates, Computing
            <3>5. w \in Team => pc'[w] # "active"
                BY <1>4, <3>1, <3>3 DEF WorkerOf, AtRest
            <3> QED BY <1>1, <1>4, <3>1, <3>2, <3>4, <3>5 DEF WorkerOf
        <2> QED BY <2>1 DEF WorkerInv
    <1>6. MainInv'
        BY <1>1, <1>4 DEF MainInv
    <1>7. /\ pc[0] \in MainStates /\ pc'[0] \in MainStates \cup {"begin"} /\ n_graph <= n_graph'
          /\ begun[0] = 0
        BY <1>1, <1>4, Values, ThreadFacts DEF MainStates, IInv, MainInv
    <1> QED BY <1>1, <1>2, <1>3, <1>4, <1>5, <1>6, <1>7, MainKeeps

\* What a worker is doing when the next graph is started.
Waiting(w) ==
    \/ AtRest(w)
    \/ /\ plan' = plan /\ plan.n_nodes > 0 /\ n_threads_cur = plan.n_threads
       /\ \/ w \notin Team /\ pc[w] \in PoolStates
          \/ /\ w \in Team /\ last_graph[w] = n_graph
             /\ \/ pc[w] = "loop" /\ node[w] = plan.n_nodes
                \/ pc[w] = "spin" /\ node[w] + 1 = plan.n_nodes /\ passed[w] < n_barrier_passed

\* The next graph is the last one again, or the workers are at rest.
Unhurried == SameAgain \/ \A w \in Workers : AtRest(w)

LEMMA SettledWaits == ASSUME IInv, Unhurried, StartGraph, NEW w \in Workers PROVE Waiting(w)
    <1>1. CASE \A u \in Workers : AtRest(u)
        BY <1>1 DEF Waiting
    <1>2. CASE SameAgain
        <2>1. plan' = plan /\ plan.n_nodes > 0 /\ ec = "success" /\ pc[0] = "idle"
            BY <1>2 DEF SameAgain, StartGraph
        <2>2. n_threads_cur = plan.n_threads
            BY <2>1 DEF IInv, ValuesInv
        <2>3. TeamOf(w) /\ NodeOf(w) /\ PassOf(w) /\ WorkerOf(w) /\ ~Setup /\ w \in Threads
            BY <2>1, ThreadFacts DEF IInv, TeamInv, WorkerInv, Setup
        <2>4. pc[w] \in PoolStates \cup Computing
            BY Values
        <2>5. CASE w \notin Team
            BY <2>1, <2>2, <2>3, <2>4, <2>5 DEF Waiting, TeamOf
        <2>6. CASE w \in Team
            <3>1. w \notin Arrived /\ pc[w] # "node" /\ done[w] = plan.n_nodes
                BY <2>1, <2>6, CallOver
            <3>2. begun[w] = 1
                BY <2>1, <2>3, <3>1, Values DEF TeamOf
            <3>3. last_graph[w] = n_graph /\ pc[w] \notin {"active", "begin"}
                BY <2>3, <3>2 DEF WorkerOf, NodeOf
            <3>4. pc[w] \in {"loop", "spin"} \/ pc[w] \in PoolStates \ {"active"}
                BY <2>3, <2>4, <3>1, <3>3 DEF Computing, PoolStates, Arrived
            <3>5. CASE pc[w] \in PoolStates \ {"active"}
                BY <3>3, <3>5 DEF Waiting, AtRest, PoolStates, Computing
            <3>6. CASE pc[w] = "loop"
                BY <2>1, <2>2, <2>3, <2>6, <3>1, <3>2, <3>3, <3>6 DEF Waiting, NodeOf
            <3>7. CASE pc[w] = "spin"
                <4>1. node[w] + 1 = plan.n_nodes
                    BY <2>3, <3>1, <3>2, <3>7 DEF NodeOf
                <4>2. passed[w] < n_barrier_passed
                    <5>1. passed[w] <= n_barrier_passed /\ passed[w] # n_barrier_passed
                        BY <2>3, <3>1, <3>7 DEF PassOf, Arrived
                    <5> QED BY <2>3, <5>1, Values
                <4> QED BY <2>1, <2>2, <2>6, <3>3, <3>7, <4>1, <4>2 DEF Waiting
            <3> QED BY <3>4, <3>5, <3>6, <3>7
        <2> QED BY <2>5, <2>6
    <1> QED BY <1>1, <1>2 DEF Unhurried

LEMMA StartGraphKeeps == ASSUME IInv, Unhurried, StartGraph PROVE IInv'
    <1>1. /\ pc[0] = "idle" /\ pc'[0] = "kick" /\ pc' = [pc EXCEPT ![0] = "kick"]
          /\ n_graph < Graphs /\ abort' = FALSE /\ ec' = "success"
          /\ done' = [t \in Threads |-> 0] /\ begun' = [t \in Threads |-> 0]
          /\ UNCHANGED <<n_graph, n_barrier, n_barrier_passed, n_threads_cur, stop, pause,
                         last_graph, seen, node, nth, passed>>
        BY Values, ThreadFacts DEF StartGraph, Go, bars, polls, locals
    <1>2. plan' \in [n_threads : 1 .. NThreads, n_nodes : Sizes \cup {0}]
        BY GrantedIsThere DEF StartGraph
    <1>3. \A w \in Workers : Waiting(w)
        BY SettledWaits
    <1>4. \A w \in Workers : w \in Threads /\ w # 0 /\ pc'[w] = pc[w]
        BY <1>1, Values, ThreadFacts
    <1>5. \A t \in Threads : pc[t] \notin {"begin", "node", "barrier", "read", "enter", "last", "pass"}
                             /\ pc'[t] \notin {"begin", "node", "barrier", "read", "enter", "last", "pass"}
        <2>1. ASSUME NEW w \in Workers
              PROVE  pc[w] \notin {"begin", "node", "barrier", "read", "enter", "last", "pass"}
            BY <1>3, <2>1 DEF Waiting, AtRest, Computing, PoolStates
        <2> QED BY <1>1, <1>4, <2>1, ThreadFacts
    <1>6. \A t \in Threads : t \notin Arrived /\ t \notin Arrived' /\ t \notin Held /\ t \notin Held'
        <2>1. ASSUME NEW w \in Workers PROVE pc[w] = "spin" => passed[w] # n_barrier_passed
            <3>1. passed[w] \in Nat /\ n_barrier_passed \in Nat
                BY <1>4, Values
            <3> QED BY <1>3, <3>1 DEF Waiting, AtRest, Computing, PoolStates
        <2>2. \A t \in Threads : /\ ~(pc[t] = "spin" /\ passed[t] = n_barrier_passed)
                                 /\ ~(pc'[t] = "spin" /\ passed'[t] = n_barrier_passed')
            BY <1>1, <1>4, <2>1, ThreadFacts
        <2> QED BY <1>5, <2>2 DEF Arrived, Held
    <1>7. ValuesInv'
        <2>1. TypeOK'
            <3>1. TypeOK
                BY DEF IInv, ValuesInv
            <3>2. "kick" \in MainStates
                BY DEF MainStates
            <3> QED BY <1>1, <1>2, <1>4, <3>1, <3>2, ThreadFacts DEF TypeOK
        <2> QED BY <1>1, <2>1 DEF IInv, ValuesInv
    <1>8. TeamInv'
        <2>1. ASSUME NEW t \in Threads PROVE TeamOf(t)' /\ NodeOf(t)' /\ PassOf(t)'
            <3>1. begun'[t] = 0 /\ done'[t] = 0
                BY <1>1
            <3>2. CASE pc'[t] \in {"loop", "spin"}
                <4>1. t \in Workers /\ pc[t] \in {"loop", "spin"}
                    BY <1>1, <1>4, <3>2, ThreadFacts
                <4>2. Waiting(t) /\ ~AtRest(t)
                    BY <1>3, <4>1 DEF AtRest, Computing
                <4>3. /\ plan' = plan /\ plan.n_nodes > 0 /\ n_threads_cur = plan.n_threads
                      /\ t \in Team /\ Team' = Team
                      /\ \/ pc[t] = "loop" /\ node[t] = plan.n_nodes
                         \/ pc[t] = "spin" /\ node[t] + 1 = plan.n_nodes /\ passed[t] < n_barrier_passed
                    BY <4>1, <4>2 DEF Waiting, PoolStates, Team
                <4>4. pc'[t] = pc[t] /\ node[t] \in Nat /\ plan.n_nodes \in Nat /\ t # 0
                      /\ passed[t] \in Nat /\ n_barrier_passed \in Nat
                    BY <1>4, <4>1, Values
                <4>5. PassOf(t)
                    BY DEF IInv, TeamInv
                <4>6. TeamOf(t)'
                    BY <1>1, <3>1, <4>3 DEF TeamOf
                <4>7. NodeOf(t)'
                    BY <1>1, <3>1, <4>1, <4>3, <4>4 DEF NodeOf
                <4>8. PassOf(t)'
                    BY <1>1, <4>1, <4>4, <4>5 DEF PassOf
                <4> QED BY <4>6, <4>7, <4>8
            <3>3. CASE pc'[t] \notin {"loop", "spin"}
                BY <1>5, <3>1, <3>3 DEF TeamOf, NodeOf, PassOf, Computing
            <3> QED BY <3>2, <3>3
        <2> QED BY <2>1 DEF TeamInv
    <1>9. LastInv'
        BY <1>5 DEF LastInv
    <1>10. BarrierCounts'
        <2>1. Held' = Held /\ {t \in Threads : pc'[t] = "last"} = {t \in Threads : pc[t] = "last"}
            BY <1>5, <1>6 DEF Held
        <2>2. BarrierCounts
            BY DEF IInv
        <2> QED BY <1>1, <1>5, <2>1, <2>2 DEF BarrierCounts
    <1>11. LevelInv'
        <2>1. Team' \subseteq Threads /\ 0 \in Threads
            BY <1>2 DEF Team, Threads
        <2> QED BY <1>1, <1>6, <2>1 DEF LevelInv, Level
    <1>12. WorkerInv'
        <2>1. ASSUME NEW w \in Workers PROVE WorkerOf(w)'
            <3>1. Waiting(w) /\ Setup' /\ w \in Threads /\ pc'[w] = pc[w]
                BY <1>1, <1>3, <1>4 DEF Setup
            <3>2. CASE AtRest(w)
                BY <1>1, <3>1, <3>2 DEF WorkerOf, AtRest
            <3>3. CASE ~AtRest(w)
                BY <1>1, <3>1, <3>3 DEF WorkerOf, Waiting, Team
            <3> QED BY <3>2, <3>3
        <2> QED BY <2>1 DEF WorkerInv
    <1>13. MainInv'
        BY <1>1 DEF MainInv
    <1>14. AbortInv'
        BY <1>1 DEF AbortInv
    <1> QED BY <1>7, <1>8, <1>9, <1>10, <1>11, <1>12, <1>13, <1>14 DEF IInv

LEMMA Stutter == ASSUME IInv, UNCHANGED vars PROVE IInv'
    <1>1. UNCHANGED <<pc, n_graph, n_barrier, n_barrier_passed, n_threads_cur, stop, pause, abort,
                      plan, last_graph, seen, node, nth, passed, ec, done, begun>>
        BY DEF vars
    <1>2. Held' = Held /\ Arrived' = Arrived /\ Team' = Team /\ Setup' = Setup
        BY <1>1 DEF Held, Arrived, Team, Setup
    <1>3. ValuesInv'
        BY <1>1 DEF IInv, ValuesInv, TypeOK
    <1>4. TeamInv'
        BY <1>1, <1>2 DEF IInv, TeamInv, TeamOf, NodeOf, PassOf
    <1>5. LastInv' /\ LevelInv' /\ AbortInv'
        BY <1>1, <1>2 DEF IInv, LastInv, LevelInv, Level, AbortInv
    <1>6. BarrierCounts'
        BY <1>1, <1>2 DEF IInv, BarrierCounts
    <1>7. WorkerInv' /\ MainInv'
        BY <1>1, <1>2 DEF IInv, WorkerInv, WorkerOf, AtRest, MainInv
    <1> QED BY <1>3, <1>4, <1>5, <1>6, <1>7 DEF IInv

\* A step of the main thread outside of a call leaves to the workers what they have to do.
LEMMA OutsideKeeps ==
    ASSUME IInv, pc[0] \in {"return", "idle", "joining"},
           NEW p \in {"idle", "joining", "freed"},
           pc' = [pc EXCEPT ![0] = p] \/ pc' = [t \in Threads |-> IF t = 0 THEN p ELSE Woken(pc[t])],
           stop' \in BOOLEAN, pause' \in BOOLEAN,
           UNCHANGED <<n_graph, bars, n_threads_cur, abort, ec, plan, polls, locals, history>>
    PROVE  IInv'
    <1>1. UNCHANGED <<n_graph, n_barrier, n_barrier_passed, n_threads_cur, abort, ec, plan,
                      last_graph, seen, node, nth, passed, done, begun>>
        BY DEF bars, polls, locals, history
    <1>2. /\ pc'[0] = p
          /\ \A w \in Workers : pc'[w] = pc[w] \/ (pc[w] = "paused" /\ pc'[w] = "top")
                                \/ (pc[w] = "asleep" /\ pc'[w] = "sleep")
        BY Values, ThreadFacts DEF Woken
    <1>3. MainFrame
        BY <1>1, <1>2 DEF MainFrame
    <1>4. p \in MainStates /\ pc[0] \in MainStates /\ pc[0] # "kick" /\ pc'[0] # "kick"
        BY <1>2 DEF MainStates
    <1>5. TypeOK'
        <2>1. n_graph' \in 0 .. Graphs /\ n_threads_cur' \in 1 .. NThreads
            BY <1>1 DEF IInv, ValuesInv, TypeOK
        <2> QED BY <1>1, <1>3, <1>4, <2>1, MainTypes
    <1>6. ~Setup /\ ~Setup' /\ Team' = Team
        BY <1>1, <1>2 DEF Setup, Team
    <1>7. WorkerInv'
        <2>1. ASSUME NEW w \in Workers PROVE WorkerOf(w)'
            <3>1. WorkerOf(w)
                BY DEF IInv, WorkerInv
            <3>2. pc'[w] = pc[w] \/ pc'[w] \in {"top", "sleep"}
                BY <1>2
            <3> QED BY <1>1, <1>6, <3>1, <3>2 DEF WorkerOf
        <2> QED BY <2>1 DEF WorkerInv
    <1>8. MainInv'
        BY <1>1, <1>2, <1>6 DEF IInv, MainInv
    <1>9. n_threads_cur = plan.n_threads /\ n_graph <= n_graph'
        BY <1>1, <1>4, Values DEF IInv, ValuesInv
    <1> QED BY <1>1, <1>2, <1>3, <1>4, <1>5, <1>7, <1>8, <1>9, MainKeeps

LEMMA OutsideStep ==
    ASSUME IInv, Return \/ Pause \/ Resume \/ Free \/ Joined \/ Freed
    PROVE  IInv'
    <1>0. stop \in BOOLEAN /\ pause \in BOOLEAN
        BY DEF IInv, ValuesInv, TypeOK
    <1>1. ASSUME Return PROVE IInv'
        BY <1>0, <1>1, OutsideKeeps DEF Return, Go, flags
    <1>2. ASSUME Pause PROVE IInv'
        BY <1>0, <1>2, OutsideKeeps DEF Pause, Broadcast
    <1>3. ASSUME Resume PROVE IInv'
        BY <1>0, <1>3, OutsideKeeps DEF Resume, Broadcast
    <1>4. ASSUME Free PROVE IInv'
        BY <1>0, <1>4, OutsideKeeps DEF Free, Broadcast
    <1>5. ASSUME Joined PROVE IInv'
        BY <1>0, <1>5, OutsideKeeps DEF Joined, Go, flags
    <1>6. ASSUME Freed PROVE IInv'
        BY <1>6, Stutter DEF Freed
    <1> QED BY <1>1, <1>2, <1>3, <1>4, <1>5, <1>6

-----------------------------------------------------------------------------
(* The invariant.                                                          *)

LEMMA InitEstablishes == Init => IInv
    <1> SUFFICES ASSUME Init PROVE IInv
        OBVIOUS
    <1>1. /\ pc = [t \in Threads |-> IF t = 0 THEN "idle" ELSE "top"]
          /\ n_graph = 0 /\ n_barrier = 0 /\ n_barrier_passed = 0 /\ n_threads_cur = NThreads
          /\ stop = FALSE /\ pause \in BOOLEAN /\ abort = FALSE /\ ec = "success"
          /\ plan = [n_threads |-> NThreads, n_nodes |-> 0]
          /\ last_graph = [t \in Workers |-> 0] /\ seen = [t \in Workers |-> 0]
          /\ node = [t \in Threads |-> 0] /\ nth = [t \in Threads |-> 0]
          /\ passed = [t \in Threads |-> 0]
          /\ done = [t \in Threads |-> 0] /\ begun = [t \in Threads |-> 0]
        BY DEF Init
    <1>2. /\ pc[0] = "idle" /\ \A w \in Workers : pc[w] = "top" /\ w \in Threads /\ w # 0
          /\ \A t \in Threads : pc[t] \in {"idle", "top"}
        BY <1>1, ThreadFacts
    <1>3. NThreads \in Nat \ {0} /\ Graphs \in Nat /\ Team \subseteq Threads /\ 0 \in Team
        BY <1>1 DEF Team, Threads
    <1>4. ValuesInv
        <2>1. TypeOK
            <3>1. pc \in [Threads -> MainStates \cup PoolStates \cup Computing]
                BY <1>1 DEF MainStates, PoolStates
            <3>2. 0 \in 0 .. Graphs /\ 0 \in 0 .. NThreads /\ NThreads \in 1 .. NThreads
                BY <1>3
            <3> QED BY <1>1, <1>2, <3>1, <3>2 DEF TypeOK, MainStates, PoolStates
        <2> QED BY <1>1, <1>2, <1>3, <2>1 DEF ValuesInv
    <1>5. TeamInv
        BY <1>1, <1>2 DEF TeamInv, TeamOf, NodeOf, PassOf, Computing
    <1>6. Arrived = {} /\ Held = {}
        BY <1>2 DEF Arrived, Held
    <1>7. LastInv
        BY <1>2 DEF LastInv
    <1>8. BarrierCounts
        <2>1. Held \cup {t \in Threads : pc[t] = "last"} = {} /\ ~\E t \in Threads : pc[t] = "pass"
            BY <1>2, <1>6
        <2>2. Cardinality({}) = 0
            BY FS_EmptySet
        <2> QED BY <1>1, <2>1, <2>2 DEF BarrierCounts
    <1>9. LevelInv
        BY <1>1, <1>3, <1>6 DEF LevelInv, Level
    <1>10. WorkerInv
        BY <1>1, <1>2 DEF WorkerInv, WorkerOf, Setup
    <1>11. MainInv
        BY <1>1, <1>2, <1>3 DEF MainInv, Setup, Threads
    <1>12. AbortInv
        BY <1>1 DEF AbortInv
    <1> QED BY <1>4, <1>5, <1>7, <1>8, <1>9, <1>10, <1>11, <1>12 DEF IInv

\* All graphs have one size, none of them empty, get one number of threads, and are not aborted.
Uniform ==
    /\ ~Aborts /\ 0 \notin Sizes
    /\ \A c, d \in Counts : Granted(c) = Granted(d)
    /\ \A s, r \in Sizes : s = r

Shape(p) == \E c \in Counts, s \in Sizes : p = [n_threads |-> Granted(c), n_nodes |-> s]

\* Before the first graph there is nothing to take up.
Unused ==
    /\ plan.n_nodes = 0 /\ n_graph = 0 /\ pc[0] \in {"idle", "joining", "freed"}
    /\ \A w \in Workers : pc[w] \in PoolStates \ {"active"}

UniformInv == Uniform => ec = "success" /\ (Shape(plan) \/ Unused)

LEMMA StartShape == StartGraph => Shape(plan')
    BY ZenonT(60) DEF StartGraph, Shape

LEMMA UniformKeeps == ASSUME IInv, UniformInv, [Next]_vars PROVE UniformInv'
    <1> SUFFICES ASSUME Uniform PROVE ec' = "success" /\ (Shape(plan') \/ Unused')
        BY DEF UniformInv
    <1>0. ec = "success" /\ (Shape(plan) \/ Unused) /\ ~Aborts
        BY DEF UniformInv, Uniform
    <1>1. CASE StartGraph
        <2>1. ec' = "success" /\ Shape(plan')
            BY <1>1, StartShape DEF StartGraph
        <2> QED BY <2>1
    <1>2. ASSUME NEW t \in Threads, Compute(t) PROVE ec' = "success" /\ (Shape(plan') \/ Unused')
        <2>1. pc[t] \in Computing /\ plan' = plan
            BY <1>2 DEF Compute, Begin, Loop, Forward, Barrier, ReadPassed, Enter, LastResets,
                        LastPasses, Spin, Computing
        <2>2. ec' = ec
            BY <1>0, <1>2 DEF Compute, Begin, Loop, Forward, Barrier, ReadPassed, Enter, LastResets,
                              LastPasses, Spin, flags
        <2>3. ~Unused
            BY <2>1, ThreadFacts DEF Unused, Computing, PoolStates
        <2> QED BY <1>0, <2>1, <2>2, <2>3
    <1>3. ASSUME NEW w \in Workers, Worker(w) \/ Spurious(w), ~Compute(w)
          PROVE  ec' = "success" /\ (Shape(plan') \/ Unused')
        <2>1. UNCHANGED <<ec, plan, n_graph>>
            BY <1>3 DEF Worker, Top, PauseWait, Poll, Look, LookActive, Sleep, Spurious, flags
        <2>2. ASSUME Unused PROVE Unused'
            <3>1. last_graph[w] = n_graph
                <4>1. last_graph[w] \in Nat /\ last_graph[w] <= n_graph /\ n_graph = 0
                    BY <2>2, Values DEF Unused, IInv, ValuesInv
                <4> QED BY <4>1
            <3>2. pc[w] \in PoolStates \ {"active"} /\ w \in Threads /\ w # 0
                BY <2>2, ThreadFacts DEF Unused
            <3>3. \E p \in PoolStates \ {"active"} : pc' = [pc EXCEPT ![w] = p]
                BY <1>3, <3>1, <3>2
                   DEF Worker, Top, PauseWait, Poll, Look, LookActive, Sleep, Spurious, Go, Woken, Asleep,
                       PoolStates
            <3> QED BY <2>1, <2>2, <3>2, <3>3, Values, ThreadFacts DEF Unused
        <2> QED BY <1>0, <2>1, <2>2
    <1>4. CASE Kick \/ Announce \/ Return
        <2>1. UNCHANGED <<ec, plan>> /\ pc[0] \in {"kick", "announce", "return"}
            BY <1>4 DEF Kick, Announce, Return, flags
        <2> QED BY <1>0, <2>1 DEF Unused
    <1>5. CASE Pause \/ Resume \/ Free \/ Joined
        <2>1. UNCHANGED <<ec, plan, n_graph>>
            BY <1>5 DEF Pause, Resume, Free, Joined, flags
        <2>2. ASSUME Unused PROVE Unused'
            <3>1. pc'[0] \in {"idle", "joining", "freed"}
                BY <1>5, Values, ThreadFacts DEF Pause, Resume, Free, Joined, Go, Broadcast
            <3>2. \A w \in Workers : pc'[w] = pc[w] \/ pc'[w] \in {"top", "sleep"}
                BY <1>5, Values, ThreadFacts DEF Pause, Resume, Free, Joined, Go, Broadcast, Woken
            <3> QED BY <2>1, <2>2, <3>1, <3>2 DEF Unused, PoolStates
        <2> QED BY <1>0, <2>1, <2>2
    <1>6. CASE UNCHANGED vars
        BY <1>0, <1>6 DEF vars, Unused
    <1>7. CASE Main
        BY <1>1, <1>2, <1>4, <1>5, <1>6, <1>7, ThreadFacts DEF Main, Freed
    <1>8. ASSUME NEW w \in Workers, Worker(w) \/ Spurious(w)
          PROVE  ec' = "success" /\ (Shape(plan') \/ Unused')
        BY <1>2, <1>3, <1>8, ThreadFacts
    <1> QED BY <1>6, <1>7, <1>8 DEF Next

LEMMA StartIsUnhurried ==
    ASSUME Settled \/ Uniform, IInv, UniformInv, StartGraph PROVE Unhurried
    <1>1. CASE Settled
        BY <1>1 DEF StartGraph, Unhurried
    <1>2. CASE Uniform /\ Shape(plan)
        <2>1. Shape(plan')
            BY StartShape
        <2>2. PICK c \in Counts, s \in Sizes : plan = [n_threads |-> Granted(c), n_nodes |-> s]
            BY <1>2 DEF Shape
        <2>3. PICK d \in Counts, r \in Sizes : plan' = [n_threads |-> Granted(d), n_nodes |-> r]
            BY <2>1 DEF Shape
        <2>4. Granted(c) = Granted(d) /\ s = r /\ s \in Nat \ {0} /\ ec = "success"
            BY <1>2 DEF Uniform, UniformInv
        <2> QED BY <2>2, <2>3, <2>4 DEF Unhurried, SameAgain
    <1>3. CASE Uniform /\ Unused
        <2>1. ASSUME NEW w \in Workers PROVE AtRest(w)
            <3>1. last_graph[w] \in Nat /\ last_graph[w] <= n_graph /\ n_graph = 0
                BY <1>3, Values DEF Unused, IInv, ValuesInv
            <3> QED BY <1>3, <3>1 DEF Unused, AtRest, PoolStates, Computing
        <2> QED BY <2>1 DEF Unhurried
    <1> QED BY <1>1, <1>2, <1>3 DEF UniformInv

LEMMA NextKeeps == ASSUME Settled \/ Uniform, IInv, UniformInv, [Next]_vars PROVE IInv'
    <1>0. ASSUME StartGraph PROVE IInv'
        BY <1>0, StartIsUnhurried, StartGraphKeeps
    <1>1. ASSUME Main PROVE IInv'
        BY <1>0, <1>1, KickKeeps, AnnounceKeeps, OutsideStep, ComputeStep, ThreadFacts DEF Main
    <1>2. ASSUME NEW w \in Workers, Worker(w) \/ Spurious(w) PROVE IInv'
        BY <1>2, PoolStep, ComputeStep, ThreadFacts DEF Worker
    <1>3. ASSUME UNCHANGED vars PROVE IInv'
        BY <1>3, Stutter
    <1> QED BY <1>1, <1>2, <1>3 DEF Next

\* With a caller that waits for late workers, or has nothing that they could mix up, the counts
\* of the barrier, the nodes the threads are at and what the workers have to do fit together.
THEOREM Invariant == Settled \/ Uniform => (Spec => []IInv)
    <1> SUFFICES ASSUME Settled \/ Uniform PROVE Spec => []IInv
        OBVIOUS
    <1>1. Init => IInv /\ UniformInv
        <2>1. ASSUME Init PROVE UniformInv
            BY <2>1, ThreadFacts DEF Init, UniformInv, Unused, PoolStates
        <2> QED BY <2>1, InitEstablishes
    <1>2. IInv /\ UniformInv /\ [Next]_vars => (IInv /\ UniformInv)'
        <2>1. ASSUME IInv, UniformInv, [Next]_vars PROVE IInv' /\ UniformInv'
            BY <2>1, NextKeeps, UniformKeeps
        <2> QED BY <2>1
    <1> QED BY <1>1, <1>2, PTL DEF Spec

\* All variables keep to their types.
THEOREM TypeCorrect == Settled \/ Uniform => (Spec => []TypeOK)
    <1>1. IInv => TypeOK
        BY DEF IInv, ValuesInv
    <1> QED BY Invariant, <1>1, PTL

\* The barrier's counter is the number of threads it holds, so that exactly the last one to come
\* lets the others through, however the threads interleave (ggml_barrier).
THEOREM BarrierCountsRight == Settled \/ Uniform => (Spec => []BarrierCounts)
    <1>1. IInv => BarrierCounts
        BY DEF IInv
    <1> QED BY Invariant, <1>1, PTL

\* No worker takes up a graph twice, and none that the graph does not ask for takes it up
\* (ggml_graph_compute_thread_ready): workers may be as late as they like where all graphs have
\* one shape, and are waited for where the next one has another.
THEOREM StartedOnce == Settled \/ Uniform => (Spec => []DispatchedOnce)
    <1>1. ASSUME IInv PROVE DispatchedOnce
        <2>1. ASSUME NEW w \in Workers
              PROVE  begun[w] <= 1 /\ (begun[w] = 1 => w < plan.n_threads)
            <3>1. TeamOf(w) /\ plan.n_threads \in Nat
                BY <1>1, Values, ThreadFacts DEF IInv, TeamInv
            <3> QED BY <3>1 DEF TeamOf, Team
        <2> QED BY <2>1 DEF DispatchedOnce
    <1> QED BY Invariant, <1>1, PTL

\* A call that reports success has had all nodes computed by all threads it asked for, and none
\* by the others (ggml_graph_compute).
THEOREM SuccessIsComplete == Settled \/ Uniform => (Spec => []SuccessMeansDone)
    <1>1. ASSUME IInv PROVE SuccessMeansDone
        <2>1. ASSUME pc[0] = "return", ec = "success", NEW t \in Threads
              PROVE  done[t] = IF t < plan.n_threads THEN plan.n_nodes ELSE 0
            <3>1. TeamOf(t) /\ t \in Nat /\ plan.n_threads \in 1 .. NThreads
                BY <1>1, Values, ThreadFacts DEF IInv, TeamInv
            <3>2. t \in Team <=> t < plan.n_threads
                BY <3>1 DEF Team
            <3>3. CASE t \in Team
                BY <1>1, <2>1, <3>2, <3>3, CallOver
            <3>4. CASE t \notin Team
                BY <3>1, <3>2, <3>4 DEF TeamOf
            <3> QED BY <3>3, <3>4
        <2> QED BY <2>1 DEF SuccessMeansDone
    <1> QED BY Invariant, <1>1, PTL

-----------------------------------------------------------------------------
(* The refinement.                                                         *)

\* A call is under way.
InCall == pc[0] \notin {"idle", "joining", "freed"}

LEMMA Unseen ==
    ASSUME UNCHANGED <<plan, done>>, InCall' = InCall
    PROVE  UNCHANGED Abstract!vars
    BY DEF Abstract!vars, InCall

\* A thread that computes a node does the next one of the graph, with no other behind it.
LEMMA ForwardWorks ==
    ASSUME IInv, NEW t \in Threads, Forward(t) PROVE Abstract!Work(t)
    <1>1. pc[t] = "node" /\ pc' = [pc EXCEPT ![t] = "barrier"] /\ plan' = plan
          /\ done' = [done EXCEPT ![t] = @ + 1]
        BY DEF Forward, Go
    <1>2. TeamOf(t) /\ NodeOf(t) /\ t \in Team
        BY <1>1 DEF IInv, TeamInv, TeamOf, Computing
    <1>3. done[t] < plan.n_nodes
        BY <1>1, <1>2 DEF NodeOf
    <1>4. InCall /\ InCall'
        <2>1. InCall
            BY <1>1, <1>2, CallOver DEF InCall
        <2> QED BY <1>1, <2>1, Values, ThreadFacts DEF InCall
    <1>5. t < plan.n_threads
        BY <1>2, Values DEF Team
    <1>6. ASSUME NEW u \in Threads, u < plan.n_threads PROVE done[u] >= done[t]
        <2>1. u \in Team /\ done[u] \in Nat /\ done[t] \in Nat
            BY <1>6, Values, ThreadFacts DEF Team
        <2>2. Level(u) = Level(t)
            BY <1>2, <2>1 DEF IInv, LevelInv
        <2>3. t \notin Arrived
            BY <1>1 DEF Arrived
        <2> QED BY <2>1, <2>2, <2>3 DEF Level
    <1> QED BY <1>1, <1>3, <1>4, <1>5, <1>6 DEF Abstract!Work, Abstract!Threads, Threads, InCall

LEMMA ComputeRefines ==
    ASSUME IInv, NEW t \in Threads, Compute(t)
    PROVE  Abstract!Work(t) \/ UNCHANGED Abstract!vars
    <1>1. CASE Forward(t)
        BY <1>1, ForwardWorks
    <1>2. ASSUME ~Forward(t) PROVE UNCHANGED Abstract!vars
        <2>1. UNCHANGED <<plan, done>>
            BY <1>2 DEF Compute, Begin, Loop, Barrier, ReadPassed, Enter, LastResets, LastPasses, Spin, history
        <2>2. /\ pc[t] \in Computing
              /\ \E p \in Computing \cup {IF t = 0 THEN "return" ELSE "top"} : pc' = [pc EXCEPT ![t] = p]
            BY <1>2 DEF Compute, Begin, Loop, Barrier, ReadPassed, Enter, LastResets, LastPasses, Spin, Go,
                        Onwards, Computing
        <2>3. InCall' = InCall
            BY <2>2, Values, ThreadFacts DEF InCall, Computing
        <2> QED BY <2>1, <2>3, Unseen
    <1> QED BY <1>1, <1>2

LEMMA WorkerRefines ==
    ASSUME IInv, NEW w \in Workers, Worker(w) \/ Spurious(w)
    PROVE  (\E t \in Threads : Abstract!Work(t)) \/ UNCHANGED Abstract!vars
    <1>1. CASE Compute(w)
        BY <1>1, ComputeRefines, ThreadFacts
    <1>2. ASSUME ~Compute(w) PROVE UNCHANGED Abstract!vars
        <2>1. UNCHANGED <<plan, done>> /\ \E p : pc' = [pc EXCEPT ![w] = p]
            BY <1>2 DEF Worker, Top, PauseWait, Poll, Look, LookActive, Sleep, Spurious, Go, history
        <2>2. InCall' = InCall
            BY <2>1, Values, ThreadFacts DEF InCall
        <2> QED BY <2>1, <2>2, Unseen
    <1> QED BY <1>1, <1>2

LEMMA StartRefines ==
    ASSUME IInv, StartGraph PROVE \E k \in 1 .. NThreads, s \in Sizes : Abstract!Start(k, s)
    <1>1. PICK d \in Counts, s \in Sizes : plan' = [n_threads |-> Granted(d), n_nodes |-> s]
        BY DEF StartGraph
    <1> DEFINE c == Granted(d)
    <1>2. c \in 1 .. NThreads /\ plan'.n_threads = c /\ plan'.n_nodes = s
        BY <1>1, GrantedIsThere
    <1> HIDE DEF c
    <1>3. pc[0] = "idle" /\ pc'[0] = "kick" /\ done' = [t \in Threads |-> 0]
        BY Values, ThreadFacts DEF StartGraph, Go
    <1>4. Abstract!Start(c, s)
        BY <1>2, <1>3 DEF Abstract!Start, Abstract!Threads, Threads
    <1> QED BY <1>2, <1>4

LEMMA ReturnRefines == ASSUME IInv, Return PROVE Abstract!Return
    <1>1. pc[0] = "return" /\ pc'[0] = "idle" /\ UNCHANGED <<plan, done>>
        BY Values, ThreadFacts DEF Return, Go, history
    <1>2. ASSUME NEW t \in Threads, t < plan.n_threads PROVE done[t] = done[0]
        <2>1. t \in Team
            BY <1>2, Values, ThreadFacts DEF Team
        <2> QED BY <1>1, <2>1, CallOver
    <1> QED BY <1>1, <1>2 DEF Abstract!Return, Abstract!Threads, Threads

LEMMA MainRefines ==
    ASSUME IInv, Main
    PROVE  \/ \E k \in 1 .. NThreads, s \in Sizes : Abstract!Start(k, s)
           \/ \E t \in Threads : Abstract!Work(t)
           \/ Abstract!Return
           \/ UNCHANGED Abstract!vars
    <1>1. ASSUME Kick \/ Announce PROVE UNCHANGED Abstract!vars
        <2>1. UNCHANGED <<plan, done>>
            BY <1>1 DEF Kick, Announce, history
        <2>2. pc[0] \in {"kick", "announce"} /\ pc'[0] \in {"announce", "begin"}
            BY <1>1, Values, ThreadFacts DEF Kick, Announce, Go, Broadcast
        <2> QED BY <2>1, <2>2, Unseen DEF InCall
    <1>2. ASSUME Pause \/ Resume \/ Free \/ Joined PROVE UNCHANGED Abstract!vars
        <2>1. UNCHANGED <<plan, done>>
            BY <1>2 DEF Pause, Resume, Free, Joined, history
        <2>2. pc[0] \in {"idle", "joining"} /\ pc'[0] \in {"idle", "joining", "freed"}
            BY <1>2, Values, ThreadFacts DEF Pause, Resume, Free, Joined, Go, Broadcast
        <2> QED BY <2>1, <2>2, Unseen DEF InCall
    <1>3. ASSUME Freed PROVE UNCHANGED Abstract!vars
        BY <1>3, Unseen DEF Freed, vars, InCall
    <1> QED BY <1>1, <1>2, <1>3, StartRefines, ReturnRefines, ComputeRefines, ThreadFacts DEF Main

\* The threads compute a graph in lockstep: whatever the interleaving, nobody works on a node
\* before all have finished the one before, nobody works on a node twice, and a call returns when
\* all threads have finished the same nodes, also when it was aborted.
THEOREM LockstepImplemented == Settled \/ Uniform => (Spec => ImplementsLockstep)
    <1> SUFFICES ASSUME Settled \/ Uniform PROVE Spec => ImplementsLockstep
        OBVIOUS
    <1>1. ASSUME Init PROVE Abstract!Init
        <2>1. pc[0] = "idle" /\ plan.n_threads = NThreads /\ plan.n_nodes = 0
              /\ done = [t \in Threads |-> 0]
            BY <1>1, ThreadFacts DEF Init
        <2> QED BY <2>1 DEF Abstract!Init, Abstract!Threads, Threads
    <1>2. ASSUME IInv, [Next]_vars PROVE [Abstract!Next]_(Abstract!vars)
        <2>1. CASE Main
            BY <1>2, <2>1, MainRefines DEF Abstract!Next, Abstract!Threads, Threads
        <2>2. ASSUME NEW w \in Workers, Worker(w) \/ Spurious(w) PROVE [Abstract!Next]_(Abstract!vars)
            BY <1>2, <2>2, WorkerRefines DEF Abstract!Next, Abstract!Threads, Threads
        <2>3. CASE UNCHANGED vars
            BY <2>3, Unseen DEF vars, InCall
        <2> QED BY <1>2, <2>1, <2>2, <2>3 DEF Next
    <1> QED BY Invariant, <1>1, <1>2, PTL DEF Spec, ImplementsLockstep, Abstract!Spec
=============================================================================
