------------------------ MODULE ServerQueue_proofs ------------------------
(***************************************************************************)
(* For any requests, tasks and slots: the types of ServerQueue's           *)
(* variables, that a task is never in two places, that no task of a        *)
(* handler that waits for it is lost, that results stay in order, and      *)
(* that the main loop keeps turning while a slot is processing.            *)
(***************************************************************************)
EXTENDS ServerQueue, TLAPS, SequenceTheorems, FiniteSetTheorems

\* A task is not twice in q, and the tasks in q.
Once(q) == \A i, j \in DOMAIN q : q[i].type = "work" /\ q[i] = q[j] => i = j
WorkIn(q) == {t \in Tasks : \E i \in DOMAIN q : q[i] = Work(t)}
OnSlots == {id_task[s] : s \in {x \in Slots : Busy(x)}}

-----------------------------------------------------------------------------
(* Queues                                                                  *)

\* What popping the front task takes out of a queue.
LEMMA TailWork ==
    ASSUME NEW q \in Seq(Message), q # << >>, Once(q)
    PROVE  /\ Tail(q) \in Seq(Message) /\ Once(Tail(q))
           /\ WorkIn(Tail(q)) \subseteq WorkIn(q)
           /\ \A t \in Tasks : Head(q) = Work(t) =>
                  t \in WorkIn(q) /\ t \notin WorkIn(Tail(q))
PROOF
<1>1. /\ Tail(q) \in Seq(Message) /\ Len(q) \in Nat /\ Len(q) # 0
      /\ Head(q) = q[1] /\ Len(Tail(q)) = Len(q) - 1
      /\ \A i \in 1 .. Len(q) - 1 : Tail(q)[i] = q[i + 1]
  OBVIOUS
<1>2. DOMAIN q = 1 .. Len(q) /\ DOMAIN Tail(q) = 1 .. Len(q) - 1
  BY <1>1
<1>3. Once(Tail(q))
  BY <1>1, <1>2 DEF Once
<1>4. WorkIn(Tail(q)) \subseteq WorkIn(q)
  BY <1>1, <1>2 DEF WorkIn
<1>5. ASSUME NEW t \in Tasks, Head(q) = Work(t)
      PROVE  t \in WorkIn(q) /\ t \notin WorkIn(Tail(q))
  BY <1>1, <1>2, <1>5 DEF WorkIn, Once, Work
<1> QED BY <1>1, <1>3, <1>4, <1>5

\* Queues with no task in common join to one with no task twice.
LEMMA ConcatWork ==
    ASSUME NEW p \in Seq(Message), NEW q \in Seq(Message)
    PROVE  /\ p \o q \in Seq(Message)
           /\ WorkIn(p \o q) = WorkIn(p) \cup WorkIn(q)
           /\ Once(p) /\ Once(q) /\ WorkIn(p) \cap WorkIn(q) = {} => Once(p \o q)
PROOF
<1>1. /\ p \o q \in Seq(Message) /\ Len(p) \in Nat /\ Len(q) \in Nat
      /\ Len(p \o q) = Len(p) + Len(q)
      /\ DOMAIN p = 1 .. Len(p) /\ DOMAIN q = 1 .. Len(q)
      /\ DOMAIN (p \o q) = 1 .. Len(p) + Len(q)
      /\ \A i \in 1 .. Len(p) : (p \o q)[i] = p[i]
      /\ \A i \in 1 .. Len(q) : (p \o q)[Len(p) + i] = q[i]
  OBVIOUS
<1>2. \A i \in DOMAIN (p \o q) :
          \/ i \in DOMAIN p /\ (p \o q)[i] = p[i]
          \/ i - Len(p) \in DOMAIN q /\ (p \o q)[i] = q[i - Len(p)]
  <2> SUFFICES ASSUME NEW i \in 1 .. Len(p) + Len(q), i \notin 1 .. Len(p)
               PROVE  i - Len(p) \in 1 .. Len(q) /\ (p \o q)[i] = q[i - Len(p)]
    BY <1>1
  <2>1. i - Len(p) \in 1 .. Len(q) /\ Len(p) + (i - Len(p)) = i
    BY <1>1
  <2> QED BY <1>1, <2>1
<1>3. WorkIn(p \o q) = WorkIn(p) \cup WorkIn(q)
  <2>1. WorkIn(p \o q) \subseteq WorkIn(p) \cup WorkIn(q)
    BY <1>2 DEF WorkIn
  <2>2. \A i \in DOMAIN p : i \in DOMAIN (p \o q) /\ (p \o q)[i] = p[i]
    BY <1>1
  <2>3. \A i \in DOMAIN q : Len(p) + i \in DOMAIN (p \o q) /\ (p \o q)[Len(p) + i] = q[i]
    BY <1>1
  <2> QED BY <2>1, <2>2, <2>3 DEF WorkIn
<1>4. ASSUME Once(p), Once(q), WorkIn(p) \cap WorkIn(q) = {}
      PROVE  Once(p \o q)
  <2> SUFFICES ASSUME NEW i \in DOMAIN (p \o q), NEW j \in DOMAIN (p \o q),
                      (p \o q)[i].type = "work", (p \o q)[i] = (p \o q)[j]
               PROVE  i = j
    BY DEF Once
  <2>1. (p \o q)[i] \in Message
    BY <1>1
  <2>2. PICK t \in Tasks : (p \o q)[i] = Work(t)
    BY <2>1 DEF Message, Work, NextResponse
  <2>3. \A k \in DOMAIN p : p[k] = Work(t) => t \in WorkIn(p)
    BY DEF WorkIn
  <2>4. \A k \in DOMAIN q : q[k] = Work(t) => t \in WorkIn(q)
    BY DEF WorkIn
  <2>5. CASE i \in DOMAIN p /\ j \in DOMAIN p
    BY <1>1, <2>5, <1>4 DEF Once
  <2>6. CASE i \notin DOMAIN p /\ j \notin DOMAIN p
    <3>1. /\ i - Len(p) \in DOMAIN q /\ (p \o q)[i] = q[i - Len(p)]
          /\ j - Len(p) \in DOMAIN q /\ (p \o q)[j] = q[j - Len(p)]
      BY <1>2, <2>6
    <3>2. i - Len(p) = j - Len(p)
      BY <3>1, <1>4 DEF Once
    <3> QED BY <3>2, <1>1
  <2>7. CASE ~(i \in DOMAIN p <=> j \in DOMAIN p)
    <3>1. \A k \in DOMAIN (p \o q) : k \in DOMAIN p /\ (p \o q)[k] = Work(t) => t \in WorkIn(p)
      BY <1>1, <2>3
    <3>2. \A k \in DOMAIN (p \o q) : k \notin DOMAIN p /\ (p \o q)[k] = Work(t) => t \in WorkIn(q)
      BY <1>2, <2>4
    <3>3. t \in WorkIn(p) /\ t \in WorkIn(q)
      BY <2>2, <2>7, <3>1, <3>2
    <3> QED BY <3>3, <1>4
  <2> QED BY <2>5, <2>6, <2>7
<1> QED BY <1>1, <1>3, <1>4

\* The elements of a suffix.
LEMMA SuffixProperties ==
    ASSUME NEW S, NEW q \in Seq(S), NEW m \in 0 .. Len(q)
    PROVE  /\ SubSeq(q, m + 1, Len(q)) \in Seq(S)
           /\ Len(SubSeq(q, m + 1, Len(q))) = Len(q) - m
           /\ \A i \in 1 .. Len(q) - m : SubSeq(q, m + 1, Len(q))[i] = q[m + i]
PROOF
<1>1. Len(q) \in Nat /\ m \in Nat /\ m + 1 \in Int /\ m <= Len(q)
  OBVIOUS
<1>2. SubSeq(q, m + 1, Len(q)) \in Seq(S) /\ Len(SubSeq(q, m + 1, Len(q))) = Len(q) - m
  BY <1>1
<1>3. ASSUME NEW first \in Int, NEW last \in Int, first = m + 1, last = Len(q),
             NEW i \in 1 .. last - m
      PROVE  SubSeq(q, first, last)[i] = q[m + i]
  <2>1. \A k \in first .. last : q[k] \in S
    BY <1>1, <1>3
  <2>2. \A k \in 1 .. last - first + 1 : SubSeq(q, first, last)[k] = q[first + k - 1]
    BY <1>3, <2>1, SubSeqProperties
  <2>3. i \in 1 .. last - first + 1 /\ first + i - 1 = m + i
    BY <1>1, <1>3
  <2> QED BY <2>2, <2>3
<1> QED BY <1>1, <1>2, <1>3

\* a is the front and b the rest of q.
Cut(q, a, b) == \E m \in 0 .. Len(q) : a = SubSeq(q, 1, m) /\ b = SubSeq(q, m + 1, Len(q))

\* Cutting a queue in two keeps what it holds and separates it.
LEMMA CutWork ==
    ASSUME NEW q \in Seq(Message), Once(q), NEW a, NEW b, Cut(q, a, b)
    PROVE  /\ a \in Seq(Message) /\ b \in Seq(Message)
           /\ Once(a) /\ Once(b)
           /\ WorkIn(a) \subseteq WorkIn(q) /\ WorkIn(b) \subseteq WorkIn(q)
           /\ WorkIn(a) \cap WorkIn(b) = {}
PROOF
<1>0. PICK m \in 0 .. Len(q) : a = SubSeq(q, 1, m) /\ b = SubSeq(q, m + 1, Len(q))
  BY DEF Cut
<1>1. Len(q) \in Nat /\ DOMAIN q = 1 .. Len(q) /\ m \in Nat /\ m <= Len(q)
  OBVIOUS
<1>2. /\ a \in Seq(Message) /\ DOMAIN a = 1 .. m
      /\ \A i \in 1 .. m : i \in DOMAIN q /\ a[i] = q[i]
  BY <1>0, <1>1
<1>3. /\ b \in Seq(Message) /\ DOMAIN b = 1 .. Len(q) - m
      /\ \A i \in 1 .. Len(q) - m : b[i] = q[m + i]
  BY <1>0, <1>1, SuffixProperties
<1>4. \A i \in DOMAIN b : m + i \in DOMAIN q /\ b[i] = q[m + i]
  BY <1>1, <1>3
<1>5. Once(a) /\ WorkIn(a) \subseteq WorkIn(q)
  BY <1>2 DEF Once, WorkIn
<1>6. Once(b)
  <2> SUFFICES ASSUME NEW i \in DOMAIN b, NEW j \in DOMAIN b,
                      b[i].type = "work", b[i] = b[j]
               PROVE  i = j
    BY DEF Once
  <2>1. m + i = m + j
    BY <1>4 DEF Once
  <2> QED BY <2>1, <1>1, <1>3
<1>7. WorkIn(b) \subseteq WorkIn(q)
  BY <1>4 DEF WorkIn
<1>8. ASSUME NEW t \in Tasks, t \in WorkIn(a), t \in WorkIn(b) PROVE FALSE
  <2>1. PICK i \in DOMAIN a : a[i] = Work(t)
    BY <1>8 DEF WorkIn
  <2>2. PICK j \in DOMAIN b : b[j] = Work(t)
    BY <1>8 DEF WorkIn
  <2>3. /\ i \in DOMAIN q /\ m + j \in DOMAIN q
        /\ q[i] = Work(t) /\ q[m + j] = Work(t) /\ i # m + j
    BY <1>1, <1>2, <1>3, <1>4, <2>1, <2>2
  <2> QED BY <2>3 DEF Once, Work
<1> QED BY <1>2, <1>3, <1>5, <1>6, <1>7, <1>8 DEF WorkIn

\* A task pushed behind a queue that does not hold it.
LEMMA AppendWork ==
    ASSUME NEW q \in Seq(Message), NEW m \in Message, Once(q)
    PROVE  /\ Append(q, m) \in Seq(Message)
           /\ WorkIn(Append(q, m)) = WorkIn(q) \cup {t \in Tasks : m = Work(t)}
           /\ (\A t \in Tasks : m = Work(t) => t \notin WorkIn(q)) => Once(Append(q, m))
PROOF
<1>1. /\ Append(q, m) \in Seq(Message) /\ Len(q) \in Nat /\ DOMAIN q = 1 .. Len(q)
      /\ DOMAIN Append(q, m) = 1 .. Len(q) + 1
      /\ \A i \in 1 .. Len(q) : Append(q, m)[i] = q[i]
      /\ Append(q, m)[Len(q) + 1] = m
  OBVIOUS
<1>2. \A i \in 1 .. Len(q) + 1 : i \in 1 .. Len(q) \/ i = Len(q) + 1
  BY <1>1
<1>3. WorkIn(Append(q, m)) = WorkIn(q) \cup {t \in Tasks : m = Work(t)}
  BY <1>1, <1>2 DEF WorkIn
<1>4. ASSUME \A t \in Tasks : m = Work(t) => t \notin WorkIn(q)
      PROVE  Once(Append(q, m))
  <2>1. \A i \in DOMAIN q : q[i] = m /\ m.type = "work" => FALSE
    BY <1>4 DEF WorkIn, Message, Work, NextResponse
  <2> QED BY <1>1, <1>2, <2>1 DEF Once
<1> QED BY <1>1, <1>3, <1>4

-----------------------------------------------------------------------------
(* The inductive invariant                                                 *)

QueueType == queue_tasks \in Seq(Message) /\ queue_tasks_deferred \in Seq(Message)

\* The queues hold a task once, and none that a slot runs.
QueuesApart ==
    /\ Once(queue_tasks) /\ Once(queue_tasks_deferred)
    /\ WorkIn(queue_tasks) \cap WorkIn(queue_tasks_deferred) = {}
    /\ OnSlots \cap (WorkIn(queue_tasks) \cup WorkIn(queue_tasks_deferred)) = {}

SlotsApart == /\ \A s \in Slots : Busy(s) => id_task[s] \in Tasks
              /\ \A r, s \in Slots : Busy(r) /\ Busy(s) /\ id_task[r] = id_task[s] => r = s

Everywhere == WorkIn(queue_tasks) \cup WorkIn(queue_tasks_deferred) \cup OnSlots

\* The tasks of a request that has not posted them are nowhere yet.
UnpostedNowhere ==
    \A r \in Requests : pc[r] \in {"new", "registered"} => Ids(r) \cap Everywhere = {}

\* What the for-loops of update_slots rely on when they come to a slot.
LoopInv ==
    /\ loop = "shift" => \A s \in todo : state[s] # "idle"
    /\ loop = "batch" => \A s \in todo : state[s] = "prompt"
    /\ loop = "token" => \E s \in Slots : todo = {s} /\ state[s] = "generating"
    /\ \A s \in Slots : state[s] = "done_prompt" => n_decoded[s] = 0
    /\ \A s \in Slots : state[s] = "generating" /\ ~(loop = "token" /\ s \in todo)
                          => n_decoded[s] < MaxTokens

PlacesInv == QueueType /\ QueuesApart /\ SlotsApart

IInv == TypeOK /\ LoopInv /\ QueuesApart /\ SlotsApart /\ UnpostedNowhere

\* pop_deferred_task() moves tasks between the queues and changes neither what
\* they hold together nor that they hold it once.
LEMMA PopDeferredWork ==
    ASSUME NEW front \in Seq(Message), NEW k \in Nat, PopDeferred(front, k), QueueType,
           Once(front), Once(queue_tasks_deferred),
           WorkIn(front) \cap WorkIn(queue_tasks_deferred) = {}
    PROVE  /\ QueueType'
           /\ Once(queue_tasks') /\ Once(queue_tasks_deferred')
           /\ WorkIn(queue_tasks') \cap WorkIn(queue_tasks_deferred') = {}
           /\ WorkIn(queue_tasks') \cup WorkIn(queue_tasks_deferred')
                  \subseteq WorkIn(front) \cup WorkIn(queue_tasks_deferred)
PROOF
<1>1. queue_tasks_deferred \in Seq(Message)
      /\ Least(k, Len(queue_tasks_deferred)) \in 0 .. Len(queue_tasks_deferred)
  BY DEF QueueType, Least
<1>2. PICK moved, kept :
          /\ Cut(queue_tasks_deferred, moved, kept)
          /\ queue_tasks' = front \o moved /\ queue_tasks_deferred' = kept
  BY <1>1 DEF PopDeferred, Cut
<1>3. /\ moved \in Seq(Message) /\ kept \in Seq(Message) /\ Once(moved) /\ Once(kept)
      /\ WorkIn(moved) \subseteq WorkIn(queue_tasks_deferred)
      /\ WorkIn(kept) \subseteq WorkIn(queue_tasks_deferred)
      /\ WorkIn(moved) \cap WorkIn(kept) = {}
  BY <1>1, <1>2, CutWork
<1>4. WorkIn(front) \cap WorkIn(moved) = {}
  BY <1>2, <1>3
<1>5. /\ front \o moved \in Seq(Message) /\ Once(front \o moved)
      /\ WorkIn(front \o moved) = WorkIn(front) \cup WorkIn(moved)
  BY <1>3, <1>4, ConcatWork
<1> QED BY <1>2, <1>3, <1>5 DEF QueueType

\* Tasks that stay within the queues, while no slot becomes busy or changes its task.
LEMMA StayingPlaces ==
    ASSUME PlacesInv, QueueType', Once(queue_tasks'), Once(queue_tasks_deferred'),
           WorkIn(queue_tasks') \cap WorkIn(queue_tasks_deferred') = {},
           WorkIn(queue_tasks') \cup WorkIn(queue_tasks_deferred')
               \subseteq WorkIn(queue_tasks) \cup WorkIn(queue_tasks_deferred),
           \A x \in Slots : Busy(x)' => Busy(x) /\ id_task'[x] = id_task[x]
    PROVE  PlacesInv' /\ Everywhere' \subseteq Everywhere
PROOF
<1>1. OnSlots' \subseteq OnSlots
  BY DEF OnSlots
<1>2. SlotsApart'
  BY DEF PlacesInv, SlotsApart
<1> QED BY <1>1, <1>2 DEF PlacesInv, QueuesApart, Everywhere

\* Steps that touch neither a queue nor which slots are busy.
LEMMA QueuesUntouched ==
    ASSUME PlacesInv, UNCHANGED <<queue_tasks, queue_tasks_deferred, id_task>>,
           \A x \in Slots : Busy(x)' => Busy(x)
    PROVE  PlacesInv' /\ Everywhere' \subseteq Everywhere
PROOF
<1>1. /\ queue_tasks' = queue_tasks /\ queue_tasks_deferred' = queue_tasks_deferred
      /\ id_task' = id_task
  OBVIOUS
<1>2. QueueType'
  BY <1>1 DEF PlacesInv, QueueType
<1> QED BY <1>1, <1>2, StayingPlaces DEF PlacesInv, QueuesApart

\* Releasing a slot.
LEMMA ReleasePlaces ==
    ASSUME PlacesInv, NEW s \in Slots, Release(s), UNCHANGED id_task,
           state \in [Slots -> {"idle", "prompt", "done_prompt", "generating"}]
    PROVE  PlacesInv' /\ Everywhere' \subseteq Everywhere
PROOF
<1>1. PICK k \in Nat : PopDeferred(queue_tasks, k)
  BY DEF Release
<1>2. /\ QueueType' /\ Once(queue_tasks') /\ Once(queue_tasks_deferred')
      /\ WorkIn(queue_tasks') \cap WorkIn(queue_tasks_deferred') = {}
      /\ WorkIn(queue_tasks') \cup WorkIn(queue_tasks_deferred')
             \subseteq WorkIn(queue_tasks) \cup WorkIn(queue_tasks_deferred)
  <2>1. queue_tasks \in Seq(Message)
    BY DEF PlacesInv, QueueType
  <2> QED BY <1>1, <2>1, PopDeferredWork DEF PlacesInv, QueuesApart
<1>3. \A x \in Slots : Busy(x)' => Busy(x) /\ id_task'[x] = id_task[x]
  BY DEF Release, Busy
<1> QED BY <1>2, <1>3, StayingPlaces

\* Taking the front task and then releasing slots: the task is gone from the queues.
LEMMA PopAndRelease ==
    ASSUME PlacesInv, queue_tasks # << >>, NEW k \in Nat,
           PopDeferred(Tail(queue_tasks), k)
    PROVE  /\ QueueType' /\ Once(queue_tasks') /\ Once(queue_tasks_deferred')
           /\ WorkIn(queue_tasks') \cap WorkIn(queue_tasks_deferred') = {}
           /\ WorkIn(queue_tasks') \cup WorkIn(queue_tasks_deferred')
                  \subseteq WorkIn(queue_tasks) \cup WorkIn(queue_tasks_deferred)
           /\ \A t \in Tasks : Head(queue_tasks) = Work(t) =>
                  /\ t \in WorkIn(queue_tasks)
                  /\ t \notin WorkIn(queue_tasks') \cup WorkIn(queue_tasks_deferred')
PROOF
<1>1. queue_tasks \in Seq(Message) /\ Once(queue_tasks) /\ QueueType
  BY DEF PlacesInv, QueueType, QueuesApart
<1>2. /\ Tail(queue_tasks) \in Seq(Message) /\ Once(Tail(queue_tasks))
      /\ WorkIn(Tail(queue_tasks)) \subseteq WorkIn(queue_tasks)
      /\ \A t \in Tasks : Head(queue_tasks) = Work(t) =>
             t \in WorkIn(queue_tasks) /\ t \notin WorkIn(Tail(queue_tasks))
  BY <1>1, TailWork
<1>3. /\ Once(queue_tasks_deferred)
      /\ WorkIn(queue_tasks) \cap WorkIn(queue_tasks_deferred) = {}
  BY DEF PlacesInv, QueuesApart
<1>4. /\ QueueType' /\ Once(queue_tasks') /\ Once(queue_tasks_deferred')
      /\ WorkIn(queue_tasks') \cap WorkIn(queue_tasks_deferred') = {}
      /\ WorkIn(queue_tasks') \cup WorkIn(queue_tasks_deferred')
             \subseteq WorkIn(Tail(queue_tasks)) \cup WorkIn(queue_tasks_deferred)
  BY <1>1, <1>2, <1>3, PopDeferredWork
<1> QED BY <1>2, <1>3, <1>4

\* Taking the front task and nothing else.
LEMMA PopPlaces ==
    ASSUME PlacesInv, queue_tasks # << >>, queue_tasks' = Tail(queue_tasks),
           UNCHANGED <<queue_tasks_deferred, state, id_task>>
    PROVE  PlacesInv' /\ Everywhere' \subseteq Everywhere
PROOF
<1>1. queue_tasks \in Seq(Message) /\ Once(queue_tasks)
  BY DEF PlacesInv, QueueType, QueuesApart
<1>2. /\ Tail(queue_tasks) \in Seq(Message) /\ Once(Tail(queue_tasks))
      /\ WorkIn(Tail(queue_tasks)) \subseteq WorkIn(queue_tasks)
  BY <1>1, TailWork
<1>3. \A x \in Slots : Busy(x)' => Busy(x) /\ id_task'[x] = id_task[x]
  BY DEF Busy
<1>4. queue_tasks_deferred' = queue_tasks_deferred /\ QueueType'
  BY <1>2 DEF PlacesInv, QueueType
<1> QED BY <1>2, <1>3, <1>4, StayingPlaces DEF PlacesInv, QueuesApart

\* Deferring the front task.
LEMMA DeferPlaces ==
    ASSUME PlacesInv, NEW t \in Tasks, AtFront(Work(t)), Defer(t),
           UNCHANGED <<state, id_task>>
    PROVE  PlacesInv' /\ Everywhere' \subseteq Everywhere
PROOF
<1>1. /\ queue_tasks \in Seq(Message) /\ queue_tasks_deferred \in Seq(Message)
      /\ Once(queue_tasks) /\ Once(queue_tasks_deferred) /\ queue_tasks # << >>
      /\ WorkIn(queue_tasks) \cap WorkIn(queue_tasks_deferred) = {}
      /\ Head(queue_tasks) = Work(t)
  BY DEF PlacesInv, QueueType, QueuesApart, AtFront
<1>2. /\ Tail(queue_tasks) \in Seq(Message) /\ Once(Tail(queue_tasks))
      /\ WorkIn(Tail(queue_tasks)) \subseteq WorkIn(queue_tasks)
      /\ t \in WorkIn(queue_tasks) /\ t \notin WorkIn(Tail(queue_tasks))
  BY <1>1, TailWork
<1>3. /\ Work(t) \in Message /\ \A u \in Tasks : Work(t) = Work(u) => u = t
      /\ t \notin WorkIn(queue_tasks_deferred)
  BY <1>1, <1>2 DEF Work, Message
<1>4. /\ Append(queue_tasks_deferred, Work(t)) \in Seq(Message)
      /\ Once(Append(queue_tasks_deferred, Work(t)))
      /\ WorkIn(Append(queue_tasks_deferred, Work(t)))
             \subseteq WorkIn(queue_tasks_deferred) \cup {t}
  BY <1>1, <1>3, AppendWork
<1>5. /\ queue_tasks' = Tail(queue_tasks)
      /\ queue_tasks_deferred' = Append(queue_tasks_deferred, Work(t))
      /\ QueueType'
  BY <1>2, <1>4 DEF Defer, QueueType
<1>6. \A x \in Slots : Busy(x)' => Busy(x) /\ id_task'[x] = id_task[x]
  BY DEF Busy
<1> QED BY <1>1, <1>2, <1>4, <1>5, <1>6, StayingPlaces

\* How many deferred tasks a system prompt, or the release of one slot, moves.
LEMMA ReleasedCount ==
    Cardinality({s \in Slots : Busy(s)}) \in Nat
PROOF
<1>1. NSlots \in Nat /\ NSlots - 1 \in Int
  BY SlotsAssumption
<1>2. IsFiniteSet(Slots)
  BY <1>1, FS_Interval DEF Slots
<1>3. {s \in Slots : Busy(s)} \subseteq Slots
  OBVIOUS
<1> QED BY <1>2, <1>3, FS_Subset, FS_CardinalityType

\* Launching the front task on a slot: it leaves the queues and is on that slot only.
LEMMA LaunchPlaces ==
    ASSUME PlacesInv, NEW t \in Tasks, NEW s \in Slots, NEW new \in BOOLEAN,
           AtFront(Work(t)), SystemPromptSet(new), s \in Candidates(t),
           id_task \in [Slots -> Tasks \cup {NoTask}],
           id_task' = [id_task EXCEPT ![s] = t],
           \A x \in Slots : Busy(x)' => Busy(x) \/ x = s
    PROVE  PlacesInv' /\ Everywhere' \subseteq Everywhere
PROOF
<1>1. /\ queue_tasks # << >> /\ Head(queue_tasks) = Work(t)
      /\ \E k \in Nat : PopDeferred(Tail(queue_tasks), k)
  BY ReleasedCount DEF AtFront, SystemPromptSet
<1>2. /\ QueueType' /\ Once(queue_tasks') /\ Once(queue_tasks_deferred')
      /\ WorkIn(queue_tasks') \cap WorkIn(queue_tasks_deferred') = {}
      /\ WorkIn(queue_tasks') \cup WorkIn(queue_tasks_deferred')
             \subseteq WorkIn(queue_tasks) \cup WorkIn(queue_tasks_deferred)
      /\ t \in WorkIn(queue_tasks)
      /\ t \notin WorkIn(queue_tasks') \cup WorkIn(queue_tasks_deferred')
  BY <1>1, PopAndRelease
<1>3. \A x \in Slots : Busy(x) => id_task[x] # t
  BY <1>2 DEF PlacesInv, QueuesApart, OnSlots
<1>4. ~Busy(s) /\ id_task'[s] = t /\ \A x \in Slots : x # s => id_task'[x] = id_task[x]
  BY DEF Candidates
<1>5. SlotsApart'
  BY <1>3, <1>4 DEF PlacesInv, SlotsApart
<1>6. OnSlots' \subseteq OnSlots \cup {t}
  BY <1>4 DEF OnSlots
<1>7. OnSlots \cap (WorkIn(queue_tasks) \cup WorkIn(queue_tasks_deferred)) = {}
  BY DEF PlacesInv, QueuesApart
<1> QED BY <1>2, <1>5, <1>6, <1>7 DEF PlacesInv, QueuesApart, Everywhere

\* Cancelling a task.
LEMMA CancelPlaces ==
    ASSUME PlacesInv, NEW t \in Tasks, ProcessCancel(t),
           state \in [Slots -> {"idle", "prompt", "done_prompt", "generating"}]
    PROVE  PlacesInv' /\ Everywhere' \subseteq Everywhere
PROOF
<1>1. queue_tasks # << >> /\ UNCHANGED id_task
  BY DEF ProcessCancel, AtFront, slotVars
<1>2. CASE queue_tasks' = Tail(queue_tasks) /\ UNCHANGED <<queue_tasks_deferred, state>>
  BY <1>1, <1>2, PopPlaces
<1>3. CASE \E s \in Slots : /\ PopDeferred(Tail(queue_tasks), IF Busy(s) THEN 1 ELSE 0)
                            /\ state' = [state EXCEPT ![s] = "idle"]
  <2>1. \E k \in Nat : PopDeferred(Tail(queue_tasks), k)
    BY <1>3
  <2>2. \A x \in Slots : Busy(x)' => Busy(x) /\ id_task'[x] = id_task[x]
    BY <1>1, <1>3 DEF Busy
  <2>3. /\ QueueType' /\ Once(queue_tasks') /\ Once(queue_tasks_deferred')
        /\ WorkIn(queue_tasks') \cap WorkIn(queue_tasks_deferred') = {}
        /\ WorkIn(queue_tasks') \cup WorkIn(queue_tasks_deferred')
               \subseteq WorkIn(queue_tasks) \cup WorkIn(queue_tasks_deferred)
    BY <1>1, <2>1, PopAndRelease
  <2> QED BY <2>2, <2>3, StayingPlaces
<1> QED BY <1>2, <1>3 DEF ProcessCancel

\* Cancels and NEXT_RESPONSE put in a queue are no tasks' work.
LEMMA NoWork ==
    ASSUME NEW q \in Seq(Message), \A i \in DOMAIN q : q[i].type # "work"
    PROVE  Once(q) /\ WorkIn(q) = {}
BY DEF Once, WorkIn, Work

\* Posting a request's tasks, which were nowhere before.
LEMMA PostPlaces ==
    ASSUME PlacesInv, UnpostedNowhere, NEW r \in Requests, Post(r)
    PROVE  PlacesInv' /\ Everywhere' \subseteq Everywhere \cup Ids(r)
PROOF
<1>1. PICK posted :
          /\ posted = [i \in DOMAIN TasksOf[r] |-> Work(TasksOf[r][i])]
          /\ queue_tasks' = posted \o queue_tasks \/ queue_tasks' = queue_tasks \o posted
  BY DEF Post
<1>2. TasksOf[r] \in Seq(Tasks)
  BY RequestsAssumption
<1>3. posted \in Seq(Message)
  BY <1>1, <1>2 DEF Message, Work
<1>4. WorkIn(posted) = Ids(r)
  <2>1. /\ DOMAIN posted = DOMAIN TasksOf[r]
        /\ \A i \in DOMAIN TasksOf[r] : posted[i] = Work(TasksOf[r][i]) /\ TasksOf[r][i] \in Tasks
    BY <1>1, <1>2
  <2>2. \A t, u \in Tasks : Work(t) = Work(u) => t = u
    BY DEF Work
  <2> QED BY <2>1, <2>2 DEF WorkIn, Ids
<1>5. Once(posted)
  BY <1>1, FreshIdsAssumption DEF Once, Work
<1>6. Ids(r) \cap Everywhere = {}
  BY DEF UnpostedNowhere, Post
<1>7. /\ queue_tasks \in Seq(Message) /\ Once(queue_tasks)
      /\ WorkIn(posted) \cap WorkIn(queue_tasks) = {}
  BY <1>4, <1>6 DEF PlacesInv, QueueType, QueuesApart, Everywhere
<1>8. /\ queue_tasks' \in Seq(Message) /\ Once(queue_tasks')
      /\ WorkIn(queue_tasks') = WorkIn(queue_tasks) \cup Ids(r)
  <2>1. CASE queue_tasks' = posted \o queue_tasks
    <3>1. /\ posted \o queue_tasks \in Seq(Message) /\ Once(posted \o queue_tasks)
          /\ WorkIn(posted \o queue_tasks) = WorkIn(posted) \cup WorkIn(queue_tasks)
      BY <1>3, <1>5, <1>7, ConcatWork
    <3> QED BY <1>4, <2>1, <3>1
  <2>2. CASE queue_tasks' = queue_tasks \o posted
    <3>1. WorkIn(queue_tasks) \cap WorkIn(posted) = {}
      BY <1>7
    <3>2. /\ queue_tasks \o posted \in Seq(Message) /\ Once(queue_tasks \o posted)
          /\ WorkIn(queue_tasks \o posted) = WorkIn(queue_tasks) \cup WorkIn(posted)
      BY <1>3, <1>5, <1>7, <3>1, ConcatWork
    <3> QED BY <1>4, <2>2, <3>2
  <2> QED BY <1>1, <2>1, <2>2
<1>9. queue_tasks_deferred' = queue_tasks_deferred /\ id_task' = id_task /\ state' = state
  BY DEF Post, slotVars
<1>10. OnSlots' = OnSlots /\ SlotsApart'
  BY <1>9 DEF OnSlots, Busy, PlacesInv, SlotsApart
<1> QED BY <1>6, <1>8, <1>9, <1>10 DEF PlacesInv, QueueType, QueuesApart, Everywhere

\* Putting messages that are no work on either end of the queue.
LEMMA OtherPlaces ==
    ASSUME PlacesInv, NEW q \in Seq(Message), \A i \in DOMAIN q : q[i].type # "work",
           queue_tasks' = q \o queue_tasks,
           UNCHANGED <<queue_tasks_deferred, state, id_task>>
    PROVE  PlacesInv' /\ Everywhere' \subseteq Everywhere
PROOF
<1>1. Once(q) /\ WorkIn(q) = {}
  BY NoWork
<1>2. queue_tasks \in Seq(Message) /\ Once(queue_tasks)
  BY DEF PlacesInv, QueueType, QueuesApart
<1>3. /\ queue_tasks' \in Seq(Message) /\ Once(queue_tasks')
      /\ WorkIn(queue_tasks') = WorkIn(queue_tasks)
  <2>1. WorkIn(q) \cap WorkIn(queue_tasks) = {}
    BY <1>1
  <2>2. /\ q \o queue_tasks \in Seq(Message) /\ Once(q \o queue_tasks)
        /\ WorkIn(q \o queue_tasks) = WorkIn(q) \cup WorkIn(queue_tasks)
    BY <1>1, <1>2, <2>1, ConcatWork
  <2> QED BY <1>1, <2>2
<1>4. \A x \in Slots : Busy(x)' => Busy(x) /\ id_task'[x] = id_task[x]
  BY DEF Busy
<1>5. queue_tasks_deferred' = queue_tasks_deferred /\ QueueType'
  BY <1>3 DEF PlacesInv, QueueType
<1> QED BY <1>3, <1>4, <1>5, StayingPlaces DEF PlacesInv, QueuesApart

LEMMA NextResponsePlaces ==
    ASSUME PlacesInv, queue_tasks' = Append(queue_tasks, NextResponse),
           UNCHANGED <<queue_tasks_deferred, state, id_task>>
    PROVE  PlacesInv' /\ Everywhere' \subseteq Everywhere
PROOF
<1>1. queue_tasks \in Seq(Message) /\ Once(queue_tasks)
  BY DEF PlacesInv, QueueType, QueuesApart
<1>2. NextResponse \in Message /\ \A t \in Tasks : NextResponse # Work(t)
  BY DEF NextResponse, Message, Work
<1>3. /\ queue_tasks' \in Seq(Message) /\ Once(queue_tasks')
      /\ WorkIn(queue_tasks') = WorkIn(queue_tasks)
  <2>1. {t \in Tasks : NextResponse = Work(t)} = {}
    BY <1>2
  <2>2. /\ Append(queue_tasks, NextResponse) \in Seq(Message)
        /\ Once(Append(queue_tasks, NextResponse))
        /\ WorkIn(Append(queue_tasks, NextResponse))
               = WorkIn(queue_tasks) \cup {t \in Tasks : NextResponse = Work(t)}
    BY <1>1, <1>2, AppendWork
  <2> QED BY <2>1, <2>2
<1>4. \A x \in Slots : Busy(x)' => Busy(x) /\ id_task'[x] = id_task[x]
  BY DEF Busy
<1>5. queue_tasks_deferred' = queue_tasks_deferred /\ QueueType'
  BY <1>3 DEF PlacesInv, QueueType
<1> QED BY <1>3, <1>4, <1>5, StayingPlaces DEF PlacesInv, QueuesApart

-----------------------------------------------------------------------------
(* Where tasks are, action by action                                       *)

\* The main loop never puts a task anywhere it was not handed one.
LEMMA ProcessPlaces ==
    ASSUME IInv, ProcessSingleTask
    PROVE  PlacesInv' /\ Everywhere' \subseteq Everywhere
PROOF
<1> PlacesInv /\ TypeOK
  BY DEF IInv, TypeOK, PlacesInv, QueueType
<1>1. ASSUME NEW t \in Tasks, DeferCompletion(t)
      PROVE  PlacesInv' /\ Everywhere' \subseteq Everywhere
  BY <1>1, DeferPlaces DEF DeferCompletion, slotVars
<1>2. ASSUME NEW t \in Tasks, NEW s \in Slots, NEW new \in BOOLEAN, LaunchSlot(t, s, new)
      PROVE  PlacesInv' /\ Everywhere' \subseteq Everywhere
  <2>1. \A x \in Slots : Busy(x)' => Busy(x) \/ x = s
    BY <1>2 DEF LaunchSlot, Busy
  <2> QED BY <1>2, <2>1, LaunchPlaces DEF LaunchSlot, TypeOK
<1>3. ASSUME NEW t \in Tasks, NEW s \in Slots, NEW new \in BOOLEAN, LaunchFails(t, s, new)
      PROVE  PlacesInv' /\ Everywhere' \subseteq Everywhere
  <2>1. \A x \in Slots : Busy(x)' => Busy(x) \/ x = s
    BY <1>3 DEF LaunchFails, Busy
  <2> QED BY <1>3, <2>1, LaunchPlaces DEF LaunchFails, TypeOK
<1>4. ASSUME NEW t \in Tasks, ProcessCancel(t)
      PROVE  PlacesInv' /\ Everywhere' \subseteq Everywhere
  BY <1>4, CancelPlaces DEF TypeOK
<1>5. ASSUME NEW t \in Tasks, ProcessAtOnce(t)
      PROVE  PlacesInv' /\ Everywhere' \subseteq Everywhere
  BY <1>5, PopPlaces DEF ProcessAtOnce, AtFront, slotVars
<1>6. ASSUME NEW t \in Tasks, ProcessSlotAction(t)
      PROVE  PlacesInv' /\ Everywhere' \subseteq Everywhere
  <2>1. UNCHANGED <<state, id_task>> /\ queue_tasks # << >> /\ AtFront(Work(t))
    BY <1>6 DEF ProcessSlotAction, AtFront, slotVars
  <2>2. CASE queue_tasks' = Tail(queue_tasks) /\ UNCHANGED queue_tasks_deferred
    BY <2>1, <2>2, PopPlaces
  <2>3. CASE Defer(t)
    BY <2>1, <2>3, DeferPlaces
  <2> QED BY <1>6, <2>2, <2>3 DEF ProcessSlotAction
<1>7. ASSUME ProcessNextResponse
      PROVE  PlacesInv' /\ Everywhere' \subseteq Everywhere
  BY <1>7, PopPlaces DEF ProcessNextResponse, AtFront, slotVars
<1> QED BY <1>1, <1>2, <1>3, <1>4, <1>5, <1>6, <1>7 DEF ProcessSingleTask

LEMMA UpdateSlotPlaces ==
    ASSUME IInv, NEW s \in Slots, UpdateSlot(s)
    PROVE  PlacesInv' /\ Everywhere' \subseteq Everywhere
PROOF
<1> PlacesInv /\ TypeOK
  BY DEF IInv, TypeOK, PlacesInv, QueueType
<1>1. CASE ContextFull(s) \/ RejectPrompt(s) \/ DecodeEmbedding(s) \/ StopSlot(s) \/ FailSlot(s)
  <2>1. Release(s) /\ UNCHANGED id_task
    BY <1>1 DEF ContextFull, RejectPrompt, DecodeEmbedding, StopSlot, FailSlot
  <2> QED BY <2>1, ReleasePlaces DEF TypeOK
<1>2. CASE BatchPrompt(s)
  <2>1. \A x \in Slots : Busy(x)' => Busy(x)
    BY <1>2 DEF BatchPrompt, IsNext, IInv, LoopInv, TypeOK, Busy
  <2> QED BY <1>2, <2>1, QueuesUntouched DEF BatchPrompt, queueVars
<1>3. CASE SampleToken(s)
  <2>1. \A x \in Slots : Busy(x)' => Busy(x)
    BY <1>3 DEF SampleToken, TypeOK, Busy
  <2> QED BY <1>3, <2>1, QueuesUntouched DEF SampleToken, queueVars
<1>4. CASE Tokenize(s) \/ SkipPrompt(s) \/ BatchPartOfPrompt(s) \/ DecodePart(s)
           \/ ContinueSlot(s)
  <2>1. UNCHANGED <<queue_tasks, queue_tasks_deferred, id_task, state>>
    BY <1>4 DEF Tokenize, SkipPrompt, BatchPartOfPrompt, DecodePart, ContinueSlot,
                queueVars, slotVars
  <2>2. \A x \in Slots : Busy(x)' => Busy(x)
    BY <2>1 DEF Busy
  <2> QED BY <2>1, <2>2, QueuesUntouched
<1> QED BY <1>1, <1>2, <1>3, <1>4 DEF UpdateSlot

LEMMA MainLoopPlaces ==
    ASSUME IInv, MainLoop
    PROVE  PlacesInv' /\ Everywhere' \subseteq Everywhere
PROOF
<1> PlacesInv
  BY DEF IInv, TypeOK, PlacesInv, QueueType
<1>1. CASE ProcessSingleTask
  BY <1>1, ProcessPlaces
<1>2. CASE \E s \in Slots : UpdateSlot(s)
  BY <1>2, UpdateSlotPlaces
<1>3. CASE UpdateSlots
  <2>1. UNCHANGED <<queue_tasks_deferred, state, id_task>>
    BY <1>3 DEF UpdateSlots, slotVars
  <2>2. CASE queue_tasks' = Append(queue_tasks, NextResponse)
    BY <2>1, <2>2, NextResponsePlaces
  <2>3. CASE UNCHANGED queue_tasks
    <3>1. \A x \in Slots : Busy(x)' => Busy(x)
      BY <2>1 DEF Busy
    <3> QED BY <2>1, <2>3, <3>1, QueuesUntouched
  <2> QED BY <1>3, <2>2, <2>3 DEF UpdateSlots
<1>4. CASE BatchSampled \/ TasksDrained \/ WaitForTasks \/ BatchReady \/ DecodeDone \/ DecodeFails
           \/ FailDone
  <2>1. UNCHANGED <<queue_tasks, queue_tasks_deferred, id_task, state>>
    BY <1>4 DEF BatchSampled, TasksDrained, WaitForTasks, BatchReady, DecodeDone, DecodeFails,
                FailDone,
                queueVars, slotVars
  <2>2. \A x \in Slots : Busy(x)' => Busy(x)
    BY <2>1 DEF Busy
  <2> QED BY <2>1, <2>2, QueuesUntouched
<1> QED BY <1>1, <1>2, <1>3, <1>4 DEF MainLoop

\* A handler puts its own tasks in the queue, once, and nothing else.
LEMMA HandlerPlaces ==
    ASSUME IInv, NEW r \in Requests, Handler(r)
    PROVE  PlacesInv' /\ UnpostedNowhere'
PROOF
<1> PlacesInv /\ TypeOK /\ UnpostedNowhere
  BY DEF IInv, TypeOK, PlacesInv, QueueType
<1>1. CASE Post(r)
  <2>1. PlacesInv' /\ Everywhere' \subseteq Everywhere \cup Ids(r)
    BY <1>1, PostPlaces
  <2>2. pc'[r] \notin {"new", "registered"} /\ \A q \in Requests : q # r => pc'[q] = pc[q]
    BY <1>1 DEF Post, TypeOK
  <2>3. \A q \in Requests : q # r => Ids(q) \cap Ids(r) = {}
    BY FreshIdsAssumption DEF Ids
  <2> QED BY <2>1, <2>2, <2>3 DEF UnpostedNowhere
<1>2. CASE AddWaitingTasks(r) \/ Recv(r) \/ CancelForget(r) \/ CancelPost(r)
           \/ RemoveWaiting(r)
  <2>1. \A q \in Requests : pc'[q] \in {"new", "registered"} => pc[q] \in {"new", "registered"}
    BY <1>2 DEF AddWaitingTasks, Recv, AfterResult, CancelForget, CancelPost, RemoveWaiting,
                handlerVars, TypeOK
  <2>2. PlacesInv' /\ Everywhere' \subseteq Everywhere
    <3>1. CASE CancelPost(r)
      <4>a. PICK order \in [DOMAIN TasksOf[r] -> DOMAIN TasksOf[r]] :
                queue_tasks' = [i \in DOMAIN order |-> Cancel(TasksOf[r][order[i]])]
                                   \o queue_tasks
        BY <3>1 DEF CancelPost
      <4>1. PICK q : /\ q = [i \in DOMAIN order |-> Cancel(TasksOf[r][order[i]])]
                     /\ queue_tasks' = q \o queue_tasks
        BY <4>a
      <4>2. TasksOf[r] \in Seq(Tasks)
        BY RequestsAssumption
      <4>3. q \in Seq(Message) /\ \A i \in DOMAIN q : q[i].type # "work"
        <5>1. Len(TasksOf[r]) \in Nat /\ DOMAIN order = 1 .. Len(TasksOf[r])
          BY <4>1, <4>2
        <5>2. \A i \in DOMAIN order : TasksOf[r][order[i]] \in Tasks
          BY <4>1, <4>2, <5>1
        <5>3. \A t \in Tasks : Cancel(t) \in Message /\ Cancel(t).type # "work"
          BY DEF Message, Cancel
        <5>4. q \in [1 .. Len(TasksOf[r]) -> Message]
          BY <4>1, <5>1, <5>2, <5>3
        <5> QED BY <4>1, <5>1, <5>2, <5>3, <5>4
      <4>4. UNCHANGED <<queue_tasks_deferred, state, id_task>>
        BY <3>1 DEF CancelPost, slotVars
      <4> QED BY <4>1, <4>3, <4>4, OtherPlaces
    <3>2. CASE ~CancelPost(r)
      <4>1. UNCHANGED <<queue_tasks, queue_tasks_deferred, id_task, state>>
        BY <1>2, <3>2 DEF AddWaitingTasks, Recv, CancelForget, RemoveWaiting, queueVars,
                          slotVars
      <4>2. \A x \in Slots : Busy(x)' => Busy(x)
        BY <4>1 DEF Busy
      <4> QED BY <4>1, <4>2, QueuesUntouched
    <3> QED BY <3>1, <3>2
  <2> QED BY <2>1, <2>2 DEF UnpostedNowhere
<1> QED BY <1>1, <1>2 DEF Handler

-----------------------------------------------------------------------------
(* Types, action by action                                                 *)

LEMMA SendType ==
    ASSUME queue_results \in Seq(Result), NEW result \in Result, Send(result)
    PROVE  queue_results' \in Seq(Result)
BY DEF Send

LEMMA ResultTypes ==
    ASSUME NEW t \in Tasks, NEW n \in 0 .. MaxTokens
    PROVE  Final(t, n) \in Result /\ Partial(t, n) \in Result /\ Error(t) \in Result
BY SlotsAssumption DEF Final, Partial, Error, Result

LEMMA HandlerTypes ==
    ASSUME IInv, PlacesInv', NEW r \in Requests, Handler(r)
    PROVE  TypeOK' /\ LoopInv'
PROOF
<1> USE DEF IInv, TypeOK, LoopInv, slotVars, loopVars, resultVars, queueVars, handlerVars
<1>1. QueueType'
  BY DEF PlacesInv
<1>2. CASE AddWaitingTasks(r)
  <2>1. Ids(r) \subseteq Tasks
    <3>1. TasksOf[r] \in Seq(Tasks)
      BY RequestsAssumption
    <3> QED BY <3>1 DEF Ids
  <2>2. waiting_task_ids' \subseteq Tasks
    BY <1>2, <2>1 DEF AddWaitingTasks
  <2> QED BY <1>1, <1>2, <2>2 DEF AddWaitingTasks, QueueType
<1>3. CASE Post(r)
  BY <1>1, <1>3 DEF Post, QueueType
<1>4. CASE Recv(r)
  <2>1. PICK i \in DOMAIN queue_results : queue_results' = RemoveAt(queue_results, i)
    BY <1>4 DEF Recv
  <2>2. queue_results \in Seq(Result) /\ Len(queue_results) \in Nat /\ i \in 1 .. Len(queue_results)
    BY <2>1
  <2>3. queue_results' \in Seq(Result)
    <3>1. SubSeq(queue_results, 1, i - 1) \in Seq(Result)
      BY <2>2
    <3>2. SubSeq(queue_results, i + 1, Len(queue_results)) \in Seq(Result)
      BY <2>2, SuffixProperties
    <3> QED BY <2>1, <3>1, <3>2, SMTT(60) DEF RemoveAt
  <2>4. n_received' \in [Requests -> Nat] /\ answered' \subseteq Tasks
    <3>1. PICK j \in DOMAIN queue_results :
              /\ n_received' = [n_received EXCEPT ![r] = Counted(r, queue_results[j])]
              /\ answered' \in {answered, answered \cup {queue_results[j].id}}
      BY <1>4 DEF Recv
    <3>2. queue_results[j].id \in Tasks
      <4>1. queue_results[j] \in Result
        BY <3>1
      <4> QED BY <4>1 DEF Result
    <3>3. Counted(r, queue_results[j]) \in Nat
      BY DEF Counted
    <3>4. answered' \subseteq Tasks
      BY <3>1, <3>2
    <3> QED BY <3>1, <3>3, <3>4
  <2>5. pc' \in [Requests -> {"new", "registered", "posted", "recv", "cancel", "cleanup",
                              "done"}]
    BY <1>4, ZenonT(60) DEF Recv, AfterResult
  <2> QED BY <1>1, <1>4, <2>3, <2>4, <2>5, ZenonT(60) DEF Recv, QueueType
<1>5. CASE CancelForget(r)
  BY <1>1, <1>5 DEF CancelForget, QueueType
<1>6. CASE CancelPost(r)
  BY <1>1, <1>6 DEF CancelPost, QueueType
<1>7. CASE RemoveWaiting(r)
  BY <1>1, <1>7 DEF RemoveWaiting, QueueType
<1> QED BY <1>2, <1>3, <1>4, <1>5, <1>6, <1>7 DEF Handler

LEMMA ProcessTypes ==
    ASSUME IInv, PlacesInv', ProcessSingleTask
    PROVE  TypeOK' /\ LoopInv'
PROOF
<1> USE DEF IInv, TypeOK, LoopInv, slotVars, loopVars, resultVars, queueVars, handlerVars
<1>1. QueueType' /\ 0 \in 0 .. MaxTokens
  BY SlotsAssumption DEF PlacesInv
<1>2. ASSUME NEW t \in Tasks, DeferCompletion(t)
      PROVE  TypeOK' /\ LoopInv'
  BY <1>1, <1>2 DEF DeferCompletion, QueueType
<1>3. ASSUME NEW t \in Tasks, NEW s \in Slots, NEW new \in BOOLEAN, LaunchSlot(t, s, new)
      PROVE  TypeOK' /\ LoopInv'
  <2>1. loop = "tasks" /\ loop' = loop
    BY <1>3 DEF LaunchSlot, AtFront
  <2>2. prompt_left' \in [Slots -> 0 .. PromptBatches]
    BY <1>3, SlotsAssumption DEF LaunchSlot
  <2>3. \A x \in Slots : state'[x] \in {"idle", "prompt", state[x]}
    BY <1>3 DEF LaunchSlot
  <2> QED BY <1>1, <1>3, <2>1, <2>2, <2>3 DEF LaunchSlot, QueueType
<1>4. ASSUME NEW t \in Tasks, NEW s \in Slots, NEW new \in BOOLEAN, LaunchFails(t, s, new)
      PROVE  TypeOK' /\ LoopInv'
  <2>1. loop = "tasks" /\ loop' = loop
    BY <1>4 DEF LaunchFails, AtFront
  <2>2. queue_results' \in Seq(Result)
    BY <1>1, <1>4, SendType, ResultTypes DEF LaunchFails
  <2>3. \A x \in Slots : state'[x] \in {"idle", state[x]}
    BY <1>4 DEF LaunchFails
  <2> QED BY <1>1, <1>4, <2>1, <2>2, <2>3 DEF LaunchFails, QueueType
<1>5. ASSUME NEW t \in Tasks, ProcessCancel(t)
      PROVE  TypeOK' /\ LoopInv'
  <2>1. loop = "tasks" /\ loop' = loop
    BY <1>5 DEF ProcessCancel, AtFront
  <2>2. \A x \in Slots : state'[x] \in {"idle", state[x]}
    BY <1>5 DEF ProcessCancel
  <2>3. state' \in [Slots -> {"idle", "prompt", "done_prompt", "generating"}]
    BY <1>5 DEF ProcessCancel
  <2> QED BY <1>1, <1>5, <2>1, <2>2, <2>3 DEF ProcessCancel, QueueType
<1>6. ASSUME NEW t \in Tasks, ProcessAtOnce(t)
      PROVE  TypeOK' /\ LoopInv'
  <2>1. queue_results' \in Seq(Result)
    BY <1>1, <1>6, SendType, ResultTypes DEF ProcessAtOnce
  <2> QED BY <1>1, <1>6, <2>1 DEF ProcessAtOnce, QueueType
<1>7. ASSUME NEW t \in Tasks, ProcessSlotAction(t)
      PROVE  TypeOK' /\ LoopInv'
  <2>1. queue_results' \in Seq(Result)
    BY <1>1, <1>7, SendType, ResultTypes DEF ProcessSlotAction
  <2> QED BY <1>1, <1>7, <2>1 DEF ProcessSlotAction, QueueType
<1>8. CASE ProcessNextResponse
  BY <1>1, <1>8 DEF ProcessNextResponse, QueueType
<1> QED BY <1>2, <1>3, <1>4, <1>5, <1>6, <1>7, <1>8 DEF ProcessSingleTask

\* A slot the loops come to is processing a task, so it has one to answer.
LEMMA UpdateSlotTypes ==
    ASSUME IInv, PlacesInv', NEW s \in Slots, UpdateSlot(s)
    PROVE  TypeOK' /\ LoopInv'
PROOF
<1> USE DEF IInv, TypeOK, LoopInv, slotVars, loopVars, resultVars, queueVars, handlerVars
<1>1. /\ QueueType' /\ MaxTokens \in Nat \ {0} /\ PromptBatches \in Nat \ {0}
      /\ 0 \in 0 .. MaxTokens
  BY SlotsAssumption DEF PlacesInv
<1>2. state[s] # "idle" => id_task[s] \in Tasks
  BY DEF SlotsApart, Busy
<1>3. CASE RejectPrompt(s)
  <2>1. id_task[s] \in Tasks
    BY <1>2, <1>3 DEF RejectPrompt, IsNext
  <2>2. queue_results' \in Seq(Result)
    BY <1>1, <1>3, <2>1, SendType, ResultTypes DEF RejectPrompt
  <2> QED BY <1>1, <1>3, <2>2 DEF RejectPrompt, IsNext, Release, QueueType
<1>14. CASE ContextFull(s)
  <2>1. id_task[s] \in Tasks
    BY <1>2, <1>14 DEF ContextFull
  <2>2. queue_results' \in Seq(Result)
    BY <1>1, <1>14, <2>1, SendType, ResultTypes DEF ContextFull
  <2>3. /\ todo' \subseteq todo /\ s \notin todo' /\ loop = "shift" /\ loop' = loop
        /\ UNCHANGED <<running, waiting_task_ids, id_task, n_decoded, prompt_left, batch>>
        /\ UNCHANGED <<batch_type, pc, n_received, answered>>
        /\ state' = [state EXCEPT ![s] = "idle"]
    BY <1>14, SlotsAssumption DEF ContextFull, Release, Slots
  <2>4. LoopInv'
    BY <2>3
  <2> QED BY <1>1, <2>2, <2>3, <2>4 DEF QueueType
<1>4. CASE Tokenize(s)
  BY <1>1, <1>4 DEF Tokenize, QueueType
<1>5. CASE SkipPrompt(s)
  BY <1>1, <1>5 DEF SkipPrompt, QueueType
<1>6. CASE BatchPrompt(s)
  BY <1>1, <1>6 DEF BatchPrompt, IsNext, TypeOf, QueueType
<1>7. CASE BatchPartOfPrompt(s)
  BY <1>1, <1>7, SMTT(60) DEF BatchPartOfPrompt, IsNext, TypeOf, QueueType
<1>8. CASE DecodePart(s)
  BY <1>1, <1>8 DEF DecodePart, QueueType
<1>9. CASE DecodeEmbedding(s)
  <2>1. queue_results' \in Seq(Result)
    BY <1>1, <1>2, <1>9, SendType, ResultTypes DEF DecodeEmbedding
  <2> QED BY <1>1, <1>9, <2>1 DEF DecodeEmbedding, Release, QueueType
<1>10. CASE SampleToken(s)
  <2>1. id_task[s] \in Tasks /\ n_decoded[s] + 1 \in 0 .. MaxTokens
    BY <1>1, <1>2, <1>10 DEF SampleToken
  <2>2. queue_results' \in Seq(Result)
    BY <1>10, <2>1, SendType, ResultTypes DEF SampleToken
  <2> QED BY <1>1, <1>10, <2>1, <2>2 DEF SampleToken, QueueType
<1>11. CASE StopSlot(s)
  <2>1. id_task[s] \in Tasks
    BY <1>2, <1>11 DEF StopSlot
  <2>2. queue_results' \in Seq(Result)
    BY <1>1, <1>11, <2>1, SendType, ResultTypes DEF StopSlot
  <2> QED BY <1>1, <1>11, <2>2 DEF StopSlot, Release, QueueType
<1>12. CASE ContinueSlot(s)
  BY <1>1, <1>12 DEF ContinueSlot, QueueType
<1>13. CASE FailSlot(s)
  <2>1. queue_results' \in Seq(Result)
    BY <1>1, <1>13, SendType, ResultTypes DEF FailSlot
  <2> QED BY <1>1, <1>13, <2>1 DEF FailSlot, Release, QueueType
<1> QED BY <1>3, <1>4, <1>5, <1>6, <1>7, <1>8, <1>9, <1>10, <1>11, <1>12, <1>13, <1>14
        DEF UpdateSlot

LEMMA MainLoopTypes ==
    ASSUME IInv, PlacesInv', MainLoop
    PROVE  TypeOK' /\ LoopInv'
PROOF
<1> USE DEF IInv, TypeOK, LoopInv, slotVars, loopVars, resultVars, queueVars, handlerVars
<1>1. QueueType'
  BY DEF PlacesInv
<1>2. CASE ProcessSingleTask
  BY <1>2, ProcessTypes
<1>3. CASE \E s \in Slots : UpdateSlot(s)
  BY <1>3, UpdateSlotTypes
<1>4. CASE UpdateSlots
  BY <1>1, <1>4 DEF UpdateSlots, Busy, QueueType
<1>8. CASE BatchSampled
  BY <1>1, <1>8 DEF BatchSampled, QueueType
<1>5. CASE TasksDrained \/ WaitForTasks
  BY <1>1, <1>5 DEF TasksDrained, WaitForTasks, QueueType
<1>6. CASE BatchReady \/ DecodeDone \/ FailDone
  BY <1>1, <1>6 DEF BatchReady, DecodeDone, FailDone, QueueType
<1>7. CASE DecodeFails
  BY <1>1, <1>7 DEF DecodeFails, QueueType
<1> QED BY <1>2, <1>3, <1>4, <1>5, <1>6, <1>7, <1>8 DEF MainLoop

-----------------------------------------------------------------------------
(* The theorems                                                            *)

LEMMA InitInv == Init => IInv
PROOF
<1> SUFFICES ASSUME Init PROVE IInv
  OBVIOUS
<1>1. 0 \in 0 .. MaxTokens /\ 0 \in 0 .. PromptBatches
  BY SlotsAssumption
<1>2. \A s \in Slots : ~Busy(s)
  BY DEF Init, Busy
<1>3. OnSlots = {} /\ SlotsApart
  BY <1>2 DEF OnSlots, SlotsApart
<1>4. WorkIn(<< >>) = {} /\ Once(<< >>)
  BY DEF WorkIn, Once
<1>5. QueuesApart /\ Everywhere = {}
  BY <1>3, <1>4 DEF Init, QueuesApart, Everywhere
<1>6. TypeOK /\ LoopInv
  BY <1>1 DEF Init, TypeOK, LoopInv
<1> QED BY <1>3, <1>5, <1>6 DEF IInv, UnpostedNowhere

LEMMA NextInv == IInv /\ [Next]_vars => IInv'
PROOF
<1> SUFFICES ASSUME IInv, [Next]_vars PROVE IInv'
  OBVIOUS
<1>1. ASSUME NEW r \in Requests, Handler(r) PROVE IInv'
  BY <1>1, HandlerPlaces, HandlerTypes DEF IInv, PlacesInv
<1>2. CASE MainLoop
  <2>1. PlacesInv' /\ Everywhere' \subseteq Everywhere
    BY <1>2, MainLoopPlaces
  <2>2. UNCHANGED pc
    BY <1>2 DEF MainLoop, ProcessSingleTask, DeferCompletion, LaunchSlot, LaunchFails,
                ProcessCancel, ProcessAtOnce, ProcessSlotAction, ProcessNextResponse,
                TasksDrained, WaitForTasks, UpdateSlots, BatchSampled, UpdateSlot, ContextFull,
                    RejectPrompt, Tokenize,
                SkipPrompt, BatchPrompt, BatchPartOfPrompt, DecodePart, DecodeEmbedding,
                SampleToken, StopSlot, ContinueSlot, FailSlot, BatchReady, DecodeDone,
                DecodeFails, FailDone, handlerVars
  <2>3. UnpostedNowhere'
    BY <2>1, <2>2 DEF IInv, UnpostedNowhere
  <2>4. TypeOK' /\ LoopInv'
    BY <1>2, <2>1, MainLoopTypes
  <2> QED BY <2>1, <2>3, <2>4 DEF IInv, PlacesInv
<1>3. CASE Terminate
  <2>1. /\ UNCHANGED <<queue_tasks, queue_tasks_deferred, waiting_task_ids>>
        /\ UNCHANGED <<queue_results, state, id_task, n_decoded, prompt_left>>
        /\ UNCHANGED <<loop, todo, batch, batch_type, pc, n_received, answered>>
        /\ running' \in BOOLEAN
    BY <1>3 DEF Terminate, resultVars, slotVars, loopVars, handlerVars
  <2>2. TypeOK' /\ LoopInv'
    BY <2>1 DEF IInv, TypeOK, LoopInv
  <2>3. QueuesApart' /\ SlotsApart' /\ UnpostedNowhere'
    BY <2>1 DEF IInv, QueuesApart, SlotsApart, UnpostedNowhere, Everywhere, OnSlots, Busy
  <2> QED BY <2>2, <2>3 DEF IInv
<1>4. CASE UNCHANGED vars
  <2>1. /\ UNCHANGED <<queue_tasks, queue_tasks_deferred, running, waiting_task_ids>>
        /\ UNCHANGED <<queue_results, state, id_task, n_decoded, prompt_left>>
        /\ UNCHANGED <<loop, todo, batch, batch_type, pc, n_received, answered>>
    BY <1>4 DEF vars, queueVars, resultVars, slotVars, loopVars, handlerVars
  <2>2. TypeOK' /\ LoopInv'
    BY <2>1 DEF IInv, TypeOK, LoopInv
  <2>3. QueuesApart' /\ SlotsApart' /\ UnpostedNowhere'
    BY <2>1 DEF IInv, QueuesApart, SlotsApart, UnpostedNowhere, Everywhere, OnSlots, Busy
  <2> QED BY <2>2, <2>3 DEF IInv
<1> QED BY <1>1, <1>2, <1>3, <1>4 DEF Next, Quiescent

\* IInv is what the steps of handlers and main loop preserve together.
THEOREM Invariant == Spec => []IInv
PROOF
<1> QED BY InitInv, NextInv, PTL DEF Spec

\* Every variable of the pipeline keeps its type, whatever is requested.
THEOREM TypeCorrect == Spec => []TypeOK
PROOF
<1>1. IInv => TypeOK
  BY DEF IInv
<1> QED BY <1>1, Invariant, PTL

\* For any number of requests, tasks and slots: a task is queued at most once,
\* deferred at most once, and runs on at most one slot, never two of these.
THEOREM TaskInOnePlace == Spec => []OnePlace
PROOF
<1>1. ASSUME IInv PROVE OnePlace
  <2> SUFFICES ASSUME NEW t \in Tasks, NEW p \in Places(t), NEW q \in Places(t)
               PROVE  p = q
    BY DEF OnePlace
  <2>1. Once(queue_tasks) /\ Once(queue_tasks_deferred)
    BY <1>1 DEF IInv, QueuesApart
  <2>2. \A i, j \in DOMAIN queue_tasks :
            queue_tasks[i] = Work(t) /\ queue_tasks[j] = Work(t) => i = j
    BY <2>1 DEF Once, Work
  <2>3. \A i, j \in DOMAIN queue_tasks_deferred :
            queue_tasks_deferred[i] = Work(t) /\ queue_tasks_deferred[j] = Work(t) => i = j
    BY <2>1 DEF Once, Work
  <2>4. \A i, j \in Slots :
            Busy(i) /\ id_task[i] = t /\ Busy(j) /\ id_task[j] = t => i = j
    BY <1>1 DEF IInv, SlotsApart
  <2>5. \A i \in DOMAIN queue_tasks : queue_tasks[i] = Work(t) => t \in WorkIn(queue_tasks)
    BY DEF WorkIn
  <2>6. \A i \in DOMAIN queue_tasks_deferred :
            queue_tasks_deferred[i] = Work(t) => t \in WorkIn(queue_tasks_deferred)
    BY DEF WorkIn
  <2>7. \A s \in Slots : Busy(s) /\ id_task[s] = t => t \in OnSlots
    BY DEF OnSlots
  <2>8. /\ ~(t \in WorkIn(queue_tasks) /\ t \in WorkIn(queue_tasks_deferred))
        /\ ~(t \in OnSlots /\ t \in WorkIn(queue_tasks))
        /\ ~(t \in OnSlots /\ t \in WorkIn(queue_tasks_deferred))
    BY <1>1 DEF IInv, QueuesApart
  <2> QED BY <2>2, <2>3, <2>4, <2>5, <2>6, <2>7, <2>8 DEF Places
<1> QED BY <1>1, Invariant, PTL

-----------------------------------------------------------------------------
(* Results.                                                                *)

In(q) == {q[i] : i \in DOMAIN q}

Queued == In(queue_tasks) \cup In(queue_tasks_deferred)

\* Handlers that wait for results are registered for them, and cancels are of tasks whose
\* handler has stopped waiting.
WaitingInv ==
    \A r \in Requests :
        /\ RegistersFirst(r) /\ pc[r] \in {"registered", "recv"} =>
               Ids(r) \subseteq waiting_task_ids
        /\ \A t \in Ids(r) : Cancel(t) \in Queued => pc[r] \in {"cleanup", "done"}

\* A handler that registers first has not lost a task it waits for.
KeptInv ==
    \A r \in Requests : RegistersFirst(r) /\ pc[r] = "recv" =>
        \A t \in Ids(r) : t \in answered \/ HasLastResult(t) \/ t \in Everywhere

Closes(result) == result.stop \/ result.error

\* What has been sent for a task says how far it has come.
SentInv ==
    \A i \in DOMAIN queue_results :
        LET result == queue_results[i]
        IN  /\ Work(result.id) \notin Queued
            /\ \A s \in Slots : Busy(s) /\ id_task[s] = result.id =>
                   ~Closes(result) /\ state[s] = "generating" /\ result.n <= n_decoded[s]

AnsweredInv == answered \cap Everywhere = {}

\* There are no results of a request that has not posted its tasks.
UnpostedUnsent ==
    \A r \in Requests : pc[r] \in {"new", "registered"} =>
        /\ Ids(r) \cap answered = {}
        /\ \A i \in DOMAIN queue_results : queue_results[i].id \notin Ids(r)

\* The slots of the batch are processing; with one slot also those that are to be failed.
BatchInv ==
    /\ loop \in {"batch", "decode", "token"} => \A s \in batch : Busy(s) /\ s \notin todo
    /\ loop = "fail" => "decode" \in Faults
    /\ loop = "fail" /\ NSlots = 1 => \A s \in todo : Busy(s)

OrderInv == ResultsInOrder /\ SentInv /\ AnsweredInv /\ UnpostedUnsent /\ BatchInv

\* The loop finds a task when it is through with a busy slot.
TurningInv ==
    /\ loop \in {"shift", "batch", "decode", "token", "fail"} => queue_tasks # << >>
    /\ BusySlotKeepsLoopTurning

\* A failed llama_decode() gives up on processing slots only when there is one slot.
Steady == NSlots = 1 \/ "decode" \notin Faults

-----------------------------------------------------------------------------
(* What the queues hold, step by step                                      *)

\* What joined, popped, appended and cut queues hold.
LEMMA InConcat ==
    ASSUME NEW p \in Seq(Message), NEW q \in Seq(Message) PROVE In(p \o q) = In(p) \cup In(q)
<1>1. /\ Len(p) \in Nat /\ Len(q) \in Nat
      /\ DOMAIN p = 1 .. Len(p) /\ DOMAIN q = 1 .. Len(q)
      /\ DOMAIN (p \o q) = 1 .. Len(p) + Len(q)
      /\ \A i \in 1 .. Len(p) : (p \o q)[i] = p[i]
      /\ \A i \in 1 .. Len(q) : (p \o q)[Len(p) + i] = q[i]
  OBVIOUS
<1>2. In(p \o q) \subseteq In(p) \cup In(q)
  <2> SUFFICES ASSUME NEW i \in 1 .. Len(p) + Len(q) PROVE (p \o q)[i] \in In(p) \cup In(q)
    BY <1>1 DEF In
  <2>1. CASE i \in 1 .. Len(p)
    BY <1>1, <2>1 DEF In
  <2>2. CASE i \notin 1 .. Len(p)
    <3>1. i - Len(p) \in 1 .. Len(q) /\ Len(p) + (i - Len(p)) = i
      BY <1>1, <2>2
    <3>2. (p \o q)[i] = q[i - Len(p)]
      BY <1>1, <3>1
    <3> QED BY <1>1, <3>1, <3>2 DEF In
  <2> QED BY <2>1, <2>2
<1>3. ASSUME NEW i \in DOMAIN p PROVE p[i] \in In(p \o q)
  <2>1. i \in DOMAIN (p \o q) /\ (p \o q)[i] = p[i]
    BY <1>1
  <2> QED BY <2>1 DEF In
<1>4. ASSUME NEW i \in DOMAIN q PROVE q[i] \in In(p \o q)
  <2>1. Len(p) + i \in DOMAIN (p \o q) /\ (p \o q)[Len(p) + i] = q[i]
    BY <1>1
  <2> QED BY <2>1 DEF In
<1> QED BY <1>2, <1>3, <1>4 DEF In

LEMMA InTail ==
    ASSUME NEW q \in Seq(Message), q # << >>
    PROVE  In(q) = {Head(q)} \cup In(Tail(q))
<1>1. /\ Len(q) \in Nat /\ Len(q) # 0 /\ Head(q) = q[1]
      /\ DOMAIN q = 1 .. Len(q) /\ DOMAIN Tail(q) = 1 .. Len(q) - 1
      /\ \A i \in 1 .. Len(q) - 1 : Tail(q)[i] = q[i + 1]
  OBVIOUS
<1>2. In(Tail(q)) \subseteq In(q) /\ Head(q) \in In(q)
  BY <1>1 DEF In
<1>3. ASSUME NEW i \in DOMAIN q PROVE q[i] \in {Head(q)} \cup In(Tail(q))
  <2>1. CASE i = 1
    BY <1>1, <2>1
  <2>2. CASE i # 1
    <3>1. i - 1 \in DOMAIN Tail(q) /\ Tail(q)[i - 1] = q[i]
      BY <1>1, <2>2
    <3> QED BY <3>1 DEF In
  <2> QED BY <2>1, <2>2
<1> QED BY <1>2, <1>3 DEF In

LEMMA InAppend ==
    ASSUME NEW q \in Seq(Message), NEW m \in Message PROVE In(Append(q, m)) = In(q) \cup {m}
<1>1. /\ Len(q) \in Nat /\ DOMAIN q = 1 .. Len(q) /\ DOMAIN Append(q, m) = 1 .. Len(q) + 1
      /\ \A i \in 1 .. Len(q) : Append(q, m)[i] = q[i]
      /\ Append(q, m)[Len(q) + 1] = m
  OBVIOUS
<1>2. \A i \in 1 .. Len(q) + 1 : i \in 1 .. Len(q) \/ i = Len(q) + 1
  BY <1>1
<1> QED BY <1>1, <1>2 DEF In

LEMMA InCut ==
    ASSUME NEW q \in Seq(Message), NEW a, NEW b, Cut(q, a, b)
    PROVE  a \in Seq(Message) /\ b \in Seq(Message) /\ In(q) = In(a) \cup In(b)
<1>1. PICK m \in 0 .. Len(q) : a = SubSeq(q, 1, m) /\ b = SubSeq(q, m + 1, Len(q))
  BY DEF Cut
<1>2. Len(q) \in Nat /\ DOMAIN q = 1 .. Len(q) /\ m \in Nat /\ m <= Len(q)
  BY <1>1
<1>3. /\ a \in Seq(Message) /\ DOMAIN a = 1 .. m
      /\ \A i \in 1 .. m : a[i] = q[i]
  BY <1>1, <1>2
<1>4. /\ b \in Seq(Message) /\ Len(b) = Len(q) - m
      /\ \A i \in 1 .. Len(q) - m : b[i] = q[m + i]
  BY <1>1, SuffixProperties
<1>5. DOMAIN b = 1 .. Len(q) - m
  BY <1>4
<1>6. In(a) \subseteq In(q) /\ In(b) \subseteq In(q)
  <2>1. ASSUME NEW i \in 1 .. m PROVE a[i] \in In(q)
    <3>1. i \in DOMAIN q
      BY <1>2
    <3> QED BY <1>3, <3>1 DEF In
  <2>2. ASSUME NEW i \in 1 .. Len(q) - m PROVE b[i] \in In(q)
    <3>1. m + i \in DOMAIN q
      BY <1>2
    <3> QED BY <1>4, <3>1 DEF In
  <2> QED BY <1>3, <1>5, <2>1, <2>2 DEF In
<1>7. ASSUME NEW i \in 1 .. Len(q) PROVE q[i] \in In(a) \cup In(b)
  <2>1. CASE i <= m
    BY <1>2, <1>3, <2>1 DEF In
  <2>2. CASE i > m
    <3>1. i - m \in 1 .. Len(q) - m /\ m + (i - m) = i
      BY <1>2, <2>2
    <3> QED BY <1>4, <1>5, <3>1 DEF In
  <2> QED BY <1>2, <2>1, <2>2
<1> QED BY <1>2, <1>3, <1>4, <1>6, <1>7, ZenonT(60) DEF In

\* pop_deferred_task() keeps what the queues hold together.
LEMMA PopDeferredQueued ==
    ASSUME NEW front \in Seq(Message), NEW k \in Nat, PopDeferred(front, k), QueueType
    PROVE  Queued' = In(front) \cup In(queue_tasks_deferred)
<1>1. queue_tasks_deferred \in Seq(Message)
      /\ Least(k, Len(queue_tasks_deferred)) \in 0 .. Len(queue_tasks_deferred)
  BY DEF QueueType, Least
<1>2. PICK moved, kept :
          /\ Cut(queue_tasks_deferred, moved, kept)
          /\ queue_tasks' = front \o moved /\ queue_tasks_deferred' = kept
  BY <1>1 DEF PopDeferred, Cut
<1>3. /\ moved \in Seq(Message) /\ In(queue_tasks_deferred) = In(moved) \cup In(kept)
  BY <1>1, <1>2, InCut
<1>4. In(front \o moved) = In(front) \cup In(moved)
  BY <1>3, InConcat
<1> QED BY <1>2, <1>3, <1>4 DEF Queued

\* Releasing a slot and deferring a task keep what is queued.
LEMMA ReleaseQueued ==
    ASSUME QueueType, NEW s \in Slots, Release(s) PROVE Queued' = Queued
<1>1. PICK k \in Nat : PopDeferred(queue_tasks, k)
  BY DEF Release
<1> QED BY <1>1, PopDeferredQueued DEF QueueType, Queued

\* Taking the front task, and releasing slots perhaps.
LEMMA PopQueued ==
    ASSUME QueueType, queue_tasks # << >>,
           \/ queue_tasks' = Tail(queue_tasks) /\ UNCHANGED queue_tasks_deferred
           \/ \E k \in Nat : PopDeferred(Tail(queue_tasks), k)
    PROVE  Queued = Queued' \cup {Head(queue_tasks)}
<1>1. queue_tasks \in Seq(Message) /\ Tail(queue_tasks) \in Seq(Message)
  BY DEF QueueType
<1>2. In(queue_tasks) = {Head(queue_tasks)} \cup In(Tail(queue_tasks))
  BY <1>1, InTail
<1>3. Queued' = In(Tail(queue_tasks)) \cup In(queue_tasks_deferred)
  BY <1>1, PopDeferredQueued DEF Queued
<1> QED BY <1>2, <1>3 DEF Queued

LEMMA DeferQueued ==
    ASSUME QueueType, NEW t \in Tasks, AtFront(Work(t)), Defer(t) PROVE Queued' = Queued
<1>1. /\ queue_tasks \in Seq(Message) /\ queue_tasks # << >> /\ Head(queue_tasks) = Work(t)
      /\ queue_tasks_deferred \in Seq(Message) /\ Work(t) \in Message
  BY DEF QueueType, AtFront, Work, Message
<1>2. In(queue_tasks) = {Work(t)} \cup In(Tail(queue_tasks))
  BY <1>1, InTail
<1>3. In(Append(queue_tasks_deferred, Work(t))) = In(queue_tasks_deferred) \cup {Work(t)}
  BY <1>1, InAppend
<1> QED BY <1>2, <1>3 DEF Queued, Defer

\* Where a task can be.
LEMMA Placed ==
    ASSUME NEW t \in Tasks
    PROVE  t \in Everywhere <=> Work(t) \in Queued \/ \E s \in Slots : Busy(s) /\ id_task[s] = t
  BY DEF Everywhere, WorkIn, OnSlots, Queued, In

-----------------------------------------------------------------------------
(* What a step of the main loop does to tasks and results                  *)

\* Nothing but NEXT_RESPONSE gets into the queues, and only the front task leaves them.
QueueStep ==
    /\ Queued' \subseteq Queued \cup {NextResponse}
    /\ \A m \in Queued : m \in Queued' \/ AtFront(m)

\* A slot goes on with its task, or takes one from the queue.
SlotStep ==
    \A s \in Slots : Busy(s)' =>
        \/ /\ Busy(s) /\ id_task'[s] = id_task[s]
           /\ state[s] = "generating" => state'[s] = "generating" /\ n_decoded[s] <= n_decoded'[s]
        \/ ~Busy(s) /\ Work(id_task'[s]) \in Queued

\* The two step by step: processing a task, ...
LEMMA ProcessSteps ==
    ASSUME IInv, ProcessSingleTask PROVE QueueStep /\ SlotStep
<1> QueueType /\ TypeOK
  BY DEF IInv, TypeOK, QueueType
<1>0. \A s \in Slots : n_decoded[s] <= n_decoded[s]
  BY SlotsAssumption DEF TypeOK
<1>1. ASSUME UNCHANGED <<state, id_task, n_decoded>> PROVE SlotStep
  BY <1>0, <1>1 DEF SlotStep, Busy
<1>2. ASSUME NEW m, AtFront(m),
             \/ queue_tasks' = Tail(queue_tasks) /\ UNCHANGED queue_tasks_deferred
             \/ \E k \in Nat : PopDeferred(Tail(queue_tasks), k)
      PROVE  QueueStep
  BY <1>2, PopQueued DEF QueueStep, AtFront
<1>3. ASSUME NEW t \in Tasks, AtFront(Work(t)), Defer(t) PROVE QueueStep
  BY <1>3, DeferQueued DEF QueueStep
<1>4. ASSUME NEW t \in Tasks, DeferCompletion(t) PROVE QueueStep /\ SlotStep
  BY <1>1, <1>3, <1>4 DEF DeferCompletion, slotVars
<1>5. ASSUME NEW t \in Tasks, NEW s \in Slots, NEW new \in BOOLEAN,
             LaunchSlot(t, s, new) \/ LaunchFails(t, s, new)
      PROVE  QueueStep /\ SlotStep
  <2>1. /\ AtFront(Work(t)) /\ SystemPromptSet(new) /\ s \in Candidates(t) /\ UNCHANGED n_decoded
        /\ id_task' = [id_task EXCEPT ![s] = t]
        /\ \A x \in Slots : x # s => state'[x] \in {"idle", state[x]}
    BY <1>5 DEF LaunchSlot, LaunchFails
  <2>2. \E k \in Nat : PopDeferred(Tail(queue_tasks), k)
    BY <2>1, ReleasedCount DEF SystemPromptSet
  <2>3. queue_tasks \in Seq(Message) /\ queue_tasks # << >> /\ Head(queue_tasks) = Work(t)
    BY <2>1 DEF AtFront, QueueType
  <2>4. Work(t) \in Queued
    BY <2>3, InTail DEF Queued
  <2>5. ~Busy(s) /\ id_task'[s] = t /\ \A x \in Slots : x # s => id_task'[x] = id_task[x]
    BY <2>1 DEF Candidates, TypeOK
  <2>6. SlotStep
    BY <1>0, <2>1, <2>4, <2>5 DEF SlotStep, Busy
  <2> QED BY <1>2, <2>1, <2>2, <2>6
<1>6. ASSUME NEW t \in Tasks, ProcessCancel(t) PROVE QueueStep /\ SlotStep
  <2>1. AtFront(Cancel(t)) /\ UNCHANGED <<id_task, n_decoded>>
    BY <1>6 DEF ProcessCancel
  <2>2. \/ queue_tasks' = Tail(queue_tasks) /\ UNCHANGED queue_tasks_deferred
        \/ \E k \in Nat : PopDeferred(Tail(queue_tasks), k)
    BY <1>6 DEF ProcessCancel
  <2>3. \A x \in Slots : state'[x] \in {"idle", state[x]}
    BY <1>6 DEF ProcessCancel, TypeOK
  <2>4. SlotStep
    BY <1>0, <2>1, <2>3 DEF SlotStep, Busy
  <2> QED BY <1>2, <2>1, <2>2, <2>4
<1>7. ASSUME NEW t \in Tasks, ProcessAtOnce(t) PROVE QueueStep /\ SlotStep
  BY <1>1, <1>2, <1>7 DEF ProcessAtOnce, slotVars
<1>8. ASSUME NEW t \in Tasks, ProcessSlotAction(t) PROVE QueueStep /\ SlotStep
  BY <1>1, <1>2, <1>3, <1>8 DEF ProcessSlotAction, slotVars
<1>9. CASE ProcessNextResponse
  BY <1>1, <1>2, <1>9 DEF ProcessNextResponse, slotVars
<1> QED BY <1>4, <1>5, <1>6, <1>7, <1>8, <1>9 DEF ProcessSingleTask

\* ... advancing a slot, ...
LEMMA UpdateSlotSteps ==
    ASSUME IInv, NEW s \in Slots, UpdateSlot(s) PROVE QueueStep /\ SlotStep /\ Queued' = Queued
<1> QueueType /\ TypeOK
  BY DEF IInv, TypeOK, QueueType
<1>0. \A x \in Slots : n_decoded[x] <= n_decoded[x] /\ n_decoded[x] <= n_decoded[x] + 1
  BY SlotsAssumption DEF TypeOK
<1>1. Queued' = Queued /\ UNCHANGED id_task
  <2>1. CASE ContextFull(s) \/ RejectPrompt(s) \/ DecodeEmbedding(s) \/ StopSlot(s) \/ FailSlot(s)
    BY <2>1, ReleaseQueued DEF ContextFull, RejectPrompt, DecodeEmbedding, StopSlot, FailSlot
  <2>2. CASE ~(ContextFull(s) \/ RejectPrompt(s) \/ DecodeEmbedding(s) \/ StopSlot(s)
           \/ FailSlot(s))
    <3>1. UNCHANGED <<queue_tasks, queue_tasks_deferred, id_task>>
      BY <2>2 DEF UpdateSlot, Tokenize, SkipPrompt, BatchPrompt, BatchPartOfPrompt, DecodePart,
                  SampleToken, ContinueSlot, queueVars, slotVars
    <3> QED BY <3>1 DEF Queued
  <2> QED BY <2>1, <2>2
<1>2. SlotStep
  <2>1. CASE ContextFull(s) \/ RejectPrompt(s) \/ DecodeEmbedding(s) \/ StopSlot(s) \/ FailSlot(s)
    <3>1. state' = [state EXCEPT ![s] = "idle"] /\ UNCHANGED n_decoded
      BY <2>1 DEF ContextFull, RejectPrompt, DecodeEmbedding, StopSlot, FailSlot, Release
    <3> QED BY <1>0, <1>1, <3>1 DEF SlotStep, Busy, TypeOK
  <2>2. CASE BatchPrompt(s)
    <3>1. state' = [state EXCEPT ![s] = "done_prompt"] /\ n_decoded' = [n_decoded EXCEPT ![s] = 0]
          /\ state[s] = "prompt"
      BY <2>2 DEF BatchPrompt, IsNext, IInv, LoopInv
    <3> QED BY <1>0, <1>1, <3>1 DEF SlotStep, Busy, TypeOK
  <2>3. CASE SampleToken(s)
    <3>1. /\ state' = [state EXCEPT ![s] = "generating"]
          /\ n_decoded' = [n_decoded EXCEPT ![s] = @ + 1]
          /\ state[s] \in {"generating", "done_prompt"}
      BY <2>3 DEF SampleToken
    <3> QED BY <1>0, <1>1, <3>1 DEF SlotStep, Busy, TypeOK
  <2>4. CASE Tokenize(s) \/ SkipPrompt(s) \/ BatchPartOfPrompt(s) \/ DecodePart(s) \/ ContinueSlot(s)
    <3>1. UNCHANGED <<state, n_decoded>>
      BY <2>4 DEF Tokenize, SkipPrompt, BatchPartOfPrompt, DecodePart, ContinueSlot, slotVars
    <3> QED BY <1>0, <1>1, <3>1 DEF SlotStep, Busy
  <2> QED BY <2>1, <2>2, <2>3, <2>4 DEF UpdateSlot
<1> QED BY <1>1, <1>2 DEF QueueStep

\* ... and the main loop as a whole.
LEMMA MainLoopSteps ==
    ASSUME IInv, MainLoop PROVE QueueStep /\ SlotStep
<1> QueueType /\ TypeOK
  BY DEF IInv, TypeOK, QueueType
<1>1. CASE ProcessSingleTask
  BY <1>1, ProcessSteps
<1>2. CASE \E s \in Slots : UpdateSlot(s)
  BY <1>2, UpdateSlotSteps
<1>3. CASE UpdateSlots \/ BatchSampled \/ TasksDrained \/ WaitForTasks \/ BatchReady
           \/ DecodeDone \/ DecodeFails
           \/ FailDone
  <2>1. UNCHANGED <<queue_tasks_deferred, state, id_task, n_decoded>>
    BY <1>3 DEF UpdateSlots, BatchSampled, TasksDrained, WaitForTasks, BatchReady, DecodeDone,
                DecodeFails,
                FailDone, queueVars, slotVars
  <2>2. queue_tasks' = queue_tasks \/ queue_tasks' = Append(queue_tasks, NextResponse)
    BY <1>3 DEF UpdateSlots, BatchSampled, TasksDrained, WaitForTasks, BatchReady, DecodeDone,
                DecodeFails,
                FailDone, queueVars
  <2>3. In(queue_tasks') = In(queue_tasks) \/ In(queue_tasks') = In(queue_tasks) \cup {NextResponse}
    <3>1. queue_tasks \in Seq(Message) /\ NextResponse \in Message
      BY DEF QueueType, Message
    <3> QED BY <2>2, <3>1, InAppend
  <2>4. \A s \in Slots : n_decoded[s] <= n_decoded[s]
    BY SlotsAssumption DEF TypeOK
  <2> QED BY <2>1, <2>3, <2>4 DEF QueueStep, Queued, SlotStep, Busy
<1> QED BY <1>1, <1>2, <1>3 DEF MainLoop

\* A result that ends task t is sent, if the handler is registered for it.
Ends(t) == \E result \in Result : result.id = t /\ Closes(result) /\ Send(result)

LEMMA ResultFacts ==
    ASSUME NEW t \in Tasks, NEW n \in 0 .. MaxTokens
    PROVE  /\ Final(t, n) \in Result /\ Partial(t, n) \in Result /\ Error(t) \in Result
           /\ Final(t, n).id = t /\ Closes(Final(t, n)) /\ Final(t, n).n = n
           /\ Partial(t, n).id = t /\ ~Closes(Partial(t, n)) /\ Partial(t, n).n = n
           /\ Error(t).id = t /\ Closes(Error(t)) /\ Error(t).error
  BY ResultTypes DEF Final, Partial, Error, Closes

LEMMA WorkApart ==
    ASSUME NEW t \in Tasks, NEW u \in Tasks
    PROVE  /\ Work(t) = Work(u) => t = u
           /\ Cancel(t) = Cancel(u) => t = u
           /\ Work(t) # Cancel(u) /\ Work(t) # NextResponse /\ Cancel(t) # NextResponse
  BY DEF Work, Cancel, NextResponse

\* The task at the front is deferred, launched or answered.
LEMMA FrontKept ==
    ASSUME IInv, NEW t \in Tasks, AtFront(Work(t)), MainLoop
    PROVE  t \in Everywhere' \/ Ends(t)
<1> QueueType /\ TypeOK /\ 0 \in 0 .. MaxTokens
  BY SlotsAssumption DEF IInv, TypeOK, QueueType
<1>0. loop = "tasks" /\ queue_tasks # << >> /\ Head(queue_tasks) = Work(t)
      /\ queue_tasks \in Seq(Message)
  BY DEF AtFront, QueueType
<1>1. Work(t) \in Queued
  BY <1>0, InTail DEF Queued
<1>2. ASSUME NEW u \in Tasks, AtFront(Work(u)) PROVE u = t
  BY <1>0, <1>2, WorkApart DEF AtFront
<1>3. ASSUME Defer(t) PROVE t \in Everywhere'
  <2>1. Work(t) \in Queued'
    BY <1>1, <1>3, DeferQueued
  <2> QED BY <2>1 DEF Everywhere, WorkIn, Queued, In
<1>4. ASSUME NEW u \in Tasks, DeferCompletion(u) PROVE t \in Everywhere'
  <2>1. u = t
    BY <1>2, <1>4 DEF DeferCompletion
  <2> QED BY <1>3, <1>4, <2>1 DEF DeferCompletion
<1>5. ASSUME NEW u \in Tasks, NEW s \in Slots, NEW new \in BOOLEAN, LaunchSlot(u, s, new)
      PROVE  t \in Everywhere'
  <2>1. u = t
    BY <1>2, <1>5 DEF LaunchSlot
  <2>2. state'[s] = "prompt" /\ id_task'[s] = t
    BY <1>5, <2>1 DEF LaunchSlot, TypeOK
  <2> QED BY <2>2 DEF Everywhere, OnSlots, Busy
<1>6. ASSUME NEW u \in Tasks, NEW s \in Slots, NEW new \in BOOLEAN, LaunchFails(u, s, new)
      PROVE  Ends(t)
  <2>1. u = t
    BY <1>2, <1>6 DEF LaunchFails
  <2> QED BY <1>6, <2>1, ResultFacts DEF LaunchFails, Ends
<1>7. ASSUME NEW u \in Tasks, ProcessCancel(u) PROVE FALSE
  BY <1>0, <1>7, WorkApart DEF ProcessCancel, AtFront
<1>8. ASSUME NEW u \in Tasks, ProcessAtOnce(u) PROVE Ends(t)
  <2>1. u = t
    BY <1>2, <1>8 DEF ProcessAtOnce
  <2> QED BY <1>8, <2>1, ResultFacts DEF ProcessAtOnce, Ends
<1>9. ASSUME NEW u \in Tasks, ProcessSlotAction(u) PROVE t \in Everywhere' \/ Ends(t)
  <2>1. u = t
    BY <1>2, <1>9 DEF ProcessSlotAction
  <2> QED BY <1>3, <1>9, <2>1, ResultFacts DEF ProcessSlotAction, Ends
<1>10. ~ProcessNextResponse
  BY <1>0, WorkApart DEF ProcessNextResponse, AtFront
<1>11. ProcessSingleTask
  BY <1>0 DEF MainLoop, TasksDrained, WaitForTasks, UpdateSlots, BatchSampled, UpdateSlot,
              ContextFull, RejectPrompt, Tokenize,
              SkipPrompt, BatchPrompt, BatchPartOfPrompt, DecodePart, DecodeEmbedding,
              SampleToken, StopSlot, ContinueSlot, FailSlot, BatchReady, DecodeDone,
              DecodeFails, FailDone
<1> QED BY <1>4, <1>5, <1>6, <1>7, <1>8, <1>9, <1>10, <1>11 DEF ProcessSingleTask

\* A slot goes on with its task until it is cancelled or answered, if no system prompt is set.
LEMMA SlotKept ==
    ASSUME IInv, MainLoop, "system_prompt" \notin Faults, NEW s \in Slots, Busy(s)
    PROVE  \/ Busy(s)' /\ id_task'[s] = id_task[s]
           \/ AtFront(Cancel(id_task[s]))
           \/ Ends(id_task[s])
<1> TypeOK /\ 0 \in 0 .. MaxTokens /\ id_task[s] \in Tasks /\ id_task[s] # NoTask
  BY SlotsAssumption, RequestsAssumption DEF IInv, TypeOK, SlotsApart
<1>1. ASSUME UNCHANGED <<state, id_task>> PROVE Busy(s)' /\ id_task'[s] = id_task[s]
  BY <1>1 DEF Busy
<1>2. CASE ProcessSingleTask
  <2>1. ASSUME NEW t \in Tasks, NEW x \in Slots, NEW new \in BOOLEAN,
               LaunchSlot(t, x, new) \/ LaunchFails(t, x, new)
        PROVE  Busy(s)' /\ id_task'[s] = id_task[s]
    <3>1. ~new /\ x \in Candidates(t) /\ id_task' = [id_task EXCEPT ![x] = t]
      BY <2>1 DEF LaunchSlot, LaunchFails, SystemPromptSet
    <3>2. x # s
      BY <3>1 DEF Candidates
    <3>3. state'[s] = state[s]
      BY <2>1, <3>1, <3>2 DEF LaunchSlot, LaunchFails
    <3> QED BY <3>1, <3>2, <3>3 DEF Busy, TypeOK
  <2>2. ASSUME NEW t \in Tasks, ProcessCancel(t)
        PROVE  (Busy(s)' /\ id_task'[s] = id_task[s]) \/ AtFront(Cancel(id_task[s]))
    BY <1>1, <2>2 DEF ProcessCancel, Busy, TypeOK
  <2>3. ASSUME NEW t \in Tasks, DeferCompletion(t) \/ ProcessAtOnce(t) \/ ProcessSlotAction(t)
        PROVE  Busy(s)' /\ id_task'[s] = id_task[s]
    BY <1>1, <2>3 DEF DeferCompletion, ProcessAtOnce, ProcessSlotAction, slotVars
  <2>4. CASE ProcessNextResponse
    BY <1>1, <2>4 DEF ProcessNextResponse, slotVars
  <2> QED BY <1>2, <2>1, <2>2, <2>3, <2>4 DEF ProcessSingleTask
<1>3. ASSUME NEW x \in Slots, UpdateSlot(x)
      PROVE  (Busy(s)' /\ id_task'[s] = id_task[s]) \/ Ends(id_task[s])
  <2>1. CASE ContextFull(x) \/ RejectPrompt(x) \/ DecodeEmbedding(x) \/ StopSlot(x) \/ FailSlot(x)
    <3>1. Release(x) /\ UNCHANGED id_task
      BY <2>1 DEF ContextFull, RejectPrompt, DecodeEmbedding, StopSlot, FailSlot
    <3>2. CASE x # s
      BY <3>1, <3>2 DEF Release, Busy, TypeOK
    <3>3. CASE x = s
      <4>1. n_decoded[s] \in 0 .. MaxTokens
        BY DEF TypeOK
      <4>2. \E n \in 0 .. MaxTokens : Send(Final(id_task[s], n)) \/ Send(Error(id_task[s]))
        BY <2>1, <3>3, <4>1 DEF ContextFull, RejectPrompt, DecodeEmbedding, StopSlot, FailSlot
      <4> QED BY <4>2, ResultFacts DEF Ends
    <3> QED BY <3>2, <3>3
  <2>2. CASE BatchPrompt(x) \/ SampleToken(x)
    BY <2>2 DEF BatchPrompt, SampleToken, Busy, TypeOK
  <2>3. CASE Tokenize(x) \/ SkipPrompt(x) \/ BatchPartOfPrompt(x) \/ DecodePart(x) \/ ContinueSlot(x)
    BY <1>1, <2>3 DEF Tokenize, SkipPrompt, BatchPartOfPrompt, DecodePart, ContinueSlot, slotVars
  <2> QED BY <1>3, <2>1, <2>2, <2>3 DEF UpdateSlot
<1>4. CASE UpdateSlots \/ BatchSampled \/ TasksDrained \/ WaitForTasks \/ BatchReady
           \/ DecodeDone \/ DecodeFails
           \/ FailDone
  BY <1>1, <1>4 DEF UpdateSlots, BatchSampled, TasksDrained, WaitForTasks, BatchReady,
                    DecodeDone, DecodeFails,
                    FailDone, slotVars
<1> QED BY <1>2, <1>3, <1>4 DEF MainLoop

\* No task leaves the server unless it is cancelled or answered.
LEMMA TaskKept ==
    ASSUME IInv, MainLoop, "system_prompt" \notin Faults, NEW t \in Everywhere
    PROVE  t \in Everywhere' \/ AtFront(Cancel(t)) \/ Ends(t)
<1>1. t \in Tasks
  BY DEF Everywhere, WorkIn, OnSlots, IInv, SlotsApart
<1>2. CASE Work(t) \in Queued
  <2>1. CASE AtFront(Work(t))
    BY <1>1, <2>1, FrontKept
  <2>2. CASE ~AtFront(Work(t))
    <3>1. Work(t) \in Queued'
      BY <1>2, <2>2, MainLoopSteps DEF QueueStep
    <3> QED BY <1>1, <3>1 DEF Everywhere, WorkIn, Queued, In
  <2> QED BY <2>1, <2>2
<1>3. CASE \E s \in Slots : Busy(s) /\ id_task[s] = t
  <2>1. PICK s \in Slots : Busy(s) /\ id_task[s] = t
    BY <1>3
  <2>2. CASE Busy(s)' /\ id_task'[s] = id_task[s]
    BY <2>1, <2>2 DEF Everywhere, OnSlots
  <2> QED BY <2>1, <2>2, SlotKept
<1> QED BY <1>1, <1>2, <1>3, Placed

-----------------------------------------------------------------------------
(* Nothing is lost                                                         *)

\* The main loop sends one result at most and leaves the handlers alone.
LEMMA MainLoopSends ==
    ASSUME IInv, MainLoop
    PROVE  /\ UNCHANGED <<waiting_task_ids, pc, answered>>
           /\ UNCHANGED queue_results \/ \E result \in Result : Send(result)
<1>0. TypeOK /\ 0 \in 0 .. MaxTokens
  BY SlotsAssumption DEF IInv, TypeOK
<1>1. UNCHANGED <<waiting_task_ids, pc, answered>>
  BY DEF MainLoop, ProcessSingleTask, DeferCompletion, LaunchSlot, LaunchFails,
         ProcessCancel, ProcessAtOnce, ProcessSlotAction, ProcessNextResponse,
         TasksDrained, WaitForTasks, UpdateSlots, BatchSampled, UpdateSlot, ContextFull,
             RejectPrompt, Tokenize,
         SkipPrompt, BatchPrompt, BatchPartOfPrompt, DecodePart, DecodeEmbedding,
         SampleToken, StopSlot, ContinueSlot, FailSlot, BatchReady, DecodeDone,
         DecodeFails, FailDone, handlerVars, resultVars
<1>2. CASE ProcessSingleTask
  <2>1. ASSUME NEW t \in Tasks, NEW s \in Slots, NEW new \in BOOLEAN,
               LaunchSlot(t, s, new) \/ LaunchFails(t, s, new)
        PROVE  UNCHANGED queue_results \/ \E result \in Result : Send(result)
    BY <1>0, <2>1, ResultFacts DEF LaunchSlot, LaunchFails, resultVars
  <2>2. ASSUME NEW t \in Tasks,
               DeferCompletion(t) \/ ProcessCancel(t) \/ ProcessAtOnce(t) \/ ProcessSlotAction(t)
        PROVE  UNCHANGED queue_results \/ \E result \in Result : Send(result)
    BY <1>0, <2>2, ResultFacts
    DEF DeferCompletion, ProcessCancel, ProcessAtOnce, ProcessSlotAction, resultVars
  <2>3. ProcessNextResponse => UNCHANGED queue_results
    BY DEF ProcessNextResponse, resultVars
  <2> QED BY <1>1, <1>2, <2>1, <2>2, <2>3 DEF ProcessSingleTask
<1>3. ASSUME NEW s \in Slots, UpdateSlot(s)
      PROVE  UNCHANGED queue_results \/ \E result \in Result : Send(result)
  <2>1. CASE ContextFull(s) \/ RejectPrompt(s) \/ DecodeEmbedding(s) \/ StopSlot(s)
           \/ SampleToken(s)
    <3>1. Busy(s)
      BY <2>1 DEF ContextFull, RejectPrompt, DecodeEmbedding, StopSlot, SampleToken, IsNext,
                  IInv, LoopInv, Busy
    <3>2. id_task[s] \in Tasks
      BY <3>1 DEF IInv, SlotsApart
    <3>3. SampleToken(s) => n_decoded[s] + 1 \in 0 .. MaxTokens
      <4>1. ASSUME SampleToken(s) PROVE n_decoded[s] < MaxTokens
        BY <4>1, SlotsAssumption DEF SampleToken, IInv, LoopInv
      <4> QED BY <1>0, <4>1, SlotsAssumption DEF TypeOK
    <3>4. n_decoded[s] \in 0 .. MaxTokens
      BY <1>0 DEF TypeOK
    <3> QED BY <1>0, <2>1, <3>2, <3>3, <3>4, ResultFacts
            DEF ContextFull, RejectPrompt, DecodeEmbedding, StopSlot, SampleToken
  <2>2. CASE FailSlot(s)
    <3>1. id_task[s] = NoTask \/ id_task[s] \in Tasks
      BY <1>0 DEF TypeOK
    <3> QED BY <1>0, <2>2, <3>1, ResultFacts DEF FailSlot
  <2>3. CASE Tokenize(s) \/ SkipPrompt(s) \/ BatchPrompt(s) \/ BatchPartOfPrompt(s) \/ DecodePart(s)
             \/ ContinueSlot(s)
    BY <2>3 DEF Tokenize, SkipPrompt, BatchPrompt, BatchPartOfPrompt, DecodePart, ContinueSlot,
                resultVars
  <2> QED BY <1>3, <2>1, <2>2, <2>3 DEF UpdateSlot
<1>4. CASE UpdateSlots \/ BatchSampled \/ TasksDrained \/ WaitForTasks \/ BatchReady
           \/ DecodeDone \/ DecodeFails
           \/ FailDone
  BY <1>1, <1>4 DEF UpdateSlots, BatchSampled, TasksDrained, WaitForTasks, BatchReady,
                    DecodeDone, DecodeFails,
              FailDone, resultVars
<1> QED BY <1>1, <1>2, <1>3, <1>4 DEF MainLoop

\* What a queue holds after an append.
LEMMA AppendFacts ==
    ASSUME NEW S, NEW q \in Seq(S), NEW x \in S
    PROVE  /\ DOMAIN q = 1 .. Len(q) /\ Len(q) \in Nat
           /\ DOMAIN Append(q, x) = 1 .. Len(q) + 1
           /\ \A i \in DOMAIN q : i \in DOMAIN Append(q, x) /\ Append(q, x)[i] = q[i]
           /\ \A i \in DOMAIN Append(q, x) : i \in DOMAIN q \/ i = Len(q) + 1
           /\ Append(q, x)[Len(q) + 1] = x /\ Len(q) + 1 \in DOMAIN Append(q, x)
<1>1. /\ DOMAIN q = 1 .. Len(q) /\ Len(q) \in Nat
      /\ DOMAIN Append(q, x) = 1 .. Len(q) + 1
      /\ \A i \in 1 .. Len(q) : Append(q, x)[i] = q[i]
      /\ Append(q, x)[Len(q) + 1] = x
  OBVIOUS
<1> QED BY <1>1

\* Sending keeps the last results that are queued.
LEMMA SendKeeps ==
    ASSUME IInv, NEW t, HasLastResult(t),
           UNCHANGED queue_results \/ \E result \in Result : Send(result)
    PROVE  HasLastResult(t)'
<1>1. queue_results \in Seq(Result)
  BY DEF IInv, TypeOK
<1>2. CASE UNCHANGED queue_results
  BY <1>2 DEF HasLastResult
<1>3. ASSUME NEW result \in Result, queue_results' = Append(queue_results, result)
      PROVE  HasLastResult(t)'
  BY <1>1, <1>3, AppendFacts DEF HasLastResult
<1> QED BY <1>2, <1>3 DEF Send

\* What ends a task somebody waits for is queued.
LEMMA SendReaches ==
    ASSUME IInv, NEW t \in waiting_task_ids, Ends(t) PROVE HasLastResult(t)'
<1>1. queue_results \in Seq(Result)
  BY DEF IInv, TypeOK
<1>2. PICK result \in Result : result.id = t /\ Closes(result) /\ Send(result)
  BY DEF Ends
<1>3. queue_results' = Append(queue_results, result)
  BY <1>2 DEF Send
<1> QED BY <1>1, <1>2, <1>3, AppendFacts DEF HasLastResult, Closes

\* Requests have their own tasks.
LEMMA IdsApart ==
    ASSUME NEW q \in Requests, NEW r \in Requests, q # r
    PROVE  Ids(q) \cap Ids(r) = {} /\ Ids(q) \subseteq Tasks
<1>1. TasksOf[q] \in Seq(Tasks)
  BY RequestsAssumption
<1> QED BY <1>1, FreshIdsAssumption DEF Ids

LEMMA IdsTasks == ASSUME NEW r \in Requests PROVE Ids(r) \subseteq Tasks
<1>1. TasksOf[r] \in Seq(Tasks)
  BY RequestsAssumption
<1> QED BY <1>1 DEF Ids

\* The main loop loses no task of a handler that registers first.
LEMMA MainLoopKeeps ==
    ASSUME IInv, WaitingInv, KeptInv, MainLoop, "system_prompt" \notin Faults
    PROVE  WaitingInv' /\ KeptInv'
<1>1. /\ UNCHANGED <<waiting_task_ids, pc, answered>>
      /\ UNCHANGED queue_results \/ \E result \in Result : Send(result)
  BY MainLoopSends
<1>2. WaitingInv'
  <2>1. ASSUME NEW r \in Requests, NEW t \in Ids(r), Cancel(t) \in Queued'
        PROVE  Cancel(t) \in Queued
    <3>1. t \in Tasks
      BY IdsTasks
    <3>2. Queued' \subseteq Queued \cup {NextResponse}
      BY MainLoopSteps DEF QueueStep
    <3> QED BY <2>1, <3>1, <3>2, WorkApart
  <2> QED BY <1>1, <2>1 DEF WaitingInv, RegistersFirst
<1>3. KeptInv'
  <2> SUFFICES ASSUME NEW r \in Requests, RegistersFirst(r), pc[r] = "recv", NEW t \in Ids(r),
                      t \notin answered
               PROVE  HasLastResult(t)' \/ t \in Everywhere'
    BY <1>1 DEF KeptInv, RegistersFirst
  <2>1. HasLastResult(t) \/ t \in Everywhere
    BY DEF KeptInv
  <2>2. t \in waiting_task_ids
    BY DEF WaitingInv
  <2>3. CASE HasLastResult(t)
    BY <1>1, <2>3, SendKeeps
  <2>4. CASE t \in Everywhere
    <3>1. ~AtFront(Cancel(t))
      <4>1. ASSUME AtFront(Cancel(t)) PROVE Cancel(t) \in Queued
        <5>1. queue_tasks \in Seq(Message) /\ queue_tasks # << >> /\ Head(queue_tasks) = Cancel(t)
          BY <4>1 DEF AtFront, IInv, TypeOK
        <5> QED BY <5>1, InTail DEF Queued
      <4> QED BY <4>1 DEF WaitingInv
    <3> QED BY <2>2, <2>4, <3>1, TaskKept, SendReaches
  <2> QED BY <2>1, <2>3, <2>4
<1> QED BY <1>2, <1>3

\* What a queue holds after its i-th element was taken out.
LEMMA RemoveFacts ==
    ASSUME NEW S, NEW q \in Seq(S), NEW i \in DOMAIN q
    PROVE  /\ RemoveAt(q, i) \in Seq(S)
           /\ DOMAIN RemoveAt(q, i) = 1 .. Len(q) - 1
           /\ \A j \in DOMAIN RemoveAt(q, i) :
                  \E k \in DOMAIN q : /\ RemoveAt(q, i)[j] = q[k]
                                      /\ k = IF j < i THEN j ELSE j + 1
           /\ \A k \in DOMAIN q \ {i} : \E j \in DOMAIN RemoveAt(q, i) : RemoveAt(q, i)[j] = q[k]
<1>1. Len(q) \in Nat /\ DOMAIN q = 1 .. Len(q) /\ i \in 1 .. Len(q) /\ i - 1 \in Nat
  OBVIOUS
<1>2. PICK a, b : a = SubSeq(q, 1, i - 1) /\ b = SubSeq(q, i + 1, Len(q)) /\ RemoveAt(q, i) = a \o b
  BY DEF RemoveAt
<1>3. /\ a \in Seq(S) /\ Len(a) = i - 1
      /\ \A j \in 1 .. i - 1 : a[j] = q[j]
  <2>1. PICK m \in 0 .. Len(q) : m = i - 1
    BY <1>1
  <2>2. a = SubSeq(q, 1, m) /\ m \in Nat /\ m <= Len(q)
    BY <1>1, <1>2, <2>1
  <2>3. a \in Seq(S) /\ DOMAIN a = 1 .. m /\ Len(a) = m /\ \A j \in 1 .. m : a[j] = q[j]
    BY <1>1, <2>2
  <2> QED BY <2>1, <2>3
<1>4. /\ b \in Seq(S) /\ Len(b) = Len(q) - i
      /\ \A j \in 1 .. Len(q) - i : b[j] = q[i + j]
  <2>1. i \in 0 .. Len(q)
    BY <1>1
  <2>2. /\ SubSeq(q, i + 1, Len(q)) \in Seq(S) /\ Len(SubSeq(q, i + 1, Len(q))) = Len(q) - i
        /\ \A j \in 1 .. Len(q) - i : SubSeq(q, i + 1, Len(q))[j] = q[i + j]
    BY <2>1, SuffixProperties
  <2> QED BY <1>2, <2>2
<1>5. /\ a \o b \in Seq(S) /\ DOMAIN (a \o b) = 1 .. Len(q) - 1
      /\ \A j \in 1 .. i - 1 : (a \o b)[j] = q[j]
  <2>1. a \o b \in Seq(S) /\ DOMAIN (a \o b) = 1 .. Len(q) - 1
    <3>0. a \in Seq(S) /\ b \in Seq(S)
      BY <1>3, <1>4
    <3>1. a \o b \in Seq(S) /\ Len(a \o b) = Len(a) + Len(b)
      BY <3>0
    <3>2. DOMAIN (a \o b) = 1 .. Len(a \o b) /\ Len(a) + Len(b) = Len(q) - 1
      BY <1>1, <1>3, <1>4, <3>1
    <3> QED BY <1>3, <1>4, <3>1, <3>2
  <2>2. ASSUME NEW j \in 1 .. i - 1 PROVE (a \o b)[j] = q[j]
    <3>1. (a \o b)[j] = a[j]
      BY <1>1, <1>3, <1>4
    <3> QED BY <1>3, <3>1
  <2> QED BY <2>1, <2>2
<1>6. ASSUME NEW j \in i .. Len(q) - 1 PROVE (a \o b)[j] = q[j + 1]
  <2>1. j - (i - 1) \in 1 .. Len(q) - i /\ i + (j - (i - 1)) = j + 1
    BY <1>1
  <2>2. (a \o b)[j] = b[j - (i - 1)]
    BY <1>1, <1>3, <1>4
  <2> QED BY <1>4, <2>1, <2>2
<1>7. \A j \in 1 .. Len(q) - 1 :
          j \in 1 .. i - 1 \/ (j \in i .. Len(q) - 1 /\ j + 1 \in 1 .. Len(q))
  BY <1>1
<1>8. ASSUME NEW k \in DOMAIN q \ {i} PROVE \E j \in 1 .. Len(q) - 1 : (a \o b)[j] = q[k]
  <2>0. k \in Nat /\ i \in Nat /\ (k < i \/ k > i)
    BY <1>1
  <2>1. CASE k < i
    <3>1. k \in 1 .. i - 1 /\ k \in 1 .. Len(q) - 1
      BY <1>1, <2>1
    <3> QED BY <1>5, <3>1
  <2>2. CASE k > i
    <3>1. k - 1 \in i .. Len(q) - 1 /\ k - 1 \in 1 .. Len(q) - 1 /\ (k - 1) + 1 = k
      BY <1>1, <2>2
    <3>2. (a \o b)[k - 1] = q[k]
      BY <1>6, <3>1
    <3> QED BY <3>1, <3>2
  <2> QED BY <2>0, <2>1, <2>2
<1>9. ASSUME NEW j \in 1 .. Len(q) - 1
      PROVE  \E k \in DOMAIN q : (a \o b)[j] = q[k] /\ k = IF j < i THEN j ELSE j + 1
  <2>1. CASE j < i
    <3>1. j \in 1 .. i - 1 /\ j \in DOMAIN q
      BY <1>1, <2>1
    <3> QED BY <1>5, <2>1, <3>1
  <2>2. CASE ~(j < i)
    <3>1. j \in i .. Len(q) - 1 /\ j + 1 \in DOMAIN q
      BY <1>1, <2>2
    <3> QED BY <1>6, <2>2, <3>1
  <2> QED BY <2>1, <2>2
<1> QED BY <1>2, <1>5, <1>8, <1>9, ZenonT(60)

\* Queues and slots while a handler works.
LEMMA HandlerQueued ==
    ASSUME IInv, NEW r \in Requests, Handler(r)
    PROVE  /\ UNCHANGED <<state, id_task, n_decoded>>
           /\ Queued \subseteq Queued'
           /\ queue_tasks # << >> => queue_tasks' # << >>
           /\ ~Post(r) /\ ~CancelPost(r) => Queued' = Queued
           /\ Post(r) => Queued' = Queued \cup {Work(t) : t \in Ids(r)}
           /\ CancelPost(r) => Queued' \subseteq Queued \cup {Cancel(t) : t \in Ids(r)}
<1>0. queue_tasks \in Seq(Message) /\ TasksOf[r] \in Seq(Tasks)
  BY RequestsAssumption DEF IInv, TypeOK
<1>1. UNCHANGED <<queue_tasks_deferred, state, id_task, n_decoded>>
  BY DEF Handler, AddWaitingTasks, Post, Recv, CancelForget, CancelPost, RemoveWaiting, queueVars,
         slotVars
<1>2. ASSUME Post(r)
      PROVE  /\ Queued' = Queued \cup {Work(t) : t \in Ids(r)}
             /\ queue_tasks # << >> => queue_tasks' # << >>
  <2>1. PICK posted :
            /\ posted = [i \in DOMAIN TasksOf[r] |-> Work(TasksOf[r][i])]
            /\ queue_tasks' = posted \o queue_tasks \/ queue_tasks' = queue_tasks \o posted
    BY <1>2 DEF Post
  <2>2. posted \in Seq(Message)
    <3>1. /\ Len(TasksOf[r]) \in Nat /\ DOMAIN posted = 1 .. Len(TasksOf[r])
          /\ DOMAIN TasksOf[r] = 1 .. Len(TasksOf[r])
      BY <1>0, <2>1
    <3>2. \A i \in DOMAIN posted : TasksOf[r][i] \in Tasks
      BY <1>0, <3>1
    <3>3. \A t \in Tasks : Work(t) \in Message
      BY DEF Message, Work
    <3>4. posted \in [1 .. Len(TasksOf[r]) -> Message]
      BY <2>1, <3>1, <3>2, <3>3
    <3> QED BY <3>1, <3>4
  <2>3. In(posted) = {Work(t) : t \in Ids(r)}
    BY <2>1 DEF In, Ids
  <2>4. In(queue_tasks') = In(queue_tasks) \cup In(posted)
    <3>1. In(posted \o queue_tasks) = In(posted) \cup In(queue_tasks)
      BY <1>0, <2>2, InConcat
    <3>2. In(queue_tasks \o posted) = In(queue_tasks) \cup In(posted)
      BY <1>0, <2>2, InConcat
    <3>3. CASE queue_tasks' = posted \o queue_tasks
      BY <3>1, <3>3
    <3>4. CASE queue_tasks' = queue_tasks \o posted
      BY <3>2, <3>4
    <3> QED BY <2>1, <3>3, <3>4
  <2>5. queue_tasks # << >> => queue_tasks' # << >>
    <3>1. CASE queue_tasks' = posted \o queue_tasks
      BY <1>0, <2>2, <3>1
    <3>2. CASE queue_tasks' = queue_tasks \o posted
      BY <1>0, <2>2, <3>2
    <3> QED BY <2>1, <3>1, <3>2
  <2> QED BY <1>1, <2>3, <2>4, <2>5 DEF Queued
<1>3. ASSUME CancelPost(r)
      PROVE  /\ Queued \subseteq Queued' /\ Queued' \subseteq Queued \cup {Cancel(t) : t \in Ids(r)}
             /\ queue_tasks # << >> => queue_tasks' # << >>
  <2>1. PICK order \in [DOMAIN TasksOf[r] -> DOMAIN TasksOf[r]] :
            queue_tasks' = [i \in DOMAIN order |-> Cancel(TasksOf[r][order[i]])] \o queue_tasks
    BY <1>3 DEF CancelPost
  <2>2. PICK q : q = [i \in DOMAIN order |-> Cancel(TasksOf[r][order[i]])]
                 /\ queue_tasks' = q \o queue_tasks
    BY <2>1
  <2>3. \A i \in DOMAIN q : \E t \in Ids(r) : q[i] = Cancel(t)
    BY <2>2 DEF Ids
  <2>4. q \in Seq(Message)
    <3>1. Len(TasksOf[r]) \in Nat /\ DOMAIN order = 1 .. Len(TasksOf[r])
      BY <1>0
    <3>2. \A i \in DOMAIN order : TasksOf[r][order[i]] \in Tasks
      BY <1>0, <3>1
    <3>3. \A t \in Tasks : Cancel(t) \in Message
      BY DEF Message, Cancel
    <3>4. q \in [1 .. Len(TasksOf[r]) -> Message]
      BY <2>2, <3>1, <3>2, <3>3
    <3> QED BY <3>1, <3>4
  <2>5. In(queue_tasks') = In(q) \cup In(queue_tasks)
    BY <1>0, <2>2, <2>4, InConcat
  <2>6. In(q) \subseteq {Cancel(t) : t \in Ids(r)}
    BY <2>3 DEF In
  <2>7. queue_tasks # << >> => queue_tasks' # << >>
    BY <1>0, <2>2, <2>4
  <2> QED BY <1>1, <2>5, <2>6, <2>7 DEF Queued
<1>4. ASSUME ~Post(r), ~CancelPost(r) PROVE Queued' = Queued /\ queue_tasks' = queue_tasks
  <2>1. queue_tasks' = queue_tasks
    BY <1>4 DEF Handler, AddWaitingTasks, Recv, CancelForget, RemoveWaiting, queueVars
  <2> QED BY <1>1, <2>1 DEF Queued
<1>5. ~(Post(r) /\ CancelPost(r))
  BY DEF Post, CancelPost
<1> QED BY <1>1, <1>2, <1>3, <1>4, <1>5

\* Handlers register, and cancel, for themselves only.
LEMMA HandlerWaits ==
    ASSUME IInv, WaitingInv, NEW r \in Requests, Handler(r) PROVE WaitingInv'
<1> TypeOK
  BY DEF IInv
<1>1. ASSUME NEW q \in Requests, NEW t \in Ids(q), Cancel(t) \in Queued'
      PROVE  pc'[q] \in {"cleanup", "done"}
  <2>1. t \in Tasks
    BY IdsTasks
  <2>2. \/ Cancel(t) \in Queued
        \/ CancelPost(r) /\ \E u \in Ids(r) : Cancel(t) = Cancel(u)
    <3>1. ASSUME NEW u \in Ids(r) PROVE Cancel(t) # Work(u)
      BY <2>1, IdsTasks, WorkApart
    <3> QED BY <1>1, <3>1, HandlerQueued
  <2>3. CASE CancelPost(r) /\ \E u \in Ids(r) : Cancel(t) = Cancel(u)
    <3>1. t \in Ids(r)
      BY <2>1, <2>3, IdsTasks, WorkApart
    <3>2. q = r
      BY <3>1, IdsApart
    <3> QED BY <2>3, <3>2 DEF CancelPost, TypeOK
  <2>4. CASE Cancel(t) \in Queued
    <3>1. pc[q] \in {"cleanup", "done"}
      BY <2>4 DEF WaitingInv
    <3> QED BY <3>1 DEF Handler, AddWaitingTasks, Post, Recv, CancelForget, CancelPost, RemoveWaiting,
                        handlerVars, TypeOK
  <2> QED BY <2>2, <2>3, <2>4
<1>2. ASSUME NEW q \in Requests, RegistersFirst(q)', pc'[q] \in {"registered", "recv"}
      PROVE  Ids(q) \subseteq waiting_task_ids'
  <2>0. RegistersFirst(q) /\ (pc[q] \in {"registered", "recv"} => Ids(q) \subseteq waiting_task_ids)
    BY <1>2 DEF WaitingInv, RegistersFirst
  <2>1. CASE q = r
    <3>1. CASE AddWaitingTasks(r)
      BY <2>1, <3>1 DEF AddWaitingTasks
    <3>2. CASE Post(r) \/ Recv(r)
      <4>1. pc[q] \in {"registered", "recv"} /\ waiting_task_ids' = waiting_task_ids
        BY <2>0, <2>1, <3>2 DEF Post, Recv, resultVars
      <4> QED BY <2>0, <4>1
    <3>3. CASE CancelForget(r) \/ CancelPost(r) \/ RemoveWaiting(r)
      BY <1>2, <2>1, <3>3 DEF CancelForget, CancelPost, RemoveWaiting, handlerVars, TypeOK
    <3> QED BY <3>1, <3>2, <3>3 DEF Handler
  <2>2. CASE q # r
    <3>1. pc'[q] = pc[q]
      BY <2>2 DEF Handler, AddWaitingTasks, Post, Recv, CancelForget, CancelPost, RemoveWaiting,
                  handlerVars, TypeOK
    <3>2. waiting_task_ids \ Ids(r) \subseteq waiting_task_ids'
      BY DEF Handler, AddWaitingTasks, Post, Recv, CancelForget, CancelPost, RemoveWaiting, resultVars
    <3> QED BY <1>2, <2>0, <2>2, <3>1, <3>2, IdsApart, SMTT(60)
  <2> QED BY <2>1, <2>2
<1> QED BY <1>1, <1>2 DEF WaitingInv

\* What a handler takes off the results it has counted as answered.
LEMMA HandlerKeeps ==
    ASSUME IInv, WaitingInv, KeptInv, NEW r \in Requests, Handler(r) PROVE KeptInv'
<1> TypeOK
  BY DEF IInv
<1>1. Everywhere \subseteq Everywhere'
  <2>1. Queued \subseteq Queued' /\ UNCHANGED <<state, id_task>>
    BY HandlerQueued
  <2>2. ASSUME NEW t \in Everywhere PROVE t \in Everywhere'
    <3>1. t \in Tasks
      BY DEF Everywhere, WorkIn, OnSlots, IInv, SlotsApart
    <3> QED BY <2>1, <3>1, Placed DEF Everywhere, WorkIn, OnSlots, Queued, In, Busy
  <2> QED BY <2>2
<1>2. ASSUME NEW q \in Requests, RegistersFirst(q)', pc'[q] = "recv", NEW t \in Ids(q)
      PROVE  t \in answered' \/ HasLastResult(t)' \/ t \in Everywhere'
  <2>0. RegistersFirst(q) /\ t \in Tasks
    BY <1>2, IdsTasks DEF RegistersFirst
  <2>1. CASE Post(r) /\ q = r
    <3>1. Work(t) \in Queued'
      BY <2>1, HandlerQueued
    <3> QED BY <2>0, <3>1 DEF Everywhere, WorkIn, Queued, In
  <2>2. CASE ~(Post(r) /\ q = r)
    <3>1. pc[q] = "recv"
      BY <1>2, <2>0, <2>2 DEF Handler, AddWaitingTasks, Post, Recv, CancelForget, CancelPost,
                              RemoveWaiting, handlerVars, TypeOK
    <3>2. t \in answered \/ HasLastResult(t) \/ t \in Everywhere
      BY <2>0, <3>1 DEF KeptInv
    <3>3. answered \subseteq answered'
      BY DEF Handler, AddWaitingTasks, Post, Recv, CancelForget, CancelPost, RemoveWaiting, handlerVars
    <3>4. ASSUME HasLastResult(t) PROVE t \in answered' \/ HasLastResult(t)'
      <4>1. CASE Recv(r)
        <5>1. PICK i \in DOMAIN queue_results :
                  /\ queue_results' = RemoveAt(queue_results, i)
                  /\ answered' = IF queue_results[i].stop \/ queue_results[i].error
                                 THEN answered \cup {queue_results[i].id} ELSE answered
          BY <4>1 DEF Recv
        <5>2. PICK k \in DOMAIN queue_results : queue_results[k].id = t
                  /\ (queue_results[k].stop \/ queue_results[k].error)
          BY <3>4 DEF HasLastResult
        <5>3. CASE k = i
          BY <5>1, <5>2, <5>3
        <5>4. CASE k # i
          <6>1. queue_results \in Seq(Result)
            BY DEF TypeOK
          <6>2. PICK j \in DOMAIN RemoveAt(queue_results, i) :
                    RemoveAt(queue_results, i)[j] = queue_results[k]
            BY <5>4, <6>1, RemoveFacts
          <6> QED BY <5>1, <5>2, <6>2 DEF HasLastResult
        <5> QED BY <5>3, <5>4
      <4>2. CASE ~Recv(r)
        <5>1. queue_results' = queue_results
          BY <4>2 DEF Handler, AddWaitingTasks, Post, CancelForget, CancelPost, RemoveWaiting, resultVars
        <5> QED BY <3>4, <5>1 DEF HasLastResult
      <4> QED BY <4>1, <4>2
    <3> QED BY <1>1, <3>2, <3>3, <3>4, SMTT(60)
  <2> QED BY <2>1, <2>2
<1> QED BY <1>2 DEF KeptInv

\* What a step of the server or a handler leaves of the two invariants.
LEMMA OtherStepsKeep ==
    ASSUME IInv, WaitingInv, KeptInv, Terminate \/ UNCHANGED vars PROVE WaitingInv' /\ KeptInv'
<1>1. /\ UNCHANGED <<queue_tasks, queue_tasks_deferred, state, id_task>>
      /\ UNCHANGED <<waiting_task_ids, queue_results, pc, answered>>
  BY DEF Terminate, vars, queueVars, resultVars, slotVars, loopVars, handlerVars
<1>2. Queued' = Queued /\ Everywhere' = Everywhere
  BY <1>1 DEF Queued, Everywhere, OnSlots, Busy
<1>3. \A t : HasLastResult(t)' = HasLastResult(t)
  BY <1>1 DEF HasLastResult
<1> QED BY <1>1, <1>2, <1>3 DEF WaitingInv, KeptInv, RegistersFirst

LEMMA InitKept == Init => WaitingInv /\ KeptInv
<1> SUFFICES ASSUME Init PROVE WaitingInv /\ KeptInv
  OBVIOUS
<1>1. Queued = {}
  BY DEF Init, Queued, In
<1>2. \A r \in Requests : pc[r] = "new"
  BY DEF Init
<1> QED BY <1>1, <1>2 DEF WaitingInv, KeptInv

LEMMA NextKept ==
    ASSUME "system_prompt" \notin Faults, IInv, WaitingInv, KeptInv, [Next]_vars
    PROVE  WaitingInv' /\ KeptInv'
<1>1. CASE MainLoop
  BY <1>1, MainLoopKeeps
<1>2. ASSUME NEW r \in Requests, Handler(r) PROVE WaitingInv' /\ KeptInv'
  BY <1>2, HandlerWaits, HandlerKeeps
<1>3. CASE Terminate \/ Quiescent \/ UNCHANGED vars
  BY <1>3, OtherStepsKeep DEF Quiescent
<1> QED BY <1>1, <1>2, <1>3 DEF Next

\* Of the tasks of a handler that registers for their results before it posts them none is
\* lost, whatever the other requests do and in whatever order the threads run.  Setting a
\* system prompt, which releases slots without answering their tasks, is the exception.
THEOREM RegisteredIsKept == "system_prompt" \notin Faults => (Spec => []KeptInv)
<1> SUFFICES ASSUME "system_prompt" \notin Faults PROVE Spec => []KeptInv
  OBVIOUS
<1>1. IInv /\ WaitingInv /\ KeptInv /\ [Next]_vars => WaitingInv' /\ KeptInv'
  BY NextKept
<1> QED BY <1>1, InitKept, Invariant, PTL DEF Spec

\* When all requests are of that kind: while a handler waits, each of its tasks is answered,
\* or its last result is queued, or it has a place in the server.
THEOREM NothingIsLost ==
    "system_prompt" \notin Faults /\ (\A r \in Requests : RegistersFirst(r))
        => (Spec => []NothingLost)
<1> SUFFICES ASSUME "system_prompt" \notin Faults, \A r \in Requests : RegistersFirst(r)
             PROVE  Spec => []NothingLost
  OBVIOUS
<1>2. ASSUME KeptInv PROVE NothingLost
  <2> SUFFICES ASSUME NEW r \in Requests, pc[r] = "recv", NEW t \in Ids(r),
                      t \notin answered, ~HasLastResult(t)
               PROVE  Places(t) # {}
    BY DEF NothingLost
  <2>1. t \in Tasks /\ t \in Everywhere
    BY <1>2, IdsTasks DEF KeptInv
  <2>2. Work(t) \in Queued \/ \E s \in Slots : Busy(s) /\ id_task[s] = t
    BY <2>1, Placed
  <2>3. CASE \E s \in Slots : Busy(s) /\ id_task[s] = t
    <3>1. PICK s \in Slots : Busy(s) /\ id_task[s] = t
      BY <2>3
    <3>2. <<"slot", s>> \in Places(t)
      BY <3>1 DEF Places
    <3> QED BY <3>2
  <2>4. CASE \E i \in DOMAIN queue_tasks : queue_tasks[i] = Work(t)
    <3>1. PICK i \in DOMAIN queue_tasks : queue_tasks[i] = Work(t)
      BY <2>4
    <3>2. <<"queue", i>> \in Places(t)
      BY <3>1 DEF Places
    <3> QED BY <3>2
  <2>5. CASE \E i \in DOMAIN queue_tasks_deferred : queue_tasks_deferred[i] = Work(t)
    <3>1. PICK i \in DOMAIN queue_tasks_deferred : queue_tasks_deferred[i] = Work(t)
      BY <2>5
    <3>2. <<"deferred", i>> \in Places(t)
      BY <3>1 DEF Places
    <3> QED BY <3>2
  <2> QED BY <2>2, <2>3, <2>4, <2>5 DEF Queued, In
<1> QED BY <1>2, RegisteredIsKept, PTL

-----------------------------------------------------------------------------
(* The main loop has a reason to turn                                      *)

\* Only the main loop takes tasks, and then it is not past a busy slot.
LEMMA TurningKept == ASSUME IInv, TurningInv, [Next]_vars PROVE TurningInv'
<1> QueueType /\ TypeOK
  BY DEF IInv, TypeOK, QueueType
<1>0. queue_tasks \in Seq(Message) /\ queue_tasks_deferred \in Seq(Message)
  BY DEF QueueType
<1>1. ASSUME NEW front \in Seq(Message), front # << >>, NEW k \in Nat, PopDeferred(front, k)
      PROVE  queue_tasks' # << >>
  <2>1. PICK moved : queue_tasks' = front \o moved /\ moved \in Seq(Message)
    <3>1. Least(k, Len(queue_tasks_deferred)) \in 0 .. Len(queue_tasks_deferred)
      BY <1>0 DEF Least
    <3>2. SubSeq(queue_tasks_deferred, 1, Least(k, Len(queue_tasks_deferred))) \in Seq(Message)
      BY <1>0, <3>1
    <3> QED BY <1>1, <3>2 DEF PopDeferred
  <2> QED BY <1>1, <2>1
<1>2. ASSUME NEW s \in Slots, Release(s), queue_tasks # << >> PROVE queue_tasks' # << >>
  <2>1. PICK k \in Nat : PopDeferred(queue_tasks, k)
    BY <1>2 DEF Release
  <2> QED BY <1>0, <1>1, <1>2, <2>1
<1>3. ASSUME NEW r \in Requests, Handler(r) PROVE TurningInv'
  <2>1. UNCHANGED <<loop, state>>
    BY <1>3 DEF Handler, AddWaitingTasks, Post, Recv, CancelForget, CancelPost, RemoveWaiting,
                slotVars, loopVars
  <2> QED BY <1>3, <2>1, HandlerQueued DEF TurningInv, BusySlotKeepsLoopTurning, Busy
<1>4. CASE Terminate \/ Quiescent \/ UNCHANGED vars
  <2>1. UNCHANGED <<loop, state, queue_tasks>>
    BY <1>4 DEF Terminate, Quiescent, vars, queueVars, slotVars, loopVars
  <2> QED BY <2>1 DEF TurningInv, BusySlotKeepsLoopTurning, Busy
<1>5. CASE ProcessSingleTask \/ TasksDrained
  <2>1. loop' \in {"tasks", "update"}
    BY <1>5 DEF ProcessSingleTask, DeferCompletion, LaunchSlot, LaunchFails, ProcessCancel,
                ProcessAtOnce, ProcessSlotAction, ProcessNextResponse, TasksDrained, AtFront, loopVars
  <2> QED BY <2>1 DEF TurningInv, BusySlotKeepsLoopTurning
<1>6. CASE UpdateSlots
  <2>1. CASE \A s \in Slots : ~Busy(s)
    <3>1. UNCHANGED state /\ loop' = "wait"
      BY <1>6, <2>1 DEF UpdateSlots, slotVars
    <3> QED BY <2>1, <3>1 DEF TurningInv, BusySlotKeepsLoopTurning, Busy
  <2>2. CASE ~(\A s \in Slots : ~Busy(s))
    <3>1. queue_tasks' = Append(queue_tasks, NextResponse) /\ loop' = "shift"
      BY <1>6, <2>2 DEF UpdateSlots
    <3>2. queue_tasks' # << >>
      BY <1>0, <3>1 DEF Message
    <3> QED BY <3>1, <3>2 DEF TurningInv, BusySlotKeepsLoopTurning
  <2> QED BY <2>1, <2>2
<1>7. CASE WaitForTasks
  BY <1>7 DEF WaitForTasks, TurningInv, BusySlotKeepsLoopTurning
<1>8. ASSUME loop \in {"shift", "batch", "decode", "token", "fail"}, queue_tasks' # << >> PROVE TurningInv'
  BY <1>8 DEF TurningInv, BusySlotKeepsLoopTurning
<1>9. CASE BatchSampled \/ BatchReady \/ DecodeDone \/ DecodeFails \/ FailDone
  <2>1. loop \in {"shift", "batch", "decode", "fail"} /\ queue_tasks' = queue_tasks
    BY <1>9 DEF BatchSampled, BatchReady, DecodeDone, DecodeFails, FailDone, queueVars
  <2> QED BY <1>8, <2>1 DEF TurningInv
<1>10. ASSUME NEW s \in Slots, UpdateSlot(s) PROVE TurningInv'
  <2>1. loop \in {"shift", "batch", "decode", "token", "fail"}
    BY <1>10 DEF UpdateSlot, ContextFull, RejectPrompt, Tokenize, SkipPrompt, BatchPrompt,
                 BatchPartOfPrompt,
                 DecodePart, DecodeEmbedding, SampleToken, StopSlot, ContinueSlot, FailSlot
  <2>2. queue_tasks # << >>
    BY <2>1 DEF TurningInv
  <2>3. Release(s) \/ queue_tasks' = queue_tasks
    BY <1>10 DEF UpdateSlot, ContextFull, RejectPrompt, Tokenize, SkipPrompt, BatchPrompt,
                 BatchPartOfPrompt,
                 DecodePart, DecodeEmbedding, SampleToken, StopSlot, ContinueSlot, FailSlot, queueVars
  <2> QED BY <1>2, <1>8, <2>1, <2>2, <2>3
<1> QED BY <1>3, <1>4, <1>5, <1>6, <1>7, <1>9, <1>10 DEF Next, MainLoop

\* The main loop never comes to wait with an empty queue while a slot is processing:
\* the NEXT_RESPONSE that update_slots() posts is only taken by the next iteration.
THEOREM LoopKeepsTurning == Spec => []BusySlotKeepsLoopTurning
<1>1. Init => TurningInv
  BY DEF Init, TurningInv, BusySlotKeepsLoopTurning
<1>2. IInv /\ TurningInv /\ [Next]_vars => TurningInv'
  BY TurningKept
<1>3. TurningInv => BusySlotKeepsLoopTurning
  BY DEF TurningInv
<1> QED BY <1>1, <1>2, <1>3, Invariant, PTL DEF Spec

-----------------------------------------------------------------------------
(* Results are in order                                                    *)

\* What is sent is for a task in the server, says at least what was said of it before, and
\* is the last that is said of it if it closes it.
SendFits(result) ==
    /\ Send(result) /\ result.id \in Everywhere
    /\ \A s \in Slots : state[s] = "generating" /\ id_task[s] = result.id =>
           result.error \/ n_decoded[s] <= result.n
    /\ Closes(result) => result.id \notin Everywhere'
    /\ ~Closes(result) =>
           /\ Work(result.id) \notin Queued'
           /\ \A s \in Slots : Busy(s)' /\ id_task'[s] = result.id =>
                  state'[s] = "generating" /\ result.n <= n_decoded'[s]

\* A task that is answered from the front of the queue is gone.
LEMMA AnsweredFront ==
    ASSUME IInv, NEW t \in Tasks, AtFront(Work(t)),
           \/ queue_tasks' = Tail(queue_tasks) /\ UNCHANGED queue_tasks_deferred
           \/ \E k \in Nat : PopDeferred(Tail(queue_tasks), k),
           \A s \in Slots : Busy(s)' => Busy(s) /\ id_task'[s] = id_task[s]
    PROVE  /\ t \in Everywhere /\ t \notin Everywhere'
           /\ \A s \in Slots : Busy(s) => id_task[s] # t
<1> PlacesInv /\ queue_tasks # << >> /\ Head(queue_tasks) = Work(t)
  BY DEF IInv, TypeOK, PlacesInv, QueueType, AtFront
<1>0. queue_tasks \in Seq(Message) /\ Once(queue_tasks)
      /\ WorkIn(queue_tasks) \cap WorkIn(queue_tasks_deferred) = {}
  BY DEF PlacesInv, QueueType, QueuesApart
<1>1. t \in WorkIn(queue_tasks) /\ t \notin WorkIn(queue_tasks') \cup WorkIn(queue_tasks_deferred')
  <2>1. CASE queue_tasks' = Tail(queue_tasks) /\ UNCHANGED queue_tasks_deferred
    <3>1. t \in WorkIn(queue_tasks) /\ t \notin WorkIn(Tail(queue_tasks))
      BY <1>0, TailWork
    <3> QED BY <1>0, <2>1, <3>1
  <2>2. CASE \E k \in Nat : PopDeferred(Tail(queue_tasks), k)
    BY <2>2, PopAndRelease
  <2> QED BY <2>1, <2>2
<1>2. t \notin OnSlots
  BY <1>1 DEF PlacesInv, QueuesApart
<1>3. OnSlots' \subseteq OnSlots
  BY DEF OnSlots
<1> QED BY <1>1, <1>2, <1>3 DEF Everywhere, OnSlots

\* A task whose slot is released is gone.
LEMMA AnsweredSlot ==
    ASSUME IInv, NEW s \in Slots, Busy(s), Release(s), UNCHANGED id_task
    PROVE  /\ id_task[s] \in Tasks
           /\ id_task[s] \in Everywhere /\ id_task[s] \notin Everywhere'
           /\ \A x \in Slots : Busy(x) /\ id_task[x] = id_task[s] => x = s
<1> PlacesInv /\ TypeOK
  BY DEF IInv, TypeOK, PlacesInv, QueueType
<1>1. /\ id_task[s] \in Tasks /\ id_task[s] \in OnSlots
      /\ \A x \in Slots : Busy(x) /\ id_task[x] = id_task[s] => x = s
  BY DEF PlacesInv, SlotsApart, OnSlots
<1>2. id_task[s] \notin WorkIn(queue_tasks') \cup WorkIn(queue_tasks_deferred')
  <2>1. Work(id_task[s]) \notin Queued
    BY <1>1 DEF PlacesInv, QueuesApart, WorkIn, Queued, In
  <2>2. Work(id_task[s]) \notin Queued'
    BY <2>1, ReleaseQueued DEF PlacesInv
  <2> QED BY <2>2 DEF WorkIn, Queued, In
<1>3. id_task[s] \notin OnSlots'
  BY <1>1 DEF OnSlots, Release, Busy, TypeOK
<1> QED BY <1>1, <1>2, <1>3 DEF Everywhere

\* What is sent fits, step by step: answers to a task taken from the queue, ...
LEMMA ProcessFits ==
    ASSUME IInv, ProcessSingleTask
    PROVE  UNCHANGED queue_results \/ \E result \in Result : SendFits(result)
<1> TypeOK /\ 0 \in 0 .. MaxTokens
  BY SlotsAssumption DEF IInv, TypeOK
<1>1. ASSUME NEW t \in Tasks, NEW result \in Result, AtFront(Work(t)),
             \/ queue_tasks' = Tail(queue_tasks) /\ UNCHANGED queue_tasks_deferred
             \/ \E k \in Nat : PopDeferred(Tail(queue_tasks), k),
             \A s \in Slots : Busy(s)' => Busy(s) /\ id_task'[s] = id_task[s],
             Send(result), result.id = t, Closes(result)
      PROVE  SendFits(result)
  <2>1. /\ t \in Everywhere /\ t \notin Everywhere'
        /\ \A s \in Slots : Busy(s) => id_task[s] # t
    BY <1>1, AnsweredFront
  <2> QED BY <1>1, <2>1 DEF SendFits, Busy
<1>2. ASSUME NEW t \in Tasks, NEW s \in Slots, NEW new \in BOOLEAN, LaunchFails(t, s, new)
      PROVE  \E result \in Result : SendFits(result)
  <2>1. \E k \in Nat : PopDeferred(Tail(queue_tasks), k)
    BY <1>2, ReleasedCount DEF LaunchFails, SystemPromptSet
  <2>2. \A x \in Slots : Busy(x)' => Busy(x) /\ id_task'[x] = id_task[x]
    BY <1>2 DEF LaunchFails, Busy, Candidates, TypeOK
  <2>3. AtFront(Work(t)) /\ Send(Error(t))
    BY <1>2 DEF LaunchFails
  <2> QED BY <1>1, <2>1, <2>2, <2>3, ResultFacts
<1>3. ASSUME NEW t \in Tasks, ProcessAtOnce(t) \/ ProcessSlotAction(t)
      PROVE  UNCHANGED queue_results \/ \E result \in Result : SendFits(result)
  <2>1. AtFront(Work(t)) /\ UNCHANGED <<state, id_task>>
    BY <1>3 DEF ProcessAtOnce, ProcessSlotAction, slotVars
  <2>2. \A x \in Slots : Busy(x)' => Busy(x) /\ id_task'[x] = id_task[x]
    BY <2>1 DEF Busy
  <2>3. \/ UNCHANGED queue_results
        \/ /\ queue_tasks' = Tail(queue_tasks) /\ UNCHANGED queue_tasks_deferred
           /\ Send(Final(t, 0)) \/ Send(Error(t))
    BY <1>3 DEF ProcessAtOnce, ProcessSlotAction
  <2> QED BY <1>1, <2>1, <2>2, <2>3, ResultFacts
<1>4. ASSUME NEW t \in Tasks, NEW s \in Slots, NEW new \in BOOLEAN, LaunchSlot(t, s, new)
      PROVE  UNCHANGED queue_results
  BY <1>4 DEF LaunchSlot, resultVars
<1>5. ASSUME NEW t \in Tasks, DeferCompletion(t) \/ ProcessCancel(t) PROVE UNCHANGED queue_results
  BY <1>5 DEF DeferCompletion, ProcessCancel, resultVars
<1>6. ProcessNextResponse => UNCHANGED queue_results
  BY DEF ProcessNextResponse, resultVars
<1> QED BY <1>2, <1>3, <1>4, <1>5, <1>6 DEF ProcessSingleTask

\* ... answers from a slot, ...
LEMMA UpdateSlotFits ==
    ASSUME IInv, BatchInv, Steady, NEW s \in Slots, UpdateSlot(s)
    PROVE  UNCHANGED queue_results \/ \E result \in Result : SendFits(result)
<1> TypeOK /\ 0 \in 0 .. MaxTokens /\ n_decoded[s] \in 0 .. MaxTokens /\ MaxTokens \in Nat
  BY SlotsAssumption DEF IInv, TypeOK
<1>1. ASSUME Busy(s), Release(s), UNCHANGED id_task, NEW result \in Result, result.id = id_task[s],
             Closes(result), Send(result),
             state[s] = "generating" => result.error \/ n_decoded[s] <= result.n
      PROVE  SendFits(result)
  <2>1. /\ id_task[s] \in Everywhere /\ id_task[s] \notin Everywhere'
        /\ \A x \in Slots : Busy(x) /\ id_task[x] = id_task[s] => x = s
    BY <1>1, AnsweredSlot
  <2> QED BY <1>1, <2>1 DEF SendFits, Busy
<1>2. CASE RejectPrompt(s) \/ DecodeEmbedding(s)
  <2>1. state[s] \in {"prompt", "done_prompt"} /\ Busy(s) /\ Release(s) /\ UNCHANGED id_task
    BY <1>2 DEF RejectPrompt, DecodeEmbedding, IsNext, IInv, LoopInv, Busy
  <2>2. id_task[s] \in Tasks
    BY <2>1, AnsweredSlot
  <2>3. Send(Final(id_task[s], 0)) \/ Send(Error(id_task[s]))
    BY <1>2 DEF RejectPrompt, DecodeEmbedding
  <2> QED BY <1>1, <2>1, <2>2, <2>3, ResultFacts
<1>7. CASE ContextFull(s)
  <2>1. Busy(s) /\ Release(s) /\ UNCHANGED id_task
    BY <1>7 DEF ContextFull, IInv, LoopInv, Busy
  <2>2. id_task[s] \in Tasks
    BY <2>1, AnsweredSlot
  <2>3. Send(Error(id_task[s]))
    BY <1>7 DEF ContextFull
  <2> QED BY <1>1, <2>1, <2>2, <2>3, ResultFacts
<1>3. CASE StopSlot(s)
  <2>1. state[s] = "generating" /\ Busy(s) /\ Release(s) /\ UNCHANGED id_task
    BY <1>3 DEF StopSlot, IInv, LoopInv, Busy
  <2>2. id_task[s] \in Tasks
    BY <2>1, AnsweredSlot
  <2>3. Send(Final(id_task[s], n_decoded[s])) /\ n_decoded[s] <= n_decoded[s]
    BY <1>3 DEF StopSlot
  <2> QED BY <1>1, <2>1, <2>2, <2>3, ResultFacts
<1>4. CASE FailSlot(s)
  <2>1. Busy(s) /\ Release(s) /\ UNCHANGED id_task
    BY <1>4 DEF FailSlot, IsNext, BatchInv, Steady
  <2>2. id_task[s] \in Tasks
    BY <2>1, AnsweredSlot
  <2>3. Send(Error(id_task[s]))
    BY <1>4, <2>2, RequestsAssumption DEF FailSlot
  <2> QED BY <1>1, <2>1, <2>2, <2>3, ResultFacts
<1>5. CASE SampleToken(s)
  <2>1. /\ state[s] \in {"done_prompt", "generating"} /\ Busy(s)
        /\ state' = [state EXCEPT ![s] = "generating"] /\ n_decoded' = [n_decoded EXCEPT ![s] = @ + 1]
        /\ UNCHANGED <<queue_tasks, queue_tasks_deferred, id_task>>
        /\ Send(Partial(id_task[s], n_decoded[s] + 1)) \/ UNCHANGED queue_results
    BY <1>5 DEF SampleToken, Busy, queueVars
  <2>2. id_task[s] \in Tasks /\ \A x \in Slots : Busy(x) /\ id_task[x] = id_task[s] => x = s
    BY <2>1 DEF IInv, SlotsApart
  <2>3. n_decoded[s] + 1 \in 0 .. MaxTokens
    <3>1. n_decoded[s] < MaxTokens
      BY <1>5, <2>1, SlotsAssumption DEF SampleToken, IInv, LoopInv
    <3> QED BY <3>1
  <2>4. id_task[s] \in OnSlots
    BY <2>1 DEF OnSlots
  <2>5. Work(id_task[s]) \notin Queued'
    <3>1. Work(id_task[s]) \notin Queued
      BY <2>2, <2>4 DEF IInv, QueuesApart, WorkIn, Queued, In
    <3> QED BY <2>1, <3>1 DEF Queued
  <2>6. \A x \in Slots : Busy(x)' /\ id_task'[x] = id_task[s] => x = s
    BY <2>1, <2>2 DEF Busy, TypeOK
  <2>7. state'[s] = "generating" /\ n_decoded'[s] = n_decoded[s] + 1
    BY <2>1 DEF TypeOK
  <2>8. ASSUME NEW result, result = Partial(id_task[s], n_decoded[s] + 1), Send(result)
        PROVE  SendFits(result)
    <3>1. result.id = id_task[s] /\ result.n = n_decoded[s] + 1 /\ ~Closes(result)
      BY <2>2, <2>3, <2>8, ResultFacts
    <3>2. n_decoded[s] <= result.n /\ result.n <= n_decoded'[s]
      BY <2>7, <3>1
    <3> QED BY <2>2, <2>4, <2>5, <2>6, <2>7, <2>8, <3>1, <3>2 DEF SendFits, Everywhere, Busy
  <2> QED BY <2>1, <2>2, <2>3, <2>8, ResultFacts
<1>6. CASE Tokenize(s) \/ SkipPrompt(s) \/ BatchPrompt(s) \/ BatchPartOfPrompt(s) \/ DecodePart(s)
           \/ ContinueSlot(s)
  BY <1>6 DEF Tokenize, SkipPrompt, BatchPrompt, BatchPartOfPrompt, DecodePart, ContinueSlot,
              resultVars
<1> QED BY <1>2, <1>3, <1>4, <1>5, <1>6, <1>7 DEF UpdateSlot

\* The slots a release or a new token leaves busy.
LEMMA BatchKept ==
    ASSUME IInv, BatchInv, Steady, MainLoop PROVE BatchInv'
<1> TypeOK
  BY DEF IInv
<1>1. CASE ProcessSingleTask \/ TasksDrained \/ WaitForTasks
  <2>1. loop' \in {"tasks", "update", "stopped"}
    BY <1>1 DEF ProcessSingleTask, DeferCompletion, LaunchSlot, LaunchFails, ProcessCancel,
                ProcessAtOnce, ProcessSlotAction, ProcessNextResponse, TasksDrained, WaitForTasks,
                AtFront, loopVars
  <2> QED BY <2>1 DEF BatchInv
<1>2. CASE UpdateSlots \/ BatchSampled
  <2>1. CASE loop' # "batch"
    <3>1. loop' \in {"wait", "shift"}
      BY <1>2, <2>1 DEF UpdateSlots, BatchSampled
    <3> QED BY <3>1 DEF BatchInv
  <2>2. CASE loop' = "batch"
    <3>1. /\ UNCHANGED state
          /\ batch' = {s \in Slots : state[s] = "generating"}
          /\ todo' \subseteq {s \in Slots : state[s] = "prompt"}
      BY <1>2, <2>2 DEF UpdateSlots, BatchSampled, slotVars
    <3> QED BY <2>2, <3>1 DEF BatchInv, Busy
  <2> QED BY <2>1, <2>2
<1>3. CASE BatchReady \/ DecodeDone \/ FailDone
  BY <1>3 DEF BatchReady, DecodeDone, FailDone, BatchInv, Busy, slotVars
<1>4. CASE DecodeFails
  <2>1. /\ loop' = "fail" /\ todo' = Slots /\ "decode" \in Faults /\ UNCHANGED state
        /\ \E s \in batch : Busy(s)
    BY <1>4 DEF DecodeFails, BatchInv, slotVars
  <2>2. NSlots = 1 /\ \A s, x \in Slots : s = x
    BY <2>1 DEF Steady, Slots
  <2>3. \A s \in Slots : Busy(s)
    BY <2>1, <2>2 DEF TypeOK
  <2> QED BY <2>1, <2>3 DEF BatchInv, Busy
<1>5. ASSUME NEW s \in Slots, UpdateSlot(s) PROVE BatchInv'
  <2>1. CASE RejectPrompt(s) \/ FailSlot(s)
    <3>1. /\ s \in todo /\ todo' = todo \ {s} /\ UNCHANGED <<batch, loop>>
          /\ state' = [state EXCEPT ![s] = "idle"]
      BY <2>1 DEF RejectPrompt, FailSlot, IsNext, Release
    <3>2. \A x \in Slots : x # s /\ Busy(x) => Busy(x)'
      BY <3>1 DEF Busy, TypeOK
    <3>3. \A x \in batch : x \in Slots
      BY DEF TypeOK
    <3>4. \A x \in todo : x \in Slots
      BY DEF TypeOK
    <3> QED BY <3>1, <3>2, <3>3, <3>4 DEF BatchInv
  <2>2. CASE DecodeEmbedding(s)
    <3>1. /\ batch' = batch \ {s} /\ UNCHANGED <<todo, loop>> /\ loop = "decode"
          /\ state' = [state EXCEPT ![s] = "idle"]
      BY <2>2 DEF DecodeEmbedding, Release
    <3> QED BY <3>1 DEF BatchInv, Busy, TypeOK
  <2>3. CASE StopSlot(s)
    <3>1. /\ s \in todo /\ todo' = {} /\ UNCHANGED batch /\ loop = "token" /\ loop' = "decode"
          /\ state' = [state EXCEPT ![s] = "idle"]
      BY <2>3 DEF StopSlot, Release
    <3>2. \A x \in batch : x # s /\ Busy(x) /\ x \in Slots
      BY <3>1 DEF BatchInv, TypeOK
    <3> QED BY <3>1, <3>2 DEF BatchInv, Busy, TypeOK
  <2>4. CASE SampleToken(s)
    <3>1. /\ batch' = batch \ {s} /\ todo' = {s} /\ loop = "decode" /\ loop' = "token"
          /\ state' = [state EXCEPT ![s] = "generating"]
      BY <2>4 DEF SampleToken
    <3> QED BY <3>1 DEF BatchInv, Busy, TypeOK
  <2>5. CASE BatchPrompt(s)
    <3>1. /\ batch' = batch \cup {s} /\ todo' \subseteq todo \ {s} /\ loop = "batch" /\ loop' = loop
          /\ state' = [state EXCEPT ![s] = "done_prompt"]
      BY <2>5 DEF BatchPrompt
    <3> QED BY <3>1 DEF BatchInv, Busy, TypeOK
  <2>6. CASE BatchPartOfPrompt(s)
    <3>1. /\ batch' \subseteq batch \cup {s} /\ todo' = {} /\ loop = "batch" /\ loop' = loop
          /\ UNCHANGED state /\ Busy(s)
      BY <2>6 DEF BatchPartOfPrompt, IsNext, IInv, LoopInv, Busy
    <3> QED BY <3>1 DEF BatchInv, Busy
  <2>7. CASE Tokenize(s) \/ SkipPrompt(s) \/ DecodePart(s) \/ ContinueSlot(s)
    <3>1. /\ batch' \subseteq batch /\ todo' \subseteq todo /\ UNCHANGED state
          /\ (loop' = loop /\ loop # "fail") \/ (loop = "token" /\ loop' = "decode")
      BY <2>7 DEF Tokenize, SkipPrompt, DecodePart, ContinueSlot, IsNext, slotVars, loopVars
    <3> QED BY <3>1 DEF BatchInv, Busy
  <2>8. CASE ContextFull(s)
    <3>1. loop = "shift" /\ loop' = loop
      BY <2>8 DEF ContextFull
    <3> QED BY <3>1 DEF BatchInv
  <2> QED BY <1>5, <2>1, <2>2, <2>3, <2>4, <2>5, <2>6, <2>7, <2>8 DEF UpdateSlot
<1> QED BY <1>1, <1>2, <1>3, <1>4, <1>5 DEF MainLoop

\* ... and the main loop as a whole.
LEMMA MainLoopFits ==
    ASSUME IInv, BatchInv, Steady, MainLoop
    PROVE  UNCHANGED queue_results \/ \E result \in Result : SendFits(result)
<1>1. CASE UpdateSlots \/ BatchSampled \/ TasksDrained \/ WaitForTasks \/ BatchReady
           \/ DecodeDone \/ DecodeFails
           \/ FailDone
  BY <1>1 DEF UpdateSlots, BatchSampled, TasksDrained, WaitForTasks, BatchReady, DecodeDone,
              DecodeFails,
              FailDone, resultVars
<1> QED BY <1>1, ProcessFits, UpdateSlotFits DEF MainLoop

LEMMA ResultTyped ==
    ASSUME NEW result \in Result
    PROVE  result.id \in Tasks /\ result.n \in Nat /\ result.stop \in BOOLEAN /\ result.error \in BOOLEAN
  BY SlotsAssumption DEF Result

\* What fits is appended in order.
LEMMA MainLoopOrder ==
    ASSUME IInv, OrderInv, Steady, MainLoop PROVE OrderInv'
<1> TypeOK /\ ResultsInOrder /\ SentInv /\ AnsweredInv /\ UnpostedUnsent /\ BatchInv
  BY DEF IInv, OrderInv
<1>0. queue_results \in Seq(Result)
  BY DEF TypeOK
<1>1. UNCHANGED <<pc, answered>> /\ Everywhere' \subseteq Everywhere /\ QueueStep /\ SlotStep
  BY MainLoopSends, MainLoopPlaces, MainLoopSteps
\* What SentInv says of a result stays true of it.
<1>2. ASSUME NEW i \in DOMAIN queue_results
      PROVE  /\ Work(queue_results[i].id) \notin Queued'
             /\ \A s \in Slots : Busy(s)' /\ id_task'[s] = queue_results[i].id =>
                    /\ ~Closes(queue_results[i])
                    /\ state'[s] = "generating" /\ queue_results[i].n <= n_decoded'[s]
  <2>0. queue_results[i] \in Result /\ queue_results[i].id \in Tasks /\ queue_results[i].n \in Nat
    BY <1>0, ResultTyped
  <2>1. Work(queue_results[i].id) \notin Queued
    BY DEF SentInv
  <2>2. Work(queue_results[i].id) \notin Queued'
    BY <1>1, <2>0, <2>1, WorkApart DEF QueueStep
  <2>3. ASSUME NEW s \in Slots, Busy(s)', id_task'[s] = queue_results[i].id
        PROVE  /\ ~Closes(queue_results[i])
               /\ state'[s] = "generating" /\ queue_results[i].n <= n_decoded'[s]
    <3>1. /\ Busy(s) /\ id_task[s] = queue_results[i].id
          /\ state[s] = "generating" => state'[s] = "generating" /\ n_decoded[s] <= n_decoded'[s]
      BY <1>1, <2>1, <2>3 DEF SlotStep
    <3>2. ~Closes(queue_results[i]) /\ state[s] = "generating" /\ queue_results[i].n <= n_decoded[s]
      BY <3>1 DEF SentInv
    <3>3. n_decoded[s] \in Nat /\ n_decoded'[s] \in Nat
      <4>1. TypeOK'
        BY MainLoopPlaces, MainLoopTypes
      <4> QED BY <4>1, SlotsAssumption DEF TypeOK
    <3> QED BY <2>0, <3>1, <3>2, <3>3
  <2> QED BY <2>2, <2>3
<1>3. ASSUME UNCHANGED queue_results PROVE ResultsInOrder' /\ SentInv' /\ UnpostedUnsent'
  BY <1>1, <1>2, <1>3 DEF ResultsInOrder, SentInv, UnpostedUnsent
<1>4. ASSUME NEW result \in Result, SendFits(result), queue_results' = Append(queue_results, result)
      PROVE  ResultsInOrder' /\ SentInv' /\ UnpostedUnsent'
  <2>0. /\ DOMAIN queue_results = 1 .. Len(queue_results) /\ Len(queue_results) \in Nat
        /\ DOMAIN queue_results' = 1 .. Len(queue_results) + 1
        /\ \A i \in DOMAIN queue_results : queue_results'[i] = queue_results[i]
        /\ \A i \in DOMAIN queue_results' : i \in DOMAIN queue_results \/ i = Len(queue_results) + 1
        /\ queue_results'[Len(queue_results) + 1] = result
    BY <1>0, <1>4, AppendFacts
  <2>1. result.id \in Everywhere /\ result.id \in Tasks
    BY <1>4 DEF SendFits, Result
  <2>2. SentInv'
    <3>1. ASSUME NEW s \in Slots, Busy(s)', id_task'[s] = result.id
          PROVE  ~Closes(result) /\ state'[s] = "generating" /\ result.n <= n_decoded'[s]
      <4>1. result.id \in Everywhere'
        BY <3>1 DEF Everywhere, OnSlots
      <4> QED BY <1>4, <3>1, <4>1 DEF SendFits
    <3>2. Work(result.id) \notin Queued'
      <4>1. Work(result.id) \in Queued' => result.id \in Everywhere'
        BY <2>1 DEF Everywhere, WorkIn, Queued, In
      <4> QED BY <1>4, <4>1 DEF SendFits
    <3> QED BY <1>2, <2>0, <3>1, <3>2 DEF SentInv
  <2>3. ASSUME NEW i \in DOMAIN queue_results, queue_results[i].id = result.id
        PROVE  ~Closes(queue_results[i]) /\ (result.error \/ queue_results[i].n <= result.n)
    <3>1. Work(result.id) \notin Queued
      BY <2>3 DEF SentInv
    <3>2. PICK s \in Slots : Busy(s) /\ id_task[s] = result.id
      BY <2>1, <3>1, Placed
    <3>3. /\ ~Closes(queue_results[i]) /\ state[s] = "generating"
          /\ queue_results[i].n <= n_decoded[s]
      BY <2>3, <3>2 DEF SentInv
    <3>4. result.error \/ n_decoded[s] <= result.n
      BY <1>4, <3>2, <3>3 DEF SendFits
    <3>5. queue_results[i].n \in Nat /\ n_decoded[s] \in Nat /\ result.n \in Nat
      <4>1. queue_results[i].n \in Nat /\ result.n \in Nat
        BY <1>0, ResultTyped
      <4>2. n_decoded[s] \in 0 .. MaxTokens
        BY DEF TypeOK
      <4> QED BY <4>1, <4>2, SlotsAssumption
    <3> QED BY <3>3, <3>4, <3>5
  <2>4. ResultsInOrder'
    <3>1. ASSUME NEW i \in DOMAIN queue_results', NEW j \in DOMAIN queue_results',
                 i < j, queue_results'[i].id = queue_results'[j].id
          PROVE  /\ ~queue_results'[i].stop /\ ~queue_results'[i].error
                 /\ queue_results'[j].error \/ queue_results'[i].n <= queue_results'[j].n
      <4>1. i \in DOMAIN queue_results
        BY <2>0, <3>1
      <4>2. CASE j \in DOMAIN queue_results
        BY <2>0, <3>1, <4>1, <4>2 DEF ResultsInOrder
      <4>3. CASE j = Len(queue_results) + 1
        BY <2>0, <2>3, <3>1, <4>1, <4>3 DEF Closes
      <4> QED BY <2>0, <4>2, <4>3
    <3>2. result.id \notin answered
      BY <2>1 DEF AnsweredInv
    <3> QED BY <1>1, <2>0, <3>1, <3>2 DEF ResultsInOrder
  <2>5. UnpostedUnsent'
    <3>1. \A r \in Requests : pc[r] \in {"new", "registered"} => result.id \notin Ids(r)
      BY <2>1 DEF IInv, UnpostedNowhere
    <3> QED BY <1>1, <2>0, <3>1 DEF UnpostedUnsent
  <2> QED BY <2>2, <2>4, <2>5
<1>5. ResultsInOrder' /\ SentInv' /\ UnpostedUnsent'
  BY <1>3, <1>4, MainLoopFits DEF SendFits, Send
<1>6. AnsweredInv'
  BY <1>1 DEF AnsweredInv
<1> QED BY <1>5, <1>6, BatchKept DEF OrderInv

\* Handlers send nothing: they take results, and post tasks that have none yet.
LEMMA HandlerOrder ==
    ASSUME IInv, OrderInv, NEW r \in Requests, Handler(r) PROVE OrderInv'
<1> TypeOK /\ ResultsInOrder /\ SentInv /\ AnsweredInv /\ UnpostedUnsent /\ BatchInv
  BY SMTT(60) DEF IInv, OrderInv
<1>0. /\ UNCHANGED <<state, id_task, n_decoded, loop, todo, batch>>
      /\ \A q \in Requests : pc'[q] \in {"new", "registered"} =>
             /\ pc[q] \in {"new", "registered"}
             /\ q = r => AddWaitingTasks(r)
  BY DEF Handler, AddWaitingTasks, Post, Recv, AfterResult, CancelForget, CancelPost, RemoveWaiting,
         slotVars, loopVars, handlerVars, TypeOK
<1>1. BatchInv'
  BY <1>0 DEF BatchInv, Busy
<1>2. ASSUME NEW t \in Tasks, Work(t) \in Queued' PROVE Work(t) \in Queued \/ (Post(r) /\ t \in Ids(r))
  <2>1. ASSUME NEW u \in Ids(r) PROVE Work(t) # Cancel(u) /\ (Work(t) = Work(u) => t = u)
    BY IdsTasks, WorkApart
  <2>2. CASE Post(r)
    BY <1>2, <2>1, <2>2, HandlerQueued
  <2>3. CASE CancelPost(r)
    BY <1>2, <2>1, <2>3, HandlerQueued
  <2>4. CASE ~Post(r) /\ ~CancelPost(r)
    BY <1>2, <2>4, HandlerQueued
  <2> QED BY <2>2, <2>3, <2>4
<1>3. \A t \in Tasks : t \in Everywhere' => t \in Everywhere \/ (Post(r) /\ t \in Ids(r))
  <2>1. ASSUME NEW t \in Tasks, t \in Everywhere' PROVE t \in Everywhere \/ (Post(r) /\ t \in Ids(r))
    <3>1. CASE t \in OnSlots'
      BY <1>0, <3>1 DEF Everywhere, OnSlots, Busy
    <3>2. CASE t \notin OnSlots'
      <4>1. Work(t) \in Queued'
        BY <2>1, <3>2 DEF Everywhere, WorkIn, Queued, In
      <4> QED BY <1>2, <4>1, Placed
    <3> QED BY <3>1, <3>2
  <2> QED BY <2>1
<1>4. CASE Recv(r)
  <2>1. PICK i \in DOMAIN queue_results :
            /\ queue_results[i].id \in Ids(r)
            /\ \A j \in 1 .. i - 1 : queue_results[j].id \notin Ids(r)
            /\ queue_results' = RemoveAt(queue_results, i)
            /\ answered' = IF queue_results[i].stop \/ queue_results[i].error
                           THEN answered \cup {queue_results[i].id} ELSE answered
    BY <1>4 DEF Recv
  <2>2. queue_results \in Seq(Result) /\ DOMAIN queue_results = 1 .. Len(queue_results)
        /\ Len(queue_results) \in Nat
    BY DEF TypeOK
  <2>3. ASSUME NEW j \in DOMAIN queue_results'
        PROVE  \E k \in DOMAIN queue_results :
                   /\ queue_results'[j] = queue_results[k]
                   /\ k # i /\ (j < i => k = j) /\ (~(j < i) => k = j + 1)
    <3>1. PICK k \in DOMAIN queue_results : /\ queue_results'[j] = queue_results[k]
                                            /\ k = IF j < i THEN j ELSE j + 1
      BY <2>1, <2>2, RemoveFacts
    <3>2. j \in Nat /\ i \in Nat
      <4>1. DOMAIN queue_results' = 1 .. Len(queue_results) - 1
        BY <2>1, <2>2, RemoveFacts
      <4> QED BY <2>2, <4>1
    <3> QED BY <3>1, <3>2
  <2>4. pc[r] = "recv" /\ ~Post(r) /\ DOMAIN queue_results' \subseteq Nat /\ i \in Nat
    <3>1. DOMAIN queue_results' = 1 .. Len(queue_results) - 1
      BY <2>1, <2>2, RemoveFacts
    <3> QED BY <1>4, <2>2, <3>1 DEF Recv, Post
  <2>5. queue_results[i].id \in Tasks
    BY <2>2, ResultTyped
  <2>6. ASSUME Closes(queue_results[i])
        PROVE  /\ queue_results[i].id \notin Everywhere
               /\ \A k \in DOMAIN queue_results : k # i => queue_results[k].id # queue_results[i].id
    <3>1. queue_results[i].id \notin Everywhere
      BY <2>5, <2>6, Placed DEF SentInv
    <3>2. ASSUME NEW k \in DOMAIN queue_results, k # i PROVE queue_results[k].id # queue_results[i].id
      <4>1. CASE k < i
        <5>1. k \in 1 .. i - 1
          BY <2>2, <4>1
        <5> QED BY <2>1, <5>1
      <4>2. CASE i < k
        BY <2>6, <4>2 DEF ResultsInOrder, Closes
      <4> QED BY <2>2, <3>2, <4>1, <4>2
    <3> QED BY <3>1, <3>2
  <2>7. ResultsInOrder'
    <3>1. ASSUME NEW j \in DOMAIN queue_results', NEW l \in DOMAIN queue_results', j < l,
                 queue_results'[j].id = queue_results'[l].id
          PROVE  /\ ~queue_results'[j].stop /\ ~queue_results'[j].error
                 /\ queue_results'[l].error \/ queue_results'[j].n <= queue_results'[l].n
      <4>1. PICK k \in DOMAIN queue_results :
                queue_results'[j] = queue_results[k] /\ (j < i => k = j) /\ (~(j < i) => k = j + 1)
        BY <2>3
      <4>2. PICK m \in DOMAIN queue_results :
                queue_results'[l] = queue_results[m] /\ (l < i => m = l) /\ (~(l < i) => m = l + 1)
        BY <2>3
      <4>3. j \in Nat /\ l \in Nat /\ i \in Nat
        BY <2>4
      <4>4. k < m
        BY <3>1, <4>1, <4>2, <4>3
      <4> QED BY <3>1, <4>1, <4>2, <4>4 DEF ResultsInOrder
    <3>2. ASSUME NEW j \in DOMAIN queue_results' PROVE queue_results'[j].id \notin answered'
      <4>1. PICK k \in DOMAIN queue_results : queue_results'[j] = queue_results[k] /\ k # i
        BY <2>3
      <4>2. queue_results[k].id \notin answered
        BY DEF ResultsInOrder
      <4> QED BY <2>1, <2>6, <4>1, <4>2 DEF Closes
    <3> QED BY <3>1, <3>2 DEF ResultsInOrder
  <2>8. SentInv'
    <3>1. ASSUME NEW j \in DOMAIN queue_results'
          PROVE  \E k \in DOMAIN queue_results :
                     queue_results'[j] = queue_results[k] /\ Work(queue_results[k].id) \notin Queued'
      <4>1. PICK k \in DOMAIN queue_results : queue_results'[j] = queue_results[k]
        BY <2>3
      <4>2. queue_results[k].id \in Tasks /\ Work(queue_results[k].id) \notin Queued
        BY <2>2, ResultTyped DEF SentInv
      <4> QED BY <1>2, <2>4, <4>1, <4>2
    <3> QED BY <1>0, <3>1 DEF SentInv, Busy
  <2>9. AnsweredInv'
    <3>1. ASSUME NEW t \in Everywhere' PROVE t \in Everywhere
      <4>1. t \in Tasks
        BY <1>0, <3>1 DEF Everywhere, WorkIn, OnSlots, Busy, IInv, SlotsApart
      <4> QED BY <1>3, <2>4, <4>1
    <3> QED BY <2>1, <2>6, <3>1 DEF AnsweredInv, Closes
  <2>10. UnpostedUnsent'
    <3>1. ASSUME NEW q \in Requests, pc'[q] \in {"new", "registered"}
          PROVE  /\ Ids(q) \cap answered' = {}
                 /\ \A j \in DOMAIN queue_results' : queue_results'[j].id \notin Ids(q)
      <4>1. pc[q] \in {"new", "registered"} /\ q # r
        BY <1>0, <2>4, <3>1
      <4>2. queue_results[i].id \notin Ids(q)
        BY <2>1, <4>1, IdsApart
      <4> QED BY <2>1, <2>3, <4>1, <4>2 DEF UnpostedUnsent
    <3> QED BY <3>1 DEF UnpostedUnsent
  <2> QED BY <1>1, <2>7, <2>8, <2>9, <2>10 DEF OrderInv
<1>5. CASE ~Recv(r)
  <2>1. UNCHANGED <<queue_results, answered>>
    BY <1>5 DEF Handler, AddWaitingTasks, Post, CancelForget, CancelPost, RemoveWaiting, resultVars,
                handlerVars
  <2>2. ASSUME Post(r)
        PROVE  /\ Ids(r) \cap answered = {}
               /\ \A i \in DOMAIN queue_results : queue_results[i].id \notin Ids(r)
    BY <2>2 DEF Post, UnpostedUnsent
  <2>3. SentInv'
    <3>1. ASSUME NEW i \in DOMAIN queue_results PROVE Work(queue_results[i].id) \notin Queued'
      <4>1. queue_results[i].id \in Tasks
        BY ResultTyped DEF TypeOK
      <4> QED BY <1>2, <2>2, <4>1 DEF SentInv
    <3> QED BY <1>0, <2>1, <3>1 DEF SentInv, Busy
  <2>4. AnsweredInv'
    <3>1. ASSUME NEW t \in answered, t \in Everywhere' PROVE FALSE
      <4>1. t \in Tasks
        BY DEF TypeOK
      <4> QED BY <1>3, <2>2, <3>1, <4>1 DEF AnsweredInv
    <3> QED BY <2>1, <3>1 DEF AnsweredInv
  <2>5. ResultsInOrder' /\ UnpostedUnsent'
    BY <1>0, <2>1 DEF ResultsInOrder, UnpostedUnsent
  <2> QED BY <1>1, <2>3, <2>4, <2>5 DEF OrderInv
<1> QED BY <1>4, <1>5

LEMMA InitOrder == Init => OrderInv
<1> SUFFICES ASSUME Init PROVE OrderInv
  OBVIOUS
<1>1. queue_results = << >> /\ answered = {} /\ loop = "tasks" /\ DOMAIN queue_results = {}
  BY DEF Init
<1> QED BY <1>1 DEF OrderInv, ResultsInOrder, SentInv, AnsweredInv, UnpostedUnsent, BatchInv

LEMMA NextOrder == ASSUME Steady, IInv, OrderInv, [Next]_vars PROVE OrderInv'
<1>1. CASE MainLoop
  BY <1>1, MainLoopOrder
<1>2. ASSUME NEW r \in Requests, Handler(r) PROVE OrderInv'
  BY <1>2, HandlerOrder
<1>3. CASE Terminate \/ Quiescent \/ UNCHANGED vars
  <2>1. /\ UNCHANGED <<queue_tasks, queue_tasks_deferred, state, id_task, n_decoded>>
        /\ UNCHANGED <<queue_results, pc, answered, loop, todo, batch>>
    BY <1>3 DEF Terminate, Quiescent, vars, queueVars, resultVars, slotVars, loopVars, handlerVars
  <2>2. Queued' = Queued /\ Everywhere' = Everywhere
    BY <2>1 DEF Queued, Everywhere, OnSlots, Busy
  <2> QED BY <2>1, <2>2
          DEF OrderInv, ResultsInOrder, SentInv, AnsweredInv, UnpostedUnsent, BatchInv, Busy
<1> QED BY <1>1, <1>2, <1>3 DEF Next

\* The results of a task are queued in the order its tokens were decoded, nothing follows the
\* last one, and a task that was answered is sent nothing more, for any number of requests and
\* slots, cancelled or not.  The exception is a failed llama_decode() with several slots: it
\* also sends an error for the task an idle slot ran last.
THEOREM ResultsStayInOrder == Steady => (Spec => []ResultsInOrder)
<1> SUFFICES ASSUME Steady PROVE Spec => []ResultsInOrder
  OBVIOUS
<1>1. IInv /\ OrderInv /\ [Next]_vars => OrderInv'
  BY NextOrder
<1>2. OrderInv => ResultsInOrder
  BY DEF OrderInv
<1> QED BY <1>1, <1>2, InitOrder, Invariant, PTL DEF Spec
=============================================================================
