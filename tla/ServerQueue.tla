---------------------------- MODULE ServerQueue ----------------------------
(***************************************************************************)
(* The request pipeline of examples/server/server.cpp: HTTP handler        *)
(* threads post tasks to server_queue, the main loop takes them one by     *)
(* one (process_single_task), lets the slots advance (update_slots), and   *)
(* hands results back through server_response.                             *)
(*                                                                         *)
(* Two kinds of process interleave.  A handler thread serves one request;  *)
(* each of its steps is one critical section of mutex_tasks or             *)
(* mutex_results.  The main loop is one thread; a step of it ends at the   *)
(* latest with the first result it sends, so a handler can observe the     *)
(* pipeline between any two results.  What a slot computes is abstracted   *)
(* to how many batches its prompt takes and how many tokens it has         *)
(* decoded; when a request stops generating is the model's choice.         *)
(***************************************************************************)
EXTENDS Naturals, Sequences, FiniteSets, SequencesExt

CONSTANTS
    Requests,      \* HTTP requests, each served by a handler thread
    Tasks,         \* the ids server_queue::id hands out to their tasks
    TasksOf,       \* the ids of a request's tasks, in the order it creates them
    Kind,          \* which handler serves a request
    IdSlot,        \* the "id_slot" a task's data asks for, or AnySlot
    AnySlot,       \* id_slot = -1
    NoTask,        \* the id_task -1 of a slot that was never used
    NSlots,        \* params.n_parallel
    PromptBatches, \* bound: batches a prompt is spread over, at most
    MaxTokens,     \* bound: tokens a slot decodes at most (slot.n_ctx)
    Faults         \* which of AllFaults the environment may exhibit

Kinds == {"completion", "stream", "embedding", "metrics", "slot_action", "lora"}

AllFaults == {"launch", "empty", "large", "context_full", "decode", "disconnect", "restore",
              "system_prompt", "terminate"}

Slots == 0 .. NSlots - 1

ASSUME SlotsAssumption ==
    NSlots \in Nat \ {0} /\ PromptBatches \in Nat \ {0} /\ MaxTokens \in Nat \ {0}

ASSUME RequestsAssumption ==
    /\ Kind \in [Requests -> Kinds]
    /\ TasksOf \in [Requests -> Seq(Tasks)]
    /\ \A r \in Requests : TasksOf[r] # << >>
    /\ Faults \subseteq AllFaults
    /\ NoTask \notin Tasks

\* get_new_id() and post() number tasks under mutex_tasks: no id is used twice.
ASSUME FreshIdsAssumption ==
    \A q, r \in Requests : \A i \in DOMAIN TasksOf[q], j \in DOMAIN TasksOf[r] :
        TasksOf[q][i] = TasksOf[r][j] => q = r /\ i = j

ASSUME OwnerAssumption ==
    \A t \in Tasks : \E r \in Requests : \E i \in DOMAIN TasksOf[r] : TasksOf[r][i] = t

VARIABLES
    queue_tasks,            \* server_queue: tasks for the main loop
    queue_tasks_deferred,   \* server_queue: tasks waiting for a slot
    running,                \* server_queue: cleared by terminate()
    waiting_task_ids,       \* server_response: ids somebody waits for
    queue_results,          \* server_response: results not yet received
    state,                  \* server_slot::state
    id_task,                \* server_slot::id_task; release() does not reset it
    n_decoded,              \* server_slot::n_decoded
    prompt_left,            \* batches the slot's prompt still needs, 0 before it is tokenized
    loop,                   \* where the main loop is
    todo,                   \* slots the main loop's current for-loop has yet to visit
    batch,                  \* slots with tokens in llama_batch that are not yet decoded
    batch_type,             \* update_slots: embedding or non-embedding batch
    pc,                     \* where a handler thread is
    n_received,             \* results a handler has counted
    answered                \* history: tasks whose stop or error result was received

queueVars  == <<queue_tasks, queue_tasks_deferred, running>>
resultVars == <<waiting_task_ids, queue_results>>
slotVars   == <<state, id_task, n_decoded, prompt_left>>
loopVars   == <<loop, todo, batch, batch_type>>
handlerVars == <<pc, n_received, answered>>
vars == <<queueVars, resultVars, slotVars, loopVars, handlerVars>>

Ids(r)   == {TasksOf[r][i] : i \in DOMAIN TasksOf[r]}
Owner(t) == CHOOSE r \in Requests : t \in Ids(r)
Busy(s)  == state[s] # "idle"

\* server_task, reduced to its type and the id it carries (id_target for a cancel)
Work(t)      == [type |-> "work", id |-> t]
Cancel(t)    == [type |-> "cancel", id |-> t]
NextResponse == [type |-> "next_response", id |-> NoTask]
Message == [type : {"work", "cancel"}, id : Tasks] \cup {NextResponse}

\* server_task_result; n tells the results of one task apart in the order sent
Result == [id : Tasks, n : 0 .. MaxTokens, stop : BOOLEAN, error : BOOLEAN]
Final(t, n)   == [id |-> t, n |-> n, stop |-> TRUE, error |-> FALSE]
Partial(t, n) == [id |-> t, n |-> n, stop |-> FALSE, error |-> FALSE]
Error(t)      == [id |-> t, n |-> 0, stop |-> FALSE, error |-> TRUE]

-----------------------------------------------------------------------------
(* server_queue and server_response                                        *)

\* Mutant of Send: the result overtakes those already queued.
SendInFront(result) ==
    queue_results' = IF result.id \in waiting_task_ids
                     THEN <<result>> \o queue_results
                     ELSE queue_results

\* server_response::send() drops a result nobody is registered for.
Send(result) ==
    queue_results' = IF result.id \in waiting_task_ids
                     THEN Append(queue_results, result)
                     ELSE queue_results

\* pop_deferred_task(), called k times: each moves one deferred task to the back.
Least(a, b) == IF a <= b THEN a ELSE b

\* Mutant of PopDeferred: the moved task is copied and not popped.
CopyDeferred(front, k) ==
    /\ queue_tasks' = front \o SubSeq(queue_tasks_deferred, 1,
                                      Least(k, Len(queue_tasks_deferred)))
    /\ UNCHANGED queue_tasks_deferred

PopDeferred(front, k) ==
    LET m == Least(k, Len(queue_tasks_deferred))
    IN  /\ queue_tasks' = front \o SubSeq(queue_tasks_deferred, 1, m)
        /\ queue_tasks_deferred' =
               SubSeq(queue_tasks_deferred, m + 1, Len(queue_tasks_deferred))

\* Mutant of Release: the callback is not registered.
ReleaseSilently(s) ==
    /\ state' = [state EXCEPT ![s] = "idle"]
    /\ PopDeferred(queue_tasks, 0)

\* server_slot::release(): only a processing slot calls back to pop_deferred_task().
Release(s) ==
    /\ state' = [state EXCEPT ![s] = "idle"]
    /\ PopDeferred(queue_tasks, IF Busy(s) THEN 1 ELSE 0)

-----------------------------------------------------------------------------
(* Handler threads                                                         *)

\* Mutant of RegistersFirst: the completion handler posts first, like the slot actions.
RegistersFirstButCompletions(r) == Kind[r] \in {"stream", "embedding", "metrics"}

\* completions, embeddings and metrics register their ids before they post;
\* the slot actions and the LoRA handler post first.
RegistersFirst(r) == Kind[r] \in {"completion", "stream", "embedding", "metrics"}

AddWaitingTasks(r) ==
    /\ pc[r] = IF RegistersFirst(r) THEN "new" ELSE "posted"
    /\ waiting_task_ids' = waiting_task_ids \cup Ids(r)
    /\ pc' = [pc EXCEPT ![r] = IF RegistersFirst(r) THEN "registered" ELSE "recv"]
    /\ UNCHANGED <<queueVars, queue_results, slotVars, loopVars, n_received, answered>>

Post(r) ==
    /\ pc[r] = IF RegistersFirst(r) THEN "registered" ELSE "new"
    /\ LET posted == [i \in DOMAIN TasksOf[r] |-> Work(TasksOf[r][i])]
       IN  queue_tasks' = IF Kind[r] = "metrics" THEN posted \o queue_tasks
                                                 ELSE queue_tasks \o posted
    /\ pc' = [pc EXCEPT ![r] = IF RegistersFirst(r) THEN "recv" ELSE "posted"]
    /\ UNCHANGED <<queue_tasks_deferred, running, resultVars, slotVars, loopVars,
                   n_received, answered>>

\* receive_cmpl_results() counts every result, receive_cmpl_results_stream()
\* only those with stop set; the other handlers receive exactly one.
Counted(r, result) ==
    IF result.stop \/ Kind[r] # "stream" THEN n_received[r] + 1 ELSE n_received[r]

AfterResult(r, result) ==
    IF result.error /\ Kind[r] \in {"completion", "stream", "embedding"} THEN "cancel"
    ELSE IF Counted(r, result) >= Len(TasksOf[r]) THEN "cleanup" ELSE "recv"

\* recv() takes the first result with one of the ids; until there is one the
\* thread blocks (or spins, when the queue only holds results of others).
Recv(r) ==
    /\ pc[r] = "recv"
    /\ \E i \in DOMAIN queue_results :
        LET result == queue_results[i]
        IN  /\ result.id \in Ids(r)
            /\ \A j \in 1 .. i - 1 : queue_results[j].id \notin Ids(r)
            /\ queue_results' = RemoveAt(queue_results, i)
            /\ \/ pc' = [pc EXCEPT ![r] = AfterResult(r, result)]
               \/ \* the sink of a streaming response fails: connection is closed
                  /\ "disconnect" \in Faults /\ Kind[r] = "stream"
                  /\ pc' = [pc EXCEPT ![r] = "cancel"]
            /\ n_received' = [n_received EXCEPT ![r] = Counted(r, result)]
            /\ answered' = IF result.stop \/ result.error
                           THEN answered \cup {result.id} ELSE answered
    /\ UNCHANGED <<queueVars, waiting_task_ids, slotVars, loopVars>>

\* cancel_tasks(): forget the ids one by one, then post the cancels in front.
CancelForget(r) ==
    /\ pc[r] = "cancel"
    /\ \E t \in Ids(r) \cap waiting_task_ids :
           waiting_task_ids' = waiting_task_ids \ {t}
    /\ UNCHANGED <<queueVars, queue_results, slotVars, loopVars, handlerVars>>

\* The ids come from an unordered_set, so the cancels are posted in any order.
CancelPost(r) ==
    /\ pc[r] = "cancel"
    /\ Ids(r) \cap waiting_task_ids = {}
    /\ \E order \in [DOMAIN TasksOf[r] -> DOMAIN TasksOf[r]] :
        /\ \A i, j \in DOMAIN order : order[i] = order[j] => i = j
        /\ queue_tasks' = [i \in DOMAIN order |-> Cancel(TasksOf[r][order[i]])]
                              \o queue_tasks
    /\ pc' = [pc EXCEPT ![r] = "cleanup"]
    /\ UNCHANGED <<queue_tasks_deferred, running, resultVars, slotVars, loopVars,
                   n_received, answered>>

RemoveWaiting(r) ==
    /\ pc[r] = "cleanup"
    /\ waiting_task_ids' = waiting_task_ids \ Ids(r)
    /\ pc' = [pc EXCEPT ![r] = "done"]
    /\ UNCHANGED <<queueVars, queue_results, slotVars, loopVars, n_received, answered>>

-----------------------------------------------------------------------------
(* The main loop: start_loop() and process_single_task()                   *)

\* The task at the front of the queue is about to be processed.
AtFront(message) == loop = "tasks" /\ queue_tasks # << >> /\ Head(queue_tasks) = message

\* The slots a completion may be launched on: the requested one, or any idle
\* one (prompt similarity and last use decide which, and both may pick any).
Candidates(t) ==
    {s \in Slots : ~Busy(s) /\ (IdSlot[t] = AnySlot \/ IdSlot[t] = s)}

Defer(t) ==
    /\ queue_tasks' = Tail(queue_tasks)
    /\ queue_tasks_deferred' = Append(queue_tasks_deferred, Work(t))

IsCompletion(t) == Kind[Owner(t)] \in {"completion", "stream", "embedding"}

\* No slot, a slot id that does not exist, or a busy slot: defer() the task.
DeferCompletion(t) ==
    /\ AtFront(Work(t)) /\ IsCompletion(t) /\ Candidates(t) = {}
    /\ Defer(t)
    /\ UNCHANGED <<running, resultVars, slotVars, loopVars, handlerVars>>

\* A "system_prompt" in the data makes system_prompt_set() release every slot
\* before the chosen one is launched.
SystemPromptSet(new) ==
    /\ new => "system_prompt" \in Faults
    /\ PopDeferred(Tail(queue_tasks),
                   IF new THEN Cardinality({s \in Slots : Busy(s)}) ELSE 0)

LaunchSlot(t, s, newSystemPrompt) ==
    /\ AtFront(Work(t)) /\ IsCompletion(t) /\ s \in Candidates(t)
    /\ SystemPromptSet(newSystemPrompt)
    /\ state' = [x \in Slots |-> IF x = s THEN "prompt"
                                 ELSE IF newSystemPrompt THEN "idle" ELSE state[x]]
    /\ id_task' = [id_task EXCEPT ![s] = t]
    /\ prompt_left' = [prompt_left EXCEPT ![s] = 0]
    /\ UNCHANGED <<running, resultVars, n_decoded, loopVars, handlerVars>>

\* launch_slot_with_task() refuses the request: the slot keeps the id but stays
\* idle, and nothing calls pop_deferred_task() for it.
LaunchFails(t, s, newSystemPrompt) ==
    /\ AtFront(Work(t)) /\ IsCompletion(t) /\ s \in Candidates(t)
    /\ "launch" \in Faults
    /\ SystemPromptSet(newSystemPrompt)
    /\ state' = [x \in Slots |-> IF newSystemPrompt THEN "idle" ELSE state[x]]
    /\ id_task' = [id_task EXCEPT ![s] = t]
    /\ Send(Error(t))
    /\ UNCHANGED <<running, waiting_task_ids, n_decoded, prompt_left, loopVars,
                   handlerVars>>

\* The first slot with the target's id is released, whatever it does now.
ProcessCancel(t) ==
    /\ AtFront(Cancel(t))
    /\ LET target == {s \in Slots : id_task[s] = t}
       IN  \/ /\ target = {}
              /\ queue_tasks' = Tail(queue_tasks)
              /\ UNCHANGED <<queue_tasks_deferred, state>>
           \/ \E s \in target :
              /\ \A x \in target : s <= x
              /\ PopDeferred(Tail(queue_tasks), IF Busy(s) THEN 1 ELSE 0)
              /\ state' = [state EXCEPT ![s] = "idle"]
    /\ UNCHANGED <<running, resultVars, id_task, n_decoded, prompt_left, loopVars,
                   handlerVars>>

ProcessNextResponse ==
    /\ AtFront(NextResponse)
    /\ queue_tasks' = Tail(queue_tasks)
    /\ UNCHANGED <<queue_tasks_deferred, running, resultVars, slotVars, loopVars,
                   handlerVars>>

\* Metrics and LoRA tasks are answered at once.
ProcessAtOnce(t) ==
    /\ AtFront(Work(t)) /\ Kind[Owner(t)] \in {"metrics", "lora"}
    /\ queue_tasks' = Tail(queue_tasks)
    /\ Send(Final(t, 0))
    /\ UNCHANGED <<queue_tasks_deferred, running, waiting_task_ids, slotVars, loopVars,
                   handlerVars>>

\* save, restore and erase: an unknown slot or a failed restore is an error, a
\* busy slot defers the task, and a slot they are done with is not released.
ProcessSlotAction(t) ==
    /\ AtFront(Work(t)) /\ Kind[Owner(t)] = "slot_action"
    /\ \/ /\ IdSlot[t] \notin Slots \/ ("restore" \in Faults /\ ~Busy(IdSlot[t]))
          /\ queue_tasks' = Tail(queue_tasks)
          /\ Send(Error(t))
          /\ UNCHANGED queue_tasks_deferred
       \/ /\ IdSlot[t] \in Slots /\ ~Busy(IdSlot[t])
          /\ queue_tasks' = Tail(queue_tasks)
          /\ Send(Final(t, 0))
          /\ UNCHANGED queue_tasks_deferred
       \/ /\ IdSlot[t] \in Slots /\ Busy(IdSlot[t])
          /\ Defer(t)
          /\ UNCHANGED queue_results
    /\ UNCHANGED <<running, waiting_task_ids, slotVars, loopVars, handlerVars>>

TasksDrained ==
    /\ loop = "tasks" /\ queue_tasks = << >>
    /\ loop' = "update"
    /\ UNCHANGED <<queueVars, resultVars, slotVars, todo, batch, batch_type, handlerVars>>

\* Mutant of WaitForTasks: the wait is only for tasks.
WaitIgnoresRunning ==
    /\ loop = "wait" /\ queue_tasks # << >> /\ loop' = "tasks"
    /\ UNCHANGED <<queueVars, resultVars, slotVars, todo, batch, batch_type, handlerVars>>

\* The loop waits until the queue has a task; once it is told to stop it leaves
\* when it finds the queue empty.
WaitForTasks ==
    /\ loop = "wait"
    /\ \/ queue_tasks # << >> /\ loop' = "tasks"
       \/ queue_tasks = << >> /\ ~running /\ loop' = "stopped"
    /\ UNCHANGED <<queueVars, resultVars, slotVars, todo, batch, batch_type, handlerVars>>

Terminate ==
    /\ "terminate" \in Faults /\ running
    /\ running' = FALSE
    /\ UNCHANGED <<queue_tasks, queue_tasks_deferred, resultVars, slotVars, loopVars,
                   handlerVars>>

-----------------------------------------------------------------------------
(* The main loop: update_slots()                                           *)

\* Mutant of UpdateSlots: NEXT_RESPONSE is not posted.
UpdateSlotsWithoutNext ==
    /\ loop = "update"
    /\ todo' = {s \in Slots : Busy(s)}
    /\ loop' = IF todo' = {} THEN "wait" ELSE "shift"
    /\ UNCHANGED <<queueVars, resultVars, slotVars, batch, batch_type, handlerVars>>

\* While a slot is processing, a NEXT_RESPONSE task keeps the loop turning.
UpdateSlots ==
    /\ loop = "update"
    /\ todo' = {s \in Slots : Busy(s)}
    /\ \/ todo' = {} /\ loop' = "wait" /\ UNCHANGED queue_tasks
       \/ todo' # {} /\ loop' = "shift" /\ queue_tasks' = Append(queue_tasks, NextResponse)
    /\ UNCHANGED <<queue_tasks_deferred, running, resultVars, slotVars, batch, batch_type,
                   handlerVars>>

\* Without context shift a slot whose context is full is released with an error; the
\* slots before it have room left.
ContextFull(s) ==
    /\ loop = "shift" /\ s \in todo /\ "context_full" \in Faults
    /\ Release(s)
    /\ Send(Error(id_task[s]))
    /\ todo' = {x \in todo : x > s}
    /\ UNCHANGED <<running, waiting_task_ids, id_task, n_decoded, prompt_left, loop,
                   batch, batch_type, handlerVars>>

\* The others have room left, or are shifted.  Generating slots put their sampled token
\* in the batch first; when that fills it, or without continuous batching, no prompt is
\* looked at in this round.
BatchSampled ==
    /\ loop = "shift" /\ loop' = "batch"
    /\ batch' = {s \in Slots : state[s] = "generating"}
    /\ batch_type' = IF batch' = {} THEN "none" ELSE "completion"
    /\ \/ todo' = {s \in Slots : state[s] = "prompt"}
       \/ batch' # {} /\ todo' = {}
    /\ UNCHANGED <<queueVars, resultVars, slotVars, handlerVars>>

\* The for-loops over slots visit them in order.
IsNext(s) == s \in todo /\ \A x \in todo : s <= x

\* A prompt that tokenizes to nothing ends the request with an empty response;
\* one that does not fit the physical batch or the context ends it with an error.
RejectPrompt(s) ==
    /\ loop = "batch" /\ IsNext(s) /\ prompt_left[s] = 0
    /\ \/ "empty" \in Faults /\ Send(Final(id_task[s], 0))
       \/ "large" \in Faults /\ Send(Error(id_task[s]))
    /\ Release(s)
    /\ todo' = todo \ {s}
    /\ UNCHANGED <<running, waiting_task_ids, id_task, n_decoded, prompt_left, loop,
                   batch, batch_type, handlerVars>>

IsEmbedding(s) == Kind[Owner(id_task[s])] = "embedding"
TypeOf(s)      == IF IsEmbedding(s) THEN "embedding" ELSE "completion"

\* The prompt is tokenized on the first visit.  An embedding prompt fits one batch.
Tokenize(s) ==
    /\ loop = "batch" /\ IsNext(s) /\ prompt_left[s] = 0
    /\ \E n \in 1 .. PromptBatches :
           /\ IsEmbedding(s) => n = 1
           /\ prompt_left' = [prompt_left EXCEPT ![s] = n]
    /\ UNCHANGED <<queueVars, resultVars, state, id_task, n_decoded, loopVars,
                   handlerVars>>

\* Not this time: the batch is of the other type, or the embedding does not fit
\* what is left of it.
SkipPrompt(s) ==
    /\ loop = "batch" /\ IsNext(s) /\ prompt_left[s] > 0
    /\ batch_type \notin {"none", TypeOf(s)} \/ (IsEmbedding(s) /\ batch # {})
    /\ todo' = todo \ {s}
    /\ UNCHANGED <<queueVars, resultVars, slotVars, loop, batch, batch_type, handlerVars>>

\* The rest of the prompt fits the batch; the loop ends when that fills the batch.
BatchPrompt(s) ==
    /\ loop = "batch" /\ IsNext(s) /\ prompt_left[s] = 1
    /\ batch_type \in {"none", TypeOf(s)}
    /\ state' = [state EXCEPT ![s] = "done_prompt"]
    /\ n_decoded' = [n_decoded EXCEPT ![s] = 0]
    /\ batch' = batch \cup {s}
    /\ batch_type' = TypeOf(s)
    /\ \E full \in BOOLEAN : todo' = IF full THEN {} ELSE todo \ {s}
    /\ UNCHANGED <<queueVars, resultVars, id_task, prompt_left, loop, handlerVars>>

\* Part of the prompt fills the batch, or the batch was full already and takes
\* no token of it; either way no later slot is visited.
BatchPartOfPrompt(s) ==
    /\ loop = "batch" /\ IsNext(s) /\ prompt_left[s] > 0 /\ ~IsEmbedding(s)
    /\ batch_type \in {"none", TypeOf(s)}
    /\ \/ /\ prompt_left[s] > 1
          /\ prompt_left' = [prompt_left EXCEPT ![s] = @ - 1]
          /\ batch' = batch \cup {s}
       \/ /\ batch # {}
          /\ UNCHANGED <<prompt_left, batch>>
    /\ batch_type' = TypeOf(s)
    /\ todo' = {}
    /\ UNCHANGED <<queueVars, resultVars, state, id_task, n_decoded, loop, handlerVars>>

\* With no token in the batch there is nothing to decode.
BatchReady ==
    /\ loop = "batch" /\ todo = {}
    /\ loop' = IF batch = {} THEN "wait" ELSE "decode"
    /\ UNCHANGED <<queueVars, resultVars, slotVars, todo, batch, batch_type, handlerVars>>

\* llama_decode() succeeded on the view with the tokens of slot s.  Views follow
\* the order of the tokens, not of the slots, so any slot of the batch is next.
DecodePart(s) ==
    /\ loop = "decode" /\ s \in batch /\ state[s] = "prompt"
    /\ batch' = batch \ {s}
    /\ UNCHANGED <<queueVars, resultVars, slotVars, loop, todo, batch_type, handlerVars>>

DecodeEmbedding(s) ==
    /\ loop = "decode" /\ s \in batch /\ state[s] = "done_prompt" /\ IsEmbedding(s)
    /\ Send(Final(id_task[s], 0))
    /\ Release(s)
    /\ batch' = batch \ {s}
    /\ UNCHANGED <<running, waiting_task_ids, id_task, n_decoded, prompt_left, loop, todo,
                   batch_type, handlerVars>>

\* A token is sampled; a streaming request is sent what the token completes,
\* which is nothing in the middle of a UTF-8 character.
SampleToken(s) ==
    /\ loop = "decode" /\ s \in batch
    /\ state[s] = "generating" \/ (state[s] = "done_prompt" /\ ~IsEmbedding(s))
    /\ state' = [state EXCEPT ![s] = "generating"]
    /\ n_decoded' = [n_decoded EXCEPT ![s] = @ + 1]
    /\ \/ Kind[Owner(id_task[s])] = "stream" /\ Send(Partial(id_task[s], n_decoded[s] + 1))
       \/ UNCHANGED queue_results
    /\ batch' = batch \ {s}
    /\ loop' = "token" /\ todo' = {s}
    /\ UNCHANGED <<queueVars, waiting_task_ids, id_task, prompt_left, batch_type,
                   handlerVars>>

\* process_token(): stop words, EOS and limits end a generation, the size of the
\* context does in any case.
StopSlot(s) ==
    /\ loop = "token" /\ s \in todo
    /\ Release(s)
    /\ Send(Final(id_task[s], n_decoded[s]))
    /\ loop' = "decode" /\ todo' = {}
    /\ UNCHANGED <<running, waiting_task_ids, id_task, n_decoded, prompt_left, batch,
                   batch_type, handlerVars>>

\* Mutant of ContinueSlot: the context limit is off by one.
ContinueSlotOnceMore(s) ==
    /\ loop = "token" /\ s \in todo /\ n_decoded[s] <= MaxTokens
    /\ loop' = "decode" /\ todo' = {}
    /\ UNCHANGED <<queueVars, resultVars, slotVars, batch, batch_type, handlerVars>>

ContinueSlot(s) ==
    /\ loop = "token" /\ s \in todo /\ n_decoded[s] < MaxTokens
    /\ loop' = "decode" /\ todo' = {}
    /\ UNCHANGED <<queueVars, resultVars, slotVars, batch, batch_type, handlerVars>>

DecodeDone ==
    /\ loop = "decode" /\ batch = {}
    /\ loop' = "wait"
    /\ UNCHANGED <<queueVars, resultVars, slotVars, todo, batch, batch_type, handlerVars>>

\* llama_decode() failed with the smallest batch: give up on every slot.
DecodeFails ==
    /\ loop = "decode" /\ batch # {} /\ "decode" \in Faults
    /\ loop' = "fail" /\ todo' = Slots /\ batch' = {}
    /\ UNCHANGED <<queueVars, resultVars, slotVars, batch_type, handlerVars>>

\* The error goes to whatever task the slot ran last, be it finished or not.
FailSlot(s) ==
    /\ loop = "fail" /\ IsNext(s)
    /\ Release(s)
    /\ IF id_task[s] = NoTask THEN UNCHANGED queue_results ELSE Send(Error(id_task[s]))
    /\ todo' = todo \ {s}
    /\ UNCHANGED <<running, waiting_task_ids, id_task, n_decoded, prompt_left, loop,
                   batch, batch_type, handlerVars>>

FailDone ==
    /\ loop = "fail" /\ todo = {}
    /\ loop' = "wait"
    /\ UNCHANGED <<queueVars, resultVars, slotVars, todo, batch, batch_type, handlerVars>>

-----------------------------------------------------------------------------
Init ==
    /\ queue_tasks = << >> /\ queue_tasks_deferred = << >> /\ running = TRUE
    /\ waiting_task_ids = {} /\ queue_results = << >>
    /\ state = [s \in Slots |-> "idle"] /\ id_task = [s \in Slots |-> NoTask]
    /\ n_decoded = [s \in Slots |-> 0] /\ prompt_left = [s \in Slots |-> 0]
    /\ loop = "tasks" /\ todo = {} /\ batch = {} /\ batch_type = "none"
    /\ pc = [r \in Requests |-> "new"] /\ n_received = [r \in Requests |-> 0]
    /\ answered = {}

Handler(r) == \/ AddWaitingTasks(r) \/ Post(r) \/ Recv(r)
              \/ CancelForget(r) \/ CancelPost(r) \/ RemoveWaiting(r)

ProcessSingleTask ==
    \/ \E t \in Tasks : \/ DeferCompletion(t)
                        \/ \E s \in Slots, new \in BOOLEAN :
                               LaunchSlot(t, s, new) \/ LaunchFails(t, s, new)
                        \/ ProcessCancel(t)
                        \/ ProcessAtOnce(t)
                        \/ ProcessSlotAction(t)
    \/ ProcessNextResponse

UpdateSlot(s) == \/ ContextFull(s)
                 \/ RejectPrompt(s) \/ Tokenize(s) \/ SkipPrompt(s)
                 \/ BatchPrompt(s) \/ BatchPartOfPrompt(s)
                 \/ DecodePart(s) \/ DecodeEmbedding(s)
                 \/ SampleToken(s) \/ StopSlot(s) \/ ContinueSlot(s) \/ FailSlot(s)

MainLoop == \/ ProcessSingleTask \/ TasksDrained \/ WaitForTasks
            \/ UpdateSlots \/ BatchSampled \/ (\E s \in Slots : UpdateSlot(s))
            \/ BatchReady \/ DecodeDone \/ DecodeFails \/ FailDone

\* Every request was served and the server waits for the next one, or has stopped.
Quiescent ==
    /\ \A r \in Requests : pc[r] = "done"
    /\ queue_tasks = << >> /\ loop \in {"wait", "stopped"}
    /\ UNCHANGED vars

Next == MainLoop \/ Terminate \/ (\E r \in Requests : Handler(r)) \/ Quiescent

Spec == Init /\ [][Next]_vars

\* The main thread and the handler threads are scheduled; nothing obliges a
\* client to send a request, to disconnect, or a fault to happen.
FairSpec == /\ Spec
            /\ WF_vars(MainLoop)
            /\ \A r \in Requests : WF_vars(pc[r] # "new" /\ Handler(r))

-----------------------------------------------------------------------------
(* Correctness                                                             *)

\* Every variable holds a value of its kind.
TypeOK ==
    /\ queue_tasks \in Seq(Message)
    /\ queue_tasks_deferred \in Seq(Message)
    /\ running \in BOOLEAN
    /\ waiting_task_ids \subseteq Tasks
    /\ queue_results \in Seq(Result)
    /\ state \in [Slots -> {"idle", "prompt", "done_prompt", "generating"}]
    /\ id_task \in [Slots -> Tasks \cup {NoTask}]
    /\ n_decoded \in [Slots -> 0 .. MaxTokens]
    /\ prompt_left \in [Slots -> 0 .. PromptBatches]
    /\ loop \in {"tasks", "update", "shift", "batch", "decode", "token", "fail", "wait", "stopped"}
    /\ todo \subseteq Slots /\ batch \subseteq Slots
    /\ batch_type \in {"none", "completion", "embedding"}
    /\ pc \in [Requests -> {"new", "registered", "posted", "recv", "cancel", "cleanup",
                            "done"}]
    /\ n_received \in [Requests -> Nat]
    /\ answered \subseteq Tasks

\* Where a task is: in the queue, deferred, or running on a slot.
Places(t) ==
    ({"queue"} \X {i \in DOMAIN queue_tasks : queue_tasks[i] = Work(t)})
        \cup ({"deferred"} \X {i \in DOMAIN queue_tasks_deferred :
                                  queue_tasks_deferred[i] = Work(t)})
        \cup ({"slot"} \X {s \in Slots : Busy(s) /\ id_task[s] = t})

\* A task is never in two places: however posts, deferrals, cancels and releases
\* interleave, no slot runs a task that another slot runs or that is still queued.
OnePlace == \A t \in Tasks : \A p, q \in Places(t) : p = q

HasLastResult(t) ==
    \E i \in DOMAIN queue_results : /\ queue_results[i].id = t
                                    /\ queue_results[i].stop \/ queue_results[i].error

\* While a handler waits for the results of its tasks, each task whose last
\* result it has not received still has a place in the server or has that
\* result waiting: nothing is dropped on the way.
NothingLost ==
    \A r \in Requests : pc[r] = "recv" =>
        \A t \in Ids(r) : t \in answered \/ HasLastResult(t) \/ Places(t) # {}

\* Results of one task are queued in the order its tokens were decoded, nothing
\* follows the last one, and nothing is queued for a task already answered.
ResultsInOrder ==
    /\ \A i, j \in DOMAIN queue_results :
        i < j /\ queue_results[i].id = queue_results[j].id =>
            /\ ~queue_results[i].stop /\ ~queue_results[i].error
            /\ queue_results[j].error \/ queue_results[i].n <= queue_results[j].n
    /\ \A i \in DOMAIN queue_results : queue_results[i].id \notin answered

\* While a slot is processing, the main loop has a reason to turn: it is in the
\* middle of an iteration or a task is queued (the NEXT_RESPONSE it posted).
BusySlotKeepsLoopTurning ==
    (\E s \in Slots : Busy(s)) /\ loop = "wait" => queue_tasks # << >>

\* Every request whose tasks were posted is eventually served to the end.
EveryRequestServed == \A r \in Requests : pc[r] \in {"registered", "posted"} ~> pc[r] = "done"

\* Once a handler is done with its request, also one whose client went away, no
\* slot keeps working on it.
SlotsAreFreed ==
    \A r \in Requests : pc[r] = "done" ~> \A t \in Ids(r) : Places(t) = {}

\* A deferred task does not stay deferred.  The code does not keep this: a refused
\* launch, a slot action or an unknown slot leaves tasks deferred (see the README).
DeferredIsProcessed ==
    \A t \in Tasks : (\E i \in DOMAIN queue_tasks_deferred : queue_tasks_deferred[i] = Work(t))
        ~> (\A i \in DOMAIN queue_tasks_deferred : queue_tasks_deferred[i] # Work(t))

\* recv() returns to its caller.
RecvReturns == \A r \in Requests : pc[r] = "recv" ~> pc[r] # "recv"

\* After terminate() the main loop ends.
LoopStops == ~running ~> loop = "stopped"
=============================================================================
