---------------------------- MODULE LlamaAndroid ----------------------------
(***************************************************************************)
(* LLamaAndroid (examples/llama.android, LLamaAndroid.kt) with its native  *)
(* glue (llama-android.cpp): load(), send() and unload() as coroutines on  *)
(* one thread, the run loop.                                               *)
(*                                                                         *)
(* The thread takes coroutines from a queue and runs each until it ends or *)
(* suspends: load() and unload() suspend in delay(50) while an operation   *)
(* is under way, send() when the channel of flowOn() is full.  Between     *)
(* suspensions nothing else runs on the thread, so a load or an unload is  *)
(* one step; a send, which hands out tokens as it goes, is one step per    *)
(* token.  A client collects the tokens on another thread, may cancel a    *)
(* call any time, and calls from anywhere.  A context stands for itself    *)
(* and its model; it is named by the load() that made it.                  *)
(***************************************************************************)
EXTENDS Integers, Sequences, FiniteSets

CONSTANTS
    NLen,        \* nlen
    Buffers,     \* capacities the channel of flowOn() may have (64 by default)
    PromptLens,  \* lengths of prompts, in tokens; what does not fit in new_batch(512) is left out
    MaxJobs,     \* bound: calls
    Faults       \* what may fail: "load" (no model or no context), "batch", "decode" (llama_decode())

ASSUME AndroidAssumption ==
    /\ NLen \in Nat /\ MaxJobs \in Nat
    /\ Buffers \subseteq Nat /\ PromptLens \subseteq Nat \ {0}

VARIABLES
    state,           \* threadLocalState: the loaded context, or NoContext (State.Idle)
    isUnloading, operationCount,
    live,            \* contexts that are not freed
    job,             \* the calls, oldest first
    queue,           \* what the run loop is to start or to resume
    running,         \* the send() the run loop is in, or 0
    buffer           \* the capacity of channels

libVars == <<state, isUnloading, operationCount, live, job, queue, running, buffer>>

NoContext == 0

\* A call: where it is, the context it uses, ncur, the tokens it has in the KV cache of
\* its context, whether llama_decode() failed for some of its tokens, the tokens it has
\* emitted and the client has not received, and how it ended.
NewJob(kind, n) ==
    [kind |-> kind, pc |-> "queued", cancelled |-> FALSE, ctx |-> NoContext,
     n_cur |-> n, held |-> 0, missed |-> FALSE, buffered |-> 0, end |-> "none"]

\* A send() that is counted in operationCount.
Operating(x) == x.kind = "send" /\ x.pc \in {"loop", "emit", "resumed"}

Returned(x) == x.pc = "returned"

-----------------------------------------------------------------------------
(* Clients                                                                 *)

Cancelled(js) ==
    [j \in DOMAIN job |-> IF j \in js /\ ~Returned(job[j]) THEN [job[j] EXCEPT !.cancelled = TRUE]
                                                            ELSE job[j]]

\* A client cancels some calls and makes another.
Call(kind, n, js) ==
    /\ Len(job) < MaxJobs
    /\ job' = Append(Cancelled(js), NewJob(kind, n))
    /\ queue' = Append(queue, Len(job) + 1)
    /\ UNCHANGED <<state, isUnloading, operationCount, live, running, buffer>>

Cancel(js) ==
    /\ job' = Cancelled(js)
    /\ UNCHANGED <<state, isUnloading, operationCount, live, queue, running, buffer>>

\* The collector takes a token; when it throws on it, the call is cancelled.
Receive(j, throws) ==
    /\ job[j].buffered > 0 /\ ~job[j].cancelled
    /\ job' = [job EXCEPT ![j].buffered = @ - 1, ![j].cancelled = throws]
    /\ UNCHANGED <<state, isUnloading, operationCount, live, queue, running, buffer>>

\* The call returns to its client when its coroutine has ended; a collector that was
\* not cancelled has all tokens by then.  Nothing of the call is left.
Return(j) ==
    /\ job[j].pc = "done" /\ (job[j].buffered = 0 \/ job[j].cancelled)
    /\ job' = [job EXCEPT ![j] = [NewJob(@.kind, 0) EXCEPT !.pc = "returned"]]
    /\ UNCHANGED <<state, isUnloading, operationCount, live, queue, running, buffer>>

-----------------------------------------------------------------------------
(* The run loop                                                            *)

Begins(j, kinds) ==
    /\ running = 0 /\ queue # << >> /\ j = Head(queue) /\ job[j].kind \in kinds
    /\ queue' = Tail(queue)

\* What is suspended goes on when there is room in the channel, when the delay is over,
\* or because it is cancelled.
Resume(j) ==
    /\ \/ job[j].pc = "emit" /\ (job[j].cancelled \/ job[j].buffered <= buffer)
       \/ job[j].pc = "delay"
    /\ job' = [job EXCEPT ![j].pc = "resumed"]
    /\ queue' = Append(queue, j)
    /\ UNCHANGED <<state, isUnloading, operationCount, live, running, buffer>>

\* withContext() does not start, and delay() does not go on, when the call is cancelled.
\* A call that was waiting leaves isUnloading as it is.
Withdrawn(j) ==
    /\ Begins(j, {"load", "unload"}) /\ job[j].cancelled
    /\ job' = [job EXCEPT ![j].pc = "done", ![j].end = "cancelled"]
    /\ UNCHANGED <<state, isUnloading, operationCount, live, running, buffer>>

\* The flag is set at the start, and not again after a delay.
Flagged(j) == job[j].pc = "queued" \/ isUnloading

Waits(j) ==
    /\ Begins(j, {"load", "unload"}) /\ ~job[j].cancelled
    /\ operationCount > 0
    /\ isUnloading' = Flagged(j)
    /\ job' = [job EXCEPT ![j].pc = "delay"]
    /\ UNCHANGED <<state, operationCount, live, running, buffer>>

\* The new context is there before the old one is freed.
Replacing(j, new) ==
    /\ ~job[j].cancelled
    /\ live' = (live \ {state}) \cup ({new} \ {NoContext})
    /\ state' = new
    /\ isUnloading' = FALSE
    /\ job' = [job EXCEPT ![j].pc = "done", ![j].end = "complete"]
    /\ UNCHANGED <<operationCount, running, buffer>>

\* Mutant of Loads: without waiting for the operations that use the old context.
LoadsAtOnce(j) == Begins(j, {"load"}) /\ Replacing(j, j)

Loads(j) == Begins(j, {"load"}) /\ operationCount = 0 /\ Replacing(j, j)

Unloads(j) == Begins(j, {"unload"}) /\ operationCount = 0 /\ Replacing(j, NoContext)

\* No model or no context: the exception passes by the end of load(), where the flag is reset.
LoadFails(j) ==
    /\ "load" \in Faults
    /\ Begins(j, {"load"}) /\ ~job[j].cancelled /\ operationCount = 0
    /\ isUnloading' = Flagged(j)
    /\ job' = [job EXCEPT ![j].pc = "done", ![j].end = "failed"]
    /\ UNCHANGED <<state, operationCount, live, running, buffer>>

\* Mutant of Refused: a send() that finds no model is not counted off.
RefusedUncounted(j) ==
    /\ Begins(j, {"send"}) /\ job[j].pc = "queued"
    /\ isUnloading \/ state = NoContext
    /\ job' = [job EXCEPT ![j].pc = "done", ![j].end = IF isUnloading THEN "refused" ELSE "failed"]
    /\ operationCount' = IF isUnloading THEN operationCount ELSE operationCount + 1
    /\ UNCHANGED <<state, isUnloading, live, running, buffer>>

\* A send() is started even when it is cancelled already (CoroutineStart.ATOMIC).  Without a
\* model it is counted in operationCount and off again.
Refused(j) ==
    /\ Begins(j, {"send"}) /\ job[j].pc = "queued"
    /\ isUnloading \/ state = NoContext
    /\ job' = [job EXCEPT ![j].pc = "done", ![j].end = IF isUnloading THEN "refused" ELSE "failed"]
    /\ UNCHANGED <<state, isUnloading, operationCount, live, running, buffer>>

\* The finally blocks: the KV cache of a context is cleared, whoever has tokens in it.
Cleared(j, ctx, how) ==
    [i \in DOMAIN job |->
        LET x == IF job[i].ctx = ctx THEN [job[i] EXCEPT !.held = 0] ELSE job[i]
        IN  IF i = j THEN [x EXCEPT !.pc = "done", !.end = how] ELSE x]

NoBatch(j) ==
    /\ "batch" \in Faults
    /\ Begins(j, {"send"}) /\ job[j].pc = "queued"
    /\ ~isUnloading /\ state # NoContext
    /\ job' = Cleared(j, state, "failed")
    /\ UNCHANGED <<state, isUnloading, operationCount, live, running, buffer>>

\* llama_decode() of n tokens, after which the call x goes on: the KV cache takes them
\* all or, when it fails, none.  That it failed is logged, and no more.
Decoded(x, n) ==
    {[x EXCEPT !.held = @ + n]} \cup {y \in {[x EXCEPT !.missed = TRUE]} : "decode" \in Faults}

\* completion_init(): the prompt is decoded, ncur is its length.
Starts(j) ==
    /\ Begins(j, {"send"}) /\ job[j].pc = "queued"
    /\ ~isUnloading /\ state # NoContext
    /\ operationCount' = operationCount + 1
    /\ \E x \in Decoded([job[j] EXCEPT !.pc = "loop", !.ctx = state], job[j].n_cur) :
           job' = [job EXCEPT ![j] = x]
    /\ running' = j
    /\ UNCHANGED <<state, isUnloading, live, buffer>>

\* Mutant of Ends: the KV cache is left as it is.
EndsUncleared(j, how) ==
    /\ operationCount' = operationCount - 1
    /\ job' = [job EXCEPT ![j].pc = "done", ![j].end = how]
    /\ running' = 0
    /\ UNCHANGED <<state, isUnloading, live, buffer>>

Ends(j, how) ==
    /\ operationCount' = operationCount - 1
    /\ job' = Cleared(j, job[j].ctx, how)
    /\ running' = 0
    /\ UNCHANGED <<state, isUnloading, live, buffer>>

\* emit() after a suspension: a cancelled one throws.
GoesOn(j) ==
    /\ Begins(j, {"send"}) /\ job[j].pc = "resumed"
    /\ IF job[j].cancelled
       THEN Ends(j, "cancelled")
       ELSE /\ job' = [job EXCEPT ![j].pc = "loop"] /\ running' = j
            /\ UNCHANGED <<state, isUnloading, operationCount, live, buffer>>

InLoop(j) == running = j /\ j # 0 /\ UNCHANGED queue

\* The head of the while loop.
Stops(j) ==
    /\ InLoop(j)
    /\ \/ job[j].n_cur > NLen /\ Ends(j, "complete")
       \/ job[j].n_cur <= NLen /\ (isUnloading \/ state = NoContext) /\ Ends(j, "refused")

Samples(j) == InLoop(j) /\ job[j].n_cur <= NLen /\ ~isUnloading /\ state # NoContext

\* completion_loop() returns null.
EndOfText(j) == Samples(j) /\ Ends(j, "complete")

\* emit(): send() suspends when the channel is full.
Emitted(x) ==
    [x EXCEPT !.n_cur = @ + 1, !.buffered = @ + 1, !.pc = IF x.buffered + 1 > buffer THEN "emit" ELSE @]

\* completion_loop() decodes a token, which is then emitted.
Token(j) ==
    /\ Samples(j) /\ job[j].n_cur # NLen /\ ~job[j].cancelled
    /\ \E x \in Decoded(Emitted(job[j]), 1) : job' = [job EXCEPT ![j] = x]
    /\ running' = IF job[j].buffered + 1 > buffer THEN 0 ELSE running
    /\ UNCHANGED <<state, isUnloading, operationCount, live, buffer>>

\* emit() throws when the call is cancelled.
TokenUnwanted(j) == Samples(j) /\ job[j].n_cur # NLen /\ job[j].cancelled /\ Ends(j, "cancelled")

RunLoop(j) ==
    \/ Withdrawn(j) \/ Waits(j) \/ Loads(j) \/ Unloads(j) \/ LoadFails(j)
    \/ Refused(j) \/ NoBatch(j) \/ Starts(j) \/ GoesOn(j)
    \/ Stops(j) \/ EndOfText(j) \/ Token(j) \/ TokenUnwanted(j)

-----------------------------------------------------------------------------
LibInit ==
    /\ state = NoContext /\ isUnloading = FALSE /\ operationCount = 0 /\ live = {}
    /\ job = << >> /\ queue = << >> /\ running = 0
    /\ buffer \in Buffers

Client ==
    \/ \E js \in SUBSET DOMAIN job :
           \/ Cancel(js)
           \/ Call("load", 0, js) \/ Call("unload", 0, js)
           \/ \E n \in PromptLens : Call("send", n, js)
    \/ \E j \in DOMAIN job : Return(j) \/ \E throws \in BOOLEAN : Receive(j, throws)

LibNext == Client \/ \E j \in DOMAIN job : RunLoop(j) \/ Resume(j)

LibSpec == LibInit /\ [][LibNext]_libVars

-----------------------------------------------------------------------------
(* Correctness                                                             *)

Calls ==
    [kind : {"load", "unload", "send"},
     pc : {"queued", "delay", "loop", "emit", "resumed", "done", "returned"},
     cancelled : BOOLEAN, ctx : Nat, n_cur : Nat, held : Nat, missed : BOOLEAN, buffered : Nat,
     end : {"none", "complete", "refused", "failed", "cancelled"}]

LibTypeOK ==
    /\ state \in Nat /\ isUnloading \in BOOLEAN /\ operationCount \in Nat
    /\ live \subseteq Nat
    /\ job \in Seq(Calls)
    /\ queue \in Seq(DOMAIN job) /\ running \in {0} \cup DOMAIN job
    /\ buffer \in Buffers

\* A context is not freed while a send() uses it: neither one that is generating nor one
\* that is suspended with tokens nobody has fetched ("Wait until all ongoing operations
\* have completed", load() and unload()).
NoUseAfterFree == \A j \in DOMAIN job : Operating(job[j]) => job[j].ctx \in live

\* No token of an answer is sampled from another call's: the KV cache holds the tokens of
\* this call, all that ncur counts unless llama_decode() failed for some of them, and of
\* no other.  It rests on a channel that takes a whole answer, so that a send() never
\* suspends half way (nlen and flowOn()).
AnswersItsPrompt ==
    NLen - 1 <= buffer =>
        \A j \in DOMAIN job : running = j =>
            /\ job[j].held = job[j].n_cur \/ (job[j].missed /\ job[j].held < job[j].n_cur)
            /\ \A i \in DOMAIN job \ {j} : job[i].ctx = job[j].ctx => job[i].held = 0

=============================================================================
