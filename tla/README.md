# Verification of llamacpp-kt in TLA+

llamacpp-kt is an Android application in Kotlin around a copy of llama.cpp
(release b3821, directory `src/llama.cpp-b3821`). Almost all of its behaviour is
that copy: the inference library, its CPU back end, its HTTP server and its log.
This directory holds TLA+ models of the parts whose correctness depends on the
order of events, TLC configurations that check them on small instances, and proofs
for TLAPS of what matters most in the request pipeline, the slots, the KV cache, the thread pool,
the Android app and the log. Paths below are relative to
`src/llama.cpp-b3821` unless they start with `src/`.

    tlasany M.tla                        parse a module
    tlc -workers 2 -config X.cfg MCM     check an instance (runs are listed below)
    tlapm M_proofs.tla                   check the proofs about M (ServerQueue,
                                         ServerSlots, KVCache, KVState, ThreadPool,
                                         App, Log; Tally_proofs has the lemmas on
                                         bags that three of them cite)

## 1. Inventory

### HTTP server, `examples/server/server.cpp` (modelled: ServerQueue)

*State.* `server_queue`: the tasks for the main loop, the deferred tasks, `running`.
`server_response`: the ids somebody waits for and the results not yet received. Each
`server_slot`: its state, the task it runs, what it has decoded. The batch of the
current iteration.

*Operations and interaction.* A handler thread per request registers task ids, posts
tasks, and receives results with a blocking `recv()`; when the client goes away or a
task fails it cancels the request. The main loop, one thread, takes all tasks one by
one (`process_single_task`: launch a slot, defer, cancel, slot actions, metrics, LoRA),
then calls `update_slots()`: prompts are put into a batch, the batch is decoded view by
view, tokens are sampled, results are sent, slots are released, and each release pops
one deferred task. Handlers and loop share the two queues, each under its mutex.

*Hard.* Handlers and loop interleave at every critical section; results may come for
ids not registered yet or no longer; deferred tasks depend on a chain of wake-ups;
decoding fails in the middle of a batch.

*Correct means.* No task is lost, duplicated or in two places; results arrive in
order and end with exactly one final one; the loop turns while a slot is busy; every
request is served; the loop stops when told to.

### The slots' cached context, `examples/server/server.cpp` (modelled: ServerSlots, on SeqCache)

*State.* Of each slot its prompt, `cache_tokens` (what the slot believes its sequence of
the KV cache holds), `n_past` and limits; the system prompt with `system_need_update`
and `clean_kv_cache`; the batch, its view and the `n_batch` in use.

*Operations.* `update_slots()` from the context shift to the sampling: prompts are
truncated, the longest common prefix with `cache_tokens` is kept and the rest of the
sequence removed, prompts and sampled tokens share a batch, the batch is decoded in views
and again in halves when there is no room; `system_prompt_set()` and its update; save,
restore and erase of a slot.

*Hard.* `cache_tokens` is a second account of the KV cache, kept by hand at a dozen
places, and padded with the token 0 where it is behind; the cache itself changes under a
failed or repeated decode, a system prompt, a shift.

*Correct means.* Every token is sampled from its request's own context; what the next
prompt would reuse of a slot is in the cache, where it should be; the cache never runs full.

### KV cache, `src/llama.cpp` (modelled: KVCache)

*State.* Cells (position, pending shift, sequences), `head`, `used`, `n`, `has_shift`,
`do_defrag`, and the K and V rows in tensors of their own.

*Operations.* `llama_kv_cache_clear`, `seq_rm`, `seq_cp`, `seq_keep`, `seq_add`,
`seq_div`, `defrag`, `update`; and, from `llama_decode`, the update, the slot search, the
number of cells to attend to, the storing of rows and the request for
defragmentation. The server, the examples and the app drive it.

*Hard.* Metadata and rows change at different moments and through different
indices: shifts are lazy, moves are planned first and copied later, a batch is split
into ubatches of which a later one may fail.

*Correct means.* `used` is the number of used cells; the rows of a used cell are
those of its token at its position, up to the pending shift; a search fails only when
nothing fits; attention covers every used cell; a defragmentation fills every hole.

### Saving and restoring, `src/llama.cpp` (modelled: KVState)

A file holds the cells of the cache or of one sequence, then their rows. It is read
field by field *into* the live cache. *Hard:* a file that ends early throws in the
middle; one that does not fit is cleaned up; a restored sequence takes its cells from
the slot search and must not disturb cells that others share. *Correct means:* what
is restored is what was saved, and other sequences are left alone.

### CPU thread pool, `ggml/src/ggml.c` (modelled: ThreadPool, Lockstep)

*State.* The pool's atomics (`n_graph`, `n_barrier`, `n_barrier_passed`,
`n_threads_cur`, `stop`, `pause`, `abort`), the plan of the call, and each worker's
`last_graph`. *Operations:* the main thread computes graphs, pauses, resumes and frees;
workers poll for a graph, go to sleep on a condition variable, compute nodes with a
barrier after each. *Hard:* polling looks at atomics that a kick-off is changing;
wake-ups can be missed; barriers are re-entered at once; an abort is seen by some
threads earlier than by others. *Correct means:* all threads of a graph compute all
nodes in step and once; every call returns.

### Asynchronous log, `common/log.cpp` (modelled: Log, LogQueue)

*State.* A ring buffer that grows, its worker thread, the settings. *Operations:* any
thread adds; one controller pauses, resumes, sets file and colours, frees. *Hard:*
the worker prints outside the mutex; growth rewrites the ring; settings change only
after the worker is joined. *Correct means:* every accepted message is shown once, in
order, in the settings it was logged under.

### Android app, `examples/llama.android` (modelled: LlamaAndroid, MainViewModel, Downloadable, App)

*State.* `LLamaAndroid`: the loaded model and context in a thread-local, `isUnloading`,
`operationCount`; the coroutines of its run loop, a single thread. `MainViewModel`: the
messages, `isLoading`, `sendJob`. `Downloadable`: the button's status, its monitors, the
file. Native: `ncur`, the KV cache of the context.

*Operations.* `load()`, `send()`, `unload()`, called from any coroutine and cancelled at
any time; the buttons and coroutines of the view model; starting, watching, cancelling and
redoing a download. A `send()` hands its tokens over through the channel of `flowOn()`,
64 deep, so that it suspends when the collector lags; `load()` and `unload()` wait for
sends in steps of 50 ms.

*Hard.* One thread does not mean one call at a time: at each suspension another call may
start on it. A call may be cancelled before, in and after each of them. The messages that
an answer is written to are addressed by index. A download is known by its button, its
monitors, the download manager and the file, none of which tells the others.

*Correct means.* No context is freed under a send; an answer comes from its own prompt
and stands behind it; every call ends; the button settles on what became of the download.

### Parts that are not modelled

| part | why |
|---|---|
| Self-extend (`ga_n` > 1), embeddings and infill prompts in ServerSlots; choice of a slot by similarity or age | other branches of the modelled functions: positions divided in groups, prompts glued together; any free slot may be chosen here |
| Batch splitting by `split_equal` and `split_seq`, output order (`llama_output_reserve`) | pure functions of a batch; KVCache splits as `split_simple` does, the only one a Transformer model uses |
| Recurrent KV cache (Mamba) | other branches of the same functions, with other invariants |
| `ggml-alloc.c`, `ggml-backend.c` | sequential algorithms over a whole compute graph; a model of them has graphs as its input and little state |
| `ggml-rpc.cpp` | one request at a time over one socket; what can go wrong is in the bytes |
| `llama-grammar.cpp`, samplers, tokenizers, JSON schemas | pure functions of text and of floating point numbers |
| quantization, GGUF, GPU back ends, kernels, converters | numerical or offline code; no state that changes in steps |
| command line, example programs | parsing; sequential drivers of the library |
| `json.hpp`, `httplib.h`, `stb_image.h`, `base64.hpp`, `unicode-data.cpp` | vendored code and tables |

The last four rows, with the kernels of `ggml.c`, are most of the source by size; what
changes state in an order that matters is a few thousand lines, in the files named above.

`PROJECT.json` lists all components, and under "hazards" the places in the code where
something may go wrong that a test would hardly reach, each with its line and the
properties that watch it.

## 2. Modules

| module | models | processes and state |
|---|---|---|
| ServerQueue | request pipeline of the server | one handler thread per request, the main loop |
| ServerSlots | what the slots keep in the KV cache; EXTENDS TokenBag | the main loop, a save file |
| KVCache | cells, rows, operations, search, shift, defragmentation | one context, one calling thread |
| KVState | EXTENDS KVCache with saving and restoring | the file, a restore in progress |
| TokenBag | the cache as a bag of tokens: what each operation does to it | none (operators) |
| Tally | bags counted with Cardinality | none (operators) |
| SeqCache | what the cache promises to its users; KVCache implements it | |
| ThreadPool | the pool's threads, one atomic access per step | program counters and atomics |
| Lockstep | what a computation promises; ThreadPool implements it | |
| Log | ring, worker, adders, controller | |
| LogQueue | what a log promises; Log implements it | |
| LlamaAndroid | load, send and unload on the run loop | clients, the run loop's thread, delays |
| MainViewModel | EXTENDS LlamaAndroid with the messages and buttons | the main thread |
| Downloadable | the download button | the main thread, the download manager |
| App | composes MainViewModel and Downloadable; implements LlamaAndroid | |
| ..._proofs | theorems about the module they are named after; App_proofs also those about LlamaAndroid; KVState_proofs EXTENDS KVCache_proofs | |
| Tally_proofs | lemmas about tallies, for KVCache_proofs and ServerSlots_proofs | |
| MC... | values for the constants; nothing else | |

**ServerQueue.** A step of a handler is one critical section of `mutex_tasks` or `mutex_results`;
`pc` says where it is between `AddWaitingTasks`, `Post`, `Recv`, `CancelForget`, `CancelPost` and
`RemoveWaiting`, whose order depends on the kind of handler (slot actions and LoRA post before
they register: `RegistersFirst`). A step of the main loop ends at the latest with the first result
it sends. `loop` names the place: taking tasks, releasing slots whose context is full, visiting
slots (`todo` is the rest of the for-loop), decoding the batch, handling a token, reporting a
failure, waiting. `Candidates` allows any free slot where the code picks one by similarity or age.
A prompt is a number of batches and a completion a number of tokens; when it ends is open.
`Release` includes the pop of a deferred task, `StopSlot` and its like the result they send: these
are parts of one action as they are of one function. What clients and model may do wrong is the
set `Faults`: a refused launch, an empty or too large prompt, a context that is full while context
shift is disabled, a failed decode, a disconnect, a file that cannot be restored, a new system
prompt, termination.

**ServerSlots.** One thread, the main loop, does everything here, so a step is one slot's turn in
one of the for-loops of `update_slots()` (`ShiftContext`, `AddSampled`, `AddPrompt`, `Sample`),
the decoding of one view with its outcome, or one task. Tokens are numbers, 0 among them, which is
also what `resize()` pads `cache_tokens` with (`Pad`); `Update` decodes a new system prompt, and
`UpdateFails` what becomes of one that does not fit or cannot be decoded: part of it stays, the
loop goes on as if it were there, and tries again in the next iteration. The cache is TokenBag's
bag: what a slot does is `seq_rm`, `seq_cp`, `seq_add`, `clear` and `decode`, and whether a decode
finds a place although there is room is left open, since that depends on the cells. `context[s]`
is history: the tokens the answer of slot `s` is to be based on, put together from the request as
the code truncates it, the system prompt, the tokens sampled and the shifts. `SamplesItsContext`
compares it with the bag at every sampling.

**KVCache.** `cells` and `rows` are kept apart. A cell carries, for the model only,
the token it stands for; a row the token it was computed for and the position its key
is rotated to. That makes `RowsMatchCells` a statement about both. The search and the
defragmentation are modelled step by step, with the code's locals; each operation on
sequences is one step, for one thread uses a context. `Update` is the K-shift (all
cells at once, as the graph does it), then perhaps a defragmentation. Only RoPE caches
of Transformers are modelled.

**KVState.** `LoadSeq`, `LoadSeqSearch`, `LoadSeqRows` follow `read_kv_cache_meta` and
`read_kv_cache_data` for one sequence; the search between them is KVCache's. The
variants `...Short`, `...Foreign` and `...Refused` are the ways out by exception, by a
mismatch and by clean-up. A file outlives its context (`Restart`). After a whole-cache
file that ended early `used` may be wrong; `Counted` then admits only what repairs the
cache, since the next removal would wrap the counter around. A sequence file without
cells is left out: the code then reads the first position of an empty batch.

**ThreadPool.** One access to a shared atomic, or one critical section of the pool's
mutex, is a step; kicking off a graph is two, because pollers do not take the mutex.
Threads are `pc` values named after the place in the code; in the barrier `Barrier` and
`ReadPassed` are its two loads. `Granted` is the clamp of the thread count to the size of the
pool. Memory is sequentially
consistent: the code uses relaxed loads with fences, and a reordering that a weakly
ordered processor may do beyond that is not modelled. This is the pool as built
without OpenMP (`ggml/CMakeLists.txt` turns OpenMP on by default).

**Log.** The fields of `gpt_log` under their names; `At`, `Following` and `Ring` are the
ring arithmetic. `Put` is the whole of the locked part of `add()`, growth included.
`Take` is the locked part of the worker, `PrintConsole` and `PrintFile` what it does
after. A control call is `Call` (with the end entry pushed), `Join`, `Finish`.
`sent` is history: the accepted entries with the settings at that moment.

**LlamaAndroid.** `job` holds the calls, `queue` what the run loop will start or resume. A
coroutine runs until it suspends, so `load()` and `unload()` are a step up to a delay or
their end; a `send()` takes a step for each token, since the collector and other threads see
it advance (`running` names it: nothing else starts meanwhile). `CoroutineStart.ATOMIC` of
`flowOn()` is modelled: a send that is cancelled before its turn still starts, and stops at
its first emission. `buffer` is the channel's capacity, chosen once. A `llama_decode()` that
fails is logged and nothing else: `Decoded` has the call go on with `n_cur` counted up and the
tokens missing (`missed`).

**MainViewModel, Downloadable, App.** An action is an event of the main thread. A view model
whose activity is gone is not modelled further than its calls (`former`), which are
cancelled; the `unload()` of `onCleared()` never starts, for its scope is cancelled first.
Downloadable's monitors look every 500 ms; the download manager completes, breaks or removes
an entry at any time. `App` joins the two through the buttons: a downloaded file is what can
be loaded, and both write to the messages.

**Abstract specifications.** LogQueue is a queue whose entries carry their settings;
Log implements it under the mapping in `Log!Abstract`, where `waiting` is what the
worker holds followed by the ring from head to tail. It includes fairness: what is
accepted is shown. Lockstep lets a thread start a node only when all have finished
the one before, and return only when all have finished the same; ThreadPool
implements it under `ThreadPool!Abstract`. SeqCache is the cache as its callers know it: a bag
of tokens that a decode fills in order while there is room; KVCache implements it
(`ImplementsSeqCache`), whatever it shifts late, moves or splits, and ServerSlots is built
on the same operators. App implements LlamaAndroid with one client among any.

## 3. Runs

| run | instance | shows |
|---|---|---|
| server_stream | two requests, three tasks, one slot, two tokens; rejected prompts, a full context, failed decode, disconnect | TypeOK, NothingLost, ResultsInOrder, BusySlotKeepsLoopTurning; under fairness EveryRequestServed, SlotsAreFreed |
| server_slot_tasks | embedding, completion for slot 0, slot action, metrics on two slots, prompts of up to two batches; refused launch, failed restore, system prompt, termination | OnePlace; under fairness LoopStops |
| server_slots | two slots of five tokens, batches of three; a chat, its continuation, a prompt as long as the context, not to be cached, and an empty one; token 0 in prompts and answers; a system prompt of one token and one that does not fit; saved sequences of up to two tokens | TypeOK, SamplesItsContext, ReusedIsThere, RoomForBatch |
| kv_shift | three cells, two sequences, batches of one to three tokens in ubatches of two; parts removed, kept, copied, shifted by -1, halved | TypeOK, UsedIsAccurate, RowsMatchCells, EveryUsedCellAttended, FailsOnlyWhenFull, ImplementsSeqCache |
| kv_defrag | five cells, single tokens removed in any pattern, one move per defragmentation, automatic and requested | HolesCanBeFilled, CopiesAreApart, DefragCompacts; under fairness CallsReturn |
| kv_state | two cells, two sequences with a shared token, whole and sequence files that may end early or not fit, restarts | OthersUntouched, LoadGivesBack |
| log | three adders with a message each, one of them below the verbosity threshold, a ring of two entries, two control calls | ConsoleInOrder, FilesComplete; under fairness CallsReturn, ImplementsLogQueue |
| pool | three threads, two graphs for one, two and four threads (of which three are granted) and of none to two nodes, aborts, pauses; a second graph of another shape starts when workers are at rest | TypeOK, BarrierCounts, SuccessMeansDone, DispatchedOnce, ImplementsLockstep; under fairness CallsReturnUnlessAborted, WorkersSettle |
| app | three calls or downloads, answers of up to three positions, prompts of one and of four tokens, a channel of one token or of a whole answer; failed load, batch and decode, screen turns, downloads started again | NoUseAfterFree, AnswersItsPrompt, AnswersStandInPlace; under fairness CallsEnd, DownloadSettles |
| server_lost_reply | one slot action | *violates* RecvReturns |
| log_full_ring | a ring with one free entry when pause() is called | *violates* ConsoleInOrder |
| pool_abort_hangs | two threads, one node, an abort | *violates* CallsReturn |

Each property of a passing run is accompanied by a mutant of a modelled definition,
defined beside it and named in a comment ("Mutant of ..."), that makes the run fail: a
plausible bug the property would catch.

### Bounds, and why they are enough

* *Server.* Three tasks for one slot make one run, one wait deferred and one arrive;
  a request with two prompts lets one of its tasks fail while the other is running,
  deferred or finished. Two tokens make a partial and a final result. Two slots are
  needed where a slot action, or a prompt of the other kind, meets another busy slot.
* *Slots.* A context of five is the least that is truncated, shifted with something kept
  and something discarded, and still takes an answer; batches of three split a prompt
  over two iterations, and are halved when they find no place. Two slots share
  batches and the system prompt. The prompts share prefixes, and the one that is not cached leaves
  a slot with padding when it is split. The short system prompt fits with what a request
  adds to it; the long one fails at its last batch.
* *KV cache.* Three cells are the least in which a search wraps past a used cell and
  a ubatch of two may or may not fit. Two sequences share or do not share a cell.
  Five cells hold two holes and two blocks to move. `MaxMoves = 1` makes the limit of
  moves bite at each place; it is computed from the graph size in the code. `Pad` and
  `FragMin` stand for 32 or 256 and for 128, which would need large caches.
* *State.* Two cells: one shared and one not, in either order, is what a restore can
  find; with position 0 only, since positions are copied and never computed here.
* *Log.* A ring of two entries grows on the second message; 256 in the code. Three
  messages leave one that is printed after the ring has grown or the settings have changed.
  Two control calls open a file and then replace it, close it or end the log; each meets every
  state of ring and worker.
* *Thread pool.* Three threads are the least with a last, an early and a late one in
  the barrier; two nodes let a barrier be re-entered; the second graph meets workers in
  every state the first left them in. An empty graph has no barrier at all. A graph for four
  threads is cut to the three there are.
* *App.* `NLen` is 64 in the code and 3 here, so an answer has none, some or all of its
  tokens; a channel of one makes every emission suspend, one of a whole answer none, as in
  the code, whose channel takes 64. Three calls are one being answered, one waiting and one
  that comes in between; two downloads are one cancelled and one started again.

### Fairness

* Server: the main loop, and each handler of a request that has been sent. Both are
  operating system threads that never give up the processor for good, and their waits
  are conditions, so weak fairness is right. Nobody has to send a request, disconnect,
  or commit a fault.
* KV cache: the steps of a call that has been made, which run on the caller's thread.
* Log: the worker and the steps of a control call that has been made.
* Thread pool: every worker, and the main thread within a call. A spurious wake-up
  of a condition variable may happen and need not.
* App: the run loop, the main thread, the delays, the download manager and the monitors
  of a button go on while there is something for them to do (one weak fairness each). The
  run loop and the main thread are threads that take what is queued in order, and each has
  finitely much to do, so none of its coroutines starves. Nobody has to press a button, and
  no call, download or batch has to fail.

### What passing runs leave out on purpose, and what happens then

These restrictions are constants, so that the excluded behaviour can be looked at.

* server_stream has no refused launches, slot actions or system prompts. With them
  requests can wait for ever: a popped task whose launch is refused
  (`server.cpp:1580`), a deferred slot action (`1676`) and an unknown `id_slot` (`1541`)
  use up or never get a wake-up, which violates `DeferredIsProcessed` (three
  completions on one slot with `Faults = {"launch"}`; a completion, a slot action and a
  completion; `IdSlot[t] = NSlots`), and `system_prompt_set()` (`1101`) releases slots
  without a result (`RecvReturns` with `Faults = {"system_prompt"}`).
* server_stream has one slot. With two and a failed decode `ResultsInOrder` does not hold:
  the error of `server.cpp:2204` goes to each slot's last task, also one that was answered, whose
  handler, if it has a second prompt and still waits, takes it as the end of the request.
* ServerSlots' `Risks` are off in server_slots. Each breaks `SamplesItsContext` or
  `ReusedIsThere`: a request that comes before the first turn of the loop has cleaned the cache
  (`early`); a system prompt that changes while slots have cached tokens (`system_change`); a
  request that fills the context, or a slot action, with a system prompt in place (`system_shift`,
  `system_slot_action`: positions are counted with it here and without it there); a decode that
  fails for another reason than space while a slot is to remember its prompt, or on the system
  prompt (`decode_error`); and a prompt to be cached that begins with token 0 (`padding`): a
  request without `cache_prompt` that is split over batches leaves `cache_tokens` filled with 0 by
  `resize()` (`server.cpp:2087`), and `common_part()` takes that for a prefix that is in the
  cache. In the run token 0 may stand anywhere else, so `ReusedIsThere` and the theorems speak of
  prompts that are `Cacheable`. So does `NBatch` above `NUbatch` (4 and 2): a decode that found
  room for its first ubatch only is repeated from the same token, whose cells stay
  (`server.cpp:2195`); a batch of one ubatch, as in server_slots, is stored whole or not at all.
  The defaults are 2048 and 512, so this is not a rare setting.
* `context_full` is in server_stream, although the comment at `server.cpp:1839` says that this is
  never reached, for `process_token()` stops a generation before. It stops at `n_decoded >=
  n_ctx`, which does not count the prompt, so ServerSlots with `CtxShift = FALSE` reaches it.
* Log's `Careful` keeps the controller from pausing with one free entry in the ring;
  log_full_ring shows why.
* KVState's `Careful` says that callers update the cache before they save or load. Without it, and
  with shifts, `RowsMatchBetweenCalls` is violated: positions are saved with a pending shift and
  keys without, and a restore keeps old deltas (`llama.cpp:19745`, `3860`). `LoadGivesBack`
  compares the cache with the file; that the file is what was in the cache is not tested by a
  mutant of `Save`. With `Faults = {"short"}` a whole-cache file that ends among the cells
  violates `UsedIsAccurate` (`20061`).
* ThreadPool's `Settled` says that a caller starts a graph of another shape when its workers are
  at rest, which WorkersSettle shows they come to. It is a restriction of the model: nothing in
  `ggml_graph_compute()` or in its callers waits for that. One of the same shape, which is how a
  model generates, may follow at once, if it has nodes: the call of an empty graph meets no
  barrier and may return before a worker has found it. Without it and with changing thread counts
  a late worker can take a graph up twice (`DispatchedOnce`, `ggml.c:20264`), and a worker may
  still be reading what the next call resets (`ParametersUnread`, `20509`, against the comment at
  `20505`). After an abort a call need not return (pool_abort_hangs), which is why pool checks
  CallsReturnUnlessAborted.
* App's `Risks` leave out `clear`, clearing the messages while an answer comes in: the answer is
  then written to whatever stands at its index (`AnswersStandInPlace`), or its collector throws.
  With `restart` or `turn`, which app has, `DownloadedIsWhole` does not hold: the monitor of a
  cancelled download, or a download that outlives its button, changes the file of another.
  `DownloadSettles` is about the status only. Prompts that do not fit the batch of 512 tokens are
  left out. In LlamaAndroid a failed `load()` leaves `isUnloading` set, so later sends return
  nothing (`Refused`) until a load succeeds; and a channel shorter than an answer lets a second
  send clear the cache of a suspended one, hence `NLen - 1 <= buffer` in AnswersItsPrompt, which
  holds for the 64 of both in the code.
* An embedding may wait while completions keep coming (`server.cpp:1903`),
  LoRA scales are written by a handler while the loop reads them (`3050`): no run contains these.
  Signal handlers are installed only after the loop has ended (`3195`), so `terminate()` is not
  called while it turns; LoopStops is about the queue as it is written.

## 4. Disagreements shown by runs

1. **A reply can be lost** (`server.cpp:2674`). `handle_slots_save`, `restore`, `erase` and
   `handle_lora_adapters_apply` post their task and then register the id. If the main
   loop answers in between, `send()` drops the result and `recv()` never returns.
2. **Pausing a full log forgets it** (`log.cpp:294`). The end entry is pushed without the
   growth that `add()` does; with one free entry tail meets head, the queue looks
   empty and `pause()` joins a worker that waits for ever.
3. **An abort can hang** (`ggml.c:20236`). Thread 0 sets `abort` before the barrier; a
   thread that has not begun the node sees it and leaves without entering it.

## 5. Proofs

All theorems hold for every value of the constants that satisfies the assumptions named in
the modules; no other assumption is made unless the theorem states it. A step that takes its
prover more than a second or two names the prover and allows it a minute (`SMTT(60)`,
`ZenonT(60)`), so that the proofs also go through on a busy machine.

| module | theorem | statement |
|---|---|---|
| ServerQueue_proofs | TypeCorrect, TaskInOnePlace | `Spec => []TypeOK`, `Spec => []OnePlace` |
| | LoopKeepsTurning | `Spec => []BusySlotKeepsLoopTurning` |
| | RegisteredIsKept | `"system_prompt" \notin Faults => (Spec => []KeptInv)` |
| | NothingIsLost | the same, with requests that all register first, `=> (Spec => []NothingLost)` |
| | ResultsStayInOrder | `Steady => (Spec => []ResultsInOrder)` |
| ServerSlots_proofs | TypesHold, RoomForAll | `Modest => (Spec => []TypeOK)`, `[]RoomForBatch` |
| | SamplesComeOfContext, CacheIsTrue | `Modest => (Spec => []SamplesItsContext)`, `[]ReusedIsThere` |
| KVCache_proofs | TypeCorrect, UsedCounted, UsedCellsAttended | `Spec => []TypeOK`, `[]UsedIsAccurate`, `[]EveryUsedCellAttended` |
| | SearchIsComplete | `Spec => FailsOnlyWhenFull` (an action property) |
| | SeqCacheImplemented | `Spec => ImplementsSeqCache` |
| | HolesAreFilled, CopiesCommute, Compacted | `Spec => []HolesCanBeFilled`, `[]CopiesAreApart`, `[]DefragCompacts` |
| | RowsAreRight | `Spec => []RowsMatchCells` |
| KVState_proofs | OthersAreUntouched, FileComesBack | `StateSpec => OthersUntouched`, `StateSpec => LoadGivesBack` (action properties) |
| ThreadPool_proofs | TypeCorrect, BarrierCountsRight, StartedOnce, SuccessIsComplete | `Settled \/ Uniform => (Spec => []TypeOK)`, `[]BarrierCounts`, `[]DispatchedOnce`, `[]SuccessMeansDone` |
| | LockstepImplemented | `Settled \/ Uniform => (Spec => ImplementsLockstep)` |
| App_proofs | LibTypeCorrect, LibNoUseAfterFree, LibAnswersItsPrompt | `LibSpec => []LibTypeOK`, `[]NoUseAfterFree`, `[]AnswersItsPrompt` |
| | AppImplementsLib | `AppSpec => LibSpec` |
| | AppNoUseAfterFree, AppAnswersItsPrompt | `AppSpec => []NoUseAfterFree`, `[]AnswersItsPrompt` |
| | AppAnswersStandInPlace | `"clear" \notin Risks => (AppSpec => []AnswersStandInPlace)` |
| Log_proofs | TypeCorrect | `Spec => []TypeOK` |
| | PausedMeansDrained | `Careful => (Spec => []PauseInv)` |
| | NothingMissedOnConsole, NothingMissedInFiles | `Careful => (Spec => []ConsoleInOrder)`, `[]FilesComplete` |
| | ImplementsQueue | `Careful => (Spec => Abstract!Init /\ [][Abstract!Next]_Abstract!vars)` |

### The request pipeline

`ServerQueue_proofs` proves its theorems for every set of requests and tasks, any number of
slots, any bounds and, but for the hypotheses below, any faults, from
`THEOREM Invariant == Spec => []IInv`. The assumptions are those of ServerQueue:
there is a slot, bounds are positive, each task belongs to one request, and ids are
not given out twice (`get_new_id()` counts under the mutex).

`OnePlace` alone is not inductive: a task may be queued that a handler is about to post
again, and a slot that is not busy still carries the id of the task it ran last. `IInv`
strengthens it with `QueuesApart` (no task is twice in a queue, none is in both, none that
is queued runs on a slot), `SlotsApart` (no two busy slots run the same task, and a busy
slot runs one), `UnpostedNowhere` (the tasks of a request that has not posted them are
nowhere) and `LoopInv` (what the for-loops of `update_slots()` rely on when they come to a
slot, which bounds the tokens decoded and so the types). The proof goes along these lines:
lemmas on sequences say what popping, joining, appending and cutting a queue do to the tasks
in it (`TailWork`, `ConcatWork`, `AppendWork`, `CutWork`); lemmas on `PopDeferred`,
`Release` and `Post` say that tasks move and do not multiply; one lemma per action says that
the action keeps `PlacesInv` and puts no task anywhere it was not, but for `Post`, which
puts those of one request; types are preserved action by action.

The three properties of what the handlers are told take invariants of their own beside `IInv`:

* *NothingLost* is inductive for the handlers that register their ids before they post, as
  `KeptInv`, with `WaitingInv`: such a handler stays registered while it waits, so
  `send()` does not drop what ends its task, and a cancel is only queued for a task whose
  handler has stopped waiting, though ids of the forgotten stay on idle slots. The main lemma
  is `TaskKept`: in a step of the main loop a task stays in the server, or its cancel was at the
  front, or a result that ends it is sent. The hypotheses are needed: a handler that posts
  first can lose its reply (server_lost_reply), and a new system prompt releases slots
  without answering. RegisteredIsKept states the property for each handler by itself, so what is
  lost is never the reply of a handler that registered first.
* *ResultsInOrder* needs to know what was already said of a task: `SentInv` (a task with a
  result in the queue is not queued itself, and if a slot runs it the result is partial
  and counts no more tokens than the slot has decoded), `AnsweredInv` (a task that was
  answered is nowhere in the server), `UnpostedUnsent` (no result is for a task not yet
  posted) and `BatchInv` (slots with tokens in the batch are processing). `SendFits` is what
  each `send()` keeps to. `Steady`, one slot or no failed decode, is needed: when `llama_decode()`
  fails, every slot is sent an error under the id it carries, idle ones included
  (`server.cpp:2204`), so with two slots a task that has been answered gets an error as well.
* *BusySlotKeepsLoopTurning* is inductive with one more conjunct (`TurningInv`): in the middle
  of an iteration the queue is not empty, since `update_slots()` has posted NEXT_RESPONSE and
  only the start of the next iteration takes anything.

### The slots

`ServerSlots_proofs` proves all four invariants of server_slots for any number of slots, contexts
of five tokens or more, any batch size, prompts, answers and system prompts, with or without
context shift and continuous batching, from `Modest => (Spec => []IInv)`. `Modest` is what section
3 says of the run, in general terms: none of `Risks`, so that token 0 may stand anywhere but at
the beginning of a prompt to be cached; `NBatch <= NUbatch`, so that a decode that fails has
stored nothing; a system prompt that leaves two places in the context (without them a slot with an
empty context is already full), or does not fit into the cache at all; and requests whose
`n_discard` with the BOS token is at most 3: `n_keep` may come up to `n_ctx - 4`, nobody compares
the two, and a shift by more than what stands behind the kept tokens counts `n_past` below them
(`n_keep` 1 and `n_discard` 3 in a context of 5 violates `SamplesItsContext`). The server's
default, 0, is always fine.

* The cache first. `KvInv` says that it is a *set* of cells: those of the system prompt, each for
  all sequences, and behind them cells of one slot each, one per position. `RemovedSet`,
  `ShiftedSet`, `StoredSet`, `CellsOfSet` and `WithCellsSet` turn what TokenBag does to a bag
  into what it does to this set; they rest on `MappedTally` of `Tally_proofs`.
* Of each slot `SlotInv` keeps the two accounts together. Until its prompt is tokenized, and
  when it is idle, what it remembers is in the cache (`CachedInv`). From then on `HeldInv`:
  its context up to `n_past` is in the cache or still to come in the batch, and nothing stands
  behind it; `ReuseInv`: `cache_tokens` is the context as far as it has come. So when nothing of
  a slot is to come any more the two give `CachedInv` (`WhenAllDecoded`), which is
  why a slot may be released between iterations and after its sampling, and not
  in the middle of a batch: the release of all slots when a decode fails is right only if
  it never happens with a slot that is to remember, which RoomForBatch gives (`GiveUpKeeps`).
* `BatchInv`: no two tokens of the batch share a slot and a position, none has a place that is taken
  in the cache, all lie within the context. Together with `KvInv` that is RoomForBatch by
  counting: cells and tokens to come map one to one into the `n_parallel` x `n_ctx`
  places (`SharesAreKept`); those of the system prompt take the first ones of slot 0, which
  its own tokens leave free.
* `IndexInv`: a slot that waits for logits has its last token at `i_batch`, in a view that is still
  to come. So when the view with its index is sampled, all its tokens are decoded
  (`SampledIsDecoded`), and its sequence is the system prompt and its context
  (`SequenceIsContext`). A view that is shorter than `n_batch` is the last, so that
  `i += n_batch` skips nothing (`ViewGoesOn`).
* `ShiftInv`, `ProgressInv` and `BudgetInv` keep positions below `n_ctx`: behind the shift loop no
  slot is full, and with a system prompt, with which there is no shifting, what is
  still to be said fits (`Unsaid`). `SystemInv` and `PhaseInv` tie the two flags of the system
  prompt and the cleaning to the phases of the loop.

There is one lemma per action (`LaunchKeeps` to `SampleKeeps`); the turns of the for-loops share
`ShiftTurn`, `BatchGrows`, `PromptTurn` and `SampleTurn`, which say what a turn leaves to the
other slots.

### The KV cache

`KVCache_proofs` rests on `Spec => []IInv`. Why each part of `IInv` is needed:

* `UsedIsAccurate` is inductive only with what the plan of a defragmentation remembers
  (`PlanInv`): the plan's `n_used` is at most its `n_kv`, for all used cells lie below
  `cell_max`; the hole lies below `n_used`; and the cells of the hole that are still to be
  filled are empty. So a move takes a used cell to an empty one and leaves the count alone.
* Every operation on sequences is a map over the cells followed by a count of those
  emptied or taken; the lemmas on finite sets say how the count of used cells follows.
* `SearchInv` is the heart of `FailsOnlyWhenFull`. While the search runs, every start it has
  passed over is blocked by an occupied cell: in the first round those from where it began
  up to `head`, after wrapping those and the ones from 0 to `head`. When it gives up the two
  have met, so every start is blocked. `BatchLeft` keeps what is left of the batch a batch.
* `EveryUsedCellAttended` is in `IInv` because a graph computes with an `n` that was set a step
  before; a used cell lies below `cell_max`, and padding only raises it.

*SeqCacheImplemented* shows that to its callers the cache is the bag of SeqCache: `Content`
counts, for each token, the used cells that hold it. The library's bags sum by recursion,
over which nothing can be proved here, so Tally counts with `Cardinality`, and the lemmas of
`Tally_proofs` are about bijections: two tallies are equal if as many elements give each value.
Along these lines

* an operation on sequences maps each cell by itself, and what it makes of a cell is what
  SeqCache makes of its token (`ContentMapped`, from `MappedTally`): cells with the same token
  are treated alike, and a cell that loses its last sequence, or a position below 0, drops
  out of both;
* a move of the defragmentation is a bijection of the used cells before it and those after
  (`ContentMoved`), and a K-shift touches no token, so neither shows;
* a search that has found its place puts the ubatch into empty cells, so its tokens are
  added to those that are there (`ArrivedTokens`, from `TalliesAddUp`), and the total stays
  within the size because a tally of cells totals to their number (`TotalOfTally`);
* all other steps leave `Content` and `Unstored` alone. `NothingLeft`, that no batch outlives its
  call, is what the start of the next one needs beside `IInv`.

For the defragmentation it rests on `Spec => []DefragIInv`. While a plan is made, every cell before
`Front` (`i0 + nf`) is used, no used cell from there on has a place yet, and every cell that was
moved came from `n_used` or beyond and went to a cell before `Front`, no two to the same
(`FrontInv`). Since all used cells lie below `n_kv` and there are `n_used` of them, the used
ones from `n_used` on are as many as the empty ones before it; so the backward search of
the code meets enough of them, and the forward pass that fills the hole has exactly `nh - nf`
left (`SourceInv`). That such a search stops is the least-number principle, which follows
from the library's theorem that the order of the naturals is well-founded. Targets below
`n_used` and sources from it on make the copies independent of their order (`CopyInv`).

For the rows it adds `RowsIInv`: deltas are zero unless `has_shift` is set, and it is
not once a call looks for a slot (`ShiftInv`), so a cell that is taken, moved or freed never
takes a pending rotation along; a slot that was found holds the positions and tokens of the
ubatch, which the graph then stores (`SlotInv`). `RowsMatchCells` itself speaks of the rows a
cell will have when the planned copies are done: a moved cell answers with the rows of the
cell it came from, which is right because nothing was moved to that cell before.

### Saving and restoring

`KVState_proofs` rests on `StateSpec => []StateIInv`, which has three parts.

* `CacheInv` is what is left of KVCache's invariant when a file may end early: all of it, but
  for the count of used cells and positions of cells without sequences, and those may be off
  only between calls and outside a restore (`Counted`). With it, each step of KVCache that a
  counted cache takes is covered by `NextInv` of `KVCache_proofs`, and each step that fills
  the cache anew has to show only that cells without a position have no sequence (`CacheAnew`).
* `SavedInv`: a file has no more entries than a cache has cells, and those of a whole cache
  belong to sequences. That `write_kv_cache` lists each cell, and no other, follows from
  `NthCell`: counting the cells before it numbers the cells of a set without gaps.
* `LoadInv` follows a restore of a sequence: until the slot is taken the destination is in no
  cell; then it has the slot for its own, in the order of the file, and no cell elsewhere
  (`Taken`); and at every point what the cache holds for the others is what it held before
  (`OthersKept`). So writing rows from `head` on, or removing the destination again,
  reaches no cell of theirs. `StateAssumption` makes the slot as long as the file: the code
  puts a sequence into one ubatch of its own, whatever `n_ubatch` is. `Taken` gives
  for every cell what the assertions after the search (`llama.cpp:20012`) ask of the first
  and the last.

`OthersUntouched` follows from `OthersKept` and a lemma per step that what the others have stays;
`LoadGivesBack` from the positions of cells and entries, which are the same numbers shifted.

### The thread pool

`ThreadPool_proofs` rests on `Settled \/ Uniform => (Spec => []IInv)`. `Uniform` says nothing of when
graphs start: they have all the same shape, with nodes, and none is aborted, as when a model
generates token by token; then workers may be as late as they like. What is left out is a
graph of another shape, or after an abort, that starts before the workers are at rest;
section 3 says what happens then. None of its properties is inductive alone, and their strengthenings
need each other:

* `PassOf`: all who are in the barrier wait for the same passage, the present one, and have read
  the same `n_threads`; who spins with an older `passed` is on its way out. So the counter is the
  number of `Held` threads (`BarrierCounts`), and a thread that finds it at `nth - 1` is the last
  of the team (`LastInv`), which a count of the held threads within the team shows (`LastAlone`).
* `LevelInv`: `Level(t)`, the node a thread is at, is the same for the whole team. It counts a node
  as done when the barrier is passed, so one step, `LastPasses`, moves all levels at once, and
  it can because of `LastInv`. From it follow what Lockstep asks of a step on a node and of a
  return, and, with `NodeOf`, `SuccessMeansDone`.
* `WorkerOf`: while the parameters of the next graph are set, a worker is at rest, or it has not
  left the loop of the same graph yet, past its last node; after the announcement, a worker
  that has begun the graph has noted it in `last_graph`, and one on its way out of the last
  graph has not. So nobody begins a graph twice (`TeamOf`), and a worker on its way out,
  which reads the new `abort` and `n_nodes`, does not turn round.
* `AbortInv`: when thread 0 has left the barrier of the node it aborted at, nobody is at a node
  or in a barrier any more; so an aborted call that returns has left the team at the same
  node. (One that does not return is pool_abort_hangs.)

The proof has one lemma per action. Those of a thread that computes go through `ComputeKeeps`,
which says what of the invariant has to be shown of the thread that moves; those of a
worker between graphs through `PoolKeeps`, those of the main thread through `MainKeeps`.

### The Android app

The first part of `App_proofs` rests on `LibSpec => []Inv`: only the loaded context is alive
(`LiveIsLoaded`), `operationCount` counts the sends under way (`CountIsRight`), and each
of those uses the loaded context (`UsersHaveState`); so `load()` and `unload()`, which free
nothing while the count is positive, free nothing that is in use. That a send suspends at all
is what makes the count necessary. For `AnswersItsPrompt`, `OneAtATime` says that with a
channel that takes a whole answer a send never suspends between its first token and its
last, so it alone has tokens in the cache. Of its own it has those that `n_cur` counts, unless
`llama_decode()` has failed for some.

The second part shows that every step of the app is a step of LlamaAndroid with an arbitrary
client, or none. What is proved of the library then holds of the app without a second proof.
For `AnswersStandInPlace` it adds `ViewInv`: a call that is no answer coming in (a load, one
that has returned, one of an earlier view model) has no place among the messages, so a token
or an error that comes for it is never shown, and the places of two answers differ
because what stands there tells whose answer it is. It also needs `QueuedOnce`: the run
loop has each call once in its queue, and only calls that have not begun or are to go on, so it
never runs one that has returned. The hypothesis leaves out clearing the messages
while an answer comes in, which breaks the property (section 3).

### The log

`Log_proofs` shows the safety part of `ImplementsLogQueue`. Its first half is about a ring
buffer with remainders: `RingAppend`, `RingGrow` and `RingTake` say that the entries from
`head` to `tail`, read as a sequence, are appended to, rewritten into a larger ring, and taken
from as a queue is. The second half is `PauseInv`: while the log runs, a worker is active and
no end entry is in the ring; while `pause()` waits, the end entry is the last, or the
worker has taken it and left; after that the ring is empty. So an end entry never stands
before a message, and colours change only when nothing waits. `Careful` is needed:
without it log_full_ring shows the contrary. The fairness part stays with the run.

The last part is about history. `HistoryInv` says that what is pending is the end of what was
accepted, all of it under the present colours and for the present file, and that console and
files list the rest. What the worker has still to show and what it has still to
write differ while it is between the two; `Pending` is both, so each action is looked at
once. ConsoleInOrder and FilesComplete place a message by counting those before it that are for
the same console or file (`Lists`); a definition with `SelectSeq`, which is recursive, could
be checked but not proved. `ListsMore` says that the next message is listed last.

### What is only model-checked

Every property of section 3 that the table above does not name: the liveness properties, the
fairness part of `ImplementsLogQueue`, and the disagreements of section 4. Every invariant and
action property of a passing run is a theorem. Three kinds of statement stay with
TLC in any case: liveness under fairness and anything about ENABLED; what a recursive
definition computes for every input, since the induction theorems of the library
cannot be instantiated; and modules with RECURSIVE operators, which this project does
not use.

## 6. What could come next

1. The steps of ServerSlots on its bag as steps of SeqCache: the same operations, in the words of
   the abstract cache, would join the two proofs.
2. ServerSlots with self-extend, and with the ubatches of KVCache in place of the bag, to have
   the repeated decode of `server.cpp:2195` in one model with the cells it leaves behind.
3. `ggml-alloc.c` as an abstract allocator over small graphs; `split_equal` and
   `llama_output_reserve` as functions against their definitions; the recurrent cache.
