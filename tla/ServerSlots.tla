---------------------------- MODULE ServerSlots ----------------------------
(***************************************************************************)
(* What the slots of the server keep in the KV cache                       *)
(* (examples/server/server.cpp): the reuse of a common prefix, the batch   *)
(* made of sampled tokens and pieces of prompts, its decoding with retries *)
(* in smaller batches, the context shift, the system prompt, and saving,   *)
(* restoring and erasing a slot.                                           *)
(*                                                                         *)
(* One thread, the main loop, runs everything: a step is one slot's turn   *)
(* in one of the for-loops of update_slots(), or one task.  The cache is   *)
(* the bag of tokens that KVCache implements (SeqCache); that a batch may  *)
(* find no place in it although there is room is the only thing that shows *)
(* of its cells.  How tasks reach the loop and results the clients is      *)
(* ServerQueue.  Left out: embeddings, infill, self-extend (ga_n = 1).     *)
(***************************************************************************)
EXTENDS TokenBag, FiniteSets

CONSTANTS
    NSlots,         \* params.n_parallel
    NCtx,           \* n_ctx of a slot
    NBatch,         \* llama_n_batch()
    NUbatch,        \* llama_n_ubatch()
    AddBos,         \* add_bos_token as 0 or 1
    CtxShift,       \* params.ctx_shift
    ContBatching,   \* params.cont_batching
    Prompts,        \* what requests ask for: records with prompt, cache_prompt,
                    \* n_predict, n_keep and n_discard
    NoKeep,         \* the n_keep of a request that does not give one
    SystemPrompts,  \* system prompts, as tokens
    Samples,        \* tokens the model may answer with
    MaxSaved,       \* bound: tokens of a sequence that is saved
    Risks           \* what clients, operator and model may do besides (see below)

\* "early": a request comes before the main loop has turned once;
\* "system_change": the system prompt changes while slots have cached tokens;
\* "system_shift": with a system prompt, a request may fill the context;
\* "system_slot_action": with a system prompt, slots are saved, restored or erased;
\* "decode_error": llama_decode() fails for a reason other than space on the system
\* prompt, or while a slot is to remember its prompt;
\* "padding": a prompt to be cached begins with the token that pads cache_tokens.

Slots == 0 .. NSlots - 1
Size  == NSlots * NCtx
Seq0  == 0            \* the sequence of the system prompt; slot s has s + 1
Pad   == 0            \* what vector::resize() appends: the id of a token like any other

ASSUME SlotsAssumption ==
    /\ NSlots \in Nat \ {0} /\ NCtx \in Nat /\ NCtx >= 5
    /\ NBatch \in Nat \ {0} /\ NUbatch \in Nat \ {0} /\ AddBos \in {0, 1}
    /\ CtxShift \in BOOLEAN /\ ContBatching \in BOOLEAN
    /\ \A r \in Prompts : r.prompt \in Seq(Nat) /\ r.n_predict \in Int
                          /\ r.n_discard \in Nat /\ r.cache_prompt \in BOOLEAN
                          /\ r.n_keep \in Int \cup {NoKeep}
    /\ SystemPrompts \subseteq Seq(Nat) /\ Samples \subseteq Nat /\ MaxSaved \in Nat

VARIABLES
    kv,             \* the KV cache
    system_prompt, system_tokens, system_need_update, clean_kv_cache,
    slot,           \* slots
    context,        \* history: the tokens a slot's answer is to be based on
    file,           \* a slot save file
    pc, visit,      \* where the main loop is, and whose turn it is
    batch,          \* tokens of this iteration
    view, n_batch   \* decoding: i and n_batch

systemVars == <<system_prompt, system_tokens, system_need_update, clean_kv_cache>>
batchVars  == <<batch, view, n_batch>>
vars == <<kv, systemVars, slot, context, file, pc, visit, batchVars>>

Least(a, b) == IF a <= b THEN a ELSE b
Most(a, b)  == IF a >= b THEN a ELSE b

\* An idle slot remembers its cached tokens and the n_keep of its last request;
\* whatever else its fields hold, a launch or the next prompt sets it anew.
IdleWith(tokens, keep) ==
    [state |-> "idle", prompt |-> << >>, cache_prompt |-> FALSE, n_predict |-> -1,
     n_keep |-> keep, n_discard |-> 0, prompt_tokens |-> << >>, n_past |-> 0, n_decoded |-> 0,
     i_batch |-> -1, sampled |-> Pad, cache_tokens |-> tokens]

Busy(s)     == slot[s].state # "idle"
Released(x) == IdleWith(x.cache_tokens, x.n_keep)
NoFile      == [tokens |-> << >>, cells |-> EmptyBag]

\* A sequence n elements shorter, what came behind from + n moved up.
Without(q, from, n) == [i \in 1 .. Len(q) - n |-> IF i <= from THEN q[i] ELSE q[i + n]]

\* A prompt as long as the context loses blocks of half of what is not kept.
Truncated(prompt, n_keep) ==
    LET n_block == (NCtx - n_keep) \div 2
        erased  == ((Len(prompt) - n_keep - n_block) \div n_block) * n_block
    IN  IF Len(prompt) < NCtx THEN prompt ELSE Without(prompt, n_keep, erased)

-----------------------------------------------------------------------------
(* Tasks                                                                   *)

InTasks == pc = "tasks" /\ UNCHANGED <<pc, visit, batchVars>>

Launched(x, r) ==
    [Released(x) EXCEPT !.state = "prompt", !.prompt = r.prompt, !.cache_prompt = r.cache_prompt,
                        !.n_predict = r.n_predict, !.n_discard = r.n_discard,
                        !.n_keep = IF r.n_keep = NoKeep THEN @ ELSE r.n_keep]

\* A careful client of a server with a system prompt stays below the context shift.
Fits(r, system) ==
    \/ system = << >> \/ "system_shift" \in Risks
    \/ r.n_predict > 0 /\ Len(system) + Len(r.prompt) + r.n_predict <= NCtx

\* cache_tokens of a request that is not cached and split over batches are padding, and a
\* later prompt that begins like it would be taken for cached; a careful client does not
\* have one cached.
BeginsWithPad(x) ==
    x.cache_prompt /\ \E keep \in 0 .. NCtx - 4 :
                         LET toks == Truncated(x.prompt, keep) IN toks # << >> /\ toks[1] = Pad

Cacheable(r) == "padding" \in Risks \/ ~BeginsWithPad(r)

\* The main loop has turned before it gets a request, unless a client is early.
Started == "early" \in Risks \/ ~clean_kv_cache \/ system_prompt # << >>

Launch(s, r) ==
    /\ InTasks /\ ~Busy(s) /\ Started /\ Fits(r, system_prompt) /\ Cacheable(r)
    /\ slot' = [slot EXCEPT ![s] = Launched(@, r)]
    /\ UNCHANGED <<kv, systemVars, context, file>>

\* launch_slot_with_task() gives up on a bad grammar, with the parameters set.
LaunchRefused(s, r) ==
    /\ InTasks /\ ~Busy(s) /\ Started
    /\ slot' = [slot EXCEPT ![s] = Released(Launched(@, r))]
    /\ UNCHANGED <<kv, systemVars, context, file>>

\* A request with a system prompt: system_prompt_set() releases all slots.
LaunchWithSystem(s, r, system) ==
    /\ InTasks /\ ~Busy(s) /\ Started /\ Fits(r, system) /\ Cacheable(r)
    /\ "system_change" \in Risks \/ \A t \in Slots : ~Busy(t) /\ slot[t].cache_tokens = << >>
    /\ slot' = [t \in Slots |-> IF t = s THEN Launched(slot[s], r) ELSE Released(slot[t])]
    /\ system_prompt' = system /\ system_need_update' = TRUE
    /\ context' = [t \in Slots |-> << >>]
    /\ UNCHANGED <<kv, system_tokens, clean_kv_cache, file>>

Cancel(s) ==
    /\ InTasks /\ Busy(s)
    /\ slot' = [slot EXCEPT ![s] = Released(@)]
    /\ context' = [context EXCEPT ![s] = << >>]
    /\ UNCHANGED <<kv, systemVars, file>>

SlotAction(s) ==
    /\ InTasks /\ ~Busy(s)
    /\ "system_slot_action" \in Risks \/ (system_prompt = << >> /\ ~system_need_update)
    /\ UNCHANGED <<systemVars, context>>

\* The cells of a sequence as a file holds them.
CellsOf(b, q) ==
    LET of == {c \in DOMAIN b : q \in c.seq_id}
    IN  MappedBag([c \in of |-> [pos |-> c.pos, tok |-> c.tok]], [c \in of |-> b[c]])

Save(s) ==
    /\ SlotAction(s) /\ Total(CellsOf(kv, s + 1)) <= MaxSaved
    /\ file' = [tokens |-> slot[s].cache_tokens, cells |-> CellsOf(kv, s + 1)]
    /\ UNCHANGED <<kv, slot>>

\* Cells of their own for what the file holds.
WithCells(b, q, cells) ==
    b (+) MappedBag([c \in DOMAIN cells |-> [pos |-> c.pos, seq_id |-> {q}, tok |-> c.tok]], cells)

Restore(s) ==
    LET cleared == Removed(kv, s + 1, -1, -1)
    IN  /\ SlotAction(s) /\ file.cells # EmptyBag
        /\ Total(cleared) + Total(file.cells) <= Size
        /\ kv' = WithCells(cleared, s + 1, file.cells)
        /\ slot' = [slot EXCEPT ![s].cache_tokens = file.tokens]
        /\ UNCHANGED file

\* A missing file leaves the cache alone, one that does not fit clears the sequence.
RestoreFails(s) ==
    /\ SlotAction(s)
    /\ kv' \in {kv, Removed(kv, s + 1, -1, -1)}
    /\ slot' = [slot EXCEPT ![s].cache_tokens = << >>]
    /\ UNCHANGED file

Erase(s) ==
    /\ SlotAction(s)
    /\ kv' = Removed(kv, s + 1, -1, -1)
    /\ slot' = [slot EXCEPT ![s].cache_tokens = << >>]
    /\ UNCHANGED file

-----------------------------------------------------------------------------
(* update_slots(): system prompt, context shift, sampled tokens            *)

\* The system prompt is decoded for sequence 0 and copied to all others.
SystemCells(toks) ==
    Stored(EmptyBag, [j \in DOMAIN toks |->
                         [pos |-> j - 1, seq_id |-> Seq0 .. NSlots, tok |-> toks[j]]])

Update ==
    /\ pc = "tasks" /\ pc' = "check"
    /\ IF system_need_update
       THEN /\ Len(system_prompt) <= Size
            /\ kv' = SystemCells(system_prompt)
            /\ system_tokens' = system_prompt
            /\ system_need_update' = FALSE /\ clean_kv_cache' = FALSE
       ELSE UNCHANGED <<kv, system_tokens, system_need_update, clean_kv_cache>>
    /\ UNCHANGED <<system_prompt, slot, context, file, visit, batchVars>>

\* The ubatch behind the first k of n tokens, and where batches and ubatches begin.
Ubatch(k, n) == Least(NUbatch, Least(NBatch - (k % NBatch), n - k))
Begins(k, n) == k < n /\ (k % NBatch) % NUbatch = 0

\* llama_decode() fails at an ubatch that finds no place, or at a batch: what came before
\* stays, for sequence 0 alone, and the loop goes on as if the system prompt were there; it
\* is tried again in the next iteration.
UpdateFails ==
    /\ pc = "tasks" /\ pc' = "check" /\ system_need_update
    /\ \E k \in {j \in 0 .. Size : Begins(j, Len(system_prompt))} :
           /\ \/ k + Ubatch(k, Len(system_prompt)) > Size
              \/ "decode_error" \in Risks /\ k % NBatch = 0
           /\ kv' = Stored(EmptyBag, [j \in 1 .. k |-> [pos |-> j - 1, seq_id |-> {Seq0},
                                                       tok |-> system_prompt[j]]])
    /\ system_tokens' = system_prompt /\ clean_kv_cache' = FALSE
    /\ UNCHANGED <<system_prompt, system_need_update, slot, context, file, visit, batchVars>>

\* When all slots are idle the cache is cleaned, once, and nothing else happens.
AllIdle ==
    /\ pc = "check" /\ \A s \in Slots : ~Busy(s)
    /\ IF system_prompt = << >> /\ clean_kv_cache
       THEN kv' = EmptyBag /\ clean_kv_cache' = FALSE
       ELSE UNCHANGED <<kv, clean_kv_cache>>
    /\ pc' = "tasks"
    /\ UNCHANGED <<system_prompt, system_tokens, system_need_update, slot, context, file,
                   visit, batchVars>>

SomeBusy ==
    /\ pc = "check" /\ \E s \in Slots : Busy(s)
    /\ pc' = "shift" /\ visit' = 0
    /\ UNCHANGED <<kv, systemVars, slot, context, file, batchVars>>

\* The next slot's turn, or the next loop.
Turn(loop, next) ==
    IF visit + 1 = NSlots THEN pc' = next /\ visit' = 0
                          ELSE pc' = loop /\ visit' = visit + 1

\* Mutant of Full: the shift comes only when the context has been overrun.
FullLate(s) == Busy(s) /\ Len(system_tokens) + slot[s].n_past > NCtx

Full(s) == Busy(s) /\ Len(system_tokens) + slot[s].n_past >= NCtx - 1

NKeep(x)    == x.n_keep + AddBos
End(x)      == Len(system_tokens) + x.n_past
NDiscard(x) == IF x.n_discard # 0 THEN x.n_discard ELSE (End(x) - NKeep(x)) \div 2

\* The first n_keep tokens stay, the next n_discard go, the rest moves up.  The
\* cache counts from the system prompt on, cache_tokens and the context do not; resize()
\* throws when there are fewer cache_tokens than go.
Shifting(s, left) ==
    LET x     == slot[s]
        keep  == NKeep(x)
        drop  == NDiscard(x)
    IN  /\ x.cache_prompt => drop <= Len(x.cache_tokens)
        /\ kv' = Shifted(Removed(kv, s + 1, keep, keep + drop), s + 1, keep + drop, End(x), -drop)
        /\ slot' = [slot EXCEPT ![s].n_past = @ - drop,
                                ![s].cache_tokens = IF x.cache_prompt THEN left ELSE @]
        /\ context' = [context EXCEPT ![s] = Without(@, keep - Len(system_tokens), drop)]

\* Without context shift the slot is released, with an error for the client.
ShiftSlot(s, left) ==
    /\ pc = "shift" /\ visit = s
    /\ IF ~Full(s) THEN UNCHANGED <<kv, slot, context>>
       ELSE IF CtxShift THEN Shifting(s, left)
       ELSE /\ slot' = [slot EXCEPT ![s] = Released(@)]
            /\ context' = [context EXCEPT ![s] = << >>]
            /\ UNCHANGED kv
    /\ Turn("shift", "sampled")
    /\ UNCHANGED <<systemVars, file, batchVars>>

\* Mutant of ShiftContext: cache_tokens loses its last tokens instead.
ShiftContextTruncates(s) ==
    LET c == slot[s].cache_tokens
    IN  ShiftSlot(s, SubSeq(c, 1, Len(c) - NDiscard(slot[s])))

ShiftContext(s) ==
    ShiftSlot(s, Without(slot[s].cache_tokens, NKeep(slot[s]), NDiscard(slot[s])))

Piece(s, toks, from) ==
    [j \in DOMAIN toks |-> [slot |-> s, tok |-> toks[j], pos |-> Len(system_tokens) + from + j - 1]]

\* Without continuous batching no prompts join the tokens that were sampled.
AddSampled(s) ==
    LET x == slot[s]
    IN  /\ pc = "sampled" /\ visit = s
        /\ IF x.state = "generating"
           THEN /\ slot' = [slot EXCEPT ![s].i_batch = Len(batch), ![s].n_past = @ + 1,
                                        ![s].cache_tokens = IF x.cache_prompt
                                                            THEN Append(@, x.sampled) ELSE @]
                /\ batch' = batch \o Piece(s, <<x.sampled>>, x.n_past)
                /\ context' = [context EXCEPT ![s] = Append(@, x.sampled)]
           ELSE UNCHANGED <<slot, batch, context>>
        /\ Turn("sampled", IF ContBatching \/ batch' = << >> THEN "prompts" ELSE "view")
        /\ UNCHANGED <<kv, systemVars, file, view, n_batch>>

-----------------------------------------------------------------------------
(* update_slots(): prompts                                                 *)

\* common_part(): the length of the longest common prefix.
CommonPart(a, b) ==
    CHOOSE k \in 0 .. Least(Len(a), Len(b)) :
        /\ \A j \in 1 .. k : a[j] = b[j]
        /\ k < Least(Len(a), Len(b)) => a[k + 1] # b[k + 1]

\* vector::resize().
Resized(q, m) == [j \in 1 .. m |-> IF j <= Len(q) THEN q[j] ELSE Pad]

KeepOf(x) == Least(NCtx - 4, IF x.n_keep < 0 THEN Len(x.prompt) ELSE x.n_keep)

\* The slot when its prompt has been tokenized; at least one token is left to evaluate.
Tokenized(x) ==
    LET toks   == Truncated(x.prompt, KeepOf(x))
        common == IF x.cache_prompt THEN CommonPart(x.cache_tokens, toks) ELSE 0
    IN  [x EXCEPT !.prompt_tokens = toks, !.n_keep = KeepOf(x),
                  !.n_past = IF common = Len(toks) THEN common - 1 ELSE common]

Rejected(x) ==
    \/ x.prompt = << >>
    \/ ~CtxShift /\ Len(system_tokens) + Len(x.prompt) >= NCtx

RejectPrompt(s) ==
    /\ pc = "prompts" /\ visit = s
    /\ slot[s].state = "prompt" /\ slot[s].prompt_tokens = << >> /\ Rejected(slot[s])
    /\ slot' = [slot EXCEPT ![s] = Released(@)]
    /\ Turn("prompts", "view")
    /\ UNCHANGED <<kv, systemVars, context, file, batchVars>>

\* What fits of the prompt goes into the batch, in place of what the cache holds
\* behind the common part; a full batch ends the loop.
AddPrompt(s) ==
    LET x    == IF slot[s].prompt_tokens = << >> THEN Tokenized(slot[s]) ELSE slot[s]
        room == Most(0, NBatch - Len(batch))
        k    == Least(Len(x.prompt_tokens) - x.n_past, room)
        toks == SubSeq(x.prompt_tokens, x.n_past + 1, x.n_past + k)
        done == x.n_past + k = Len(x.prompt_tokens)
    IN  /\ pc = "prompts" /\ visit = s
        /\ IF slot[s].state = "prompt"
           THEN /\ ~(slot[s].prompt_tokens = << >> /\ Rejected(slot[s]))
                /\ kv' = Removed(kv, s + 1, End(x), -1)
                /\ batch' = batch \o Piece(s, toks, x.n_past)
                /\ slot' = [slot EXCEPT ![s] =
                       [x EXCEPT !.n_past = @ + k,
                                 !.cache_tokens = Resized(@, x.n_past)
                                                  \o (IF x.cache_prompt THEN toks ELSE << >>),
                                 !.state = IF done THEN "done_prompt" ELSE @,
                                 !.i_batch = IF done THEN Len(batch') - 1 ELSE @,
                                 !.n_decoded = IF done THEN 0 ELSE @]]
                /\ context' = [context EXCEPT ![s] = x.prompt_tokens]
           ELSE UNCHANGED <<kv, batch, slot, context>>
        /\ IF Len(batch') >= NBatch THEN pc' = "view" /\ visit' = 0
                                    ELSE Turn("prompts", "view")
        /\ UNCHANGED <<systemVars, file, view, n_batch>>

-----------------------------------------------------------------------------
(* update_slots(): decoding, view by view                                  *)

Rest   == Least(n_batch, Len(batch) - view)
Viewed == [j \in 1 .. Rest |->
              LET t == batch[view + j]
              IN  [pos |-> t.pos, seq_id |-> {t.slot + 1}, tok |-> t.tok]]

BeginView ==
    /\ pc = "view"
    /\ IF view >= Len(batch)
       THEN /\ pc' = "tasks" /\ batch' = << >> /\ view' = 0 /\ n_batch' = NBatch
       ELSE pc' = "decode" /\ UNCHANGED batchVars
    /\ UNCHANGED <<kv, systemVars, slot, context, file, visit>>

DecodeOk ==
    /\ pc = "decode"
    /\ kv' = Stored(kv, Viewed)
    /\ Total(kv') <= Size
    /\ pc' = "sample" /\ visit' = 0
    /\ UNCHANGED <<systemVars, slot, context, file, batchVars>>

\* llama_decode() returns 1 when a ubatch finds no run of free cells; a single
\* token finds one as long as there is room.  Earlier ubatches stay stored.
Stuck(k) ==
    /\ k \in {j * NUbatch : j \in 0 .. Rest \div NUbatch} /\ k < Rest
    /\ Least(NUbatch, Rest - k) > 1 \/ Total(kv) + k + 1 > Size

\* The view is tried again with half the batch size.
Retrying(from) ==
    /\ pc = "decode" /\ n_batch > 1
    /\ \E k \in 0 .. Rest : Stuck(k) /\ kv' = Stored(kv, SubSeq(Viewed, 1, k))
    /\ n_batch' = n_batch \div 2 /\ view' = from
    /\ pc' = "view"
    /\ UNCHANGED <<systemVars, slot, context, file, visit, batch>>

\* Mutant of Retry: the loop goes on behind the view that failed.
RetryBehind == Retrying(view + n_batch \div 2)

Retry == Retrying(view)

\* Nothing smaller to try, or a token the model does not have: every slot is released.
GiveUp ==
    /\ pc = "decode"
    /\ \/ n_batch = 1 /\ Stuck(0)
       \/ "decode_error" \in Risks
       \/ \A s \in Slots : ~slot[s].cache_prompt
    /\ UNCHANGED kv
    /\ slot' = [s \in Slots |-> Released(slot[s])]
    /\ context' = [s \in Slots |-> << >>]
    /\ pc' = "tasks" /\ batch' = << >> /\ view' = 0 /\ n_batch' = NBatch
    /\ UNCHANGED <<systemVars, file, visit>>

InView(s) == slot[s].i_batch >= view /\ slot[s].i_batch < view + Rest
Samplable(s) == InView(s) /\ slot[s].state \in {"done_prompt", "generating"}

\* process_token() ends a generation that has no budget or context left; a stop
\* word or the end of the text may end it any time.
MustStop(x) ==
    \/ x.n_predict >= 0 /\ x.n_decoded + 1 >= x.n_predict
    \/ x.n_decoded + 1 >= NCtx

\* The next view begins n_batch further on, however long this one was.
AfterSlot ==
    IF visit + 1 = NSlots
    THEN pc' = "view" /\ visit' = 0 /\ view' = view + n_batch
    ELSE visit' = visit + 1 /\ UNCHANGED <<pc, view>>

Sampling(s, tok, i_batch) ==
    /\ pc = "sample" /\ visit = s /\ Samplable(s)
    /\ \/ /\ ~MustStop(slot[s])
          /\ slot' = [slot EXCEPT ![s].state = "generating", ![s].sampled = tok,
                                  ![s].n_decoded = @ + 1, ![s].i_batch = i_batch]
          /\ UNCHANGED context
       \/ /\ slot' = [slot EXCEPT ![s] = Released(@)]
          /\ context' = [context EXCEPT ![s] = << >>]
    /\ AfterSlot
    /\ UNCHANGED <<kv, systemVars, file, batch, n_batch>>

\* Mutant of Sample: the slot keeps its place in the batch that is done.
SampleKeepsIndex(s, tok) == Sampling(s, tok, slot[s].i_batch)

Sample(s, tok) == Sampling(s, tok, -1)

PassOver(s) ==
    /\ pc = "sample" /\ visit = s /\ ~Samplable(s)
    /\ AfterSlot
    /\ UNCHANGED <<kv, systemVars, slot, context, file, batch, n_batch>>

-----------------------------------------------------------------------------
Init ==
    /\ kv = EmptyBag
    /\ system_prompt \in SystemPrompts /\ system_tokens = << >>
    /\ system_need_update = (system_prompt # << >>) /\ clean_kv_cache = TRUE
    /\ slot = [s \in Slots |-> IdleWith(<< >>, 0)]
    /\ context = [s \in Slots |-> << >>]
    /\ file = NoFile
    /\ pc = "tasks" /\ visit = 0 /\ batch = << >> /\ view = 0 /\ n_batch = NBatch

Tasks ==
    \E s \in Slots :
        \/ \E r \in Prompts :
               \/ Launch(s, r) \/ LaunchRefused(s, r)
               \/ \E system \in SystemPrompts : LaunchWithSystem(s, r, system)
        \/ Cancel(s) \/ Save(s) \/ Restore(s) \/ RestoreFails(s) \/ Erase(s)

UpdateSlots ==
    \/ Update \/ UpdateFails \/ AllIdle \/ SomeBusy \/ BeginView \/ DecodeOk \/ Retry \/ GiveUp
    \/ \E s \in Slots :
           \/ ShiftContext(s) \/ AddSampled(s) \/ RejectPrompt(s) \/ AddPrompt(s) \/ PassOver(s)
           \/ \E tok \in Samples : Sample(s, tok)

Next == Tasks \/ UpdateSlots

Spec == Init /\ [][Next]_vars

-----------------------------------------------------------------------------
(* Correctness                                                             *)

TypeOK ==
    /\ \A c \in DOMAIN kv : /\ c.seq_id \subseteq Seq0 .. NSlots
                             /\ c.pos \in 0 .. IF c.seq_id = {Seq0} THEN Size ELSE NCtx
    /\ system_need_update \in BOOLEAN /\ clean_kv_cache \in BOOLEAN
    /\ \A s \in Slots :
           /\ slot[s].state \in {"idle", "prompt", "done_prompt", "generating"}
           /\ slot[s].n_past \in 0 .. NCtx /\ slot[s].n_decoded \in 0 .. NCtx
           /\ slot[s].i_batch \in -1 .. Len(batch) - 1
    /\ pc \in {"tasks", "check", "shift", "sampled", "prompts", "view", "decode", "sample"}
    /\ visit \in Slots /\ n_batch \in 1 .. NBatch /\ view \in Nat
    /\ Len(batch) <= Most(NBatch, NSlots)

\* The sequence q as the cache holds it: a bag, for a position might be held twice.
Meant(toks) == SetToBag({[pos |-> j - 1, tok |-> toks[j]] : j \in DOMAIN toks})

\* A slot samples its next token from its own context: when the logits of a slot are
\* read, its sequence in the cache holds the system prompt and the tokens of this
\* request, each once and at its place, whatever was reused of an earlier request,
\* shifted, split over batches, retried or restored from a file (update_slots(),
\* "reuse any previously computed tokens that are common with the new prompt").
SamplesItsContext ==
    pc = "sample" =>
        \A s \in Slots : s >= visit /\ Samplable(s) =>
            CellsOf(kv, s + 1) = Meant(system_tokens \o context[s])

\* Between iterations, whatever prompt a slot gets next and is to find cached: each token
\* that it would not decode again, because cache_tokens begin alike, is in its sequence of
\* the cache, behind the system prompt, at its place and once ("reuse any previously
\* computed tokens that are common with the new prompt").  Of prompts that begin with the
\* token resize() pads with it speaks only when clients may send them ("padding" in Risks),
\* and then it does not hold.
ReusedIsThere ==
    pc = "tasks" =>
        \A s \in Slots : \A r \in Prompts :
            LET x    == Tokenized(Launched(slot[s], r))
                held == CellsOf(kv, s + 1)
            IN  r.cache_prompt /\ r.prompt # << >> /\ Cacheable(r) =>
                    \A j \in 1 .. x.n_past :
                        LET at == Len(system_tokens) + j - 1
                        IN  /\ [pos |-> at, tok |-> x.prompt_tokens[j]] \in DOMAIN held
                            /\ Cardinality({p \in Copies(held) : p[1].pos = at}) = 1

\* The cache has room for what is still to be decoded: the slots keep to their
\* share of it, with what idle slots leave in it and restores add, so decoding
\* never comes to "KV cache is full" (n_ctx_slot, context shift, truncation).
RoomForBatch ==
    pc \in {"view", "decode"} /\ view < Len(batch) =>
        Total(kv) + Len(batch) - view <= Size

=============================================================================
