----------------------------- MODULE App_proofs -----------------------------
(***************************************************************************)
(* Proofs about LlamaAndroid, for any clients, any number of calls, any    *)
(* length of answers and any capacity of channels.  Then the app: the view *)
(* model and the download button use the library as any client does, so    *)
(* what is proved of the library holds for them; and what the view model   *)
(* shows of the answers that come in.                                      *)
(***************************************************************************)
EXTENDS App, FiniteSetTheorems, SequenceTheorems, TLAPS

-----------------------------------------------------------------------------
(* The library, whoever its clients are                                    *)

Ops == {j \in DOMAIN job : Operating(job[j])}

\* Only the loaded context is not freed.
LiveIsLoaded == live = {state} \ {NoContext}

\* The counter counts the sends that are under way.
CountIsRight == IsFiniteSet(Ops) /\ operationCount = Cardinality(Ops)

\* Whoever is under way uses the loaded context.
UsersHaveState == \A j \in Ops : job[j].ctx = state /\ state # NoContext

\* What the run loop is in is a send in its loop.
RunnerLoops == running # 0 => job[running].kind = "send" /\ job[running].pc = "loop"

\* A send that has not been started has its prompt to come, and has handed out nothing.
Fresh ==
    \A j \in DOMAIN job : job[j].kind = "send" /\ job[j].pc = "queued" =>
        job[j].n_cur > 0 /\ job[j].buffered = 0

\* Only load() and unload() wait for a delay.
Delayed == \A j \in DOMAIN job : job[j].pc = "delay" => job[j].kind # "send"

\* The KV cache holds all tokens of a call, unless llama_decode() failed for some.
AllHeld(x) == x.held = x.n_cur \/ (x.missed /\ x.held < x.n_cur)

\* With channels that take a whole answer, a send under way is running, and only it has
\* tokens in the cache: all its tokens, of which those after the prompt may be in the channel.
OneAtATime ==
    NLen - 1 <= buffer =>
        /\ \A j \in Ops : running = j
        /\ \A j \in DOMAIN job : running # j => job[j].held = 0
        /\ running # 0 =>
               AllHeld(job[running]) /\ job[running].buffered < job[running].n_cur

Inv ==
    /\ LibTypeOK /\ LiveIsLoaded /\ CountIsRight /\ UsersHaveState
    /\ RunnerLoops /\ Fresh /\ Delayed /\ OneAtATime

USE AndroidAssumption DEF AllHeld

-----------------------------------------------------------------------------
(* Calls                                                                   *)

Hows == {"none", "complete", "refused", "failed", "cancelled"}
Pcs  == {"queued", "delay", "loop", "emit", "resumed", "done", "returned"}

\* What the fields of a call are.
LEMMA Fields ==
    ASSUME NEW x \in Calls
    PROVE  /\ x.kind \in {"load", "unload", "send"} /\ x.pc \in Pcs /\ x.cancelled \in BOOLEAN
           /\ x.ctx \in Nat /\ x.n_cur \in Nat /\ x.held \in Nat /\ x.missed \in BOOLEAN /\ x.buffered \in Nat
    BY DEF Calls, Pcs

\* Calls that differ from x in some fields.
LEMMA Flagging ==
    ASSUME NEW x \in Calls, NEW b \in BOOLEAN
    PROVE  LET c == [x EXCEPT !.cancelled = b]
           IN  /\ c \in Calls /\ c.buffered = x.buffered
               /\ c.kind = x.kind /\ c.pc = x.pc /\ c.ctx = x.ctx /\ c.n_cur = x.n_cur /\ c.held = x.held
               /\ c.missed = x.missed
    BY DEF Calls

LEMMA FlaggedOrNot ==
    ASSUME NEW x \in Calls, NEW y, y = x \/ y = [x EXCEPT !.cancelled = TRUE]
    PROVE  /\ y \in Calls /\ y.kind = x.kind /\ y.pc = x.pc /\ y.ctx = x.ctx
           /\ y.n_cur = x.n_cur /\ y.held = x.held /\ y.missed = x.missed /\ y.buffered = x.buffered
    BY Flagging, ZenonT(60)

LEMMA Finishing ==
    ASSUME NEW x \in Calls, NEW how \in Hows
    PROVE  LET y == [x EXCEPT !.pc = "done", !.end = how]
           IN  /\ y \in Calls /\ y.kind = x.kind /\ y.pc = "done" /\ y.ctx = x.ctx
               /\ y.n_cur = x.n_cur /\ y.held = x.held /\ y.buffered = x.buffered
    BY DEF Calls, Hows

LEMMA Newly ==
    ASSUME NEW kind \in {"load", "unload", "send"}, NEW n \in Nat
    PROVE  LET c == NewJob(kind, n)
           IN  c \in Calls /\ c.kind = kind /\ c.pc = "queued" /\ c.n_cur = n /\ c.held = 0 /\ c.buffered = 0
    BY DEF Calls, NewJob, NoContext

\* What llama_decode() does to a call.
LEMMA Decoding ==
    ASSUME NEW x \in Calls, NEW n \in Nat, NEW y \in Decoded(x, n)
    PROVE  /\ y \in Calls /\ y.kind = x.kind /\ y.pc = x.pc /\ y.ctx = x.ctx
           /\ y.n_cur = x.n_cur /\ y.buffered = x.buffered
           /\ \/ y.held = x.held + n /\ y.missed = x.missed
              \/ y.held = x.held /\ y.missed
    <1>1. CASE y = [x EXCEPT !.held = x.held + n]
        <2>1. x.held + n \in Nat
            BY Fields
        <2> QED BY <1>1, <2>1 DEF Calls
    <1>2. CASE y = [x EXCEPT !.missed = TRUE]
        BY <1>2 DEF Calls
    <1> QED BY <1>1, <1>2 DEF Decoded

\* What emit() does to one.
LEMMA Emitting ==
    ASSUME NEW x \in Calls, x.pc = "loop"
    PROVE  LET y == Emitted(x)
           IN  /\ y \in Calls /\ y.kind = x.kind /\ y.ctx = x.ctx
               /\ y.n_cur = x.n_cur + 1 /\ y.buffered = x.buffered + 1
               /\ y.pc = (IF x.buffered + 1 > buffer THEN "emit" ELSE "loop")
               /\ y.held = x.held /\ y.missed = x.missed
    <1> DEFINE n == x.n_cur + 1  b == x.buffered + 1
               p == IF b > buffer THEN "emit" ELSE "loop"
    <1>1. n \in Nat /\ b \in Nat
        BY Fields
    <1>2. p \in Pcs
        BY DEF Pcs
    <1>3. Emitted(x) = [x EXCEPT !.n_cur = n, !.buffered = b, !.pc = p]
        BY DEF Emitted
    <1> HIDE DEF n, b, p
    <1>4. /\ Emitted(x) \in Calls /\ Emitted(x).kind = x.kind /\ Emitted(x).ctx = x.ctx
          /\ Emitted(x).n_cur = n /\ Emitted(x).buffered = b /\ Emitted(x).pc = p
          /\ Emitted(x).held = x.held /\ Emitted(x).missed = x.missed
        BY <1>1, <1>2, <1>3 DEF Calls, Pcs
    <1> QED BY <1>4 DEF n, b, p

\* One call of the sequence is replaced.
LEMMA Replaced ==
    ASSUME job \in Seq(Calls), NEW j \in DOMAIN job, NEW c \in Calls,
           job' = [job EXCEPT ![j] = c]
    PROVE  /\ job' \in Seq(Calls) /\ DOMAIN job' = DOMAIN job
           /\ job'[j] = c
           /\ \A i \in DOMAIN job : i # j => job'[i] = job[i]
    OBVIOUS

\* Every call of the sequence is replaced.
LEMMA Rebuilt ==
    ASSUME job \in Seq(Calls), DOMAIN job' = DOMAIN job, job' = [i \in DOMAIN job |-> job'[i]],
           \A i \in DOMAIN job : job'[i] \in Calls
    PROVE  job' \in Seq(Calls)
    <1>1. DOMAIN job = 1 .. Len(job) /\ Len(job) \in Nat
        OBVIOUS
    <1> QED BY <1>1

-----------------------------------------------------------------------------
LEMMA InitInv == LibInit => Inv
    <1> SUFFICES ASSUME LibInit PROVE Inv
        OBVIOUS
    <1>1. DOMAIN job = {} /\ job \in Seq(Calls) /\ queue \in Seq(DOMAIN job)
        BY DEF LibInit
    <1>2. Ops = {}
        BY <1>1 DEF Ops
    <1>3. CountIsRight
        BY <1>2, FS_EmptySet DEF CountIsRight, LibInit
    <1>4. LibTypeOK
        BY <1>1 DEF LibInit, LibTypeOK, NoContext
    <1> QED BY <1>1, <1>2, <1>3, <1>4
            DEF Inv, LibInit, LiveIsLoaded, UsersHaveState, RunnerLoops, Fresh, Delayed,
                OneAtATime, NoContext

-----------------------------------------------------------------------------
(* Clients                                                                 *)

LEMMA CancelInv ==
    ASSUME Inv, NEW js, Cancel(js)
    PROVE  Inv'
    <1> USE DEF Inv
    <1>0. job \in Seq(Calls) /\ \A i \in DOMAIN job : job[i] \in Calls
        BY DEF LibTypeOK
    <1>1. /\ DOMAIN job' = DOMAIN job /\ job' = [i \in DOMAIN job |-> job'[i]]
          /\ \A i \in DOMAIN job : job'[i] \in {job[i], [job[i] EXCEPT !.cancelled = TRUE]}
        BY DEF Cancel, Cancelled
    <1>2. \A i \in DOMAIN job : /\ job'[i] \in Calls
                                /\ job'[i].kind = job[i].kind /\ job'[i].pc = job[i].pc
                                /\ job'[i].ctx = job[i].ctx /\ job'[i].n_cur = job[i].n_cur
                                /\ job'[i].held = job[i].held /\ job'[i].missed = job[i].missed
                                /\ job'[i].buffered = job[i].buffered
        <2> TAKE i \in DOMAIN job
        <2>1. job[i] \in Calls
            BY <1>0
        <2>2. job'[i] = job[i] \/ job'[i] = [job[i] EXCEPT !.cancelled = TRUE]
            BY <1>1
        <2> QED BY <2>1, <2>2, FlaggedOrNot, ZenonT(60)
    <1>3. Ops' = Ops
        BY <1>1, <1>2 DEF Ops, Operating
    <1>4. job' \in Seq(Calls)
        BY <1>0, <1>1, <1>2, Rebuilt
    <1>5. LibTypeOK'
        BY <1>1, <1>4 DEF Cancel, LibTypeOK
    <1>6. CountIsRight'
        BY <1>3 DEF Cancel, CountIsRight
    <1>7. UsersHaveState' /\ LiveIsLoaded'
        BY <1>1, <1>2, <1>3 DEF Cancel, UsersHaveState, LiveIsLoaded, Ops
    <1>8. RunnerLoops' /\ Fresh' /\ Delayed'
        <2>1. Fresh'
            BY <1>1, <1>2 DEF Fresh
        <2>2. Delayed'
            BY <1>1, <1>2 DEF Delayed
        <2>3. RunnerLoops'
            BY <1>1, <1>2 DEF Cancel, RunnerLoops, LibTypeOK
        <2> QED BY <2>1, <2>2, <2>3
    <1>9. OneAtATime'
        BY <1>1, <1>2, <1>3, ZenonT(60) DEF Cancel, OneAtATime, LibTypeOK
    <1> QED BY <1>5, <1>6, <1>7, <1>8, <1>9

LEMMA CallInv ==
    ASSUME Inv, NEW kind \in {"load", "unload", "send"}, NEW n \in Nat, NEW js,
           kind = "send" => n > 0, Call(kind, n, js)
    PROVE  Inv'
    <1> USE DEF Inv
    <1> DEFINE c == NewJob(kind, n)
    <1>0. /\ job \in Seq(Calls) /\ \A i \in DOMAIN job : job[i] \in Calls
          /\ Len(job) \in Nat /\ DOMAIN job = 1 .. Len(job)
        BY DEF LibTypeOK
    <1>c. /\ c \in Calls
          /\ c.kind = kind /\ c.pc = "queued" /\ c.n_cur = n /\ c.held = 0 /\ c.buffered = 0
        BY Newly
    <1> HIDE DEF c
    <1>a. \A i \in DOMAIN job : Cancelled(js)[i] \in {job[i], [job[i] EXCEPT !.cancelled = TRUE]}
        BY DEF Cancelled
    <1>b. \A i \in DOMAIN job : /\ Cancelled(js)[i] \in Calls
                                /\ Cancelled(js)[i].kind = job[i].kind /\ Cancelled(js)[i].pc = job[i].pc
                                /\ Cancelled(js)[i].ctx = job[i].ctx /\ Cancelled(js)[i].n_cur = job[i].n_cur
                                /\ Cancelled(js)[i].held = job[i].held
                                /\ Cancelled(js)[i].missed = job[i].missed
                                /\ Cancelled(js)[i].buffered = job[i].buffered
        <2> TAKE i \in DOMAIN job
        <2>1. job[i] \in Calls
            BY <1>0
        <2>2. Cancelled(js)[i] = job[i] \/ Cancelled(js)[i] = [job[i] EXCEPT !.cancelled = TRUE]
            BY <1>a
        <2> QED BY <2>1, <2>2, FlaggedOrNot, ZenonT(60)
    <1>d. DOMAIN Cancelled(js) = 1 .. Len(job) /\ Cancelled(js) = [i \in 1 .. Len(job) |-> Cancelled(js)[i]]
        BY <1>0 DEF Cancelled
    <1>e. Cancelled(js) \in Seq(Calls) /\ Len(Cancelled(js)) = Len(job)
        BY <1>0, <1>b, <1>d
    <1>1. job' = Append(Cancelled(js), c)
        BY DEF Call, c
    <1>2. /\ job' \in Seq(Calls) /\ DOMAIN job' = 1 .. Len(job) + 1 /\ job'[Len(job) + 1] = c
          /\ \A i \in DOMAIN job : job'[i] = Cancelled(js)[i]
        BY <1>0, <1>1, <1>c, <1>e
    <1>3. \A i \in DOMAIN job : /\ job'[i].kind = job[i].kind /\ job'[i].pc = job[i].pc
                                /\ job'[i].ctx = job[i].ctx /\ job'[i].n_cur = job[i].n_cur
                                /\ job'[i].held = job[i].held /\ job'[i].missed = job[i].missed
                                /\ job'[i].buffered = job[i].buffered
        BY <1>2, <1>b
    <1>4. DOMAIN job' = DOMAIN job \cup {Len(job) + 1} /\ Len(job) + 1 \notin DOMAIN job
        BY <1>0, <1>2
    <1>5. Ops' = Ops
        BY <1>2, <1>3, <1>4, <1>c DEF Ops, Operating
    <1>6. queue' \in Seq(DOMAIN job')
        <2>1. queue \in Seq(DOMAIN job')
            BY <1>4 DEF LibTypeOK
        <2> QED BY <1>4, <2>1 DEF Call
    <1>7. LibTypeOK'
        BY <1>2, <1>4, <1>6 DEF Call, LibTypeOK
    <1>8. Fresh' /\ Delayed'
        BY <1>2, <1>3, <1>4, <1>c, ZenonT(60) DEF Fresh, Delayed
    <1>9. running \in DOMAIN job \/ running = 0
        BY DEF LibTypeOK
    <1>10. OneAtATime'
        <2>1. OneAtATime /\ UNCHANGED <<running, buffer>>
            BY DEF Call
        <2> HIDE DEF Inv
        <2>2. ASSUME NLen - 1 <= buffer
              PROVE  /\ \A j \in Ops : running = j
                     /\ \A j \in DOMAIN job' : running # j => job'[j].held = 0
                     /\ running # 0 => /\ AllHeld(job'[running])
                                       /\ job'[running].buffered < job'[running].n_cur
            <3>1. \A j \in Ops : running = j
                BY <2>1, <2>2 DEF OneAtATime
            <3>2. ASSUME NEW j \in DOMAIN job', running # j PROVE job'[j].held = 0
                <4>1. CASE j \in DOMAIN job
                    BY <1>3, <2>1, <2>2, <3>2, <4>1 DEF OneAtATime
                <4>2. CASE j \notin DOMAIN job
                    BY <1>2, <1>4, <1>c, <3>2, <4>2
                <4> QED BY <4>1, <4>2
            <3>3. ASSUME running # 0
                  PROVE  /\ AllHeld(job'[running])
                         /\ job'[running].buffered < job'[running].n_cur
                <4>1. running \in DOMAIN job
                    BY <1>9, <3>3
                <4> QED BY <1>3, <2>1, <2>2, <3>3, <4>1 DEF OneAtATime
            <3> QED BY <3>1, <3>2, <3>3
        <2> QED BY <1>5, <2>1, <2>2 DEF OneAtATime
    <1>11. CountIsRight' /\ LiveIsLoaded'
        BY <1>5 DEF Call, CountIsRight, LiveIsLoaded
    <1>12. UsersHaveState' /\ RunnerLoops'
        BY <1>2, <1>3, <1>5, <1>9 DEF Call, UsersHaveState, RunnerLoops, Ops
    <1> QED BY <1>7, <1>8, <1>10, <1>11, <1>12

\* A step that replaces one call, and neither starts nor ends a send.
LEMMA QuietInv ==
    ASSUME Inv, NEW j \in DOMAIN job, NEW c \in Calls, job' = [job EXCEPT ![j] = c],
           Operating(c) <=> Operating(job[j]), Operating(c) => c.ctx = job[j].ctx,
           running = j => /\ c.kind = job[j].kind /\ c.pc = job[j].pc /\ c.n_cur = job[j].n_cur
                          /\ c.held = job[j].held /\ c.missed = job[j].missed /\ c.buffered <= job[j].buffered,
           running # j => c.held \in {0, job[j].held},
           c.pc = "queued" => /\ job[j].pc = "queued" /\ c.kind = job[j].kind
                              /\ c.n_cur = job[j].n_cur /\ c.buffered <= job[j].buffered,
           c.pc = "delay" => c.kind # "send",
           UNCHANGED <<operationCount, running, buffer>>,
           queue' \in Seq(DOMAIN job), isUnloading' \in BOOLEAN,
           \/ UNCHANGED <<state, live>>
           \/ Ops = {} /\ state' \in Nat /\ live' = {state'} \ {NoContext}
    PROVE  Inv'
    <1> USE DEF Inv
    <1>0. job \in Seq(Calls) /\ job[j] \in Calls /\ running \in {0} \cup DOMAIN job
        BY DEF LibTypeOK
    <1>1. /\ job' \in Seq(Calls) /\ DOMAIN job' = DOMAIN job /\ job'[j] = c
          /\ \A i \in DOMAIN job : i # j => job'[i] = job[i]
        BY <1>0, Replaced
    <1>2. Ops' = Ops
        BY <1>1 DEF Ops
    <1>3. LibTypeOK'
        BY <1>1 DEF LibTypeOK
    <1>4. Fresh'
        <2>1. c.buffered \in Nat /\ job[j].buffered \in Nat
            BY <1>0, Fields
        <2> QED BY <1>1, <2>1 DEF Fresh
    <1>5. Delayed'
        BY <1>1 DEF Delayed
    <1>6. RunnerLoops'
        BY <1>0, <1>1 DEF RunnerLoops
    <1>7. UsersHaveState' /\ LiveIsLoaded' /\ CountIsRight'
        BY <1>1, <1>2 DEF UsersHaveState, LiveIsLoaded, CountIsRight, Ops
    <1>8. OneAtATime'
        <2>1. /\ c.buffered \in Nat /\ job[j].buffered \in Nat
              /\ job[j].n_cur \in Nat
            BY <1>0, Fields
        <2> QED BY <1>0, <1>1, <1>2, <2>1, SMTT(60) DEF OneAtATime
    <1> QED BY <1>3, <1>4, <1>5, <1>6, <1>7, <1>8

LEMMA ReceiveInv ==
    ASSUME Inv, NEW j \in DOMAIN job, NEW throws \in BOOLEAN, Receive(j, throws)
    PROVE  Inv'
    <1> DEFINE n == job[j].buffered - 1
    <1>0. job[j] \in Calls /\ queue \in Seq(DOMAIN job) /\ isUnloading \in BOOLEAN
        BY DEF Inv, LibTypeOK
    <1>1. job[j].buffered \in Nat /\ n \in Nat /\ n <= job[j].buffered
        BY <1>0, Fields DEF Receive
    <1> DEFINE c == [job[j] EXCEPT !.buffered = n, !.cancelled = throws]
    <1>2. job' = [job EXCEPT ![j] = c]
        BY DEF Receive
    <1> HIDE DEF n
    <1>3. /\ c \in Calls /\ c.buffered = n
          /\ c.kind = job[j].kind /\ c.pc = job[j].pc /\ c.ctx = job[j].ctx
          /\ c.n_cur = job[j].n_cur /\ c.held = job[j].held /\ c.missed = job[j].missed
        <2>1. job[j] \in Calls /\ n \in Nat /\ throws \in BOOLEAN
            BY <1>0, <1>1
        <2> QED BY <2>1 DEF Calls
    <1> HIDE DEF c
    <1>4. Operating(c) <=> Operating(job[j])
        BY <1>3 DEF Operating
    <1>5. c.pc = "delay" => c.kind # "send"
        BY <1>3 DEF Inv, Delayed
    <1>6. UNCHANGED <<state, isUnloading, operationCount, live, queue, running, buffer>>
        BY DEF Receive
    <1> QED BY <1>0, <1>1, <1>2, <1>3, <1>4, <1>5, <1>6, QuietInv

LEMMA ReturnInv ==
    ASSUME Inv, NEW j \in DOMAIN job, Return(j)
    PROVE  Inv'
    <1>0. job[j] \in Calls /\ queue \in Seq(DOMAIN job) /\ isUnloading \in BOOLEAN
        BY DEF Inv, LibTypeOK
    <1> DEFINE c == [NewJob(job[j].kind, 0) EXCEPT !.pc = "returned"]
    <1>1. job' = [job EXCEPT ![j] = c]
        BY DEF Return
    <1>2. c \in Calls /\ c.pc = "returned" /\ c.held = 0
        <2>1. job[j].kind \in {"load", "unload", "send"}
            BY <1>0, Fields
        <2> QED BY <2>1 DEF NewJob, Calls, NoContext
    <1> HIDE DEF c
    <1>3. running # j
        BY DEF Return, Inv, RunnerLoops, LibTypeOK
    <1> QED BY <1>0, <1>1, <1>2, <1>3, QuietInv DEF Return, Operating

-----------------------------------------------------------------------------
(* The run loop                                                            *)

\* The queue loses its first element, or has one more of its calls.
LEMMA QueueStep ==
    ASSUME Inv
    PROVE  /\ queue # << >> => Head(queue) \in DOMAIN job /\ Tail(queue) \in Seq(DOMAIN job)
           /\ \A j \in DOMAIN job : Append(queue, j) \in Seq(DOMAIN job)
    BY DEF Inv, LibTypeOK

LEMMA ResumeInv ==
    ASSUME Inv, NEW j \in DOMAIN job, Resume(j)
    PROVE  Inv'
    <1>0. job[j] \in Calls /\ isUnloading \in BOOLEAN
        BY DEF Inv, LibTypeOK
    <1> DEFINE c == [job[j] EXCEPT !.pc = "resumed"]
    <1>1. job' = [job EXCEPT ![j] = c]
        BY DEF Resume
    <1>2. /\ c \in Calls /\ c.pc = "resumed" /\ c.kind = job[j].kind /\ c.ctx = job[j].ctx
          /\ c.held = job[j].held
        BY <1>0 DEF Calls
    <1> HIDE DEF c
    <1>3. running # j /\ (Operating(c) <=> Operating(job[j]))
        BY <1>0, <1>2, Fields, SMTT(60) DEF Resume, Inv, RunnerLoops, Delayed, LibTypeOK, Operating
    <1>4. UNCHANGED <<state, isUnloading, operationCount, live, running, buffer>>
        BY DEF Resume
    <1>5. queue' \in Seq(DOMAIN job)
        BY QueueStep DEF Resume
    <1> QED BY <1>0, <1>1, <1>2, <1>3, <1>4, <1>5, QuietInv

\* load() and unload(), which are not counted.
LEMMA WaiterInv ==
    ASSUME Inv, NEW j \in DOMAIN job, Begins(j, {"load", "unload"}),
           NEW p \in {"delay", "done"}, NEW how \in Hows,
           \/ job' = [job EXCEPT ![j].pc = p, ![j].end = how]
           \/ job' = [job EXCEPT ![j].pc = p],
           UNCHANGED <<operationCount, running, buffer>>, isUnloading' \in BOOLEAN,
           \/ UNCHANGED <<state, live>>
           \/ operationCount = 0 /\ state' \in Nat /\ live' = {state'} \ {NoContext}
    PROVE  Inv'
    <1>0. job[j] \in Calls
        BY DEF Inv, LibTypeOK
    <1>1. \E c \in Calls : /\ job' = [job EXCEPT ![j] = c] /\ c.pc = p /\ c.kind = job[j].kind
                           /\ c.held = job[j].held
        <2>1. CASE job' = [job EXCEPT ![j].pc = p, ![j].end = how]
            <3> DEFINE c == [job[j] EXCEPT !.pc = p, !.end = how]
            <3>1. c \in Calls /\ c.pc = p /\ c.kind = job[j].kind /\ c.held = job[j].held
                BY <1>0 DEF Calls, Hows
            <3>2. job' = [job EXCEPT ![j] = c]
                BY <2>1
            <3> QED BY <3>1, <3>2
        <2>2. CASE job' = [job EXCEPT ![j].pc = p]
            <3> DEFINE c == [job[j] EXCEPT !.pc = p]
            <3>1. c \in Calls /\ c.pc = p /\ c.kind = job[j].kind /\ c.held = job[j].held
                BY <1>0 DEF Calls
            <3>2. job' = [job EXCEPT ![j] = c]
                BY <2>2
            <3> QED BY <3>1, <3>2
        <2> QED BY <2>1, <2>2
    <1>2. PICK c \in Calls : /\ job' = [job EXCEPT ![j] = c] /\ c.pc = p /\ c.kind = job[j].kind
                             /\ c.held = job[j].held
        BY <1>1
    <1>3. queue' \in Seq(DOMAIN job) /\ running = 0 /\ j # 0 /\ job[j].kind # "send"
        <2>1. j # 0
            BY DEF Inv, LibTypeOK
        <2> QED BY <2>1, QueueStep DEF Begins
    <1>4. operationCount = 0 => Ops = {}
        BY FS_EmptySet DEF Inv, CountIsRight
    <1>5. ~Operating(c) /\ ~Operating(job[j])
        BY <1>2, <1>3 DEF Operating
    <1> QED BY <1>2, <1>3, <1>4, <1>5, QuietInv

LEMMA LoadUnloadInv ==
    ASSUME Inv, NEW j \in DOMAIN job,
           Withdrawn(j) \/ Waits(j) \/ Loads(j) \/ Unloads(j) \/ LoadFails(j)
    PROVE  Inv'
    <1>1. isUnloading \in BOOLEAN /\ j \in Nat \ {0} /\ state \in Nat /\ LiveIsLoaded
        BY DEF Inv, LibTypeOK
    <1>2. Flagged(j) \in BOOLEAN
        BY <1>1 DEF Flagged
    <1>3. CASE Withdrawn(j)
        BY <1>1, <1>3, WaiterInv DEF Withdrawn, Hows
    <1>4. CASE Waits(j)
        BY <1>2, <1>4, WaiterInv DEF Waits, Hows
    <1>5. CASE LoadFails(j)
        <2>1. Begins(j, {"load", "unload"})
            BY <1>5 DEF LoadFails, Begins
        <2> QED BY <1>2, <1>5, <2>1, WaiterInv DEF LoadFails, Hows
    <1>6. ASSUME NEW new \in Nat, Begins(j, {"load", "unload"}), operationCount = 0, Replacing(j, new)
          PROVE  Inv'
        <2>1. live' = {state'} \ {NoContext}
            BY <1>1, <1>6 DEF Replacing, LiveIsLoaded
        <2> QED BY <1>6, <2>1, WaiterInv DEF Replacing, Hows
    <1>7. CASE Loads(j)
        <2>1. Begins(j, {"load", "unload"}) /\ operationCount = 0 /\ Replacing(j, j)
            BY <1>7 DEF Loads, Begins
        <2> QED BY <1>1, <1>6, <2>1
    <1>8. CASE Unloads(j)
        <2>1. Begins(j, {"load", "unload"}) /\ operationCount = 0 /\ Replacing(j, NoContext)
            BY <1>8 DEF Unloads, Begins
        <2> QED BY <1>6, <2>1 DEF NoContext
    <1> QED BY <1>3, <1>4, <1>5, <1>7, <1>8

LEMMA RefusedInv ==
    ASSUME Inv, NEW j \in DOMAIN job, Refused(j)
    PROVE  Inv'
    <1>0. job[j] \in Calls /\ isUnloading \in BOOLEAN /\ j # 0
        BY DEF Inv, LibTypeOK
    <1> DEFINE how == IF isUnloading THEN "refused" ELSE "failed"
               c == [job[j] EXCEPT !.pc = "done", !.end = how]
    <1>1. job' = [job EXCEPT ![j] = c]
        BY DEF Refused
    <1>2. c \in Calls /\ c.pc = "done" /\ c.kind = job[j].kind /\ c.held = job[j].held
        <2>1. how \in Hows
            BY DEF Hows
        <2> HIDE DEF how
        <2> QED BY <1>0, <2>1 DEF Calls, Hows
    <1> HIDE DEF c
    <1>3. queue' \in Seq(DOMAIN job) /\ running = 0
        BY QueueStep DEF Refused, Begins
    <1>4. ~Operating(c) /\ ~Operating(job[j])
        BY <1>2 DEF Refused, Operating
    <1>5. UNCHANGED <<state, isUnloading, operationCount, live, running, buffer>>
        BY DEF Refused
    <1> QED BY <1>0, <1>1, <1>2, <1>3, <1>4, <1>5, QuietInv

\* What a send leaves behind in all calls: its own is done, the tokens of others may be gone.
LEMMA ClearedCalls ==
    ASSUME Inv, NEW j \in DOMAIN job, NEW how \in Hows, NEW ctx,
           job' = Cleared(j, ctx, how)
    PROVE  /\ job' \in Seq(Calls) /\ DOMAIN job' = DOMAIN job /\ job'[j].pc = "done"
           /\ ctx = job[j].ctx => job'[j].held = 0
           /\ \A i \in DOMAIN job :
                  /\ job'[i].kind = job[i].kind /\ job'[i].ctx = job[i].ctx
                  /\ job'[i].n_cur = job[i].n_cur /\ job'[i].buffered = job[i].buffered
                  /\ job'[i].held \in {0, job[i].held}
                  /\ i # j => job'[i].pc = job[i].pc
    <1>0. job \in Seq(Calls) /\ \A i \in DOMAIN job : job[i] \in Calls
        BY DEF Inv, LibTypeOK
    <1>1. ASSUME NEW i \in DOMAIN job
          PROVE  /\ job'[i] \in Calls
                 /\ job'[i].kind = job[i].kind /\ job'[i].ctx = job[i].ctx
                 /\ job'[i].n_cur = job[i].n_cur /\ job'[i].buffered = job[i].buffered
                 /\ job'[i].held \in {0, job[i].held}
                 /\ ctx = job[i].ctx => job'[i].held = 0
                 /\ IF i = j THEN job'[i].pc = "done" ELSE job'[i].pc = job[i].pc
        <2> DEFINE x == IF job[i].ctx = ctx THEN [job[i] EXCEPT !.held = 0] ELSE job[i]
        <2>0. job[i] \in Calls
            BY <1>0
        <2>1. /\ x \in Calls /\ x.kind = job[i].kind /\ x.ctx = job[i].ctx /\ x.n_cur = job[i].n_cur
              /\ x.buffered = job[i].buffered /\ x.held \in {0, job[i].held} /\ x.pc = job[i].pc
              /\ ctx = job[i].ctx => x.held = 0
            <3>1. CASE job[i].ctx = ctx
                BY <2>0, <3>1 DEF Calls
            <3>2. CASE job[i].ctx # ctx
                BY <2>0, <3>2
            <3> QED BY <3>1, <3>2
        <2>2. job'[i] = IF i = j THEN [x EXCEPT !.pc = "done", !.end = how] ELSE x
            BY DEF Cleared
        <2> HIDE DEF x
        <2>3. CASE i = j
            <3> DEFINE y == [x EXCEPT !.pc = "done", !.end = how]
            <3>1. job'[i] = y
                BY <2>2, <2>3
            <3>2. /\ y \in Calls /\ y.kind = x.kind /\ y.pc = "done" /\ y.ctx = x.ctx
                  /\ y.n_cur = x.n_cur /\ y.held = x.held /\ y.buffered = x.buffered
                BY <2>1, Finishing
            <3> HIDE DEF y
            <3> QED BY <2>1, <2>3, <3>1, <3>2
        <2>4. CASE i # j
            <3>1. job'[i] = x
                BY <2>2, <2>4
            <3> QED BY <2>1, <2>4, <3>1
        <2> QED BY <2>3, <2>4
    <1>2. DOMAIN job' = DOMAIN job /\ job' = [i \in DOMAIN job |-> job'[i]]
        BY DEF Cleared
    <1>3. job' \in Seq(Calls)
        BY <1>0, <1>1, <1>2, Rebuilt
    <1> QED BY <1>1, <1>2, <1>3

LEMMA NoBatchInv ==
    ASSUME Inv, NEW j \in DOMAIN job, NoBatch(j)
    PROVE  Inv'
    <1> USE DEF Inv
    <1>0. job[j].kind = "send" /\ j # 0 /\ running = 0 /\ job[j].pc = "queued" /\ queue' \in Seq(DOMAIN job)
        BY QueueStep DEF LibTypeOK, NoBatch, Begins
    <1>1. /\ job' \in Seq(Calls) /\ DOMAIN job' = DOMAIN job /\ job'[j].pc = "done"
          /\ \A i \in DOMAIN job :
                 /\ job'[i].kind = job[i].kind /\ job'[i].ctx = job[i].ctx
                 /\ job'[i].n_cur = job[i].n_cur /\ job'[i].buffered = job[i].buffered
                 /\ job'[i].held \in {0, job[i].held}
                 /\ i # j => job'[i].pc = job[i].pc
        BY ClearedCalls DEF NoBatch, Hows
    <1>2. Ops' = Ops
        BY <1>0, <1>1 DEF Ops, Operating
    <1>3. UNCHANGED <<state, isUnloading, operationCount, live, running, buffer>>
        BY DEF NoBatch
    <1>4. LibTypeOK' /\ LiveIsLoaded' /\ CountIsRight'
        BY <1>0, <1>1, <1>2, <1>3 DEF LibTypeOK, LiveIsLoaded, CountIsRight
    <1>5. Fresh' /\ Delayed' /\ RunnerLoops' /\ UsersHaveState'
        <2>1. Fresh'
            BY <1>1 DEF Fresh
        <2>2. Delayed'
            BY <1>1 DEF Delayed
        <2>3. RunnerLoops'
            BY <1>0, <1>3 DEF RunnerLoops
        <2>4. UsersHaveState'
            BY <1>1, <1>2, <1>3 DEF UsersHaveState, Ops
        <2> QED BY <2>1, <2>2, <2>3, <2>4
    <1>6. OneAtATime'
        BY <1>0, <1>1, <1>2, <1>3 DEF OneAtATime
    <1> QED BY <1>4, <1>5, <1>6

LEMMA EndsInv ==
    ASSUME Inv, NEW j \in DOMAIN job, NEW how \in Hows, Operating(job[j]),
           queue' \in Seq(DOMAIN job), running \in {0, j}, Ends(j, how)
    PROVE  Inv'
    <1> USE DEF Inv
    <1>0. j # 0 /\ j \in Ops
        BY DEF LibTypeOK, Ops
    <1>1. /\ job' \in Seq(Calls) /\ DOMAIN job' = DOMAIN job /\ job'[j].pc = "done" /\ job'[j].held = 0
          /\ \A i \in DOMAIN job :
                 /\ job'[i].kind = job[i].kind /\ job'[i].ctx = job[i].ctx
                 /\ job'[i].n_cur = job[i].n_cur /\ job'[i].buffered = job[i].buffered
                 /\ job'[i].held \in {0, job[i].held}
                 /\ i # j => job'[i].pc = job[i].pc
        BY ClearedCalls DEF Ends
    <1>2. Ops' = Ops \ {j}
        BY <1>1 DEF Ops, Operating
    <1>3. /\ UNCHANGED <<state, isUnloading, live, buffer>>
          /\ operationCount' = operationCount - 1 /\ running' = 0
        BY DEF Ends
    <1>4. CountIsRight' /\ operationCount' \in Nat
        <2>1. IsFiniteSet(Ops \ {j}) /\ Cardinality(Ops \ {j}) = Cardinality(Ops) - 1
            BY <1>0, FS_RemoveElement DEF CountIsRight
        <2>2. Cardinality(Ops \ {j}) \in Nat
            BY <2>1, FS_CardinalityType
        <2> QED BY <1>2, <1>3, <2>1, <2>2 DEF CountIsRight
    <1>5. LibTypeOK' /\ LiveIsLoaded'
        BY <1>1, <1>3, <1>4 DEF LibTypeOK, LiveIsLoaded
    <1>6. Fresh' /\ Delayed' /\ RunnerLoops' /\ UsersHaveState'
        <2>1. Fresh'
            BY <1>1, SMTT(60) DEF Fresh
        <2>2. Delayed'
            BY <1>1, ZenonT(60) DEF Delayed
        <2>3. RunnerLoops'
            BY <1>3 DEF RunnerLoops
        <2>4. UsersHaveState'
            BY <1>1, <1>2, <1>3 DEF UsersHaveState, Ops
        <2> QED BY <2>1, <2>2, <2>3, <2>4
    <1>7. OneAtATime'
        <2> SUFFICES ASSUME NLen - 1 <= buffer
                     PROVE  Ops' = {} /\ \A i \in DOMAIN job : job'[i].held = 0
            BY <1>1, <1>3 DEF OneAtATime
        <2>1. running = j /\ Ops = {j}
            BY <1>0 DEF OneAtATime
        <2>2. \A i \in DOMAIN job : i # j => job[i].held = 0
            BY <2>1 DEF OneAtATime
        <2> QED BY <1>1, <1>2, <2>1, <2>2
    <1> QED BY <1>4, <1>5, <1>6, <1>7

LEMMA StartsInv ==
    ASSUME Inv, NEW j \in DOMAIN job, Starts(j)
    PROVE  Inv'
    <1> USE DEF Inv
    <1> DEFINE x == [job[j] EXCEPT !.pc = "loop", !.ctx = state]
    <1>0. /\ job \in Seq(Calls) /\ job[j] \in Calls /\ state \in Nat /\ state # NoContext
          /\ j # 0 /\ running = 0 /\ queue' \in Seq(DOMAIN job)
          /\ job[j].kind = "send" /\ job[j].pc = "queued"
        BY QueueStep, SMTT(60) DEF LibTypeOK, Starts, Begins
    <1>1. PICK c \in Decoded(x, job[j].n_cur) : job' = [job EXCEPT ![j] = c]
        BY DEF Starts
    <1>a. /\ x \in Calls /\ x.pc = "loop" /\ x.ctx = state /\ x.kind = "send" /\ x.held = job[j].held
          /\ x.n_cur = job[j].n_cur /\ x.buffered = job[j].buffered
        BY <1>0 DEF Calls
    <1>b. job[j].n_cur \in Nat
        BY <1>0, Fields
    <1> HIDE DEF x
    <1>2. /\ c \in Calls /\ c.pc = "loop" /\ c.ctx = state /\ c.kind = "send"
          /\ c.n_cur = job[j].n_cur /\ c.buffered = job[j].buffered
          /\ \/ c.held = job[j].held + job[j].n_cur
             \/ c.held = job[j].held /\ c.missed
        BY <1>a, <1>b, Decoding
    <1>3. /\ job' \in Seq(Calls) /\ DOMAIN job' = DOMAIN job /\ job'[j] = c
          /\ \A i \in DOMAIN job : i # j => job'[i] = job[i]
        BY <1>0, <1>1, <1>2, Replaced
    <1>4. Ops' = Ops \cup {j} /\ j \notin Ops
        BY <1>0, <1>2, <1>3 DEF Ops, Operating
    <1>5. /\ UNCHANGED <<state, isUnloading, live, buffer>>
          /\ operationCount' = operationCount + 1 /\ running' = j
        BY DEF Starts
    <1>6. CountIsRight'
        BY <1>4, <1>5, FS_AddElement DEF CountIsRight
    <1>7. LibTypeOK' /\ LiveIsLoaded'
        BY <1>0, <1>3, <1>5 DEF LibTypeOK, LiveIsLoaded
    <1>8. Fresh' /\ Delayed' /\ RunnerLoops'
        <2>1. Fresh'
            BY <1>2, <1>3 DEF Fresh
        <2>2. Delayed'
            BY <1>2, <1>3 DEF Delayed
        <2>3. RunnerLoops'
            BY <1>2, <1>3, <1>5 DEF RunnerLoops
        <2> QED BY <2>1, <2>2, <2>3
    <1>9. UsersHaveState'
        BY <1>0, <1>2, <1>3, <1>4, <1>5 DEF UsersHaveState, Ops
    <1>10. OneAtATime'
        <2>1. job[j].n_cur > 0 /\ job[j].buffered = 0
            BY <1>0 DEF Fresh
        <2>2. NLen - 1 <= buffer => Ops = {} /\ \A i \in DOMAIN job : job[i].held = 0
            BY <1>0 DEF OneAtATime, Ops
        <2>3. NLen - 1 <= buffer => AllHeld(c)
            BY <1>b, <1>2, <2>1, <2>2
        <2> QED BY <1>0, <1>2, <1>3, <1>4, <1>5, <2>1, <2>2, <2>3 DEF OneAtATime
    <1> QED BY <1>6, <1>7, <1>8, <1>9, <1>10

LEMMA GoesOnInv ==
    ASSUME Inv, NEW j \in DOMAIN job, GoesOn(j)
    PROVE  Inv'
    <1> USE DEF Inv
    <1>0. /\ job \in Seq(Calls) /\ job[j] \in Calls /\ j # 0 /\ running = 0 /\ queue' \in Seq(DOMAIN job)
          /\ job[j].kind = "send" /\ job[j].pc = "resumed" /\ Operating(job[j]) /\ j \in Ops
        BY QueueStep DEF LibTypeOK, GoesOn, Begins, Operating, Ops
    <1>1. CASE job[j].cancelled
        BY <1>0, <1>1, EndsInv DEF GoesOn, Hows
    <1>2. CASE ~job[j].cancelled
        <2> DEFINE c == [job[j] EXCEPT !.pc = "loop"]
        <2>1. /\ job' = [job EXCEPT ![j] = c] /\ running' = j
              /\ UNCHANGED <<state, isUnloading, operationCount, live, buffer>>
            BY <1>2 DEF GoesOn
        <2>2. /\ c \in Calls /\ c.pc = "loop" /\ c.ctx = job[j].ctx /\ c.kind = "send"
            BY <1>0 DEF Calls
        <2> HIDE DEF c
        <2>3. /\ job' \in Seq(Calls) /\ DOMAIN job' = DOMAIN job /\ job'[j] = c
              /\ \A i \in DOMAIN job : i # j => job'[i] = job[i]
            BY <1>0, <2>1, <2>2, Replaced
        <2>4. Ops' = Ops
            BY <1>0, <2>2, <2>3 DEF Ops, Operating
        <2>5. LibTypeOK' /\ LiveIsLoaded' /\ CountIsRight'
            BY <1>0, <2>1, <2>3, <2>4 DEF LibTypeOK, LiveIsLoaded, CountIsRight
        <2>6. Fresh' /\ Delayed' /\ RunnerLoops' /\ UsersHaveState'
            BY <1>0, <2>1, <2>2, <2>3, <2>4 DEF Fresh, Delayed, RunnerLoops, UsersHaveState, Ops
        <2>7. OneAtATime'
            BY <1>0, <2>1 DEF OneAtATime
        <2> QED BY <2>5, <2>6, <2>7
    <1> QED BY <1>1, <1>2

LEMMA TokenInv ==
    ASSUME Inv, NEW j \in DOMAIN job, Token(j)
    PROVE  Inv'
    <1> USE DEF Inv
    <1>0. /\ job \in Seq(Calls) /\ job[j] \in Calls /\ running = j /\ j # 0 /\ queue' = queue
          /\ job[j].kind = "send" /\ job[j].pc = "loop" /\ j \in Ops
        BY DEF LibTypeOK, Token, Samples, InLoop, RunnerLoops, Ops, Operating
    <1>1. job[j].n_cur \in Nat /\ job[j].held \in Nat /\ job[j].buffered \in Nat
        BY <1>0, Fields
    <1>2. /\ Emitted(job[j]) \in Calls /\ Emitted(job[j]).kind = "send"
          /\ Emitted(job[j]).ctx = job[j].ctx /\ Emitted(job[j]).n_cur = job[j].n_cur + 1
          /\ Emitted(job[j]).buffered = job[j].buffered + 1
          /\ Emitted(job[j]).pc = (IF job[j].buffered + 1 > buffer THEN "emit" ELSE "loop")
          /\ Emitted(job[j]).held = job[j].held /\ Emitted(job[j]).missed = job[j].missed
        BY <1>0, Emitting
    <1>4. PICK c \in Decoded(Emitted(job[j]), 1) : job' = [job EXCEPT ![j] = c]
        BY DEF Token
    <1>3. /\ c \in Calls /\ c.kind = "send" /\ c.ctx = job[j].ctx /\ c.n_cur = job[j].n_cur + 1
          /\ c.buffered = job[j].buffered + 1
          /\ c.pc = (IF job[j].buffered + 1 > buffer THEN "emit" ELSE "loop")
          /\ \/ c.held = job[j].held + 1 /\ c.missed = job[j].missed
             \/ c.held = job[j].held /\ c.missed
        BY <1>2, Decoding
    <1>r. running' = IF job[j].buffered + 1 > buffer THEN 0 ELSE j
        BY <1>0 DEF Token
    <1>5. /\ job' \in Seq(Calls) /\ DOMAIN job' = DOMAIN job /\ job'[j] = c
          /\ \A i \in DOMAIN job : i # j => job'[i] = job[i]
        BY <1>0, <1>3, <1>4, Replaced
    <1>6. Ops' = Ops
        BY <1>0, <1>3, <1>5 DEF Ops, Operating
    <1>7. UNCHANGED <<state, isUnloading, operationCount, live, buffer>>
        BY DEF Token
    <1>8. LibTypeOK' /\ LiveIsLoaded' /\ CountIsRight'
        BY <1>0, <1>r, <1>5, <1>6, <1>7 DEF LibTypeOK, LiveIsLoaded, CountIsRight
    <1>9. Fresh' /\ Delayed'
        BY <1>0, <1>3, <1>5, SMTT(60) DEF Fresh, Delayed
    <1>10. RunnerLoops' /\ UsersHaveState'
        BY <1>0, <1>r, <1>3, <1>5, <1>6, <1>7 DEF RunnerLoops, UsersHaveState, Ops
    <1>11. OneAtATime'
        <2> SUFFICES ASSUME NLen - 1 <= buffer
                     PROVE  OneAtATime'
            BY <1>7 DEF OneAtATime
        <2>1. job[j].n_cur \in Nat /\ job[j].buffered \in Nat /\ buffer \in Nat
              /\ job[j].n_cur < NLen
            BY <1>0, Fields, SMTT(60) DEF Token, Samples, LibTypeOK
        <2>2. AllHeld(job[j]) /\ job[j].buffered < job[j].n_cur
            BY <1>0 DEF OneAtATime
        <2>3. ~(job[j].buffered + 1 > buffer)
            BY <1>1, <2>1, <2>2
        <2>4. AllHeld(c) /\ c.buffered < c.n_cur
            BY <1>1, <1>3, <2>2
        <2> QED BY <1>0, <1>r, <1>3, <1>5, <1>6, <1>7, <2>3, <2>4 DEF OneAtATime
    <1> QED BY <1>8, <1>9, <1>10, <1>11

LEMMA RunLoopInv ==
    ASSUME Inv, NEW j \in DOMAIN job, RunLoop(j)
    PROVE  Inv'
    <1>0. /\ queue \in Seq(DOMAIN job)
          /\ InLoop(j) => running = j /\ j # 0 /\ queue' = queue /\ Operating(job[j])
        BY DEF Inv, LibTypeOK, InLoop, RunnerLoops, Operating
    <1>1. CASE Withdrawn(j) \/ Waits(j) \/ Loads(j) \/ Unloads(j) \/ LoadFails(j)
        BY <1>1, LoadUnloadInv
    <1>2. CASE Refused(j)
        BY <1>2, RefusedInv
    <1>3. CASE NoBatch(j)
        BY <1>3, NoBatchInv
    <1>4. CASE Starts(j)
        BY <1>4, StartsInv
    <1>5. CASE GoesOn(j)
        BY <1>5, GoesOnInv
    <1>6. CASE Token(j)
        BY <1>6, TokenInv
    <1>7. CASE Stops(j)
        BY <1>0, <1>7, EndsInv DEF Stops, Hows
    <1>8. CASE EndOfText(j)
        BY <1>0, <1>8, EndsInv DEF EndOfText, Samples, Hows
    <1>9. CASE TokenUnwanted(j)
        BY <1>0, <1>9, EndsInv DEF TokenUnwanted, Samples, Hows
    <1> QED BY <1>1, <1>2, <1>3, <1>4, <1>5, <1>6, <1>7, <1>8, <1>9 DEF RunLoop

LEMMA NextInv == Inv /\ [LibNext]_libVars => Inv'
    <1> SUFFICES ASSUME Inv, [LibNext]_libVars PROVE Inv'
        OBVIOUS
    <1>1. CASE Client
        <2>1. ASSUME NEW js, Cancel(js) PROVE Inv'
            BY <2>1, CancelInv
        <2>2. ASSUME NEW js, Call("load", 0, js) \/ Call("unload", 0, js) PROVE Inv'
            BY <2>2, CallInv
        <2>3. ASSUME NEW js, NEW n \in PromptLens, Call("send", n, js) PROVE Inv'
            <3>1. n \in Nat /\ n > 0
                OBVIOUS
            <3> QED BY <2>3, <3>1, CallInv
        <2> QED BY <1>1, <2>1, <2>2, <2>3, ReturnInv, ReceiveInv DEF Client
    <1>2. CASE \E j \in DOMAIN job : RunLoop(j) \/ Resume(j)
        BY <1>2, RunLoopInv, ResumeInv
    <1>3. CASE UNCHANGED libVars
        BY <1>3 DEF libVars, Inv, LibTypeOK, LiveIsLoaded, CountIsRight, UsersHaveState, Ops,
                    RunnerLoops, Fresh, Delayed, OneAtATime
    <1> QED BY <1>1, <1>2, <1>3 DEF LibNext

-----------------------------------------------------------------------------
(* Theorems                                                                *)

\* The inductive invariant.
THEOREM LibInvariant == LibSpec => []Inv
    BY InitInv, NextInv, PTL DEF LibSpec

\* The variables of LLamaAndroid and of its run loop keep their types.
THEOREM LibTypeCorrect == LibSpec => []LibTypeOK
    <1>1. Inv => LibTypeOK
        BY DEF Inv
    <1> QED BY <1>1, LibInvariant, PTL

\* However many calls there are and whatever they do, load() and unload() free no context
\* that a send() is using.
THEOREM LibNoUseAfterFree == LibSpec => []NoUseAfterFree
    <1>1. Inv => NoUseAfterFree
        BY DEF Inv, NoUseAfterFree, UsersHaveState, LiveIsLoaded, Ops
    <1> QED BY <1>1, LibInvariant, PTL

\* With a channel that takes a whole answer, no token of another call is in the context
\* a call is answered from, and of its own none is missing that was decoded.
THEOREM LibAnswersItsPrompt == LibSpec => []AnswersItsPrompt
    <1>1. Inv => AnswersItsPrompt
        <2> SUFFICES ASSUME Inv, NLen - 1 <= buffer, NEW j \in DOMAIN job, running = j
                     PROVE  /\ AllHeld(job[j])
                            /\ \A i \in DOMAIN job \ {j} : job[i].ctx = job[j].ctx => job[i].held = 0
            BY DEF AnswersItsPrompt
        <2>1. j # 0
            BY DEF Inv, LibTypeOK
        <2> QED BY <2>1 DEF Inv, OneAtATime
    <1> QED BY <1>1, LibInvariant, PTL

-----------------------------------------------------------------------------
(* The app                                                                 *)

HIDE AndroidAssumption

\* Only calls that were made can be cancelled.
LEMMA CancelledCalls ==
    ASSUME NEW js
    PROVE  Cancelled(js) = Cancelled(js \cap DOMAIN job)
    BY DEF Cancelled

LEMMA CancelIsLib ==
    ASSUME NEW js, Cancel(js)
    PROVE  LibNext
    <1>1. Cancel(js \cap DOMAIN job)
        BY CancelledCalls DEF Cancel
    <1> QED BY <1>1 DEF LibNext, Client

LEMMA CallIsLib ==
    ASSUME NEW kind, NEW n, NEW js, Call(kind, n, js),
           \/ kind = "load" /\ n = 0
           \/ kind = "unload" /\ n = 0
           \/ kind = "send" /\ n \in PromptLens
    PROVE  LibNext
    <1>1. Call(kind, n, js \cap DOMAIN job)
        BY CancelledCalls DEF Call
    <1> QED BY <1>1 DEF LibNext, Client

LEMMA ReceiveIsLib ==
    ASSUME NEW j \in DOMAIN job, NEW throws \in BOOLEAN, Receive(j, throws)
    PROVE  LibNext
    BY DEF LibNext, Client

\* What happens in a coroutine of the view model or in the run loop.
LEMMA BackgroundIsLib ==
    ASSUME NEW j \in DOMAIN job, Background(j)
    PROVE  LibNext
    <1>1. CASE RunLoop(j) \/ Resume(j)
        BY <1>1 DEF LibNext
    <1>2. CASE Collect(j)
        <2>1. Receive(j, ~HasPlace(j)) /\ (~HasPlace(j)) \in BOOLEAN
            BY <1>2 DEF Collect, HasPlace
        <2> QED BY <2>1, ReceiveIsLib
    <1>3. CASE Return(j)
        BY <1>3 DEF LibNext, Client
    <1> QED BY <1>1, <1>2, <1>3 DEF Background, SendReturns, LoadReturns, OtherReturns

LEMMA AppStepIsLib == [AppNext]_vars => [LibNext]_libVars
    <1> SUFFICES ASSUME [AppNext]_vars PROVE LibNext \/ UNCHANGED libVars
        OBVIOUS
    <1>1. CASE ClickDownload \/ ClickCancel
        BY <1>1 DEF ClickDownload, ClickCancel, Logs
    <1>2. CASE ClickLoad
        <2>1. Call("load", 0, {sendJob} \ {0}) \/ UNCHANGED libVars
            BY <1>2 DEF ClickLoad, LoadModel, LoadAgain
        <2> QED BY <2>1, CallIsLib
    <1>3. CASE Turn \/ ClickClear
        BY <1>3 DEF Turn, ClickClear, Clear
    <1>4. CASE LeaveApp
        BY <1>4, CancelIsLib DEF LeaveApp, Leave
    <1>5. CASE OtherClient
        <2>1. Call("unload", 0, {})
            BY <1>5 DEF OtherClient, UnloadElsewhere
        <2> QED BY <2>1, CallIsLib
    <1>6. CASE \E n \in PromptLens : ClickSend(n)
        <2>1. PICK n \in PromptLens : Call("send", n, {})
            BY <1>6 DEF ClickSend, SendMessage
        <2> QED BY <2>1, CallIsLib
    <1>7. CASE \E j \in DOMAIN job : Background(j) /\ UNCHANGED itemVars
        BY <1>7, BackgroundIsLib
    <1>8. CASE \E id \in DOMAIN download : DownloadStep(id) /\ UNCHANGED <<libVars, viewVars>>
        BY <1>8
    <1>9. CASE UNCHANGED vars
        BY <1>9 DEF vars
    <1> QED BY <1>1, <1>2, <1>3, <1>4, <1>5, <1>6, <1>7, <1>8, <1>9 DEF AppNext

-----------------------------------------------------------------------------
(* Answers on the screen                                                   *)

\* What the run loop is to start or to resume is not under way yet, and stands there once.
QueuedOnce ==
    /\ \A i \in DOMAIN queue : job[queue[i]].pc \in {"queued", "resumed"}
    /\ \A i, k \in DOMAIN queue : queue[i] = queue[k] => i = k

Messages == [role : {"user", "answer", "note"}, by : Nat, tokens : Nat]
Replies  == [index : Nat, received : Nat]

\* Each call has its reply, and only a send() whose answer comes in has a place for it.
ViewInv ==
    /\ messages \in Seq(Messages)
    /\ reply \in Seq(Replies) /\ Len(reply) = Len(job)
    /\ former \in 0 .. Len(job)
    /\ \A j \in DOMAIN job \ Sends : reply[j].index = 0
    /\ AnswersStandInPlace

\* A step of one call, which neither begins nor ends it for its client.
Steps(j) ==
    /\ DOMAIN job' = DOMAIN job
    /\ \A i \in DOMAIN job : job'[i].kind = job[i].kind /\ (i # j => job'[i].pc = job[i].pc)
    /\ job'[j].pc # "returned"

LEMMA OneSteps ==
    ASSUME Inv, NEW j \in DOMAIN job, NEW c, job' = [job EXCEPT ![j] = c],
           c.kind = job[j].kind, c.pc # "returned"
    PROVE  Steps(j)
    <1>1. job \in Seq(Calls)
        BY DEF Inv, LibTypeOK
    <1> QED BY <1>1 DEF Steps

\* The run loop takes the first call of its queue, or is in a send.
LEMMA RunLoopSteps ==
    ASSUME Inv, NEW j \in DOMAIN job, RunLoop(j)
    PROVE  /\ Steps(j)
           /\ \/ queue # << >> /\ j = Head(queue) /\ queue' = Tail(queue)
              \/ job[j].pc = "loop" /\ queue' = queue
    <1>0. job \in Seq(Calls) /\ job[j] \in Calls /\ \A i \in DOMAIN job : job[i] \in Calls
        BY DEF Inv, LibTypeOK
    <1>1. ASSUME NEW how \in Hows, NEW ctx, job' = Cleared(j, ctx, how)
          PROVE  Steps(j)
        BY <1>1, ClearedCalls DEF Steps
    <1>2. ASSUME NEW how \in Hows, Ends(j, how) PROVE Steps(j)
        BY <1>1, <1>2 DEF Ends
    <1>3. ASSUME NEW p, NEW how, p # "returned", job' = [job EXCEPT ![j].pc = p, ![j].end = how]
          PROVE  Steps(j)
        <2> DEFINE c == [job[j] EXCEPT !.pc = p, !.end = how]
        <2>1. job' = [job EXCEPT ![j] = c]
            BY <1>3
        <2>2. c.kind = job[j].kind /\ c.pc = p
            BY <1>0 DEF Calls
        <2> HIDE DEF c
        <2> QED BY <1>3, <2>1, <2>2, OneSteps
    <1>4. ASSUME NEW p, p # "returned", job' = [job EXCEPT ![j].pc = p]
          PROVE  Steps(j)
        <2> DEFINE c == [job[j] EXCEPT !.pc = p]
        <2>1. job' = [job EXCEPT ![j] = c]
            BY <1>4
        <2>2. c.kind = job[j].kind /\ c.pc = p
            BY <1>0 DEF Calls
        <2> HIDE DEF c
        <2> QED BY <1>4, <2>1, <2>2, OneSteps
    <1>5. CASE Withdrawn(j) \/ Waits(j) \/ Loads(j) \/ Unloads(j) \/ LoadFails(j) \/ Refused(j)
        <2>1. queue # << >> /\ j = Head(queue) /\ queue' = Tail(queue)
            BY <1>5 DEF Withdrawn, Waits, Loads, Unloads, LoadFails, Refused, Begins
        <2>2. \/ \E how \in Hows : job' = [job EXCEPT ![j].pc = "done", ![j].end = how]
              \/ job' = [job EXCEPT ![j].pc = "delay"]
            BY <1>5 DEF Withdrawn, Waits, Loads, Unloads, LoadFails, Refused, Replacing, Hows
        <2>3. Steps(j)
            BY <1>3, <1>4, <2>2
        <2> QED BY <2>1, <2>3
    <1>6. CASE NoBatch(j)
        <2>1. job' = Cleared(j, state, "failed") /\ "failed" \in Hows
            BY <1>6 DEF NoBatch, Hows
        <2> QED BY <1>1, <1>6, <2>1 DEF NoBatch, Begins
    <1>7. CASE Starts(j)
        <2> DEFINE x == [job[j] EXCEPT !.pc = "loop", !.ctx = state]
        <2>1. PICK c \in Decoded(x, job[j].n_cur) : job' = [job EXCEPT ![j] = c]
            BY <1>7 DEF Starts
        <2>a. x \in Calls /\ x.kind = job[j].kind /\ x.pc = "loop" /\ job[j].n_cur \in Nat
            BY <1>0, Fields DEF Calls, Inv, LibTypeOK
        <2> HIDE DEF x
        <2>2. c.kind = job[j].kind /\ c.pc = "loop"
            BY <2>a, Decoding
        <2>3. Steps(j)
            BY <2>1, <2>2, OneSteps
        <2> QED BY <1>7, <2>3 DEF Starts, Begins
    <1>8. CASE GoesOn(j)
        <2>1. Ends(j, "cancelled") \/ job' = [job EXCEPT ![j].pc = "loop"]
            BY <1>8 DEF GoesOn
        <2>2. Steps(j)
            BY <1>2, <1>4, <2>1 DEF Hows
        <2> QED BY <1>8, <2>2 DEF GoesOn, Begins
    <1>9. ASSUME InLoop(j) PROVE job[j].pc = "loop" /\ queue' = queue
        BY <1>9 DEF InLoop, Inv, RunnerLoops
    <1>10. CASE Stops(j) \/ EndOfText(j) \/ TokenUnwanted(j)
        <2>1. InLoop(j) /\ \E how \in Hows : Ends(j, how)
            BY <1>10 DEF Stops, EndOfText, TokenUnwanted, Samples, Hows
        <2> QED BY <1>2, <1>9, <2>1
    <1>11. CASE Token(j)
        <2>1. InLoop(j) /\ job[j].pc = "loop" /\ queue' = queue
            BY <1>9, <1>11 DEF Token, Samples
        <2>2. PICK c \in Decoded(Emitted(job[j]), 1) : job' = [job EXCEPT ![j] = c]
            BY <1>11 DEF Token
        <2>3. /\ Emitted(job[j]) \in Calls /\ Emitted(job[j]).kind = job[j].kind
              /\ Emitted(job[j]).pc \in {"emit", "loop"}
            BY <1>0, <2>1, Emitting
        <2>4. c.kind = job[j].kind /\ c.pc # "returned"
            BY <2>3, Decoding
        <2>5. Steps(j)
            BY <2>2, <2>4, OneSteps
        <2> QED BY <2>1, <2>5
    <1> QED BY <1>5, <1>6, <1>7, <1>8, <1>10, <1>11 DEF RunLoop

\* Calls keep their kind and return only by Return.
Kept(js) == \A i \in js : job'[i].kind = job[i].kind /\ (Returned(job'[i]) <=> Returned(job[i]))

LEMMA CancelledFields ==
    ASSUME Inv, NEW js
    PROVE  /\ Cancelled(js) \in Seq(Calls) /\ DOMAIN Cancelled(js) = DOMAIN job
           /\ Len(Cancelled(js)) = Len(job)
           /\ \A i \in DOMAIN job : /\ Cancelled(js)[i].kind = job[i].kind
                                    /\ Cancelled(js)[i].pc = job[i].pc
    <1>0. /\ job \in Seq(Calls) /\ \A i \in DOMAIN job : job[i] \in Calls
          /\ Len(job) \in Nat /\ DOMAIN job = 1 .. Len(job)
        BY DEF Inv, LibTypeOK
    <1>1. /\ DOMAIN Cancelled(js) = DOMAIN job
          /\ Cancelled(js) = [i \in DOMAIN job |-> Cancelled(js)[i]]
          /\ \A i \in DOMAIN job : Cancelled(js)[i] \in {job[i], [job[i] EXCEPT !.cancelled = TRUE]}
        BY DEF Cancelled
    <1>2. \A i \in DOMAIN job : /\ Cancelled(js)[i] \in Calls
                                /\ Cancelled(js)[i].kind = job[i].kind
                                /\ Cancelled(js)[i].pc = job[i].pc
        <2> TAKE i \in DOMAIN job
        <2>1. job[i] \in Calls
            BY <1>0
        <2>2. Cancelled(js)[i] = job[i] \/ Cancelled(js)[i] = [job[i] EXCEPT !.cancelled = TRUE]
            BY <1>1
        <2> QED BY <2>1, <2>2, FlaggedOrNot, Zenon
    <1>3. Cancelled(js) \in Seq(Calls) /\ Len(Cancelled(js)) = Len(job)
        BY <1>0, <1>1, <1>2
    <1> QED BY <1>1, <1>2, <1>3

\* What making a call does to the calls and the queue.
LEMMA CallSteps ==
    ASSUME Inv, NEW kind, NEW n, NEW js, Call(kind, n, js)
    PROVE  /\ Len(job) \in Nat /\ DOMAIN job = 1 .. Len(job)
           /\ DOMAIN job' = 1 .. Len(job) + 1 /\ Len(job') = Len(job) + 1
           /\ \A i \in DOMAIN job : job'[i].kind = job[i].kind /\ job'[i].pc = job[i].pc
           /\ job'[Len(job) + 1].kind = kind /\ job'[Len(job) + 1].pc = "queued"
           /\ queue' = Append(queue, Len(job) + 1)
    <1>0. job \in Seq(Calls)
        BY DEF Inv, LibTypeOK
    <1>1. job' = Append(Cancelled(js), NewJob(kind, n)) /\ queue' = Append(queue, Len(job) + 1)
        BY DEF Call
    <1>2. NewJob(kind, n).kind = kind /\ NewJob(kind, n).pc = "queued"
        BY DEF NewJob
    <1>3. /\ Cancelled(js) \in Seq(Calls) /\ Len(Cancelled(js)) = Len(job)
          /\ \A i \in DOMAIN job : /\ Cancelled(js)[i].kind = job[i].kind
                                   /\ Cancelled(js)[i].pc = job[i].pc
        BY CancelledFields
    <1>4. ASSUME NEW c, job' = Append(Cancelled(js), c)
          PROVE  /\ DOMAIN job' = 1 .. Len(job) + 1 /\ Len(job') = Len(job) + 1
                 /\ job'[Len(job) + 1] = c
                 /\ \A i \in DOMAIN job : job'[i] = Cancelled(js)[i]
        BY <1>0, <1>3, <1>4
    <1> QED BY <1>0, <1>1, <1>2, <1>3, <1>4

LEMMA OtherSteps ==
    ASSUME Inv, NEW j \in DOMAIN job
    PROVE  /\ \A throws \in BOOLEAN : Receive(j, throws) =>
                  /\ DOMAIN job' = DOMAIN job /\ UNCHANGED queue
                  /\ \A i \in DOMAIN job : job'[i].kind = job[i].kind /\ job'[i].pc = job[i].pc
           /\ Return(j) => /\ DOMAIN job' = DOMAIN job /\ UNCHANGED queue /\ job[j].pc = "done"
                           /\ job'[j].kind = job[j].kind /\ job'[j].pc = "returned"
                           /\ \A i \in DOMAIN job : i # j => job'[i] = job[i]
           /\ Resume(j) => /\ Steps(j) /\ job[j].pc \in {"emit", "delay"}
                           /\ job'[j].pc = "resumed" /\ queue' = Append(queue, j)
    <1>0. job \in Seq(Calls) /\ job[j] \in Calls
        BY DEF Inv, LibTypeOK
    <1>1. ASSUME NEW throws \in BOOLEAN, Receive(j, throws)
          PROVE  /\ DOMAIN job' = DOMAIN job /\ UNCHANGED queue
                 /\ \A i \in DOMAIN job : job'[i].kind = job[i].kind /\ job'[i].pc = job[i].pc
        <2> DEFINE c == [job[j] EXCEPT !.buffered = @ - 1, !.cancelled = throws]
        <2>1. job' = [job EXCEPT ![j] = c] /\ UNCHANGED queue
            BY <1>1 DEF Receive
        <2>2. c.kind = job[j].kind /\ c.pc = job[j].pc
            BY <1>0 DEF Calls
        <2> HIDE DEF c
        <2> QED BY <1>0, <2>1, <2>2
    <1>2. ASSUME Return(j)
          PROVE  /\ DOMAIN job' = DOMAIN job /\ UNCHANGED queue /\ job[j].pc = "done"
                 /\ job'[j].kind = job[j].kind /\ job'[j].pc = "returned"
                 /\ \A i \in DOMAIN job : i # j => job'[i] = job[i]
        <2> DEFINE c == [NewJob(job[j].kind, 0) EXCEPT !.pc = "returned"]
        <2>1. job' = [job EXCEPT ![j] = c] /\ UNCHANGED queue /\ job[j].pc = "done"
            BY <1>2 DEF Return
        <2>2. c.kind = job[j].kind /\ c.pc = "returned"
            BY DEF NewJob
        <2> HIDE DEF c
        <2> QED BY <1>0, <2>1, <2>2
    <1>3. ASSUME Resume(j)
          PROVE  Steps(j) /\ job[j].pc \in {"emit", "delay"} /\ job'[j].pc = "resumed"
                 /\ queue' = Append(queue, j)
        <2> DEFINE c == [job[j] EXCEPT !.pc = "resumed"]
        <2>1. /\ job' = [job EXCEPT ![j] = c] /\ queue' = Append(queue, j)
              /\ job[j].pc \in {"emit", "delay"}
            BY <1>3 DEF Resume
        <2>2. c.kind = job[j].kind /\ c.pc = "resumed"
            BY <1>0 DEF Calls
        <2> HIDE DEF c
        <2> QED BY <1>0, <2>1, <2>2, OneSteps
    <1> QED BY <1>1, <1>2, <1>3

\* The queue loses its first call, or gets one that was not in it.
LEMMA QueuedTail ==
    ASSUME Inv, QueuedOnce, queue # << >>, queue' = Tail(queue), Steps(Head(queue))
    PROVE  QueuedOnce'
    <1>1. /\ queue \in Seq(DOMAIN job) /\ Head(queue) = queue[1] /\ Len(queue) \in Nat
          /\ DOMAIN queue = 1 .. Len(queue) /\ Len(queue) # 0
          /\ DOMAIN queue' = 1 .. Len(queue) - 1
          /\ \A i \in 1 .. Len(queue) - 1 : queue'[i] = queue[i + 1]
        BY DEF Inv, LibTypeOK
    <1>2. ASSUME NEW i \in DOMAIN queue'
          PROVE  /\ i + 1 \in DOMAIN queue /\ queue'[i] = queue[i + 1]
                 /\ queue'[i] # Head(queue) /\ queue'[i] \in DOMAIN job
        <2>1. i + 1 \in DOMAIN queue /\ 1 \in DOMAIN queue /\ i + 1 # 1
            BY <1>1
        <2>2. queue[i + 1] # queue[1]
            BY <2>1 DEF QueuedOnce
        <2> QED BY <1>1, <2>1, <2>2
    <1>3. \A i \in DOMAIN queue' : job'[queue'[i]].pc \in {"queued", "resumed"}
        BY <1>2 DEF QueuedOnce, Steps
    <1>4. ASSUME NEW i \in DOMAIN queue', NEW k \in DOMAIN queue', queue'[i] = queue'[k] PROVE i = k
        <2>1. i + 1 = k + 1
            BY <1>2, <1>4 DEF QueuedOnce
        <2> QED BY <1>1, <2>1
    <1> QED BY <1>3, <1>4 DEF QueuedOnce

LEMMA QueuedAppend ==
    ASSUME Inv, QueuedOnce, NEW j, queue' = Append(queue, j), \A i \in DOMAIN queue : queue[i] # j,
           \A i \in DOMAIN job : i # j => job'[i].pc = job[i].pc,
           job'[j].pc \in {"queued", "resumed"}
    PROVE  QueuedOnce'
    <1>1. /\ queue \in Seq(DOMAIN job) /\ Len(queue) \in Nat /\ DOMAIN queue = 1 .. Len(queue)
          /\ DOMAIN queue' = 1 .. Len(queue) + 1 /\ queue'[Len(queue) + 1] = j
          /\ \A i \in 1 .. Len(queue) : queue'[i] = queue[i]
        BY DEF Inv, LibTypeOK
    <1>2. \A i \in DOMAIN queue' : \/ i = Len(queue) + 1 /\ queue'[i] = j
                                   \/ i \in DOMAIN queue /\ queue'[i] = queue[i] /\ queue[i] # j
                                      /\ queue[i] \in DOMAIN job
        BY <1>1
    <1> QED BY <1>2 DEF QueuedOnce

LEMMA QueuedKept ==
    ASSUME Inv, QueuedOnce, UNCHANGED queue,
           \A i \in DOMAIN job : job[i].pc \in {"queued", "resumed"} => job'[i].pc = job[i].pc
    PROVE  QueuedOnce'
    <1>1. \A i \in DOMAIN queue : queue[i] \in DOMAIN job
        BY DEF Inv, LibTypeOK
    <1> QED BY <1>1 DEF QueuedOnce

LEMMA QueuedNext == ASSUME Inv, QueuedOnce, [LibNext]_libVars PROVE QueuedOnce'
    <1>1. ASSUME NEW js, Cancel(js) PROVE QueuedOnce'
        <2>1. UNCHANGED queue /\ \A i \in DOMAIN job : job'[i].pc = job[i].pc
            BY <1>1, CancelledFields DEF Cancel
        <2> QED BY <2>1, QueuedKept
    <1>2. ASSUME NEW kind, NEW n, NEW js, Call(kind, n, js) PROVE QueuedOnce'
        <2>1. /\ queue' = Append(queue, Len(job) + 1) /\ job'[Len(job) + 1].pc = "queued"
              /\ \A i \in DOMAIN job : job'[i].pc = job[i].pc
              /\ Len(job) + 1 \notin DOMAIN job
            BY <1>2, CallSteps
        <2>2. \A i \in DOMAIN queue : queue[i] # Len(job) + 1
            BY <2>1 DEF Inv, LibTypeOK
        <2> QED BY <2>1, <2>2, QueuedAppend
    <1>3. ASSUME NEW j \in DOMAIN job, NEW throws \in BOOLEAN, Return(j) \/ Receive(j, throws)
          PROVE  QueuedOnce'
        <2>1. UNCHANGED queue
              /\ \A i \in DOMAIN job : job[i].pc \in {"queued", "resumed"} => job'[i].pc = job[i].pc
            BY <1>3, OtherSteps
        <2> QED BY <2>1, QueuedKept
    <1>4. ASSUME NEW j \in DOMAIN job, Resume(j) PROVE QueuedOnce'
        <2>1. Steps(j) /\ job[j].pc \in {"emit", "delay"} /\ job'[j].pc = "resumed"
              /\ queue' = Append(queue, j)
            BY <1>4, OtherSteps
        <2>2. \A i \in DOMAIN queue : queue[i] # j
            BY <2>1 DEF QueuedOnce
        <2> QED BY <2>1, <2>2, QueuedAppend DEF Steps
    <1>5. ASSUME NEW j \in DOMAIN job, RunLoop(j) PROVE QueuedOnce'
        <2>1. Steps(j)
            BY <1>5, RunLoopSteps
        <2>2. CASE queue # << >> /\ j = Head(queue) /\ queue' = Tail(queue)
            BY <2>1, <2>2, QueuedTail
        <2>3. CASE job[j].pc = "loop" /\ queue' = queue
            BY <2>1, <2>3, QueuedKept DEF Steps
        <2> QED BY <1>5, <2>2, <2>3, RunLoopSteps
    <1>6. CASE UNCHANGED libVars
        BY <1>6, QueuedKept DEF libVars
    <1>7. CASE Client
        BY <1>1, <1>2, <1>3, <1>7 DEF Client
    <1> QED BY <1>4, <1>5, <1>6, <1>7 DEF LibNext

-----------------------------------------------------------------------------
(* The messages                                                            *)

LEMMA LengthIs ==
    ASSUME LibTypeOK
    PROVE  Len(job) \in Nat /\ DOMAIN job = 1 .. Len(job) /\ job \in Seq(Calls)
    BY DEF LibTypeOK

\* No answer begins or ends.
LEMMA SendsKept ==
    ASSUME Inv, Inv', UNCHANGED former, DOMAIN job' = DOMAIN job, Kept(DOMAIN job), former \in Nat
    PROVE  Sends' = Sends /\ Len(job') = Len(job)
    <1>1. /\ Len(job) \in Nat /\ DOMAIN job = 1 .. Len(job)
          /\ Len(job') \in Nat /\ DOMAIN job' = 1 .. Len(job')
        BY LengthIs DEF Inv
    <1>2. Len(job') = Len(job)
        BY <1>1
    <1>3. \A j \in former + 1 .. Len(job) : j \in DOMAIN job
        BY <1>1
    <1> QED BY <1>2, <1>3 DEF Sends, Kept

\* A call that is no answer has no place, so nothing is shown for it.
LEMMA SendFacts ==
    ASSUME Inv, ViewInv
    PROVE  /\ Sends \subseteq DOMAIN job /\ former \in Nat
           /\ \A j \in DOMAIN job : reply[j] \in Replies
           /\ \A j \in DOMAIN job \ Sends : ~HasPlace(j)
    <1>1. /\ Len(job) \in Nat /\ DOMAIN job = 1 .. Len(job)
        BY LengthIs DEF Inv
    <1>2. DOMAIN reply = DOMAIN job /\ former \in Nat
        BY <1>1 DEF ViewInv
    <1>3. \A j \in DOMAIN job : reply[j] \in Replies
        <2>1. reply \in Seq(Replies)
            BY DEF ViewInv
        <2> QED BY <1>2, <2>1
    <1>4. 0 \notin DOMAIN messages
        BY DEF ViewInv
    <1> QED BY <1>1, <1>2, <1>3, <1>4 DEF ViewInv, Sends, HasPlace

\* Of an answer that comes in.
LEMMA PlaceFacts ==
    ASSUME ViewInv, NEW j \in Sends
    PROVE  /\ HasPlace(j) /\ reply[j].index \in DOMAIN messages
           /\ messages[reply[j].index] = Answer(j, reply[j].received)
           /\ messages[reply[j].index].role = "answer" /\ messages[reply[j].index].by = j
           /\ reply[j].index > 1 /\ messages[reply[j].index - 1] = User(j)
    <1>1. /\ HasPlace(j) /\ messages[reply[j].index] = Answer(j, reply[j].received)
          /\ reply[j].index > 1 /\ messages[reply[j].index - 1] = User(j)
        BY DEF ViewInv, AnswersStandInPlace
    <1>2. Answer(j, reply[j].received).role = "answer" /\ Answer(j, reply[j].received).by = j
        BY DEF Answer
    <1> QED BY <1>1, <1>2 DEF HasPlace

\* Nothing, or a note, is added to the messages.
LEMMA NotedKept ==
    ASSUME ViewInv, Inv, Inv', UNCHANGED former, Len(job') >= Len(job), Sends' \subseteq Sends,
           messages' = messages \/ messages' = Append(messages, Note),
           reply' \in Seq(Replies), Len(reply') = Len(job'),
           \A j \in Sends' : reply'[j] = reply[j],
           \A j \in DOMAIN job' \ Sends' : reply'[j].index = 0
    PROVE  ViewInv'
    <1>1. /\ Len(job) \in Nat /\ Len(job') \in Nat
        BY LengthIs DEF Inv
    <1>2. Note \in Messages
        BY DEF Note, Messages
    <1>3. /\ messages' \in Seq(Messages) /\ DOMAIN messages \subseteq DOMAIN messages'
          /\ \A p \in DOMAIN messages : messages'[p] = messages[p]
        <2>1. messages \in Seq(Messages)
            BY DEF ViewInv
        <2>2. ASSUME NEW m \in Messages, messages' = Append(messages, m)
              PROVE  /\ messages' \in Seq(Messages) /\ DOMAIN messages \subseteq DOMAIN messages'
                     /\ \A p \in DOMAIN messages : messages'[p] = messages[p]
            BY <2>1, <2>2
        <2> QED BY <1>2, <2>1, <2>2
    <1>4. ASSUME NEW j \in Sends'
          PROVE  /\ HasPlace(j)'
                 /\ messages'[reply'[j].index] = Answer(j, reply'[j].received)
                 /\ reply'[j].index > 1 /\ messages'[reply'[j].index - 1] = User(j)
        <2>1. /\ HasPlace(j) /\ messages[reply[j].index] = Answer(j, reply[j].received)
              /\ reply[j].index > 1 /\ messages[reply[j].index - 1] = User(j)
            BY <1>4, PlaceFacts
        <2>2. reply[j].index \in DOMAIN messages /\ reply[j].index - 1 \in DOMAIN messages
            BY <2>1 DEF HasPlace, ViewInv
        <2> QED BY <1>3, <1>4, <2>1, <2>2 DEF HasPlace
    <1>5. AnswersStandInPlace'
        BY <1>4 DEF AnswersStandInPlace, Answer, User
    <1>6. former' \in 0 .. Len(job')
        BY <1>1 DEF ViewInv
    <1> QED BY <1>3, <1>5, <1>6 DEF ViewInv

\* What takes the place of one answer changes neither another answer nor a question.
LEMMA ShownApart ==
    ASSUME ViewInv, Inv, NEW j \in Sends, NEW msg \in Messages, messages' = Shown(j, msg)
    PROVE  /\ messages' \in Seq(Messages) /\ DOMAIN messages' = DOMAIN messages
           /\ messages'[reply[j].index] = msg
           /\ \A i \in Sends : messages'[reply[i].index - 1] = User(i)
           /\ \A i \in Sends \ {j} : messages'[reply[i].index] = messages[reply[i].index]
    <1>1. /\ reply[j].index \in DOMAIN messages /\ messages[reply[j].index].role = "answer"
          /\ messages[reply[j].index].by = j
        BY PlaceFacts
    <1>2. /\ messages' = [messages EXCEPT ![reply[j].index] = msg] /\ messages \in Seq(Messages)
        BY DEF Shown, ViewInv
    <1>3. /\ messages' \in Seq(Messages) /\ DOMAIN messages' = DOMAIN messages
          /\ messages'[reply[j].index] = msg
          /\ \A p \in DOMAIN messages : p # reply[j].index => messages'[p] = messages[p]
        BY <1>1, <1>2
    <1>4. ASSUME NEW i \in Sends
          PROVE  messages'[reply[i].index - 1] = User(i)
        <2>1. /\ reply[i].index \in DOMAIN messages /\ reply[i].index > 1
              /\ messages[reply[i].index - 1] = User(i)
            BY PlaceFacts
        <2>2. reply[i].index - 1 \in DOMAIN messages /\ User(i).role # "answer"
            BY <2>1, <1>2 DEF User
        <2>3. reply[i].index - 1 # reply[j].index
            BY <1>1, <2>1, <2>2
        <2> QED BY <1>3, <2>1, <2>2, <2>3
    <1>5. ASSUME NEW i \in Sends \ {j}
          PROVE  messages'[reply[i].index] = messages[reply[i].index]
        <2>1. /\ reply[i].index \in DOMAIN messages /\ messages[reply[i].index].by = i
            BY PlaceFacts
        <2>2. reply[i].index # reply[j].index
            BY <1>1, <2>1
        <2> QED BY <1>3, <2>1, <2>2
    <1> QED BY <1>3, <1>4, <1>5

-----------------------------------------------------------------------------
(* Buttons                                                                 *)

\* A new call: an answer if it is a send(), which nobody has returned from.
LEMMA CallSends ==
    ASSUME Inv, Inv', ViewInv, UNCHANGED former, NEW kind, NEW n, NEW js, Call(kind, n, js)
    PROVE  /\ Newest = Len(job) + 1 /\ Newest = Len(job') /\ Newest \notin DOMAIN job
           /\ DOMAIN job' = DOMAIN job \cup {Newest}
           /\ Sends' = Sends \cup (IF kind = "send" THEN {Newest} ELSE {})
    <1>1. /\ Len(job) \in Nat /\ DOMAIN job = 1 .. Len(job)
          /\ DOMAIN job' = 1 .. Len(job) + 1 /\ Len(job') = Len(job) + 1
          /\ \A i \in DOMAIN job : job'[i].kind = job[i].kind /\ job'[i].pc = job[i].pc
          /\ job'[Len(job) + 1].kind = kind /\ job'[Len(job) + 1].pc = "queued"
        BY CallSteps
    <1>2. former \in 0 .. Len(job)
        BY DEF ViewInv
    <1>3. \A i : i \in former + 1 .. Len(job') <=> (i = Len(job) + 1 \/ i \in former + 1 .. Len(job))
        BY <1>1, <1>2
    <1>4. \A i \in former + 1 .. Len(job) : i \in DOMAIN job /\ i # Len(job) + 1
        BY <1>1, <1>2
    <1>5. Sends' = {i \in former + 1 .. Len(job') : job'[i].kind = "send" /\ ~Returned(job'[i])}
        BY DEF Sends, Returned
    <1>6. \A i : i \in Sends' <=> i \in Sends \/ (i = Len(job) + 1 /\ kind = "send")
        <2>1. "queued" # "returned"
            OBVIOUS
        <2>2. CASE kind = "send"
            <3>1. \A i : i \in Sends' <=> (i \in Sends \/ i = Len(job) + 1)
                BY <1>1, <1>3, <1>4, <1>5, <2>2 DEF Sends, Returned
            <3> QED BY <2>2, <3>1
        <2>3. CASE kind # "send"
            <3>1. \A i : i \in Sends' <=> i \in Sends
                BY <1>1, <1>3, <1>4, <1>5, <2>3 DEF Sends, Returned
            <3> QED BY <2>3, <3>1
        <2> QED BY <2>2, <2>3
    <1>7. DOMAIN job' = DOMAIN job \cup {Len(job) + 1} /\ Len(job) + 1 \notin DOMAIN job
        BY <1>1
    <1>8. Sends' = Sends \cup (IF kind = "send" THEN {Len(job) + 1} ELSE {})
        BY <1>6
    <1> QED BY <1>1, <1>7, <1>8 DEF Newest

LEMMA SendMessageView ==
    ASSUME Inv, Inv', ViewInv, NEW n, SendMessage(n)
    PROVE  ViewInv'
    <1>1. /\ Newest = Len(job) + 1 /\ Newest = Len(job') /\ Newest \notin DOMAIN job
          /\ DOMAIN job' = DOMAIN job \cup {Newest} /\ Sends' = Sends \cup {Newest}
        BY CallSends DEF SendMessage
    <1>2. /\ Len(job) \in Nat /\ DOMAIN job = 1 .. Len(job) /\ Len(messages) \in Nat
          /\ DOMAIN messages = 1 .. Len(messages) /\ messages \in Seq(Messages)
          /\ reply \in Seq(Replies) /\ Len(reply) = Len(job) /\ former \in 0 .. Len(job)
        BY LengthIs DEF Inv, ViewInv
    <1> DEFINE k == Newest
               r == [NoReply EXCEPT !.index = Len(messages) + 2]
    <1>3. k \in Nat
        BY <1>1, <1>2
    <1>4. User(k) \in Messages /\ Answer(k, 0) \in Messages
        BY <1>3 DEF User, Answer, Messages
    <1>5. r \in Replies /\ r.index = Len(messages) + 2 /\ r.received = 0
        <2>1. r = [index |-> Len(messages) + 2, received |-> 0]
            BY DEF NoReply
        <2> QED BY <1>2, <2>1 DEF Replies
    <1>6. /\ messages' = messages \o <<User(k), Answer(k, 0)>> /\ reply' = Append(reply, r)
          /\ UNCHANGED former
        BY DEF SendMessage
    <1> HIDE DEF k, r
    <1>7. ASSUME NEW u \in Messages, NEW a \in Messages, messages' = messages \o <<u, a>>
          PROVE  /\ messages' \in Seq(Messages) /\ Len(messages') = Len(messages) + 2
                 /\ DOMAIN messages' = 1 .. Len(messages) + 2
                 /\ \A p \in DOMAIN messages : messages'[p] = messages[p]
                 /\ messages'[Len(messages) + 1] = u /\ messages'[Len(messages) + 2] = a
        BY <1>2, <1>7
    <1>8. /\ messages' \in Seq(Messages) /\ DOMAIN messages' = 1 .. Len(messages) + 2
          /\ \A p \in DOMAIN messages : messages'[p] = messages[p]
          /\ messages'[Len(messages) + 1] = User(k) /\ messages'[Len(messages) + 2] = Answer(k, 0)
        BY <1>4, <1>6, <1>7
    <1>9. /\ reply' \in Seq(Replies) /\ Len(reply') = Len(job) + 1 /\ reply'[Len(job) + 1] = r
          /\ \A j \in DOMAIN job : reply'[j] = reply[j]
        BY <1>2, <1>5, <1>6
    <1>10. k = Len(job) + 1
        BY <1>1 DEF k
    <1>11. ASSUME NEW j \in Sends'
          PROVE  /\ reply'[j].index \in DOMAIN messages'
                 /\ messages'[reply'[j].index] = Answer(j, reply'[j].received)
                 /\ reply'[j].index > 1 /\ messages'[reply'[j].index - 1] = User(j)
        <2>1. CASE j \in Sends
            <3>1. /\ reply[j].index \in DOMAIN messages
                  /\ messages[reply[j].index] = Answer(j, reply[j].received)
                  /\ reply[j].index > 1 /\ messages[reply[j].index - 1] = User(j)
                BY <2>1, PlaceFacts
            <3>2. reply[j].index - 1 \in DOMAIN messages /\ reply[j].index \in DOMAIN messages'
                BY <1>2, <1>8, <3>1, SMTT(60)
            <3>3. reply'[j] = reply[j]
                BY <1>9, <2>1, SendFacts
            <3> QED BY <1>8, <3>1, <3>2, <3>3
        <2>2. CASE j = k
            <3>1. reply'[j] = r /\ r.index - 1 = Len(messages) + 1
                BY <1>2, <1>5, <1>9, <1>10, <2>2
            <3>2. r.index \in DOMAIN messages' /\ r.index > 1
                BY <1>2, <1>5, <1>8
            <3> QED BY <1>5, <1>8, <2>2, <3>1, <3>2
        <2> QED BY <1>1, <2>1, <2>2 DEF k
    <1>12. AnswersStandInPlace'
        BY <1>11 DEF AnswersStandInPlace, Answer, User, HasPlace
    <1>13. \A j \in DOMAIN job' \ Sends' : reply'[j].index = 0
        <2>1. ASSUME NEW j \in DOMAIN job' \ Sends' PROVE reply'[j].index = 0
            <3>1. j \in DOMAIN job \ Sends
                BY <1>1
            <3> QED BY <1>9, <3>1 DEF ViewInv
        <2> QED BY <2>1
    <1>14. former' \in 0 .. Len(job') /\ Len(reply') = Len(job')
        BY <1>1, <1>2, <1>6, <1>9
    <1> QED BY <1>8, <1>9, <1>12, <1>13, <1>14 DEF ViewInv

\* load() and unload() have no place among the messages.
LEMMA OtherCallView ==
    ASSUME Inv, Inv', ViewInv, NEW kind \in {"load", "unload"}, NEW js, Call(kind, 0, js),
           reply' = Append(reply, NoReply), UNCHANGED <<messages, former>>
    PROVE  ViewInv'
    <1>1. /\ Newest = Len(job) + 1 /\ Newest = Len(job')
          /\ DOMAIN job' = DOMAIN job \cup {Newest} /\ Sends' = Sends
        BY CallSends
    <1>2. /\ Len(job) \in Nat /\ DOMAIN job = 1 .. Len(job)
          /\ reply \in Seq(Replies) /\ Len(reply) = Len(job)
        BY LengthIs DEF Inv, ViewInv
    <1>3. NoReply \in Replies /\ NoReply.index = 0
        BY DEF NoReply, Replies
    <1>4. /\ reply' \in Seq(Replies) /\ Len(reply') = Len(job') /\ reply'[Newest] = NoReply
          /\ \A j \in DOMAIN job : reply'[j] = reply[j]
        BY <1>1, <1>2, <1>3
    <1>5. \A j \in Sends' : reply'[j] = reply[j]
        BY <1>1, <1>4, SendFacts
    <1>6. \A j \in DOMAIN job' \ Sends' : reply'[j].index = 0
        BY <1>1, <1>3, <1>4 DEF ViewInv
    <1>7. Len(job') >= Len(job)
        BY <1>1, <1>2
    <1> QED BY <1>1, <1>4, <1>5, <1>6, <1>7, NotedKept

LEMMA LeaveView ==
    ASSUME Inv, Inv', ViewInv, Leave
    PROVE  ViewInv'
    <1>1. /\ Len(job) \in Nat /\ DOMAIN job = 1 .. Len(job) /\ Len(job') = Len(job)
          /\ DOMAIN job' = DOMAIN job
        BY LengthIs, CancelledFields DEF Inv, Leave, Cancel
    <1>2. Sends' = {}
        <2>1. former' + 1 .. Len(job') = {}
            BY <1>1 DEF Leave
        <2> QED BY <2>1 DEF Sends
    <1>3. messages' = <<Note>> /\ Note \in Messages
        BY DEF Leave, Note, Messages
    <1>4. NoReply \in Replies /\ NoReply.index = 0
        BY DEF NoReply, Replies
    <1>5. /\ reply' = [j \in 1 .. Len(job) |-> NoReply]
        BY <1>1 DEF ViewInv, Leave
    <1>6. /\ reply' \in Seq(Replies) /\ Len(reply') = Len(job)
          /\ \A j \in DOMAIN job : reply'[j].index = 0
        BY <1>1, <1>4, <1>5
    <1>7. messages' \in Seq(Messages)
        BY <1>3
    <1>8. former' \in 0 .. Len(job')
        BY <1>1 DEF Leave
    <1>9. AnswersStandInPlace'
        BY <1>2 DEF AnswersStandInPlace
    <1> QED BY <1>1, <1>2, <1>6, <1>7, <1>8, <1>9 DEF ViewInv

\* A button that changes the messages only.
LEMMA MessagesView ==
    ASSUME Inv, Inv', ViewInv, UNCHANGED <<libVars, reply, former>>,
           \/ messages' = messages \/ messages' = Append(messages, Note)
           \/ messages' = << >> /\ Sends = {}
    PROVE  ViewInv'
    <1>1. /\ Sends' = Sends /\ UNCHANGED job
        BY DEF Sends, libVars
    <1>2. CASE messages' = << >> /\ Sends = {}
        <2>1. messages' \in Seq(Messages)
            BY <1>2
        <2> QED BY <1>1, <1>2, <2>1 DEF ViewInv, AnswersStandInPlace
    <1>3. Len(job) \in Nat
        BY LengthIs DEF Inv
    <1>4. CASE messages' = messages \/ messages' = Append(messages, Note)
        BY <1>1, <1>3, <1>4, NotedKept DEF ViewInv
    <1> QED BY <1>2, <1>4

-----------------------------------------------------------------------------
(* Coroutines                                                              *)

LEMMA RunView ==
    ASSUME Inv, Inv', QueuedOnce, ViewInv, NEW j \in DOMAIN job, RunLoop(j) \/ Resume(j),
           UNCHANGED viewVars
    PROVE  ViewInv'
    <1>1. Steps(j) /\ ~Returned(job[j])
        <2>1. CASE Resume(j)
            BY <2>1, OtherSteps DEF Returned
        <2>2. CASE RunLoop(j)
            <3>1. CASE queue # << >> /\ j = Head(queue)
                <4>1. 1 \in DOMAIN queue /\ Head(queue) = queue[1]
                    BY <3>1 DEF Inv, LibTypeOK
                <4> QED BY <2>2, <3>1, <4>1, RunLoopSteps DEF QueuedOnce, Returned
            <3>2. CASE job[j].pc = "loop"
                BY <2>2, <3>2, RunLoopSteps DEF Returned
            <3> QED BY <2>2, <3>1, <3>2, RunLoopSteps
        <2> QED BY <2>1, <2>2
    <1>2. DOMAIN job' = DOMAIN job /\ Kept(DOMAIN job)
        BY <1>1 DEF Steps, Kept, Returned
    <1>3. Sends' = Sends /\ Len(job') = Len(job) /\ Len(job) \in Nat
        BY <1>2, SendsKept, SendFacts, LengthIs DEF viewVars, Inv
    <1> QED BY <1>2, <1>3, NotedKept DEF viewVars, ViewInv

LEMMA CollectView ==
    ASSUME Inv, Inv', ViewInv, NEW j \in DOMAIN job, Collect(j)
    PROVE  ViewInv'
    <1> DEFINE r == [reply[j] EXCEPT !.received = @ + 1]
    <1>1. DOMAIN job' = DOMAIN job /\ Kept(DOMAIN job)
        <2>1. Receive(j, ~HasPlace(j)) /\ (~HasPlace(j)) \in BOOLEAN
            BY DEF Collect, HasPlace
        <2> QED BY <2>1, OtherSteps DEF Kept, Returned
    <1>2. /\ Sends' = Sends /\ Len(job') = Len(job) /\ UNCHANGED former
          /\ Len(job) \in Nat /\ DOMAIN job = 1 .. Len(job)
        BY <1>1, SendsKept, SendFacts, LengthIs DEF Collect, Inv
    <1>3. reply[j] \in Replies /\ reply \in Seq(Replies) /\ DOMAIN reply = DOMAIN job
        BY <1>2, SendFacts DEF ViewInv
    <1>4. r \in Replies /\ r.index = reply[j].index
        BY <1>3 DEF Replies
    <1>5. reply' = [reply EXCEPT ![j] = r]
        BY DEF Collect
    <1> HIDE DEF r
    <1>6. /\ reply' \in Seq(Replies) /\ Len(reply') = Len(job) /\ reply'[j] = r
          /\ \A i \in DOMAIN job : i # j => reply'[i] = reply[i]
        BY <1>2, <1>3, <1>4, <1>5
    <1>7. \A i \in DOMAIN job : reply'[i].index = reply[i].index
        BY <1>4, <1>6
    <1>8. \A i \in DOMAIN job' \ Sends' : reply'[i].index = 0
        BY <1>1, <1>2, <1>7 DEF ViewInv
    <1>9. CASE j \in Sends
        <2>1. HasPlace(j)
            BY <1>9 DEF ViewInv, AnswersStandInPlace
        <2> DEFINE msg == Answer(j, r.received)
        <2>2. messages' = Shown(j, msg)
            BY <1>6, <2>1 DEF Collect
        <2>3. msg \in Messages
            BY <1>2, <1>4 DEF Answer, Messages, Replies
        <2> HIDE DEF msg
        <2>4. /\ messages' \in Seq(Messages) /\ DOMAIN messages' = DOMAIN messages
              /\ messages'[reply[j].index] = msg
              /\ \A i \in Sends : messages'[reply[i].index - 1] = User(i)
              /\ \A i \in Sends \ {j} : messages'[reply[i].index] = messages[reply[i].index]
            BY <1>9, <2>2, <2>3, ShownApart
        <2>5. ASSUME NEW i \in Sends'
              PROVE  /\ reply'[i].index \in DOMAIN messages'
                     /\ messages'[reply'[i].index] = Answer(i, reply'[i].received)
                     /\ reply'[i].index > 1 /\ messages'[reply'[i].index - 1] = User(i)
            <3>1. i \in Sends /\ i \in DOMAIN job
                BY <1>2, SendFacts
            <3>2. reply'[i].index = reply[i].index
                BY <1>7, <3>1
            <3>3. /\ reply[i].index \in DOMAIN messages /\ reply[i].index > 1
                  /\ messages[reply[i].index] = Answer(i, reply[i].received)
                BY <3>1, PlaceFacts
            <3>4. CASE i = j
                BY <1>6, <2>4, <3>1, <3>2, <3>3, <3>4 DEF msg
            <3>5. CASE i # j
                BY <1>6, <2>4, <3>1, <3>2, <3>3, <3>5
            <3> QED BY <3>4, <3>5
        <2>6. AnswersStandInPlace'
            BY <2>5 DEF AnswersStandInPlace, HasPlace, Answer, User
        <2> QED BY <1>2, <1>6, <1>8, <2>4, <2>6 DEF ViewInv
    <1>10. CASE j \notin Sends
        <2>1. messages' = messages
            BY <1>10, SendFacts DEF Collect
        <2>2. \A i \in Sends' : reply'[i] = reply[i]
            BY <1>2, <1>6, <1>10, SendFacts
        <2> QED BY <1>2, <1>6, <1>8, <2>1, <2>2, NotedKept
    <1> QED BY <1>9, <1>10

LEMMA SameRange == ASSUME NEW m \in Nat, NEW n \in Nat, 1 .. m = 1 .. n PROVE m = n
    <1>1. (m # 0 => m \in 1 .. n) /\ (n # 0 => n \in 1 .. m)
        OBVIOUS
    <1> QED BY <1>1

\* A call that returns is no answer any more.
LEMMA ReturnSends ==
    ASSUME Inv, Inv', ViewInv, NEW j \in DOMAIN job, Return(j), UNCHANGED former
    PROVE  /\ Sends' = Sends \ {j} /\ Len(job') = Len(job) /\ DOMAIN job' = DOMAIN job
           /\ Len(job) \in Nat /\ DOMAIN job = 1 .. Len(job)
           /\ j > former /\ job[j].kind = "send" => j \in Sends
           /\ j <= former \/ job[j].kind # "send" => j \notin Sends
    <1>1. /\ Len(job) \in Nat /\ DOMAIN job = 1 .. Len(job)
          /\ Len(job') \in Nat /\ DOMAIN job' = 1 .. Len(job')
        BY LengthIs DEF Inv
    <1>2. /\ DOMAIN job' = DOMAIN job /\ job[j].pc = "done"
          /\ job'[j].kind = job[j].kind /\ job'[j].pc = "returned"
          /\ \A i \in DOMAIN job : i # j => job'[i] = job[i]
        BY OtherSteps
    <1>3. Len(job') = Len(job) /\ former \in Nat /\ j \in Nat
        <2>1. former \in Nat
            BY SendFacts, SMTT(60)
        <2>2. 1 .. Len(job) = 1 .. Len(job')
            BY <1>1, <1>2, ZenonT(60)
        <2>3. Len(job') = Len(job)
            BY <1>1, <2>2, SameRange
        <2>4. j \in Nat
            BY <1>1
        <2> QED BY <2>1, <2>3, <2>4
    <1>4. Sends' = {i \in former + 1 .. Len(job) : job'[i].kind = "send" /\ ~Returned(job'[i])}
        BY <1>3 DEF Sends, Returned
    <1>5. \A i \in former + 1 .. Len(job) : i \in DOMAIN job
        BY <1>1, <1>3
    <1>6. Sends' = Sends \ {j}
        BY <1>2, <1>4, <1>5 DEF Sends, Returned
    <1>7. j > former <=> j \in former + 1 .. Len(job)
        BY <1>1, <1>3
    <1>8. j <= former <=> ~(j > former)
        BY <1>3
    <1> QED BY <1>1, <1>2, <1>3, <1>6, <1>7, <1>8 DEF Sends, Returned

LEMMA SendReturnsView ==
    ASSUME Inv, Inv', ViewInv, NEW j \in DOMAIN job, SendReturns(j)
    PROVE  ViewInv'
    <1>1. /\ Sends' = Sends \ {j} /\ Len(job') = Len(job) /\ DOMAIN job' = DOMAIN job
          /\ Len(job) \in Nat /\ DOMAIN job = 1 .. Len(job) /\ j \in Sends /\ UNCHANGED former
        BY ReturnSends DEF SendReturns
    <1>2. NoReply \in Replies /\ NoReply.index = 0
        BY DEF NoReply, Replies
    <1>3. reply \in Seq(Replies) /\ DOMAIN reply = DOMAIN job
        BY <1>1 DEF ViewInv
    <1>4. /\ reply' \in Seq(Replies) /\ Len(reply') = Len(job) /\ reply'[j] = NoReply
          /\ \A i \in DOMAIN job : i # j => reply'[i] = reply[i]
        BY <1>1, <1>2, <1>3 DEF SendReturns
    <1>5. \A i \in DOMAIN job' \ Sends' : reply'[i].index = 0
        BY <1>1, <1>2, <1>4 DEF ViewInv
    <1>6. \A i \in Sends' : reply'[i] = reply[i] /\ i \in Sends /\ i # j /\ i \in DOMAIN job
        BY <1>1, <1>4, SendFacts
    <1>7. CASE messages' = messages \/ messages' = Append(messages, Note)
        BY <1>1, <1>4, <1>5, <1>6, <1>7, NotedKept
    <1>8. CASE messages' = Shown(j, Note)
        <2>1. Note \in Messages
            BY DEF Note, Messages
        <2>2. /\ messages' \in Seq(Messages) /\ DOMAIN messages' = DOMAIN messages
              /\ \A i \in Sends : messages'[reply[i].index - 1] = User(i)
              /\ \A i \in Sends \ {j} : messages'[reply[i].index] = messages[reply[i].index]
            BY <1>1, <1>8, <2>1, ShownApart
        <2>3. ASSUME NEW i \in Sends'
              PROVE  /\ reply'[i].index \in DOMAIN messages'
                     /\ messages'[reply'[i].index] = Answer(i, reply'[i].received)
                     /\ reply'[i].index > 1 /\ messages'[reply'[i].index - 1] = User(i)
            <3>1. /\ reply[i].index \in DOMAIN messages /\ reply[i].index > 1
                  /\ messages[reply[i].index] = Answer(i, reply[i].received)
                BY <1>6, PlaceFacts
            <3> QED BY <1>6, <2>2, <3>1
        <2>4. AnswersStandInPlace'
            BY <2>3 DEF AnswersStandInPlace, HasPlace, Answer, User
        <2> QED BY <1>1, <1>4, <1>5, <2>2, <2>4 DEF ViewInv
    <1> QED BY <1>7, <1>8 DEF SendReturns

LEMMA OtherReturnsView ==
    ASSUME Inv, Inv', ViewInv, NEW j \in DOMAIN job, LoadReturns(j) \/ OtherReturns(j)
    PROVE  ViewInv'
    <1>1. /\ Return(j) /\ UNCHANGED <<former, reply>>
          /\ j <= former \/ job[j].kind # "send"
          /\ messages' = messages \/ messages' = Append(messages, Note)
        BY DEF LoadReturns, OtherReturns, viewVars
    <1>2. /\ Sends' = Sends \ {j} /\ Len(job') = Len(job) /\ DOMAIN job' = DOMAIN job
          /\ Len(job) \in Nat /\ j \notin Sends
        BY <1>1, ReturnSends
    <1>3. \A i \in DOMAIN job' \ Sends' : reply'[i].index = 0
        BY <1>1, <1>2 DEF ViewInv
    <1> QED BY <1>1, <1>2, <1>3, NotedKept DEF ViewInv

-----------------------------------------------------------------------------
LEMMA AppStepView ==
    ASSUME Inv, Inv', QueuedOnce, ViewInv, "clear" \notin Risks, [AppNext]_vars
    PROVE  ViewInv'
    <1>1. CASE ClickDownload \/ ClickCancel
        BY <1>1, MessagesView DEF ClickDownload, ClickCancel, Logs
    <1>2. CASE ClickLoad
        <2>1. CASE LoadAgain
            BY <2>1, MessagesView DEF LoadAgain
        <2>2. CASE LoadModel
            BY <2>2, OtherCallView DEF LoadModel
        <2> QED BY <1>2, <2>1, <2>2 DEF ClickLoad
    <1>3. CASE Turn
        BY <1>3, MessagesView DEF Turn, viewVars
    <1>4. CASE ClickClear
        BY <1>4, MessagesView DEF ClickClear, Clear
    <1>5. CASE LeaveApp
        BY <1>5, LeaveView DEF LeaveApp
    <1>6. CASE OtherClient
        BY <1>6, OtherCallView DEF OtherClient, UnloadElsewhere
    <1>7. CASE \E n \in PromptLens : ClickSend(n)
        BY <1>7, SendMessageView DEF ClickSend
    <1>8. ASSUME NEW j \in DOMAIN job, Background(j) PROVE ViewInv'
        BY <1>8, RunView, CollectView, SendReturnsView, OtherReturnsView DEF Background
    <1>9. CASE \E id \in DOMAIN download : DownloadStep(id) /\ UNCHANGED <<libVars, viewVars>>
        BY <1>9, MessagesView DEF viewVars
    <1>10. CASE UNCHANGED vars
        BY <1>10, MessagesView DEF vars, viewVars
    <1> QED BY <1>1, <1>2, <1>3, <1>4, <1>5, <1>6, <1>7, <1>8, <1>9, <1>10 DEF AppNext

LEMMA AppInitView == AppInit => QueuedOnce /\ ViewInv
    <1> SUFFICES ASSUME AppInit PROVE QueuedOnce /\ ViewInv
        OBVIOUS
    <1>1. job = << >> /\ queue = << >> /\ messages = <<Note>> /\ reply = << >> /\ former = 0
        BY DEF AppInit, LibInit, ViewInit
    <1>2. Len(job) = 0 /\ DOMAIN job = {} /\ DOMAIN queue = {}
        BY <1>1
    <1>3. Sends = {}
        BY <1>1, <1>2 DEF Sends
    <1>4. Note \in Messages
        BY DEF Note, Messages
    <1>5. messages \in Seq(Messages) /\ reply \in Seq(Replies) /\ Len(reply) = 0
        BY <1>1, <1>4
    <1> QED BY <1>1, <1>2, <1>3, <1>5 DEF QueuedOnce, ViewInv, AnswersStandInPlace

-----------------------------------------------------------------------------
(* Theorems                                                                *)

\* The app with its library behaves, seen from the library, as LlamaAndroid allows: the
\* buttons, the coroutines and the downloads make no step that LlamaAndroid does not have.
THEOREM AppImplementsLib == AppSpec => LibSpec
    <1>1. AppInit => LibInit
        BY DEF AppInit
    <1> QED BY <1>1, AppStepIsLib, PTL DEF AppSpec, LibSpec

\* Nothing a user does in the app, and in whatever order, frees a context in use.
THEOREM AppNoUseAfterFree == AppSpec => []NoUseAfterFree
    BY AppImplementsLib, LibNoUseAfterFree

\* An answer the app shows is sampled from its own prompt and no other, as long as the
\* channel takes it whole; what llama_decode() failed for is missing from it.
THEOREM AppAnswersItsPrompt == AppSpec => []AnswersItsPrompt
    BY AppImplementsLib, LibAnswersItsPrompt

\* The queue and the messages stay in order, whatever user, view model and run loop do next.
LEMMA AppViewInvariant == "clear" \notin Risks => (AppSpec => [](QueuedOnce /\ ViewInv))
    <1> SUFFICES ASSUME "clear" \notin Risks PROVE AppSpec => [](QueuedOnce /\ ViewInv)
        OBVIOUS
    <1>1. Inv /\ Inv' /\ QueuedOnce /\ ViewInv /\ [AppNext]_vars => (QueuedOnce /\ ViewInv)'
        <2>1. ASSUME Inv, Inv', QueuedOnce, ViewInv, [AppNext]_vars PROVE QueuedOnce' /\ ViewInv'
            BY <2>1, AppStepView, QueuedNext, AppStepIsLib
        <2> QED BY <2>1
    <1> QED BY <1>1, AppInitView, AppImplementsLib, LibInvariant, PTL DEF AppSpec

\* However many answers come in at the same time, and whatever notes, loads and downloads
\* come between, an answer grows behind the message it answers until send() returns, as
\* long as the messages are not cleared while one comes in.
THEOREM AppAnswersStandInPlace == "clear" \notin Risks => (AppSpec => []AnswersStandInPlace)
    <1> SUFFICES ASSUME "clear" \notin Risks PROVE AppSpec => []AnswersStandInPlace
        OBVIOUS
    <1>1. ViewInv => AnswersStandInPlace
        BY DEF ViewInv
    <1> QED BY <1>1, AppViewInvariant, PTL

=============================================================================
