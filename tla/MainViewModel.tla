---------------------------- MODULE MainViewModel ----------------------------
(***************************************************************************)
(* The view model of the Android app (MainViewModel.kt): the messages on   *)
(* the screen, and the coroutines that collect an answer or load a model.  *)
(* Everything here runs on the main thread: an action is one event of it,  *)
(* from a button or from a coroutine that is resumed there.  The buttons   *)
(* are those of MainActivity.kt.                                           *)
(***************************************************************************)
EXTENDS LlamaAndroid

CONSTANTS
    MaxMessages,   \* bound: messages, when one is logged
    Risks          \* what the user may do besides (see below)

\* "clear": the messages are cleared while an answer comes in.

ASSUME ViewModelAssumption == MaxMessages \in Nat

VARIABLES
    messages, isLoading,
    sendJob,       \* the latest send, or 0
    reply,         \* of each call: llmMessageIndex and the length of responseBuilder
    former         \* calls of view models that are gone

viewVars == <<messages, isLoading, sendJob, reply, former>>

NoReply     == [index |-> 0, received |-> 0]
User(j)     == [role |-> "user", by |-> j, tokens |-> 0]
Answer(j, n) == [role |-> "answer", by |-> j, tokens |-> n]
Note        == [role |-> "note", by |-> 0, tokens |-> 0]

Newest == Len(job) + 1
Sends  == {j \in former + 1 .. Len(job) : job[j].kind = "send" /\ ~Returned(job[j])}

\* set(llmMessageIndex, ...), which throws when there is no such message any more.
HasPlace(j)     == reply[j].index \in DOMAIN messages
Shown(j, msg)   == [messages EXCEPT ![reply[j].index] = msg]

-----------------------------------------------------------------------------
(* Buttons                                                                 *)

\* The message and an empty answer are added, and the coroutine waits for tokens.
SendMessage(n) ==
    /\ ~isLoading
    /\ Call("send", n, {})
    /\ messages' = messages \o <<User(Newest), Answer(Newest, 0)>>
    /\ reply' = Append(reply, [NoReply EXCEPT !.index = Len(messages) + 2])
    /\ sendJob' = Newest
    /\ UNCHANGED <<isLoading, former>>

\* load(): the latest send is cancelled.
LoadModel ==
    /\ ~isLoading
    /\ Call("load", 0, {sendJob} \ {0})
    /\ reply' = Append(reply, NoReply)
    /\ isLoading' = TRUE
    /\ UNCHANGED <<messages, sendJob, former>>

LoadAgain ==
    /\ isLoading /\ Len(messages) < MaxMessages
    /\ messages' = Append(messages, Note)
    /\ UNCHANGED <<libVars, isLoading, sendJob, reply, former>>

Clear ==
    /\ ~isLoading /\ messages # << >>
    /\ "clear" \in Risks \/ Sends = {}
    /\ messages' = << >>
    /\ UNCHANGED <<libVars, isLoading, sendJob, reply, former>>

\* The activity ends: the scope of its view model is cancelled before onCleared(), whose
\* unload() therefore never starts.  The next activity has a view model of its own.
Leave ==
    /\ former < Len(job)
    /\ Cancel(former + 1 .. Len(job))
    /\ former' = Len(job)
    /\ messages' = <<Note>> /\ isLoading' = FALSE /\ sendJob' = 0
    /\ reply' = [j \in DOMAIN reply |-> NoReply]

\* What the app does not get to do, another client of the library may.
UnloadElsewhere ==
    /\ Call("unload", 0, {})
    /\ reply' = Append(reply, NoReply)
    /\ UNCHANGED <<messages, isLoading, sendJob, former>>

-----------------------------------------------------------------------------
(* Coroutines on the main thread                                           *)

\* Mutant of Collect: the last message is the one that grows.
CollectLast(j) ==
    /\ j > former
    /\ Receive(j, messages = << >>)
    /\ reply' = [reply EXCEPT ![j].received = @ + 1]
    /\ messages' = IF messages = << >> THEN messages
                   ELSE [messages EXCEPT ![Len(messages)] = Answer(j, reply'[j].received)]
    /\ UNCHANGED <<isLoading, sendJob, former>>

\* A token comes in; when its message is gone the collector throws.
Collect(j) ==
    /\ j > former
    /\ Receive(j, ~HasPlace(j))
    /\ reply' = [reply EXCEPT ![j].received = @ + 1]
    /\ messages' = IF HasPlace(j) THEN Shown(j, Answer(j, reply'[j].received)) ELSE messages
    /\ UNCHANGED <<isLoading, sendJob, former>>

\* The end of an answer: an exception of send() takes its place, a cancellation and
\* an exception of the collector are told in a new message.
SendReturns(j) ==
    /\ j > former /\ job[j].kind = "send"
    /\ Return(j)
    /\ messages' = IF job[j].cancelled THEN Append(messages, Note)
                   ELSE IF job[j].end = "complete" THEN messages
                   ELSE IF HasPlace(j) THEN Shown(j, Note)
                   ELSE Append(messages, Note)
    /\ reply' = [reply EXCEPT ![j] = NoReply]
    /\ UNCHANGED <<isLoading, sendJob, former>>

LoadReturns(j) ==
    /\ j > former /\ job[j].kind = "load"
    /\ Return(j)
    /\ messages' = Append(messages, Note)
    /\ isLoading' = FALSE
    /\ UNCHANGED <<sendJob, reply, former>>

\* Nobody sees what an earlier view model or another client gets.
OtherReturns(j) ==
    /\ j <= former \/ job[j].kind = "unload"
    /\ Return(j)
    /\ UNCHANGED viewVars

-----------------------------------------------------------------------------
ViewInit ==
    /\ messages = <<Note>> /\ isLoading = FALSE /\ sendJob = 0 /\ reply = << >> /\ former = 0

Background(j) ==
    \/ (RunLoop(j) \/ Resume(j)) /\ UNCHANGED viewVars
    \/ Collect(j) \/ SendReturns(j) \/ LoadReturns(j) \/ OtherReturns(j)

-----------------------------------------------------------------------------
(* Correctness                                                             *)

\* While an answer comes in, it stands right behind the message it answers, as far as it
\* has been received, whatever other answers and notes arrive between (send()).
AnswersStandInPlace ==
    \A j \in Sends :
        /\ HasPlace(j)
        /\ messages[reply[j].index] = Answer(j, reply[j].received)
        /\ reply[j].index > 1 /\ messages[reply[j].index - 1] = User(j)

\* The progress bar goes away: every load and every answer comes to an end.
CallsEnd == \A j \in 1 .. MaxJobs : (j \in DOMAIN job) ~> (j \in DOMAIN job /\ Returned(job[j]))

=============================================================================
