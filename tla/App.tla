-------------------------------- MODULE App --------------------------------
(***************************************************************************)
(* The Android app: its view model with the library (MainViewModel,        *)
(* LlamaAndroid) and the download button of a model (Downloadable), which  *)
(* loads the file it has downloaded and writes to the messages.            *)
(***************************************************************************)
EXTENDS MainViewModel, Downloadable

CONSTANT MaxInputs   \* bound: calls and downloads together

ASSUME AppAssumption == MaxInputs \in Nat

\* Of Risks besides: "restart", a download is started again before the monitor of the
\* one that was cancelled has looked; "turn", the screen is turned during a download.

vars == <<libVars, viewVars, itemVars>>

AppInit == LibInit /\ ViewInit /\ ItemInit

\* There may be more calls and downloads.
MoreInputs == Len(job) + Len(download) < MaxInputs

\* viewModel.log()
Logs ==
    /\ Len(messages) < MaxMessages
    /\ messages' = Append(messages, Note)
    /\ UNCHANGED <<libVars, isLoading, sendJob, reply, former>>

\* The button of a model: it is disabled while one is loading, but a click may be ahead of it.
ClickDownload ==
    /\ MoreInputs /\ ~isLoading
    /\ "restart" \in Risks \/ ~Monitored
    /\ InitiateDownload /\ Logs

ClickLoad ==
    /\ status = Downloaded
    /\ (MoreInputs /\ LoadModel) \/ LoadAgain
    /\ UNCHANGED itemVars

ClickCancel == CancelDownload /\ Logs

ClickSend(n) == MoreInputs /\ SendMessage(n) /\ UNCHANGED itemVars
ClickClear   == Clear /\ UNCHANGED itemVars
LeaveApp     == Leave /\ UNCHANGED itemVars
OtherClient  == MoreInputs /\ UnloadElsewhere /\ UNCHANGED itemVars

Turn ==
    /\ "turn" \in Risks \/ ~\E id \in DOMAIN download : download[id] = "running"
    /\ Recompose
    /\ UNCHANGED <<libVars, viewVars>>

AppNext ==
    \/ ClickDownload \/ ClickLoad \/ ClickCancel \/ Turn
    \/ ClickClear \/ LeaveApp \/ OtherClient \/ \E n \in PromptLens : ClickSend(n)
    \/ \E j \in DOMAIN job : Background(j) /\ UNCHANGED itemVars
    \/ \E id \in DOMAIN download : DownloadStep(id) /\ UNCHANGED <<libVars, viewVars>>

AppSpec == AppInit /\ [][AppNext]_vars

\* The run loop goes on, the main thread collects what there is, delays end.  The main
\* thread has finitely much to do, so no coroutine on it can starve another.
RunLoopGoesOn == \E j \in DOMAIN job : RunLoop(j) /\ UNCHANGED <<viewVars, itemVars>>

MainThreadGoesOn ==
    /\ \E j \in DOMAIN job :
           \/ Collect(j) \/ SendReturns(j) \/ LoadReturns(j) \/ OtherReturns(j)
           \/ job[j].pc = "emit" /\ Resume(j) /\ UNCHANGED viewVars
    /\ UNCHANGED itemVars

DelaysEnd ==
    \E j \in DOMAIN job : job[j].pc = "delay" /\ Resume(j) /\ UNCHANGED <<viewVars, itemVars>>

\* The download manager brings downloads to an end, and monitors look.
DownloadsGoOn ==
    /\ \E id \in DOMAIN download : Completes(id) \/ Breaks(id)
    /\ UNCHANGED <<libVars, viewVars>>

MonitorsGoOn ==
    /\ \E id \in DOMAIN download : LooksOn(id) \/ Verifies(id) \/ GivesUp(id)
    /\ UNCHANGED <<libVars, viewVars>>

FairAppSpec ==
    /\ AppSpec
    /\ WF_vars(RunLoopGoesOn) /\ WF_vars(MainThreadGoesOn) /\ WF_vars(DelaysEnd)
    /\ WF_vars(DownloadsGoOn) /\ WF_vars(MonitorsGoOn)

=============================================================================
