--------------------------- MODULE MCServerQueue ---------------------------
(* Small instances of ServerQueue: which requests there are and what they ask. *)
EXTENDS ServerQueue, TLC

AnyIdSlot == [t \in Tasks |-> AnySlot]

\* A request with two prompts against a streaming one.
StreamTasksOf == "multi" :> <<1, 2>> @@ "stream" :> <<3>>
StreamKind    == "multi" :> "completion" @@ "stream" :> "stream"

\* An embedding, a completion for slot 0, a slot to save, and a look at the metrics.
MixedTasksOf == "embed" :> <<1>> @@ "pinned" :> <<2>> @@ "save" :> <<3>> @@ "metrics" :> <<4>>
MixedKind    == "embed" :> "embedding" @@ "pinned" :> "completion" @@ "save" :> "slot_action"
                    @@ "metrics" :> "metrics"
MixedIdSlot  == <<AnySlot, 0, 0, AnySlot>>

\* One request that saves slot 0.
OneSave       == "save" :> <<1>>
OneSaveKind   == "save" :> "slot_action"
OneSaveIdSlot == <<0>>
=============================================================================
