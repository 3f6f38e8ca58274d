----------------------------- MODULE MCKVState -----------------------------
(* Small instances of KVState. *)
EXTENDS KVState

\* A shared token and one of a single sequence.
SharedPrompts == {<<[pos |-> 0, seq_id |-> {0, 1}, tok |-> "a"]>>,
                  <<[pos |-> 0, seq_id |-> {1}, tok |-> "b"]>>}

All     == {<<-1, -1>>}
Nothing == {}
Never   == -1
Either  == {"short", "foreign"}
=============================================================================
