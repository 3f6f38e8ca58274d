----------------------------- MODULE MCKVCache -----------------------------
(* Small instances of KVCache: the batches, ranges and shifts of its calls. *)
EXTENDS KVCache

\* k tokens t of the sequences ids from position p on.
Run(ids, p, k, t) == [i \in 1 .. k |-> [pos |-> p + i - 1, seq_id |-> ids, tok |-> t]]

\* A shared prompt that goes on differently in the two sequences, too long for one
\* ubatch; and a single token of both.  Tokens differ, so that a row is not taken for
\* another.
SplitBatches == {Run({0, 1}, 0, 1, "a") \o Run({0}, 1, 1, "a") \o Run({1}, 1, 1, "b"),
                 Run({0, 1}, 0, 1, "b")}

\* Single tokens, to be removed in any pattern.
HoleBatches == {Run({0}, 0, 1, "a"), Run({1}, 0, 1, "b")}

\* Everything, and its two parts: the positions before 1, and from 1 on.
All     == {<<-1, -1>>}
Parts   == {<<-1, 1>>, <<1, -1>>}

MinusOne  == {-1}
Nothing   == {}
Halving   == {2}
Never     == -1
=============================================================================
