--------------------------- MODULE MCServerSlots ---------------------------
(* Small instances of ServerSlots: what clients ask for. *)
EXTENDS ServerSlots

Ask(prompt, cache, predict, keep, discard) ==
    [prompt |-> prompt, cache_prompt |-> cache, n_predict |-> predict, n_keep |-> keep,
     n_discard |-> discard]

\* A chat; its beginning with the answer 0, which is short enough to come behind a
\* system prompt; a prompt as long as the context, not to be cached, that may be
\* split over batches and so leave padding in cache_tokens; an empty one.
Chats == {Ask(<<1, 2>>, TRUE, -1, NoKeep, 0),
          Ask(<<1, 2, 0>>, TRUE, 1, 0, 0),
          Ask(<<1, 2, 1, 0, 2>>, FALSE, 1, -1, 1),
          Ask(<< >>, FALSE, 1, 0, 0)}

\* No system prompt, a short one, and one that does not fit into the cache.
Systems == {<< >>, <<4>>, [j \in 1 .. 11 |-> 4]}
=============================================================================
