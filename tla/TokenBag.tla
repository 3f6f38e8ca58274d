------------------------------ MODULE TokenBag ------------------------------
(***************************************************************************)
(* The content of a KV cache as its users see it: a bag of tokens, each    *)
(* with a position (pos), the sequences it belongs to (seq_id) and what it *)
(* stands for (tok); and what the operations of llama.h do to it.          *)
(***************************************************************************)
EXTENDS Integers, Sequences, Bags, Tally

From(p0) == IF p0 < 0 THEN 0 ELSE p0

\* The tokens an operation on sequence s applies to; a negative s matches any.
Hits(c, s, p0, p1) ==
    /\ c.pos >= From(p0) /\ (p1 < 0 \/ c.pos < p1)
    /\ s < 0 \/ s \in c.seq_id

\* A token in no sequence, or shifted below position 0, is gone.
Valid(b) == [c \in {x \in DOMAIN b : x.seq_id # {} /\ x.pos >= 0} |-> b[c]]

Mapped(f, b) == Valid(MappedBag(f, b))

Removed(b, s, p0, p1) ==
    Mapped([c \in DOMAIN b |->
               IF ~Hits(c, s, p0, p1) THEN c
               ELSE [c EXCEPT !.seq_id = IF s < 0 THEN {} ELSE @ \ {s}]], b)

Copied(b, src, dst, p0, p1) ==
    Mapped([c \in DOMAIN b |->
               IF Hits(c, src, p0, p1) THEN [c EXCEPT !.seq_id = @ \cup {dst}] ELSE c], b)

KeptOnly(b, s) == Mapped([c \in DOMAIN b |-> [c EXCEPT !.seq_id = @ \cap {s}]], b)

Shifted(b, s, p0, p1, d) ==
    Mapped([c \in DOMAIN b |->
               IF Hits(c, s, p0, p1) THEN [c EXCEPT !.pos = @ + d] ELSE c], b)

Divided(b, s, p0, p1, d) ==
    Mapped([c \in DOMAIN b |->
               IF Hits(c, s, p0, p1) THEN [c EXCEPT !.pos = @ \div d] ELSE c], b)

\* The cache with the tokens of a sequence.
Stored(b, toks) == b (+) Tally(DOMAIN toks, toks)

=============================================================================
