------------------------------ MODULE SeqCache ------------------------------
(***************************************************************************)
(* What the KV cache promises to those who use it: a bag of tokens.  Where *)
(* the cells are, how a slot is searched, when keys are turned and cells   *)
(* moved does not show.  KVCache implements this; ServerSlots uses it.     *)
(***************************************************************************)
EXTENDS TokenBag

CONSTANTS
    Size,      \* tokens the cache has room for
    Ranges,    \* the <<p0, p1>> the operations on sequences are called with
    Seqs,      \* sequence ids
    Shifts,    \* what sequences are shifted by
    Divisors   \* what positions are divided by

VARIABLES
    kv,        \* the tokens in the cache
    todo       \* tokens of a llama_decode() under way that are not stored yet

vars == <<kv, todo>>

-----------------------------------------------------------------------------
Init == kv = EmptyBag /\ todo = << >>

\* What an operation on sequences can make of b.
Changes(b, c) ==
    \/ c = EmptyBag
    \/ \E s \in Seqs : c = KeptOnly(b, s)
    \/ \E r \in Ranges :
           \/ \E s \in Seqs \cup {-1} : c = Removed(b, s, r[1], r[2])
           \/ \E src, dst \in Seqs : c = Copied(b, src, dst, r[1], r[2])
           \/ \E s \in Seqs, d \in Shifts : c = Shifted(b, s, r[1], r[2], d)
           \/ \E s \in Seqs, d \in Divisors : c = Divided(b, s, r[1], r[2], d)

Change ==
    /\ todo = << >> /\ todo' = << >>
    /\ kv' # kv /\ Changes(kv, kv')

Call ==
    /\ todo = << >> /\ todo' # << >>
    /\ UNCHANGED kv

\* Some of the tokens are stored, in order, while there is room.
Store ==
    \E k \in 1 .. Len(todo) :
        /\ todo' = SubSeq(todo, k + 1, Len(todo))
        /\ kv' = Stored(kv, SubSeq(todo, 1, k))
        /\ Total(kv') <= Size

\* A call without room for the next tokens gives up; what it stored stays.
GiveUp ==
    /\ todo # << >> /\ todo' = << >>
    /\ UNCHANGED kv

Next == Call \/ Store \/ GiveUp \/ Change

Spec == Init /\ [][Next]_vars

=============================================================================
