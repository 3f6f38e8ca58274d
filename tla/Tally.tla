------------------------------- MODULE Tally -------------------------------
(***************************************************************************)
(* Bags as tallies: how often a function takes each of its values on a     *)
(* set.  They are the bags of module Bags; that one sums over a bag by     *)
(* recursion where these count the elements of a set.                      *)
(***************************************************************************)
EXTENDS Naturals, FiniteSets

\* The bag of what f gives for the elements of S.
Tally(S, f) == [e \in {f[x] : x \in S} |-> Cardinality({x \in S : f[x] = e})]

\* The copies of its elements that a bag holds, told apart.
Copies(b) == UNION {{e} \X (1 .. b[e]) : e \in DOMAIN b}

Total(b) == Cardinality(Copies(b))

\* The bag of what f makes of the elements of b.
MappedBag(f, b) == Tally(Copies(b), [p \in Copies(b) |-> f[p[1]]])

=============================================================================
