-------------------------- MODULE ServerSlots_proofs --------------------------
(***************************************************************************)
(* Proofs about ServerSlots, for any number of slots, contexts and batches *)
(* of any size, any prompts and any order of tasks: a slot samples from    *)
(* its own context, what it says it has cached is in the cache, and the    *)
(* cache never runs full.  All of them rest on one inductive invariant,    *)
(* IInv, and on Modest, which says what clients, operator and model do not *)
(* do.  The cache as a bag is dealt with first: it holds every token once, *)
(* so that it is a set, and an operation on the bag is one on that set.    *)
(***************************************************************************)
EXTENDS ServerSlots, Tally_proofs, WellFoundedInduction, SequenceTheorems, TLAPS

-----------------------------------------------------------------------------
(* Bags without copies                                                     *)

Itself(S) == [c \in S |-> c]

\* A set as a bag is the tally of its elements.
LEMMA SetAsTally ==
    ASSUME NEW S, NEW f, \A x, y \in S : f[x] = f[y] => x = y
    PROVE  Tally(S, f) = SetToBag({f[x] : x \in S})
    <1> DEFINE D == {f[x] : x \in S}
    <1>1. ASSUME NEW e \in D
          PROVE  Cardinality({x \in S : f[x] = e}) = 1
        <2>1. PICK x \in S : f[x] = e
            OBVIOUS
        <2>2. {y \in S : f[y] = e} = {x}
            BY <2>1
        <2> QED BY <2>2, FS_Singleton
    <1>2. [e \in D |-> Cardinality({x \in S : f[x] = e})] = [e \in D |-> 1]
        BY <1>1
    <1> QED BY <1>2 DEF Tally, SetToBag

LEMMA SetBag ==
    ASSUME NEW S
    PROVE  /\ SetToBag(S) = Tally(S, Itself(S)) /\ DOMAIN SetToBag(S) = S
           /\ \A c \in S : SetToBag(S)[c] = 1
    <1> DEFINE f == Itself(S)
    <1>1. \A x \in S : f[x] = x
        BY DEF Itself
    <1>2. {f[x] : x \in S} = S
        BY <1>1
    <1>3. Tally(S, f) = SetToBag({f[x] : x \in S})
        <2>1. \A x, y \in S : f[x] = f[y] => x = y
            BY <1>1
        <2> HIDE DEF f
        <2> QED BY <2>1, SetAsTally
    <1> QED BY <1>2, <1>3 DEF SetToBag

LEMMA MappedSet ==
    ASSUME NEW S, NEW f, IsFiniteSet(S), \A x, y \in S : f[x] = f[y] => x = y
    PROVE  MappedBag(f, SetToBag(S)) = SetToBag({f[x] : x \in S})
    <1> DEFINE g == [x \in S |-> f[Itself(S)[x]]]
    <1>1. MappedBag(f, SetToBag(S)) = Tally(S, g)
        BY SetBag, MappedTally
    <1>2. \A x \in S : g[x] = f[x]
        BY DEF Itself
    <1>3. Tally(S, g) = Tally(S, f)
        <2> HIDE DEF g
        <2> QED BY <1>2, TallyOfSame
    <1>4. Tally(S, f) = SetToBag({f[x] : x \in S})
        BY SetAsTally
    <1> QED BY <1>1, <1>3, <1>4

LEMMA TotalOfSet ==
    ASSUME NEW S, IsFiniteSet(S)
    PROVE  Total(SetToBag(S)) = Cardinality(S)
    BY SetBag, TotalOfTally

LEMMA CopiesOfSet ==
    ASSUME NEW S
    PROVE  Copies(SetToBag(S)) = {<<c, 1>> : c \in S}
    <1>1. DOMAIN SetToBag(S) = S /\ \A c \in S : SetToBag(S)[c] = 1
        BY SetBag
    <1>2. \A c \in S : {c} \X (1 .. SetToBag(S)[c]) = {<<c, 1>>}
        BY <1>1
    <1>3. Copies(SetToBag(S)) = UNION {{<<c, 1>>} : c \in S}
        BY <1>1, <1>2 DEF Copies
    <1> QED BY <1>3

LEMMA JoinedSets ==
    ASSUME NEW S, NEW T, S \cap T = {}
    PROVE  SetToBag(S) (+) SetToBag(T) = SetToBag(S \cup T)
    BY DEF SetToBag, (+)

-----------------------------------------------------------------------------
(* Caches that hold every token once                                       *)

Sane(S) ==
    /\ IsFiniteSet(S)
    /\ \A c \in S : /\ c = [pos |-> c.pos, seq_id |-> c.seq_id, tok |-> c.tok]
                    /\ c.pos \in Nat /\ c.seq_id # {}

LEMMA ValidSet ==
    ASSUME NEW S
    PROVE  Valid(SetToBag(S)) = SetToBag({c \in S : c.seq_id # {} /\ c.pos >= 0})
    BY DEF Valid, SetToBag

HitsOf(S, q, lo, hi) == {c \in S : q \in c.seq_id /\ c.pos >= lo /\ (hi < 0 \/ c.pos < hi)}

LEMMA HitIn ==
    ASSUME NEW S, NEW q \in Nat, NEW lo \in Nat \cup {-1}, NEW hi \in Int, Sane(S), NEW c \in S
    PROVE  Hits(c, q, lo, hi) <=> c \in HitsOf(S, q, lo, hi)
    BY DEF Hits, From, HitsOf, Sane

\* What is removed was of this sequence alone.
LEMMA RemovedSet ==
    ASSUME NEW S, Sane(S), NEW q \in Nat, NEW lo \in Nat \cup {-1}, NEW hi \in Int,
           \A c \in HitsOf(S, q, lo, hi) : c.seq_id = {q}
    PROVE  Removed(SetToBag(S), q, lo, hi) = SetToBag(S \ HitsOf(S, q, lo, hi))
    <1> DEFINE H == HitsOf(S, q, lo, hi)
               f == [c \in S |-> IF ~Hits(c, q, lo, hi) THEN c
                                 ELSE [c EXCEPT !.seq_id = IF q < 0 THEN {} ELSE @ \ {q}]]
               I == {f[c] : c \in S}
    <1>1. ASSUME NEW c \in H
          PROVE  f[c].pos = c.pos /\ f[c].tok = c.tok /\ f[c].seq_id = {} /\ c.seq_id = {q}
        <2>1. Hits(c, q, lo, hi) /\ c \in S
            BY HitIn DEF HitsOf
        <2>2. c = [pos |-> c.pos, seq_id |-> c.seq_id, tok |-> c.tok]
            BY <2>1 DEF Sane
        <2>3. c.seq_id = {q}
            OBVIOUS
        <2>4. f[c] = [c EXCEPT !.seq_id = @ \ {q}]
            BY <2>1
        <2>5. [c EXCEPT !.seq_id = @ \ {q}] = [pos |-> c.pos, seq_id |-> c.seq_id \ {q}, tok |-> c.tok]
            BY <2>2
        <2>6. c.seq_id \ {q} = {}
            BY <2>3
        <2> QED BY <2>4, <2>5, <2>6
    <1>2. ASSUME NEW c \in S \ H PROVE f[c] = c /\ c.seq_id # {} /\ c.pos >= 0
        <2>1. ~Hits(c, q, lo, hi)
            BY HitIn
        <2> QED BY <2>1 DEF Sane
    <1>0. H \subseteq S
        BY DEF HitsOf
    <1> HIDE DEF f, H
    <1>6. ASSUME NEW c \in S, NEW d \in S, f[c] = f[d] PROVE c = d
        <2>1. /\ c = [pos |-> c.pos, seq_id |-> c.seq_id, tok |-> c.tok]
              /\ d = [pos |-> d.pos, seq_id |-> d.seq_id, tok |-> d.tok]
            BY DEF Sane
        <2>4. CASE c \in H /\ d \in H
            <3>1. f[c].pos = c.pos /\ f[c].tok = c.tok /\ c.seq_id = {q}
                BY <1>1, <2>4
            <3>2. f[d].pos = d.pos /\ f[d].tok = d.tok /\ d.seq_id = {q}
                BY <1>1, <2>4
            <3>3. c.pos = d.pos /\ c.tok = d.tok /\ c.seq_id = d.seq_id
                BY <1>6, <3>1, <3>2
            <3> QED BY <2>1, <3>3
        <2>5. CASE c \in H /\ d \notin H
            BY <1>1, <1>2, <1>6, <2>5
        <2>6. CASE c \notin H /\ d \in H
            BY <1>1, <1>2, <1>6, <2>6
        <2>7. CASE c \notin H /\ d \notin H
            BY <1>2, <1>6, <2>7
        <2> QED BY <2>4, <2>5, <2>6, <2>7
    <1>3. MappedBag(f, SetToBag(S)) = SetToBag(I)
        BY <1>6, MappedSet DEF Sane
    <1>4. {c \in I : c.seq_id # {} /\ c.pos >= 0} = S \ H
        BY <1>0, <1>1, <1>2
    <1>5. Removed(SetToBag(S), q, lo, hi) = Valid(MappedBag(f, SetToBag(S)))
        BY SetBag DEF Removed, Mapped, f
    <1>7. Valid(SetToBag(I)) = SetToBag(S \ H)
        BY <1>4, ValidSet
    <1> QED BY <1>3, <1>5, <1>7 DEF H

Moved(c, d) == [pos |-> c.pos + d, seq_id |-> c.seq_id, tok |-> c.tok]

\* What is shifted comes to positions that nothing else of its sequences has.
LEMMA ShiftedSet ==
    ASSUME NEW S, Sane(S), NEW q \in Nat, NEW lo \in Nat, NEW hi \in Int, NEW d \in Int,
           \A c \in HitsOf(S, q, lo, hi) :
               /\ c.pos + d \in Nat
               /\ \A e \in S \ HitsOf(S, q, lo, hi) : e.seq_id = c.seq_id => e.pos # c.pos + d
    PROVE  Shifted(SetToBag(S), q, lo, hi, d)
               = SetToBag((S \ HitsOf(S, q, lo, hi)) \cup {Moved(c, d) : c \in HitsOf(S, q, lo, hi)})
    <1> DEFINE H == HitsOf(S, q, lo, hi)
               f == [c \in S |-> IF Hits(c, q, lo, hi) THEN [c EXCEPT !.pos = @ + d] ELSE c]
               I == {f[c] : c \in S}
    <1>1. ASSUME NEW c \in H PROVE f[c] = Moved(c, d) /\ c.pos + d \in Nat
        <2>1. Hits(c, q, lo, hi) /\ c \in S
            BY HitIn DEF HitsOf
        <2>2. c = [pos |-> c.pos, seq_id |-> c.seq_id, tok |-> c.tok]
            BY <2>1 DEF Sane
        <2>3. f[c] = [c EXCEPT !.pos = @ + d]
            BY <2>1
        <2>4. [c EXCEPT !.pos = @ + d] = [pos |-> c.pos + d, seq_id |-> c.seq_id, tok |-> c.tok]
            BY <2>2
        <2> QED BY <2>3, <2>4 DEF Moved
    <1>2. ASSUME NEW c \in S \ H PROVE f[c] = c
        BY HitIn
    <1>0. H \subseteq S
        BY DEF HitsOf
    <1>3. \A c \in S : /\ c = [pos |-> c.pos, seq_id |-> c.seq_id, tok |-> c.tok]
                       /\ c.pos \in Nat /\ c.seq_id # {}
        BY DEF Sane
    <1>4. \A c : Moved(c, d).pos = c.pos + d /\ Moved(c, d).seq_id = c.seq_id /\ Moved(c, d).tok = c.tok
        BY DEF Moved
    <1>5. \A c \in H, e \in S \ H : e.seq_id = c.seq_id => e.pos # c.pos + d
        OBVIOUS
    <1> HIDE DEF f, H
    <1>6. ASSUME NEW c \in S, NEW e \in S, f[c] = f[e] PROVE c = e
        <2>1. /\ c = [pos |-> c.pos, seq_id |-> c.seq_id, tok |-> c.tok] /\ c.pos \in Nat
              /\ e = [pos |-> e.pos, seq_id |-> e.seq_id, tok |-> e.tok] /\ e.pos \in Nat
            BY <1>3
        <2>2. CASE c \in H /\ e \in H
            <3>1. Moved(c, d) = Moved(e, d)
                BY <1>1, <1>6, <2>2
            <3>2. c.pos + d = e.pos + d /\ c.seq_id = e.seq_id /\ c.tok = e.tok
                BY <1>4, <3>1
            <3> QED BY <2>1, <3>2
        <2>3. CASE c \in H /\ e \notin H
            <3>1. Moved(c, d) = e
                BY <1>1, <1>2, <1>6, <2>3
            <3> QED BY <1>4, <1>5, <2>3, <3>1
        <2>4. CASE c \notin H /\ e \in H
            <3>1. Moved(e, d) = c
                BY <1>1, <1>2, <1>6, <2>4
            <3> QED BY <1>4, <1>5, <2>4, <3>1
        <2>5. CASE c \notin H /\ e \notin H
            BY <1>2, <1>6, <2>5
        <2> QED BY <2>2, <2>3, <2>4, <2>5
    <1>7. MappedBag(f, SetToBag(S)) = SetToBag(I)
        BY <1>6, MappedSet DEF Sane
    <1>8. I = (S \ H) \cup {Moved(c, d) : c \in H}
        BY <1>0, <1>1, <1>2
    <1>9. ASSUME NEW c \in I PROVE c.seq_id # {} /\ c.pos >= 0
        <2>1. CASE c \in S
            BY <1>3, <2>1
        <2>2. CASE \E e \in H : c = Moved(e, d)
            BY <1>0, <1>1, <1>3, <1>4, <2>2
        <2> QED BY <1>8, <2>1, <2>2
    <1>10. {c \in I : c.seq_id # {} /\ c.pos >= 0} = I
        BY <1>9
    <1>11. Shifted(SetToBag(S), q, lo, hi, d) = Valid(MappedBag(f, SetToBag(S)))
        BY SetBag DEF Shifted, Mapped, f
    <1>12. Valid(SetToBag(I)) = SetToBag(I)
        BY <1>10, ValidSet
    <1> QED BY <1>7, <1>8, <1>11, <1>12 DEF H

LEMMA StoredSet ==
    ASSUME NEW S, NEW toks, \A i, j \in DOMAIN toks : toks[i] = toks[j] => i = j,
           \A j \in DOMAIN toks : toks[j] \notin S
    PROVE  Stored(SetToBag(S), toks) = SetToBag(S \cup {toks[j] : j \in DOMAIN toks})
    <1>1. Tally(DOMAIN toks, toks) = SetToBag({toks[j] : j \in DOMAIN toks})
        BY SetAsTally
    <1>2. S \cap {toks[j] : j \in DOMAIN toks} = {}
        OBVIOUS
    <1> QED BY <1>1, <1>2, JoinedSets DEF Stored

\* The cells of a sequence.
CellsIn(S, q) == {c \in S : q \in c.seq_id}
AsSaved(c)    == [pos |-> c.pos, tok |-> c.tok]

LEMMA CellsOfSet ==
    ASSUME NEW S, IsFiniteSet(S), NEW q,
           \A c, d \in CellsIn(S, q) : c.pos = d.pos => c = d
    PROVE  CellsOf(SetToBag(S), q) = SetToBag({AsSaved(c) : c \in CellsIn(S, q)})
    <1> DEFINE of == CellsIn(S, q)
               f  == [c \in of |-> AsSaved(c)]
    <1>1. DOMAIN SetToBag(S) = S /\ \A c \in of : SetToBag(S)[c] = 1
        BY SetBag DEF CellsIn
    <1>2. [c \in of |-> SetToBag(S)[c]] = SetToBag(of)
        BY <1>1 DEF SetToBag
    <1>3. CellsOf(SetToBag(S), q) = MappedBag(f, [c \in of |-> SetToBag(S)[c]])
        BY <1>1 DEF CellsOf, CellsIn, AsSaved
    <1>4. IsFiniteSet(of)
        BY FS_Subset DEF CellsIn
    <1>5. \A c, d \in of : f[c] = f[d] => c = d
        <2>1. SUFFICES ASSUME NEW c \in of, NEW d \in of, f[c] = f[d] PROVE c = d
            OBVIOUS
        <2>2. AsSaved(c) = AsSaved(d)
            BY <2>1
        <2>3. AsSaved(c).pos = AsSaved(d).pos
            BY <2>2
        <2>4. c.pos = d.pos
            BY <2>3 DEF AsSaved
        <2> QED BY <2>4
    <1>6. \A c \in of : f[c] = AsSaved(c)
        OBVIOUS
    <1> HIDE DEF f, of
    <1>7. MappedBag(f, SetToBag(of)) = SetToBag({f[c] : c \in of})
        BY <1>4, <1>5, MappedSet
    <1>8. {f[c] : c \in of} = {AsSaved(c) : c \in of}
        BY <1>6
    <1> QED BY <1>2, <1>3, <1>7, <1>8 DEF of

InSeq(c, q) == [pos |-> c.pos, seq_id |-> {q}, tok |-> c.tok]

LEMMA WithCellsSet ==
    ASSUME NEW S, NEW F, IsFiniteSet(F), NEW q,
           \A c, d \in F : c.pos = d.pos => c = d,
           \A c \in F : InSeq(c, q) \notin S
    PROVE  WithCells(SetToBag(S), q, SetToBag(F)) = SetToBag(S \cup {InSeq(c, q) : c \in F})
    <1> DEFINE f == [c \in F |-> InSeq(c, q)]
    <1>1. DOMAIN SetToBag(F) = F
        BY SetBag
    <1>2. WithCells(SetToBag(S), q, SetToBag(F)) = SetToBag(S) (+) MappedBag(f, SetToBag(F))
        BY <1>1 DEF WithCells, InSeq
    <1>5. \A c, d \in F : f[c] = f[d] => c = d
        <2>1. SUFFICES ASSUME NEW c \in F, NEW d \in F, f[c] = f[d] PROVE c = d
            OBVIOUS
        <2>2. InSeq(c, q) = InSeq(d, q)
            BY <2>1
        <2>3. InSeq(c, q).pos = InSeq(d, q).pos
            BY <2>2
        <2>4. c.pos = d.pos
            BY <2>3 DEF InSeq
        <2> QED BY <2>4
    <1>6. \A c \in F : f[c] = InSeq(c, q)
        OBVIOUS
    <1> HIDE DEF f
    <1>7. MappedBag(f, SetToBag(F)) = SetToBag({f[c] : c \in F})
        BY <1>5, MappedSet
    <1>8. {f[c] : c \in F} = {InSeq(c, q) : c \in F}
        BY <1>6
    <1>9. S \cap {InSeq(c, q) : c \in F} = {}
        OBVIOUS
    <1> QED BY <1>2, <1>7, <1>8, <1>9, JoinedSets

-----------------------------------------------------------------------------
(* Sequences of tokens                                                     *)

\* A nonempty set of natural numbers has a least element.
LEMMA LeastOf ==
    ASSUME NEW S \in SUBSET Nat, S # {}
    PROVE  \E x \in S : \A y \in S : x <= y
    <1> DEFINE R == OpToRel(<, Nat)
    <1>1. IsWellFoundedOn(R, Nat)
        BY NatLessThanWellFounded
    <1> HIDE DEF R
    <1>2. PICK x \in S : \A y \in S : <<y, x>> \notin R
        BY <1>1, WFMin, Zenon
    <1>3. \A y \in S : ~(y < x)
        BY <1>2 DEF R, OpToRel
    <1> QED BY <1>3

LEMMA CommonPartIs ==
    ASSUME NEW a, NEW b, Len(a) \in Nat, Len(b) \in Nat
    PROVE  /\ CommonPart(a, b) \in 0 .. Least(Len(a), Len(b))
           /\ \A j \in 1 .. CommonPart(a, b) : a[j] = b[j]
    <1> DEFINE m == Least(Len(a), Len(b))
               D == {j \in 1 .. m : a[j] # b[j]}
               P(k) == /\ \A j \in 1 .. k : a[j] = b[j]
                       /\ k < m => a[k + 1] # b[k + 1]
    <1>1. m \in Nat
        BY DEF Least
    <1>2. \E k \in 0 .. m : P(k)
        <2>1. CASE D = {}
            BY <1>1, <2>1
        <2>2. CASE D # {}
            <3>1. D \in SUBSET Nat
                BY <1>1
            <3>2. PICK x \in D : \A y \in D : x <= y
                BY <2>2, <3>1, LeastOf
            <3>3. \A j \in 1 .. x - 1 : a[j] = b[j]
                BY <1>1, <3>2
            <3>4. x - 1 \in 0 .. m /\ P(x - 1)
                BY <1>1, <3>2, <3>3
            <3> QED BY <3>4
        <2> QED BY <2>1, <2>2
    <1>3. CommonPart(a, b) = CHOOSE k \in 0 .. m : P(k)
        BY DEF CommonPart
    <1>4. CommonPart(a, b) \in 0 .. m /\ P(CommonPart(a, b))
        BY <1>2, <1>3
    <1> QED BY <1>4

LEMMA WithoutIs ==
    ASSUME NEW T, NEW q \in Seq(T), NEW from \in Nat, NEW n \in Nat, from + n <= Len(q)
    PROVE  /\ Without(q, from, n) \in Seq(T) /\ Len(Without(q, from, n)) = Len(q) - n
           /\ \A j \in 1 .. from : Without(q, from, n)[j] = q[j]
           /\ \A j \in from + 1 .. Len(q) - n : Without(q, from, n)[j] = q[j + n]
    <1> DEFINE m == Len(q) - n
               w == [i \in 1 .. m |-> IF i <= from THEN q[i] ELSE q[i + n]]
    <1>1. Len(q) \in Nat /\ m \in Nat /\ from <= m
        OBVIOUS
    <1>2. ASSUME NEW i \in 1 .. m PROVE (IF i <= from THEN q[i] ELSE q[i + n]) \in T
        <2>1. i \in 1 .. Len(q) /\ i + n \in 1 .. Len(q)
            BY <1>1
        <2> QED BY <2>1
    <1>3. Without(q, from, n) = w
        BY DEF Without
    <1>4. w \in [1 .. m -> T]
        BY <1>2
    <1> HIDE DEF w
    <1>5. w \in Seq(T) /\ Len(w) = m
        <2> HIDE DEF m
        <2>1. w \in Seq(T)
            BY <1>1, <1>4
        <2>2. DOMAIN w = 1 .. m
            BY <1>4
        <2> QED BY <1>1, <2>1, <2>2
    <1>6. \A j \in 1 .. from : w[j] = q[j]
        BY <1>1 DEF w
    <1>7. \A j \in from + 1 .. m : w[j] = q[j + n]
        BY <1>1 DEF w
    <1> QED BY <1>3, <1>5, <1>6, <1>7

\* What blocks of a size take of a length.
LEMMA WholeBlocks ==
    ASSUME NEW m \in Nat, NEW B \in Nat \ {0}
    PROVE  /\ (m \div B) * B \in Nat /\ (m \div B) * B <= m /\ m < (m \div B) * B + B
    <1>1. m \div B \in Nat
        OBVIOUS
    <1>2. m >= (m \div B) * B
        OBVIOUS
    <1>3. m < B * (m \div B) + B
        OBVIOUS
    <1>4. B * (m \div B) = (m \div B) * B /\ (m \div B) * B \in Nat
        BY <1>1
    <1> QED BY <1>2, <1>3, <1>4

LEMMA TruncatedIs ==
    ASSUME NEW p \in Seq(Nat), p # << >>, NEW k \in 0 .. NCtx - 4
    PROVE  /\ Truncated(p, k) \in Seq(Nat) /\ Truncated(p, k) # << >>
           /\ Len(Truncated(p, k)) < NCtx
           /\ Len(p) < NCtx => Truncated(p, k) = p
    <1>0. NCtx \in Nat /\ NCtx >= 5
        BY SlotsAssumption
    <1>1. CASE Len(p) < NCtx
        BY <1>1 DEF Truncated
    <1>2. CASE Len(p) >= NCtx
        <2> DEFINE B == (NCtx - k) \div 2
                   m == Len(p) - k - B
                   e == (m \div B) * B
        <2>1. B \in Nat \ {0} /\ 2 * B <= NCtx - k
            BY <1>0
        <2>2. m \in Nat /\ m >= B
            BY <1>0, <1>2, <2>1
        <2> HIDE DEF B
        <2>3. e \in Nat /\ e <= m /\ m < e + B
            BY <2>1, <2>2, WholeBlocks
        <2>4. Truncated(p, k) = Without(p, k, e)
            BY <1>0, <1>2 DEF Truncated, B
        <2> HIDE DEF e
        <2>5. k + e <= Len(p)
            BY <1>0, <2>1, <2>3
        <2>6. Without(p, k, e) \in Seq(Nat) /\ Len(Without(p, k, e)) = Len(p) - e
            BY <1>0, <2>3, <2>5, WithoutIs
        <2>7. Len(p) - e < NCtx /\ Len(p) - e > 0
            BY <1>0, <2>1, <2>3
        <2>8. Without(p, k, e) # << >>
            BY <2>6, <2>7
        <2> QED BY <1>0, <1>2, <2>4, <2>6, <2>7, <2>8
    <1> QED BY <1>0, <1>1, <1>2

-----------------------------------------------------------------------------
(* The inductive invariant                                                 *)

\* The clients, operator and model of the runs: none of the Risks, a batch of one ubatch,
\* and no more to discard at a shift than the context shift can take, with room for a token
\* behind a system prompt, unless it does not even fit into the cache.
Modest ==
    /\ Risks = {} /\ NBatch <= NUbatch
    /\ \A r \in Prompts : r.n_discard + AddBos <= 3
    /\ \A q \in SystemPrompts : Len(q) <= NCtx - 2 \/ Len(q) > Size

Tok  == Nat
L    == Len(system_tokens)
Held == DOMAIN kv

Fresh(x) == x.state = "prompt" /\ x.prompt_tokens = << >>
Begun(x) == x.state # "idle" /\ ~Fresh(x)

\* A cell of slot s alone, and one of the system prompt.
Cell(s, p, t)       == [pos |-> p, seq_id |-> {s + 1}, tok |-> t]
SystemCell(toks, j) == [pos |-> j - 1, seq_id |-> Seq0 .. NSlots, tok |-> toks[j]]

\* How much of the batch is in the cache, and what is still to come.
Decoded == view + IF pc = "sample" THEN Rest ELSE 0
Coming  == Decoded + 1 .. Len(batch)
ToCome  == {batch[b] : b \in Coming}

Token(s, p, t) == [slot |-> s, tok |-> t, pos |-> p]

Entry == [slot : Slots, tok : Tok, pos : Nat]

SlotRecord ==
    [state : {"idle", "prompt", "done_prompt", "generating"}, prompt : Seq(Tok),
     cache_prompt : BOOLEAN, n_predict : Int, n_keep : Int,
     n_discard : {n \in Nat : n + AddBos <= 3},
     prompt_tokens : Seq(Tok), n_past : 0 .. NCtx - 1, n_decoded : 0 .. NCtx - 1,
     i_batch : Nat \cup {-1}, sampled : Nat, cache_tokens : Seq(Nat)]

Typed ==
    /\ slot \in [Slots -> SlotRecord] /\ context \in [Slots -> Seq(Tok)]
    /\ batch \in Seq(Entry) /\ system_tokens \in Seq(Tok) /\ system_prompt \in SystemPrompts
    /\ system_need_update \in BOOLEAN /\ clean_kv_cache \in BOOLEAN

\* The batch is made before it is decoded, sampled tokens slot by slot.
PhaseInv ==
    /\ pc \in {"tasks", "check", "shift", "sampled", "prompts", "view", "decode", "sample"}
    /\ visit \in Slots /\ n_batch \in 1 .. NBatch /\ view \in Nat
    /\ Len(batch) <= Most(NBatch, NSlots)
    /\ pc \in {"tasks", "check", "shift"} => batch = << >>
    /\ pc \in {"tasks", "check", "shift", "sampled", "prompts"} => view = 0 /\ n_batch = NBatch
    /\ pc \in {"decode", "sample"} => view < Len(batch)
    /\ pc = "sampled" => Len(batch) <= visit
    /\ pc \notin {"tasks", "check"} => ~system_need_update
    /\ pc \notin {"tasks", "check"} => ~clean_kv_cache

\* While the system prompt is to be decoded no slot has anything in the cache, and none is
\* busy when that has failed; while the cache is still to be cleaned nothing is in it.
SystemInv ==
    /\ ~system_need_update => system_tokens = system_prompt /\ L <= NCtx - 2
    /\ system_need_update =>
           \A s \in Slots : slot[s].cache_tokens = << >> /\ ~Begun(slot[s])
    /\ system_need_update /\ pc = "check" => ~clean_kv_cache /\ \A s \in Slots : ~Busy(s)
    /\ clean_kv_cache =>
           Held = {} /\ DOMAIN file.cells = {} /\ \A s \in Slots : slot[s].cache_tokens = << >>
    /\ clean_kv_cache /\ ~system_need_update => system_prompt = << >> /\ \A s \in Slots : ~Busy(s)

\* The cache holds every token once: those of the system prompt for all sequences, and
\* behind them those of each slot.
KvInv ==
    /\ kv = SetToBag(Held) /\ IsFiniteSet(Held)
    /\ \A c \in Held : /\ c = [pos |-> c.pos, seq_id |-> c.seq_id, tok |-> c.tok]
                       /\ c.pos \in 0 .. NCtx - 2 /\ c.tok \in Tok
                       /\ c.pos < L => c = SystemCell(system_tokens, c.pos + 1)
                       /\ c.pos >= L => \E s \in Slots : c.seq_id = {s + 1}
    /\ \A j \in 1 .. L : SystemCell(system_tokens, j) \in Held
    /\ \A c, d \in Held : c.seq_id = d.seq_id /\ c.pos = d.pos => c = d

\* A system prompt that could not be decoded has left some of its tokens.
LeftInv ==
    \A c \in Held : /\ c.seq_id \subseteq Seq0 .. NSlots
                    /\ c.pos \in 0 .. IF c.seq_id = {Seq0} THEN Size ELSE NCtx

CacheInv == KvInv \/ (system_need_update /\ LeftInv)

\* What resize() has appended, and nothing else.
Padding(q) == \A j \in 1 .. Len(q) : q[j] = Pad

FileInv ==
    /\ file.cells = SetToBag(DOMAIN file.cells) /\ IsFiniteSet(DOMAIN file.cells)
    /\ \A c \in DOMAIN file.cells : c.pos \in 0 .. NCtx - 2 /\ c.tok \in Tok
    /\ \A c, d \in DOMAIN file.cells : c.pos = d.pos => c = d
    /\ file.tokens \in Seq(Nat)
    /\ \/ Padding(file.tokens)
       \/ \A j \in 1 .. Len(file.tokens) :
              [pos |-> j - 1, tok |-> file.tokens[j]] \in DOMAIN file.cells

\* What a slot remembers of its last request is in the cache, or is padding.
CachedInv(s) ==
    \/ Padding(slot[s].cache_tokens)
    \/ \A j \in 1 .. Len(slot[s].cache_tokens) :
           Cell(s, L + j - 1, slot[s].cache_tokens[j]) \in Held

\* How far a slot has come with its context.
ProgressInv(s) ==
    LET x == slot[s]
    IN  /\ x.n_keep \in 0 .. NCtx - 4
        /\ x.state = "prompt" =>
               context[s] = x.prompt_tokens /\ x.n_past < Len(context[s]) /\ x.n_decoded = 0
        /\ x.state # "prompt" => x.n_past = Len(context[s])
        /\ L + Len(context[s]) <= NCtx - 1
        /\ x.state = "done_prompt" => x.n_decoded = 0
        /\ x.state = "generating" => x.sampled \in Tok

\* What a slot will remember of its context.
ReuseInv(s) ==
    IF slot[s].cache_prompt
    THEN /\ Len(slot[s].cache_tokens) = slot[s].n_past
         /\ \A j \in 1 .. slot[s].n_past : slot[s].cache_tokens[j] = context[s][j]
    ELSE Padding(slot[s].cache_tokens)

\* The context as far as the slot has come is in the cache or in the batch, nothing behind it.
HeldInv(s) ==
    /\ \A c \in Held : c.seq_id = {s + 1} => c.pos < L + slot[s].n_past
    /\ \A j \in 1 .. slot[s].n_past :
           Cell(s, L + j - 1, context[s][j]) \in Held \/ Token(s, L + j - 1, context[s][j]) \in ToCome

\* What the tokens still to be generated need.
Unsaid(x) == x.n_predict - x.n_decoded + IF x.state = "generating" /\ x.i_batch = -1 THEN 1 ELSE 0

BudgetInv(s) ==
    slot[s].state # "idle" /\ system_prompt # << >> =>
        /\ slot[s].n_decoded < slot[s].n_predict
        /\ Len(system_prompt) + Unsaid(slot[s])
           + (IF Fresh(slot[s]) THEN Len(slot[s].prompt) ELSE Len(context[s])) <= NCtx

RestInv(s) ==
    /\ slot[s].state = "idle" => slot[s] = IdleWith(slot[s].cache_tokens, slot[s].n_keep)
    /\ Fresh(slot[s]) => /\ slot[s].n_past = 0 /\ slot[s].n_decoded = 0 /\ slot[s].i_batch = -1
                         /\ ~BeginsWithPad(slot[s])

SlotInv(s) ==
    /\ RestInv(s) /\ BudgetInv(s)
    /\ ~Begun(slot[s]) => CachedInv(s)
    /\ Begun(slot[s]) => ProgressInv(s) /\ ReuseInv(s) /\ HeldInv(s)

\* A slot whose logits are asked for is to be sampled in a view that comes, and the token
\* they are asked for is its last in the batch.
IndexInv(s) ==
    LET i == slot[s].i_batch
    IN  /\ i >= 0 => /\ slot[s].state \in {"done_prompt", "generating"}
                     /\ i < Len(batch) /\ i >= view
                     /\ pc = "sample" /\ s < visit => i >= view + Rest
                     /\ \A b \in 1 .. Len(batch) : batch[b].slot = s => b <= i + 1
        /\ slot[s].state = "done_prompt" => i >= 0
        /\ pc = "sampled" /\ s >= visit => i = -1

ShiftInv ==
    /\ pc = "shift" => \A s \in Slots : s < visit => ~Full(s)
    /\ pc = "sampled" => \A s \in Slots : s >= visit => ~Full(s)

\* The batch has every token once, none that is in the cache, and none behind what a slot has
\* come to.
BatchInv ==
    /\ \A b \in 1 .. Len(batch) : batch[b].pos \in L .. NCtx - 2
    /\ \A b, c \in 1 .. Len(batch) :
           batch[b].slot = batch[c].slot /\ batch[b].pos = batch[c].pos => b = c
    /\ \A b \in Coming : \A c \in Held : c.seq_id = {batch[b].slot + 1} => c.pos # batch[b].pos
    /\ \A b \in 1 .. Len(batch) : Begun(slot[batch[b].slot]) =>
           batch[b].pos < L + slot[batch[b].slot].n_past
    /\ pc = "sampled" => \A b \in 1 .. Len(batch) : batch[b].slot < visit
    /\ pc \in {"sampled", "prompts"} =>
           \A b \in 1 .. Len(batch) : slot[batch[b].slot].state = "prompt" =>
               pc = "prompts" /\ batch[b].slot < visit

SlotsInv   == \A s \in Slots : SlotInv(s)
IndexesInv == \A s \in Slots : IndexInv(s)

IInv ==
    /\ Typed /\ PhaseInv /\ SystemInv /\ CacheInv /\ FileInv /\ SlotsInv /\ IndexesInv /\ ShiftInv
    /\ BatchInv

-----------------------------------------------------------------------------
(* What the invariant says of the cache                                    *)

LEMMA Basics ==
    /\ NSlots \in Nat \ {0} /\ NCtx \in Nat /\ NCtx >= 5 /\ Slots = 0 .. NSlots - 1
    /\ NBatch \in Nat \ {0} /\ NUbatch \in Nat \ {0} /\ AddBos \in {0, 1} /\ CtxShift \in BOOLEAN
    /\ Size \in Nat /\ NCtx <= Size
    /\ SystemPrompts \subseteq Seq(Tok) /\ Samples \subseteq Tok
    <1>1. /\ NSlots \in Nat \ {0} /\ NCtx \in Nat /\ NCtx >= 5 /\ Slots = 0 .. NSlots - 1
          /\ NBatch \in Nat \ {0} /\ NUbatch \in Nat \ {0} /\ AddBos \in {0, 1}
          /\ CtxShift \in BOOLEAN /\ SystemPrompts \subseteq Seq(Tok) /\ Samples \subseteq Tok
        BY SlotsAssumption DEF Slots, Tok
    <1>2. \A m \in Nat, n \in Nat \ {0} : n * m \in Nat /\ m <= n * m
        OBVIOUS
    <1> QED BY <1>1, <1>2 DEF Size

LEMMA SlotFields ==
    ASSUME Typed, NEW s \in Slots
    PROVE  /\ slot[s] \in SlotRecord
           /\ slot[s].state \in {"idle", "prompt", "done_prompt", "generating"}
           /\ slot[s].prompt \in Seq(Tok) /\ slot[s].cache_prompt \in BOOLEAN
           /\ slot[s].n_predict \in Int /\ slot[s].n_keep \in Int
           /\ slot[s].n_discard \in Nat /\ slot[s].n_discard + AddBos <= 3
           /\ slot[s].prompt_tokens \in Seq(Tok) /\ slot[s].n_past \in 0 .. NCtx - 1
           /\ slot[s].n_decoded \in 0 .. NCtx - 1 /\ slot[s].i_batch \in Nat \cup {-1}
           /\ slot[s].sampled \in Nat /\ slot[s].cache_tokens \in Seq(Nat)
           /\ context[s] \in Seq(Tok) /\ Len(context[s]) \in Nat
           /\ Len(slot[s].cache_tokens) \in Nat
    <1>1. slot[s] \in SlotRecord /\ context[s] \in Seq(Tok)
        BY DEF Typed
    <1>2. slot[s].cache_tokens \in Seq(Nat)
        BY <1>1 DEF SlotRecord
    <1>3. /\ slot[s].state \in {"idle", "prompt", "done_prompt", "generating"}
          /\ slot[s].prompt \in Seq(Tok) /\ slot[s].cache_prompt \in BOOLEAN
          /\ slot[s].n_predict \in Int /\ slot[s].n_keep \in Int
          /\ slot[s].n_discard \in {n \in Nat : n + AddBos <= 3}
        BY <1>1 DEF SlotRecord
    <1>4. /\ slot[s].prompt_tokens \in Seq(Tok) /\ slot[s].n_past \in 0 .. NCtx - 1
          /\ slot[s].n_decoded \in 0 .. NCtx - 1 /\ slot[s].i_batch \in Nat \cup {-1}
          /\ slot[s].sampled \in Nat
        BY <1>1 DEF SlotRecord
    <1>5. Len(context[s]) \in Nat /\ Len(slot[s].cache_tokens) \in Nat
        BY <1>1, <1>2
    <1>6. slot[s].n_discard \in Nat /\ slot[s].n_discard + AddBos <= 3
        BY <1>3
    <1> QED BY <1>1, <1>2, <1>3, <1>4, <1>5, <1>6

LEMMA Lengths ==
    ASSUME Typed
    PROVE  L \in Nat /\ Len(batch) \in Nat /\ system_tokens \in Seq(Tok) /\ batch \in Seq(Entry)
           /\ DOMAIN batch = 1 .. Len(batch)
           /\ \A b \in 1 .. Len(batch) :
                  batch[b] \in Entry /\ batch[b].slot \in Slots /\ batch[b].tok \in Tok
                  /\ batch[b].pos \in Nat
    <1>1. batch \in Seq(Entry) /\ system_tokens \in Seq(Tok)
        BY DEF Typed
    <1>2. \A b \in 1 .. Len(batch) : batch[b] \in Entry
        BY <1>1
    <1> QED BY <1>1, <1>2 DEF L, Entry

\* The cells of the system prompt are of all sequences, the others of one.
LEMMA Owners ==
    ASSUME Typed, KvInv, NEW c \in Held
    PROVE  /\ c.pos \in Nat /\ c.pos <= NCtx - 2 /\ c.tok \in Tok
           /\ c.pos < L => c.seq_id = Seq0 .. NSlots /\ c.tok = system_tokens[c.pos + 1]
           /\ c.pos >= L => \E s \in Slots : c.seq_id = {s + 1}
           /\ \A s \in Slots : c.seq_id = {s + 1} => c.pos >= L
           /\ \A s \in Slots : s + 1 \in c.seq_id <=> (c.pos < L \/ c.seq_id = {s + 1})
           /\ \A s \in Slots : s + 1 \in c.seq_id /\ c.pos >= L => c.seq_id = {s + 1}
           /\ \A s \in Slots : c.seq_id = {s + 1} => c = Cell(s, c.pos, c.tok)
           /\ c.seq_id # {}
    <1>1. /\ c = [pos |-> c.pos, seq_id |-> c.seq_id, tok |-> c.tok]
          /\ c.pos \in 0 .. NCtx - 2 /\ c.tok \in Tok
          /\ c.pos < L => c = SystemCell(system_tokens, c.pos + 1)
          /\ c.pos >= L => \E s \in Slots : c.seq_id = {s + 1}
        BY DEF KvInv
    <1>2. NSlots \in Nat \ {0} /\ NCtx \in Nat /\ L \in Nat /\ Slots = 0 .. NSlots - 1
        BY Basics, Lengths
    <1>3. c.pos < L => c.seq_id = 0 .. NSlots /\ c.tok = system_tokens[c.pos + 1]
        <2>1. SUFFICES ASSUME c.pos < L PROVE c.seq_id = 0 .. NSlots /\ c.tok = system_tokens[c.pos + 1]
            OBVIOUS
        <2>2. c = SystemCell(system_tokens, c.pos + 1)
            BY <1>1, <2>1
        <2>3. SystemCell(system_tokens, c.pos + 1).seq_id = 0 .. NSlots
              /\ SystemCell(system_tokens, c.pos + 1).tok = system_tokens[c.pos + 1]
            BY DEF SystemCell, Seq0
        <2> QED BY <2>2, <2>3
    <1>4. \A s \in Slots : s + 1 # 0 /\ s + 1 \in 0 .. NSlots /\ 0 \in 0 .. NSlots
        BY <1>2
    <1>5. \A s \in Slots : c.seq_id = {s + 1} => c.pos >= L
        <2>1. SUFFICES ASSUME NEW s \in Slots, c.seq_id = {s + 1}, ~(c.pos >= L) PROVE FALSE
            OBVIOUS
        <2>2. c.pos < L
            BY <1>1, <1>2, <2>1
        <2>3. 0 \in c.seq_id
            BY <1>3, <1>4, <2>1, <2>2
        <2> QED BY <1>4, <2>1, <2>3
    <1>6. \A s \in Slots : s + 1 \in c.seq_id /\ c.pos >= L => c.seq_id = {s + 1}
        BY <1>1
    <1>7. \A s \in Slots : s + 1 \in c.seq_id <=> (c.pos < L \/ c.seq_id = {s + 1})
        BY <1>1, <1>2, <1>3, <1>4, <1>6
    <1>8. \A s \in Slots : c.seq_id = {s + 1} => c = Cell(s, c.pos, c.tok)
        BY <1>1 DEF Cell
    <1>9. c.seq_id # {}
        <2>1. 0 \in 0 .. NSlots
            BY <1>2
        <2>2. c.pos < L \/ c.pos >= L
            BY <1>1, <1>2
        <2> QED BY <1>1, <1>3, <2>1, <2>2
    <1> QED BY <1>1, <1>2, <1>3, <1>5, <1>6, <1>7, <1>8, <1>9 DEF Seq0

LEMMA KvIsSane ==
    ASSUME Typed, KvInv
    PROVE  Sane(Held)
    <1>1. ASSUME NEW c \in Held
          PROVE  c = [pos |-> c.pos, seq_id |-> c.seq_id, tok |-> c.tok]
                 /\ c.pos \in Nat /\ c.seq_id # {}
        <2>1. c.pos \in Nat /\ c.seq_id # {}
            BY Owners
        <2> QED BY <2>1 DEF KvInv
    <1>2. IsFiniteSet(Held)
        BY DEF KvInv
    <1> QED BY <1>1, <1>2 DEF Sane

\* A sequence has one token at a position.
LEMMA OneAtPosition ==
    ASSUME Typed, KvInv, NEW s \in Slots,
           NEW c \in CellsIn(Held, s + 1), NEW d \in CellsIn(Held, s + 1), c.pos = d.pos
    PROVE  c = d
    <1>1. c \in Held /\ d \in Held /\ s + 1 \in c.seq_id /\ s + 1 \in d.seq_id
        BY DEF CellsIn
    <1>2. CASE c.pos < L
        <2>1. c.seq_id = d.seq_id
            BY <1>1, <1>2, Owners
        <2> QED BY <1>1, <2>1 DEF KvInv
    <1>3. CASE ~(c.pos < L)
        <2>0. c.pos >= L
            BY <1>1, <1>3, Owners, Lengths
        <2>1. c.seq_id = {s + 1} /\ d.seq_id = {s + 1}
            BY <1>1, <2>0, Owners
        <2> QED BY <1>1, <2>1 DEF KvInv
    <1> QED BY <1>2, <1>3

LEMMA SequenceOf ==
    ASSUME Typed, KvInv, NEW s \in Slots
    PROVE  CellsOf(kv, s + 1) = SetToBag({AsSaved(c) : c \in CellsIn(Held, s + 1)})
    <1>1. \A c, d \in CellsIn(Held, s + 1) : c.pos = d.pos => c = d
        BY OneAtPosition
    <1>2. kv = SetToBag(Held) /\ IsFiniteSet(Held)
        BY DEF KvInv
    <1>3. CellsOf(SetToBag(Held), s + 1) = SetToBag({AsSaved(c) : c \in CellsIn(Held, s + 1)})
        BY <1>1, <1>2, CellsOfSet
    <1> QED BY <1>2, <1>3

\* Where a cell is in its sequence's share of the cache.
Place(c) == IF c.pos < L THEN <<0, c.pos>> ELSE <<CHOOSE s \in Slots : c.seq_id = {s + 1}, c.pos>>

LEMMA PlaceOf ==
    ASSUME Typed, KvInv, NEW c \in Held
    PROVE  /\ Place(c) \in Slots \X (0 .. NCtx - 1)
           /\ c.pos < L => Place(c) = <<0, c.pos>>
           /\ c.pos >= L => \E s \in Slots : Place(c) = <<s, c.pos>> /\ c.seq_id = {s + 1}
    <1>0. c.pos \in Nat /\ c.pos <= NCtx - 2 /\ NCtx \in Nat /\ 0 \in Slots /\ L \in Nat
        BY Owners, Basics, Lengths
    <1>1. c.pos \in 0 .. NCtx - 1
        BY <1>0
    <1>2. CASE c.pos < L
        BY <1>0, <1>1, <1>2 DEF Place
    <1>3. CASE ~(c.pos < L)
        <2>1. \E s \in Slots : c.seq_id = {s + 1}
            BY <1>0, <1>3, Owners
        <2>2. PICK s \in Slots : c.seq_id = {s + 1} /\ Place(c) = <<s, c.pos>>
            BY <1>3, <2>1 DEF Place
        <2> QED BY <1>1, <1>3, <2>2
    <1> QED BY <1>2, <1>3

\* No two cells and tokens to come share a place, so they are no more than the cache has room for.
LEMMA SharesAreKept ==
    ASSUME Typed, KvInv, BatchInv, Decoded \in Nat
    PROVE  /\ IsFiniteSet(Held) /\ IsFiniteSet(Coming)
           /\ Cardinality(Held) + Cardinality(Coming) <= Size
    <1> DEFINE P == Slots \X (0 .. NCtx - 1)
               f == [c \in Held |-> Place(c)]
               g == [b \in Coming |-> <<batch[b].slot, batch[b].pos>>]
               A == {f[c] : c \in Held}
               B == {g[b] : b \in Coming}
    <1>0. /\ NCtx \in Nat /\ NCtx >= 5 /\ NSlots \in Nat \ {0} /\ Slots = 0 .. NSlots - 1 /\ L \in Nat
          /\ Len(batch) \in Nat
        BY Basics, Lengths
    <1>1. IsFiniteSet(Held) /\ IsFiniteSet(Coming) /\ Coming \subseteq 1 .. Len(batch)
        <2>1. Decoded + 1 \in Int /\ Decoded + 1 >= 1
            OBVIOUS
        <2>2. IsFiniteSet(Coming)
            BY <1>0, <2>1, FS_Interval DEF Coming
        <2>3. Coming \subseteq 1 .. Len(batch)
            BY <1>0, <2>1 DEF Coming
        <2> QED BY <2>2, <2>3 DEF KvInv
    <1>2. IsFiniteSet(P) /\ Cardinality(P) = Size
        <2>1. IsFiniteSet(Slots) /\ Cardinality(Slots) = NSlots
            BY <1>0, FS_Interval
        <2>2. IsFiniteSet(0 .. NCtx - 1) /\ Cardinality(0 .. NCtx - 1) = NCtx
            <3>1. NCtx - 1 \in Int /\ 0 <= NCtx - 1 /\ (NCtx - 1) - 0 + 1 = NCtx
                BY <1>0
            <3> QED BY <3>1, FS_Interval
        <2> QED BY <2>1, <2>2, FS_Product DEF Size
    <1>3. \A c \in Held : f[c] \in P
        BY PlaceOf
    <1>4. \A c, d \in Held : f[c] = f[d] => c = d
        <2>1. SUFFICES ASSUME NEW c \in Held, NEW d \in Held, Place(c) = Place(d) PROVE c = d
            OBVIOUS
        <2>2. Place(c)[2] = c.pos /\ Place(d)[2] = d.pos
            BY PlaceOf, <1>0, Owners, SMTT(60)
        <2>3. c.pos = d.pos /\ c.pos \in Nat
            BY <2>1, <2>2, Owners
        <2>4. CASE c.pos < L
            <3>1. c.seq_id = d.seq_id
                BY <2>3, <2>4, Owners
            <3> QED BY <2>3, <3>1 DEF KvInv
        <2>5. CASE c.pos >= L
            <3>1. PICK s \in Slots : Place(c) = <<s, c.pos>> /\ c.seq_id = {s + 1}
                BY <2>5, PlaceOf
            <3>2. PICK t \in Slots : Place(d) = <<t, d.pos>> /\ d.seq_id = {t + 1}
                BY <2>3, <2>5, PlaceOf
            <3>0. <<s, c.pos>> = <<t, d.pos>>
                BY <2>1, <3>1, <3>2
            <3>3. s = t
                BY <3>0
            <3>4. c.seq_id = d.seq_id
                BY <3>1, <3>2, <3>3
            <3> QED BY <2>3, <3>4 DEF KvInv
        <2> QED BY <1>0, <2>3, <2>4, <2>5
    <1>5. \A b \in Coming : batch[b].slot \in Slots /\ batch[b].pos \in L .. NCtx - 2
        BY <1>1, Lengths DEF BatchInv
    <1>6. \A b \in Coming : g[b] \in P
        BY <1>0, <1>5
    <1>7. \A b, c \in Coming : g[b] = g[c] => b = c
        <2>1. SUFFICES ASSUME NEW b \in Coming, NEW c \in Coming, g[b] = g[c] PROVE b = c
            OBVIOUS
        <2>2. batch[b].slot = batch[c].slot /\ batch[b].pos = batch[c].pos
            BY <2>1
        <2> QED BY <1>1, <2>2 DEF BatchInv
    <1>8. \A c \in Held, b \in Coming : f[c] # g[b]
        <2>1. SUFFICES ASSUME NEW c \in Held, NEW b \in Coming, Place(c) = <<batch[b].slot, batch[b].pos>>
                       PROVE  FALSE
            OBVIOUS
        <2>2. c.pos = batch[b].pos
            BY <2>1, PlaceOf, <1>0, Owners, SMTT(60)
        <2>3. c.pos >= L
            BY <1>0, <1>5, <2>2
        <2>4. PICK s \in Slots : Place(c) = <<s, c.pos>> /\ c.seq_id = {s + 1}
            BY <2>3, PlaceOf
        <2>5. s = batch[b].slot
            BY <2>1, <2>4
        <2> QED BY <2>2, <2>4, <2>5 DEF BatchInv
    <1> HIDE DEF f, g, P
    <1>9. ExistsBijection(Held, A)
        <2>1. DOMAIN f = Held
            BY DEF f
        <2>2. f \in Bijection(Held, A)
            BY <1>4, <2>1 DEF f, Bijection, Injection, Surjection, IsInjective
        <2> QED BY <2>2 DEF ExistsBijection
    <1>10. ExistsBijection(Coming, B)
        <2>2. g \in Bijection(Coming, B)
            BY <1>7 DEF g, Bijection, Injection, Surjection, IsInjective
        <2> QED BY <2>2 DEF ExistsBijection
    <1>11. /\ IsFiniteSet(A) /\ Cardinality(A) = Cardinality(Held)
           /\ IsFiniteSet(B) /\ Cardinality(B) = Cardinality(Coming)
        BY <1>1, <1>9, <1>10, FS_Bijection
    <1>12. A \cap B = {} /\ A \cup B \subseteq P
        BY <1>3, <1>6, <1>8
    <1>13. Cardinality(A \cup B) = Cardinality(A) + Cardinality(B)
        <2>1. Cardinality(A \cup B) = Cardinality(A) + Cardinality(B) - Cardinality(A \cap B)
            BY <1>11, FS_Union
        <2>2. Cardinality(A \cap B) = 0
            BY <1>12, FS_EmptySet
        <2>3. Cardinality(A) \in Nat /\ Cardinality(B) \in Nat
            BY <1>11, FS_CardinalityType
        <2> QED BY <2>1, <2>2, <2>3
    <1>14. Cardinality(A \cup B) <= Cardinality(P)
        BY <1>2, <1>12, FS_Subset
    <1> QED BY <1>1, <1>2, <1>11, <1>13, <1>14

LEMMA RestIs ==
    ASSUME Typed, PhaseInv
    PROVE  /\ Rest \in Int /\ Rest <= n_batch /\ Rest <= Len(batch) - view
           /\ Rest = n_batch \/ Rest = Len(batch) - view
           /\ view < Len(batch) => Rest \in Nat \ {0}
           /\ view \in Nat /\ n_batch \in Nat \ {0} /\ n_batch <= NBatch
           /\ pc = "sample" => view < Len(batch) /\ Decoded = view + Rest /\ Decoded \in Nat
           /\ pc # "sample" => Decoded = view /\ Decoded \in Nat
    <1>1. Len(batch) \in Nat /\ view \in Nat /\ n_batch \in 1 .. NBatch /\ NBatch \in Nat
          /\ (pc = "sample" => view < Len(batch))
        BY Basics, Lengths DEF PhaseInv
    <1>2. /\ Rest \in Int /\ Rest <= n_batch /\ Rest <= Len(batch) - view
          /\ Rest = n_batch \/ Rest = Len(batch) - view
          /\ view < Len(batch) => Rest \in Nat \ {0}
        BY <1>1 DEF Rest, Least
    <1>3. pc = "sample" => Decoded = view + Rest
        BY DEF Decoded
    <1>4. pc # "sample" => Decoded = view
        BY <1>1 DEF Decoded
    <1> QED BY <1>1, <1>2, <1>3, <1>4

\* Past the system prompt the cache is as it should be.
LEMMA KvHolds ==
    ASSUME IInv, ~system_need_update \/ pc \notin {"tasks", "check"}
    PROVE  KvInv /\ ~system_need_update /\ system_tokens = system_prompt /\ L <= NCtx - 2
    BY DEF IInv, PhaseInv, SystemInv, CacheInv

LEMMA RoomIsKept ==
    ASSUME IInv
    PROVE  RoomForBatch
    <1>1. SUFFICES ASSUME pc \in {"view", "decode"}, view < Len(batch)
                   PROVE  Total(kv) + Len(batch) - view <= Size
        BY DEF RoomForBatch
    <1>2. Typed /\ PhaseInv /\ KvInv /\ BatchInv
        BY <1>1, KvHolds DEF IInv
    <1>3. Decoded = view /\ view \in Nat /\ Len(batch) \in Nat
        BY <1>1, <1>2, RestIs, Lengths
    <1>4. Cardinality(Coming) = Len(batch) - view
        BY <1>1, <1>3, FS_Interval DEF Coming
    <1>5. IsFiniteSet(Held) /\ Cardinality(Held) + Cardinality(Coming) <= Size
        BY <1>2, <1>3, SharesAreKept
    <1>6. Total(kv) = Cardinality(Held) /\ Cardinality(Held) \in Nat
        BY <1>2, <1>5, TotalOfSet, FS_CardinalityType DEF KvInv
    <1>7. Size \in Nat
        BY Basics DEF Size
    <1> QED BY <1>3, <1>4, <1>5, <1>6, <1>7

LEMMA NoToken ==
    ASSUME NEW s, \A e \in ToCome : e.slot # s
    PROVE  \A p, t : Token(s, p, t) \notin ToCome
    BY DEF Token

\* A slot with nothing to come has what it remembers in the cache.
LEMMA WhenAllDecoded ==
    ASSUME Typed, NEW s \in Slots, SlotInv(s), \A e \in ToCome : e.slot # s
    PROVE  CachedInv(s)
    <1>1. CASE ~Begun(slot[s])
        BY <1>1 DEF SlotInv
    <1>2. CASE Begun(slot[s])
        <2>1. ReuseInv(s) /\ HeldInv(s)
            BY <1>2 DEF SlotInv
        <2>2. SUFFICES ASSUME slot[s].cache_prompt, NEW j \in 1 .. Len(slot[s].cache_tokens)
                       PROVE  Cell(s, L + j - 1, slot[s].cache_tokens[j]) \in Held
            BY <2>1 DEF CachedInv, ReuseInv, Padding
        <2>3. slot[s].cache_prompt
            BY <2>2
        <2>4. j \in 1 .. slot[s].n_past /\ slot[s].cache_tokens[j] = context[s][j]
            BY <2>1, <2>2, <2>3 DEF ReuseInv, Padding
        <2>5. Cell(s, L + j - 1, context[s][j]) \in Held
            BY <2>1, <2>4, NoToken DEF HeldInv
        <2> QED BY <2>4, <2>5
    <1> QED BY <1>1, <1>2

\* The logits of a slot are read when its last token of the batch is decoded.
LEMMA SampledIsDecoded ==
    ASSUME IInv, pc = "sample", NEW s \in Slots, Samplable(s)
    PROVE  /\ \A e \in ToCome : e.slot # s
           /\ slot[s].i_batch \in Nat /\ Begun(slot[s]) /\ slot[s].state # "prompt"
    <1>1. Typed /\ PhaseInv /\ IndexInv(s)
        BY DEF IInv, IndexesInv
    <1>2. slot[s].i_batch \in Nat \cup {-1} /\ Rest \in Nat /\ view \in Nat /\ Decoded = view + Rest
          /\ Len(batch) \in Nat
        BY <1>1, RestIs, SlotFields, Lengths
    <1>3. slot[s].i_batch >= view /\ slot[s].i_batch < view + Rest
          /\ slot[s].state \in {"done_prompt", "generating"}
        BY DEF Samplable, InView
    <1>4. slot[s].i_batch \in Nat /\ slot[s].i_batch + 1 <= Decoded
        BY <1>2, <1>3
    <1>5. \A b \in 1 .. Len(batch) : batch[b].slot = s => b <= slot[s].i_batch + 1
        BY <1>1, <1>4 DEF IndexInv
    <1>6. ASSUME NEW e \in ToCome, e.slot = s PROVE FALSE
        <2>1. PICK b \in Coming : batch[b].slot = s
            BY <1>6 DEF ToCome
        <2>2. b \in 1 .. Len(batch) /\ b > Decoded
            BY <1>2, <2>1 DEF Coming
        <2> QED BY <1>2, <1>4, <1>5, <2>1, <2>2
    <1> QED BY <1>3, <1>4, <1>6 DEF Begun, Fresh

\* What a slot has come through is all its sequence holds behind the system prompt.
LEMMA SequenceIsContext ==
    ASSUME Typed, KvInv, NEW s \in Slots, ProgressInv(s), HeldInv(s), slot[s].state # "prompt",
           \A e \in ToCome : e.slot # s
    PROVE  CellsOf(kv, s + 1) = Meant(system_tokens \o context[s])
    <1> DEFINE n    == Len(context[s])
               toks == system_tokens \o context[s]
               A    == {AsSaved(c) : c \in CellsIn(Held, s + 1)}
               B    == {[pos |-> j - 1, tok |-> toks[j]] : j \in DOMAIN toks}
    <1>0. /\ L \in Nat /\ n \in Nat /\ system_tokens \in Seq(Tok) /\ context[s] \in Seq(Tok)
          /\ slot[s].n_past = n
        BY SlotFields, Lengths DEF ProgressInv
    <1>1. DOMAIN toks = 1 .. L + n
        BY <1>0 DEF L
    <1>2. \A j \in 1 .. L : toks[j] = system_tokens[j]
        BY <1>0 DEF L
    <1>3. \A j \in 1 .. n : toks[L + j] = context[s][j]
        BY <1>0 DEF L
    <1>4. \A j \in 1 .. n : Cell(s, L + j - 1, context[s][j]) \in Held
        BY <1>0, NoToken DEF HeldInv
    <1> HIDE DEF n, toks
    <1>5. ASSUME NEW c \in CellsIn(Held, s + 1)
          PROVE  c.pos + 1 \in 1 .. L + n /\ c.tok = toks[c.pos + 1]
        <2>1. c \in Held /\ s + 1 \in c.seq_id /\ c.pos \in Nat
            BY Owners DEF CellsIn
        <2>2. CASE c.pos < L
            <3>1. c.tok = system_tokens[c.pos + 1]
                BY <2>1, <2>2, Owners
            <3> QED BY <1>0, <1>2, <2>1, <2>2, <3>1
        <2>3. CASE c.pos >= L
            <3>1. c.seq_id = {s + 1}
                BY <2>1, <2>3, Owners
            <3>2. c.pos < L + n
                BY <1>0, <2>1, <3>1 DEF HeldInv
            <3> DEFINE j == c.pos - L + 1
            <3>3. j \in 1 .. n /\ L + j - 1 = c.pos /\ L + j = c.pos + 1
                BY <1>0, <2>1, <2>3, <3>2, SMTT(60)
            <3> HIDE DEF j
            <3> DEFINE d == Cell(s, L + j - 1, context[s][j])
            <3>4. d \in Held
                BY <1>4, <3>3
            <3>5. d.seq_id = c.seq_id /\ d.pos = c.pos /\ d.tok = context[s][j]
                BY <3>1, <3>3 DEF Cell
            <3>6. d = c
                BY <2>1, <3>4, <3>5 DEF KvInv
            <3>7. c.tok = context[s][j]
                BY <3>5, <3>6
            <3> QED BY <1>0, <1>3, <2>1, <2>3, <3>2, <3>3, <3>7, SMTT(60)
        <2> QED BY <1>0, <2>1, <2>2, <2>3
    <1>6. ASSUME NEW j \in 1 .. L + n
          PROVE  \E c \in CellsIn(Held, s + 1) : c.pos = j - 1
        <2>1. CASE j <= L
            <3>1. SystemCell(system_tokens, j) \in Held
                BY <1>0, <2>1 DEF KvInv
            <3>2. SystemCell(system_tokens, j).pos = j - 1
                BY DEF SystemCell
            <3>3. s + 1 \in SystemCell(system_tokens, j).seq_id
                BY <1>0, <2>1, <3>1, <3>2, Owners
            <3> QED BY <3>1, <3>2, <3>3 DEF CellsIn
        <2>2. CASE j > L
            <3>1. j - L \in 1 .. n /\ L + (j - L) - 1 = j - 1
                BY <1>0, <2>2
            <3>2. Cell(s, j - 1, context[s][j - L]) \in Held
                BY <1>4, <3>1
            <3>3. Cell(s, j - 1, context[s][j - L]).pos = j - 1
                  /\ s + 1 \in Cell(s, j - 1, context[s][j - L]).seq_id
                BY DEF Cell
            <3> QED BY <3>2, <3>3 DEF CellsIn
        <2> QED BY <1>0, <2>1, <2>2
    <1>7. ASSUME NEW c \in CellsIn(Held, s + 1)
          PROVE  AsSaved(c) = [pos |-> (c.pos + 1) - 1, tok |-> toks[c.pos + 1]]
        <2>1. c.pos \in Nat /\ c.tok = toks[c.pos + 1]
            BY <1>5, Owners DEF CellsIn
        <2> QED BY <2>1 DEF AsSaved
    <1>8. A \subseteq B
        BY <1>1, <1>5, <1>7
    <1>9. B \subseteq A
        <2>1. SUFFICES ASSUME NEW j \in 1 .. L + n PROVE [pos |-> j - 1, tok |-> toks[j]] \in A
            BY <1>1
        <2>2. PICK c \in CellsIn(Held, s + 1) : c.pos = j - 1
            BY <1>6
        <2>3. c.pos + 1 = j
            BY <1>0, <2>2
        <2> QED BY <1>7, <2>3
    <1>10. A = B
        BY <1>8, <1>9
    <1> QED BY <1>10, SequenceOf DEF Meant, toks

LEMMA ContextIsSampled ==
    ASSUME IInv
    PROVE  SamplesItsContext
    <1>1. SUFFICES ASSUME pc = "sample", NEW s \in Slots, Samplable(s)
                   PROVE  CellsOf(kv, s + 1) = Meant(system_tokens \o context[s])
        BY DEF SamplesItsContext
    <1>2. Typed /\ KvInv /\ SlotInv(s)
        BY <1>1, KvHolds DEF IInv, SlotsInv
    <1>3. /\ \A e \in ToCome : e.slot # s
          /\ Begun(slot[s]) /\ slot[s].state # "prompt"
        BY <1>1, SampledIsDecoded
    <1>4. ProgressInv(s) /\ HeldInv(s)
        BY <1>2, <1>3 DEF SlotInv
    <1> QED BY <1>2, <1>3, <1>4, SequenceIsContext

LEMMA NothingComing ==
    ASSUME Typed, PhaseInv, pc \in {"tasks", "check", "shift"}
    PROVE  /\ batch = << >> /\ Len(batch) = 0 /\ Coming = {} /\ view = 0 /\ Decoded = 0
           /\ ToCome = {}
    <1>1. batch = << >> /\ view = 0 /\ Decoded = 0
        BY RestIs DEF PhaseInv
    <1>2. Len(batch) = 0 /\ Coming = {}
        BY <1>1 DEF Coming
    <1> QED BY <1>1, <1>2 DEF ToCome

LEMMA TypesFollow ==
    ASSUME IInv
    PROVE  TypeOK
    <1>1. Typed /\ PhaseInv /\ CacheInv /\ IndexesInv
        BY DEF IInv
    <1>2. NCtx \in Nat /\ NSlots \in Nat /\ NBatch \in Nat /\ Slots = 0 .. NSlots - 1 /\ NCtx <= Size
          /\ Size \in Nat
        BY Basics
    <1>3. ASSUME KvInv
          PROVE  LeftInv
        <2>1. SUFFICES ASSUME NEW c \in Held
                       PROVE  c.pos \in 0 .. NCtx /\ c.seq_id \subseteq Seq0 .. NSlots
            <3>1. \A n \in 0 .. NCtx : n \in 0 .. Size
                BY <1>2
            <3> QED BY <3>1 DEF LeftInv
        <2>2. c.pos \in Nat /\ c.pos <= NCtx - 2
            BY <1>1, <1>3, <2>1, Owners
        <2>3. CASE c.pos < L
            <3>1. c.seq_id = Seq0 .. NSlots
                BY <1>1, <1>3, <2>1, <2>3, Owners
            <3> QED BY <1>2, <2>2, <3>1
        <2>4. CASE c.pos >= L
            <3>1. PICK s \in Slots : c.seq_id = {s + 1}
                BY <1>1, <1>3, <2>1, <2>4, Owners
            <3> QED BY <1>2, <2>2, <3>1 DEF Seq0
        <2> QED BY <1>1, <2>2, <2>3, <2>4, Lengths
    <1>5. LeftInv
        BY <1>1, <1>3 DEF CacheInv
    <1>4. ASSUME NEW s \in Slots
          PROVE  /\ slot[s].state \in {"idle", "prompt", "done_prompt", "generating"}
                 /\ slot[s].n_past \in 0 .. NCtx /\ slot[s].n_decoded \in 0 .. NCtx
                 /\ slot[s].i_batch \in -1 .. Len(batch) - 1
        <2>1. /\ slot[s].state \in {"idle", "prompt", "done_prompt", "generating"}
              /\ slot[s].n_past \in 0 .. NCtx - 1 /\ slot[s].n_decoded \in 0 .. NCtx - 1
              /\ slot[s].i_batch \in Nat \cup {-1} /\ Len(batch) \in Nat
            BY <1>1, SlotFields, Lengths
        <2>2. slot[s].i_batch >= 0 => slot[s].i_batch < Len(batch)
            BY <1>1 DEF IndexesInv, IndexInv
        <2> QED BY <1>2, <2>1, <2>2, SMTT(60)
    <1> QED BY <1>1, <1>4, <1>5 DEF TypeOK, Typed, PhaseInv, LeftInv, Held

-----------------------------------------------------------------------------
(* What a step leaves alone                                                *)

LEMMA SlotStays ==
    ASSUME Typed, NEW s \in Slots, SlotInv(s), UNCHANGED <<system_tokens, system_prompt>>,
           slot'[s] = slot[s], context'[s] = context[s],
           \A c \in Held' : c.seq_id = {s + 1} =>
               c \in Held \/ (Begun(slot[s]) => c.pos < L + slot[s].n_past),
           \A p, t : Cell(s, p, t) \in Held => Cell(s, p, t) \in Held',
           Begun(slot[s]) => \A p, t : Token(s, p, t) \in ToCome => Cell(s, p, t) \in Held' \/ Token(s, p, t) \in ToCome'
    PROVE  SlotInv(s)'
    <1>1. L' = L
        BY DEF L
    <1>2. RestInv(s)' /\ BudgetInv(s)'
        <2>1. RestInv(s) /\ BudgetInv(s)
            BY DEF SlotInv
        <2>2. RestInv(s)'
            BY <2>1 DEF RestInv
        <2>3. BudgetInv(s)'
            BY <2>1 DEF BudgetInv
        <2> QED BY <2>2, <2>3
    <1>3. CASE ~Begun(slot[s])
        <2>1. CachedInv(s)
            BY <1>3 DEF SlotInv
        <2>2. CachedInv(s)'
            BY <1>1, <2>1 DEF CachedInv, Padding
        <2>3. ~Begun(slot'[s])
            BY <1>3
        <2> QED BY <1>2, <2>2, <2>3 DEF SlotInv
    <1>4. CASE Begun(slot[s])
        <2>1. ProgressInv(s) /\ ReuseInv(s) /\ HeldInv(s)
            BY <1>4 DEF SlotInv
        <2>2. ProgressInv(s)'
            BY <1>1, <2>1 DEF ProgressInv
        <2>3. ReuseInv(s)'
            BY <2>1 DEF ReuseInv, Padding
        <2>4. HeldInv(s)'
            <3>1. \A c \in Held' : c.seq_id = {s + 1} => c.pos < L' + slot'[s].n_past
                BY <1>1, <1>4, <2>1 DEF HeldInv
            <3>2. ASSUME NEW j \in 1 .. slot'[s].n_past
                  PROVE  Cell(s, L' + j - 1, context'[s][j]) \in Held' \/ Token(s, L' + j - 1, context'[s][j]) \in ToCome'
                <4>1. Cell(s, L + j - 1, context[s][j]) \in Held \/ Token(s, L + j - 1, context[s][j]) \in ToCome
                    BY <2>1 DEF HeldInv
                <4>2. Cell(s, L + j - 1, context[s][j]) \in Held' \/ Token(s, L + j - 1, context[s][j]) \in ToCome'
                    BY <1>4, <4>1
                <4> QED BY <1>1, <4>2
            <3> QED BY <3>1, <3>2 DEF HeldInv
        <2>5. Begun(slot'[s])
            BY <1>4
        <2> QED BY <1>2, <2>2, <2>3, <2>4, <2>5 DEF SlotInv
    <1> QED BY <1>3, <1>4

\* The slots when nothing changes in the cache and what is to come of the batch.
LEMMA SlotIsLeft ==
    ASSUME Typed, NEW s \in Slots, SlotInv(s),
           UNCHANGED <<kv, system_tokens, system_prompt>>, ToCome \subseteq ToCome',
           slot'[s] = slot[s], context'[s] = context[s]
    PROVE  SlotInv(s)'
    <1>1. Held' = Held
        BY DEF Held
    <1>2. \A p, t : Token(s, p, t) \in ToCome => Token(s, p, t) \in ToCome'
        OBVIOUS
    <1> QED BY <1>1, <1>2, SlotStays

LEMMA SameKv ==
    ASSUME KvInv, UNCHANGED <<kv, system_tokens>>
    PROVE  KvInv'
    BY DEF KvInv, Held, L

LEMMA SameCache ==
    ASSUME CacheInv, UNCHANGED <<kv, system_tokens>>, system_need_update => system_need_update'
    PROVE  CacheInv'
    <1>1. KvInv => KvInv'
        BY SameKv
    <1>2. LeftInv => LeftInv'
        BY DEF LeftInv, Held
    <1> QED BY <1>1, <1>2 DEF CacheInv

LEMMA SameFile ==
    ASSUME FileInv, UNCHANGED file
    PROVE  FileInv'
    BY DEF FileInv

\* Between iterations no logits are asked for.
LEMMA NoIndexes ==
    ASSUME IInv, pc \in {"tasks", "check", "shift"}, NEW s \in Slots
    PROVE  slot[s].i_batch = -1 /\ slot[s].state # "done_prompt"
    <1>1. Typed /\ PhaseInv /\ IndexInv(s)
        BY DEF IInv, IndexesInv
    <1>2. Len(batch) = 0 /\ slot[s].i_batch \in Nat \cup {-1}
        BY <1>1, NothingComing, SlotFields
    <1> QED BY <1>1, <1>2 DEF IndexInv

\* Whatever is done between iterations, the batch is empty before and after.
LEMMA BetweenIterations ==
    ASSUME IInv, pc \in {"tasks", "check", "shift"}, UNCHANGED batchVars,
           pc' \in {"tasks", "check"}, visit' \in Slots,
           \A s \in Slots : slot'[s].i_batch = -1 /\ slot'[s].state # "done_prompt"
    PROVE  PhaseInv' /\ IndexesInv' /\ ShiftInv' /\ BatchInv' /\ ToCome' = {}
    <1>1. Typed /\ PhaseInv
        BY DEF IInv
    <1>2. batch' = << >> /\ view' = 0 /\ Len(batch') = 0 /\ view' = view /\ n_batch' = n_batch
          /\ Len(batch) = 0
        BY <1>1, NothingComing DEF batchVars
    <1>3. PhaseInv'
        BY <1>1, <1>2 DEF PhaseInv
    <1>4. IndexesInv'
        BY <1>2 DEF IndexesInv, IndexInv
    <1>5. ShiftInv'
        BY DEF ShiftInv
    <1>6. Coming' = {}
        BY <1>2 DEF Coming, Decoded
    <1>7. BatchInv'
        BY <1>2, <1>6 DEF BatchInv
    <1> QED BY <1>3, <1>4, <1>5, <1>6, <1>7 DEF ToCome

LEMMA IdleRecord ==
    ASSUME NEW toks \in Seq(Nat), NEW keep \in Int
    PROVE  /\ IdleWith(toks, keep) \in SlotRecord
           /\ IdleWith(toks, keep).state = "idle" /\ IdleWith(toks, keep).cache_tokens = toks
           /\ IdleWith(toks, keep).n_keep = keep /\ IdleWith(toks, keep).i_batch = -1
           /\ ~Begun(IdleWith(toks, keep)) /\ ~Fresh(IdleWith(toks, keep))
    <1>1. NCtx \in Nat /\ NCtx >= 5 /\ AddBos \in {0, 1}
        BY Basics
    <1>2. << >> \in Seq(Tok) /\ 0 \in {n \in Nat : n + AddBos <= 3} /\ 0 \in 0 .. NCtx - 1
          /\ -1 \in Int /\ -1 \in Nat \cup {-1}
        BY <1>1
    <1> QED BY <1>2 DEF IdleWith, SlotRecord, Begun, Fresh, Pad

LEMMA ReleasedIs ==
    ASSUME Typed, NEW s \in Slots
    PROVE  /\ Released(slot[s]) = IdleWith(slot[s].cache_tokens, slot[s].n_keep)
           /\ Released(slot[s]) \in SlotRecord
           /\ Released(slot[s]).state = "idle" /\ Released(slot[s]).i_batch = -1
           /\ Released(slot[s]).cache_tokens = slot[s].cache_tokens
           /\ Released(slot[s]).n_keep = slot[s].n_keep
           /\ ~Begun(Released(slot[s])) /\ ~Fresh(Released(slot[s]))
    <1>1. slot[s].cache_tokens \in Seq(Nat) /\ slot[s].n_keep \in Int
        BY SlotFields
    <1> QED BY <1>1, IdleRecord DEF Released

LEMMA LaunchedIs ==
    ASSUME Modest, Typed, NEW s \in Slots, NEW r \in Prompts
    PROVE  LET x == Launched(slot[s], r)
           IN  /\ x \in SlotRecord /\ x.state = "prompt" /\ x.prompt_tokens = << >> /\ Fresh(x)
               /\ x.n_past = 0 /\ x.n_decoded = 0 /\ x.i_batch = -1 /\ x.prompt = r.prompt
               /\ x.n_predict = r.n_predict /\ x.cache_tokens = slot[s].cache_tokens
               /\ x.cache_prompt = r.cache_prompt
    <1> DEFINE x == Launched(slot[s], r)
               keep == IF r.n_keep = NoKeep THEN slot[s].n_keep ELSE r.n_keep
    <1>1. slot[s].cache_tokens \in Seq(Nat) /\ slot[s].n_keep \in Int
        BY SlotFields
    <1>2. /\ r.prompt \in Seq(Tok) /\ r.n_predict \in Int /\ r.cache_prompt \in BOOLEAN
          /\ r.n_discard \in Nat /\ r.n_keep \in Int \cup {NoKeep}
        BY SlotsAssumption DEF Tok
    <1>3. r.n_discard \in {n \in Nat : n + AddBos <= 3}
        BY <1>2 DEF Modest
    <1>4. keep \in Int
        BY <1>1, <1>2
    <1>5. x = [state |-> "prompt", prompt |-> r.prompt, cache_prompt |-> r.cache_prompt,
               n_predict |-> r.n_predict, n_keep |-> keep, n_discard |-> r.n_discard,
               prompt_tokens |-> << >>, n_past |-> 0, n_decoded |-> 0, i_batch |-> -1,
               sampled |-> Pad, cache_tokens |-> slot[s].cache_tokens]
        <2> DEFINE y == Released(slot[s])
                   R(a, b, c, d, e, f) ==
                        [state |-> a, prompt |-> b, cache_prompt |-> c, n_predict |-> d, n_keep |-> e,
                         n_discard |-> f, prompt_tokens |-> << >>, n_past |-> 0, n_decoded |-> 0,
                         i_batch |-> -1, sampled |-> Pad, cache_tokens |-> slot[s].cache_tokens]
        <2>1. y = R("idle", << >>, FALSE, -1, slot[s].n_keep, 0)
            BY DEF Released, IdleWith
        <2>2. x = [y EXCEPT !.state = "prompt", !.prompt = r.prompt, !.cache_prompt = r.cache_prompt,
                            !.n_predict = r.n_predict, !.n_discard = r.n_discard, !.n_keep = keep]
            <3>1. y.n_keep = slot[s].n_keep
                BY <2>1
            <3> QED BY <3>1 DEF Launched
        <2> HIDE DEF y, x, keep
        <2>3. x = R("prompt", r.prompt, r.cache_prompt, r.n_predict, keep, r.n_discard)
            BY <2>1, <2>2
        <2> QED BY <2>3
    <1>6. NCtx \in Nat /\ NCtx >= 5
        BY Basics
    <1>7. << >> \in Seq(Tok) /\ 0 \in 0 .. NCtx - 1 /\ -1 \in Nat \cup {-1} /\ Pad \in Nat
        BY <1>6 DEF Pad
    <1> HIDE DEF x, keep
    <1>8. x \in SlotRecord
        BY <1>1, <1>2, <1>3, <1>4, <1>5, <1>7 DEF SlotRecord
    <1>9. /\ x.state = "prompt" /\ x.prompt_tokens = << >>
          /\ x.n_past = 0 /\ x.n_decoded = 0 /\ x.i_batch = -1 /\ x.prompt = r.prompt
          /\ x.n_predict = r.n_predict /\ x.cache_tokens = slot[s].cache_tokens
          /\ x.cache_prompt = r.cache_prompt
        BY <1>5
    <1> QED BY <1>8, <1>9 DEF x, Fresh

\* Between iterations a slot can be given a record that has not begun.
LEMMA OneSlotAnew ==
    ASSUME IInv, InTasks, NEW s \in Slots, NEW x \in SlotRecord,
           slot' = [slot EXCEPT ![s] = x],
           context' = context \/ context' = [context EXCEPT ![s] = << >>],
           ~Begun(x), x.i_batch = -1, x.cache_tokens = slot[s].cache_tokens,
           x.state = "idle" => x = IdleWith(x.cache_tokens, x.n_keep),
           Fresh(x) => x.n_past = 0 /\ x.n_decoded = 0 /\ ~(clean_kv_cache /\ ~system_need_update)
                       /\ ~BeginsWithPad(x)
                       /\ (system_prompt # << >> =>
                              0 < x.n_predict /\ Len(system_prompt) + Len(x.prompt) + x.n_predict <= NCtx),
           UNCHANGED <<kv, systemVars, file>>
    PROVE  IInv'
    <1>0. /\ Typed /\ PhaseInv /\ SystemInv /\ CacheInv /\ FileInv
          /\ \A t \in Slots : SlotInv(t)
          /\ pc = "tasks" /\ pc' = pc /\ visit' = visit /\ UNCHANGED batchVars
          /\ UNCHANGED <<system_prompt, system_tokens, system_need_update, clean_kv_cache>>
        BY DEF IInv, SlotsInv, InTasks, systemVars
    <1>1. /\ slot'[s] = x /\ \A t \in Slots \ {s} : slot'[t] = slot[t] /\ context'[t] = context[t]
          /\ slot' \in [Slots -> SlotRecord] /\ context' \in [Slots -> Seq(Tok)]
        <2>1. slot \in [Slots -> SlotRecord] /\ context \in [Slots -> Seq(Tok)] /\ << >> \in Seq(Tok)
            BY <1>0 DEF Typed
        <2> QED BY <2>1
    <1>2. Typed'
        BY <1>0, <1>1 DEF Typed, batchVars
    <1>3. \A t \in Slots : slot'[t].i_batch = -1 /\ slot'[t].state # "done_prompt"
        <2>1. x.state # "done_prompt"
            BY DEF Begun, Fresh
        <2> QED BY <1>0, <1>1, <2>1, NoIndexes
    <1>4. PhaseInv' /\ IndexesInv' /\ ShiftInv' /\ BatchInv'
        <2>1. visit' \in Slots
            BY <1>0 DEF PhaseInv
        <2> QED BY <1>0, <1>3, <2>1, BetweenIterations
    <1>5. CacheInv' /\ FileInv'
        BY <1>0, SameCache, SameFile
    <1>6. ToCome = {} /\ ToCome \subseteq ToCome'
        BY <1>0, NothingComing
    <1>7. ASSUME NEW t \in Slots \ {s} PROVE SlotInv(t)'
        BY <1>0, <1>1, <1>6, SlotIsLeft
    <1>8. SlotInv(s)'
        <2>1. CachedInv(s)
            <3>1. \A e \in ToCome : e.slot # s
                BY <1>6
            <3> QED BY <1>0, <3>1, WhenAllDecoded
        <2>2. CachedInv(s)'
            BY <1>0, <1>1, <2>1 DEF CachedInv, Held, L, Padding
        <2>3. RestInv(s)'
            BY <1>1 DEF RestInv, Begun, Fresh
        <2>4. BudgetInv(s)'
            <3>1. SUFFICES ASSUME x.state # "idle", system_prompt # << >>
                           PROVE  x.n_decoded < x.n_predict
                                  /\ Len(system_prompt) + Unsaid(x)
                                     + (IF Fresh(x) THEN Len(x.prompt) ELSE Len(context'[s])) <= NCtx
                BY <1>0, <1>1 DEF BudgetInv
            <3>2. Fresh(x)
                BY <3>1 DEF Begun
            <3>3. x.n_predict \in Int /\ x.n_decoded = 0 /\ Unsaid(x) = x.n_predict
                BY <3>2 DEF SlotRecord, Unsaid, Fresh
            <3>4. Len(system_prompt) \in Nat /\ Len(x.prompt) \in Nat /\ NCtx \in Nat
                <4>1. x.prompt \in Seq(Tok)
                    BY DEF SlotRecord
                <4>2. system_prompt \in Seq(Tok)
                    BY <1>0, Basics DEF Typed
                <4> QED BY <4>1, <4>2, Basics
            <3> QED BY <3>1, <3>2, <3>3, <3>4
        <2>5. ~Begun(slot'[s])
            BY <1>1
        <2> QED BY <2>2, <2>3, <2>4, <2>5 DEF SlotInv
    <1>9. SystemInv'
        <2>1. L' = L /\ Held' = Held
            BY <1>0 DEF L, Held
        <2>2. system_need_update' =>
                  \A t \in Slots : slot'[t].cache_tokens = << >> /\ ~Begun(slot'[t])
            BY <1>0, <1>1 DEF SystemInv
        <2>3. clean_kv_cache' =>
                  Held' = {} /\ DOMAIN file'.cells = {} /\ \A t \in Slots : slot'[t].cache_tokens = << >>
            BY <1>0, <1>1, <2>1 DEF SystemInv
        <2>4. clean_kv_cache' /\ ~system_need_update' =>
                  system_prompt' = << >> /\ \A t \in Slots : ~Busy(t)'
            <3>1. SUFFICES ASSUME clean_kv_cache, ~system_need_update
                           PROVE  system_prompt = << >> /\ \A t \in Slots : slot'[t].state = "idle"
                BY <1>0 DEF Busy
            <3>2. system_prompt = << >> /\ \A t \in Slots : slot[t].state = "idle"
                BY <1>0, <3>1 DEF SystemInv, Busy
            <3>3. x.state = "idle"
                BY <3>1 DEF Begun
            <3> QED BY <1>1, <3>2, <3>3
        <2>5. pc' # "check"
            BY <1>0
        <2> QED BY <1>0, <2>1, <2>2, <2>3, <2>4, <2>5 DEF SystemInv
    <1>10. SlotsInv'
        BY <1>7, <1>8 DEF SlotsInv
    <1> QED BY <1>2, <1>4, <1>5, <1>9, <1>10 DEF IInv

\* What a careful client has cached does not begin like padding, whatever is kept of it.
LEMMA CacheableIs ==
    ASSUME Modest, NEW r, Cacheable(r), NEW x, x.prompt = r.prompt, x.cache_prompt = r.cache_prompt
    PROVE  ~BeginsWithPad(x)
    BY DEF Cacheable, BeginsWithPad, Modest

-----------------------------------------------------------------------------
(* Requests                                                                *)

\* What a careful client asks for fits behind the system prompt.
LEMMA FitsIs ==
    ASSUME Modest, NEW r \in Prompts, NEW q \in SystemPrompts, Fits(r, q), q # << >>
    PROVE  0 < r.n_predict /\ Len(q) + Len(r.prompt) + r.n_predict <= NCtx
    BY DEF Fits, Modest

LEMMA LaunchKeeps ==
    ASSUME Modest, IInv, NEW s \in Slots, NEW r \in Prompts, Launch(s, r)
    PROVE  IInv'
    <1> DEFINE x == Launched(slot[s], r)
    <1>1. Typed /\ SystemInv
        BY DEF IInv
    <1>2. /\ x \in SlotRecord /\ x.state = "prompt" /\ x.prompt_tokens = << >> /\ Fresh(x)
          /\ x.n_past = 0 /\ x.n_decoded = 0 /\ x.i_batch = -1 /\ x.prompt = r.prompt
          /\ x.n_predict = r.n_predict /\ x.cache_tokens = slot[s].cache_tokens
          /\ x.cache_prompt = r.cache_prompt
        BY <1>1, LaunchedIs
    <1>3. slot' = [slot EXCEPT ![s] = x]
        BY DEF Launch
    <1>4. /\ InTasks /\ ~Busy(s) /\ Started /\ Fits(r, system_prompt) /\ Cacheable(r)
          /\ UNCHANGED <<kv, systemVars, context, file>>
        BY DEF Launch
    <1>5. ~(clean_kv_cache /\ ~system_need_update)
        BY <1>1, <1>4 DEF SystemInv, Started, Modest
    <1>6. system_prompt # << >> =>
              0 < x.n_predict /\ Len(system_prompt) + Len(x.prompt) + x.n_predict <= NCtx
        BY <1>1, <1>2, <1>4, FitsIs DEF Typed
    <1> HIDE DEF x
    <1>7. ~Begun(x) /\ x.state # "idle"
        BY <1>2 DEF Begun
    <1>8. ~BeginsWithPad(x)
        BY <1>2, <1>4, CacheableIs
    <1> QED BY <1>2, <1>3, <1>4, <1>5, <1>6, <1>7, <1>8, OneSlotAnew

LEMMA ReleaseKeeps ==
    ASSUME IInv, InTasks, NEW s \in Slots, NEW x, x = Released(slot[s]),
           slot' = [slot EXCEPT ![s] = x],
           context' = context \/ context' = [context EXCEPT ![s] = << >>],
           UNCHANGED <<kv, systemVars, file>>
    PROVE  IInv'
    <1>1. Typed
        BY DEF IInv
    <1>2. /\ x = IdleWith(slot[s].cache_tokens, slot[s].n_keep)
          /\ x \in SlotRecord /\ x.state = "idle" /\ x.i_batch = -1
          /\ x.cache_tokens = slot[s].cache_tokens /\ x.n_keep = slot[s].n_keep
          /\ ~Begun(x) /\ ~Fresh(x)
        BY <1>1, ReleasedIs
    <1>3. x = IdleWith(x.cache_tokens, x.n_keep)
        BY <1>2
    <1> QED BY <1>2, <1>3, OneSlotAnew

LEMMA LaunchRefusedKeeps ==
    ASSUME Modest, IInv, NEW s \in Slots, NEW r \in Prompts, LaunchRefused(s, r)
    PROVE  IInv'
    <1> DEFINE x == Released(Launched(slot[s], r))
    <1>1. Typed
        BY DEF IInv
    <1>2. /\ Launched(slot[s], r) \in SlotRecord
          /\ Launched(slot[s], r).cache_tokens = slot[s].cache_tokens
        BY <1>1, LaunchedIs
    <1>3. Launched(slot[s], r).n_keep \in Int /\ Launched(slot[s], r).cache_tokens \in Seq(Nat)
        BY <1>2 DEF SlotRecord
    <1>4. /\ x = IdleWith(Launched(slot[s], r).cache_tokens, Launched(slot[s], r).n_keep)
          /\ x \in SlotRecord /\ x.state = "idle" /\ x.i_batch = -1
          /\ x.cache_tokens = slot[s].cache_tokens /\ x.n_keep = Launched(slot[s], r).n_keep
          /\ ~Begun(x) /\ ~Fresh(x)
        BY <1>2, <1>3, IdleRecord DEF Released
    <1>5. x = IdleWith(x.cache_tokens, x.n_keep)
        BY <1>2, <1>4
    <1>6. slot' = [slot EXCEPT ![s] = x]
        BY DEF LaunchRefused
    <1>7. InTasks /\ UNCHANGED <<kv, systemVars, context, file>>
        BY DEF LaunchRefused
    <1> HIDE DEF x
    <1> QED BY <1>4, <1>5, <1>6, <1>7, OneSlotAnew

LEMMA CancelKeeps ==
    ASSUME IInv, NEW s \in Slots, Cancel(s)
    PROVE  IInv'
    <1>1. slot' = [slot EXCEPT ![s] = Released(slot[s])]
        BY DEF Cancel
    <1>2. InTasks /\ context' = [context EXCEPT ![s] = << >>] /\ UNCHANGED <<kv, systemVars, file>>
        BY DEF Cancel
    <1> QED BY <1>1, <1>2, ReleaseKeeps

\* A system prompt comes when no slot has anything in the cache.
LEMMA LaunchWithSystemKeeps ==
    ASSUME Modest, IInv, NEW s \in Slots, NEW r \in Prompts, NEW q \in SystemPrompts,
           LaunchWithSystem(s, r, q)
    PROVE  IInv'
    <1> DEFINE x == Launched(slot[s], r)
    <1>0. /\ Typed /\ PhaseInv /\ SystemInv /\ CacheInv /\ FileInv
          /\ \A t \in Slots : SlotInv(t)
        BY DEF IInv, SlotsInv
    <1>1. /\ x \in SlotRecord /\ x.state = "prompt" /\ x.prompt_tokens = << >> /\ Fresh(x)
          /\ x.n_past = 0 /\ x.n_decoded = 0 /\ x.i_batch = -1 /\ x.prompt = r.prompt
          /\ x.n_predict = r.n_predict /\ x.cache_tokens = slot[s].cache_tokens
          /\ x.cache_prompt = r.cache_prompt
        BY <1>0, LaunchedIs
    <1>2. /\ pc = "tasks" /\ pc' = pc /\ visit' = visit /\ UNCHANGED batchVars
          /\ Fits(r, q) /\ Cacheable(r) /\ \A t \in Slots : ~Busy(t) /\ slot[t].cache_tokens = << >>
          /\ slot' = [t \in Slots |-> IF t = s THEN x ELSE Released(slot[t])]
          /\ system_prompt' = q /\ system_need_update' = TRUE
          /\ context' = [t \in Slots |-> << >>]
          /\ UNCHANGED <<kv, system_tokens, clean_kv_cache, file>>
        BY DEF LaunchWithSystem, InTasks, Modest
    <1> HIDE DEF x
    <1>3. /\ slot'[s] = x /\ \A t \in Slots \ {s} : slot'[t] = Released(slot[t])
          /\ \A t \in Slots : context'[t] = << >>
        BY <1>2
    <1>4. ASSUME NEW t \in Slots
          PROVE  slot'[t] \in SlotRecord /\ slot'[t].i_batch = -1 /\ slot'[t].state # "done_prompt"
                 /\ slot'[t].cache_tokens = << >> /\ ~Begun(slot'[t])
        <2>1. CASE t = s
            BY <1>1, <1>2, <1>3, <2>1 DEF Begun
        <2>2. CASE t # s
            BY <1>0, <1>2, <1>3, <2>2, ReleasedIs
        <2> QED BY <2>1, <2>2
    <1>5. Typed'
        <2>1. slot' \in [Slots -> SlotRecord]
            BY <1>2, <1>3, <1>4
        <2>2. << >> \in Seq(Tok)
            OBVIOUS
        <2>3. context' \in [Slots -> Seq(Tok)]
            BY <1>2, <2>2
        <2> QED BY <1>0, <1>2, <2>1, <2>3 DEF Typed, batchVars
    <1>6. PhaseInv' /\ IndexesInv' /\ ShiftInv' /\ BatchInv'
        <2>1. visit' \in Slots
            BY <1>0, <1>2 DEF PhaseInv
        <2> QED BY <1>2, <1>4, <2>1, BetweenIterations
    <1>7. CacheInv' /\ FileInv'
        BY <1>0, <1>2, SameCache, SameFile
    <1>8. SystemInv'
        <2>1. L' = L /\ Held' = Held
            BY <1>2 DEF L, Held
        <2> QED BY <1>0, <1>2, <1>4, <2>1 DEF SystemInv
    <1>9. ASSUME NEW t \in Slots PROVE SlotInv(t)'
        <2>1. CachedInv(t)'
            BY <1>4 DEF CachedInv, Padding
        <2>2. CASE t = s
            <3>0. ~BeginsWithPad(x)
                BY <1>1, <1>2, CacheableIs
            <3>1. RestInv(t)'
                BY <1>1, <1>3, <2>2, <3>0 DEF RestInv
            <3>2. BudgetInv(t)'
                <4>1. SUFFICES ASSUME q # << >>
                               PROVE  x.n_decoded < x.n_predict
                                      /\ Len(q) + Unsaid(x) + Len(x.prompt) <= NCtx
                    BY <1>1, <1>2, <1>3, <2>2 DEF BudgetInv
                <4>2. 0 < r.n_predict /\ Len(q) + Len(r.prompt) + r.n_predict <= NCtx
                    BY <1>2, <4>1, FitsIs
                <4>3. x.n_predict \in Int /\ Unsaid(x) = x.n_predict
                    BY <1>1 DEF SlotRecord, Unsaid
                <4>4. x.prompt \in Seq(Tok) /\ q \in Seq(Tok) /\ NCtx \in Nat
                    BY <1>1, Basics DEF SlotRecord
                <4>5. Len(q) \in Nat /\ Len(x.prompt) \in Nat
                    BY <4>4
                <4> QED BY <1>1, <4>2, <4>3, <4>4, <4>5
            <3> QED BY <1>4, <2>1, <3>1, <3>2 DEF SlotInv
        <2>3. CASE t # s
            <3>1. slot'[t] = IdleWith(slot[t].cache_tokens, slot[t].n_keep) /\ slot'[t].state = "idle"
                  /\ slot'[t].cache_tokens = slot[t].cache_tokens /\ slot'[t].n_keep = slot[t].n_keep
                BY <1>0, <1>3, <2>3, ReleasedIs
            <3>2. RestInv(t)'
                BY <3>1 DEF RestInv, Fresh
            <3>3. BudgetInv(t)'
                BY <3>1 DEF BudgetInv
            <3> QED BY <1>4, <2>1, <3>2, <3>3 DEF SlotInv
        <2> QED BY <2>2, <2>3
    <1>10. SlotsInv'
        BY <1>9 DEF SlotsInv
    <1> QED BY <1>5, <1>6, <1>7, <1>8, <1>10 DEF IInv

-----------------------------------------------------------------------------
(* Saving, restoring and erasing a slot                                    *)

\* Removing behind the system prompt takes cells of this slot alone.
LEMMA RemovedIs ==
    ASSUME Typed, KvInv, NEW s \in Slots, NEW lo \in Nat \cup {-1}, NEW hi \in Int, lo >= L \/ L = 0
    PROVE  /\ Removed(kv, s + 1, lo, hi) = SetToBag(Held \ HitsOf(Held, s + 1, lo, hi))
           /\ \A c \in HitsOf(Held, s + 1, lo, hi) : c \in Held /\ c.seq_id = {s + 1}
    <1>1. s + 1 \in Nat
        BY Basics
    <1>2. Sane(Held) /\ kv = SetToBag(Held)
        BY KvIsSane DEF KvInv
    <1>3. ASSUME NEW c \in HitsOf(Held, s + 1, lo, hi)
          PROVE  c \in Held /\ c.seq_id = {s + 1}
        <2>1. c \in Held /\ s + 1 \in c.seq_id /\ c.pos >= lo
            BY DEF HitsOf
        <2>2. c.pos >= L
            BY <2>1, Owners, Lengths
        <2> QED BY <2>1, <2>2, Owners
    <1>4. Removed(SetToBag(Held), s + 1, lo, hi) = SetToBag(Held \ HitsOf(Held, s + 1, lo, hi))
        BY <1>1, <1>2, <1>3, RemovedSet
    <1> QED BY <1>2, <1>3, <1>4

LEMMA KvOf ==
    ASSUME NEW S, kv' = SetToBag(S)
    PROVE  Held' = S
    BY SetBag DEF Held

\* Without some cells of slots the cache is as it should be.
LEMMA KvLess ==
    ASSUME Typed, KvInv, UNCHANGED system_tokens, NEW S \in SUBSET Held, kv' = SetToBag(S),
           \A c \in Held \ S : c.pos >= L
    PROVE  KvInv' /\ Held' = S
    <1>1. Held' = S /\ L' = L
        BY KvOf DEF L
    <1>2. IsFiniteSet(S)
        BY FS_Subset DEF KvInv
    <1>3. ASSUME NEW j \in 1 .. L PROVE SystemCell(system_tokens, j) \in S
        <2>1. SystemCell(system_tokens, j) \in Held
            BY DEF KvInv
        <2>2. SystemCell(system_tokens, j).pos = j - 1
            BY DEF SystemCell
        <2>3. ~(SystemCell(system_tokens, j).pos >= L)
            BY <2>2, Lengths
        <2> QED BY <2>1, <2>3
    <1> QED BY <1>1, <1>2, <1>3 DEF KvInv

LEMMA SlotActionKeeps ==
    ASSUME Modest, IInv, NEW s \in Slots, SlotAction(s), NEW toks \in Seq(Nat),
           slot' \in [Slots -> SlotRecord],
           slot'[s] = IdleWith(toks, slot[s].n_keep), \A t \in Slots \ {s} : slot'[t] = slot[t],
           KvInv', FileInv', CachedInv(s)',
           \A c \in Held : c.seq_id # {s + 1} => c \in Held',
           \A c \in Held' : c.seq_id # {s + 1} => c \in Held,
           clean_kv_cache => Held' = {} /\ DOMAIN file'.cells = {} /\ toks = << >>
    PROVE  IInv'
    <1>0. /\ Typed /\ PhaseInv /\ SystemInv /\ \A t \in Slots : SlotInv(t)
          /\ pc = "tasks" /\ pc' = pc /\ visit' = visit /\ UNCHANGED batchVars /\ ~Busy(s)
          /\ UNCHANGED <<system_prompt, system_tokens, system_need_update, clean_kv_cache, context>>
        BY DEF IInv, SlotsInv, SlotAction, InTasks, systemVars
    <1>1. system_prompt = << >> /\ ~system_need_update
        BY DEF SlotAction, Modest
    <1>2. /\ slot'[s].state = "idle" /\ slot'[s].cache_tokens = toks /\ slot'[s].i_batch = -1
          /\ slot'[s].n_keep = slot[s].n_keep /\ ~Begun(slot'[s]) /\ ~Fresh(slot'[s])
        BY <1>0, SlotFields, IdleRecord
    <1>3. Typed'
        BY <1>0 DEF Typed, batchVars
    <1>4. \A t \in Slots : slot'[t].i_batch = -1 /\ slot'[t].state # "done_prompt"
        BY <1>0, <1>2, NoIndexes
    <1>5. PhaseInv' /\ IndexesInv' /\ ShiftInv' /\ BatchInv'
        <2>1. visit' \in Slots
            BY <1>0 DEF PhaseInv
        <2> QED BY <1>0, <1>4, <2>1, BetweenIterations
    <1>6. SystemInv'
        <2>1. L' = L
            BY <1>0 DEF L
        <2>2. clean_kv_cache' =>
                  Held' = {} /\ DOMAIN file'.cells = {} /\ \A t \in Slots : slot'[t].cache_tokens = << >>
            BY <1>0, <1>2 DEF SystemInv
        <2>3. clean_kv_cache' /\ ~system_need_update' =>
                  system_prompt' = << >> /\ \A t \in Slots : ~Busy(t)'
            BY <1>0, <1>2 DEF SystemInv, Busy
        <2> QED BY <1>0, <1>1, <2>1, <2>2, <2>3 DEF SystemInv
    <1>11. CacheInv'
        BY DEF CacheInv
    <1>7. ToCome = {}
        BY <1>0, NothingComing
    <1>8. ASSUME NEW t \in Slots \ {s} PROVE SlotInv(t)'
        <2>1. {t + 1} # {s + 1}
            <3>1. t + 1 # s + 1
                BY Basics
            <3> QED BY <3>1
        <2>2. \A c \in Held' : c.seq_id = {t + 1} => c \in Held
            BY <2>1
        <2>3. \A p, k : Cell(t, p, k).seq_id = {t + 1}
            BY DEF Cell
        <2>4. \A p, k : Cell(t, p, k) \in Held => Cell(t, p, k) \in Held'
            BY <2>1, <2>3
        <2> QED BY <1>0, <1>7, <2>2, <2>4, SlotStays
    <1>9. SlotInv(s)'
        <2>1. RestInv(s)'
            BY <1>2 DEF RestInv
        <2>2. BudgetInv(s)'
            BY <1>2 DEF BudgetInv
        <2> QED BY <1>2, <2>1, <2>2 DEF SlotInv
    <1>10. SlotsInv'
        BY <1>8, <1>9 DEF SlotsInv
    <1> QED BY <1>3, <1>5, <1>6, <1>10, <1>11 DEF IInv

\* An idle slot with other tokens.
LEMMA IdleAnew ==
    ASSUME Typed, NEW s \in Slots, SlotInv(s), ~Busy(s), NEW toks \in Seq(Nat)
    PROVE  /\ slot[s] = IdleWith(slot[s].cache_tokens, slot[s].n_keep)
           /\ [slot[s] EXCEPT !.cache_tokens = toks] = IdleWith(toks, slot[s].n_keep)
           /\ IdleWith(toks, slot[s].n_keep) \in SlotRecord
    <1>1. slot[s] = IdleWith(slot[s].cache_tokens, slot[s].n_keep)
        BY DEF SlotInv, RestInv, Busy
    <1>2. [IdleWith(slot[s].cache_tokens, slot[s].n_keep) EXCEPT !.cache_tokens = toks]
              = IdleWith(toks, slot[s].n_keep)
        <2> DEFINE y == IdleWith(slot[s].cache_tokens, slot[s].n_keep)
                   idle == "idle"
                   none == << >>
                   no   == FALSE
                   neg  == -1
                   zero == 0
                   keep == slot[s].n_keep
                   old  == slot[s].cache_tokens
                   R(c) == [state |-> idle, prompt |-> none, cache_prompt |-> no, n_predict |-> neg,
                            n_keep |-> keep, n_discard |-> zero, prompt_tokens |-> none,
                            n_past |-> zero, n_decoded |-> zero, i_batch |-> neg, sampled |-> Pad,
                            cache_tokens |-> c]
        <2>1. y = R(old) /\ IdleWith(toks, keep) = R(toks)
            BY DEF IdleWith
        <2> HIDE DEF y, idle, none, no, neg, zero, keep, old
        <2>2. [y EXCEPT !.cache_tokens = toks] = R(toks)
            BY <2>1, SMTT(60)
        <2> QED BY <2>1, <2>2 DEF y, keep
    <1>3. slot[s].n_keep \in Int
        BY SlotFields
    <1> QED BY <1>1, <1>2, <1>3, IdleRecord

\* Slot actions come without a system prompt only.
LEMMA WithoutSystem ==
    ASSUME Modest, IInv, NEW s \in Slots, SlotAction(s)
    PROVE  L = 0 /\ pc = "tasks" /\ ToCome = {} /\ ~Busy(s) /\ UNCHANGED <<systemVars, context>>
           /\ CachedInv(s) /\ KvInv
    <1>1. system_prompt = << >> /\ ~system_need_update /\ pc = "tasks" /\ ~Busy(s)
          /\ UNCHANGED <<systemVars, context>>
        BY DEF SlotAction, Modest, InTasks
    <1>2. system_tokens = << >> /\ Typed /\ PhaseInv /\ SlotInv(s)
        BY <1>1 DEF IInv, SystemInv, SlotsInv
    <1>3. ToCome = {}
        BY <1>1, <1>2, NothingComing
    <1>4. CachedInv(s)
        BY <1>2, <1>3, WhenAllDecoded
    <1> QED BY <1>1, <1>2, <1>3, <1>4, KvHolds DEF L

LEMMA SaveKeeps ==
    ASSUME Modest, IInv, NEW s \in Slots, Save(s)
    PROVE  IInv'
    <1> DEFINE A == {AsSaved(c) : c \in CellsIn(Held, s + 1)}
               toks == slot[s].cache_tokens
    <1>0. /\ SlotAction(s) /\ UNCHANGED <<kv, slot>>
          /\ file' = [tokens |-> toks, cells |-> CellsOf(kv, s + 1)]
        BY DEF Save
    <1>1. /\ L = 0 /\ pc = "tasks" /\ ToCome = {} /\ ~Busy(s)
          /\ UNCHANGED <<system_prompt, system_tokens, clean_kv_cache, context>> /\ CachedInv(s)
          /\ KvInv
        BY <1>0, WithoutSystem DEF systemVars
    <1>2. Typed /\ KvInv /\ SystemInv /\ SlotInv(s)
        BY <1>1 DEF IInv, SlotsInv
    <1>3. toks \in Seq(Nat) /\ slot \in [Slots -> SlotRecord]
        BY <1>2, SlotFields DEF Typed
    <1>4. slot'[s] = IdleWith(toks, slot[s].n_keep)
        BY <1>0, <1>1, <1>2, <1>3, IdleAnew
    <1>5. KvInv' /\ Held' = Held
        BY <1>0, <1>1, <1>2, SameKv DEF Held
    <1>6. CachedInv(s)'
        BY <1>0, <1>1, <1>5 DEF CachedInv, L, Padding
    <1>7. /\ file'.cells = SetToBag(A) /\ DOMAIN file'.cells = A /\ file'.tokens = toks
        BY <1>0, <1>2, SequenceOf, SetBag
    <1>8. FileInv'
        <2>0. \A c \in CellsIn(Held, s + 1) : AsSaved(c).pos = c.pos /\ AsSaved(c).tok = c.tok
            BY DEF AsSaved
        <2>1. IsFiniteSet(A)
            <3>1. IsFiniteSet(CellsIn(Held, s + 1))
                BY <1>2, FS_Subset DEF KvInv, CellsIn
            <3> DEFINE f == [c \in CellsIn(Held, s + 1) |-> AsSaved(c)]
            <3>2. f \in Surjection(CellsIn(Held, s + 1), A)
                BY DEF Surjection
            <3> QED BY <3>1, <3>2, FS_Surjection
        <2>2. \A c \in A : c.pos \in 0 .. NCtx - 2 /\ c.tok \in Tok
            BY <1>2, <2>0 DEF KvInv, CellsIn
        <2>3. \A c, d \in A : c.pos = d.pos => c = d
            <3>1. SUFFICES ASSUME NEW c \in CellsIn(Held, s + 1), NEW d \in CellsIn(Held, s + 1),
                                  AsSaved(c).pos = AsSaved(d).pos
                           PROVE  AsSaved(c) = AsSaved(d)
                OBVIOUS
            <3>2. c.pos = d.pos
                BY <2>0, <3>1
            <3>3. c = d
                BY <1>2, <3>2, OneAtPosition
            <3> QED BY <3>3
        <2>4. ASSUME ~Padding(toks), NEW j \in 1 .. Len(toks)
              PROVE  [pos |-> j - 1, tok |-> toks[j]] \in A
            <3>1. Cell(s, L + j - 1, toks[j]) \in Held
                BY <1>1, <2>4 DEF CachedInv, Padding
            <3>2. L + j - 1 = j - 1
                BY <1>1, <1>3
            <3>3. /\ Cell(s, L + j - 1, toks[j]) \in CellsIn(Held, s + 1)
                  /\ AsSaved(Cell(s, L + j - 1, toks[j])) = [pos |-> j - 1, tok |-> toks[j]]
                BY <3>1, <3>2 DEF CellsIn, Cell, AsSaved
            <3> QED BY <3>3
        <2> HIDE DEF A, toks
        <2> QED BY <1>3, <1>7, <2>1, <2>2, <2>3, <2>4 DEF FileInv
    <1>9. clean_kv_cache => Held' = {} /\ DOMAIN file'.cells = {} /\ toks = << >>
        <2>1. Held = {} => A = {}
            BY DEF CellsIn
        <2> QED BY <1>2, <1>5, <1>7, <2>1 DEF SystemInv
    <1> HIDE DEF toks, A
    <1> QED BY <1>0, <1>3, <1>4, <1>5, <1>6, <1>8, <1>9, SlotActionKeeps

\* What is left of the cache when a slot's sequence is removed.
LEMMA Cleared ==
    ASSUME Modest, IInv, NEW s \in Slots, SlotAction(s)
    PROVE  LET S == {c \in Held : c.seq_id # {s + 1}}
           IN  Removed(kv, s + 1, -1, -1) = SetToBag(S) /\ \A c \in Held : c.pos >= L
    <1> DEFINE S == {c \in Held : c.seq_id # {s + 1}}
               H == HitsOf(Held, s + 1, -1, -1)
    <1>1. L = 0 /\ Typed /\ KvInv
        BY WithoutSystem DEF IInv
    <1>2. \A c \in Held : c.pos >= L /\ c.pos >= -1
        BY <1>1, Owners
    <1>3. Removed(kv, s + 1, -1, -1) = SetToBag(Held \ H) /\ \A c \in H : c.seq_id = {s + 1}
        BY <1>1, RemovedIs
    <1>4. ASSUME NEW c \in Held PROVE c \in H <=> c.seq_id = {s + 1}
        BY <1>2, <1>3 DEF HitsOf
    <1>5. Held \ H = S
        BY <1>4
    <1> QED BY <1>2, <1>3, <1>5

\* The sequence of the slot is gone, or nothing is, and it remembers nothing.
LEMMA ForgetKeeps ==
    ASSUME Modest, IInv, NEW s \in Slots, Erase(s) \/ RestoreFails(s)
    PROVE  IInv'
    <1> DEFINE S == {c \in Held : c.seq_id # {s + 1}}
    <1>0. /\ SlotAction(s)
          /\ kv' = kv \/ kv' = Removed(kv, s + 1, -1, -1)
          /\ slot' = [slot EXCEPT ![s].cache_tokens = << >>] /\ UNCHANGED file
        BY DEF Erase, RestoreFails
    <1>1. /\ Typed /\ KvInv /\ SystemInv /\ FileInv /\ SlotInv(s) /\ ~Busy(s) /\ L = 0
          /\ UNCHANGED <<system_prompt, system_tokens, clean_kv_cache, context>>
        BY <1>0, WithoutSystem DEF IInv, SlotsInv, systemVars
    <1>2. << >> \in Seq(Nat) /\ slot \in [Slots -> SlotRecord]
        BY <1>1 DEF Typed
    <1>3. /\ [slot[s] EXCEPT !.cache_tokens = << >>] = IdleWith(<< >>, slot[s].n_keep)
          /\ IdleWith(<< >>, slot[s].n_keep) \in SlotRecord
        BY <1>1, <1>2, IdleAnew
    <1>4. /\ slot'[s] = IdleWith(<< >>, slot[s].n_keep) /\ \A t \in Slots \ {s} : slot'[t] = slot[t]
          /\ slot' \in [Slots -> SlotRecord]
        BY <1>0, <1>2, <1>3
    <1>7. slot'[s].cache_tokens = << >>
        BY <1>4 DEF IdleWith
    <1>5. CASE kv' = kv
        <2>1. KvInv' /\ Held' = Held
            BY <1>1, <1>5, SameKv DEF Held
        <2>2. FileInv'
            BY <1>0, <1>1, SameFile
        <2>3. CachedInv(s)'
            <3>1. Len(slot'[s].cache_tokens) = 0
                BY <1>7
            <3> QED BY <3>1 DEF CachedInv, Padding
        <2>4. clean_kv_cache => Held' = {} /\ DOMAIN file'.cells = {}
            BY <1>0, <1>1, <2>1 DEF SystemInv
        <2> QED BY <1>2, <1>4, <2>1, <2>2, <2>3, <2>4, <1>0, SlotActionKeeps
    <1>6. CASE kv' = Removed(kv, s + 1, -1, -1)
        <2>1. kv' = SetToBag(S) /\ \A c \in Held : c.pos >= L
            BY <1>0, <1>6, Cleared
        <2>2. KvInv' /\ Held' = S
            BY <1>1, <2>1, KvLess
        <2>3. FileInv'
            BY <1>0, <1>1, SameFile
        <2>4. CachedInv(s)'
            <3>1. Len(slot'[s].cache_tokens) = 0
                BY <1>7
            <3> QED BY <3>1 DEF CachedInv, Padding
        <2>5. clean_kv_cache => Held' = {} /\ DOMAIN file'.cells = {}
            BY <1>0, <1>1, <2>2 DEF SystemInv
        <2> QED BY <1>2, <1>4, <2>2, <2>3, <2>4, <2>5, <1>0, SlotActionKeeps
    <1> QED BY <1>0, <1>5, <1>6

LEMMA RestoreKeeps ==
    ASSUME Modest, IInv, NEW s \in Slots, Restore(s)
    PROVE  IInv'
    <1> DEFINE S == {c \in Held : c.seq_id # {s + 1}}
               F == DOMAIN file.cells
               N == {InSeq(c, s + 1) : c \in F}
               toks == file.tokens
    <1>0. /\ SlotAction(s) /\ file.cells # EmptyBag /\ UNCHANGED file
          /\ kv' = WithCells(Removed(kv, s + 1, -1, -1), s + 1, file.cells)
          /\ slot' = [slot EXCEPT ![s].cache_tokens = toks]
        BY DEF Restore
    <1>1. /\ Typed /\ KvInv /\ SystemInv /\ FileInv /\ SlotInv(s) /\ ~Busy(s) /\ L = 0
          /\ UNCHANGED <<system_prompt, system_tokens, clean_kv_cache, context>>
        BY <1>0, WithoutSystem DEF IInv, SlotsInv, systemVars
    <1>2. /\ toks \in Seq(Nat) /\ slot \in [Slots -> SlotRecord]
          /\ file.cells = SetToBag(F) /\ IsFiniteSet(F)
          /\ \A c \in F : c.pos \in 0 .. NCtx - 2 /\ c.tok \in Tok
          /\ \A c, d \in F : c.pos = d.pos => c = d
        BY <1>1 DEF Typed, FileInv
    <1>3. /\ [slot[s] EXCEPT !.cache_tokens = toks] = IdleWith(toks, slot[s].n_keep)
          /\ IdleWith(toks, slot[s].n_keep) \in SlotRecord
        BY <1>1, <1>2, IdleAnew
    <1>4. /\ slot'[s] = IdleWith(toks, slot[s].n_keep) /\ \A t \in Slots \ {s} : slot'[t] = slot[t]
          /\ slot' \in [Slots -> SlotRecord]
        BY <1>0, <1>2, <1>3
    <1>5. Removed(kv, s + 1, -1, -1) = SetToBag(S) /\ \A c \in Held : c.pos >= L
        BY <1>0, Cleared
    <1>6. \A c \in F : /\ InSeq(c, s + 1).seq_id = {s + 1} /\ InSeq(c, s + 1).pos = c.pos
                       /\ InSeq(c, s + 1).tok = c.tok
                       /\ InSeq(c, s + 1) = Cell(s, c.pos, c.tok)
        BY DEF InSeq, Cell
    <1>7. \A c \in F : InSeq(c, s + 1) \notin S
        BY <1>6
    <1>8. kv' = SetToBag(S \cup N)
        <2> HIDE DEF S, F
        <2>1. WithCells(SetToBag(S), s + 1, SetToBag(F)) = SetToBag(S \cup N)
            BY <1>2, <1>7, WithCellsSet
        <2> QED BY <1>0, <1>2, <1>5, <2>1
    <1>9. Held' = S \cup N /\ L' = L
        BY <1>1, <1>8, KvOf DEF L
    <1>10. \A n \in N : n.seq_id = {s + 1} /\ n.pos \in 0 .. NCtx - 2 /\ n.tok \in Tok
                        /\ n = [pos |-> n.pos, seq_id |-> n.seq_id, tok |-> n.tok]
        <2>1. SUFFICES ASSUME NEW c \in F
                       PROVE  LET n == InSeq(c, s + 1)
                              IN  n.seq_id = {s + 1} /\ n.pos \in 0 .. NCtx - 2 /\ n.tok \in Tok
                                  /\ n = [pos |-> n.pos, seq_id |-> n.seq_id, tok |-> n.tok]
            OBVIOUS
        <2> QED BY <1>2, <1>6 DEF InSeq
    <1>11. KvInv'
        <2>1. IsFiniteSet(S \cup N)
            <3>1. IsFiniteSet(S)
                BY <1>1, FS_Subset DEF KvInv
            <3> DEFINE f == [c \in F |-> InSeq(c, s + 1)]
            <3>2. f \in Surjection(F, N)
                BY DEF Surjection
            <3>3. IsFiniteSet(N)
                BY <1>2, <3>2, FS_Surjection
            <3> QED BY <3>1, <3>3, FS_Union
        <2>2. ASSUME NEW c \in S \cup N
              PROVE  /\ c = [pos |-> c.pos, seq_id |-> c.seq_id, tok |-> c.tok]
                     /\ c.pos \in 0 .. NCtx - 2 /\ c.tok \in Tok
                     /\ ~(c.pos < L)
                     /\ c.pos >= L => \E t \in Slots : c.seq_id = {t + 1}
            <3>1. CASE c \in S
                <4>1. c \in Held
                    BY <3>1
                <4>2. c.pos >= L /\ c.pos \in Nat /\ L \in Nat
                    BY <1>1, <1>5, <4>1, Owners
                <4> QED BY <1>1, <4>1, <4>2 DEF KvInv
            <3>2. CASE c \in N
                <4>1. c.pos \in 0 .. NCtx - 2 /\ NCtx \in Nat
                    BY <1>10, <3>2, Basics
                <4> QED BY <1>1, <1>10, <3>2, <4>1
            <3> QED BY <3>1, <3>2
        <2>3. \A j \in 1 .. L' : SystemCell(system_tokens, j)' \in Held'
            BY <1>1, <1>9
        <2>4. ASSUME NEW c \in S \cup N, NEW d \in S \cup N, c.seq_id = d.seq_id, c.pos = d.pos
              PROVE  c = d
            <3>1. CASE c \in S
                <4>1. d \in S
                    BY <1>10, <2>4, <3>1
                <4> QED BY <1>1, <2>4, <3>1, <4>1 DEF KvInv
            <3>2. CASE c \in N
                <4>1. d \in N
                    BY <1>10, <2>4, <3>2
                <4>2. PICK a \in F : c = InSeq(a, s + 1)
                    BY <3>2
                <4>3. PICK b \in F : d = InSeq(b, s + 1)
                    BY <4>1
                <4>4. a.pos = b.pos
                    BY <1>6, <2>4, <4>2, <4>3
                <4> QED BY <1>2, <4>2, <4>3, <4>4
            <3> QED BY <3>1, <3>2
        <2> HIDE DEF S, N
        <2> QED BY <1>8, <1>9, <2>1, <2>2, <2>3, <2>4 DEF KvInv
    <1>12. FileInv'
        BY <1>0, <1>1, SameFile
    <1>13. CachedInv(s)'
        <2>1. slot'[s].cache_tokens = toks
            BY <1>1, <1>2, <1>4, IdleRecord, SlotFields
        <2>2. ASSUME ~Padding(toks), NEW j \in 1 .. Len(toks)
              PROVE  Cell(s, L' + j - 1, toks[j]) \in Held'
            <3>1. [pos |-> j - 1, tok |-> toks[j]] \in F
                BY <1>1, <2>2 DEF FileInv
            <3>2. Cell(s, j - 1, toks[j]) \in N
                BY <1>6, <3>1
            <3>3. L' + j - 1 = j - 1
                BY <1>1, <1>2, <1>9
            <3> QED BY <1>9, <3>2, <3>3
        <2> HIDE DEF toks
        <2> QED BY <2>1, <2>2 DEF CachedInv, Padding
    <1>14. ~clean_kv_cache
        <2>1. F # {}
            BY <1>0, <1>2 DEF EmptyBag
        <2> QED BY <1>1, <2>1 DEF SystemInv
    <1>15. /\ \A c \in Held : c.seq_id # {s + 1} => c \in Held'
           /\ \A c \in Held' : c.seq_id # {s + 1} => c \in Held
        BY <1>9, <1>10
    <1> HIDE DEF S, N, F, toks
    <1> QED BY <1>0, <1>2, <1>4, <1>11, <1>12, <1>13, <1>14, <1>15, SlotActionKeeps

-----------------------------------------------------------------------------
(* Beginning an iteration                                                  *)

\* Slots, system prompt and file stay.
LEMMA SameSystem ==
    ASSUME SystemInv, UNCHANGED <<systemVars, slot, file, kv>>,
           pc' # "check" \/ ~system_need_update
    PROVE  SystemInv'
    <1>1. UNCHANGED <<system_prompt, system_tokens, system_need_update, clean_kv_cache, slot, file, kv>>
        BY DEF systemVars
    <1> QED BY <1>1 DEF SystemInv, Busy, Held, L

LEMMA SlotsAreLeft ==
    ASSUME Typed, SlotsInv, UNCHANGED <<kv, system_tokens, system_prompt, slot, context>>,
           ToCome \subseteq ToCome'
    PROVE  SlotsInv'
    BY SlotIsLeft DEF SlotsInv

LEMMA SomeBusyKeeps ==
    ASSUME IInv, SomeBusy
    PROVE  IInv'
    <1>1. /\ pc = "check" /\ pc' = "shift" /\ visit' = 0 /\ 0 \in Slots
          /\ UNCHANGED <<kv, systemVars, slot, context, file, batch, view, n_batch>>
          /\ UNCHANGED <<system_prompt, system_tokens, system_need_update, clean_kv_cache>>
        BY Basics DEF SomeBusy, batchVars, systemVars
    <1>2. /\ Typed /\ PhaseInv /\ SystemInv /\ CacheInv /\ FileInv /\ SlotsInv /\ IndexesInv
          /\ \A t \in Slots : slot[t].i_batch = -1 /\ slot[t].state # "done_prompt"
        BY <1>1, NoIndexes DEF IInv
    <1>3. batch = << >> /\ view = 0 /\ Len(batch) = 0 /\ ToCome = {} /\ batch' = << >>
        BY <1>1, <1>2, NothingComing
    <1>4. Typed' /\ PhaseInv'
        <2>1. ~clean_kv_cache /\ ~system_need_update
            BY <1>1, <1>2 DEF SomeBusy, SystemInv, PhaseInv
        <2> QED BY <1>1, <1>2, <2>1 DEF Typed, PhaseInv
    <1>5. SystemInv' /\ CacheInv' /\ FileInv' /\ SlotsInv'
        BY <1>1, <1>2, <1>3, SameSystem, SameCache, SameFile, SlotsAreLeft
    <1>6. IndexesInv'
        BY <1>1, <1>2 DEF IndexesInv, IndexInv
    <1>7. ShiftInv'
        BY <1>1, Basics DEF ShiftInv
    <1>8. BatchInv'
        <2>1. Len(batch') = 0 /\ Coming' = {}
            BY <1>1, <1>3 DEF Coming, Decoded
        <2> QED BY <2>1 DEF BatchInv
    <1> QED BY <1>4, <1>5, <1>6, <1>7, <1>8 DEF IInv

\* The cache is cleaned before anything is in it.
LEMMA AllIdleKeeps ==
    ASSUME IInv, AllIdle
    PROVE  IInv'
    <1>1. /\ pc = "check" /\ pc' = "tasks" /\ UNCHANGED <<slot, context, file, visit, batchVars>>
          /\ UNCHANGED <<system_prompt, system_tokens, system_need_update>>
          /\ IF system_prompt = << >> /\ clean_kv_cache
             THEN kv' = EmptyBag /\ clean_kv_cache' = FALSE
             ELSE UNCHANGED <<kv, clean_kv_cache>>
        BY DEF AllIdle
    <1>2. /\ Typed /\ PhaseInv /\ SystemInv /\ CacheInv /\ FileInv /\ SlotsInv
          /\ \A t \in Slots : slot[t].i_batch = -1 /\ slot[t].state # "done_prompt"
        BY <1>1, NoIndexes DEF IInv
    <1>3. kv' = kv /\ clean_kv_cache' \in BOOLEAN /\ (clean_kv_cache' => clean_kv_cache)
        <2>1. CASE system_prompt = << >> /\ clean_kv_cache
            <3>1. Held = {} /\ system_prompt \in SystemPrompts
                BY <1>2, <2>1 DEF SystemInv, Typed
            <3>2. KvInv
                BY <1>1, <1>2, <2>1 DEF SystemInv, CacheInv
            <3>3. kv = EmptyBag
                BY <3>1, <3>2 DEF KvInv, EmptyBag
            <3> QED BY <1>1, <2>1, <3>3
        <2>2. CASE ~(system_prompt = << >> /\ clean_kv_cache)
            BY <1>1, <1>2, <2>2 DEF Typed
        <2> QED BY <2>1, <2>2
    <1>4. ToCome = {} /\ visit' \in Slots
        BY <1>1, <1>2, NothingComing DEF PhaseInv
    <1>5. PhaseInv' /\ IndexesInv' /\ ShiftInv' /\ BatchInv'
        BY <1>1, <1>2, <1>4, BetweenIterations
    <1>6. Typed'
        BY <1>1, <1>2, <1>3 DEF Typed, batchVars
    <1>7. CacheInv' /\ FileInv' /\ SlotsInv'
        BY <1>1, <1>2, <1>3, <1>4, SameCache, SameFile, SlotsAreLeft
    <1>8. SystemInv'
        <2>1. L' = L /\ Held' = Held
            BY <1>1, <1>3 DEF L, Held
        <2> QED BY <1>1, <1>2, <1>3, <2>1 DEF SystemInv, Busy
    <1> QED BY <1>5, <1>6, <1>7, <1>8 DEF IInv

\* The system prompt is in the cache for every sequence, and nothing else.
LEMMA SystemCellsIs ==
    ASSUME NEW q \in Seq(Tok)
    PROVE  SystemCells(q) = SetToBag({SystemCell(q, j) : j \in 1 .. Len(q)})
    <1> DEFINE cells == [j \in DOMAIN q |-> [pos |-> j - 1, seq_id |-> Seq0 .. NSlots, tok |-> q[j]]]
    <1>0. DOMAIN cells = 1 .. Len(q) /\ \A j \in 1 .. Len(q) : cells[j] = SystemCell(q, j)
        BY DEF SystemCell
    <1>1. SystemCells(q) = Stored(EmptyBag, cells)
        BY DEF SystemCells
    <1> HIDE DEF cells
    <1>2. \A i, j \in DOMAIN cells : cells[i] = cells[j] => i = j
        <2>1. SUFFICES ASSUME NEW i \in 1 .. Len(q), NEW j \in 1 .. Len(q),
                              SystemCell(q, i) = SystemCell(q, j)
                       PROVE  i = j
            BY <1>0
        <2>2. i - 1 = j - 1
            BY <2>1 DEF SystemCell
        <2> QED BY <2>2
    <1>3. Stored(SetToBag({}), cells) = SetToBag({} \cup {cells[j] : j \in DOMAIN cells})
        BY <1>2, StoredSet
    <1>4. {} \cup {cells[j] : j \in DOMAIN cells} = {SystemCell(q, j) : j \in 1 .. Len(q)}
        BY <1>0
    <1> QED BY <1>1, <1>3, <1>4 DEF EmptyBag

LEMMA KvOfSystem ==
    ASSUME Modest, Typed, Len(system_prompt) <= Size, kv' = SystemCells(system_prompt), system_tokens' = system_prompt
    PROVE  KvInv' /\ L' <= NCtx - 2
    <1> DEFINE S == {SystemCell(system_prompt, j) : j \in 1 .. Len(system_prompt)}
    <1>0. /\ system_prompt \in Seq(Tok) /\ Len(system_prompt) \in Nat /\ NCtx \in Nat
          /\ Len(system_prompt) <= NCtx - 2
        BY Basics DEF Typed, Modest
    <1>1. kv' = SetToBag(S) /\ Held' = S /\ L' = Len(system_prompt)
        BY <1>0, SystemCellsIs, KvOf DEF L
    <1>2. \A j : /\ SystemCell(system_prompt, j).pos = j - 1
                 /\ SystemCell(system_prompt, j).seq_id = Seq0 .. NSlots
                 /\ SystemCell(system_prompt, j).tok = system_prompt[j]
        BY DEF SystemCell
    <1>3. IsFiniteSet(S)
        <2> DEFINE f == [j \in 1 .. Len(system_prompt) |-> SystemCell(system_prompt, j)]
        <2>1. f \in Surjection(1 .. Len(system_prompt), S)
            BY DEF Surjection
        <2>2. IsFiniteSet(1 .. Len(system_prompt))
            BY <1>0, FS_Interval
        <2> QED BY <2>1, <2>2, FS_Surjection
    <1>4. ASSUME NEW j \in 1 .. Len(system_prompt)
          PROVE  LET c == SystemCell(system_prompt, j)
                 IN  /\ c = [pos |-> c.pos, seq_id |-> c.seq_id, tok |-> c.tok]
                     /\ c.pos \in 0 .. NCtx - 2 /\ c.tok \in Tok
                     /\ c = SystemCell(system_prompt, c.pos + 1)
                     /\ ~(c.pos >= L')
        <2>1. system_prompt[j] \in Tok
            BY <1>0
        <2>2. j - 1 \in 0 .. NCtx - 2 /\ (j - 1) + 1 = j /\ ~(j - 1 >= L')
            BY <1>0, <1>1
        <2>3. SystemCell(system_prompt, j)
                  = [pos |-> j - 1, seq_id |-> Seq0 .. NSlots, tok |-> system_prompt[j]]
            BY DEF SystemCell
        <2> QED BY <1>2, <2>1, <2>2, <2>3
    <1>5. \A c, d \in S : c.pos = d.pos => c = d
        <2>1. SUFFICES ASSUME NEW i \in 1 .. Len(system_prompt), NEW j \in 1 .. Len(system_prompt),
                              i - 1 = j - 1
                       PROVE  SystemCell(system_prompt, i) = SystemCell(system_prompt, j)
            BY <1>2
        <2>2. i = j
            BY <2>1
        <2> QED BY <2>2
    <1>6. /\ kv' = SetToBag(Held') /\ IsFiniteSet(Held')
          /\ \A c \in Held' : /\ c = [pos |-> c.pos, seq_id |-> c.seq_id, tok |-> c.tok]
                              /\ c.pos \in 0 .. NCtx - 2 /\ c.tok \in Tok
                              /\ c.pos < L' => c = SystemCell(system_tokens', c.pos + 1)
                              /\ c.pos >= L' => \E s \in Slots : c.seq_id = {s + 1}
        BY <1>1, <1>3, <1>4
    <1>7. /\ \A j \in 1 .. L' : SystemCell(system_tokens', j) \in Held'
          /\ \A c, d \in Held' : c.seq_id = d.seq_id /\ c.pos = d.pos => c = d
        BY <1>1, <1>5
    <1> HIDE DEF S
    <1> QED BY <1>0, <1>1, <1>6, <1>7 DEF KvInv

\* The slots while the system prompt is decoded have nothing in the cache.
LEMMA SlotsForSystem ==
    ASSUME IInv, pc = "tasks", system_need_update, UNCHANGED <<system_prompt, slot, context>>
    PROVE  SlotsInv'
    <1>1. SystemInv /\ SlotsInv
        BY DEF IInv
    <1>2. ASSUME NEW t \in Slots PROVE SlotInv(t)'
        <2>1. slot[t].cache_tokens = << >> /\ ~Begun(slot[t]) /\ SlotInv(t)
            BY <1>1 DEF SystemInv, SlotsInv
        <2>2. CachedInv(t)'
            BY <2>1 DEF CachedInv, Padding
        <2>3. RestInv(t) /\ BudgetInv(t)
            BY <2>1 DEF SlotInv
        <2>4. RestInv(t)'
            BY <2>3 DEF RestInv
        <2>5. BudgetInv(t)'
            BY <2>3 DEF BudgetInv
        <2> QED BY <2>1, <2>2, <2>4, <2>5 DEF SlotInv
    <1> QED BY <1>2 DEF SlotsInv

LEMMA UpdateKeeps ==
    ASSUME Modest, IInv, Update
    PROVE  IInv'
    <1>1. /\ pc = "tasks" /\ pc' = "check"
          /\ UNCHANGED <<system_prompt, slot, context, file, visit, batchVars>>
        BY DEF Update
    <1>2. /\ Typed /\ PhaseInv /\ SystemInv /\ CacheInv /\ FileInv /\ SlotsInv
          /\ \A t \in Slots : slot[t].i_batch = -1 /\ slot[t].state # "done_prompt"
        BY <1>1, NoIndexes DEF IInv
    <1>3. ToCome = {} /\ visit' \in Slots
        BY <1>1, <1>2, NothingComing DEF PhaseInv
    <1>4. FileInv'
        BY <1>1, <1>2, SameFile
    <1>7. PhaseInv' /\ IndexesInv' /\ ShiftInv' /\ BatchInv'
        BY <1>1, <1>2, <1>3, BetweenIterations
    <1>5. CASE system_need_update
        <2>1. /\ kv' = SystemCells(system_prompt) /\ system_tokens' = system_prompt
              /\ system_need_update' = FALSE /\ clean_kv_cache' = FALSE
              /\ Len(system_prompt) <= Size
            BY <1>5 DEF Update
        <2>2. KvInv' /\ L' <= NCtx - 2
            BY <1>2, <2>1, KvOfSystem
        <2>4. Typed'
            <3>1. system_prompt \in Seq(Tok)
                BY <1>2, Basics DEF Typed
            <3> QED BY <1>1, <1>2, <2>1, <3>1 DEF Typed, batchVars
        <2>5. SystemInv'
            BY <1>1, <2>1, <2>2 DEF SystemInv
        <2>7. SlotsInv'
            BY <1>1, <1>5, SlotsForSystem
        <2> QED BY <1>4, <1>7, <2>2, <2>4, <2>5, <2>7 DEF IInv, CacheInv
    <1>6. CASE ~system_need_update
        <2>1. UNCHANGED <<kv, system_tokens, system_need_update, clean_kv_cache>>
            BY <1>6 DEF Update
        <2>3. Typed'
            BY <1>1, <1>2, <2>1 DEF Typed, batchVars
        <2>4. SystemInv' /\ CacheInv' /\ SlotsInv'
            BY <1>1, <1>2, <1>3, <1>6, <2>1, SameSystem, SameCache, SlotsAreLeft DEF systemVars
        <2> QED BY <1>4, <1>7, <2>3, <2>4 DEF IInv
    <1> QED BY <1>5, <1>6

\* A system prompt that does not fit leaves its first tokens, and no slot is busy with it there.
LEMMA UpdateFailsKeeps ==
    ASSUME Modest, IInv, UpdateFails
    PROVE  IInv'
    <1>1. /\ pc = "tasks" /\ pc' = "check" /\ system_need_update
          /\ UNCHANGED <<system_prompt, system_need_update, slot, context, file, visit, batchVars>>
          /\ system_tokens' = system_prompt /\ clean_kv_cache' = FALSE
        BY DEF UpdateFails
    <1>2. /\ Typed /\ PhaseInv /\ SystemInv /\ CacheInv /\ FileInv /\ SlotsInv
          /\ \A t \in Slots : slot[t].i_batch = -1 /\ slot[t].state # "done_prompt"
        BY <1>1, NoIndexes DEF IInv
    <1>3. /\ system_prompt \in SystemPrompts /\ system_prompt \in Seq(Tok)
          /\ Len(system_prompt) \in Nat /\ NCtx \in Nat /\ NBatch \in Nat \ {0}
          /\ NUbatch \in Nat \ {0} /\ Size \in Nat /\ NCtx <= Size /\ NSlots \in Nat
        BY <1>2, Basics DEF Typed
    <1> DEFINE first(k) == [j \in 1 .. k |-> [pos |-> j - 1, seq_id |-> {Seq0},
                                              tok |-> system_prompt[j]]]
    <1>4. PICK k \in 0 .. Size :
              /\ Begins(k, Len(system_prompt))
              /\ k + Ubatch(k, Len(system_prompt)) > Size
              /\ kv' = Stored(EmptyBag, first(k))
        BY DEF UpdateFails, Modest
    <1>5. Len(system_prompt) > Size
        <2>1. Ubatch(k, Len(system_prompt)) <= Len(system_prompt) - k
            <3>1. k % NBatch \in Nat
                BY <1>3, <1>4
            <3> DEFINE r == NBatch - (k % NBatch)
            <3>2. r \in Int
                BY <1>3, <3>1
            <3> HIDE DEF r
            <3>3. Least(NUbatch, Least(r, Len(system_prompt) - k)) <= Len(system_prompt) - k
                BY <1>3, <1>4, <3>2 DEF Least
            <3> QED BY <3>3 DEF Ubatch, r
        <2>2. Ubatch(k, Len(system_prompt)) \in Int
            <3>1. k % NBatch \in Nat
                BY <1>3, <1>4
            <3> DEFINE r == NBatch - (k % NBatch)
            <3>2. r \in Int
                BY <1>3, <3>1
            <3> HIDE DEF r
            <3>3. Least(NUbatch, Least(r, Len(system_prompt) - k)) \in Int
                BY <1>3, <1>4, <3>2 DEF Least
            <3> QED BY <3>3 DEF Ubatch, r
        <2> QED BY <1>3, <1>4, <2>1, <2>2
    <1>6. ASSUME NEW t \in Slots, Busy(t) PROVE FALSE
        <2>1. ~Begun(slot[t]) /\ SlotInv(t)
            BY <1>1, <1>2 DEF SystemInv, SlotsInv
        <2>2. Fresh(slot[t]) /\ BudgetInv(t) /\ slot[t].state # "idle"
            BY <1>6, <2>1 DEF Begun, SlotInv, Busy
        <2>3. system_prompt # << >>
            BY <1>3, <1>5
        <2>4. /\ slot[t].n_decoded < slot[t].n_predict
              /\ Len(system_prompt) + Unsaid(slot[t]) + Len(slot[t].prompt) <= NCtx
            BY <2>2, <2>3 DEF BudgetInv
        <2>5. /\ slot[t].n_decoded \in Nat /\ slot[t].n_predict \in Int
              /\ Len(slot[t].prompt) \in Nat
            BY <1>2, SlotFields
        <2>6. Unsaid(slot[t]) = slot[t].n_predict - slot[t].n_decoded
            BY <2>2, <2>5 DEF Unsaid, Fresh
        <2> QED BY <1>3, <1>5, <2>4, <2>5, <2>6
    <1>7. LeftInv'
        <2>1. \A i, j \in DOMAIN first(k) : first(k)[i] = first(k)[j] => i = j
            <3>1. SUFFICES ASSUME NEW i \in 1 .. k, NEW j \in 1 .. k,
                                  [pos |-> i - 1, seq_id |-> {Seq0}, tok |-> system_prompt[i]]
                                = [pos |-> j - 1, seq_id |-> {Seq0}, tok |-> system_prompt[j]]
                           PROVE  i = j
                OBVIOUS
            <3>2. i - 1 = j - 1
                BY <3>1
            <3> QED BY <3>2
        <2> DEFINE S == {first(k)[j] : j \in 1 .. k}
        <2>2. DOMAIN first(k) = 1 .. k
            OBVIOUS
        <2>3. \A c \in S : c.pos \in 0 .. Size /\ c.seq_id = {Seq0}
            BY <1>3, <1>4
        <2> HIDE DEF first
        <2>4. Stored(SetToBag({}), first(k)) = SetToBag({} \cup {first(k)[j] : j \in DOMAIN first(k)})
            BY <2>1, StoredSet
        <2>5. kv' = SetToBag(S)
            BY <1>4, <2>2, <2>4 DEF EmptyBag
        <2>6. Held' = S
            BY <2>5, KvOf
        <2>7. Seq0 \in Seq0 .. NSlots
            BY <1>3 DEF Seq0
        <2> HIDE DEF S
        <2> QED BY <2>3, <2>6, <2>7 DEF LeftInv
    <1>8. ToCome = {} /\ visit' \in Slots
        BY <1>1, <1>2, NothingComing DEF PhaseInv
    <1>9. PhaseInv' /\ IndexesInv' /\ ShiftInv' /\ BatchInv'
        BY <1>1, <1>2, <1>8, BetweenIterations
    <1>10. FileInv' /\ SlotsInv' /\ Typed'
        <2>1. FileInv' /\ SlotsInv'
            BY <1>1, <1>2, SameFile, SlotsForSystem
        <2>2. Typed'
            BY <1>1, <1>2, <1>3 DEF Typed, batchVars
        <2> QED BY <2>1, <2>2
    <1>11. SystemInv'
        <2>1. \A t \in Slots : slot'[t].cache_tokens = << >> /\ ~Begun(slot'[t]) /\ ~Busy(t)'
            BY <1>1, <1>2, <1>6 DEF SystemInv, Busy
        <2> QED BY <1>1, <2>1 DEF SystemInv
    <1>12. CacheInv'
        BY <1>1, <1>7 DEF CacheInv
    <1> QED BY <1>9, <1>10, <1>11, <1>12 DEF IInv

-----------------------------------------------------------------------------
(* The context shift                                                       *)

\* A slot's turn of the first loop; it is not full afterwards.
LEMMA ShiftTurn ==
    ASSUME IInv, pc = "shift", NEW s \in Slots, visit = s, Turn("shift", "sampled"),
           UNCHANGED <<systemVars, file, batchVars>>,
           \A t \in Slots \ {s} : slot'[t] = slot[t],
           slot'[s].i_batch = -1, slot'[s].state # "done_prompt", ~Full(s)'
    PROVE  PhaseInv' /\ IndexesInv' /\ ShiftInv' /\ BatchInv' /\ ToCome' = {}
    <1>1. /\ Typed /\ PhaseInv /\ ShiftInv
          /\ UNCHANGED <<system_tokens, system_need_update, clean_kv_cache, batch, view, n_batch>>
        BY DEF IInv, systemVars, batchVars
    <1>2. batch' = << >> /\ view' = 0 /\ Len(batch') = 0 /\ Len(batch) = 0
        BY <1>1, NothingComing
    <1>3. \A t \in Slots : slot'[t].i_batch = -1 /\ slot'[t].state # "done_prompt"
        BY NoIndexes
    <1>4. NSlots \in Nat \ {0} /\ Slots = 0 .. NSlots - 1
        BY Basics
    <1>5. \/ pc' = "sampled" /\ visit' = 0 /\ s + 1 = NSlots
          \/ pc' = "shift" /\ visit' = s + 1 /\ s + 1 # NSlots
        BY DEF Turn
    <1>6. visit' \in Slots /\ pc' \in {"shift", "sampled"}
        BY <1>4, <1>5
    <1>7. PhaseInv'
        BY <1>1, <1>2, <1>4, <1>5, <1>6 DEF PhaseInv
    <1>8. IndexesInv'
        BY <1>3, <1>2 DEF IndexesInv, IndexInv
    <1>9. \A t \in Slots : t < s => ~Full(t)'
        <2>1. SUFFICES ASSUME NEW t \in Slots, t < s PROVE ~Full(t)'
            OBVIOUS
        <2>2. ~Full(t) /\ slot'[t] = slot[t]
            BY <1>1, <1>4, <2>1 DEF ShiftInv
        <2> QED BY <1>1, <2>2 DEF Full, Busy
    <1>10. \A t \in Slots : t <= s => ~Full(t)'
        BY <1>4, <1>9
    <1>11. ShiftInv'
        BY <1>4, <1>5, <1>10 DEF ShiftInv
    <1>12. Coming' = {}
        BY <1>2, <1>6 DEF Coming, Decoded
    <1>13. BatchInv'
        BY <1>2, <1>12 DEF BatchInv
    <1> QED BY <1>7, <1>8, <1>11, <1>12, <1>13 DEF ToCome

\* A context is full when a token is to come behind its last place, which a system prompt
\* and those who keep to its room leave free.
LEMMA FullIs ==
    ASSUME IInv, pc = "shift", NEW s \in Slots, Full(s)
    PROVE  /\ L = 0 /\ system_prompt = << >> /\ slot[s].state = "generating" /\ Begun(slot[s])
           /\ slot[s].n_past = NCtx - 1 /\ Len(context[s]) = NCtx - 1 /\ End(slot[s]) = NCtx - 1
           /\ slot[s].n_keep \in 0 .. NCtx - 4
    <1>1. Typed /\ PhaseInv /\ SystemInv /\ SlotInv(s) /\ NCtx \in Nat /\ NCtx >= 5
        BY Basics DEF IInv, SlotsInv
    <1>2. /\ slot[s].state \in {"idle", "prompt", "done_prompt", "generating"}
          /\ slot[s].n_past \in Nat /\ Len(context[s]) \in Nat /\ L \in Nat
          /\ slot[s].n_decoded \in Nat /\ slot[s].n_predict \in Int
        BY <1>1, SlotFields, Lengths
    <1>3. slot[s].state # "idle" /\ L + slot[s].n_past >= NCtx - 1
        BY DEF Full, Busy, L
    <1>4. slot[s].i_batch = -1 /\ slot[s].state # "done_prompt"
        BY NoIndexes
    <1>5. L <= NCtx - 2 /\ system_tokens = system_prompt
        BY KvHolds
    <1>6. ~Fresh(slot[s])
        BY <1>1, <1>2, <1>3, <1>5 DEF SlotInv, RestInv
    <1>7. Begun(slot[s]) /\ ProgressInv(s) /\ BudgetInv(s)
        BY <1>1, <1>3, <1>6 DEF Begun, SlotInv
    <1>8. slot[s].state = "generating" /\ slot[s].n_past = Len(context[s])
          /\ L + Len(context[s]) <= NCtx - 1
        BY <1>1, <1>2, <1>3, <1>4, <1>7, SMTT(60) DEF ProgressInv
    <1>9. L + slot[s].n_past = NCtx - 1
        BY <1>1, <1>2, <1>3, <1>8
    <1>10. system_prompt = << >>
        <2>1. SUFFICES ASSUME system_prompt # << >> PROVE FALSE
            OBVIOUS
        <2>2. /\ slot[s].n_decoded < slot[s].n_predict
              /\ L + Unsaid(slot[s]) + Len(context[s]) <= NCtx
            BY <1>3, <1>5, <1>6, <1>7, <2>1 DEF BudgetInv, L
        <2>3. Unsaid(slot[s]) = slot[s].n_predict - slot[s].n_decoded + 1
            BY <1>4, <1>8 DEF Unsaid
        <2> QED BY <1>1, <1>2, <1>8, <1>9, <2>2, <2>3, SMTT(60)
    <1>11. L = 0
        BY <1>5, <1>10 DEF L
    <1> QED BY <1>1, <1>2, <1>7, <1>8, <1>9, <1>10, <1>11 DEF ProgressInv, End, L

\* What goes is behind what stays, and something goes.
LEMMA DropIs ==
    ASSUME IInv, pc = "shift", NEW s \in Slots, Full(s)
    PROVE  /\ NKeep(slot[s]) \in 0 .. NCtx - 3 /\ NDiscard(slot[s]) \in Nat \ {0}
           /\ NKeep(slot[s]) + NDiscard(slot[s]) <= NCtx - 1
    <1>1. /\ slot[s].n_keep \in 0 .. NCtx - 4 /\ End(slot[s]) = NCtx - 1
          /\ NCtx \in Nat /\ NCtx >= 5 /\ AddBos \in {0, 1}
        BY FullIs, Basics
    <1>2. slot[s].n_discard \in Nat /\ slot[s].n_discard + AddBos <= 3
        BY SlotFields DEF IInv
    <1>3. NKeep(slot[s]) = slot[s].n_keep + AddBos /\ NKeep(slot[s]) \in 0 .. NCtx - 3
        BY <1>1 DEF NKeep
    <1>4. CASE slot[s].n_discard # 0
        <2>1. NDiscard(slot[s]) = slot[s].n_discard
            BY <1>4 DEF NDiscard
        <2> QED BY <1>1, <1>2, <1>3, <1>4, <2>1
    <1>5. CASE slot[s].n_discard = 0
        <2>1. NDiscard(slot[s]) = (NCtx - 1 - NKeep(slot[s])) \div 2
            BY <1>1, <1>5 DEF NDiscard
        <2>2. NCtx - 1 - NKeep(slot[s]) \in Nat /\ NCtx - 1 - NKeep(slot[s]) >= 2
            BY <1>1, <1>3
        <2> QED BY <1>1, <1>3, <2>1, <2>2
    <1> QED BY <1>4, <1>5

\* The cells of the slot before what goes stay, those behind it move up.
LEMMA ShiftedKv ==
    ASSUME IInv, pc = "shift", NEW s \in Slots, Full(s), UNCHANGED system_tokens,
           NEW keep \in Nat, NEW drop \in Nat \ {0}, keep + drop <= NCtx - 1,
           kv' = Shifted(Removed(kv, s + 1, keep, keep + drop), s + 1, keep + drop, NCtx - 1, -drop)
    PROVE  /\ KvInv'
           /\ \A c \in Held : c.seq_id # {s + 1} => c \in Held'
           /\ \A c \in Held' : c.seq_id # {s + 1} => c \in Held
           /\ \A c \in Held' : c.seq_id = {s + 1} => c.pos < NCtx - 1 - drop
           /\ \A p, t : p \in 0 .. keep - 1 /\ Cell(s, p, t) \in Held => Cell(s, p, t) \in Held'
           /\ \A p, t : p \in keep .. NCtx - 2 - drop /\ Cell(s, p + drop, t) \in Held =>
                            Cell(s, p, t) \in Held'
    <1> DEFINE H1 == HitsOf(Held, s + 1, keep, keep + drop)
               S1 == Held \ H1
               H2 == HitsOf(S1, s + 1, keep + drop, NCtx - 1)
               M  == {Moved(c, -drop) : c \in H2}
    <1>0. /\ Typed /\ KvInv /\ SlotInv(s) /\ L = 0 /\ L' = L /\ NCtx \in Nat /\ NCtx >= 5
          /\ s + 1 \in Nat
        BY FullIs, Basics, KvHolds DEF IInv, SlotsInv, L
    <1>1. Removed(kv, s + 1, keep, keep + drop) = SetToBag(S1)
        BY <1>0, RemovedIs
    <1>2. \A c \in Held : c.seq_id = {s + 1} => c.pos < NCtx - 1
        <2>1. HeldInv(s) /\ slot[s].n_past = NCtx - 1
            BY <1>0, FullIs DEF SlotInv
        <2> QED BY <1>0, <2>1 DEF HeldInv
    <1>3. \A c \in Held : /\ c.pos \in Nat /\ (s + 1 \in c.seq_id <=> c.seq_id = {s + 1})
                          /\ c.seq_id = {s + 1} => c = Cell(s, c.pos, c.tok)
        BY <1>0, Owners
    <1>4. \A c \in Held : c \in H1 <=> c.seq_id = {s + 1} /\ c.pos >= keep /\ c.pos < keep + drop
        BY <1>3 DEF HitsOf
    <1>5. \A c \in S1 : c \in H2 <=> c.seq_id = {s + 1} /\ c.pos >= keep + drop
        BY <1>0, <1>2, <1>3 DEF HitsOf
    <1>6. S1 \subseteq Held /\ H2 \subseteq S1
        BY DEF HitsOf
    <1>7. Sane(S1)
        <2>1. Sane(Held)
            BY <1>0, KvIsSane
        <2>2. IsFiniteSet(S1)
            BY <1>0, FS_Subset DEF KvInv
        <2> HIDE DEF S1
        <2> QED BY <1>6, <2>1, <2>2 DEF Sane
    <1> HIDE DEF H1, S1, H2
    <1>8. \A c \in S1 \ H2 : c.seq_id = {s + 1} => c.pos < keep
        <2>1. SUFFICES ASSUME NEW c \in S1 \ H2, c.seq_id = {s + 1} PROVE c.pos < keep
            OBVIOUS
        <2>2. c \in Held /\ c \notin H1 /\ c.pos \in Nat
            BY <1>3, <1>6 DEF S1
        <2> QED BY <1>4, <1>5, <2>1, <2>2
    <1>9. \A c \in H2 : /\ c \in Held /\ c.seq_id = {s + 1} /\ c.pos \in keep + drop .. NCtx - 2
                        /\ Moved(c, -drop) = Cell(s, c.pos - drop, c.tok)
        <2>1. SUFFICES ASSUME NEW c \in H2
                       PROVE  /\ c \in Held /\ c.seq_id = {s + 1}
                              /\ c.pos \in keep + drop .. NCtx - 2
                              /\ Moved(c, -drop) = Cell(s, c.pos - drop, c.tok)
            OBVIOUS
        <2>2. c \in Held /\ c.seq_id = {s + 1} /\ c.pos \in Nat /\ c.pos >= keep + drop
            BY <1>3, <1>5, <1>6
        <2>3. c.pos < NCtx - 1
            BY <1>2, <2>2
        <2>4. c.pos + (-drop) = c.pos - drop
            BY <2>2
        <2>5. Moved(c, -drop) = Cell(s, c.pos - drop, c.tok)
            BY <2>2, <2>4 DEF Moved, Cell
        <2>6. c.pos \in keep + drop .. NCtx - 2
            BY <1>0, <2>2, <2>3
        <2> QED BY <2>2, <2>5, <2>6
    <1>10. Shifted(SetToBag(S1), s + 1, keep + drop, NCtx - 1, -drop) = SetToBag((S1 \ H2) \cup M)
        <2>1. ASSUME NEW c \in H2, NEW e \in S1 \ H2, e.seq_id = c.seq_id
              PROVE  e.pos # c.pos + (-drop)
            <3>1. e.pos < keep /\ c.pos >= keep + drop /\ c.pos \in Nat
                BY <1>8, <1>9, <2>1
            <3>2. e.pos \in Nat
                BY <1>3, <1>6
            <3> QED BY <3>1, <3>2
        <2>2. \A c \in H2 : c.pos + (-drop) \in Nat
            BY <1>9
        <2>3. keep + drop \in Nat /\ NCtx - 1 \in Int /\ -drop \in Int
            BY <1>0
        <2> QED BY <1>0, <1>7, <2>1, <2>2, <2>3, ShiftedSet DEF H2
    <1>11. Held' = (S1 \ H2) \cup M /\ kv' = SetToBag(Held')
        BY <1>1, <1>10, KvOf
    <1>12. \A m \in M : \E c \in H2 : m = Cell(s, c.pos - drop, c.tok)
        BY <1>9
    <1>13. ASSUME NEW m \in M
           PROVE  /\ m = [pos |-> m.pos, seq_id |-> m.seq_id, tok |-> m.tok]
                  /\ m.pos \in keep .. NCtx - 2 - drop /\ m.tok \in Tok /\ m.seq_id = {s + 1}
        <2>1. PICK c \in H2 : m = Cell(s, c.pos - drop, c.tok)
            BY <1>12
        <2>2. c \in Held /\ c.pos \in keep + drop .. NCtx - 2
            BY <1>9
        <2>3. c.tok \in Tok
            BY <1>0, <2>2, Owners
        <2>4. m.pos = c.pos - drop /\ m.tok = c.tok /\ m.seq_id = {s + 1}
            BY <2>1 DEF Cell
        <2>5. c.pos - drop \in keep .. NCtx - 2 - drop
            BY <1>0, <2>2
        <2> QED BY <2>1, <2>3, <2>4, <2>5 DEF Cell
    <1>14. IsFiniteSet(Held')
        <2>1. IsFiniteSet(S1) /\ IsFiniteSet(H2)
            BY <1>6, <1>7, FS_Subset DEF Sane
        <2>2. IsFiniteSet(S1 \ H2)
            BY <2>1, FS_Subset
        <2>3. IsFiniteSet(M)
            <3> DEFINE f == [c \in H2 |-> Moved(c, -drop)]
            <3>1. f \in Surjection(H2, M)
                BY DEF Surjection
            <3> QED BY <2>1, <3>1, FS_Surjection
        <2> QED BY <1>11, <2>2, <2>3, FS_Union
    <1>15. ASSUME NEW c \in Held'
           PROVE  /\ c = [pos |-> c.pos, seq_id |-> c.seq_id, tok |-> c.tok]
                  /\ c.pos \in 0 .. NCtx - 2 /\ c.tok \in Tok /\ ~(c.pos < L')
                  /\ \E t \in Slots : c.seq_id = {t + 1}
        <2>1. CASE c \in S1 \ H2
            <3>1. c \in Held /\ c.pos \in Nat
                BY <1>3, <1>6, <2>1
            <3> QED BY <1>0, <3>1 DEF KvInv
        <2>2. CASE c \in M
            <3>1. c.pos \in 0 .. NCtx - 2 /\ c.pos >= 0
                BY <1>0, <1>13, <2>2
            <3> QED BY <1>0, <1>13, <2>2, <3>1
        <2> QED BY <1>11, <2>1, <2>2
    <1>16. ASSUME NEW c \in Held', NEW d \in Held', c.seq_id = d.seq_id, c.pos = d.pos
           PROVE  c = d
        <2>1. CASE c \in S1 \ H2 /\ d \in S1 \ H2
            BY <1>0, <1>6, <1>16, <2>1 DEF KvInv
        <2>2. CASE c \in M /\ d \in M
            <3>1. PICK a \in H2 : c = Cell(s, a.pos - drop, a.tok)
                BY <1>12, <2>2
            <3>2. PICK b \in H2 : d = Cell(s, b.pos - drop, b.tok)
                BY <1>12, <2>2
            <3>3. a.pos - drop = b.pos - drop
                BY <1>16, <3>1, <3>2 DEF Cell
            <3>4. /\ a \in Held /\ b \in Held /\ a.seq_id = {s + 1} /\ b.seq_id = {s + 1}
                  /\ a.pos \in Nat /\ b.pos \in Nat
                BY <1>3, <1>9
            <3>5. a.pos = b.pos
                BY <3>3, <3>4
            <3>6. a = b
                BY <1>0, <3>4, <3>5 DEF KvInv
            <3> QED BY <3>1, <3>2, <3>6
        <2>3. ASSUME NEW a \in S1 \ H2, NEW m \in M, a.seq_id = m.seq_id, a.pos = m.pos PROVE FALSE
            <3>1. m.seq_id = {s + 1} /\ m.pos \in keep .. NCtx - 2 - drop
                BY <1>13
            <3>2. a.pos < keep /\ a.pos \in Nat
                BY <1>3, <1>6, <1>8, <2>3, <3>1
            <3> QED BY <2>3, <3>1, <3>2
        <2> QED BY <1>11, <1>16, <2>1, <2>2, <2>3
    <1>17. KvInv'
        <2>1. \A j \in 1 .. L' : SystemCell(system_tokens, j)' \in Held'
            BY <1>0
        <2> QED BY <1>11, <1>14, <1>15, <1>16, <2>1 DEF KvInv
    <1>18. /\ \A c \in Held : c.seq_id # {s + 1} => c \in Held'
           /\ \A c \in Held' : c.seq_id # {s + 1} => c \in Held
        <2>1. \A c \in Held : c.seq_id # {s + 1} => c \in S1 /\ c \notin H2
            BY <1>4, <1>9 DEF S1
        <2> QED BY <1>6, <1>11, <1>13, <2>1
    <1>19. ASSUME NEW c \in Held', c.seq_id = {s + 1} PROVE c.pos < NCtx - 1 - drop
        <2>1. CASE c \in S1 \ H2
            <3>1. c.pos < keep /\ c.pos \in Nat
                BY <1>3, <1>6, <1>8, <1>19, <2>1
            <3> QED BY <1>0, <3>1
        <2>2. CASE c \in M
            <3>1. c.pos \in keep .. NCtx - 2 - drop
                BY <1>13, <2>2
            <3> QED BY <1>0, <3>1
        <2> QED BY <1>11, <2>1, <2>2
    <1>20. ASSUME NEW p \in 0 .. keep - 1, NEW t, Cell(s, p, t) \in Held PROVE Cell(s, p, t) \in Held'
        <2>1. Cell(s, p, t).pos = p
            BY DEF Cell
        <2>2. Cell(s, p, t) \notin H1
            BY <1>4, <1>20, <2>1
        <2>3. Cell(s, p, t) \notin H2
            BY <1>9, <2>1
        <2> QED BY <1>11, <1>20, <2>2, <2>3 DEF S1
    <1>21. ASSUME NEW p \in keep .. NCtx - 2 - drop, NEW t, Cell(s, p + drop, t) \in Held
           PROVE  Cell(s, p, t) \in Held'
        <2> DEFINE c == Cell(s, p + drop, t)
        <2>1. c.pos = p + drop /\ c.seq_id = {s + 1} /\ c.tok = t
            BY DEF Cell
        <2>2. c \notin H1
            BY <1>4, <1>21, <2>1
        <2>3. c \in H2
            BY <1>5, <1>21, <2>1, <2>2 DEF S1
        <2>4. Moved(c, -drop) = Cell(s, p, t)
            <3>1. c.pos - drop = p
                BY <2>1
            <3> QED BY <1>9, <2>1, <2>3, <3>1
        <2> QED BY <1>11, <2>3, <2>4
    <1> QED BY <1>17, <1>18, <1>19, <1>20, <1>21

\* A slot that is shifted goes on with what is left of its context.
LEMMA ShiftingKeeps ==
    ASSUME IInv, pc = "shift", NEW s \in Slots, Full(s), UNCHANGED systemVars,
           NEW left, left = Without(slot[s].cache_tokens, NKeep(slot[s]), NDiscard(slot[s])),
           Shifting(s, left)
    PROVE  /\ KvInv' /\ SlotInv(s)' /\ ~Full(s)'
           /\ slot' \in [Slots -> SlotRecord] /\ context' \in [Slots -> Seq(Tok)]
           /\ slot'[s].i_batch = -1 /\ slot'[s].state = "generating"
           /\ \A t \in Slots \ {s} : slot'[t] = slot[t] /\ context'[t] = context[t]
           /\ \A c \in Held : c.seq_id # {s + 1} => c \in Held'
           /\ \A c \in Held' : c.seq_id # {s + 1} => c \in Held
    <1> DEFINE x    == slot[s]
               keep == NKeep(x)
               drop == NDiscard(x)
               n    == NCtx - 1
               toks == IF x.cache_prompt THEN left ELSE x.cache_tokens
    <1>0. /\ Typed /\ PhaseInv /\ KvInv /\ SlotInv(s) /\ NCtx \in Nat /\ NCtx >= 5
          /\ UNCHANGED <<system_tokens, system_prompt>>
        BY Basics, KvHolds DEF IInv, SlotsInv, systemVars
    <1>1. /\ L = 0 /\ system_prompt = << >> /\ x.state = "generating" /\ Begun(x)
          /\ x.n_past = n /\ Len(context[s]) = n /\ End(x) = n
          /\ x.n_keep \in 0 .. NCtx - 4 /\ system_tokens = << >>
        <2>1. L = 0 /\ system_tokens \in Seq(Tok)
            BY <1>0, FullIs, Lengths
        <2>2. system_tokens = << >>
            BY <2>1 DEF L
        <2> QED BY <2>2, FullIs
    <1>2. keep \in 0 .. NCtx - 3 /\ drop \in Nat \ {0} /\ keep + drop <= n
        BY DropIs
    <1>3. ProgressInv(s) /\ ReuseInv(s) /\ HeldInv(s) /\ RestInv(s)
        BY <1>0, <1>1 DEF SlotInv
    <1>4. x \in SlotRecord /\ x.cache_tokens \in Seq(Nat) /\ context[s] \in Seq(Tok)
          /\ x.cache_prompt \in BOOLEAN /\ x.i_batch = -1 /\ x.n_past \in Nat
        BY <1>0, SlotFields, NoIndexes
    <1>5. /\ kv' = Shifted(Removed(kv, s + 1, keep, keep + drop), s + 1, keep + drop, n, -drop)
          /\ slot' = [slot EXCEPT ![s].n_past = x.n_past - drop, ![s].cache_tokens = toks]
          /\ context' = [context EXCEPT ![s] = Without(context[s], keep, drop)]
        <2>1. keep - Len(system_tokens) = keep
            BY <1>1, <1>2 DEF L
        <2> QED BY <1>1, <2>1 DEF Shifting
    <1>50. keep \in Nat /\ drop \in Nat /\ keep + drop <= n /\ n \in Nat /\ keep \in 0 .. n
        BY <1>0, <1>2
    <1> HIDE DEF keep, drop, n
    <1>6. /\ Without(context[s], keep, drop) \in Seq(Tok)
          /\ Len(Without(context[s], keep, drop)) = n - drop
          /\ \A j \in 1 .. keep : Without(context[s], keep, drop)[j] = context[s][j]
          /\ \A j \in keep + 1 .. n - drop : Without(context[s], keep, drop)[j] = context[s][j + drop]
        <2>1. Len(context[s]) = n /\ keep + drop <= Len(context[s]) /\ context[s] \in Seq(Tok)
            BY <1>1, <1>4, <1>50
        <2>2. /\ Without(context[s], keep, drop) \in Seq(Tok)
              /\ Len(Without(context[s], keep, drop)) = Len(context[s]) - drop
              /\ \A j \in 1 .. keep : Without(context[s], keep, drop)[j] = context[s][j]
              /\ \A j \in keep + 1 .. Len(context[s]) - drop :
                     Without(context[s], keep, drop)[j] = context[s][j + drop]
            <3>1. ASSUME NEW q \in Seq(Tok), NEW a \in Nat, NEW b \in Nat, a + b <= Len(q)
                  PROVE  /\ Without(q, a, b) \in Seq(Tok) /\ Len(Without(q, a, b)) = Len(q) - b
                         /\ \A j \in 1 .. a : Without(q, a, b)[j] = q[j]
                         /\ \A j \in a + 1 .. Len(q) - b : Without(q, a, b)[j] = q[j + b]
                BY <3>1, WithoutIs
            <3> QED BY <1>50, <2>1, <3>1, ZenonT(60)
        <2> QED BY <2>1, <2>2
    <1>7. toks \in Seq(Nat)
          /\ (x.cache_prompt => /\ Len(toks) = n - drop
                                /\ \A j \in 1 .. keep : toks[j] = x.cache_tokens[j]
                                /\ \A j \in keep + 1 .. n - drop : toks[j] = x.cache_tokens[j + drop])
        <2>1. CASE x.cache_prompt
            <3>1. Len(x.cache_tokens) = n
                BY <1>1, <1>3, <2>1 DEF ReuseInv, Padding
            <3>2. left = Without(x.cache_tokens, keep, drop)
                BY DEF keep, drop
            <3>3. keep + drop <= Len(x.cache_tokens) /\ x.cache_tokens \in Seq(Nat)
                BY <1>4, <1>50, <3>1
            <3>4. /\ left \in Seq(Nat) /\ Len(left) = Len(x.cache_tokens) - drop
                  /\ \A j \in 1 .. keep : left[j] = x.cache_tokens[j]
                  /\ \A j \in keep + 1 .. Len(x.cache_tokens) - drop :
                         left[j] = x.cache_tokens[j + drop]
                <4>1. ASSUME NEW q \in Seq(Nat), NEW a \in Nat, NEW b \in Nat, a + b <= Len(q)
                      PROVE  /\ Without(q, a, b) \in Seq(Nat) /\ Len(Without(q, a, b)) = Len(q) - b
                             /\ \A j \in 1 .. a : Without(q, a, b)[j] = q[j]
                             /\ \A j \in a + 1 .. Len(q) - b : Without(q, a, b)[j] = q[j + b]
                    BY <4>1, WithoutIs
                <4> DEFINE w == Without(x.cache_tokens, keep, drop)
                <4>2. /\ w \in Seq(Nat) /\ Len(w) = Len(x.cache_tokens) - drop
                      /\ \A j \in 1 .. keep : w[j] = x.cache_tokens[j]
                      /\ \A j \in keep + 1 .. Len(x.cache_tokens) - drop :
                             w[j] = x.cache_tokens[j + drop]
                    BY <1>50, <3>3, <4>1
                <4>3. left = w
                    BY <3>2
                <4> QED BY <4>2, <4>3
            <3> QED BY <2>1, <3>1, <3>4
        <2>2. CASE ~x.cache_prompt
            BY <1>4, <2>2
        <2> QED BY <2>1, <2>2
    <1>70. ~x.cache_prompt => toks = x.cache_tokens
        OBVIOUS
    <1> HIDE DEF toks
    <1>8. n - drop \in 0 .. NCtx - 1 /\ n \in Nat /\ n = NCtx - 1
        BY <1>0, <1>2 DEF n
    <1> DEFINE y == [x EXCEPT !.n_past = n - drop, !.cache_tokens = toks]
    <1>9. slot'[s] = y /\ \A t \in Slots \ {s} : slot'[t] = slot[t] /\ context'[t] = context[t]
        BY <1>0, <1>1, <1>5 DEF Typed
    <1>10. context'[s] = Without(context[s], keep, drop)
        BY <1>0, <1>5 DEF Typed
    <1>11. /\ y \in SlotRecord /\ y.n_past = n - drop /\ y.cache_tokens = toks
           /\ y.state = x.state /\ y.i_batch = x.i_batch /\ y.n_keep = x.n_keep
           /\ y.cache_prompt = x.cache_prompt /\ y.sampled = x.sampled
        BY <1>4, <1>7, <1>8 DEF SlotRecord
    <1> HIDE DEF y
    <1>12. slot' \in [Slots -> SlotRecord] /\ context' \in [Slots -> Seq(Tok)]
        <2>1. DOMAIN slot' = Slots /\ \A t \in Slots : slot'[t] \in SlotRecord
            BY <1>0, <1>5, <1>9, <1>11 DEF Typed
        <2>2. slot' \in [Slots -> SlotRecord]
            BY <1>0, <1>5, <2>1 DEF Typed
        <2>3. context' \in [Slots -> Seq(Tok)]
            BY <1>0, <1>5, <1>6 DEF Typed
        <2> QED BY <2>2, <2>3
    <1>13. /\ KvInv'
           /\ \A c \in Held : c.seq_id # {s + 1} => c \in Held'
           /\ \A c \in Held' : c.seq_id # {s + 1} => c \in Held
           /\ \A c \in Held' : c.seq_id = {s + 1} => c.pos < n - drop
           /\ \A p, t : p \in 0 .. keep - 1 /\ Cell(s, p, t) \in Held => Cell(s, p, t) \in Held'
           /\ \A p, t : p \in keep .. NCtx - 2 - drop /\ Cell(s, p + drop, t) \in Held =>
                            Cell(s, p, t) \in Held'
        <2>1. keep \in Nat /\ keep + drop <= NCtx - 1
            BY <1>2, <1>8
        <2> QED BY <1>0, <1>2, <1>5, <1>8, <2>1, ShiftedKv
    <1>14. L' = 0 /\ Begun(slot'[s]) /\ slot'[s].state = "generating" /\ slot'[s].i_batch = -1
        BY <1>0, <1>1, <1>4, <1>9, <1>11 DEF L, Begun, Fresh
    <1>15. ProgressInv(s)'
        <2>1. x.sampled \in Tok
            BY <1>1, <1>3 DEF ProgressInv
        <2>2. 0 + (n - drop) <= NCtx - 1
            BY <1>8
        <2>3. L' + Len(context'[s]) <= NCtx - 1
            BY <1>6, <1>10, <1>14, <2>2
        <2>4. slot'[s].n_keep \in 0 .. NCtx - 4 /\ slot'[s].n_past = Len(context'[s])
              /\ slot'[s].sampled \in Tok
            BY <1>1, <1>6, <1>9, <1>10, <1>11, <2>1
        <2> QED BY <1>14, <2>3, <2>4 DEF ProgressInv
    <1>16. ReuseInv(s)'
        <2>1. CASE x.cache_prompt
            <3>1. Len(x.cache_tokens) = n /\ \A j \in 1 .. n : x.cache_tokens[j] = context[s][j]
                BY <1>1, <1>3, <2>1 DEF ReuseInv, Padding
            <3>2. ASSUME NEW j \in 1 .. n - drop PROVE toks[j] = context'[s][j]
                <4>1. CASE j <= keep
                    <5>1. j \in 1 .. keep /\ j \in 1 .. n
                        BY <1>2, <1>8, <4>1
                    <5> QED BY <1>6, <1>7, <1>10, <2>1, <3>1, <5>1
                <4>2. CASE j > keep
                    <5>1. j \in keep + 1 .. n - drop /\ j + drop \in 1 .. n
                        BY <1>2, <1>8, <4>2
                    <5> QED BY <1>6, <1>7, <1>10, <2>1, <3>1, <5>1, SMTT(60)
                <4> QED BY <1>2, <4>1, <4>2
            <3> QED BY <1>7, <1>9, <1>11, <2>1, <3>2 DEF ReuseInv, Padding
        <2>2. CASE ~x.cache_prompt
            BY <1>3, <1>9, <1>11, <1>70, <2>2 DEF ReuseInv, Padding
        <2> QED BY <2>1, <2>2
    <1>17. HeldInv(s)'
        <2>1. \A c \in Held' : c.seq_id = {s + 1} => c.pos < L' + slot'[s].n_past
            <3>1. L' + slot'[s].n_past = n - drop
                BY <1>8, <1>9, <1>11, <1>14
            <3> QED BY <1>13, <3>1
        <2>2. ToCome = {}
            BY <1>0, NothingComing
        <2>3. \A j \in 1 .. n : Cell(s, j - 1, context[s][j]) \in Held
            <3>1. \A j \in 1 .. n : L + j - 1 = j - 1
                BY <1>1, <1>8
            <3> QED BY <1>1, <1>3, <2>2, <3>1 DEF HeldInv
        <2>4. ASSUME NEW j \in 1 .. n - drop PROVE Cell(s, j - 1, context'[s][j]) \in Held'
            <3>1. CASE j <= keep
                <4>1. j \in 1 .. keep /\ j \in 1 .. n /\ j - 1 \in 0 .. keep - 1
                    BY <1>2, <1>8, <3>1
                <4>2. context'[s][j] = context[s][j]
                    BY <1>6, <1>10, <4>1
                <4> QED BY <1>13, <2>3, <4>1, <4>2
            <3>2. CASE j > keep
                <4>1. j \in keep + 1 .. n - drop /\ j + drop \in 1 .. n
                      /\ j - 1 \in keep .. NCtx - 2 - drop /\ (j + drop) - 1 = (j - 1) + drop
                    BY <1>0, <1>2, <1>8, <3>2
                <4>2. context'[s][j] = context[s][j + drop]
                    BY <1>6, <1>10, <4>1
                <4>3. Cell(s, (j - 1) + drop, context'[s][j]) \in Held
                    BY <2>3, <4>1, <4>2
                <4> QED BY <1>13, <4>1, <4>3
            <3> QED BY <1>2, <3>1, <3>2
        <2>5. ASSUME NEW j \in 1 .. slot'[s].n_past
              PROVE  Cell(s, L' + j - 1, context'[s][j]) \in Held'
            <3>1. j \in 1 .. n - drop /\ L' + j - 1 = j - 1
                BY <1>8, <1>9, <1>11, <1>14
            <3> QED BY <2>4, <3>1
        <2> QED BY <2>1, <2>5 DEF HeldInv
    <1>18. RestInv(s)' /\ BudgetInv(s)'
        <2>1. RestInv(s)'
            BY <1>14 DEF RestInv, Fresh
        <2>2. BudgetInv(s)'
            BY <1>0, <1>1 DEF BudgetInv
        <2> QED BY <2>1, <2>2
    <1>19. SlotInv(s)'
        BY <1>14, <1>15, <1>16, <1>17, <1>18 DEF SlotInv
    <1>20. ~Full(s)'
        <2>1. Len(system_tokens') + slot'[s].n_past = n - drop
            BY <1>8, <1>9, <1>11, <1>14 DEF L
        <2>2. ~(n - drop >= NCtx - 1)
            BY <1>2, <1>8
        <2> QED BY <2>1, <2>2 DEF Full
    <1> QED BY <1>9, <1>12, <1>13, <1>14, <1>19, <1>20

\* In the loops the system prompt stays, and the cache has been cleaned.
LEMMA InTheLoops ==
    ASSUME IInv, pc \notin {"tasks", "check"}, UNCHANGED systemVars
    PROVE  /\ SystemInv' /\ ~system_need_update /\ system_tokens = system_prompt /\ L <= NCtx - 2
           /\ L' = L /\ UNCHANGED <<system_prompt, system_tokens, system_need_update, clean_kv_cache>>
    <1>1. SystemInv /\ PhaseInv
          /\ UNCHANGED <<system_prompt, system_tokens, system_need_update, clean_kv_cache>>
        BY DEF IInv, systemVars
    <1>2. ~system_need_update /\ ~clean_kv_cache
        BY <1>1 DEF PhaseInv
    <1>3. L' = L /\ L <= NCtx - 2 /\ system_tokens = system_prompt
        BY <1>1, <1>2 DEF L, SystemInv
    <1>4. SystemInv'
        BY <1>1, <1>2, <1>3 DEF SystemInv
    <1> QED BY <1>1, <1>2, <1>3, <1>4

\* A slot that is released remembers what it has cached.
LEMMA ReleasedSlot ==
    ASSUME Typed, NEW s \in Slots, CachedInv(s), UNCHANGED system_tokens,
           slot'[s] = Released(slot[s]), \A p, t : Cell(s, p, t) \in Held => Cell(s, p, t) \in Held'
    PROVE  /\ SlotInv(s)' /\ slot'[s] \in SlotRecord /\ slot'[s].i_batch = -1
           /\ slot'[s].state = "idle"
    <1>1. /\ slot'[s] = IdleWith(slot[s].cache_tokens, slot[s].n_keep)
          /\ slot'[s] \in SlotRecord /\ slot'[s].state = "idle" /\ slot'[s].i_batch = -1
          /\ slot'[s].cache_tokens = slot[s].cache_tokens /\ slot'[s].n_keep = slot[s].n_keep
          /\ ~Begun(slot'[s]) /\ ~Fresh(slot'[s])
        BY ReleasedIs
    <1>2. RestInv(s)'
        BY <1>1 DEF RestInv
    <1>3. BudgetInv(s)'
        BY <1>1 DEF BudgetInv
    <1>4. CachedInv(s)'
        BY <1>1 DEF CachedInv, L, Padding
    <1> QED BY <1>1, <1>2, <1>3, <1>4 DEF SlotInv

LEMMA ShiftContextKeeps ==
    ASSUME IInv, NEW s \in Slots, ShiftContext(s)
    PROVE  IInv'
    <1> DEFINE left == Without(slot[s].cache_tokens, NKeep(slot[s]), NDiscard(slot[s]))
    <1>1. /\ pc = "shift" /\ visit = s /\ Turn("shift", "sampled")
          /\ UNCHANGED <<systemVars, file, batchVars>>
          /\ IF ~Full(s) THEN UNCHANGED <<kv, slot, context>>
             ELSE IF CtxShift THEN Shifting(s, left)
             ELSE /\ slot' = [slot EXCEPT ![s] = Released(@)]
                  /\ context' = [context EXCEPT ![s] = << >>]
                  /\ UNCHANGED kv
        BY DEF ShiftContext, ShiftSlot
    <1> HIDE DEF left
    <1>2. /\ Typed /\ PhaseInv /\ KvInv /\ FileInv /\ SlotsInv /\ SlotInv(s)
          /\ batch' = batch /\ slot[s].i_batch = -1 /\ slot[s].state # "done_prompt"
          /\ UNCHANGED <<file, batch>>
        BY <1>1, NoIndexes, KvHolds DEF IInv, batchVars, SlotsInv
    <1>3. /\ SystemInv' /\ L' = L
          /\ UNCHANGED <<system_prompt, system_tokens, system_need_update, clean_kv_cache>>
        BY <1>1, InTheLoops
    <1>4. ToCome = {} /\ FileInv'
        BY <1>1, <1>2, NothingComing, SameFile
    <1>5. SUFFICES /\ slot' \in [Slots -> SlotRecord] /\ context' \in [Slots -> Seq(Tok)]
                   /\ KvInv' /\ SlotsInv' /\ ~Full(s)'
                   /\ slot'[s].i_batch = -1 /\ slot'[s].state # "done_prompt"
                   /\ \A t \in Slots \ {s} : slot'[t] = slot[t]
        <2>1. PhaseInv' /\ IndexesInv' /\ ShiftInv' /\ BatchInv'
            BY <1>1, <1>5, ShiftTurn
        <2>2. Typed'
            BY <1>2, <1>3, <1>5 DEF Typed
        <2> QED BY <1>3, <1>4, <1>5, <2>1, <2>2 DEF IInv, CacheInv
    <1>6. CASE ~Full(s)
        <2>1. UNCHANGED <<kv, slot, context>>
            BY <1>1, <1>6
        <2>2. KvInv' /\ SlotsInv'
            BY <1>2, <1>3, <1>4, <2>1, SameKv, SlotsAreLeft
        <2>3. ~Full(s)'
            BY <1>3, <1>6, <2>1 DEF Full, Busy
        <2> QED BY <1>2, <2>1, <2>2, <2>3 DEF Typed
    <1>7. CASE Full(s) /\ CtxShift
        <2>1. Shifting(s, left)
            BY <1>1, <1>7
        <2>2. /\ KvInv' /\ SlotInv(s)' /\ ~Full(s)'
              /\ slot' \in [Slots -> SlotRecord] /\ context' \in [Slots -> Seq(Tok)]
              /\ slot'[s].i_batch = -1 /\ slot'[s].state = "generating"
              /\ \A t \in Slots \ {s} : slot'[t] = slot[t] /\ context'[t] = context[t]
              /\ \A c \in Held : c.seq_id # {s + 1} => c \in Held'
              /\ \A c \in Held' : c.seq_id # {s + 1} => c \in Held
            BY <1>1, <1>7, <2>1, ShiftingKeeps DEF left
        <2>3. ASSUME NEW t \in Slots \ {s} PROVE SlotInv(t)'
            <3>1. {t + 1} # {s + 1} /\ SlotInv(t)
                <4>1. t + 1 # s + 1
                    BY Basics
                <4> QED BY <1>2, <4>1 DEF SlotsInv
            <3>2. \A p, k : Cell(t, p, k) \in Held => Cell(t, p, k) \in Held'
                <4>1. \A p, k : Cell(t, p, k).seq_id = {t + 1}
                    BY DEF Cell
                <4> QED BY <2>2, <3>1, <4>1
            <3>3. \A c \in Held' : c.seq_id = {t + 1} => c \in Held
                BY <2>2, <3>1
            <3>4. \A p, k : Token(t, p, k) \notin ToCome
                BY <1>4
            <3> QED BY <1>2, <1>3, <2>2, <3>1, <3>2, <3>3, <3>4, SlotStays
        <2>4. SlotsInv'
            BY <2>2, <2>3 DEF SlotsInv
        <2> QED BY <2>2, <2>4
    <1>8. CASE Full(s) /\ ~CtxShift
        <2>1. slot' = [slot EXCEPT ![s] = Released(slot[s])] /\ context' = [context EXCEPT ![s] = << >>]
              /\ UNCHANGED kv
            BY <1>1, <1>8
        <2>2. slot'[s] = Released(slot[s]) /\ \A t \in Slots \ {s} : slot'[t] = slot[t] /\ context'[t] = context[t]
            BY <1>2, <2>1 DEF Typed
        <2>3. Held' = Held /\ KvInv'
            BY <1>2, <1>3, <2>1, SameKv DEF Held
        <2>4. CachedInv(s)
            BY <1>2, <1>4, WhenAllDecoded
        <2>5. /\ SlotInv(s)' /\ slot'[s] \in SlotRecord /\ slot'[s].i_batch = -1
              /\ slot'[s].state = "idle"
            BY <1>2, <1>3, <2>2, <2>3, <2>4, ReleasedSlot
        <2>6. \A t \in Slots \ {s} : SlotInv(t)'
            <3>1. ToCome \subseteq ToCome'
                BY <1>4
            <3> QED BY <1>2, <1>3, <2>1, <2>2, <3>1, SlotIsLeft DEF SlotsInv
        <2>7. slot' \in [Slots -> SlotRecord] /\ context' \in [Slots -> Seq(Tok)]
            <3>1. << >> \in Seq(Tok) /\ DOMAIN slot' = Slots
                BY <1>2, <2>1 DEF Typed
            <3>2. \A t \in Slots : slot'[t] \in SlotRecord
                BY <1>2, <2>2, <2>5 DEF Typed
            <3>3. slot' \in [Slots -> SlotRecord]
                BY <1>2, <2>1, <3>1, <3>2 DEF Typed
            <3> QED BY <1>2, <2>1, <3>1, <3>3 DEF Typed
        <2>8. ~Full(s)'
            BY <2>5 DEF Full, Busy
        <2> QED BY <2>2, <2>3, <2>5, <2>6, <2>7, <2>8 DEF SlotsInv
    <1> QED BY <1>6, <1>7, <1>8

-----------------------------------------------------------------------------
(* The batch is made                                                       *)

LEMMA TokenIs ==
    ASSUME NEW s, NEW p, NEW t
    PROVE  Token(s, p, t).slot = s /\ Token(s, p, t).pos = p /\ Token(s, p, t).tok = t
    BY DEF Token

LEMMA PieceIs ==
    ASSUME NEW s \in Slots, NEW from \in Nat, NEW toks \in Seq(Tok), L \in Nat
    PROVE  /\ Piece(s, toks, from) \in Seq(Entry) /\ Len(Piece(s, toks, from)) = Len(toks)
           /\ \A j \in 1 .. Len(toks) : Piece(s, toks, from)[j] = Token(s, L + from + j - 1, toks[j])
    <1> DEFINE piece == Piece(s, toks, from)
               m     == Len(toks)
    <1>1. m \in Nat /\ \A j \in 1 .. m : Token(s, L + from + j - 1, toks[j]) \in Entry
        BY DEF Token, Entry
    <1>2. piece = [j \in 1 .. m |-> Token(s, L + from + j - 1, toks[j])]
        BY <1>1 DEF Piece, Token, L
    <1> HIDE DEF piece
    <1>3. piece \in Seq(Entry) /\ Len(piece) = m
          /\ \A j \in 1 .. m : piece[j] = Token(s, L + from + j - 1, toks[j])
        BY <1>1, <1>2
    <1> QED BY <1>3 DEF piece

\* What a slot adds to the batch comes behind what is there.
LEMMA BatchGrows ==
    ASSUME IInv, pc \in {"sampled", "prompts"}, pc' \in {"sampled", "prompts", "view"},
           UNCHANGED <<systemVars, view, n_batch>>,
           NEW s \in Slots, NEW from \in Nat, NEW toks \in Seq(Tok),
           batch' = batch \o Piece(s, toks, from), L + from + Len(toks) <= NCtx - 1,
           \A b \in 1 .. Len(batch) : batch[b].slot # s,
           \A c \in Held' : c.seq_id = {s + 1} => c.pos < L + from,
           \A c \in Held' : c.seq_id # {s + 1} => c \in Held
    PROVE  /\ batch' \in Seq(Entry) /\ Len(batch') = Len(batch) + Len(toks) /\ Len(toks) \in Nat
           /\ \A b \in 1 .. Len(batch) : batch'[b] = batch[b]
           /\ \A b \in Len(batch) + 1 .. Len(batch') : batch'[b].slot = s
           /\ \A b \in 1 .. Len(batch') : batch'[b].pos \in L .. NCtx - 2
           /\ \A b, c \in 1 .. Len(batch') :
                  batch'[b].slot = batch'[c].slot /\ batch'[b].pos = batch'[c].pos => b = c
           /\ \A b \in Coming' : \A c \in Held' :
                  c.seq_id = {batch'[b].slot + 1} => c.pos # batch'[b].pos
           /\ \A b \in 1 .. Len(batch') :
                  batch'[b].slot = s => batch'[b].pos < L + (from + Len(toks))
           /\ ToCome \subseteq ToCome'
           /\ \A j \in 1 .. Len(toks) : Token(s, L + from + j - 1, toks[j]) \in ToCome'
    <1> DEFINE n == Len(batch)
               p == Piece(s, toks, from)
               m == Len(toks)
    <1>1. /\ Typed /\ PhaseInv /\ BatchInv /\ L' = L /\ NCtx \in Nat /\ NCtx >= 5 /\ L \in Nat
          /\ n \in Nat /\ m \in Nat /\ batch \in Seq(Entry) /\ view = 0 /\ n_batch = NBatch
          /\ NSlots \in Nat
        BY InTheLoops, Lengths, Basics, SMTT(60) DEF IInv, PhaseInv
    <1>3. p \in Seq(Entry) /\ Len(p) = m /\ \A j \in 1 .. m : p[j] = Token(s, L + from + j - 1, toks[j])
        BY <1>1, PieceIs
    <1>30. batch' = batch \o p
        OBVIOUS
    <1>31. n = Len(batch) /\ m = Len(toks) /\ n \in Nat /\ m \in Nat /\ L + from + m <= NCtx - 1
        BY <1>1
    <1> HIDE DEF p, n, m
    <1>4. batch' \in Seq(Entry) /\ Len(batch') = n + m
        <2>1. \A q, r \in Seq(Entry) : q \o r \in Seq(Entry) /\ Len(q \o r) = Len(q) + Len(r)
            OBVIOUS
        <2> QED BY <1>1, <1>3, <1>30, <1>31, <2>1
    <1>5. \A b \in 1 .. n : batch'[b] = batch[b]
        BY <1>1, <1>3, <1>30, <1>31
    <1>6. ASSUME NEW b \in n + 1 .. n + m
          PROVE  batch'[b] = Token(s, L + from + (b - n) - 1, toks[b - n]) /\ b - n \in 1 .. m
        <2>1. b - n \in 1 .. m /\ b \in 1 .. n + m /\ b > n
            BY <1>1, SMTT(60)
        <2>2. batch'[b] = p[b - n]
            BY <1>1, <1>3, <1>30, <1>31, <2>1
        <2> QED BY <1>3, <2>1, <2>2
    <1>7. ASSUME NEW b \in n + 1 .. n + m
          PROVE  batch'[b].slot = s /\ batch'[b].pos = L + from + (b - n) - 1
        <2> DEFINE q == L + from + (b - n) - 1
                   k == toks[b - n]
        <2>1. batch'[b] = Token(s, q, k)
            BY <1>6
        <2> HIDE DEF q, k
        <2>2. batch'[b].slot = s /\ batch'[b].pos = q
            BY <2>1, TokenIs
        <2> QED BY <2>2 DEF q
    <1>8. \A b \in 1 .. n : batch'[b].slot # s /\ batch'[b].pos \in L .. NCtx - 2
        BY <1>1, <1>5, <1>31 DEF BatchInv
    <1>9. ASSUME NEW b \in 1 .. n + m PROVE batch'[b].pos \in L .. NCtx - 2
        <2>1. CASE b <= n
            BY <1>1, <1>8, <1>31, <2>1
        <2>2. CASE b > n
            <3>1. b \in n + 1 .. n + m
                BY <1>1, <2>2, SMTT(60)
            <3>2. batch'[b].pos = L + from + (b - n) - 1
                BY <1>7, <3>1
            <3>3. L + from + (b - n) - 1 \in L .. NCtx - 2
                BY <1>1, <1>31, <3>1
            <3> QED BY <3>2, <3>3
        <2>3. b <= n \/ b > n
            BY <1>31
        <2> QED BY <2>1, <2>2, <2>3
    <1>10. ASSUME NEW b \in 1 .. n + m, NEW c \in 1 .. n + m,
                  batch'[b].slot = batch'[c].slot, batch'[b].pos = batch'[c].pos
           PROVE  b = c
        <2>1. CASE b <= n /\ c <= n
            <3>1. b \in 1 .. n /\ c \in 1 .. n
                BY <1>1, <2>1
            <3> QED BY <1>1, <1>5, <1>10, <1>31, <3>1 DEF BatchInv
        <2>2. CASE b > n /\ c > n
            <3>1. b \in n + 1 .. n + m /\ c \in n + 1 .. n + m
                BY <1>1, <2>2
            <3>2. L + from + (b - n) - 1 = L + from + (c - n) - 1
                BY <1>7, <1>10, <3>1
            <3> QED BY <1>1, <3>1, <3>2
        <2>3. CASE b <= n /\ c > n
            <3>1. b \in 1 .. n /\ c \in n + 1 .. n + m
                BY <1>1, <2>3
            <3> QED BY <1>7, <1>8, <1>10, <3>1
        <2>4. CASE b > n /\ c <= n
            <3>1. c \in 1 .. n /\ b \in n + 1 .. n + m
                BY <1>1, <2>4, SMTT(60)
            <3> QED BY <1>7, <1>8, <1>10, <3>1
        <2> QED BY <1>1, <1>31, <2>1, <2>2, <2>3, <2>4
    <1>11. Coming = 1 .. n /\ Coming' = 1 .. n + m
        <2>1. Decoded = 0 /\ Decoded' = 0
            BY <1>1, Lengths DEF Decoded
        <2> QED BY <1>4, <1>31, <2>1 DEF Coming
    <1>12. ASSUME NEW b \in 1 .. n + m, NEW c \in Held', c.seq_id = {batch'[b].slot + 1}
           PROVE  c.pos # batch'[b].pos
        <2>1. CASE b <= n
            <3>1. b \in 1 .. n /\ batch'[b] = batch[b] /\ batch[b].slot # s /\ batch[b].slot \in Slots
                BY <1>1, <1>5, <1>31, <2>1, Lengths, SMTT(60)
            <3>2. {batch[b].slot + 1} # {s + 1}
                <4>1. batch[b].slot + 1 # s + 1
                    BY <3>1, Basics, SMTT(60)
                <4> QED BY <4>1
            <3>3. c \in Held /\ c.seq_id = {batch[b].slot + 1}
                BY <1>12, <3>1, <3>2
            <3> QED BY <1>1, <1>11, <3>1, <3>3 DEF BatchInv
        <2>2. CASE b > n
            <3>1. b \in n + 1 .. n + m
                BY <1>1, <2>2
            <3>2. batch'[b].slot = s /\ batch'[b].pos = L + from + (b - n) - 1
                BY <1>7, <3>1
            <3>3. c.pos < L + from
                BY <1>12, <3>2
            <3>4. c.pos \in Int /\ b \in Int /\ b >= n + 1 => L + from + (b - n) - 1 >= L + from
                BY <1>1
            <3>5. b \in Int /\ b >= n + 1
                BY <1>1, <3>1
            <3>6. L + from + (b - n) - 1 \in Int /\ L + from \in Int
                BY <1>1, <3>5
            <3>7. c.pos # L + from + (b - n) - 1
                BY <3>3, <3>4, <3>5, <3>6
            <3> QED BY <3>2, <3>7
        <2>3. b <= n \/ b > n
            BY <1>31
        <2> QED BY <2>1, <2>2, <2>3
    <1>13. ToCome \subseteq ToCome'
        <2>1. ASSUME NEW b \in 1 .. n PROVE batch[b] \in ToCome'
            <3>1. b \in 1 .. n + m /\ batch'[b] = batch[b]
                BY <1>1, <1>5, <1>31
            <3> QED BY <1>11, <3>1 DEF ToCome
        <2> QED BY <1>11, <2>1, ZenonT(60) DEF ToCome
    <1>14. ASSUME NEW j \in 1 .. m PROVE Token(s, L + from + j - 1, toks[j]) \in ToCome'
        <2>1. n + j \in n + 1 .. n + m /\ n + j \in 1 .. n + m /\ (n + j) - n = j
            BY <1>1
        <2>2. batch'[n + j] = Token(s, L + from + j - 1, toks[j])
            BY <1>6, <2>1
        <2> QED BY <1>11, <2>1, <2>2 DEF ToCome
    <1>15. \A b \in n + 1 .. n + m : batch'[b].slot = s
        BY <1>7
    <1>16. ASSUME NEW b \in 1 .. n + m, batch'[b].slot = s PROVE batch'[b].pos < L + (from + m)
        <2>1. b \notin 1 .. n
            BY <1>8, <1>16
        <2>2. b \in n + 1 .. n + m
            BY <1>31, <2>1
        <2>3. batch'[b].pos = L + from + (b - n) - 1
            BY <1>7, <2>2
        <2>4. L + from + (b - n) - 1 < L + (from + m)
            BY <1>1, <1>31, <2>2
        <2> QED BY <2>3, <2>4
    <1>17. Len(batch') = Len(batch) + Len(toks) /\ Len(toks) \in Nat
        BY <1>4, <1>31
    <1> QED BY <1>1, <1>4, <1>5, <1>9, <1>10, <1>11, <1>12, <1>13, <1>14, <1>15, <1>16, <1>17, <1>31

\* A slot that goes on puts its last token into the batch, and what it then has to come
\* is in its context.
LEMMA SampledGoesOn ==
    ASSUME IInv, NEW s \in Slots, AddSampled(s), slot[s].state = "generating"
    PROVE  /\ SlotInv(s)' /\ slot' \in [Slots -> SlotRecord] /\ context' \in [Slots -> Seq(Tok)]
           /\ slot'[s].state = "generating" /\ slot'[s].i_batch = Len(batch)
           /\ \A t \in Slots \ {s} : slot'[t] = slot[t] /\ context'[t] = context[t]
           /\ batch' \in Seq(Entry) /\ Len(batch') = Len(batch) + 1
           /\ \A b \in 1 .. Len(batch) : batch'[b] = batch[b]
           /\ batch'[Len(batch) + 1].slot = s
           /\ \A b \in 1 .. Len(batch') : batch'[b].pos \in L .. NCtx - 2
           /\ \A b, c \in 1 .. Len(batch') :
                  batch'[b].slot = batch'[c].slot /\ batch'[b].pos = batch'[c].pos => b = c
           /\ \A b \in Coming' : \A c \in Held' :
                  c.seq_id = {batch'[b].slot + 1} => c.pos # batch'[b].pos
           /\ \A b \in 1 .. Len(batch') :
                  batch'[b].slot = s => batch'[b].pos < L + slot'[s].n_past
           /\ ToCome \subseteq ToCome'
    <1> DEFINE x    == slot[s]
               kept == IF x.cache_prompt THEN Append(x.cache_tokens, x.sampled) ELSE x.cache_tokens
               n    == x.n_past
               last == x.sampled
    <1>1. /\ pc = "sampled" /\ visit = s
          /\ Turn("sampled", "prompts") \/ Turn("sampled", "view")
          /\ UNCHANGED <<kv, systemVars, file, view, n_batch>>
          /\ slot' = [slot EXCEPT ![s].i_batch = Len(batch), ![s].n_past = n + 1,
                                  ![s].cache_tokens = kept]
          /\ batch' = batch \o Piece(s, <<last>>, n)
          /\ context' = [context EXCEPT ![s] = Append(context[s], last)]
        BY DEF AddSampled
    <1>2. /\ Typed /\ PhaseInv /\ KvInv /\ SlotInv(s) /\ IndexInv(s) /\ ShiftInv /\ BatchInv
          /\ visit \in Slots /\ NCtx \in Nat /\ L \in Nat /\ Len(batch) \in Nat
        BY Basics, Lengths, <1>1, KvHolds DEF IInv, SlotsInv, IndexesInv
    <1>3. L' = L /\ UNCHANGED <<system_tokens, system_prompt>> /\ Held' = Held
        BY <1>1, InTheLoops DEF Held
    <1>4. Begun(x) /\ ProgressInv(s) /\ ReuseInv(s) /\ HeldInv(s) /\ BudgetInv(s)
        BY <1>2 DEF Begun, Fresh, SlotInv
    <1>5. /\ x \in SlotRecord /\ n \in Nat /\ n = Len(context[s]) /\ last \in Tok /\ last \in Nat
          /\ x.cache_tokens \in Seq(Nat) /\ context[s] \in Seq(Tok) /\ x.i_batch = -1
          /\ x.n_keep \in 0 .. NCtx - 4 /\ x.cache_prompt \in BOOLEAN
          /\ x.n_predict \in Int /\ x.n_decoded \in Nat
        <2>1. /\ x \in SlotRecord /\ n \in Nat /\ x.cache_tokens \in Seq(Nat)
              /\ context[s] \in Seq(Tok) /\ x.cache_prompt \in BOOLEAN
              /\ x.n_predict \in Int /\ x.n_decoded \in Nat
            BY <1>2, SlotFields
        <2>2. n = Len(context[s]) /\ last \in Tok /\ x.n_keep \in 0 .. NCtx - 4
            BY <1>4 DEF ProgressInv
        <2>3. x.i_batch = -1
            BY <1>1, <1>2, Basics DEF IndexInv
        <2> QED BY <2>1, <2>2, <2>3 DEF Tok
    <1>6. L + n <= NCtx - 2 /\ n + 1 \in 0 .. NCtx - 1
        <2>1. ~(L + n >= NCtx - 1)
            <3>1. ~Full(s)
                BY <1>1, <1>2, Basics DEF ShiftInv
            <3> QED BY <3>1 DEF Full, Busy, L
        <2> QED BY <1>2, <1>5, <2>1, SMTT(60)
    <1>7. kept \in Seq(Nat)
          /\ (x.cache_prompt => /\ Len(kept) = Len(x.cache_tokens) + 1
                                /\ \A j \in 1 .. Len(x.cache_tokens) : kept[j] = x.cache_tokens[j]
                                /\ kept[Len(x.cache_tokens) + 1] = last)
          /\ (~x.cache_prompt => kept = x.cache_tokens)
        BY <1>5, SMTT(60)
    <1> HIDE DEF kept, n, last
    <1> DEFINE y == [x EXCEPT !.i_batch = Len(batch), !.n_past = n + 1, !.cache_tokens = kept]
               grown == Append(context[s], last)
    <1>8. /\ slot'[s] = y /\ context'[s] = grown
          /\ \A t \in Slots \ {s} : slot'[t] = slot[t] /\ context'[t] = context[t]
        BY <1>1, <1>2 DEF Typed
    <1>9. /\ y \in SlotRecord /\ y.n_past = n + 1 /\ y.cache_tokens = kept /\ y.i_batch = Len(batch)
          /\ y.state = x.state /\ y.n_keep = x.n_keep /\ y.cache_prompt = x.cache_prompt
          /\ y.sampled = x.sampled /\ y.n_predict = x.n_predict /\ y.n_decoded = x.n_decoded
        BY <1>2, <1>5, <1>6, <1>7 DEF SlotRecord
    <1>10. /\ grown \in Seq(Tok) /\ Len(grown) = n + 1 /\ \A j \in 1 .. n : grown[j] = context[s][j]
           /\ grown[n + 1] = last
        <2>1. \A p \in Seq(Tok) : /\ Append(p, last) \in Seq(Tok) /\ Len(Append(p, last)) = Len(p) + 1
                                  /\ \A j \in 1 .. Len(p) : Append(p, last)[j] = p[j]
                                  /\ Append(p, last)[Len(p) + 1] = last
            BY <1>5
        <2> QED BY <1>5, <2>1
    <1> HIDE DEF y, grown
    <1>11. slot' \in [Slots -> SlotRecord] /\ context' \in [Slots -> Seq(Tok)]
        <2>1. DOMAIN slot' = Slots /\ \A t \in Slots : slot'[t] \in SlotRecord
            BY <1>1, <1>2, <1>8, <1>9 DEF Typed
        <2>2. slot' \in [Slots -> SlotRecord]
            BY <1>1, <1>2, <2>1 DEF Typed
        <2>3. context' = [context EXCEPT ![s] = grown]
            BY <1>1 DEF grown
        <2> QED BY <1>2, <1>10, <2>2, <2>3 DEF Typed
    <1>12. /\ batch' \in Seq(Entry) /\ Len(batch') = Len(batch) + 1
           /\ \A b \in 1 .. Len(batch) : batch'[b] = batch[b]
           /\ batch'[Len(batch) + 1].slot = s
           /\ \A b \in 1 .. Len(batch') : batch'[b].pos \in L .. NCtx - 2
           /\ \A b, c \in 1 .. Len(batch') :
                  batch'[b].slot = batch'[c].slot /\ batch'[b].pos = batch'[c].pos => b = c
           /\ \A b \in Coming' : \A c \in Held' :
                  c.seq_id = {batch'[b].slot + 1} => c.pos # batch'[b].pos
           /\ \A b \in 1 .. Len(batch') : batch'[b].slot = s => batch'[b].pos < L + (n + 1)
           /\ ToCome \subseteq ToCome' /\ Token(s, L + n, last) \in ToCome'
        <2> DEFINE one == <<last>>
        <2>1. one \in Seq(Tok) /\ Len(one) = 1 /\ one[1] = last
            BY <1>5
        <2>2. batch' = batch \o Piece(s, one, n)
            BY <1>1
        <2> HIDE DEF one
        <2>3. pc' \in {"sampled", "prompts", "view"}
            BY <1>1 DEF Turn
        <2>4. \A b \in 1 .. Len(batch) : batch[b].slot # s
            <3>1. \A b \in 1 .. Len(batch) : batch[b].slot < visit
                BY <1>1, <1>2 DEF BatchInv
            <3> QED BY <1>1, <1>2, <3>1, Basics, SMTT(60)
        <2>5. \A c \in Held' : c.seq_id = {s + 1} => c.pos < L + n
            BY <1>3, <1>4 DEF HeldInv, n
        <2>6. L + n + Len(one) <= NCtx - 1
            BY <1>2, <1>5, <1>6, <2>1, SMTT(60)
        <2>7. pc \in {"sampled", "prompts"} /\ n \in Nat /\ UNCHANGED <<systemVars, view, n_batch>>
              /\ \A c \in Held' : c.seq_id # {s + 1} => c \in Held
            BY <1>1, <1>3, <1>5
        <2>8. /\ batch' \in Seq(Entry) /\ Len(batch') = Len(batch) + Len(one)
              /\ \A b \in 1 .. Len(batch) : batch'[b] = batch[b]
              /\ \A b \in Len(batch) + 1 .. Len(batch') : batch'[b].slot = s
              /\ \A b \in 1 .. Len(batch') : batch'[b].pos \in L .. NCtx - 2
              /\ \A b, c \in 1 .. Len(batch') :
                     batch'[b].slot = batch'[c].slot /\ batch'[b].pos = batch'[c].pos => b = c
              /\ \A b \in Coming' : \A c \in Held' :
                     c.seq_id = {batch'[b].slot + 1} => c.pos # batch'[b].pos
              /\ \A b \in 1 .. Len(batch') : batch'[b].slot = s => batch'[b].pos < L + (n + Len(one))
              /\ ToCome \subseteq ToCome'
              /\ \A j \in 1 .. Len(one) : Token(s, L + n + j - 1, one[j]) \in ToCome'
            <3>0. pc \in {"sampled", "prompts"} /\ pc' \in {"sampled", "prompts", "view"}
                  /\ UNCHANGED <<systemVars, view, n_batch>>
                BY <2>3, <2>7
            <3>1. batch' \in Seq(Entry) /\ Len(batch') = Len(batch) + Len(one)
                <4>1. batch' \in Seq(Entry)
                    BY <3>0, <2>1, <2>2, <2>4, <2>5, <2>6, <2>7, BatchGrows
                <4>2. Len(batch') = Len(batch) + Len(one)
                    <5> DEFINE piece == Piece(s, one, n)
                    <5>1. piece \in Seq(Entry) /\ Len(piece) = Len(one)
                        BY <1>2, <1>5, <2>1, PieceIs, ZenonT(60)
                    <5>2. batch \in Seq(Entry) /\ batch' = batch \o piece
                        BY <1>2, <2>2, Lengths
                    <5>3. \A a, b \in Seq(Entry) : Len(a \o b) = Len(a) + Len(b)
                        OBVIOUS
                    <5> HIDE DEF piece
                    <5>4. Len(batch \o piece) = Len(batch) + Len(piece)
                        BY <5>1, <5>2, <5>3
                    <5> QED BY <5>1, <5>2, <5>4
                <4> QED BY <4>1, <4>2
            <3>2. \A b \in 1 .. Len(batch) : batch'[b] = batch[b]
                BY <3>0, <2>1, <2>2, <2>4, <2>5, <2>6, <2>7, BatchGrows
            <3>3. \A b \in Len(batch) + 1 .. Len(batch') : batch'[b].slot = s
                BY <3>0, <2>1, <2>2, <2>4, <2>5, <2>6, <2>7, BatchGrows
            <3>4. \A b \in 1 .. Len(batch') : batch'[b].pos \in L .. NCtx - 2
                BY <3>0, <2>1, <2>2, <2>4, <2>5, <2>6, <2>7, BatchGrows
            <3>5. \A b, c \in 1 .. Len(batch') :
                     batch'[b].slot = batch'[c].slot /\ batch'[b].pos = batch'[c].pos => b = c
                BY <3>0, <2>1, <2>2, <2>4, <2>5, <2>6, <2>7, BatchGrows
            <3>6. \A b \in Coming' : \A c \in Held' :
                     c.seq_id = {batch'[b].slot + 1} => c.pos # batch'[b].pos
                BY <3>0, <2>1, <2>2, <2>4, <2>5, <2>6, <2>7, BatchGrows
            <3>7. ToCome \subseteq ToCome'
                BY <3>0, <2>1, <2>2, <2>4, <2>5, <2>6, <2>7, BatchGrows
            <3>8. \A j \in 1 .. Len(one) : Token(s, L + n + j - 1, one[j]) \in ToCome'
                BY <3>0, <2>1, <2>2, <2>4, <2>5, <2>6, <2>7, BatchGrows
            <3>9. \A b \in 1 .. Len(batch') : batch'[b].slot = s => batch'[b].pos < L + (n + Len(one))
                BY <3>0, <2>1, <2>2, <2>4, <2>5, <2>6, <2>7, BatchGrows
            <3> QED BY <3>1, <3>2, <3>3, <3>4, <3>5, <3>6, <3>7, <3>8, <3>9
        <2>9. Len(batch) + 1 \in Len(batch) + 1 .. Len(batch') /\ Len(batch') = Len(batch) + 1
            BY <1>2, <2>1, <2>8
        <2>10. Token(s, L + n, last) \in ToCome'
            <3>1. 1 \in 1 .. Len(one) /\ L + n + 1 - 1 = L + n
                BY <1>2, <1>5, <2>1
            <3>2. Token(s, L + n + 1 - 1, one[1]) \in ToCome'
                BY <2>8, <3>1
            <3> QED BY <2>1, <3>1, <3>2
        <2> QED BY <2>1, <2>8, <2>9, <2>10
    <1>13. L' = L /\ Begun(slot'[s]) /\ slot'[s].state = "generating"
        BY <1>3, <1>8, <1>9 DEF Begun, Fresh
    <1>14. ProgressInv(s)'
        <2>1. L + (n + 1) <= NCtx - 1
            BY <1>2, <1>5, <1>6, SMTT(60)
        <2> QED BY <1>5, <1>8, <1>9, <1>10, <1>13, <2>1 DEF ProgressInv, last
    <1>15. ReuseInv(s)'
        <2>1. CASE x.cache_prompt
            <3>1. Len(x.cache_tokens) = n /\ \A j \in 1 .. n : x.cache_tokens[j] = context[s][j]
                BY <1>4, <2>1 DEF ReuseInv, n, Padding
            <3>2. ASSUME NEW j \in 1 .. n + 1 PROVE kept[j] = grown[j]
                <4>1. j \in 1 .. n \/ j = n + 1
                    BY <1>5, SMTT(60)
                <4> QED BY <1>7, <1>10, <2>1, <3>1, <4>1
            <3> QED BY <1>7, <1>8, <1>9, <2>1, <3>1, <3>2 DEF ReuseInv, Padding
        <2>2. CASE ~x.cache_prompt
            BY <1>4, <1>7, <1>8, <1>9, <2>2 DEF ReuseInv, Padding
        <2> QED BY <2>1, <2>2
    <1>16. HeldInv(s)'
        <2>1. \A c \in Held' : c.seq_id = {s + 1} => c.pos < L' + slot'[s].n_past
            <3>1. ASSUME NEW c \in Held, c.seq_id = {s + 1} PROVE c.pos < L + (n + 1)
                <4>1. c.pos < L + n /\ c.pos \in Nat
                    BY <1>2, <1>4, <3>1, Owners DEF HeldInv, n
                <4> QED BY <1>2, <1>5, <4>1
            <3> QED BY <1>3, <1>8, <1>9, <3>1
        <2>2. ASSUME NEW j \in 1 .. n + 1
              PROVE  Cell(s, L + j - 1, grown[j]) \in Held' \/ Token(s, L + j - 1, grown[j]) \in ToCome'
            <3>1. CASE j \in 1 .. n
                <4>1. \/ Cell(s, L + j - 1, context[s][j]) \in Held
                      \/ Token(s, L + j - 1, context[s][j]) \in ToCome
                    BY <1>4, <3>1 DEF HeldInv, n
                <4> QED BY <1>3, <1>10, <1>12, <3>1, <4>1
            <3>2. CASE j = n + 1
                <4>1. L + j - 1 = L + n
                    BY <1>2, <1>5, <3>2
                <4> QED BY <1>10, <1>12, <3>2, <4>1
            <3> QED BY <1>5, <3>1, <3>2
        <2>3. slot'[s].n_past = n + 1 /\ context'[s] = grown /\ L' = L
            BY <1>3, <1>8, <1>9
        <2> QED BY <2>1, <2>2, <2>3 DEF HeldInv
    <1>17. RestInv(s)' /\ BudgetInv(s)'
        <2>1. RestInv(s)'
            BY <1>13 DEF RestInv, Fresh
        <2>2. Unsaid(slot'[s]) + 1 = Unsaid(x) /\ Unsaid(slot'[s]) \in Int
            <3>1. Unsaid(slot'[s]) = x.n_predict - x.n_decoded + 0
                <4>1. slot'[s].i_batch # -1
                    BY <1>2, <1>8, <1>9
                <4> QED BY <1>8, <1>9, <4>1 DEF Unsaid
            <3>2. Unsaid(x) = x.n_predict - x.n_decoded + 1
                BY <1>5 DEF Unsaid
            <3> QED BY <1>5, <3>1, <3>2, SMTT(60)
        <2>3. BudgetInv(s)'
            <3>1. SUFFICES ASSUME system_prompt # << >>
                           PROVE  /\ x.n_decoded < x.n_predict
                                  /\ Len(system_prompt) + Unsaid(slot'[s]) + Len(grown) <= NCtx
                BY <1>3, <1>8, <1>9, <1>13 DEF BudgetInv, Begun
            <3>2. /\ x.n_decoded < x.n_predict
                  /\ Len(system_prompt) + Unsaid(x) + Len(context[s]) <= NCtx
                BY <1>4, <3>1 DEF BudgetInv, Begun
            <3>3. Len(system_prompt) \in Nat
                BY <1>2, Basics DEF Typed
            <3> QED BY <1>2, <1>5, <1>10, <2>2, <3>2, <3>3
        <2> QED BY <2>1, <2>3
    <1>18. SlotInv(s)'
        BY <1>13, <1>14, <1>15, <1>16, <1>17 DEF SlotInv
    <1> QED BY <1>8, <1>9, <1>11, <1>12, <1>13, <1>18

LEMMA AddSampledKeeps ==
    ASSUME IInv, NEW s \in Slots, AddSampled(s)
    PROVE  IInv'
    <1>1. /\ pc = "sampled" /\ visit = s
          /\ Turn("sampled", "prompts") \/ Turn("sampled", "view")
          /\ UNCHANGED <<kv, systemVars, file, view, n_batch>>
          /\ slot[s].state # "generating" => UNCHANGED <<slot, batch, context>>
        BY DEF AddSampled
    <1>2. /\ Typed /\ PhaseInv /\ KvInv /\ FileInv /\ SlotsInv /\ IndexesInv /\ ShiftInv /\ BatchInv
          /\ NSlots \in Nat \ {0} /\ Slots = 0 .. NSlots - 1 /\ Len(batch) \in Nat /\ NBatch \in Nat
          /\ Len(batch) <= s /\ view = 0 /\ n_batch = NBatch
        BY <1>1, Basics, Lengths, KvHolds DEF IInv, PhaseInv
    <1>3. /\ SystemInv' /\ L' = L /\ ~system_need_update' /\ Held' = Held
          /\ UNCHANGED <<system_prompt, system_tokens, system_need_update, clean_kv_cache>>
        BY <1>1, InTheLoops DEF Held
    <1>30. ~clean_kv_cache' /\ view' = 0 /\ n_batch' = NBatch
        BY <1>1, <1>2, <1>3 DEF PhaseInv
    <1>4. \/ pc' \in {"prompts", "view"} /\ visit' = 0 /\ s + 1 = NSlots
          \/ pc' = "sampled" /\ visit' = s + 1 /\ s + 1 # NSlots
        BY <1>1 DEF Turn
    <1>40. visit' \in Slots
        <2>1. s \in Nat /\ s < NSlots /\ NSlots \in Nat \ {0}
            BY <1>2
        <2>2. visit' = 0 \/ (visit' = s + 1 /\ s + 1 # NSlots)
            BY <1>4
        <2>3. visit' \in 0 .. NSlots - 1
            BY <2>1, <2>2
        <2> QED BY <1>2, <2>3
    <1>5. slot[s].i_batch = -1 /\ slot[s].state # "done_prompt"
        <2>1. IndexInv(s) /\ s >= visit
            BY <1>1, <1>2 DEF IndexesInv
        <2> QED BY <1>1, <2>1 DEF IndexInv
    <1>6. SUFFICES /\ slot' \in [Slots -> SlotRecord] /\ context' \in [Slots -> Seq(Tok)]
                   /\ SlotsInv' /\ slot'[s].state = slot[s].state
                   /\ \A t \in Slots \ {s} : slot'[t] = slot[t]
                   /\ slot'[s].i_batch = -1 \/ (slot'[s].i_batch = Len(batch) /\ slot[s].state = "generating")
                   /\ batch' \in Seq(Entry)
                   /\ Len(batch') = Len(batch) \/ (Len(batch') = Len(batch) + 1 /\ slot[s].state = "generating")
                   /\ slot'[s].i_batch # -1 => Len(batch') = Len(batch) + 1
                   /\ \A b \in 1 .. Len(batch) : batch'[b] = batch[b]
                   /\ \A b \in 1 .. Len(batch') : b > Len(batch) => batch'[b].slot = s
                   /\ \A b \in 1 .. Len(batch') : batch'[b].pos \in L .. NCtx - 2
                   /\ \A b, c \in 1 .. Len(batch') :
                          batch'[b].slot = batch'[c].slot /\ batch'[b].pos = batch'[c].pos => b = c
                   /\ \A b \in Coming' : \A c \in Held' :
                          c.seq_id = {batch'[b].slot + 1} => c.pos # batch'[b].pos
                   /\ \A b \in 1 .. Len(batch') :
                          batch'[b].slot = s /\ Begun(slot'[s]) => batch'[b].pos < L + slot'[s].n_past
        <2>1. Len(batch') \in Nat /\ Len(batch') <= s + 1
            BY <1>2, <1>6
        <2>2. PhaseInv'
            <3>1. visit' \in Slots /\ pc' \in {"sampled", "prompts", "view"}
                BY <1>4, <1>40
            <3>2. Len(batch') <= NSlots
                BY <1>2, <2>1
            <3>3. Len(batch') <= Most(NBatch, NSlots)
                BY <1>2, <2>1, <3>2 DEF Most
            <3>4. pc' = "sampled" => Len(batch') <= visit'
                BY <1>4, <2>1
            <3>5. n_batch' \in 1 .. NBatch
                BY <1>30, Basics
            <3> QED BY <1>3, <1>30, <3>1, <3>3, <3>4, <3>5 DEF PhaseInv
        <2>3. ASSUME NEW t \in Slots PROVE IndexInv(t)'
            <3>1. CASE t = s
                <4> DEFINE i == slot'[s].i_batch
                <4>1. slot'[s].state # "done_prompt" /\ ~(pc' = "sampled" /\ s >= visit')
                    BY <1>2, <1>4, <1>5, <1>6
                <4>2. CASE i = -1
                    <5>1. ~(i >= 0)
                        BY <4>2
                    <5> QED BY <3>1, <4>1, <4>2, <5>1 DEF IndexInv
                <4>3. CASE i # -1
                    <5>1. i = Len(batch) /\ Len(batch') = Len(batch) + 1 /\ slot'[s].state = "generating"
                        BY <1>6, <4>3
                    <5>2. i >= 0 /\ i < Len(batch') /\ i >= view' /\ pc' # "sample"
                          /\ \A b \in 1 .. Len(batch') : b <= i + 1
                        BY <1>2, <1>30, <1>4, <5>1, SMTT(60)
                    <5> QED BY <3>1, <4>1, <5>1, <5>2 DEF IndexInv
                <4> QED BY <4>2, <4>3
            <3>2. CASE t # s
                <4> DEFINE i == slot[t].i_batch
                <4>1. slot'[t] = slot[t] /\ IndexInv(t) /\ i \in Nat \cup {-1}
                    BY <1>2, <1>6, <3>2, SlotFields DEF IndexesInv
                <4>2. pc' = "sampled" /\ t >= visit' => i = -1
                    <5>1. SUFFICES ASSUME t >= s + 1 PROVE i = -1
                        BY <1>4
                    <5>2. t >= visit
                        BY <1>1, <1>2, <5>1
                    <5> QED BY <1>1, <4>1, <5>2 DEF IndexInv
                <4>3. i >= 0 => i < Len(batch') /\ i >= view'
                    <5>1. i >= 0 => i < Len(batch) /\ i >= view
                        BY <4>1 DEF IndexInv
                    <5>2. Len(batch) \in Nat /\ (Len(batch') = Len(batch) \/ Len(batch') = Len(batch) + 1)
                        BY <1>2, <1>6
                    <5>3. view' = 0
                        BY <1>30
                    <5>4. i \in Nat \cup {-1}
                        BY <4>1
                    <5> HIDE DEF i
                    <5>5. i >= 0 => i < Len(batch')
                        BY <5>1, <5>2, <5>4
                    <5>6. i >= 0 => i >= view'
                        BY <5>3
                    <5> QED BY <5>5, <5>6
                <4>4. i >= 0 => \A b \in 1 .. Len(batch') : batch'[b].slot = t => b <= i + 1
                    <5>1. SUFFICES ASSUME i >= 0, NEW b \in 1 .. Len(batch'), batch'[b].slot = t
                                   PROVE  b <= i + 1
                        OBVIOUS
                    <5>2. ~(b > Len(batch))
                        BY <1>6, <3>2, <5>1
                    <5>3. b \in 1 .. Len(batch)
                        BY <1>2, <5>2
                    <5>4. batch[b].slot = t
                        BY <1>6, <5>1, <5>3
                    <5> QED BY <4>1, <5>1, <5>3, <5>4 DEF IndexInv
                <4>5. pc' # "sample"
                    BY <1>4
                <4>6. /\ i >= 0 => slot[t].state \in {"done_prompt", "generating"}
                      /\ slot[t].state = "done_prompt" => i >= 0
                    BY <4>1 DEF IndexInv
                <4> QED BY <4>1, <4>2, <4>3, <4>4, <4>5, <4>6 DEF IndexInv
            <3> QED BY <3>1, <3>2
        <2>4. ShiftInv'
            <3>1. ASSUME NEW t \in Slots, pc' = "sampled", t >= visit' PROVE ~Full(t)'
                <4>1. t >= s + 1
                    BY <1>4, <3>1
                <4>2. t >= visit /\ t # s
                    BY <1>1, <1>2, <4>1
                <4>3. ~Full(t) /\ slot'[t] = slot[t]
                    BY <1>1, <1>2, <1>6, <4>2 DEF ShiftInv
                <4> QED BY <1>3, <4>3 DEF Full, Busy
            <3>2. pc' # "shift"
                BY <1>4
            <3> QED BY <3>1, <3>2 DEF ShiftInv
        <2>5. ASSUME NEW b \in 1 .. Len(batch')
              PROVE  slot'[batch'[b].slot].state # "prompt" /\ (pc' = "sampled" => batch'[b].slot < visit')
            <3>1. CASE b \in 1 .. Len(batch)
                <4>1. batch'[b] = batch[b] /\ batch[b].slot \in Slots /\ batch[b].slot < s
                    BY <1>1, <1>2, <1>6, <3>1, Lengths DEF BatchInv
                <4>2. slot[batch[b].slot].state # "prompt"
                    BY <1>1, <1>2, <3>1 DEF BatchInv
                <4>3. batch[b].slot # s /\ (visit' = s + 1 => batch[b].slot < visit')
                    BY <1>2, <4>1, SMTT(60)
                <4> QED BY <1>4, <1>6, <4>1, <4>2, <4>3
            <3>2. CASE b \notin 1 .. Len(batch)
                <4>1. b > Len(batch)
                    BY <1>2, <2>1, <3>2
                <4>2. batch'[b].slot = s /\ slot'[s].state = "generating"
                    <5>1. Len(batch') # Len(batch)
                        BY <1>2, <4>1
                    <5> QED BY <1>6, <4>1, <5>1
                <4>3. visit' = s + 1 => s < visit'
                    BY <1>2
                <4> QED BY <1>4, <4>2, <4>3
            <3> QED BY <3>1, <3>2
        <2>50. ASSUME NEW b \in 1 .. Len(batch'), Begun(slot'[batch'[b].slot])
               PROVE  batch'[b].pos < L' + slot'[batch'[b].slot].n_past
            <3>1. CASE batch'[b].slot = s
                BY <1>3, <1>6, <2>50, <3>1
            <3>2. CASE batch'[b].slot # s
                <4>1. b \in 1 .. Len(batch)
                    <5>1. ~(b > Len(batch))
                        BY <1>6, <3>2
                    <5> QED BY <1>2, <5>1
                <4>2. batch'[b] = batch[b] /\ batch[b].slot \in Slots \ {s}
                    BY <1>2, <1>6, <3>2, <4>1, Lengths
                <4>3. slot'[batch[b].slot] = slot[batch[b].slot]
                    BY <1>6, <4>2
                <4> QED BY <1>2, <1>3, <2>50, <4>1, <4>2, <4>3 DEF BatchInv
            <3> QED BY <3>1, <3>2
        <2>6. BatchInv'
            BY <1>3, <1>6, <2>5, <2>50 DEF BatchInv
        <2>7. Typed' /\ KvInv' /\ FileInv'
            <3>1. UNCHANGED <<kv, file>>
                BY <1>1
            <3>2. KvInv' /\ FileInv'
                BY <1>2, <1>3, <3>1, SameKv, SameFile
            <3> QED BY <1>2, <1>3, <1>6, <3>2 DEF Typed
        <2> QED BY <1>3, <1>6, <2>2, <2>3, <2>4, <2>6, <2>7 DEF IInv, CacheInv, IndexesInv
    <1>7. CASE slot[s].state = "generating"
        <2>1. /\ SlotInv(s)' /\ slot' \in [Slots -> SlotRecord] /\ context' \in [Slots -> Seq(Tok)]
              /\ slot'[s].state = "generating" /\ slot'[s].i_batch = Len(batch)
              /\ \A t \in Slots \ {s} : slot'[t] = slot[t] /\ context'[t] = context[t]
              /\ batch' \in Seq(Entry) /\ Len(batch') = Len(batch) + 1
              /\ \A b \in 1 .. Len(batch) : batch'[b] = batch[b]
              /\ batch'[Len(batch) + 1].slot = s
              /\ \A b \in 1 .. Len(batch') : batch'[b].pos \in L .. NCtx - 2
              /\ \A b, c \in 1 .. Len(batch') :
                     batch'[b].slot = batch'[c].slot /\ batch'[b].pos = batch'[c].pos => b = c
              /\ \A b \in Coming' : \A c \in Held' :
                     c.seq_id = {batch'[b].slot + 1} => c.pos # batch'[b].pos
              /\ \A b \in 1 .. Len(batch') :
                     batch'[b].slot = s => batch'[b].pos < L + slot'[s].n_past
              /\ ToCome \subseteq ToCome'
            BY <1>7, SampledGoesOn
        <2>2. \A t \in Slots \ {s} : SlotInv(t)'
            <3>1. UNCHANGED <<kv, system_tokens, system_prompt>>
                BY <1>1, <1>3
            <3> QED BY <1>2, <2>1, <3>1, SlotIsLeft DEF SlotsInv
        <2>3. SlotsInv'
            BY <2>1, <2>2 DEF SlotsInv
        <2>4. \A b \in 1 .. Len(batch') : b > Len(batch) => batch'[b].slot = s
            <3>1. ASSUME NEW b \in 1 .. Len(batch'), b > Len(batch) PROVE b = Len(batch) + 1
                BY <1>2, <2>1, <3>1
            <3> QED BY <2>1, <3>1
        <2> QED BY <1>7, <2>1, <2>3, <2>4
    <1>8. CASE slot[s].state # "generating"
        <2>1. UNCHANGED <<slot, batch, context>>
            BY <1>1, <1>8
        <2>2. Coming' = Coming /\ ToCome' = ToCome
            <3>1. Decoded = 0 /\ Decoded' = 0
                BY <1>1, <1>2, <1>30, <1>4 DEF Decoded
            <3> QED BY <2>1, <3>1 DEF Coming, ToCome
        <2>3. SlotsInv'
            <3>1. UNCHANGED <<kv, system_tokens, system_prompt, slot, context>> /\ ToCome \subseteq ToCome'
                BY <1>1, <1>3, <2>1, <2>2
            <3> QED BY <1>2, <3>1, SlotsAreLeft
        <2>4. \A b \in 1 .. Len(batch') : ~(b > Len(batch))
            BY <1>2, <2>1
        <2> QED BY <1>2, <1>3, <1>5, <2>1, <2>2, <2>3, <2>4 DEF Typed, BatchInv
    <1> QED BY <1>7, <1>8

-----------------------------------------------------------------------------
(* Prompts                                                                 *)

\* A slot's turn of the prompts' loop.
LEMMA PromptTurn ==
    ASSUME IInv, pc = "prompts", NEW s \in Slots, visit = s,
           pc' = "view" \/ (pc' = "prompts" /\ visit' = s + 1), visit' \in Slots,
           UNCHANGED <<systemVars, file, view, n_batch>>,
           slot' \in [Slots -> SlotRecord], context' \in [Slots -> Seq(Tok)],
           \A t \in Slots \ {s} : slot'[t] = slot[t] /\ context'[t] = context[t],
           KvInv', SlotInv(s)', IndexInv(s)',
           \A c \in Held : c.seq_id # {s + 1} => c \in Held',
           \A c \in Held' : c.seq_id # {s + 1} => c \in Held,
           batch' \in Seq(Entry), Len(batch') <= Most(NBatch, NSlots), Len(batch) <= Len(batch'),
           \A b \in 1 .. Len(batch) : batch'[b] = batch[b],
           \A b \in 1 .. Len(batch') : b > Len(batch) => batch'[b].slot = s,
           \A b \in 1 .. Len(batch') : batch'[b].pos \in L .. NCtx - 2,
           \A b, c \in 1 .. Len(batch') :
               batch'[b].slot = batch'[c].slot /\ batch'[b].pos = batch'[c].pos => b = c,
           \A b \in Coming' : \A c \in Held' :
               c.seq_id = {batch'[b].slot + 1} => c.pos # batch'[b].pos,
           \A b \in 1 .. Len(batch') :
               batch'[b].slot = s /\ Begun(slot'[s]) => batch'[b].pos < L + slot'[s].n_past,
           ToCome \subseteq ToCome'
    PROVE  IInv'
    <1>1. /\ Typed /\ PhaseInv /\ FileInv /\ SlotsInv /\ IndexesInv /\ BatchInv
          /\ NSlots \in Nat \ {0} /\ Slots = 0 .. NSlots - 1 /\ Len(batch) \in Nat
          /\ NBatch \in Nat \ {0} /\ view = 0 /\ n_batch = NBatch
        BY Basics, Lengths DEF IInv, PhaseInv
    <1>2. /\ SystemInv' /\ L' = L /\ ~system_need_update'
          /\ UNCHANGED <<system_prompt, system_tokens, system_need_update, clean_kv_cache>>
        BY InTheLoops
    <1>3. ~clean_kv_cache' /\ view' = 0 /\ n_batch' = NBatch
        BY <1>1, <1>2 DEF PhaseInv
    <1>4. PhaseInv'
        <2>1. n_batch' \in 1 .. NBatch
            BY <1>1, <1>3
        <2> QED BY <1>2, <1>3, <2>1 DEF PhaseInv
    <1>5. \A t \in Slots \ {s} : SlotInv(t)'
        <2>1. SUFFICES ASSUME NEW t \in Slots \ {s} PROVE SlotInv(t)'
            OBVIOUS
        <2>2. {t + 1} # {s + 1} /\ SlotInv(t)
            <3>1. t + 1 # s + 1
                BY <2>1, Basics
            <3>2. SlotInv(t)
                BY <1>1, <2>1 DEF SlotsInv
            <3>3. \A a, b : {a} = {b} => a = b
                BY ZenonT(60)
            <3>4. {t + 1} # {s + 1}
                BY <3>1, <3>3
            <3> QED BY <3>2, <3>4
        <2>3. \A p, k : Cell(t, p, k) \in Held => Cell(t, p, k) \in Held'
            <3>1. \A p, k : Cell(t, p, k).seq_id = {t + 1}
                BY DEF Cell
            <3>2. ASSUME NEW p, NEW k, Cell(t, p, k) \in Held PROVE Cell(t, p, k) \in Held'
                <4>1. Cell(t, p, k).seq_id # {s + 1}
                    BY <2>2, <3>1, ZenonT(60)
                <4> QED BY <3>2, <4>1, Zenon
            <3> QED BY <3>2
        <2>4. \A c \in Held' : c.seq_id = {t + 1} => c \in Held
            BY <2>2
        <2> QED BY <1>1, <1>2, <2>2, <2>3, <2>4, SlotStays
    <1>6. ASSUME NEW t \in Slots \ {s} PROVE IndexInv(t)'
        <2> DEFINE i == slot[t].i_batch
        <2>1. slot'[t] = slot[t] /\ IndexInv(t) /\ i \in Nat \cup {-1}
            BY <1>1, SlotFields DEF IndexesInv
        <2>2. i >= 0 => i < Len(batch') /\ i >= view'
            <3>1. i >= 0 => i < Len(batch) /\ i >= view
                BY <2>1 DEF IndexInv
            <3>2. Len(batch') \in Nat /\ i \in Int
                BY <2>1
            <3> HIDE DEF i
            <3>3. i >= 0 => i < Len(batch')
                BY <1>1, <3>1, <3>2
            <3>4. i >= 0 => i >= view'
                BY <1>1, <1>3, <3>1
            <3> QED BY <3>3, <3>4
        <2>3. i >= 0 => \A b \in 1 .. Len(batch') : batch'[b].slot = t => b <= i + 1
            <3>1. SUFFICES ASSUME i >= 0, NEW b \in 1 .. Len(batch'), batch'[b].slot = t
                           PROVE  b <= i + 1
                OBVIOUS
            <3>2. ~(b > Len(batch))
                BY <3>1
            <3>3. b \in 1 .. Len(batch)
                BY <1>1, <3>2
            <3>4. batch[b].slot = t
                BY <3>1, <3>3
            <3> QED BY <2>1, <3>1, <3>3, <3>4 DEF IndexInv
        <2>4. /\ i >= 0 => slot[t].state \in {"done_prompt", "generating"}
              /\ slot[t].state = "done_prompt" => i >= 0
            BY <2>1 DEF IndexInv
        <2>5. pc' # "sample" /\ pc' # "sampled"
            OBVIOUS
        <2> QED BY <2>1, <2>2, <2>3, <2>4, <2>5 DEF IndexInv
    <1>7. BatchInv'
        <2>1. ASSUME NEW b \in 1 .. Len(batch'), slot'[batch'[b].slot].state = "prompt", pc' = "prompts"
              PROVE  batch'[b].slot < visit'
            <3>1. CASE batch'[b].slot = s
                BY <1>1, <2>1, <3>1
            <3>2. CASE batch'[b].slot # s
                <4>1. b \in 1 .. Len(batch)
                    <5>1. ~(b > Len(batch))
                        BY <3>2
                    <5> QED BY <1>1, <5>1
                <4>2. batch'[b] = batch[b] /\ batch[b].slot \in Slots \ {s}
                    BY <1>1, <3>2, <4>1, Lengths
                <4>3. slot[batch[b].slot].state = "prompt"
                    BY <2>1, <4>2
                <4>4. batch[b].slot < visit
                    BY <1>1, <4>1, <4>3 DEF BatchInv
                <4> QED BY <1>1, <2>1, <4>2, <4>4, SMTT(60)
            <3> QED BY <3>1, <3>2
        <2>3. ASSUME NEW b \in 1 .. Len(batch'), Begun(slot'[batch'[b].slot])
              PROVE  batch'[b].pos < L' + slot'[batch'[b].slot].n_past
            <3>1. CASE batch'[b].slot = s
                BY <1>2, <2>3, <3>1
            <3>2. CASE batch'[b].slot # s
                <4>1. b \in 1 .. Len(batch)
                    <5>1. ~(b > Len(batch))
                        BY <3>2
                    <5> QED BY <1>1, <5>1
                <4>2. batch'[b] = batch[b] /\ batch[b].slot \in Slots \ {s}
                    BY <1>1, <3>2, <4>1, Lengths
                <4>3. slot'[batch[b].slot] = slot[batch[b].slot]
                    BY <4>2
                <4> QED BY <1>1, <1>2, <2>3, <4>1, <4>2, <4>3 DEF BatchInv
            <3> QED BY <3>1, <3>2
        <2>2. pc' # "sampled" /\ (pc' \in {"sampled", "prompts"} => pc' = "prompts")
            OBVIOUS
        <2> QED BY <1>2, <2>1, <2>2, <2>3 DEF BatchInv
    <1>8. ShiftInv'
        BY DEF ShiftInv
    <1>9. SlotsInv' /\ IndexesInv' /\ FileInv' /\ Typed'
        <2>1. FileInv'
            BY <1>1, SameFile
        <2>2. SlotsInv' /\ IndexesInv'
            BY <1>5, <1>6 DEF SlotsInv, IndexesInv
        <2>3. Typed'
            BY <1>1, <1>2 DEF Typed
        <2> QED BY <2>1, <2>2, <2>3
    <1> QED BY <1>2, <1>4, <1>7, <1>8, <1>9 DEF IInv, CacheInv

\* A slot whose prompt is to come has nothing in the batch yet when its turn comes.
LEMMA NoEntry ==
    ASSUME IInv, pc = "prompts", NEW s \in Slots, visit = s, slot[s].state = "prompt"
    PROVE  \A b \in 1 .. Len(batch) : batch[b].slot # s
    <1>1. \A b \in 1 .. Len(batch) : slot[batch[b].slot].state = "prompt" => batch[b].slot < visit
        BY DEF IInv, BatchInv
    <1> QED BY <1>1, Basics

\* A slot's turn in which nothing gets into the batch and nothing happens in the cache.
LEMMA SmallTurn ==
    ASSUME IInv, pc = "prompts", NEW s \in Slots, visit = s,
           pc' = "view" \/ (pc' = "prompts" /\ visit' = s + 1), visit' \in Slots,
           UNCHANGED <<kv, systemVars, context, file, batchVars>>,
           slot' = slot \/ slot' = [slot EXCEPT ![s] = Released(slot[s])],
           slot' # slot => Fresh(slot[s])
    PROVE  IInv'
    <1>1. /\ Typed /\ PhaseInv /\ KvInv /\ SlotInv(s) /\ IndexInv(s) /\ BatchInv /\ Len(batch) \in Nat
          /\ UNCHANGED <<batch, view, n_batch>>
        BY Lengths, KvHolds DEF IInv, SlotsInv, IndexesInv, batchVars
    <1>2. /\ L' = L /\ Held' = Held /\ UNCHANGED <<system_tokens, system_prompt>>
        BY InTheLoops DEF Held
    <1>3. KvInv'
        BY <1>1, <1>2, SameKv
    <1>4. Coming' = Coming /\ ToCome' = ToCome
        <2>1. Decoded' = Decoded
            BY <1>1 DEF Decoded
        <2> QED BY <1>1, <2>1 DEF Coming, ToCome
    <1>5. /\ slot' \in [Slots -> SlotRecord] /\ SlotInv(s)' /\ IndexInv(s)'
          /\ \A t \in Slots \ {s} : slot'[t] = slot[t]
        <2>1. CASE slot' = slot
            <3>1. SlotInv(s)'
                <4>1. ToCome \subseteq ToCome' /\ slot'[s] = slot[s] /\ context'[s] = context[s]
                    BY <1>4, <2>1
                <4> QED BY <1>1, <1>2, <4>1, SlotIsLeft
            <3>2. pc' # "sample" /\ pc' # "sampled"
                OBVIOUS
            <3>3. IndexInv(s)'
                BY <1>1, <2>1, <3>2 DEF IndexInv
            <3> QED BY <1>1, <2>1, <3>1, <3>3 DEF Typed
        <2>2. CASE slot' # slot
            <3>1. slot' = [slot EXCEPT ![s] = Released(slot[s])] /\ Fresh(slot[s])
                BY <2>2
            <3>2. slot'[s] = Released(slot[s]) /\ \A t \in Slots \ {s} : slot'[t] = slot[t]
                BY <1>1, <3>1 DEF Typed
            <3>3. CachedInv(s)
                BY <1>1, <3>1 DEF SlotInv, Begun
            <3>4. /\ SlotInv(s)' /\ slot'[s] \in SlotRecord /\ slot'[s].i_batch = -1
                  /\ slot'[s].state = "idle"
                BY <1>1, <1>2, <3>2, <3>3, ReleasedSlot
            <3>5. IndexInv(s)'
                BY <3>4 DEF IndexInv
            <3>6. slot' \in [Slots -> SlotRecord]
                BY <1>1, <3>1, <3>2, <3>4 DEF Typed
            <3> QED BY <3>2, <3>4, <3>5, <3>6
        <2> QED BY <2>1, <2>2
    <1>6. /\ batch' \in Seq(Entry) /\ Len(batch') <= Most(NBatch, NSlots) /\ Len(batch) <= Len(batch')
          /\ \A b \in 1 .. Len(batch) : batch'[b] = batch[b]
          /\ \A b \in 1 .. Len(batch') : b > Len(batch) => batch'[b].slot = s
        <2>1. \A b \in 1 .. Len(batch') : ~(b > Len(batch))
            BY <1>1
        <2> QED BY <1>1, <2>1 DEF Typed, PhaseInv
    <1>7. /\ \A b \in 1 .. Len(batch') : batch'[b].pos \in L .. NCtx - 2
          /\ \A b, c \in 1 .. Len(batch') :
                 batch'[b].slot = batch'[c].slot /\ batch'[b].pos = batch'[c].pos => b = c
          /\ \A b \in Coming' : \A c \in Held' :
                 c.seq_id = {batch'[b].slot + 1} => c.pos # batch'[b].pos
        BY <1>1, <1>2, <1>4 DEF BatchInv
    <1>70. \A b \in 1 .. Len(batch') :
               batch'[b].slot = s /\ Begun(slot'[s]) => batch'[b].pos < L + slot'[s].n_past
        <2>1. CASE slot' = slot
            BY <1>1, <2>1 DEF BatchInv
        <2>2. CASE slot' # slot
            <3>1. slot'[s] = Released(slot[s])
                BY <1>1, <2>2 DEF Typed
            <3>2. ~Begun(slot'[s])
                BY <1>1, <3>1, ReleasedIs
            <3> QED BY <3>2
        <2> QED BY <2>1, <2>2
    <1>8. context' \in [Slots -> Seq(Tok)] /\ \A t \in Slots : context'[t] = context[t]
        BY <1>1 DEF Typed
    <1>9. ToCome \subseteq ToCome'
        BY <1>4
    <1> QED BY <1>1, <1>2, <1>3, <1>5, <1>6, <1>7, <1>70, <1>8, <1>9, PromptTurn

LEMMA TurnOfPrompts ==
    ASSUME NEW s \in Slots, visit = s, Turn("prompts", "view")
    PROVE  (pc' = "view" \/ (pc' = "prompts" /\ visit' = s + 1)) /\ visit' \in Slots
    <1>1. NSlots \in Nat \ {0} /\ Slots = 0 .. NSlots - 1
        BY Basics
    <1>2. CASE s + 1 = NSlots
        BY <1>1, <1>2 DEF Turn
    <1>3. CASE s + 1 # NSlots
        BY <1>1, <1>3 DEF Turn
    <1> QED BY <1>2, <1>3

LEMMA RejectPromptKeeps ==
    ASSUME IInv, NEW s \in Slots, RejectPrompt(s)
    PROVE  IInv'
    <1>1. /\ pc = "prompts" /\ visit = s /\ Fresh(slot[s])
          /\ slot' = [slot EXCEPT ![s] = Released(slot[s])]
          /\ Turn("prompts", "view") /\ UNCHANGED <<kv, systemVars, context, file, batchVars>>
        BY DEF RejectPrompt, Fresh
    <1>2. (pc' = "view" \/ (pc' = "prompts" /\ visit' = s + 1)) /\ visit' \in Slots
        BY <1>1, TurnOfPrompts
    <1> QED BY <1>1, <1>2, SmallTurn

\* What holds of a slot x whose prompt is tokenized when more of it is to come.
Ready(s, x) ==
    /\ x \in SlotRecord /\ x.state = "prompt" /\ x.n_decoded = 0 /\ x.i_batch = -1
    /\ x.n_keep \in 0 .. NCtx - 4 /\ x.n_past < Len(x.prompt_tokens)
    /\ L + Len(x.prompt_tokens) <= NCtx - 1
    /\ x.cache_prompt =>
           /\ x.n_past <= Len(x.cache_tokens)
           /\ \A j \in 1 .. x.n_past : x.cache_tokens[j] = x.prompt_tokens[j]
    /\ ~x.cache_prompt =>
           \A j \in 1 .. Len(x.cache_tokens) : j <= x.n_past => x.cache_tokens[j] = Pad
    /\ \A j \in 1 .. x.n_past :
           \/ Cell(s, L + j - 1, x.prompt_tokens[j]) \in Held
           \/ Token(s, L + j - 1, x.prompt_tokens[j]) \in ToCome
    /\ system_prompt # << >> =>
           0 < x.n_predict /\ Len(system_prompt) + x.n_predict + Len(x.prompt_tokens) <= NCtx

\* Of a prompt at least one token is left to evaluate, and what is reused is in the cache.
LEMMA ReusedIs ==
    ASSUME Typed, NEW s \in Slots, NEW x \in SlotRecord, x.prompt # << >>, ~BeginsWithPad(x),
           x.cache_tokens = slot[s].cache_tokens, CachedInv(s)
    PROVE  LET toks == Truncated(x.prompt, KeepOf(x))
               past == Tokenized(x).n_past
           IN  /\ KeepOf(x) \in 0 .. NCtx - 4
               /\ toks \in Seq(Tok) /\ Len(toks) \in Nat \ {0} /\ Len(toks) < NCtx
               /\ Len(x.prompt) < NCtx => toks = x.prompt
               /\ Tokenized(x) = [x EXCEPT !.prompt_tokens = toks, !.n_keep = KeepOf(x),
                                           !.n_past = past]
               /\ Tokenized(x) \in SlotRecord /\ past \in 0 .. NCtx - 1 /\ past < Len(toks)
               /\ x.cache_prompt => past <= Len(x.cache_tokens)
                                    /\ \A j \in 1 .. past : x.cache_tokens[j] = toks[j]
               /\ ~x.cache_prompt => past = 0
               /\ \A j \in 1 .. past : Cell(s, L + j - 1, toks[j]) \in Held
    <1> DEFINE keep   == KeepOf(x)
               toks   == Truncated(x.prompt, keep)
               common == IF x.cache_prompt THEN CommonPart(x.cache_tokens, toks) ELSE 0
               past   == IF common = Len(toks) THEN common - 1 ELSE common
    <1>1. NCtx \in Nat /\ NCtx >= 5
        BY Basics
    <1>2. /\ x.prompt \in Seq(Tok) /\ x.cache_prompt \in BOOLEAN /\ x.n_keep \in Int
          /\ x.cache_tokens \in Seq(Nat) /\ Len(x.cache_tokens) \in Nat /\ Len(x.prompt) \in Nat
        BY DEF SlotRecord
    <1>5. keep \in 0 .. NCtx - 4
        BY <1>1, <1>2, SMTT(60) DEF KeepOf, Least
    <1> HIDE DEF keep
    <1>7. /\ toks \in Seq(Tok) /\ toks # << >> /\ Len(toks) < NCtx
          /\ Len(x.prompt) < NCtx => toks = x.prompt
        BY <1>2, <1>5, TruncatedIs DEF Tok
    <1>8. Tokenized(x) = [x EXCEPT !.prompt_tokens = toks, !.n_keep = keep, !.n_past = past]
        BY DEF Tokenized, keep
    <1>3. x.cache_prompt => toks[1] # Pad
        BY <1>5, <1>7 DEF BeginsWithPad
    <1> HIDE DEF toks
    <1>9. Len(toks) \in Nat \ {0}
        BY <1>7
    <1>10. /\ x.cache_prompt => common \in 0 .. Len(x.cache_tokens) /\ common \in 0 .. Len(toks)
                                /\ \A j \in 1 .. common : x.cache_tokens[j] = toks[j]
           /\ ~x.cache_prompt => common = 0
        <2>1. CASE x.cache_prompt
            <3> DEFINE c == CommonPart(x.cache_tokens, toks)
            <3>1. common = c
                BY <2>1
            <3>2. c \in 0 .. Least(Len(x.cache_tokens), Len(toks))
                  /\ \A j \in 1 .. c : x.cache_tokens[j] = toks[j]
                BY <1>2, <1>9, CommonPartIs
            <3> HIDE DEF c, common
            <3>3. c \in 0 .. Len(x.cache_tokens) /\ c \in 0 .. Len(toks)
                BY <1>2, <1>9, <3>2 DEF Least
            <3> QED BY <2>1, <3>1, <3>2, <3>3
        <2>2. CASE ~x.cache_prompt
            BY <2>2
        <2> QED BY <2>1, <2>2
    <1> HIDE DEF common
    <1>11. /\ past \in 0 .. NCtx - 1 /\ past < Len(toks)
           /\ x.cache_prompt => past <= Len(x.cache_tokens)
                                /\ \A j \in 1 .. past : x.cache_tokens[j] = toks[j]
           /\ ~x.cache_prompt => past = 0
        <2>1. CASE x.cache_prompt
            <3>1. past \in Nat /\ past <= common /\ past < Len(toks)
                BY <1>9, <1>10, <2>1
            <3>2. \A j \in 1 .. past : j \in 1 .. common
                BY <1>10, <2>1, <3>1
            <3> HIDE DEF past
            <3>3. past \in 0 .. NCtx - 1 /\ past < Len(toks)
                BY <1>1, <1>7, <1>9, <3>1
            <3>4. past <= Len(x.cache_tokens)
                BY <1>2, <1>10, <2>1, <3>1
            <3>5. \A j \in 1 .. past : x.cache_tokens[j] = toks[j]
                BY <1>10, <2>1, <3>2
            <3> QED BY <2>1, <3>3, <3>4, <3>5
        <2>2. CASE ~x.cache_prompt
            BY <1>1, <1>9, <1>10, <2>2
        <2> QED BY <2>1, <2>2
    <1> HIDE DEF past
    <1>13. ASSUME NEW j \in 1 .. past PROVE Cell(s, L + j - 1, toks[j]) \in Held
        <2>1. x.cache_prompt
            BY <1>11
        <2>2. j \in 1 .. Len(x.cache_tokens) /\ x.cache_tokens[j] = toks[j]
            BY <1>2, <1>9, <1>11, <2>1, SMTT(60)
        <2>3. ~Padding(x.cache_tokens)
            <3>1. 1 \in 1 .. past /\ 1 \in 1 .. Len(x.cache_tokens)
                BY <1>2, <1>11, <2>1
            <3>2. x.cache_tokens[1] = toks[1]
                BY <1>11, <2>1, <3>1
            <3> QED BY <1>3, <2>1, <3>1, <3>2 DEF Padding
        <2> QED BY <2>2, <2>3 DEF CachedInv, Padding
    <1> DEFINE y == [x EXCEPT !.prompt_tokens = toks, !.n_keep = keep, !.n_past = past]
    <1>14. keep \in Int
        BY <1>1, <1>5
    <1>15. y \in SlotRecord /\ y.n_past = past
        BY <1>7, <1>11, <1>14 DEF SlotRecord
    <1> HIDE DEF y
    <1>16. Tokenized(x) = y
        BY <1>8 DEF y
    <1>17. Tokenized(x).n_past = past
        BY <1>15, <1>16
    <1>18. \A j \in 1 .. past : Cell(s, L + j - 1, toks[j]) \in Held
        BY <1>13
    <1> QED BY <1>5, <1>7, <1>8, <1>9, <1>11, <1>15, <1>16, <1>17, <1>18 DEF toks, keep

\* What a slot would not decode again of the next prompt is in the cache, once.
LEMMA ReusedAreThere ==
    ASSUME Modest, IInv
    PROVE  ReusedIsThere
    <1>1. SUFFICES ASSUME pc = "tasks", NEW s \in Slots, NEW r \in Prompts,
                          r.cache_prompt, r.prompt # << >>, Cacheable(r),
                          NEW j \in 1 .. Tokenized(Launched(slot[s], r)).n_past
                   PROVE  LET held == CellsOf(kv, s + 1)
                              at   == Len(system_tokens) + j - 1
                              tok  == Tokenized(Launched(slot[s], r)).prompt_tokens[j]
                          IN  /\ [pos |-> at, tok |-> tok] \in DOMAIN held
                              /\ Cardinality({p \in Copies(held) : p[1].pos = at}) = 1
        BY DEF ReusedIsThere
    <1> DEFINE x    == Launched(slot[s], r)
               toks == Truncated(x.prompt, KeepOf(x))
               past == Tokenized(x).n_past
               A    == {AsSaved(c) : c \in CellsIn(Held, s + 1)}
               at   == L + j - 1
    <1>2. Typed /\ PhaseInv /\ SystemInv /\ SlotInv(s)
        BY DEF IInv, SlotsInv
    <1>3. /\ x \in SlotRecord /\ x.prompt = r.prompt /\ x.cache_prompt = r.cache_prompt
          /\ x.cache_tokens = slot[s].cache_tokens
        BY <1>2, LaunchedIs
    <1>4. ToCome = {}
        BY <1>1, <1>2, NothingComing
    <1>5. CachedInv(s)
        <2>1. \A e \in ToCome : e.slot # s
            BY <1>4
        <2> QED BY <1>2, <2>1, WhenAllDecoded
    <1> HIDE DEF x
    <1>6. ~BeginsWithPad(x) /\ x.prompt # << >>
        BY <1>1, <1>3, CacheableIs
    <1>7. /\ past \in Nat /\ past < Len(toks) /\ Len(toks) \in Nat
          /\ past <= Len(slot[s].cache_tokens)
          /\ \A i \in 1 .. past : Cell(s, L + i - 1, toks[i]) \in Held
          /\ Tokenized(x) = [x EXCEPT !.prompt_tokens = toks, !.n_keep = KeepOf(x), !.n_past = past]
        <2>1. /\ Len(toks) \in Nat \ {0} /\ past \in 0 .. NCtx - 1 /\ past < Len(toks)
              /\ x.cache_prompt => past <= Len(x.cache_tokens)
              /\ \A i \in 1 .. past : Cell(s, L + i - 1, toks[i]) \in Held
              /\ Tokenized(x) = [x EXCEPT !.prompt_tokens = toks, !.n_keep = KeepOf(x),
                                          !.n_past = past]
            BY <1>2, <1>3, <1>5, <1>6, ReusedIs, ZenonT(60)
        <2>2. past \in Nat /\ Len(toks) \in Nat
            BY <2>1, Basics
        <2>3. past <= Len(slot[s].cache_tokens)
            BY <1>1, <1>3, <2>1
        <2> QED BY <2>1, <2>2, <2>3
    <1>8. Tokenized(x).prompt_tokens = toks
        BY <1>3, <1>7 DEF SlotRecord
    <1>9. j \in 1 .. past
        BY <1>1 DEF x
    <1>10. KvInv
        <2>1. slot[s].cache_tokens # << >>
            BY <1>7, <1>9
        <2>2. ~system_need_update
            BY <1>2, <2>1 DEF SystemInv
        <2> QED BY <2>2, KvHolds
    <1> DEFINE c == Cell(s, at, toks[j])
               e == AsSaved(c)
    <1>11. c \in CellsIn(Held, s + 1) /\ e = [pos |-> at, tok |-> toks[j]] /\ c.pos = at
        <2>1. c \in Held
            BY <1>7, <1>9
        <2> QED BY <2>1 DEF CellsIn, Cell, AsSaved
    <1>12. CellsOf(kv, s + 1) = SetToBag(A)
        BY <1>2, <1>10, SequenceOf
    <1>13. e \in A
        BY <1>11
    <1>14. \A d \in A : d.pos = at => d = e
        <2>1. SUFFICES ASSUME NEW d \in CellsIn(Held, s + 1), AsSaved(d).pos = at
                       PROVE  AsSaved(d) = e
            OBVIOUS
        <2>2. d.pos = c.pos
            BY <1>11, <2>1 DEF AsSaved
        <2>3. d = c
            BY <1>2, <1>10, <1>11, <2>2, OneAtPosition
        <2> QED BY <2>3
    <1>15. e.pos = at
        BY <1>11
    <1> HIDE DEF c, e, A, at
    <1>16. {p \in Copies(SetToBag(A)) : p[1].pos = at} = {<<e, 1>>}
        <2>1. Copies(SetToBag(A)) = {<<d, 1>> : d \in A}
            BY CopiesOfSet
        <2> QED BY <1>13, <1>14, <1>15, <2>1
    <1>17. Cardinality({<<e, 1>>}) = 1
        BY FS_Singleton
    <1>18. e \in DOMAIN SetToBag(A)
        BY <1>13, SetBag
    <1>19. at = Len(system_tokens) + j - 1
        BY DEF at, L
    <1>20. /\ [pos |-> at, tok |-> toks[j]] \in DOMAIN CellsOf(kv, s + 1)
           /\ Cardinality({p \in Copies(CellsOf(kv, s + 1)) : p[1].pos = at}) = 1
        BY <1>11, <1>12, <1>16, <1>17, <1>18
    <1> QED BY <1>8, <1>19, <1>20 DEF x

\* A prompt that is not rejected is ready to go into the batch.
LEMMA TokenizedIsReady ==
    ASSUME IInv, pc = "prompts", NEW s \in Slots, Fresh(slot[s]), ~Rejected(slot[s])
    PROVE  Ready(s, Tokenized(slot[s]))
    <1> DEFINE x    == slot[s]
               keep == KeepOf(x)
               toks == Truncated(x.prompt, keep)
               y    == Tokenized(x)
    <1>1. /\ Typed /\ PhaseInv /\ SlotInv(s) /\ NCtx \in Nat /\ NCtx >= 5 /\ L \in Nat
          /\ system_tokens = system_prompt /\ L <= NCtx - 2
        BY Basics, Lengths, KvHolds DEF IInv, SlotsInv
    <1>2. /\ x \in SlotRecord /\ x.prompt \in Seq(Tok) /\ x.cache_prompt \in BOOLEAN
          /\ x.n_predict \in Int /\ x.n_keep \in Int /\ x.cache_tokens \in Seq(Nat)
          /\ Len(x.cache_tokens) \in Nat /\ Len(x.prompt) \in Nat
        BY <1>1, SlotFields
    <1>3. /\ x.state = "prompt" /\ x.n_decoded = 0 /\ x.i_batch = -1 /\ x.n_past = 0
          /\ ~BeginsWithPad(x)
        BY <1>1 DEF SlotInv, RestInv, Fresh
    <1>4. CachedInv(s) /\ BudgetInv(s)
        BY <1>1 DEF SlotInv, Begun
    <1>6. x.prompt # << >>
        BY DEF Rejected
    <1>7. /\ keep \in 0 .. NCtx - 4
          /\ toks \in Seq(Tok) /\ Len(toks) \in Nat \ {0} /\ Len(toks) < NCtx
          /\ Len(x.prompt) < NCtx => toks = x.prompt
          /\ y = [x EXCEPT !.prompt_tokens = toks, !.n_keep = keep, !.n_past = y.n_past]
          /\ y \in SlotRecord /\ y.n_past \in 0 .. NCtx - 1 /\ y.n_past < Len(toks)
          /\ x.cache_prompt => y.n_past <= Len(x.cache_tokens)
                               /\ \A j \in 1 .. y.n_past : x.cache_tokens[j] = toks[j]
          /\ ~x.cache_prompt => y.n_past = 0
          /\ \A j \in 1 .. y.n_past : Cell(s, L + j - 1, toks[j]) \in Held
        BY <1>1, <1>2, <1>3, <1>4, <1>6, ReusedIs
    <1> HIDE DEF toks, keep, y
    <1>12. /\ L + Len(toks) <= NCtx - 1
           /\ system_prompt # << >> =>
                  0 < x.n_predict /\ Len(system_prompt) + x.n_predict + Len(toks) <= NCtx
        <2>1. CASE system_prompt = << >>
            <3>1. L = 0
                BY <1>1, <2>1 DEF L
            <3> QED BY <1>1, <1>7, <2>1, <3>1
        <2>2. CASE system_prompt # << >>
            <3>1. /\ 0 < x.n_predict
                  /\ Len(system_prompt) + Unsaid(x) + Len(x.prompt) <= NCtx
                BY <1>3, <1>4, <2>2 DEF BudgetInv
            <3>2. Unsaid(x) = x.n_predict
                BY <1>2, <1>3 DEF Unsaid
            <3>3. Len(system_prompt) = L
                BY <1>1 DEF L
            <3>4. Len(x.prompt) < NCtx
                BY <1>1, <1>2, <3>1, <3>2, <3>3
            <3>5. toks = x.prompt
                BY <1>7, <3>4
            <3> QED BY <1>1, <1>2, <3>1, <3>2, <3>3, <3>5, SMTT(60)
        <2> QED BY <2>1, <2>2
    <1>15. /\ y.state = x.state /\ y.n_decoded = x.n_decoded /\ y.i_batch = x.i_batch
           /\ y.n_keep = keep /\ y.prompt_tokens = toks /\ y.cache_prompt = x.cache_prompt
           /\ y.cache_tokens = x.cache_tokens /\ y.n_predict = x.n_predict
        <2> DEFINE n == y.n_past
        <2>1. y = [x EXCEPT !.prompt_tokens = toks, !.n_keep = keep, !.n_past = n]
            BY <1>7
        <2> HIDE DEF n
        <2> QED BY <1>2, <2>1 DEF SlotRecord
    <1>16. ~y.cache_prompt => \A j \in 1 .. Len(y.cache_tokens) : ~(j <= y.n_past)
        BY <1>2, <1>7, <1>15
    <1>17. Ready(s, y)
        BY <1>3, <1>7, <1>12, <1>15, <1>16 DEF Ready
    <1> QED BY <1>17 DEF y

\* So is a slot that is in the middle of its prompt.
LEMMA PromptIsReady ==
    ASSUME IInv, pc = "prompts", NEW s \in Slots, slot[s].state = "prompt",
           slot[s].prompt_tokens # << >>
    PROVE  Ready(s, slot[s])
    <1> DEFINE x == slot[s]
    <1>1. /\ Typed /\ SlotInv(s) /\ IndexInv(s)
        BY DEF IInv, SlotsInv, IndexesInv
    <1>2. /\ x \in SlotRecord /\ x.n_predict \in Int /\ x.i_batch \in Nat \cup {-1}
          /\ x.n_past \in Nat /\ Len(x.cache_tokens) \in Nat
        BY <1>1, SlotFields
    <1>3. x.i_batch = -1
        BY <1>1, <1>2 DEF IndexInv
    <1>4. ProgressInv(s) /\ ReuseInv(s) /\ HeldInv(s) /\ BudgetInv(s) /\ ~Fresh(x)
        BY <1>1 DEF SlotInv, Begun, Fresh
    <1>5. /\ context[s] = x.prompt_tokens /\ x.n_past < Len(x.prompt_tokens) /\ x.n_decoded = 0
          /\ x.n_keep \in 0 .. NCtx - 4 /\ L + Len(x.prompt_tokens) <= NCtx - 1
        BY <1>4 DEF ProgressInv
    <1>6. system_prompt # << >> =>
              0 < x.n_predict /\ Len(system_prompt) + x.n_predict + Len(x.prompt_tokens) <= NCtx
        <2>1. SUFFICES ASSUME system_prompt # << >>
                       PROVE  0 < x.n_predict
                              /\ Len(system_prompt) + x.n_predict + Len(x.prompt_tokens) <= NCtx
            OBVIOUS
        <2>2. /\ 0 < x.n_predict
              /\ Len(system_prompt) + Unsaid(x) + Len(x.prompt_tokens) <= NCtx
            BY <1>4, <1>5, <2>1 DEF BudgetInv
        <2>3. Unsaid(x) = x.n_predict
            BY <1>2, <1>5 DEF Unsaid
        <2> QED BY <2>2, <2>3
    <1>7. x.cache_prompt => /\ x.n_past <= Len(x.cache_tokens)
                            /\ \A j \in 1 .. x.n_past : x.cache_tokens[j] = x.prompt_tokens[j]
        BY <1>2, <1>4, <1>5 DEF ReuseInv, Padding
    <1>8. ~x.cache_prompt => \A j \in 1 .. Len(x.cache_tokens) : x.cache_tokens[j] = Pad
        BY <1>4 DEF ReuseInv, Padding
    <1>9. \A j \in 1 .. x.n_past :
              \/ Cell(s, L + j - 1, x.prompt_tokens[j]) \in Held
              \/ Token(s, L + j - 1, x.prompt_tokens[j]) \in ToCome
        BY <1>4, <1>5 DEF HeldInv
    <1> QED BY <1>2, <1>3, <1>5, <1>6, <1>7, <1>8, <1>9 DEF Ready

LEMMA ResizedIs ==
    ASSUME NEW q \in Seq(Nat), NEW m \in Nat, NEW r \in Seq(Nat)
    PROVE  LET both == Resized(q, m) \o r
           IN  /\ both \in Seq(Nat) /\ Len(both) = m + Len(r)
               /\ \A j \in 1 .. m : both[j] = IF j <= Len(q) THEN q[j] ELSE Pad
               /\ \A j \in 1 .. Len(r) : both[m + j] = r[j]
    <1> DEFINE z == Resized(q, m)
    <1>1. /\ z \in Seq(Nat) /\ Len(z) = m
          /\ \A j \in 1 .. m : z[j] = IF j <= Len(q) THEN q[j] ELSE Pad
        <2>1. \A j \in 1 .. m : (IF j <= Len(q) THEN q[j] ELSE Pad) \in Nat
            BY DEF Pad
        <2> QED BY <2>1 DEF Resized
    <1> HIDE DEF z
    <1>2. \A a, b \in Seq(Nat) : /\ a \o b \in Seq(Nat) /\ Len(a \o b) = Len(a) + Len(b)
                                 /\ \A j \in 1 .. Len(a) : (a \o b)[j] = a[j]
                                 /\ \A j \in 1 .. Len(b) : (a \o b)[Len(a) + j] = b[j]
        OBVIOUS
    <1>3. /\ z \o r \in Seq(Nat) /\ Len(z \o r) = m + Len(r)
          /\ \A j \in 1 .. m : (z \o r)[j] = z[j]
          /\ \A j \in 1 .. Len(r) : (z \o r)[m + j] = r[j]
        BY <1>1, <1>2, ZenonT(60)
    <1>4. \A j \in 1 .. m : (z \o r)[j] = IF j <= Len(q) THEN q[j] ELSE Pad
        BY <1>1, <1>3
    <1> QED BY <1>3, <1>4 DEF z

\* What the turn of a slot x changes that puts k tokens of its prompt into the batch.
PromptStep(s, x, k, piece, done) ==
    /\ piece = SubSeq(x.prompt_tokens, x.n_past + 1, x.n_past + k)
    /\ done <=> x.n_past + k = Len(x.prompt_tokens)
    /\ kv' = Removed(kv, s + 1, L + x.n_past, -1)
    /\ batch' = batch \o Piece(s, piece, x.n_past)
    /\ slot' = [slot EXCEPT ![s] =
                   [x EXCEPT !.n_past = x.n_past + k,
                             !.cache_tokens = Resized(x.cache_tokens, x.n_past)
                                              \o (IF x.cache_prompt THEN piece ELSE << >>),
                             !.state = IF done THEN "done_prompt" ELSE x.state,
                             !.i_batch = IF done THEN Len(batch') - 1 ELSE x.i_batch,
                             !.n_decoded = IF done THEN 0 ELSE x.n_decoded]]
    /\ context' = [context EXCEPT ![s] = x.prompt_tokens]

\* What fits of a prompt gets into the batch, in place of what the cache holds behind the
\* common part.
LEMMA PromptGoesOn ==
    ASSUME IInv, NEW s \in Slots, pc = "prompts", visit = s, slot[s].state = "prompt",
           NEW x, Ready(s, x), NEW k \in Nat, x.n_past + k <= Len(x.prompt_tokens),
           k = 0 \/ Len(batch) + k <= NBatch,
           pc' = "view" \/ (pc' = "prompts" /\ visit' = s + 1), visit' \in Slots,
           UNCHANGED <<systemVars, file, view, n_batch>>,
           NEW piece, NEW done \in BOOLEAN, PromptStep(s, x, k, piece, done)
    PROVE  IInv'
    <1> DEFINE past   == x.n_past
               toks   == x.prompt_tokens
               more   == IF x.cache_prompt THEN piece ELSE << >>
               cached == Resized(x.cache_tokens, past) \o more
               state  == IF done THEN "done_prompt" ELSE x.state
               index  == IF done THEN Len(batch') - 1 ELSE x.i_batch
    <1>1. /\ Typed /\ PhaseInv /\ KvInv /\ SlotInv(s) /\ NCtx \in Nat /\ NCtx >= 5 /\ L \in Nat
          /\ Len(batch) \in Nat /\ NBatch \in Nat \ {0} /\ NSlots \in Nat \ {0} /\ L <= NCtx - 2
          /\ L' = L /\ UNCHANGED <<system_tokens, system_prompt>> /\ view' = 0 /\ view = 0
        BY Basics, Lengths, InTheLoops, KvHolds DEF IInv, SlotsInv, PhaseInv
    <1>2. /\ x \in SlotRecord /\ x.state = "prompt" /\ x.n_decoded = 0 /\ x.i_batch = -1
          /\ x.n_keep \in 0 .. NCtx - 4 /\ past < Len(toks) /\ L + Len(toks) <= NCtx - 1
        BY DEF Ready
    <1>3. /\ past \in Nat /\ toks \in Seq(Tok) /\ Len(toks) \in Nat /\ x.cache_tokens \in Seq(Nat)
          /\ Len(x.cache_tokens) \in Nat /\ x.cache_prompt \in BOOLEAN /\ x.n_predict \in Int
        <2>1. past \in Nat /\ toks \in Seq(Tok) /\ x.cache_prompt \in BOOLEAN /\ x.n_predict \in Int
            BY <1>1, <1>2 DEF SlotRecord
        <2>2. x.cache_tokens \in Seq(Nat)
            BY <1>2 DEF SlotRecord
        <2> QED BY <2>1, <2>2
    <1>4. past + k \in 0 .. NCtx - 1 /\ past + k <= Len(toks) /\ L + past + k <= NCtx - 1
        <2>1. past + k <= Len(toks) /\ k \in Nat
            OBVIOUS
        <2>2. past \in Nat /\ Len(toks) \in Nat /\ L \in Nat /\ NCtx \in Nat /\ L + Len(toks) <= NCtx - 1
            BY <1>1, <1>2, <1>3
        <2> DEFINE n == Len(toks)
        <2> HIDE DEF past, n
        <2>3. past + k \in Nat /\ past + k <= NCtx - 1 /\ L + past + k <= NCtx - 1
            BY <2>1, <2>2, SMTT(60) DEF n
        <2> QED BY <2>1, <2>2, <2>3
    <1>5. /\ piece \in Seq(Tok) /\ Len(piece) = k /\ \A j \in 1 .. k : piece[j] = toks[past + j]
        <2>1. piece = SubSeq(toks, past + 1, past + k)
            BY DEF PromptStep
        <2>2. \A q \in Seq(Tok) : \A m \in Nat : m + k <= Len(q) =>
                  LET r == SubSeq(q, m + 1, m + k)
                  IN  r \in Seq(Tok) /\ Len(r) = k /\ \A j \in 1 .. k : r[j] = q[m + j]
            OBVIOUS
        <2> QED BY <1>3, <1>4, <2>1, <2>2
    <1>6. piece \in Seq(Nat)
        BY <1>5 DEF Tok
    <1>7. /\ cached \in Seq(Nat)
          /\ \A j \in 1 .. past : cached[j] = IF j <= Len(x.cache_tokens) THEN x.cache_tokens[j] ELSE Pad
          /\ x.cache_prompt => Len(cached) = past + k /\ \A j \in 1 .. k : cached[past + j] = piece[j]
          /\ ~x.cache_prompt => Len(cached) = past
        <2>1. more \in Seq(Nat)
            BY <1>6
        <2>2. /\ cached \in Seq(Nat) /\ Len(cached) = past + Len(more)
              /\ \A j \in 1 .. past : cached[j] = IF j <= Len(x.cache_tokens) THEN x.cache_tokens[j] ELSE Pad
              /\ \A j \in 1 .. Len(more) : cached[past + j] = more[j]
            <3> DEFINE Follows(q, m, r, both) ==
                           /\ both \in Seq(Nat) /\ Len(both) = m + Len(r)
                           /\ \A j \in 1 .. m : both[j] = IF j <= Len(q) THEN q[j] ELSE Pad
                           /\ \A j \in 1 .. Len(r) : both[m + j] = r[j]
            <3>1. \A q, r \in Seq(Nat) : \A m \in Nat : Follows(q, m, r, Resized(q, m) \o r)
                BY ResizedIs, ZenonT(60)
            <3>2. past \in Nat /\ x.cache_tokens \in Seq(Nat) /\ more \in Seq(Nat)
                BY <1>3, <2>1
            <3> HIDE DEF more, past, Follows
            <3>3. Follows(x.cache_tokens, past, more, cached)
                BY <3>1, <3>2, Zenon
            <3> HIDE DEF cached
            <3> QED BY <3>3, Zenon DEF Follows
        <2>3. x.cache_prompt => more = piece
            OBVIOUS
        <2>4. ~x.cache_prompt => Len(more) = 0
            OBVIOUS
        <2>5. past + 0 = past
            BY <1>3
        <2> HIDE DEF more, cached, past
        <2>6. x.cache_prompt => Len(cached) = past + k /\ \A j \in 1 .. k : cached[past + j] = piece[j]
            BY <1>5, <2>2, <2>3, Zenon
        <2>7. ~x.cache_prompt => Len(cached) = past
            BY <2>2, <2>4, <2>5, Zenon
        <2> QED BY <2>2, <2>6, <2>7, Zenon
    <1>8. \A b \in 1 .. Len(batch) : batch[b].slot # s
        BY NoEntry
    <1>9. /\ KvInv'
          /\ \A c \in Held : c.seq_id # {s + 1} => c \in Held'
          /\ \A c \in Held' : c \in Held
          /\ \A c \in Held' : c.seq_id = {s + 1} => c.pos < L + past
          /\ \A p, t : Cell(s, p, t) \in Held /\ p < L + past => Cell(s, p, t) \in Held'
        <2> DEFINE gone == HitsOf(Held, s + 1, L + past, -1)
        <2>1. L + past \in Nat \cup {-1} /\ -1 \in Int /\ L + past >= L
            BY <1>1, <1>3, SMTT(60)
        <2>20. kv' = Removed(kv, s + 1, L + past, -1)
            BY DEF PromptStep
        <2>2. /\ kv' = SetToBag(Held \ gone)
              /\ \A c \in gone : c \in Held /\ c.seq_id = {s + 1}
            BY <1>1, <2>1, <2>20, RemovedIs
        <2>3. \A c \in gone : c.pos >= L + past /\ c.pos \in Nat
            BY <1>1, <2>2, Owners DEF HitsOf
        <2>4. \A c \in Held : c.seq_id = {s + 1} /\ c.pos >= L + past => c \in gone
            BY DEF HitsOf
        <2> HIDE DEF gone
        <2>5. \A c \in Held \ (Held \ gone) : c.pos >= L
            <3>1. L + past \in Nat /\ L \in Nat /\ L + past >= L
                BY <1>1, <1>3, SMTT(60)
            <3>2. \A a, b, p \in Nat : a >= b /\ p >= a => p >= b
                OBVIOUS
            <3>3. \A c \in gone : c.pos >= L
                BY <2>3, <3>1, <3>2, Zenon
            <3> QED BY <3>3, Zenon
        <2>6. KvInv' /\ Held' = Held \ gone
            BY <1>1, <2>2, <2>5, KvLess
        <2>7. \A c \in Held' : c.seq_id = {s + 1} => c.pos < L + past
            <3>1. ASSUME NEW c \in Held, c \notin gone, c.seq_id = {s + 1} PROVE c.pos < L + past
                <4>1. c.pos \in Nat
                    BY <1>1, Owners
                <4>2. ~(c.pos >= L + past)
                    BY <2>4, <3>1
                <4> QED BY <1>1, <1>3, <4>1, <4>2, SMTT(60)
            <3> QED BY <2>6, <3>1
        <2>8. ASSUME NEW p, NEW t, Cell(s, p, t) \in Held, p < L + past
              PROVE  Cell(s, p, t) \in Held'
            <3>1. Cell(s, p, t).pos = p
                BY DEF Cell
            <3>2. p \in Nat
                BY <1>1, <2>8, <3>1, Owners
            <3>3. Cell(s, p, t) \notin gone
                BY <1>1, <1>3, <2>3, <2>8, <3>1, <3>2
            <3> QED BY <2>6, <2>8, <3>3
        <2> QED BY <2>2, <2>6, <2>7, <2>8
    <1>10. L + past + Len(piece) <= NCtx - 1 /\ (pc' \in {"sampled", "prompts", "view"})
           /\ pc \in {"sampled", "prompts"} /\ (\A c \in Held' : c.seq_id # {s + 1} => c \in Held)
        BY <1>1, <1>4, <1>5, <1>9
    <1>11. /\ batch' \in Seq(Entry) /\ Len(batch') = Len(batch) + k
           /\ \A b \in 1 .. Len(batch) : batch'[b] = batch[b]
           /\ \A b \in Len(batch) + 1 .. Len(batch') : batch'[b].slot = s
           /\ \A b \in 1 .. Len(batch') : batch'[b].pos \in L .. NCtx - 2
           /\ \A b, c \in 1 .. Len(batch') :
                  batch'[b].slot = batch'[c].slot /\ batch'[b].pos = batch'[c].pos => b = c
           /\ \A b \in Coming' : \A c \in Held' :
                  c.seq_id = {batch'[b].slot + 1} => c.pos # batch'[b].pos
           /\ \A b \in 1 .. Len(batch') : batch'[b].slot = s => batch'[b].pos < L + (past + k)
           /\ ToCome \subseteq ToCome'
           /\ \A j \in 1 .. k : Token(s, L + past + j - 1, piece[j]) \in ToCome'
        <2>1. /\ batch' \in Seq(Entry) /\ Len(batch') = Len(batch) + Len(piece)
              /\ \A b \in 1 .. Len(batch) : batch'[b] = batch[b]
              /\ \A b \in Len(batch) + 1 .. Len(batch') : batch'[b].slot = s
              /\ \A b \in 1 .. Len(batch') : batch'[b].pos \in L .. NCtx - 2
              /\ \A b, c \in 1 .. Len(batch') :
                     batch'[b].slot = batch'[c].slot /\ batch'[b].pos = batch'[c].pos => b = c
              /\ \A b \in Coming' : \A c \in Held' :
                     c.seq_id = {batch'[b].slot + 1} => c.pos # batch'[b].pos
              /\ \A b \in 1 .. Len(batch') :
                     batch'[b].slot = s => batch'[b].pos < L + (past + Len(piece))
              /\ ToCome \subseteq ToCome'
              /\ \A j \in 1 .. Len(piece) : Token(s, L + past + j - 1, piece[j]) \in ToCome'
            <3>1. batch' = batch \o Piece(s, piece, past)
                BY DEF PromptStep
            <3>2. \A c \in Held' : c.seq_id = {s + 1} => c.pos < L + past
                BY <1>9
            <3>3. L + past + Len(piece) <= NCtx - 1 /\ past \in Nat /\ piece \in Seq(Tok)
                BY <1>3, <1>5, <1>10
            <3> HIDE DEF past
            <3>4. /\ batch' \in Seq(Entry)
                  /\ \A b \in 1 .. Len(batch) : batch'[b] = batch[b]
                  /\ \A b \in Len(batch) + 1 .. Len(batch') : batch'[b].slot = s
                BY <1>8, <1>10, <3>1, <3>2, <3>3, BatchGrows
            <3>5. /\ \A b \in 1 .. Len(batch') : batch'[b].pos \in L .. NCtx - 2
                  /\ \A b, c \in 1 .. Len(batch') :
                         batch'[b].slot = batch'[c].slot /\ batch'[b].pos = batch'[c].pos => b = c
                BY <1>8, <1>10, <3>1, <3>2, <3>3, BatchGrows
            <3>6. \A b \in Coming' : \A c \in Held' :
                      c.seq_id = {batch'[b].slot + 1} => c.pos # batch'[b].pos
                BY <1>8, <1>10, <3>1, <3>2, <3>3, BatchGrows
            <3>7. /\ ToCome \subseteq ToCome'
                  /\ \A j \in 1 .. Len(piece) : Token(s, L + past + j - 1, piece[j]) \in ToCome'
                BY <1>8, <1>10, <3>1, <3>2, <3>3, BatchGrows
            <3>8. Len(batch') = Len(batch) + Len(piece)
                <4> DEFINE added == Piece(s, piece, past)
                <4>1. added \in Seq(Entry) /\ Len(added) = Len(piece)
                    BY <1>1, <3>3, PieceIs
                <4>2. batch \in Seq(Entry) /\ batch' = batch \o added
                    BY <1>1, <3>1, Lengths
                <4>3. \A a, b \in Seq(Entry) : Len(a \o b) = Len(a) + Len(b)
                    OBVIOUS
                <4> HIDE DEF added
                <4> QED BY <4>1, <4>2, <4>3
            <3>9. \A b \in 1 .. Len(batch') :
                      batch'[b].slot = s => batch'[b].pos < L + (past + Len(piece))
                BY <1>8, <1>10, <3>1, <3>2, <3>3, BatchGrows
            <3> QED BY <3>4, <3>5, <3>6, <3>7, <3>8, <3>9
        <2> QED BY <1>5, <2>1
    <1>12. /\ (done => k > 0 /\ past + k = Len(toks))
           /\ (~done => past + k < Len(toks))
        <2>1. done <=> past + k = Len(toks)
            BY DEF PromptStep
        <2> QED BY <1>2, <1>3, <1>4, <2>1
    <1>13. /\ state \in {"prompt", "done_prompt"} /\ (done <=> state = "done_prompt")
           /\ (done <=> state # "prompt") /\ (done => index = Len(batch) + k - 1)
           /\ (~done => index = -1) /\ index \in Nat \cup {-1} /\ state # "idle"
        BY <1>1, <1>2, <1>11, <1>12, SMTT(60)
    <1> DEFINE y == [x EXCEPT !.n_past = past + k, !.cache_tokens = cached, !.state = state,
                              !.i_batch = index, !.n_decoded = 0]
    <1>14. /\ slot'[s] = y /\ slot' = [slot EXCEPT ![s] = y]
           /\ context'[s] = toks
           /\ \A t \in Slots \ {s} : slot'[t] = slot[t] /\ context'[t] = context[t]
        <2>1. (IF done THEN 0 ELSE x.n_decoded) = 0
            BY <1>2
        <2>2. slot' = [slot EXCEPT ![s] = y]
            BY <2>1 DEF PromptStep
        <2>3. context' = [context EXCEPT ![s] = toks]
            BY DEF PromptStep
        <2> HIDE DEF y
        <2> QED BY <1>1, <2>2, <2>3 DEF Typed
    <1> HIDE DEF past, toks, cached, state, index
    <1>15. /\ y \in SlotRecord /\ y.n_past = past + k /\ y.cache_tokens = cached /\ y.state = state
           /\ y.i_batch = index /\ y.n_decoded = 0 /\ y.n_keep = x.n_keep
           /\ y.cache_prompt = x.cache_prompt /\ y.n_predict = x.n_predict
           /\ y.prompt_tokens = x.prompt_tokens
        <2>1. state \in {"idle", "prompt", "done_prompt", "generating"} /\ 0 \in 0 .. NCtx - 1
            BY <1>1, <1>13
        <2> QED BY <1>2, <1>4, <1>7, <1>13, <2>1, ZenonT(60) DEF SlotRecord
    <1> HIDE DEF y
    <1>16. slot' \in [Slots -> SlotRecord] /\ context' \in [Slots -> Seq(Tok)]
        <2>1. context' = [context EXCEPT ![s] = toks]
            BY DEF toks, PromptStep
        <2>2. slot' = [slot EXCEPT ![s] = y]
            BY <1>14
        <2> QED BY <1>1, <1>3, <1>15, <2>1, <2>2 DEF Typed
    <1>17. Begun(slot'[s]) /\ ~Fresh(slot'[s])
        <2>1. toks # << >>
            BY <1>2, <1>3 DEF toks, past
        <2> QED BY <1>13, <1>14, <1>15, <2>1 DEF Begun, Fresh, toks
    <1>18. ProgressInv(s)'
        <2>1. state = "prompt" => past + k < Len(toks)
            BY <1>12, <1>13
        <2>2. state # "prompt" => past + k = Len(toks)
            BY <1>12, <1>13
        <2>3. L + Len(toks) <= NCtx - 1 /\ state # "generating" /\ slot'[s].prompt_tokens = toks
            BY <1>2, <1>13, <1>14, <1>15 DEF toks
        <2> QED BY <1>1, <1>2, <1>14, <1>15, <2>1, <2>2, <2>3 DEF ProgressInv
    <1>19. ReuseInv(s)'
        <2>1. CASE x.cache_prompt
            <3>1. past <= Len(x.cache_tokens) /\ \A j \in 1 .. past : x.cache_tokens[j] = toks[j]
                BY <2>1 DEF Ready, past, toks
            <3>2. ASSUME NEW j \in 1 .. past + k PROVE cached[j] = toks[j]
                <4>1. CASE j <= past
                    <5>1. j \in 1 .. past /\ j <= Len(x.cache_tokens)
                        BY <1>3, <3>1, <4>1
                    <5> QED BY <1>7, <3>1, <5>1
                <4>2. CASE ~(j <= past)
                    <5>1. j - past \in 1 .. k /\ past + (j - past) = j
                        BY <1>3, <4>2
                    <5>2. cached[past + (j - past)] = piece[j - past] /\ piece[j - past] = toks[past + (j - past)]
                        BY <1>5, <1>7, <2>1, <5>1
                    <5> QED BY <5>1, <5>2
                <4> QED BY <4>1, <4>2
            <3>3. Len(cached) = past + k
                BY <1>7, <2>1
            <3> QED BY <1>14, <1>15, <2>1, <3>2, <3>3 DEF ReuseInv, Padding
        <2>2. CASE ~x.cache_prompt
            <3>1. \A j \in 1 .. Len(x.cache_tokens) : j <= past => x.cache_tokens[j] = Pad
                BY <2>2 DEF Ready, past
            <3>2. \A j \in 1 .. past : cached[j] = Pad
                <4>1. \A j \in 1 .. past : j <= past /\ (j <= Len(x.cache_tokens) => j \in 1 .. Len(x.cache_tokens))
                    BY <1>3
                <4> QED BY <1>7, <3>1, <4>1
            <3>3. Len(cached) = past
                BY <1>7, <2>2
            <3> QED BY <1>14, <1>15, <2>2, <3>2, <3>3 DEF ReuseInv, Padding
        <2> QED BY <2>1, <2>2
    <1>20. HeldInv(s)'
        <2>1. slot'[s].n_past = past + k /\ context'[s] = toks
            BY <1>14, <1>15
        <2>2. ASSUME NEW c \in Held', c.seq_id = {s + 1} PROVE c.pos < L' + slot'[s].n_past
            <3>1. c.pos < L + past /\ c.pos \in Nat
                BY <1>1, <1>9, <2>2, Owners
            <3>2. c.pos < L + (past + k)
                BY <1>1, <1>3, <3>1
            <3> QED BY <1>1, <2>1, <3>2
        <2>3. ASSUME NEW j \in 1 .. past + k
              PROVE  Cell(s, L + j - 1, toks[j]) \in Held' \/ Token(s, L + j - 1, toks[j]) \in ToCome'
            <3>1. CASE j <= past
                <4>1. j \in 1 .. past /\ L + j - 1 < L + past
                    BY <1>1, <1>3, <3>1
                <4>2. \/ Cell(s, L + j - 1, toks[j]) \in Held
                      \/ Token(s, L + j - 1, toks[j]) \in ToCome
                    BY <4>1 DEF Ready, past, toks
                <4> QED BY <1>9, <1>11, <4>1, <4>2
            <3>2. CASE ~(j <= past)
                <4>1. j - past \in 1 .. k /\ past + (j - past) = j /\ L + past + (j - past) - 1 = L + j - 1
                    <5>1. \A a, b, c \in Nat : \A d \in 1 .. a + b : ~(d <= a) =>
                              d - a \in 1 .. b /\ a + (d - a) = d /\ c + a + (d - a) - 1 = c + d - 1
                        OBVIOUS
                    <5>2. past \in Nat /\ k \in Nat /\ L \in Nat
                        BY <1>1, <1>3
                    <5> HIDE DEF past
                    <5> QED BY <2>3, <3>2, <5>1, <5>2, ZenonT(60)
                <4>2. piece[j - past] = toks[past + (j - past)]
                    BY <1>5, <4>1
                <4>3. Token(s, L + past + (j - past) - 1, piece[j - past]) \in ToCome'
                    BY <1>11, <4>1
                <4> QED BY <4>1, <4>2, <4>3
            <3> QED BY <3>1, <3>2
        <2> QED BY <1>1, <2>1, <2>2, <2>3 DEF HeldInv
    <1>21. RestInv(s)' /\ BudgetInv(s)'
        <2>1. RestInv(s)'
            BY <1>17 DEF RestInv, Begun
        <2>2. Unsaid(slot'[s]) = x.n_predict
            BY <1>3, <1>13, <1>14, <1>15 DEF Unsaid
        <2>3. system_prompt # << >> =>
                  0 < x.n_predict /\ Len(system_prompt) + x.n_predict + Len(toks) <= NCtx
            BY DEF Ready, toks
        <2> QED BY <1>1, <1>14, <1>15, <1>17, <2>1, <2>2, <2>3 DEF BudgetInv
    <1>22. SlotInv(s)'
        BY <1>17, <1>18, <1>19, <1>20, <1>21 DEF SlotInv
    <1>23. IndexInv(s)'
        <2>1. CASE done
            <3>1. slot'[s].i_batch = Len(batch) + k - 1 /\ slot'[s].state = "done_prompt"
                  /\ Len(batch') = Len(batch) + k /\ k > 0
                BY <1>11, <1>12, <1>13, <1>14, <1>15, <2>1
            <3>2. /\ slot'[s].i_batch >= 0 /\ slot'[s].i_batch < Len(batch')
                  /\ slot'[s].i_batch >= view'
                  /\ \A b \in 1 .. Len(batch') : b <= slot'[s].i_batch + 1
                BY <1>1, <3>1
            <3> QED BY <3>1, <3>2 DEF IndexInv
        <2>2. CASE ~done
            <3>1. slot'[s].i_batch = -1 /\ slot'[s].state = "prompt"
                BY <1>13, <1>14, <1>15, <2>2
            <3>2. ~(slot'[s].i_batch >= 0)
                BY <3>1
            <3> QED BY <3>1, <3>2 DEF IndexInv
        <2> QED BY <2>1, <2>2
    <1>24. /\ Len(batch') <= Most(NBatch, NSlots) /\ Len(batch) <= Len(batch')
           /\ \A b \in 1 .. Len(batch') : b > Len(batch) => batch'[b].slot = s
           /\ \A b \in 1 .. Len(batch') :
                  batch'[b].slot = s /\ Begun(slot'[s]) => batch'[b].pos < L + slot'[s].n_past
        <2>1. Len(batch) <= Most(NBatch, NSlots)
            BY <1>1 DEF PhaseInv
        <2>2. Len(batch') <= Most(NBatch, NSlots)
            BY <1>1, <1>11, <2>1 DEF Most
        <2>3. Len(batch) <= Len(batch')
            BY <1>1, <1>11
        <2>4. \A b \in 1 .. Len(batch') : b > Len(batch) => b \in Len(batch) + 1 .. Len(batch')
            BY <1>1, <1>11
        <2>5. slot'[s].n_past = past + k
            BY <1>14, <1>15
        <2> QED BY <1>11, <2>2, <2>3, <2>4, <2>5
    <1> QED BY <1>9, <1>11, <1>14, <1>16, <1>22, <1>23, <1>24, PromptTurn

LEMMA AddPromptKeeps ==
    ASSUME IInv, NEW s \in Slots, AddPrompt(s)
    PROVE  IInv'
    <1> DEFINE x     == IF slot[s].prompt_tokens = << >> THEN Tokenized(slot[s]) ELSE slot[s]
               room  == Most(0, NBatch - Len(batch))
               k     == Least(Len(x.prompt_tokens) - x.n_past, room)
               piece == SubSeq(x.prompt_tokens, x.n_past + 1, x.n_past + k)
               done  == x.n_past + k = Len(x.prompt_tokens)
    <1>1. /\ pc = "prompts" /\ visit = s
          /\ IF slot[s].state = "prompt"
             THEN /\ ~(slot[s].prompt_tokens = << >> /\ Rejected(slot[s]))
                  /\ kv' = Removed(kv, s + 1, End(x), -1)
                  /\ batch' = batch \o Piece(s, piece, x.n_past)
                  /\ slot' = [slot EXCEPT ![s] =
                       [x EXCEPT !.n_past = x.n_past + k,
                                 !.cache_tokens = Resized(x.cache_tokens, x.n_past)
                                                  \o (IF x.cache_prompt THEN piece ELSE << >>),
                                 !.state = IF done THEN "done_prompt" ELSE x.state,
                                 !.i_batch = IF done THEN Len(batch') - 1 ELSE x.i_batch,
                                 !.n_decoded = IF done THEN 0 ELSE x.n_decoded]]
                  /\ context' = [context EXCEPT ![s] = x.prompt_tokens]
             ELSE UNCHANGED <<kv, batch, slot, context>>
          /\ IF Len(batch') >= NBatch THEN pc' = "view" /\ visit' = 0 ELSE Turn("prompts", "view")
          /\ UNCHANGED <<systemVars, file, view, n_batch>>
        BY ZenonT(60) DEF AddPrompt
    <1>2. (pc' = "view" \/ (pc' = "prompts" /\ visit' = s + 1)) /\ visit' \in Slots
        <2>1. CASE Len(batch') >= NBatch
            BY <1>1, <2>1, Basics, SMTT(60)
        <2>2. CASE ~(Len(batch') >= NBatch)
            BY <1>1, <2>2, TurnOfPrompts, SMTT(60)
        <2> QED BY <2>1, <2>2
    <1>3. CASE slot[s].state # "prompt"
        <2>1. UNCHANGED <<kv, systemVars, context, file, batchVars>> /\ slot' = slot
            BY <1>1, <1>3 DEF batchVars
        <2> QED BY <1>1, <1>2, <2>1, SmallTurn
    <1>4. CASE slot[s].state = "prompt"
        <2>1. Ready(s, x)
            <3>1. CASE slot[s].prompt_tokens = << >>
                <4>1. Fresh(slot[s]) /\ ~Rejected(slot[s])
                    BY <1>1, <1>4, <3>1, SMTT(60) DEF Fresh
                <4>2. Ready(s, Tokenized(slot[s]))
                    BY <1>1, <4>1, TokenizedIsReady
                <4> QED BY <3>1, <4>2
            <3>2. CASE slot[s].prompt_tokens # << >>
                <4>1. Ready(s, slot[s])
                    BY <1>1, <1>4, <3>2, PromptIsReady
                <4> QED BY <3>2, <4>1
            <3> QED BY <3>1, <3>2
        <2> HIDE DEF x
        <2>2. x \in SlotRecord /\ x.n_past < Len(x.prompt_tokens)
            BY <2>1 DEF Ready
        <2>3. x.n_past \in Nat /\ Len(x.prompt_tokens) \in Nat
            <3>1. x.n_past \in Nat /\ x.prompt_tokens \in Seq(Tok)
                BY <2>2, Basics DEF SlotRecord
            <3> QED BY <3>1
        <2>4. k \in Nat /\ x.n_past + k <= Len(x.prompt_tokens) /\ (k = 0 \/ Len(batch) + k <= NBatch)
            BY <2>2, <2>3, Basics, Lengths, SMTT(60) DEF Least, Most, IInv
        <2>5. End(x) = L + x.n_past
            BY DEF End, L
        <2> HIDE DEF k
        <2>6. kv' = Removed(kv, s + 1, L + x.n_past, -1)
            BY <1>1, <1>4, <2>5
        <2>7. done \in BOOLEAN
            OBVIOUS
        <2>8. PromptStep(s, x, k, piece, done)
            BY <1>1, <1>4, <2>6 DEF PromptStep
        <2> HIDE DEF piece, done
        <2>10. UNCHANGED <<systemVars, file, view, n_batch>>
            BY <1>1
        <2> QED BY <1>1, <1>2, <1>4, <2>1, <2>4, <2>7, <2>8, <2>10, PromptGoesOn, SMTT(60)
    <1> QED BY <1>3, <1>4, SMTT(60)

-----------------------------------------------------------------------------
(* Decoding                                                                *)

\* Between views the slots, the cache and the batch stay.
LEMMA NothingDecoded ==
    ASSUME IInv, pc \in {"view", "decode"}, pc' \in {"view", "decode"},
           UNCHANGED <<kv, systemVars, slot, context, file, visit, batch, view>>,
           n_batch' \in 1 .. NBatch, pc' = "decode" => view < Len(batch)
    PROVE  IInv'
    <1>1. /\ Typed /\ PhaseInv /\ KvInv /\ FileInv /\ SlotsInv /\ IndexesInv /\ BatchInv
          /\ Len(batch) \in Nat
        BY Lengths, KvHolds DEF IInv
    <1>2. /\ SystemInv' /\ L' = L /\ ~system_need_update' /\ Held' = Held
          /\ UNCHANGED <<system_prompt, system_tokens, system_need_update, clean_kv_cache>>
        BY InTheLoops DEF Held
    <1>3. Coming' = Coming /\ ToCome' = ToCome
        <2>1. Decoded' = Decoded
            BY <1>1 DEF Decoded
        <2> QED BY <2>1 DEF Coming, ToCome
    <1>4. PhaseInv'
        BY <1>1, <1>2 DEF PhaseInv
    <1>5. KvInv' /\ FileInv' /\ Typed'
        <2>1. KvInv' /\ FileInv'
            BY <1>1, <1>2, SameKv, SameFile
        <2> QED BY <1>1, <1>2, <2>1 DEF Typed
    <1>6. SlotsInv'
        <2>1. ToCome \subseteq ToCome'
            BY <1>3
        <2> QED BY <1>1, <1>2, <2>1, SlotsAreLeft
    <1>7. IndexesInv'
        BY <1>1 DEF IndexesInv, IndexInv
    <1>8. ShiftInv' /\ BatchInv'
        BY <1>1, <1>2, <1>3 DEF ShiftInv, BatchInv
    <1> QED BY <1>2, <1>4, <1>5, <1>6, <1>7, <1>8 DEF IInv, CacheInv

\* The iteration is over with nothing left of the batch.
LEMMA IterationEnds ==
    ASSUME IInv, pc \in {"view", "decode"}, pc' = "tasks", batch' = << >>, view' = 0, n_batch' = NBatch,
           UNCHANGED <<kv, systemVars, file, visit>>,
           slot' \in [Slots -> SlotRecord], context' \in [Slots -> Seq(Tok)], SlotsInv',
           \A s \in Slots : slot'[s].i_batch = -1 /\ slot'[s].state # "done_prompt"
    PROVE  IInv'
    <1>1. /\ Typed /\ PhaseInv /\ KvInv /\ FileInv
        BY KvHolds DEF IInv
    <1>2. /\ SystemInv' /\ L' = L /\ ~system_need_update'
          /\ UNCHANGED <<system_prompt, system_tokens, system_need_update, clean_kv_cache>>
        BY InTheLoops
    <1>3. Len(batch') = 0 /\ Coming' = {}
        BY DEF Coming, Decoded
    <1>4. PhaseInv'
        <2>1. 0 <= Most(NBatch, NSlots) /\ NBatch \in 1 .. NBatch
            BY Basics DEF Most
        <2> QED BY <1>1, <1>2, <1>3, <2>1 DEF PhaseInv
    <1>5. KvInv' /\ FileInv' /\ Typed'
        <2>1. KvInv' /\ FileInv' /\ batch' \in Seq(Entry)
            BY <1>1, <1>2, SameKv, SameFile
        <2> QED BY <1>1, <1>2, <2>1 DEF Typed
    <1>6. \A s \in Slots : ~(slot'[s].i_batch >= 0)
        OBVIOUS
    <1>7. IndexesInv' /\ ShiftInv' /\ BatchInv'
        BY <1>3, <1>6 DEF IndexesInv, IndexInv, ShiftInv, BatchInv
    <1> QED BY <1>2, <1>4, <1>5, <1>7 DEF IInv, CacheInv

LEMMA BeginViewKeeps ==
    ASSUME IInv, BeginView
    PROVE  IInv'
    <1>1. /\ Typed /\ PhaseInv /\ SlotsInv /\ IndexesInv /\ view \in Nat /\ Len(batch) \in Nat
          /\ n_batch \in 1 .. NBatch
        BY Lengths DEF IInv, PhaseInv
    <1>2. /\ pc = "view" /\ UNCHANGED <<kv, systemVars, slot, context, file, visit>>
          /\ IF view >= Len(batch)
             THEN /\ pc' = "tasks" /\ batch' = << >> /\ view' = 0 /\ n_batch' = NBatch
             ELSE pc' = "decode" /\ UNCHANGED <<batch, view, n_batch>>
        BY DEF BeginView, batchVars
    <1>3. CASE view >= Len(batch)
        <2>1. /\ pc' = "tasks" /\ batch' = << >> /\ view' = 0 /\ n_batch' = NBatch
            BY <1>2, <1>3
        <2>2. ToCome = {}
            <3>1. Decoded = view
                BY <1>1, <1>2, RestIs
            <3>2. Coming = {}
                BY <1>1, <1>3, <3>1 DEF Coming
            <3> QED BY <3>2 DEF ToCome
        <2>3. SlotsInv'
            <3>1. UNCHANGED <<system_tokens, system_prompt>> /\ ToCome \subseteq ToCome'
                BY <1>2, <2>2, InTheLoops
            <3> QED BY <1>1, <1>2, <3>1, SlotsAreLeft
        <2>4. ASSUME NEW s \in Slots PROVE slot'[s].i_batch = -1 /\ slot'[s].state # "done_prompt"
            <3>1. slot[s].i_batch \in Nat \cup {-1} /\ IndexInv(s) /\ slot' = slot
                BY <1>1, <1>2, SlotFields DEF IndexesInv
            <3>2. ~(slot[s].i_batch >= 0)
                BY <1>1, <1>3, <3>1 DEF IndexInv
            <3> QED BY <3>1, <3>2 DEF IndexInv
        <2>5. slot' \in [Slots -> SlotRecord] /\ context' \in [Slots -> Seq(Tok)]
            BY <1>1, <1>2 DEF Typed
        <2> QED BY <1>2, <2>1, <2>3, <2>4, <2>5, IterationEnds
    <1>4. CASE ~(view >= Len(batch))
        <2>1. pc' = "decode" /\ UNCHANGED <<batch, view, n_batch>> /\ view < Len(batch)
            BY <1>1, <1>2, <1>4
        <2> QED BY <1>1, <1>2, <2>1, NothingDecoded
    <1> QED BY <1>3, <1>4

\* A view is one ubatch: when it finds no place, none of it is stored.
LEMMA RetryKeeps ==
    ASSUME Modest, IInv, Retry
    PROVE  IInv'
    <1>1. /\ Typed /\ PhaseInv /\ KvInv /\ view < Len(batch) /\ Rest \in Nat \ {0} /\ Rest <= n_batch
          /\ n_batch \in Nat /\ n_batch <= NBatch /\ NBatch <= NUbatch /\ NUbatch \in Nat \ {0}
          /\ NBatch \in Nat
        <2>1. Typed /\ PhaseInv /\ KvInv /\ pc = "decode"
            BY KvHolds DEF IInv, Retry, Retrying
        <2>2. view < Len(batch)
            BY <2>1 DEF PhaseInv
        <2> QED BY <2>1, <2>2, RestIs, Basics DEF Modest
    <1>2. /\ pc = "decode" /\ n_batch > 1 /\ pc' = "view" /\ n_batch' = n_batch \div 2 /\ view' = view
          /\ UNCHANGED <<systemVars, slot, context, file, visit, batch>>
        BY DEF Retry, Retrying
    <1>3. PICK k \in 0 .. Rest : Stuck(k) /\ kv' = Stored(kv, SubSeq(Viewed, 1, k))
        BY DEF Retry, Retrying
    <1>4. k = 0
        <2>1. PICK j \in 0 .. Rest \div NUbatch : k = j * NUbatch
            BY <1>3 DEF Stuck
        <2>2. k < Rest
            BY <1>3 DEF Stuck
        <2>3. Rest \div NUbatch \in Nat
            BY <1>1
        <2>4. j \in Nat
            BY <2>1, <2>3
        <2>5. j = 0 \/ j * NUbatch >= NUbatch
            BY <1>1, <2>4
        <2>6. j = 0
            BY <1>1, <2>1, <2>2, <2>5
        <2> QED BY <1>1, <2>1, <2>6
    <1>5. kv' = kv
        <2>1. SubSeq(Viewed, 1, 0) = << >>
            BY DEF Viewed
        <2>2. kv = SetToBag(Held)
            BY <1>1 DEF KvInv
        <2>3. /\ \A i, j \in DOMAIN << >> : << >>[i] = << >>[j] => i = j
              /\ \A j \in DOMAIN << >> : << >>[j] \notin Held
            OBVIOUS
        <2>4. Stored(SetToBag(Held), << >>) = SetToBag(Held \cup {<< >>[j] : j \in DOMAIN << >>})
            BY <2>3, StoredSet
        <2>5. Held \cup {<< >>[j] : j \in DOMAIN << >>} = Held
            OBVIOUS
        <2> QED BY <1>3, <1>4, <2>1, <2>2, <2>4, <2>5
    <1>6. n_batch' \in 1 .. NBatch
        <2>1. n_batch \div 2 \in Nat /\ n_batch \div 2 >= 1 /\ n_batch \div 2 <= n_batch
            BY <1>1, <1>2
        <2> QED BY <1>1, <1>2, <2>1
    <1> QED BY <1>2, <1>5, <1>6, NothingDecoded

\* The cache never runs full, so giving up is left to requests that remember nothing.
LEMMA GiveUpKeeps ==
    ASSUME Modest, IInv, GiveUp
    PROVE  IInv'
    <1>1. /\ Typed /\ PhaseInv /\ KvInv /\ SlotsInv /\ view < Len(batch) /\ Rest \in Nat \ {0}
          /\ Rest <= n_batch /\ view \in Nat /\ Len(batch) \in Nat /\ NUbatch \in Nat \ {0}
        <2>1. Typed /\ PhaseInv /\ KvInv /\ SlotsInv /\ pc = "decode"
            BY KvHolds DEF IInv, GiveUp
        <2>2. view < Len(batch)
            BY <2>1 DEF PhaseInv
        <2> QED BY <2>1, <2>2, RestIs, Lengths, Basics
    <1>2. /\ pc = "decode" /\ pc' = "tasks" /\ batch' = << >> /\ view' = 0 /\ n_batch' = NBatch
          /\ UNCHANGED <<kv, systemVars, file, visit>>
          /\ slot' = [s \in Slots |-> Released(slot[s])] /\ context' = [s \in Slots |-> << >>]
        BY DEF GiveUp
    <1>3. UNCHANGED <<system_tokens, system_prompt>> /\ Held' = Held
        BY <1>2, InTheLoops DEF Held
    <1>4. \A s \in Slots : ~slot[s].cache_prompt
        <2>1. ~(n_batch = 1 /\ Stuck(0))
            <3>1. SUFFICES ASSUME n_batch = 1, Stuck(0) PROVE FALSE
                OBVIOUS
            <3>2. Rest = 1
                BY <1>1, <3>1
            <3>3. ~(Least(NUbatch, Rest - 0) > 1)
                BY <1>1, <3>2 DEF Least
            <3>4. Total(kv) + 0 + 1 > Size
                BY <3>1, <3>3 DEF Stuck
            <3>5. Total(kv) + Len(batch) - view <= Size
                BY <1>1, <1>2, RoomIsKept DEF RoomForBatch
            <3>6. Total(kv) \in Nat /\ Size \in Nat
                <4>1. Total(kv) = Cardinality(Held) /\ Cardinality(Held) \in Nat
                    BY <1>1, TotalOfSet, FS_CardinalityType DEF KvInv
                <4> QED BY <4>1, Basics DEF Size
            <3> QED BY <1>1, <3>4, <3>5, <3>6
        <2>2. "decode_error" \notin Risks
            BY DEF Modest
        <2> QED BY <2>1, <2>2 DEF GiveUp
    <1>5. ASSUME NEW s \in Slots
          PROVE  /\ SlotInv(s)' /\ slot'[s] \in SlotRecord /\ slot'[s].i_batch = -1
                 /\ slot'[s].state = "idle"
        <2>1. CachedInv(s)
            <3>1. CASE ~Begun(slot[s])
                BY <1>1, <3>1 DEF SlotsInv, SlotInv
            <3>2. CASE Begun(slot[s])
                <4>1. ReuseInv(s)
                    BY <1>1, <3>2 DEF SlotsInv, SlotInv
                <4> QED BY <1>4, <4>1 DEF ReuseInv, CachedInv, Padding
            <3> QED BY <3>1, <3>2
        <2>2. slot'[s] = Released(slot[s])
            BY <1>2
        <2> QED BY <1>1, <1>3, <2>1, <2>2, ReleasedSlot
    <1>6. slot' \in [Slots -> SlotRecord] /\ context' \in [Slots -> Seq(Tok)]
        <2>1. \A s \in Slots : Released(slot[s]) \in SlotRecord
            BY <1>1, ReleasedIs
        <2> QED BY <1>2, <2>1
    <1>7. SlotsInv' /\ \A s \in Slots : slot'[s].i_batch = -1 /\ slot'[s].state # "done_prompt"
        BY <1>5 DEF SlotsInv
    <1> QED BY <1>2, <1>6, <1>7, IterationEnds

\* The tokens of a view as cells, every one a place of its own.
LEMMA ViewIsStored ==
    ASSUME IInv, pc = "decode", kv' = Stored(kv, Viewed)
    PROVE  /\ Rest \in Nat \ {0} /\ view + Rest <= Len(batch)
           /\ Held' = Held \cup {Cell(batch[b].slot, batch[b].pos, batch[b].tok) : b \in view + 1 .. view + Rest}
           /\ kv' = SetToBag(Held')
    <1> DEFINE put(b) == Cell(batch[b].slot, batch[b].pos, batch[b].tok)
               New    == {put(b) : b \in view + 1 .. view + Rest}
    <1>1. /\ Typed /\ PhaseInv /\ KvInv /\ BatchInv /\ view < Len(batch) /\ view \in Nat
          /\ Rest \in Nat \ {0} /\ Rest <= Len(batch) - view /\ Len(batch) \in Nat
          /\ Coming = view + 1 .. Len(batch)
        <2>1. Typed /\ PhaseInv /\ KvInv /\ BatchInv
            BY KvHolds DEF IInv
        <2>2. view < Len(batch)
            BY <2>1 DEF PhaseInv
        <2>3. Decoded = view
            BY <2>1, RestIs
        <2> QED BY <2>1, <2>2, <2>3, RestIs, Lengths DEF Coming
    <1>2. DOMAIN Viewed = 1 .. Rest /\ \A j \in 1 .. Rest : Viewed[j] = put(view + j)
        <2>1. Viewed = [j \in 1 .. Rest |-> put(view + j)]
            BY DEF Viewed, Cell
        <2> HIDE DEF put
        <2> QED BY <2>1
    <1>3. \A j \in 1 .. Rest : view + j \in Coming /\ view + j \in 1 .. Len(batch)
                               /\ view + j \in view + 1 .. view + Rest
        BY <1>1
    <1>4. ASSUME NEW i \in 1 .. Rest, NEW j \in 1 .. Rest, Viewed[i] = Viewed[j] PROVE i = j
        <2>1. put(view + i) = put(view + j)
            BY <1>2, <1>4
        <2>2. batch[view + i].slot + 1 = batch[view + j].slot + 1
              /\ batch[view + i].pos = batch[view + j].pos
            BY <2>1 DEF Cell
        <2>3. batch[view + i].slot \in Slots /\ batch[view + j].slot \in Slots
            BY <1>1, <1>3, Lengths
        <2> HIDE DEF put
        <2>4. batch[view + i].slot = batch[view + j].slot
            <3>1. \A a, b \in Slots : a + 1 = b + 1 => a = b
                BY Basics
            <3> QED BY <2>2, <2>3, <3>1, Zenon
        <2>5. view + i = view + j
            BY <1>1, <1>3, <2>2, <2>4 DEF BatchInv
        <2> QED BY <1>1, <2>5
    <1>5. ASSUME NEW j \in 1 .. Rest PROVE Viewed[j] \notin Held
        <2>1. SUFFICES ASSUME put(view + j) \in Held PROVE FALSE
            BY <1>2
        <2>2. put(view + j).seq_id = {batch[view + j].slot + 1} /\ put(view + j).pos = batch[view + j].pos
            BY DEF Cell
        <2> HIDE DEF put
        <2> QED BY <1>1, <1>3, <2>1, <2>2 DEF BatchInv
    <1>6. {Viewed[j] : j \in DOMAIN Viewed} = New
        <2>1. \A b \in view + 1 .. view + Rest : b - view \in 1 .. Rest /\ view + (b - view) = b
            BY <1>1
        <2> HIDE DEF put
        <2>2. ASSUME NEW j \in 1 .. Rest PROVE Viewed[j] \in New
            BY <1>2, <1>3
        <2>3. ASSUME NEW b \in view + 1 .. view + Rest PROVE put(b) \in {Viewed[j] : j \in 1 .. Rest}
            <3>1. Viewed[b - view] = put(b)
                BY <1>2, <2>1
            <3> QED BY <2>1, <3>1
        <2> QED BY <1>2, <2>2, <2>3
    <1> HIDE DEF New
    <1>7. kv' = SetToBag(Held \cup New)
        <2>3. DOMAIN Viewed = 1 .. Rest
            BY <1>2
        <2>4. \A i, j \in DOMAIN Viewed : Viewed[i] = Viewed[j] => i = j
            BY <1>4, <2>3
        <2>5. \A j \in DOMAIN Viewed : Viewed[j] \notin Held
            BY <1>5, <2>3
        <2>1. Stored(SetToBag(Held), Viewed) = SetToBag(Held \cup {Viewed[j] : j \in DOMAIN Viewed})
            BY <2>4, <2>5, StoredSet
        <2>2. kv = SetToBag(Held)
            BY <1>1 DEF KvInv
        <2> QED BY <1>6, <2>1, <2>2
    <1>8. Held' = Held \cup New
        BY <1>7, KvOf
    <1> QED BY <1>1, <1>7, <1>8 DEF New

LEMMA DecodeOkKeeps ==
    ASSUME IInv, DecodeOk
    PROVE  IInv'
    <1> DEFINE put(b) == Cell(batch[b].slot, batch[b].pos, batch[b].tok)
               V      == view + 1 .. view + Rest
    <1>1. /\ pc = "decode" /\ kv' = Stored(kv, Viewed) /\ pc' = "sample" /\ visit' = 0
          /\ UNCHANGED <<systemVars, slot, context, file, batch, view, n_batch>>
        BY DEF DecodeOk, batchVars
    <1>2. /\ Typed /\ PhaseInv /\ KvInv /\ FileInv /\ SlotsInv /\ IndexesInv /\ BatchInv
          /\ view < Len(batch) /\ view \in Nat /\ Len(batch) \in Nat /\ L \in Nat
          /\ NCtx \in Nat /\ NSlots \in Nat \ {0}
        <2>1. Typed /\ PhaseInv
            BY DEF IInv
        <2>2. view < Len(batch) /\ view \in Nat
            BY <1>1, <2>1 DEF PhaseInv
        <2>3. KvInv
            BY <1>1, KvHolds DEF IInv, PhaseInv
        <2> QED BY <2>1, <2>2, <2>3, Lengths, Basics DEF IInv
    <1>3. /\ SystemInv' /\ L' = L /\ ~system_need_update'
          /\ UNCHANGED <<system_prompt, system_tokens, system_need_update, clean_kv_cache>>
        BY <1>1, InTheLoops
    <1>4. /\ Rest \in Nat \ {0} /\ view + Rest <= Len(batch)
          /\ Held' = Held \cup {put(b) : b \in V} /\ kv' = SetToBag(Held')
        BY <1>1, ViewIsStored
    <1>5. Coming = view + 1 .. Len(batch) /\ Coming' = view + Rest + 1 .. Len(batch)
        <2>1. Decoded = view
            BY <1>1, <1>2, RestIs
        <2>2. Rest' = Rest
            BY <1>1 DEF Rest
        <2>3. Decoded' = view + Rest
            BY <1>1, <2>2 DEF Decoded
        <2> QED BY <1>1, <2>1, <2>3 DEF Coming
    <1>6. /\ \A b \in V : b \in Coming /\ b \in 1 .. Len(batch)
          /\ \A b \in Coming' : b \in Coming /\ b \in 1 .. Len(batch) /\ b \notin V
          /\ \A b \in Coming : b \in V \/ b \in Coming'
          /\ Coming \subseteq 1 .. Len(batch)
        BY <1>2, <1>4, <1>5
    <1> HIDE DEF V
    <1>7. ASSUME NEW b \in V
          PROVE  /\ batch[b].slot \in Slots /\ batch[b].pos \in L .. NCtx - 2 /\ batch[b].tok \in Tok
                 /\ put(b).seq_id = {batch[b].slot + 1} /\ put(b).pos = batch[b].pos
                 /\ put(b).tok = batch[b].tok
                 /\ put(b) = [pos |-> put(b).pos, seq_id |-> put(b).seq_id, tok |-> put(b).tok]
        BY <1>2, <1>6, Lengths DEF Cell, BatchInv
    <1> HIDE DEF put
    <1>8. KvInv'
        <2>1. IsFiniteSet(Held')
            <3>1. IsFiniteSet(V)
                BY <1>2, <1>4, FS_Interval DEF V
            <3>2. IsFiniteSet({put(b) : b \in V})
                <4> DEFINE f == [b \in V |-> put(b)]
                           W == {put(b) : b \in V}
                <4>1. f \in Surjection(V, W)
                    BY DEF Surjection
                <4> QED BY <3>1, <4>1, FS_Surjection
            <3> QED BY <1>2, <1>4, <3>2, FS_Union DEF KvInv
        <2>2. ASSUME NEW c \in Held'
              PROVE  /\ c = [pos |-> c.pos, seq_id |-> c.seq_id, tok |-> c.tok]
                     /\ c.pos \in 0 .. NCtx - 2 /\ c.tok \in Tok
                     /\ c.pos < L => c = SystemCell(system_tokens, c.pos + 1)
                     /\ c.pos >= L => \E s \in Slots : c.seq_id = {s + 1}
            <3>1. CASE c \in Held
                BY <1>2, <3>1 DEF KvInv
            <3>2. CASE c \notin Held
                <4>1. PICK b \in V : c = put(b)
                    BY <1>4, <3>2
                <4>2. c.pos \in 0 .. NCtx - 2 /\ ~(c.pos < L)
                    BY <1>2, <1>7, <4>1
                <4> QED BY <1>7, <4>1, <4>2
            <3> QED BY <3>1, <3>2
        <2>3. \A j \in 1 .. L : SystemCell(system_tokens, j) \in Held'
            BY <1>2, <1>4 DEF KvInv
        <2>4. ASSUME NEW b \in V, NEW d \in Held, put(b).seq_id = d.seq_id, put(b).pos = d.pos PROVE FALSE
            <3>1. d.seq_id = {batch[b].slot + 1} /\ d.pos = batch[b].pos /\ b \in Coming
                BY <1>6, <1>7, <2>4
            <3> QED BY <1>2, <3>1 DEF BatchInv
        <2>5. ASSUME NEW b \in V, NEW c \in V, put(b).seq_id = put(c).seq_id, put(b).pos = put(c).pos
              PROVE  put(b) = put(c)
            <3>1. \A p, q : {p} = {q} => p = q
                OBVIOUS
            <3>2. batch[b].slot + 1 = batch[c].slot + 1 /\ batch[b].pos = batch[c].pos
                BY <1>7, <2>5, <3>1
            <3>5. batch[b].slot \in Slots /\ batch[c].slot \in Slots
                BY <1>7
            <3>3. batch[b].slot = batch[c].slot
                BY <3>2, <3>5, Basics, SMTT(60)
            <3>4. b = c
                BY <1>2, <1>6, <3>2, <3>3 DEF BatchInv
            <3> QED BY <3>4
        <2>6. ASSUME NEW c \in Held', NEW d \in Held', c.seq_id = d.seq_id, c.pos = d.pos PROVE c = d
            <3>1. c \in Held \/ \E b \in V : c = put(b)
                BY <1>4
            <3>2. d \in Held \/ \E b \in V : d = put(b)
                BY <1>4
            <3>3. CASE c \in Held /\ d \in Held
                BY <1>2, <2>6, <3>3 DEF KvInv
            <3>4. CASE c \in Held /\ \E b \in V : d = put(b)
                BY <2>4, <2>6, <3>4
            <3>5. CASE d \in Held /\ \E b \in V : c = put(b)
                BY <2>4, <2>6, <3>5
            <3>6. CASE (\E b \in V : c = put(b)) /\ (\E b \in V : d = put(b))
                BY <2>5, <2>6, <3>6
            <3> QED BY <3>1, <3>2, <3>3, <3>4, <3>5, <3>6
        <2> QED BY <1>3, <1>4, <2>1, <2>2, <2>3, <2>6 DEF KvInv
    <1>9. ASSUME NEW s \in Slots PROVE SlotInv(s)'
        <2>1. ASSUME NEW c \in Held', c.seq_id = {s + 1}
              PROVE  c \in Held \/ (Begun(slot[s]) => c.pos < L + slot[s].n_past)
            <3>1. CASE c \in Held
                BY <3>1
            <3>2. CASE c \notin Held
                <4>1. PICK b \in V : c = put(b)
                    BY <1>4, <3>2
                <4>2. \A p, q : {p} = {q} => p = q
                    OBVIOUS
                <4>3. batch[b].slot + 1 = s + 1 /\ c.pos = batch[b].pos
                    BY <1>7, <2>1, <4>1, <4>2
                <4>4. batch[b].slot = s
                    BY <1>7, <4>3, Basics, SMTT(60)
                <4> QED BY <1>2, <1>6, <4>3, <4>4 DEF BatchInv
            <3> QED BY <3>1, <3>2
        <2>2. \A p, t : Cell(s, p, t) \in Held => Cell(s, p, t) \in Held'
            BY <1>4
        <2>3. ASSUME NEW p, NEW t, Token(s, p, t) \in ToCome
              PROVE  Cell(s, p, t) \in Held' \/ Token(s, p, t) \in ToCome'
            <3>1. PICK b \in Coming : batch[b] = Token(s, p, t)
                BY <2>3 DEF ToCome
            <3>2. CASE b \in V
                <4>1. batch[b].slot = s /\ batch[b].pos = p /\ batch[b].tok = t
                    BY <3>1, TokenIs
                <4>2. put(b) = Cell(s, p, t)
                    BY <4>1 DEF put
                <4> QED BY <1>4, <3>2, <4>2
            <3>3. CASE b \in Coming'
                BY <1>1, <3>1, <3>3 DEF ToCome
            <3> QED BY <1>6, <3>2, <3>3
        <2>4. SlotInv(s) /\ slot'[s] = slot[s] /\ context'[s] = context[s]
            BY <1>1, <1>2 DEF SlotsInv
        <2> QED BY <1>2, <1>3, <2>1, <2>2, <2>3, <2>4, SlotStays
    <1>10. PhaseInv'
        BY <1>1, <1>2, <1>3, Basics DEF PhaseInv
    <1>11. IndexesInv'
        <2>1. \A s \in Slots : ~(s < visit')
            BY <1>1, Basics
        <2> QED BY <1>1, <1>2, <2>1 DEF IndexesInv, IndexInv
    <1>12. BatchInv'
        <2>1. ASSUME NEW b \in Coming', NEW c \in Held', c.seq_id = {batch[b].slot + 1}
              PROVE  c.pos # batch[b].pos
            <3>1. CASE c \in Held
                BY <1>2, <1>6, <2>1, <3>1 DEF BatchInv
            <3>2. CASE c \notin Held
                <4>1. PICK a \in V : c = put(a)
                    BY <1>4, <3>2
                <4>2. \A p, q : {p} = {q} => p = q
                    OBVIOUS
                <4>3. batch[a].slot + 1 = batch[b].slot + 1 /\ c.pos = batch[a].pos
                    BY <1>7, <2>1, <4>1, <4>2
                <4>4. batch[a].slot = batch[b].slot
                    BY <1>2, <1>6, <4>3, Lengths, Basics, SMTT(60)
                <4>5. a \in 1 .. Len(batch) /\ b \in 1 .. Len(batch) /\ a # b
                    BY <1>6
                <4> QED BY <1>2, <4>3, <4>4, <4>5 DEF BatchInv
            <3> QED BY <3>1, <3>2
        <2> QED BY <1>1, <1>2, <1>3, <2>1 DEF BatchInv
    <1>13. ShiftInv'
        BY <1>1 DEF ShiftInv
    <1>14. FileInv' /\ Typed' /\ SlotsInv'
        <2>1. FileInv'
            BY <1>1, <1>2, SameFile
        <2> QED BY <1>1, <1>2, <1>3, <1>9, <2>1 DEF Typed, SlotsInv
    <1> QED BY <1>3, <1>8, <1>10, <1>11, <1>12, <1>13, <1>14 DEF IInv, CacheInv

-----------------------------------------------------------------------------
(* Sampling                                                                *)

\* When the last slot has had its turn, what is still to come is behind the view, be it a full
\* one or the last.
LEMMA ViewGoesOn ==
    ASSUME IInv, pc = "sample", NEW s \in Slots, visit = s, AfterSlot, UNCHANGED <<batch, n_batch>>
    PROVE  /\ \/ (pc' = "sample" /\ visit' = s + 1 /\ view' = view /\ Rest' = Rest)
              \/ (pc' = "view" /\ visit' = 0 /\ view' = view + n_batch /\ s + 1 = NSlots)
           /\ visit' \in Slots /\ view' \in Nat /\ Coming' = Coming /\ ToCome' = ToCome
           /\ \A i \in Nat : i < Len(batch) /\ i >= view + Rest => i >= view'
    <1>1. /\ Typed /\ PhaseInv /\ view < Len(batch) /\ view \in Nat /\ Len(batch) \in Nat
          /\ n_batch \in Nat \ {0} /\ Rest \in Nat \ {0} /\ Rest <= n_batch /\ Rest <= Len(batch) - view
          /\ Decoded = view + Rest
        BY RestIs, Lengths DEF IInv
    <1>2. Rest = n_batch \/ Rest = Len(batch) - view
        BY <1>1, RestIs
    <1>3. NSlots \in Nat \ {0} /\ Slots = 0 .. NSlots - 1
        BY Basics
    <1>4. Coming = view + Rest + 1 .. Len(batch)
        BY <1>1 DEF Coming
    <1>5. CASE s + 1 = NSlots
        <2>1. pc' = "view" /\ visit' = 0 /\ view' = view + n_batch
            BY <1>5 DEF AfterSlot
        <2>2. Coming' = view + n_batch + 1 .. Len(batch)
            <3>1. Decoded' = view + n_batch
                BY <1>1, <2>1 DEF Decoded
            <3> QED BY <3>1 DEF Coming
        <2>3. Coming' = Coming
            BY <1>1, <1>2, <1>4, <2>2
        <2>4. ToCome' = ToCome
            BY <2>3 DEF ToCome
        <2> QED BY <1>1, <1>2, <1>3, <1>5, <2>1, <2>3, <2>4
    <1>6. CASE s + 1 # NSlots
        <2>1. pc' = "sample" /\ visit' = s + 1 /\ view' = view
            BY <1>6 DEF AfterSlot
        <2>2. Rest' = Rest
            BY <2>1 DEF Rest
        <2>3. Coming' = Coming
            <3>1. Decoded' = view + Rest
                BY <2>1, <2>2 DEF Decoded
            <3> QED BY <1>4, <3>1 DEF Coming
        <2>4. ToCome' = ToCome
            BY <2>3 DEF ToCome
        <2>5. s + 1 \in Slots
            BY <1>3, <1>6
        <2>6. \A i \in Nat : i < Len(batch) /\ i >= view + Rest => i >= view'
            BY <1>1, <2>1
        <2> QED BY <1>1, <2>1, <2>2, <2>3, <2>4, <2>5, <2>6
    <1> QED BY <1>5, <1>6

LEMMA SampleTurn ==
    ASSUME IInv, pc = "sample", NEW s \in Slots, visit = s, AfterSlot,
           UNCHANGED <<kv, systemVars, file, batch, n_batch>>,
           slot' \in [Slots -> SlotRecord], context' \in [Slots -> Seq(Tok)],
           \A t \in Slots \ {s} : slot'[t] = slot[t] /\ context'[t] = context[t],
           SlotInv(s)',
           \/ slot'[s].i_batch = -1 /\ slot'[s].state # "done_prompt"
           \/ slot'[s] = slot[s] /\ ~Samplable(s),
           Begun(slot'[s]) => Begun(slot[s]) /\ slot'[s].n_past = slot[s].n_past
    PROVE  IInv'
    <1>1. /\ Typed /\ PhaseInv /\ KvInv /\ FileInv /\ SlotsInv /\ IndexesInv /\ BatchInv
          /\ UNCHANGED <<kv, file, batch, n_batch>>
        BY KvHolds DEF IInv
    <1>2. /\ SystemInv' /\ L' = L /\ ~system_need_update
          /\ UNCHANGED <<system_prompt, system_tokens, system_need_update, clean_kv_cache>>
        BY InTheLoops
    <1>3. /\ \/ (pc' = "sample" /\ visit' = s + 1 /\ view' = view /\ Rest' = Rest)
             \/ (pc' = "view" /\ visit' = 0 /\ view' = view + n_batch /\ s + 1 = NSlots)
          /\ visit' \in Slots /\ view' \in Nat /\ Coming' = Coming /\ ToCome' = ToCome
          /\ \A i \in Nat : i < Len(batch) /\ i >= view + Rest => i >= view'
        BY ViewGoesOn
    <1>4. Held' = Held /\ KvInv' /\ FileInv'
        BY <1>1, <1>2, SameKv, SameFile DEF Held
    <1>5. SlotsInv'
        <2>1. \A t \in Slots \ {s} : SlotInv(t)'
            BY <1>1, <1>2, <1>3, SlotIsLeft DEF SlotsInv
        <2> QED BY <2>1 DEF SlotsInv
    <1>6. PhaseInv'
        <2>1. ~clean_kv_cache /\ view < Len(batch)
            BY <1>1 DEF PhaseInv
        <2> QED BY <1>1, <1>2, <1>3, <2>1 DEF PhaseInv
    <1>7. ASSUME NEW t \in Slots PROVE IndexInv(t)'
        <2> DEFINE i == slot[t].i_batch
        <2>1. i \in Nat \cup {-1} /\ view \in Nat /\ Rest \in Nat /\ Len(batch) \in Nat /\ IndexInv(t)
              /\ NSlots \in Nat /\ Slots = 0 .. NSlots - 1
            <3>1. view < Len(batch)
                BY <1>1 DEF PhaseInv
            <3> QED BY <1>1, <3>1, SlotFields, RestIs, Lengths, Basics DEF IndexesInv
        <2>2. CASE slot'[t].i_batch = -1 /\ slot'[t].state # "done_prompt"
            BY <2>2 DEF IndexInv
        <2>3. CASE slot'[t] = slot[t] /\ (t = s => ~Samplable(s))
            <3>1. i >= 0 /\ t <= s => i >= view + Rest
                <4>1. CASE t = s
                    <5>1. i >= 0 => slot[t].state \in {"done_prompt", "generating"} /\ i >= view
                        BY <2>1 DEF IndexInv
                    <5>2. ~Samplable(s)
                        BY <2>3, <4>1
                    <5> QED BY <2>1, <4>1, <5>1, <5>2 DEF Samplable, InView
                <4>2. CASE t # s
                    <5>1. t <= s => t < visit
                        BY <2>1, <4>2
                    <5> QED BY <5>1, <2>1 DEF IndexInv
                <4> QED BY <4>1, <4>2
            <3>2. i >= 0 => i >= view'
                <4>1. CASE pc' = "sample" /\ view' = view
                    BY <2>1, <4>1 DEF IndexInv
                <4>2. CASE s + 1 = NSlots
                    <5>1. t <= s
                        BY <2>1, <4>2
                    <5>2. i >= 0 => i < Len(batch) /\ i \in Nat
                        BY <2>1 DEF IndexInv
                    <5> QED BY <1>3, <3>1, <5>1, <5>2
                <4> QED BY <1>3, <4>1, <4>2
            <3>3. i >= 0 /\ pc' = "sample" /\ t < visit' => i >= view' + Rest'
                <4>1. pc' = "sample" => visit' = s + 1 /\ view' = view /\ Rest' = Rest
                    BY <1>3
                <4>2. pc' = "sample" /\ t < visit' => t <= s
                    BY <2>1, <4>1
                <4> QED BY <3>1, <4>1, <4>2
            <3>4. i >= 0 => /\ slot[t].state \in {"done_prompt", "generating"} /\ i < Len(batch)
                            /\ \A b \in 1 .. Len(batch) : batch[b].slot = t => b <= i + 1
                BY <2>1 DEF IndexInv
            <3>5. slot[t].state = "done_prompt" => i >= 0
                BY <2>1 DEF IndexInv
            <3>6. slot'[t].i_batch = i /\ slot'[t].state = slot[t].state /\ batch' = batch
                  /\ pc' # "sampled"
                BY <1>1, <1>3, <2>3
            <3> HIDE DEF i
            <3> QED BY <3>2, <3>3, <3>4, <3>5, <3>6 DEF IndexInv
        <2>4. CASE t # s
            BY <2>3, <2>4
        <2> QED BY <2>2, <2>3, <2>4
    <1>8. BatchInv'
        <2>1. ASSUME NEW b \in 1 .. Len(batch), Begun(slot'[batch[b].slot])
              PROVE  batch[b].pos < L + slot'[batch[b].slot].n_past
            <3>1. batch[b].slot \in Slots
                BY <1>1, Lengths
            <3>2. Begun(slot[batch[b].slot]) /\ slot'[batch[b].slot].n_past = slot[batch[b].slot].n_past
                BY <2>1, <3>1
            <3> QED BY <1>1, <3>2 DEF BatchInv
        <2>2. \A b \in 1 .. Len(batch') : Begun(slot'[batch'[b].slot]) =>
                  batch'[b].pos < L' + slot'[batch'[b].slot].n_past
            BY <1>1, <1>2, <2>1
        <2>3. pc' \notin {"sampled", "prompts"}
            BY <1>3
        <2> QED BY <1>1, <1>2, <1>3, <1>4, <2>2, <2>3, SMTT(60) DEF BatchInv
    <1>9. ShiftInv' /\ Typed' /\ IndexesInv'
        <2>1. pc' \notin {"shift", "sampled"}
            BY <1>3
        <2> QED BY <1>1, <1>2, <1>7, <2>1 DEF ShiftInv, Typed, IndexesInv
    <1> QED BY <1>2, <1>4, <1>5, <1>6, <1>8, <1>9 DEF IInv, CacheInv

LEMMA PassOverKeeps ==
    ASSUME IInv, NEW s \in Slots, PassOver(s)
    PROVE  IInv'
    <1>1. /\ pc = "sample" /\ visit = s /\ ~Samplable(s) /\ AfterSlot
          /\ UNCHANGED <<kv, systemVars, slot, context, file, batch, n_batch>>
        BY DEF PassOver
    <1>2. /\ Typed /\ SlotsInv /\ ToCome' = ToCome
          /\ UNCHANGED <<system_prompt, system_tokens>>
        BY <1>1, ViewGoesOn, InTheLoops DEF IInv
    <1>3. SlotInv(s)'
        <2>1. SlotInv(s) /\ ToCome \subseteq ToCome'
            BY <1>2 DEF SlotsInv
        <2> QED BY <1>1, <1>2, <2>1, SlotIsLeft
    <1>4. slot' \in [Slots -> SlotRecord] /\ context' \in [Slots -> Seq(Tok)]
        BY <1>1, <1>2 DEF Typed
    <1>5. Begun(slot'[s]) => Begun(slot[s]) /\ slot'[s].n_past = slot[s].n_past
        BY <1>1
    <1> QED BY <1>1, <1>3, <1>4, <1>5, SampleTurn

\* A slot that generates says one token more, and is to say no more than its budget.
LEMMA SlotGenerates ==
    ASSUME IInv, NEW s \in Slots, NEW tok \in Samples, pc = "sample", Samplable(s), ~MustStop(slot[s]),
           slot' = [slot EXCEPT ![s].state = "generating", ![s].sampled = tok,
                                ![s].n_decoded = @ + 1, ![s].i_batch = -1],
           UNCHANGED <<kv, system_tokens, system_prompt, context>>, ToCome' = ToCome
    PROVE  /\ SlotInv(s)' /\ slot' \in [Slots -> SlotRecord] /\ slot'[s].i_batch = -1
           /\ slot'[s].state = "generating" /\ slot'[s].n_past = slot[s].n_past
           /\ \A t \in Slots \ {s} : slot'[t] = slot[t]
    <1>1. /\ Typed /\ SlotsInv /\ Begun(slot[s]) /\ slot[s].i_batch \in Nat
          /\ slot[s].state # "prompt" /\ slot[s].state \in {"done_prompt", "generating"}
          /\ tok \in Tok
        BY SampledIsDecoded, Basics DEF IInv, Samplable
    <1>2. RestInv(s) /\ BudgetInv(s) /\ ProgressInv(s) /\ ReuseInv(s) /\ HeldInv(s)
        BY <1>1 DEF SlotsInv, SlotInv
    <1>3. /\ slot[s] \in SlotRecord /\ slot[s].n_decoded \in Nat /\ slot[s].n_decoded + 1 < NCtx
          /\ NCtx \in Nat /\ slot[s].n_predict \in Int
          /\ slot[s].n_predict >= 0 => slot[s].n_decoded + 1 < slot[s].n_predict
        <2>1. slot[s] \in SlotRecord /\ slot[s].n_decoded \in 0 .. NCtx - 1 /\ slot[s].n_predict \in Int
            BY <1>1, SlotFields
        <2> QED BY <2>1, Basics, SMTT(60) DEF MustStop
    <1> DEFINE y == [slot[s] EXCEPT !.state = "generating", !.sampled = tok,
                                    !.n_decoded = @ + 1, !.i_batch = -1]
    <1>4. slot' = [slot EXCEPT ![s] = y] /\ slot'[s] = y /\ \A t \in Slots \ {s} : slot'[t] = slot[t]
        BY <1>1 DEF Typed
    <1>5. y \in SlotRecord
        <2>1. slot[s].n_decoded + 1 \in 0 .. NCtx - 1 /\ tok \in Nat /\ -1 \in Nat \cup {-1}
            BY <1>1, <1>3 DEF Tok
        <2> QED BY <1>3, <2>1 DEF SlotRecord
    <1>6. /\ y.state = "generating" /\ y.sampled = tok /\ y.n_decoded = slot[s].n_decoded + 1
          /\ y.i_batch = -1 /\ y.n_past = slot[s].n_past /\ y.cache_tokens = slot[s].cache_tokens
          /\ y.cache_prompt = slot[s].cache_prompt /\ y.n_keep = slot[s].n_keep
          /\ y.n_predict = slot[s].n_predict /\ y.prompt = slot[s].prompt
          /\ y.prompt_tokens = slot[s].prompt_tokens
        BY <1>3 DEF SlotRecord
    <1> HIDE DEF y
    <1>7. Begun(y) /\ ~Fresh(y)
        BY <1>6 DEF Begun, Fresh
    <1>8. Held' = Held /\ L' = L
        BY DEF Held, L
    <1>9. RestInv(s)'
        BY <1>4, <1>6, <1>7 DEF RestInv
    <1>10. BudgetInv(s)'
        <2>1. SUFFICES ASSUME system_prompt # << >>
                       PROVE  /\ y.n_decoded < y.n_predict
                              /\ Len(system_prompt) + Unsaid(y) + Len(context[s]) <= NCtx
            BY <1>4, <1>7 DEF BudgetInv
        <2>2. /\ slot[s].n_decoded < slot[s].n_predict
              /\ Len(system_prompt) + Unsaid(slot[s]) + Len(context[s]) <= NCtx
            BY <1>1, <1>2, <2>1 DEF BudgetInv, Begun
        <2>3. Unsaid(slot[s]) = slot[s].n_predict - slot[s].n_decoded
            BY <1>1, <1>3 DEF Unsaid
        <2>4. Unsaid(y) = slot[s].n_predict - slot[s].n_decoded
            BY <1>3, <1>6 DEF Unsaid
        <2> QED BY <1>3, <1>6, <2>2, <2>3, <2>4
    <1>11. ProgressInv(s)'
        <2>1. /\ slot[s].n_keep \in 0 .. NCtx - 4 /\ slot[s].n_past = Len(context[s])
              /\ L + Len(context[s]) <= NCtx - 1
            BY <1>1, <1>2 DEF ProgressInv
        <2> QED BY <1>1, <1>4, <1>6, <1>8, <2>1 DEF ProgressInv
    <1>12. ReuseInv(s)'
        <2>1. ReuseInv(s)
            BY <1>2
        <2>2. slot'[s].cache_prompt = slot[s].cache_prompt /\ slot'[s].cache_tokens = slot[s].cache_tokens
              /\ slot'[s].n_past = slot[s].n_past /\ context'[s] = context[s]
            BY <1>4, <1>6
        <2> QED BY <2>1, <2>2, Zenon DEF ReuseInv, Padding
    <1>13. HeldInv(s)'
        BY <1>2, <1>4, <1>6, <1>8 DEF HeldInv
    <1>14. SlotInv(s)'
        BY <1>4, <1>7, <1>9, <1>10, <1>11, <1>12, <1>13 DEF SlotInv
    <1>15. slot' \in [Slots -> SlotRecord]
        BY <1>1, <1>4, <1>5 DEF Typed
    <1> QED BY <1>4, <1>6, <1>14, <1>15

LEMMA SampleKeeps ==
    ASSUME IInv, NEW s \in Slots, NEW tok \in Samples, Sample(s, tok)
    PROVE  IInv'
    <1>1. /\ pc = "sample" /\ visit = s /\ Samplable(s) /\ AfterSlot
          /\ UNCHANGED <<kv, systemVars, file, batch, n_batch>>
          /\ \/ /\ ~MustStop(slot[s])
                /\ slot' = [slot EXCEPT ![s].state = "generating", ![s].sampled = tok,
                                        ![s].n_decoded = @ + 1, ![s].i_batch = -1]
                /\ UNCHANGED context
             \/ /\ slot' = [slot EXCEPT ![s] = Released(slot[s])]
                /\ context' = [context EXCEPT ![s] = << >>]
        BY DEF Sample, Sampling
    <1>2. /\ Typed /\ SlotsInv /\ ToCome' = ToCome
          /\ UNCHANGED <<kv, system_prompt, system_tokens>>
        BY <1>1, ViewGoesOn, InTheLoops DEF IInv
    <1>3. CASE /\ ~MustStop(slot[s])
               /\ slot' = [slot EXCEPT ![s].state = "generating", ![s].sampled = tok,
                                       ![s].n_decoded = @ + 1, ![s].i_batch = -1]
               /\ UNCHANGED context
        <2>1. /\ SlotInv(s)' /\ slot' \in [Slots -> SlotRecord] /\ slot'[s].i_batch = -1
              /\ slot'[s].state = "generating" /\ slot'[s].n_past = slot[s].n_past
              /\ \A t \in Slots \ {s} : slot'[t] = slot[t]
            BY <1>1, <1>2, <1>3, SlotGenerates
        <2>2. context' \in [Slots -> Seq(Tok)] /\ \A t \in Slots : context'[t] = context[t]
            BY <1>2, <1>3 DEF Typed
        <2>3. Begun(slot[s])
            BY <1>1, SampledIsDecoded
        <2> QED BY <1>1, <2>1, <2>2, <2>3, SampleTurn, SMTT(60)
    <1>4. CASE /\ slot' = [slot EXCEPT ![s] = Released(slot[s])]
               /\ context' = [context EXCEPT ![s] = << >>]
        <2>1. /\ slot'[s] = Released(slot[s])
              /\ \A t \in Slots \ {s} : slot'[t] = slot[t] /\ context'[t] = context[t]
            BY <1>2, <1>4 DEF Typed
        <2>2. CachedInv(s)
            BY <1>1, <1>2, SampledIsDecoded, WhenAllDecoded DEF SlotsInv
        <2>3. Held' = Held
            BY <1>2 DEF Held
        <2>4. /\ SlotInv(s)' /\ slot'[s] \in SlotRecord /\ slot'[s].i_batch = -1
              /\ slot'[s].state = "idle"
            BY <1>2, <2>1, <2>2, <2>3, ReleasedSlot
        <2>5. slot' \in [Slots -> SlotRecord]
            <3>1. Released(slot[s]) \in SlotRecord
                BY <2>1, <2>4
            <3> QED BY <1>2, <1>4, <3>1 DEF Typed
        <2>6. context' \in [Slots -> Seq(Tok)]
            <3>1. << >> \in Seq(Tok)
                OBVIOUS
            <3> QED BY <1>2, <1>4, <3>1 DEF Typed
        <2>7. ~Begun(slot'[s])
            BY <2>4 DEF Begun
        <2> QED BY <1>1, <2>1, <2>4, <2>5, <2>6, <2>7, SampleTurn
    <1> QED BY <1>1, <1>3, <1>4

-----------------------------------------------------------------------------
(* The theorems                                                            *)

LEMMA InitInv ==
    ASSUME Modest, Init
    PROVE  IInv
    <1>1. /\ kv = EmptyBag /\ system_prompt \in SystemPrompts /\ system_tokens = << >>
          /\ system_need_update = (system_prompt # << >>) /\ clean_kv_cache = TRUE
          /\ slot = [s \in Slots |-> IdleWith(<< >>, 0)] /\ context = [s \in Slots |-> << >>]
          /\ file = NoFile /\ pc = "tasks" /\ visit = 0 /\ batch = << >> /\ view = 0
          /\ n_batch = NBatch
        BY DEF Init
    <1>2. /\ NSlots \in Nat \ {0} /\ NCtx \in Nat /\ NCtx >= 5 /\ Slots = 0 .. NSlots - 1
          /\ NBatch \in Nat \ {0}
        BY Basics
    <1>3. EmptyBag = SetToBag({}) /\ DOMAIN EmptyBag = {} /\ IsFiniteSet({})
        BY SetBag, FS_EmptySet DEF EmptyBag
    <1>4. Held = {} /\ L = 0 /\ Len(batch) = 0
        BY <1>1, <1>3 DEF Held, L
    <1>5. << >> \in Seq(Nat) /\ 0 \in Int
        OBVIOUS
    <1>6. \A s \in Slots : /\ slot[s] = IdleWith(<< >>, 0) /\ slot[s] \in SlotRecord
                           /\ slot[s].state = "idle" /\ slot[s].cache_tokens = << >>
                           /\ slot[s].n_keep = 0 /\ slot[s].i_batch = -1
                           /\ ~Begun(slot[s]) /\ ~Fresh(slot[s])
        BY <1>1, <1>5, IdleRecord, ZenonT(60)
    <1>7. Typed
        <2>1. slot \in [Slots -> SlotRecord]
            BY <1>1, <1>6
        <2> QED BY <1>1, <2>1 DEF Typed
    <1>8. PhaseInv
        <2>1. Len(batch) <= Most(NBatch, NSlots)
            BY <1>2, <1>4 DEF Most
        <2> QED BY <1>1, <1>2, <2>1 DEF PhaseInv
    <1>9. DOMAIN file.cells = {} /\ file.cells = EmptyBag /\ file.tokens = << >>
        BY <1>1, <1>3 DEF NoFile
    <1>10. SystemInv
        <2>1. pc # "check" /\ L <= NCtx - 2
            BY <1>1, <1>2, <1>4
        <2>2. ~system_need_update => system_tokens = system_prompt /\ system_prompt = << >>
            BY <1>1
        <2>3. \A s \in Slots : slot[s].cache_tokens = << >> /\ ~Begun(slot[s]) /\ ~Busy(s)
            BY <1>6 DEF Busy
        <2> QED BY <1>4, <1>9, <2>1, <2>2, <2>3 DEF SystemInv
    <1>11. KvInv
        BY <1>1, <1>3, <1>4 DEF KvInv
    <1>12. FileInv
        <2>1. Len(file.tokens) = 0 /\ file.tokens \in Seq(Nat)
            BY <1>5, <1>9
        <2> QED BY <1>3, <1>9, <2>1 DEF FileInv, Padding
    <1>13. ASSUME NEW s \in Slots PROVE SlotInv(s) /\ IndexInv(s)
        <2>1. CachedInv(s)
            BY <1>6 DEF CachedInv, Padding
        <2>2. RestInv(s) /\ BudgetInv(s)
            BY <1>6 DEF RestInv, BudgetInv
        <2>3. IndexInv(s)
            BY <1>1, <1>6 DEF IndexInv
        <2> QED BY <1>6, <2>1, <2>2, <2>3 DEF SlotInv
    <1>14. ShiftInv
        BY <1>1 DEF ShiftInv
    <1>15. BatchInv
        <2>1. Coming = {}
            BY <1>1, <1>4 DEF Coming, Decoded
        <2> QED BY <1>1, <1>4, <2>1 DEF BatchInv
    <1> QED BY <1>7, <1>8, <1>10, <1>11, <1>12, <1>13, <1>14, <1>15 DEF IInv, CacheInv, SlotsInv, IndexesInv

LEMMA StutterKeeps ==
    ASSUME IInv, UNCHANGED vars
    PROVE  IInv'
    <1>1. UNCHANGED <<kv, systemVars, slot, context, file, pc, visit, batch, view, n_batch>>
        BY DEF vars, batchVars
    <1>2. UNCHANGED <<system_prompt, system_tokens, system_need_update, clean_kv_cache>>
        BY <1>1 DEF systemVars
    <1>3. Held' = Held /\ L' = L /\ Rest' = Rest
        BY <1>1, <1>2 DEF Held, L, Rest
    <1>4. Coming' = Coming
        BY <1>1, <1>3 DEF Coming, Decoded
    <1>5. ToCome' = ToCome
        BY <1>1, <1>4 DEF ToCome
    <1>6. Typed' /\ PhaseInv'
        BY <1>1, <1>2 DEF IInv, Typed, PhaseInv
    <1>7. SystemInv'
        BY <1>1, <1>2, <1>3 DEF IInv, SystemInv, Busy
    <1>8. CacheInv' /\ FileInv'
        BY <1>1, <1>2, SameCache, SameFile DEF IInv
    <1>9. SlotsInv'
        <2>1. ToCome \subseteq ToCome'
            BY <1>5
        <2> QED BY <1>1, <1>2, <2>1, SlotsAreLeft DEF IInv
    <1>10. IndexesInv'
        BY <1>1, <1>3 DEF IInv, IndexesInv, IndexInv
    <1>11. ShiftInv'
        BY <1>1, <1>2 DEF IInv, ShiftInv, Full, Busy
    <1>12. BatchInv'
        BY <1>1, <1>3, <1>4 DEF IInv, BatchInv
    <1> QED BY <1>6, <1>7, <1>8, <1>9, <1>10, <1>11, <1>12 DEF IInv

LEMMA TasksKeep ==
    ASSUME Modest, IInv, Tasks
    PROVE  IInv'
    <1>1. PICK s \in Slots :
              \/ \E r \in Prompts :
                     \/ Launch(s, r) \/ LaunchRefused(s, r)
                     \/ \E system \in SystemPrompts : LaunchWithSystem(s, r, system)
              \/ Cancel(s) \/ Save(s) \/ Restore(s) \/ RestoreFails(s) \/ Erase(s)
        BY DEF Tasks
    <1>2. CASE \E r \in Prompts : Launch(s, r)
        BY <1>2, LaunchKeeps
    <1>3. CASE \E r \in Prompts : LaunchRefused(s, r)
        BY <1>3, LaunchRefusedKeeps
    <1>4. CASE \E r \in Prompts : \E system \in SystemPrompts : LaunchWithSystem(s, r, system)
        BY <1>4, LaunchWithSystemKeeps
    <1>5. CASE Cancel(s)
        BY <1>5, CancelKeeps
    <1>6. CASE Save(s)
        BY <1>6, SaveKeeps
    <1>7. CASE Restore(s)
        BY <1>7, RestoreKeeps
    <1>8. CASE RestoreFails(s) \/ Erase(s)
        BY <1>8, ForgetKeeps
    <1> QED BY <1>1, <1>2, <1>3, <1>4, <1>5, <1>6, <1>7, <1>8

LEMMA UpdateSlotsKeeps ==
    ASSUME Modest, IInv, UpdateSlots
    PROVE  IInv'
    <1>1. CASE Update
        BY <1>1, UpdateKeeps
    <1>2. CASE AllIdle
        BY <1>2, AllIdleKeeps
    <1>3. CASE SomeBusy
        BY <1>3, SomeBusyKeeps
    <1>4. CASE BeginView
        BY <1>4, BeginViewKeeps
    <1>5. CASE DecodeOk
        BY <1>5, DecodeOkKeeps
    <1>6. CASE Retry
        BY <1>6, RetryKeeps
    <1>7. CASE GiveUp
        BY <1>7, GiveUpKeeps
    <1>8. CASE \E s \in Slots : ShiftContext(s)
        BY <1>8, ShiftContextKeeps
    <1>9. CASE \E s \in Slots : AddSampled(s)
        BY <1>9, AddSampledKeeps
    <1>10. CASE \E s \in Slots : RejectPrompt(s)
        BY <1>10, RejectPromptKeeps
    <1>11. CASE \E s \in Slots : AddPrompt(s)
        BY <1>11, AddPromptKeeps
    <1>12. CASE \E s \in Slots : PassOver(s)
        BY <1>12, PassOverKeeps
    <1>13. CASE \E s \in Slots : \E tok \in Samples : Sample(s, tok)
        BY <1>13, SampleKeeps
    <1>14. CASE UpdateFails
        BY <1>14, UpdateFailsKeeps
    <1> QED BY <1>1, <1>2, <1>3, <1>4, <1>5, <1>6, <1>7, <1>8, <1>9, <1>10, <1>11, <1>12, <1>13,
               <1>14
            DEF UpdateSlots

LEMMA NextInv ==
    ASSUME Modest, IInv, [Next]_vars
    PROVE  IInv'
    BY TasksKeep, UpdateSlotsKeeps, StutterKeeps DEF Next

\* With modest clients the slots, the cache and the batch keep the inductive invariant
\* (update_slots(), process_single_task()).
LEMMA InvariantHolds ==
    ASSUME Modest
    PROVE  Spec => []IInv
    <1>1. Init => IInv
        BY InitInv
    <1>2. IInv /\ [Next]_vars => IInv'
        BY NextInv
    <1> QED BY <1>1, <1>2, PTL DEF Spec

\* With modest clients, whatever the numbers of slots, of tokens of a context and of a batch,
\* and whatever the prompts: every variable of the slots keeps its type, positions in the cache
\* and how far a slot has come stay below n_ctx, and i_batch stays within the batch.
THEOREM TypesHold ==
    ASSUME Modest
    PROVE  Spec => []TypeOK
    <1>1. IInv => TypeOK
        BY TypesFollow
    <1> QED BY <1>1, InvariantHolds, PTL

\* With modest clients a slot samples its next token from its own context: its sequence in the
\* cache is the system prompt and the tokens of its request, each once and at its place, whatever
\* was reused, shifted, split over batches and views, retried or restored (update_slots()).
THEOREM SamplesComeOfContext ==
    ASSUME Modest
    PROVE  Spec => []SamplesItsContext
    <1>1. IInv => SamplesItsContext
        BY ContextIsSampled
    <1> QED BY <1>1, InvariantHolds, PTL

\* With modest clients, between iterations, what a slot would not decode again of the prompt of
\* its next request, because cache_tokens begin alike, is in its sequence of the cache, at its
\* place and once (common_part(), resize()).  A modest client has no prompt cached that begins
\* with the token resize() pads with: see "padding".
THEOREM CacheIsTrue ==
    ASSUME Modest
    PROVE  Spec => []ReusedIsThere
    <1>1. IInv => ReusedIsThere
        BY ReusedAreThere
    <1> QED BY <1>1, InvariantHolds, PTL

\* With modest clients the cache has room for all that is still to be decoded: every slot keeps
\* to its share of it (n_ctx_slot), so llama_decode() never finds it full.
THEOREM RoomForAll ==
    ASSUME Modest
    PROVE  Spec => []RoomForBatch
    <1>1. IInv => RoomForBatch
        BY RoomIsKept
    <1> QED BY <1>1, InvariantHolds, PTL
=============================================================================
