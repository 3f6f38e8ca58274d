---------------------------- MODULE Tally_proofs ----------------------------
(***************************************************************************)
(* What the tallies of a finite set are worth: they do not change when the *)
(* elements are exchanged for others, mapping a tally is tallying what the *)
(* elements are mapped to, and tallies of disjoint sets add up.            *)
(***************************************************************************)
EXTENDS Tally, FunctionTheorems, FiniteSetTheorems, TLAPS

Holding(S, f, e) == {x \in S : f[x] = e}

LEMMA TallyAt ==
    ASSUME NEW S, NEW f
    PROVE  /\ DOMAIN Tally(S, f) = {f[x] : x \in S}
           /\ \A e \in DOMAIN Tally(S, f) : Tally(S, f)[e] = Cardinality(Holding(S, f, e))
    BY DEF Tally, Holding

\* Two tallies are the same when they count the same things as often.
LEMMA SameCounts ==
    ASSUME NEW S, NEW T, NEW f, NEW g, {f[x] : x \in S} = {g[x] : x \in T},
           \A e \in {f[x] : x \in S} :
               Cardinality(Holding(S, f, e)) = Cardinality(Holding(T, g, e))
    PROVE  Tally(S, f) = Tally(T, g)
    BY DEF Tally, Holding

LEMMA TallyOfSame ==
    ASSUME NEW S, NEW f, NEW g, \A x \in S : f[x] = g[x]
    PROVE  Tally(S, f) = Tally(S, g)
    <1>1. {f[x] : x \in S} = {g[x] : x \in S}
        OBVIOUS
    <1>2. \A e : Holding(S, f, e) = Holding(S, g, e)
        BY DEF Holding
    <1> QED BY <1>1, <1>2, SameCounts

\* A bijection between sets pairs those that hold the same.
LEMMA HoldingAsMany ==
    ASSUME NEW S, NEW T, NEW f, NEW g, NEW h \in Bijection(S, T), IsFiniteSet(S),
           \A x \in S : g[h[x]] = f[x], NEW e
    PROVE  Cardinality(Holding(S, f, e)) = Cardinality(Holding(T, g, e))
    <1> DEFINE A == Holding(S, f, e)
               B == Holding(T, g, e)
               k == [x \in A |-> h[x]]
    <1>1. /\ h \in [S -> T] /\ \A x, y \in S : h[x] = h[y] => x = y
          /\ \A t \in T : \E x \in S : h[x] = t
        BY DEF Bijection, Injection, Surjection, IsInjective
    <1>2. A \in SUBSET S /\ IsFiniteSet(A)
        BY FS_Subset DEF Holding
    <1>3. \A x \in A : x \in S /\ h[x] \in B
        BY <1>1 DEF Holding
    <1>4. \A t \in B : \E x \in A : h[x] = t
        BY <1>1 DEF Holding
    <1> HIDE DEF A, B
    <1>5. k \in Bijection(A, B)
        BY <1>1, <1>3, <1>4 DEF Bijection, Injection, Surjection, IsInjective
    <1>6. Cardinality(B) = Cardinality(A)
        BY <1>2, <1>5, FS_Bijection DEF ExistsBijection
    <1> QED BY <1>6 DEF A, B

LEMMA SameTally ==
    ASSUME NEW S, NEW T, NEW f, NEW g, NEW h \in Bijection(S, T), IsFiniteSet(S),
           \A x \in S : g[h[x]] = f[x]
    PROVE  Tally(S, f) = Tally(T, g)
    <1>1. h \in [S -> T] /\ \A t \in T : \E x \in S : h[x] = t
        BY DEF Bijection, Surjection
    <1>2. {f[x] : x \in S} = {g[x] : x \in T}
        BY <1>1
    <1>3. \A e \in {f[x] : x \in S} :
              Cardinality(Holding(S, f, e)) = Cardinality(Holding(T, g, e))
        BY HoldingAsMany
    <1> QED BY <1>2, <1>3, SameCounts

\* The copies a tally holds are as many as the elements it counts, one for each.
LEMMA CopiesOfTally ==
    ASSUME NEW S, NEW f, IsFiniteSet(S)
    PROVE  \E h \in Bijection(S, Copies(Tally(S, f))) : \A x \in S : h[x][1] = f[x]
    <1> DEFINE b == Tally(S, f)
               number == [e \in DOMAIN b |->
                             CHOOSE k : k \in Bijection(Holding(S, f, e), 1 .. b[e])]
               h == [x \in S |-> <<f[x], number[f[x]][x]>>]
    <1>1. \A e \in DOMAIN b : number[e] \in Bijection(Holding(S, f, e), 1 .. b[e])
        <2>1. SUFFICES ASSUME NEW e \in DOMAIN b
                       PROVE  \E k : k \in Bijection(Holding(S, f, e), 1 .. b[e])
            OBVIOUS
        <2>4. Holding(S, f, e) \in SUBSET S
            BY DEF Holding
        <2>2. IsFiniteSet(Holding(S, f, e)) /\ b[e] = Cardinality(Holding(S, f, e))
            BY <2>4, FS_Subset, TallyAt
        <2>3. ExistsBijection(1 .. b[e], Holding(S, f, e))
            BY <2>2, FS_CardinalityType
        <2> QED BY <2>3, Fun_ExistsBijSymmetric DEF ExistsBijection
    <1>2. \A x \in S : f[x] \in DOMAIN b /\ x \in Holding(S, f, f[x])
        BY DEF Tally, Holding
    <1>3. \A p : p \in Copies(b) <=> \E e \in DOMAIN b : \E n \in 1 .. b[e] : p = <<e, n>>
        BY DEF Copies
    <1> HIDE DEF b, number
    <1>4. ASSUME NEW x \in S
          PROVE  h[x] \in Copies(b) /\ h[x][1] = f[x] /\ h[x][2] = number[f[x]][x]
        <2>1. number[f[x]] \in [Holding(S, f, f[x]) -> 1 .. b[f[x]]]
            BY <1>1, <1>2 DEF Bijection, Injection
        <2>2. number[f[x]][x] \in 1 .. b[f[x]]
            BY <2>1, <1>2
        <2> QED BY <1>2, <1>3, <2>2
    <1>5. ASSUME NEW x \in S, NEW y \in S, h[x] = h[y]
          PROVE  x = y
        <2>1. f[x] = f[y] /\ number[f[x]][x] = number[f[x]][y]
            BY <1>4, <1>5
        <2>2. x \in Holding(S, f, f[x]) /\ y \in Holding(S, f, f[x])
            BY <2>1, <1>2
        <2>3. IsInjective(number[f[x]]) /\ DOMAIN number[f[x]] = Holding(S, f, f[x])
            BY <1>1, <1>2 DEF Bijection, Injection
        <2> QED BY <2>1, <2>2, <2>3 DEF IsInjective
    <1>6. ASSUME NEW p \in Copies(b)
          PROVE  \E x \in S : h[x] = p
        <2>0. PICK e \in DOMAIN b : \E n \in 1 .. b[e] : p = <<e, n>>
            BY <1>3
        <2>1. PICK n \in 1 .. b[e] : p = <<e, n>>
            BY <2>0
        <2>2. \E x \in Holding(S, f, e) : number[e][x] = n
            BY <1>1 DEF Bijection, Surjection
        <2> QED BY <2>1, <2>2 DEF Holding
    <1>7. h \in Bijection(S, Copies(b))
        BY <1>4, <1>5, <1>6 DEF Bijection, Injection, Surjection, IsInjective
    <1> QED BY <1>4, <1>7 DEF b

\* Mapping a tally is tallying what the elements are mapped to.
LEMMA MappedTally ==
    ASSUME NEW S, NEW f, NEW m, IsFiniteSet(S)
    PROVE  MappedBag(m, Tally(S, f)) = Tally(S, [x \in S |-> m[f[x]]])
    <1> DEFINE b == Tally(S, f)
               to == [x \in S |-> m[f[x]]]
               g == [p \in Copies(b) |-> m[p[1]]]
    <1>1. PICK h \in Bijection(S, Copies(b)) : \A x \in S : h[x][1] = f[x]
        BY CopiesOfTally
    <1>2. \A x \in S : h[x] \in Copies(b)
        BY <1>1 DEF Bijection, Injection
    <1>3. \A x \in S : g[h[x]] = to[x]
        BY <1>1, <1>2
    <1>4. MappedBag(m, b) = Tally(Copies(b), g)
        BY DEF MappedBag
    <1> HIDE DEF b, g, to
    <1>5. Tally(S, to) = Tally(Copies(b), g)
        BY <1>1, <1>3, SameTally
    <1> QED BY <1>4, <1>5 DEF b, to

LEMMA TotalOfTally ==
    ASSUME NEW S, NEW f, IsFiniteSet(S)
    PROVE  Total(Tally(S, f)) = Cardinality(S)
    <1>1. ExistsBijection(S, Copies(Tally(S, f)))
        BY CopiesOfTally DEF ExistsBijection
    <1> QED BY <1>1, FS_Bijection DEF Total

\* What a tally counts of some values is the tally of the elements that have them.
Part(b, V)      == [e \in {v \in DOMAIN b : v \in V} |-> b[e]]
Having(S, f, V) == {x \in S : f[x] \in V}

LEMMA TallyOfSome ==
    ASSUME NEW S, NEW f, NEW V
    PROVE  Part(Tally(S, f), V) = Tally(Having(S, f, V), f)
    <1> DEFINE R == Having(S, f, V)
               D == {v \in DOMAIN Tally(S, f) : v \in V}
    <1>0. DOMAIN Tally(S, f) = {f[x] : x \in S}
        BY TallyAt
    <1>1. D = {f[x] : x \in R}
        BY <1>0 DEF Having
    <1>2. \A e \in D : Holding(S, f, e) = Holding(R, f, e)
        BY DEF Holding, Having
    <1>5. \A e \in DOMAIN Tally(S, f) : Tally(S, f)[e] = Cardinality(Holding(S, f, e))
        BY TallyAt
    <1>3. \A e \in D : Tally(S, f)[e] = Cardinality(Holding(R, f, e))
        BY <1>2, <1>5
    <1>4. Tally(R, f) = [e \in {f[x] : x \in R} |-> Cardinality(Holding(R, f, e))]
        BY DEF Tally, Holding
    <1>6. Part(Tally(S, f), V) = [e \in D |-> Tally(S, f)[e]]
        BY DEF Part
    <1> HIDE DEF D, R
    <1>7. Part(Tally(S, f), V) = Tally(R, f)
        BY <1>1, <1>3, <1>4, <1>6
    <1> QED BY <1>7 DEF R

CountIn(b, e) == IF e \in DOMAIN b THEN b[e] ELSE 0
AddedUp(b, c)    == [e \in DOMAIN b \cup DOMAIN c |-> CountIn(b, e) + CountIn(c, e)]

LEMMA CountedIn ==
    ASSUME NEW S, NEW f, NEW e
    PROVE  CountIn(Tally(S, f), e) = Cardinality(Holding(S, f, e))
    <1>1. CASE e \in DOMAIN Tally(S, f)
        BY <1>1, TallyAt DEF CountIn
    <1>2. CASE e \notin DOMAIN Tally(S, f)
        <2>1. Holding(S, f, e) = {}
            BY <1>2 DEF Tally, Holding
        <2> QED BY <2>1, <1>2, FS_EmptySet DEF CountIn
    <1> QED BY <1>1, <1>2

\* Tallies of disjoint sets add up.
LEMMA TalliesAddUp ==
    ASSUME NEW S, NEW T, NEW f, NEW g, NEW u, IsFiniteSet(S), IsFiniteSet(T), S \cap T = {},
           \A x \in S : u[x] = f[x], \A x \in T : u[x] = g[x]
    PROVE  Tally(S \cup T, u) = AddedUp(Tally(S, f), Tally(T, g))
    <1> DEFINE D == DOMAIN Tally(S, f) \cup DOMAIN Tally(T, g)
               U == S \cup T
    <1>0. DOMAIN Tally(S, f) = {f[x] : x \in S} /\ DOMAIN Tally(T, g) = {g[x] : x \in T}
        BY DEF Tally
    <1>1. {u[x] : x \in U} = D
        BY <1>0
    <1>2. ASSUME NEW e
          PROVE  Cardinality(Holding(U, u, e)) = CountIn(Tally(S, f), e) + CountIn(Tally(T, g), e)
        <2> DEFINE A == Holding(S, f, e)
                   B == Holding(T, g, e)
        <2>1. Holding(U, u, e) = A \cup B /\ A \cap B = {}
            BY DEF Holding
        <2>2. A \in SUBSET S /\ B \in SUBSET T
            BY DEF Holding
        <2>3. IsFiniteSet(A) /\ IsFiniteSet(B)
            BY <2>2, FS_Subset
        <2>4. CountIn(Tally(S, f), e) = Cardinality(A) /\ CountIn(Tally(T, g), e) = Cardinality(B)
            BY CountedIn
        <2> HIDE DEF A, B
        <2>5. Cardinality(A \cup B) = Cardinality(A) + Cardinality(B) - Cardinality({})
            BY <2>1, <2>3, FS_Union
        <2>6. Cardinality(A) \in Nat /\ Cardinality(B) \in Nat
            BY <2>3, FS_CardinalityType
        <2>7. Cardinality(A \cup B) = Cardinality(A) + Cardinality(B)
            BY <2>5, <2>6, FS_EmptySet
        <2> QED BY <2>1, <2>4, <2>7
    <1>3. Tally(U, u) = [e \in {u[x] : x \in U} |-> Cardinality(Holding(U, u, e))]
        BY DEF Tally, Holding
    <1> HIDE DEF D, U
    <1>4. Tally(U, u) = [e \in D |-> CountIn(Tally(S, f), e) + CountIn(Tally(T, g), e)]
        BY <1>1, <1>2, <1>3
    <1> QED BY <1>4 DEF D, U, AddedUp

=============================================================================
