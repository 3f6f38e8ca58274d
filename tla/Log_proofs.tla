----------------------------- MODULE Log_proofs -----------------------------
(***************************************************************************)
(* Proofs about Log, for rings that start with any capacity, any number of *)
(* threads that log, and any calls of a careful controller.                *)
(***************************************************************************)
EXTENDS Log, FiniteSetTheorems, SequenceTheorems, TLAPS

-----------------------------------------------------------------------------
(* The ring                                                                *)

\* How far it is from head to tail, and where the i-th entry is.
Count(h, t, m) == IF h <= t THEN t - h ELSE t + m - h
Place(h, i, m) == IF h + i - 1 < m THEN h + i - 1 ELSE h + i - 1 - m
Succ(i, m)     == IF i + 1 < m THEN i + 1 ELSE 0

RingOf(es, h, t) == [i \in 1 .. Count(h, t, Len(es)) |-> es[Place(h, i, Len(es)) + 1]]

\* The ring with an entry put at t, and that rewritten into one of twice the size.
PutAt(es, t, e) == [es EXCEPT ![t + 1] = e]
Grown(es, h, t, e) ==
    [i \in 1 .. 2 * Len(es) |->
        IF i <= Len(es) THEN PutAt(es, t, e)[((h + i - 1) % Len(es)) + 1] ELSE Blank]

\* A ring buffer and its two indices.
IsRing(es, h, t) ==
    /\ es \in Seq(EntryType) /\ Len(es) >= 2
    /\ h \in 0 .. Len(es) - 1 /\ t \in 0 .. Len(es) - 1

LEMMA Wraps ==
    ASSUME NEW m \in Nat \ {0}, NEW x \in Nat, x < 2 * m
    PROVE  x % m = IF x < m THEN x ELSE x - m
    OBVIOUS

LEMMA CountIs ==
    ASSUME NEW m \in Nat \ {0}, NEW h \in 0 .. m - 1, NEW t \in 0 .. m - 1
    PROVE  (t + m - h) % m = Count(h, t, m) /\ Count(h, t, m) \in 0 .. m - 1
    <1> DEFINE x == t + m - h
    <1>1. x \in Nat /\ x < 2 * m
        OBVIOUS
    <1>2. x % m = IF x < m THEN x ELSE x - m
        BY ONLY <1>1, m \in Nat \ {0}, Wraps
    <1> QED BY <1>1, <1>2 DEF Count

LEMMA PlaceIs ==
    ASSUME NEW m \in Nat \ {0}, NEW h \in 0 .. m - 1, NEW i \in 1 .. m
    PROVE  (h + i - 1) % m = Place(h, i, m) /\ Place(h, i, m) + 1 \in 1 .. m
    <1> DEFINE x == h + i - 1
    <1>1. x \in Nat /\ x < 2 * m
        OBVIOUS
    <1>2. x % m = IF x < m THEN x ELSE x - m
        BY ONLY <1>1, m \in Nat \ {0}, Wraps
    <1> QED BY <1>1, <1>2 DEF Place

\* No entry of the ring is where the next one is put.
LEMMA BeforeTail ==
    ASSUME NEW m \in Nat, m >= 2, NEW h \in 0 .. m - 1, NEW t \in 0 .. m - 1,
           NEW i \in 1 .. Count(h, t, m)
    PROVE  Place(h, i, m) + 1 \in 1 .. m /\ Place(h, i, m) + 1 # t + 1
    BY DEF Count, Place

LEMMA NextIs ==
    ASSUME NEW m \in Nat \ {0}, NEW h \in 0 .. m - 1
    PROVE  (h + 1) % m = Succ(h, m) /\ Succ(h, m) \in 0 .. m - 1
    <1> DEFINE x == h + 1
    <1>1. x \in Nat /\ x < 2 * m
        OBVIOUS
    <1>2. x % m = IF x < m THEN x ELSE x - m
        BY ONLY <1>1, m \in Nat \ {0}, Wraps
    <1> QED BY <1>1, <1>2 DEF Succ

\* Append and Tail, index by index.
LEMMA AppendIs ==
    ASSUME NEW S, NEW s \in Seq(S), NEW e \in S, NEW n \in Nat, Len(s) = n
    PROVE  Append(s, e) = [i \in 1 .. n + 1 |-> IF i = n + 1 THEN e ELSE s[i]]
    <1> DEFINE f == [i \in 1 .. n + 1 |-> IF i = n + 1 THEN e ELSE s[i]]
    <1>1. ASSUME NEW i \in 1 .. n + 1 PROVE (IF i = n + 1 THEN e ELSE s[i]) \in S
        BY i = n + 1 \/ i \in 1 .. n
    <1>2. f \in Seq(S) /\ Len(f) = n + 1
        BY <1>1
    <1>3. /\ Append(s, e) \in Seq(S) /\ Len(Append(s, e)) = n + 1
          /\ \A i \in 1 .. n : Append(s, e)[i] = s[i]
          /\ Append(s, e)[n + 1] = e
        BY AppendProperties
    <1>4. ASSUME NEW i \in 1 .. n + 1 PROVE Append(s, e)[i] = f[i]
        BY <1>3, i = n + 1 \/ i \in 1 .. n
    <1> HIDE DEF f
    <1>5. Append(s, e) = f
        BY <1>2, <1>3, <1>4, SeqEqual
    <1> QED BY <1>5 DEF f

LEMMA TailIs ==
    ASSUME NEW S, NEW s \in Seq(S), NEW n \in Nat, Len(s) = n + 1
    PROVE  Tail(s) = [i \in 1 .. n |-> s[i + 1]]
    <1> DEFINE f == [i \in 1 .. n |-> s[i + 1]]
    <1>1. ASSUME NEW i \in 1 .. n PROVE s[i + 1] \in S
        BY i + 1 \in 1 .. n + 1
    <1>2. f \in Seq(S) /\ Len(f) = n
        BY <1>1
    <1>3. s # << >>
        OBVIOUS
    <1>4. /\ Tail(s) \in Seq(S) /\ Len(Tail(s)) = n
          /\ \A i \in 1 .. n : Tail(s)[i] = s[i + 1]
        BY <1>3, HeadTailProperties
    <1> HIDE DEF f
    <1>5. \A i \in 1 .. n : f[i] = s[i + 1]
        BY DEF f
    <1>6. Tail(s) = f
        BY <1>2, <1>4, <1>5, SeqEqual
    <1> QED BY <1>6 DEF f

\* A ring's entries are a sequence with an entry for every index between.
LEMMA RingIsSeq ==
    ASSUME NEW es, NEW h, NEW t, IsRing(es, h, t)
    PROVE  /\ RingOf(es, h, t) \in Seq(EntryType)
           /\ Len(RingOf(es, h, t)) = Count(h, t, Len(es))
           /\ Count(h, t, Len(es)) \in 0 .. Len(es) - 1
    <1>1. Len(es) \in Nat \ {0} /\ h \in 0 .. Len(es) - 1 /\ t \in 0 .. Len(es) - 1
        BY DEF IsRing
    <1>2. Count(h, t, Len(es)) \in 0 .. Len(es) - 1
        BY <1>1 DEF Count
    <1>3. ASSUME NEW i \in 1 .. Count(h, t, Len(es))
          PROVE  es[Place(h, i, Len(es)) + 1] \in EntryType
        <2>1. i \in 1 .. Len(es)
            BY <1>1, <1>2
        <2>2. Place(h, i, Len(es)) + 1 \in 1 .. Len(es)
            BY <1>1, <2>1, PlaceIs
        <2> QED BY <2>2 DEF IsRing
    <1>4. Count(h, t, Len(es)) \in Nat
        BY <1>2, <1>1
    <1> QED BY <1>2, <1>3, <1>4 DEF RingOf

\* The code's remainders, as a ring that wraps once.
LEMMA RingIs ==
    ASSUME NEW es, NEW h, NEW t, IsRing(es, h, t)
    PROVE  [i \in 1 .. (t + Len(es) - h) % Len(es) |-> es[((h + i - 1) % Len(es)) + 1]]
               = RingOf(es, h, t)
    <1>1. Len(es) \in Nat \ {0} /\ h \in 0 .. Len(es) - 1 /\ t \in 0 .. Len(es) - 1
        BY DEF IsRing
    <1>2. /\ (t + Len(es) - h) % Len(es) = Count(h, t, Len(es))
          /\ Count(h, t, Len(es)) \in 0 .. Len(es) - 1
        BY <1>1, CountIs
    <1>3. ASSUME NEW i \in 1 .. Count(h, t, Len(es))
          PROVE  (h + i - 1) % Len(es) = Place(h, i, Len(es))
        <2>1. i \in 1 .. Len(es)
            BY <1>1, <1>2
        <2> QED BY <1>1, <2>1, PlaceIs
    <1> QED BY <1>2, <1>3 DEF RingOf

\* An entry put at tail comes last.
LEMMA RingAppend ==
    ASSUME NEW es, NEW h, NEW t, IsRing(es, h, t),
           NEW e \in EntryType, Succ(t, Len(es)) # h
    PROVE  /\ IsRing(PutAt(es, t, e), h, Succ(t, Len(es)))
           /\ RingOf(PutAt(es, t, e), h, Succ(t, Len(es))) = Append(RingOf(es, h, t), e)
    <1> DEFINE m  == Len(es)
               es2 == [es EXCEPT ![t + 1] = e]
               c  == Count(h, t, m)
               t2 == Succ(t, m)
    <1>1. m \in Nat /\ m >= 2 /\ h \in 0 .. m - 1 /\ t \in 0 .. m - 1 /\ es \in Seq(EntryType)
        BY DEF IsRing
    <1>2. es2 \in Seq(EntryType) /\ Len(es2) = m
        BY <1>1
    <1>3. t2 \in 0 .. m - 1
        BY <1>1 DEF Succ
    <1>4. Count(h, t2, m) = c + 1 /\ c \in 0 .. m - 1
        BY <1>1 DEF Count, Succ
    <1>5. ASSUME NEW i \in 1 .. c PROVE es2[Place(h, i, m) + 1] = es[Place(h, i, m) + 1]
        <2>1. Place(h, i, m) + 1 \in 1 .. m /\ Place(h, i, m) + 1 # t + 1
            BY <1>1, BeforeTail, Zenon
        <2>2. DOMAIN es = 1 .. m
            BY <1>1
        <2> QED BY <2>1, <2>2
    <1>6. es2[Place(h, c + 1, m) + 1] = e
        <2>1. Place(h, c + 1, m) = t
            BY <1>1 DEF Count, Place
        <2> QED BY <1>1, <2>1
    <1>7. RingOf(es, h, t) \in Seq(EntryType) /\ Len(RingOf(es, h, t)) = c
        BY RingIsSeq
    <1>8. RingOf(es2, h, t2) = Append(RingOf(es, h, t), e)
        <2>1. RingOf(es2, h, t2) = [i \in 1 .. c + 1 |-> es2[Place(h, i, m) + 1]]
            BY <1>2, <1>4 DEF RingOf
        <2>2. RingOf(es, h, t) = [i \in 1 .. c |-> es[Place(h, i, m) + 1]]
            BY DEF RingOf
        <2>3. Append(RingOf(es, h, t), e)
                  = [i \in 1 .. c + 1 |-> IF i = c + 1 THEN e ELSE RingOf(es, h, t)[i]]
            BY ONLY <1>4, <1>7, <1>1, e \in EntryType, c \in Nat, AppendIs, SMTT(60)
        <2>4. ASSUME NEW i \in 1 .. c + 1
              PROVE  es2[Place(h, i, m) + 1] = IF i = c + 1 THEN e ELSE RingOf(es, h, t)[i]
            <3>1. CASE i = c + 1
                BY <1>6, <3>1
            <3>2. CASE i # c + 1
                <4>1. i \in 1 .. c
                    BY <3>2, <1>4
                <4> QED BY <4>1, <1>5, <2>2, <3>2
            <3> QED BY <3>1, <3>2
        <2> QED BY <2>1, <2>3, <2>4
    <1>9. es2 = PutAt(es, t, e)
        BY DEF PutAt
    <1> QED BY <1>1, <1>2, <1>3, <1>8, <1>9 DEF IsRing

\* The ring rewritten into one of twice the size holds the same, in order.
LEMMA RingGrow ==
    ASSUME NEW es, NEW h, NEW t, IsRing(es, h, t),
           NEW e \in EntryType, Succ(t, Len(es)) = h
    PROVE  /\ IsRing(Grown(es, h, t, e), 0, Len(es))
           /\ RingOf(Grown(es, h, t, e), 0, Len(es)) = Append(RingOf(es, h, t), e)
    <1> DEFINE m   == Len(es)
               es2 == [es EXCEPT ![t + 1] = e]
               es3 == [i \in 1 .. 2 * m |->
                         IF i <= m THEN es2[((h + i - 1) % m) + 1] ELSE Blank]
               c   == Count(h, t, m)
    <1>1. m \in Nat /\ m >= 2 /\ h \in 0 .. m - 1 /\ t \in 0 .. m - 1 /\ es \in Seq(EntryType)
        BY DEF IsRing
    <1>2. es2 \in Seq(EntryType) /\ Len(es2) = m
        BY <1>1
    <1>3. c = m - 1
        BY <1>1 DEF Count, Succ
    <1>4. ASSUME NEW i \in 1 .. m
          PROVE  (h + i - 1) % m = Place(h, i, m) /\ Place(h, i, m) + 1 \in 1 .. m
        BY <1>1, PlaceIs
    <1>5. Blank \in EntryType
        BY DEF Blank, EntryType
    <1>6. es3 \in Seq(EntryType) /\ Len(es3) = 2 * m
        <2>1. ASSUME NEW i \in 1 .. 2 * m
              PROVE  (IF i <= m THEN es2[((h + i - 1) % m) + 1] ELSE Blank) \in EntryType
            <3>1. CASE i <= m
                <4>1. i \in 1 .. m
                    BY <3>1
                <4>2. es2[((h + i - 1) % m) + 1] \in EntryType
                    BY <4>1, <1>2, <1>4
                <4> QED BY <3>1, <4>2
            <3>2. CASE ~(i <= m)
                BY <1>5, <3>2
            <3> QED BY <3>1, <3>2
        <2>2. 2 * m \in Nat
            BY <1>1
        <2> HIDE DEF es2, m
        <2> QED BY <2>1, <2>2
    <1>7. RingOf(es, h, t) \in Seq(EntryType) /\ Len(RingOf(es, h, t)) = m - 1
        BY <1>3, RingIsSeq
    <1>8. RingOf(es3, 0, m) = Append(RingOf(es, h, t), e)
        <2>1. Count(0, m, Len(es3)) = m
            BY <1>1, <1>6 DEF Count
        <2>2. RingOf(es3, 0, m) = [i \in 1 .. m |-> es3[Place(0, i, 2 * m) + 1]]
            BY <2>1, <1>6 DEF RingOf
        <2>3. RingOf(es, h, t) = [i \in 1 .. m - 1 |-> es[Place(h, i, m) + 1]]
            BY <1>3 DEF RingOf
        <2>4. Append(RingOf(es, h, t), e)
                  = [i \in 1 .. m |-> IF i = m THEN e ELSE RingOf(es, h, t)[i]]
            <3>1. m - 1 \in Nat /\ (m - 1) + 1 = m
                BY <1>1
            <3> QED BY <1>7, <3>1, AppendIs
        <2>5. ASSUME NEW i \in 1 .. m
              PROVE  es3[Place(0, i, 2 * m) + 1] = IF i = m THEN e ELSE RingOf(es, h, t)[i]
            <3>1. Place(0, i, 2 * m) + 1 = i
                BY <1>1 DEF Place
            <3>2. i \in 1 .. 2 * m /\ i <= m
                BY <1>1
            <3>3. es3[i] = es2[Place(h, i, m) + 1]
                BY <3>2, <1>4
            <3>4. CASE i = m
                <4>1. Place(h, m, m) = t
                    BY <1>1 DEF Place, Succ
                <4>2. es2[t + 1] = e
                    BY <1>1
                <4> HIDE DEF es2, es3
                <4> QED BY <3>1, <3>3, <3>4, <4>1, <4>2
            <3>5. CASE i # m
                <4>1. Place(h, i, m) # t /\ Place(h, i, m) \in 0 .. m - 1
                    BY <1>1, <3>5 DEF Place, Succ
                <4>2. es2[Place(h, i, m) + 1] = es[Place(h, i, m) + 1]
                    BY <1>1, <4>1
                <4>3. i \in 1 .. m - 1
                    BY <1>1, <3>5
                <4> QED BY <3>1, <3>3, <3>5, <4>2, <4>3, <2>3
            <3> QED BY <3>4, <3>5
        <2> HIDE DEF es3
        <2> QED BY <2>2, <2>4, <2>5
    <1>9. IsRing(es3, 0, m)
        BY <1>1, <1>6 DEF IsRing
    <1>10. es3 = Grown(es, h, t, e)
        BY DEF PutAt, Grown
    <1> QED BY <1>8, <1>9, <1>10

\* What is at head comes first, and the rest follows it.
LEMMA RingTake ==
    ASSUME NEW es, NEW h, NEW t, IsRing(es, h, t), h # t
    PROVE  /\ IsRing(es, Succ(h, Len(es)), t)
           /\ RingOf(es, h, t) # << >>
           /\ es[h + 1] = Head(RingOf(es, h, t))
           /\ RingOf(es, Succ(h, Len(es)), t) = Tail(RingOf(es, h, t))
    <1> DEFINE m  == Len(es)
               h2 == Succ(h, m)
               c  == Count(h, t, m)
               R  == RingOf(es, h, t)
    <1>1. m \in Nat /\ m >= 2 /\ h \in 0 .. m - 1 /\ t \in 0 .. m - 1
        BY DEF IsRing
    <1>2. h2 \in 0 .. m - 1 /\ Count(h2, t, m) = c - 1 /\ c \in 1 .. m - 1
        BY <1>1 DEF Count, Succ
    <1>3. R \in Seq(EntryType) /\ Len(R) = c
        BY RingIsSeq
    <1>4. R = [i \in 1 .. c |-> es[Place(h, i, m) + 1]]
        BY DEF RingOf
    <1>5. R # << >>
        BY <1>2, <1>3
    <1>6. es[h + 1] = Head(R)
        <2>1. Place(h, 1, m) = h
            BY <1>1 DEF Place
        <2> QED BY <1>2, <1>3, <1>4, <2>1
    <1>7. RingOf(es, h2, t) = Tail(R)
        <2>1. RingOf(es, h2, t) = [i \in 1 .. c - 1 |-> es[Place(h2, i, m) + 1]]
            BY <1>2 DEF RingOf
        <2>2. Tail(R) = [i \in 1 .. c - 1 |-> R[i + 1]]
            <3>1. c - 1 \in Nat /\ (c - 1) + 1 = c
                BY <1>1, <1>2
            <3> HIDE DEF R, c, m
            <3> QED BY <1>3, <3>1, TailIs
        <2>3. ASSUME NEW i \in 1 .. c - 1 PROVE es[Place(h2, i, m) + 1] = R[i + 1]
            <3>1. Place(h2, i, m) = Place(h, i + 1, m)
                BY <1>1, <1>2 DEF Place, Succ
            <3>2. i + 1 \in 1 .. c
                BY <1>2
            <3> QED BY <3>1, <3>2, <1>4
        <2> QED BY <2>1, <2>2, <2>3
    <1> QED BY <1>2, <1>5, <1>6, <1>7 DEF IsRing

-----------------------------------------------------------------------------
(* The ring of the log, in its states and steps                            *)

RingOK == IsRing(entries, head, tail)

\* TypeOK implies it, before and after a step.
LEMMA TypedRing ==
    /\ TypeOK => RingOK
    /\ TypeOK' => RingOK'
    BY CapacityAssumption DEF TypeOK, RingOK, IsRing, Size

LEMMA RingNow ==
    ASSUME RingOK
    PROVE  /\ Ring = RingOf(entries, head, tail)
           /\ Ring \in Seq(EntryType)
           /\ Ring = << >> <=> head = tail
           /\ Following(tail) = Succ(tail, Size) /\ Following(head) = Succ(head, Size)
    <1>1. Ring = RingOf(entries, head, tail)
        <2>1. Ring = [i \in 1 .. (tail + Len(entries) - head) % Len(entries) |->
                        entries[((head + i - 1) % Len(entries)) + 1]]
            BY DEF Ring, At, Size
        <2> QED BY <2>1, RingIs DEF RingOK
    <1>2. Size \in Nat \ {0} /\ head \in 0 .. Size - 1 /\ tail \in 0 .. Size - 1
        BY DEF RingOK, IsRing, Size
    <1>3. Ring \in Seq(EntryType) /\ Len(Ring) = Count(head, tail, Size)
        BY <1>1, RingIsSeq DEF RingOK, Size
    <1>4. Count(head, tail, Size) = 0 <=> head = tail
        BY <1>2 DEF Count
    <1>5. Following(tail) = Succ(tail, Size) /\ Following(head) = Succ(head, Size)
        BY <1>2, NextIs DEF Following
    <1>6. Ring = << >> <=> Len(Ring) = 0
        BY <1>3
    <1> QED BY <1>1, <1>3, <1>4, <1>5, <1>6

LEMMA RingThen ==
    ASSUME RingOK'
    PROVE  Ring' = RingOf(entries', head', tail') /\ Ring' \in Seq(EntryType)
    <1>1. Ring' = RingOf(entries', head', tail')
        <2>1. Ring' = [i \in 1 .. (tail' + Len(entries') - head') % Len(entries') |->
                        entries'[((head' + i - 1) % Len(entries')) + 1]]
            BY DEF Ring, At, Size
        <2> QED BY <2>1, RingIs DEF RingOK
    <1> QED BY <1>1, RingIsSeq DEF RingOK

\* add() appends its entry, whether the ring has to grow or not.
LEMMA PutAppends ==
    ASSUME RingOK, NEW e \in EntryType, Put(e)
    PROVE  RingOK' /\ Ring' = Append(Ring, e) /\ Size' >= Size
    <1>1. Size \in Nat /\ Size = Len(entries) /\ entries \in Seq(EntryType) /\ tail + 1 \in 1 .. Size
        BY DEF RingOK, IsRing, Size
    <1>2. CASE Following(tail) = head
        <2>1. entries' = Grown(entries, head, tail, e) /\ head' = 0 /\ tail' = Len(entries)
            BY <1>2 DEF Put, Grown, PutAt, Size
        <2>2. Succ(tail, Len(entries)) = head
            BY <1>2, RingNow DEF Size
        <2>3. /\ IsRing(entries', head', tail')
              /\ RingOf(entries', head', tail') = Append(RingOf(entries, head, tail), e)
            BY <2>1, <2>2, RingGrow DEF RingOK
        <2>4. Size' = 2 * Size
            BY <1>1, <2>1 DEF Size, Grown
        <2>5. RingOK'
            BY <2>3 DEF RingOK
        <2>6. Ring' = Append(Ring, e)
            BY <2>3, <2>5, RingNow, RingThen
        <2> QED BY <1>1, <2>4, <2>5, <2>6
    <1>3. CASE Following(tail) # head
        <2>1. entries' = PutAt(entries, tail, e) /\ head' = head /\ tail' = Following(tail)
            BY <1>3 DEF Put, PutAt
        <2>2. tail' = Succ(tail, Len(entries)) /\ Succ(tail, Len(entries)) # head
            BY <1>3, <2>1, RingNow DEF Size
        <2>3. /\ IsRing(entries', head', tail')
              /\ RingOf(entries', head', tail') = Append(RingOf(entries, head, tail), e)
            BY <2>1, <2>2, RingAppend DEF RingOK
        <2>4. Size' = Size
            BY <1>1, <2>1 DEF Size, PutAt
        <2>5. RingOK'
            BY <2>3 DEF RingOK
        <2>6. Ring' = Append(Ring, e)
            BY <2>3, <2>5, RingNow, RingThen
        <2> QED BY <1>1, <2>4, <2>5, <2>6
    <1> QED BY <1>2, <1>3

\* pause() appends an end entry, when one more fits.
LEMMA PushAppends ==
    ASSUME RingOK, PushEnd
    PROVE  /\ RingOK' /\ Size' = Size
           /\ Following(tail) # head =>
                  \E e \in EntryType : e.is_end /\ Ring' = Append(Ring, e)
    <1> DEFINE e == [entries[tail + 1] EXCEPT !.is_end = TRUE]
    <1>1. /\ Size \in Nat /\ Size = Len(entries) /\ entries \in Seq(EntryType)
          /\ tail + 1 \in 1 .. Size /\ Size >= 2 /\ head \in 0 .. Size - 1
        BY DEF RingOK, IsRing, Size
    <1>2. e \in EntryType /\ e.is_end
        <2>1. entries[tail + 1] \in EntryType
            BY <1>1
        <2> QED BY <2>1 DEF EntryType
    <1>3. entries' = [entries EXCEPT ![tail + 1] = e] /\ head' = head /\ tail' = Following(tail)
        BY DEF PushEnd
    <1>4. tail' = Succ(tail, Size)
        BY <1>3, RingNow
    <1> HIDE DEF e
    <1>5. RingOK' /\ Size' = Size
        <2>1. entries' \in Seq(EntryType) /\ Len(entries') = Size
            BY <1>1, <1>2, <1>3
        <2>2. tail' \in 0 .. Size - 1
            BY <1>1, <1>4 DEF Succ
        <2> QED BY <1>1, <1>3, <2>1, <2>2 DEF RingOK, IsRing, Size
    <1>6. ASSUME Following(tail) # head PROVE Ring' = Append(Ring, e)
        <2>1. Succ(tail, Len(entries)) # head /\ tail' = Succ(tail, Len(entries))
            <3>1. Following(tail) = Succ(tail, Size)
                BY RingNow
            <3> QED BY <1>1, <1>4, <1>6, <3>1, Zenon
        <2>2. entries' = PutAt(entries, tail, e)
            BY <1>3 DEF PutAt
        <2>3. RingOf(entries', head', tail') = Append(RingOf(entries, head, tail), e)
            <3>1. RingOf(PutAt(entries, tail, e), head, Succ(tail, Len(entries)))
                      = Append(RingOf(entries, head, tail), e)
                BY <1>2, <2>1, RingAppend DEF RingOK
            <3>2. head' = head
                BY <1>3
            <3> QED BY <2>1, <2>2, <3>1, <3>2
        <2> QED BY <1>5, <2>3, RingNow, RingThen
    <1> QED BY <1>2, <1>5, <1>6

\* The worker takes the first entry.
LEMMA TakesHead ==
    ASSUME RingOK, Take
    PROVE  /\ RingOK' /\ Size' = Size /\ cur' \in EntryType
           /\ Ring # << >> /\ cur' = Head(Ring) /\ Ring' = Tail(Ring)
    <1>1. /\ head # tail /\ cur' = entries[head + 1] /\ head' = Succ(head, Len(entries))
          /\ entries' = entries /\ tail' = tail
        BY RingNow DEF Take, At, Size
    <1>2. /\ IsRing(entries, head', tail) /\ RingOf(entries, head, tail) # << >>
          /\ entries[head + 1] = Head(RingOf(entries, head, tail))
          /\ RingOf(entries, head', tail) = Tail(RingOf(entries, head, tail))
        BY <1>1, RingTake DEF RingOK
    <1>3. cur' \in EntryType
        BY <1>1 DEF RingOK, IsRing
    <1>4. RingOK' /\ Size' = Size
        BY <1>1, <1>2 DEF RingOK, Size
    <1> QED BY <1>1, <1>2, <1>3, <1>4, RingNow, RingThen

\* What does not touch the ring leaves its entries.
LEMMA RingKept ==
    ASSUME RingOK, UNCHANGED ring
    PROVE  RingOK' /\ Ring' = Ring /\ Size' = Size
    BY DEF ring, RingOK, Ring, At, Size

-----------------------------------------------------------------------------
(* End entries                                                             *)

Clean(s) == \A i \in DOMAIN s : ~s[i].is_end
Ended(s) == s # << >> /\ Last(s).is_end /\ Clean(Front(s))

\* InRing, of any sequence.
Coming(s) == IF s # << >> /\ Last(s).is_end THEN Front(s) ELSE s

LEMMA FrontIs ==
    ASSUME NEW S, NEW s \in Seq(S), s # << >>
    PROVE  /\ Front(s) \in Seq(S) /\ Len(Front(s)) = Len(s) - 1
           /\ \A i \in 1 .. Len(s) - 1 : Front(s)[i] = s[i]
    <1>1. Len(s) \in Nat /\ Len(s) >= 1
        BY EmptySeq
    <1>2. Front(s) = [i \in 1 .. Len(s) - 1 |-> s[i]]
        BY <1>1 DEF Front
    <1>3. \A i \in 1 .. Len(s) - 1 : s[i] \in S
        BY <1>1
    <1> QED BY <1>1, <1>2, <1>3

LEMMA Prepended ==
    ASSUME NEW S, NEW e \in S, NEW s \in Seq(S), NEW f \in Seq(S),
           Len(f) = Len(s) + 1, f[1] = e, \A i \in 1 .. Len(s) : f[i + 1] = s[i]
    PROVE  f = <<e>> \o s
    <1>1. Len(s) \in Nat
        OBVIOUS
    <1>2. /\ <<e>> \o s \in Seq(S) /\ Len(<<e>> \o s) = Len(s) + 1
          /\ \A i \in 1 .. Len(s) + 1 : (<<e>> \o s)[i] = IF i = 1 THEN e ELSE s[i - 1]
        OBVIOUS
    <1>3. ASSUME NEW i \in 1 .. Len(f) PROVE f[i] = (<<e>> \o s)[i]
        <2>1. CASE i = 1
            BY <1>1, <1>2, <2>1
        <2>2. CASE i # 1
            <3>1. i - 1 \in 1 .. Len(s) /\ (i - 1) + 1 = i
                BY <1>1, <2>2
            <3>2. f[(i - 1) + 1] = s[i - 1]
                BY <3>1
            <3> QED BY <1>1, <1>2, <2>2, <3>1, <3>2
        <2> QED BY <2>1, <2>2
    <1> QED BY <1>2, <1>3, SeqEqual

LEMMA EndPushed ==
    ASSUME NEW s \in Seq(EntryType), Clean(s), NEW e \in EntryType, e.is_end
    PROVE  Ended(Append(s, e)) /\ Coming(Append(s, e)) = s
    <1> DEFINE a == Append(s, e)
    <1>1. /\ a \in Seq(EntryType) /\ a # << >> /\ Len(a) = Len(s) + 1 /\ Len(s) \in Nat
          /\ \A i \in 1 .. Len(s) : a[i] = s[i]
          /\ a[Len(s) + 1] = e
        BY AppendProperties
    <1> HIDE DEF a
    <1>2. Last(a) = e
        BY <1>1 DEF Last
    <1>3. Front(a) = s
        <2>1. /\ Front(a) \in Seq(EntryType) /\ Len(Front(a)) = Len(s)
              /\ \A i \in 1 .. Len(s) : Front(a)[i] = a[i]
            BY <1>1, FrontIs
        <2> QED BY <1>1, <2>1, SeqEqual
    <1>4. Ended(a) /\ Coming(a) = s
        BY <1>1, <1>2, <1>3 DEF Ended, Coming
    <1> QED BY <1>4 DEF a

LEMMA CleanAppend ==
    ASSUME NEW s \in Seq(EntryType), Clean(s), NEW e \in EntryType, ~e.is_end
    PROVE  Clean(Append(s, e))
    <1>1. /\ Append(s, e) \in Seq(EntryType) /\ Len(Append(s, e)) = Len(s) + 1 /\ Len(s) \in Nat
          /\ \A i \in 1 .. Len(s) : Append(s, e)[i] = s[i]
          /\ Append(s, e)[Len(s) + 1] = e
        BY AppendProperties
    <1>2. ASSUME NEW i \in DOMAIN Append(s, e) PROVE ~Append(s, e)[i].is_end
        <2>1. i = Len(s) + 1 \/ i \in 1 .. Len(s)
            BY <1>1
        <2> QED BY <1>1, <2>1 DEF Clean
    <1> QED BY <1>2 DEF Clean

LEMMA CleanComing ==
    ASSUME NEW s \in Seq(EntryType), Clean(s)
    PROVE  Coming(s) = s
    <1>1. s # << >> => Len(s) \in DOMAIN s
        BY EmptySeq
    <1> QED BY <1>1 DEF Coming, Clean, Last

\* What is left when the first entry is gone.
LEMMA FirstTaken ==
    ASSUME NEW s \in Seq(EntryType), s # << >>, Clean(s) \/ Ended(s)
    PROVE  /\ Clean(s) => ~Head(s).is_end /\ Clean(Tail(s))
           /\ ~Head(s).is_end => Coming(s) = <<Head(s)>> \o Coming(Tail(s))
           /\ ~Head(s).is_end /\ Ended(s) => Ended(Tail(s))
           /\ Head(s).is_end => Tail(s) = << >> /\ Coming(s) = << >>
    <1> DEFINE t == Tail(s)
    <1>1. Len(s) \in Nat /\ Len(s) >= 1 /\ Head(s) = s[1] /\ Head(s) \in EntryType
        BY EmptySeq
    <1>2. /\ t \in Seq(EntryType) /\ Len(t) = Len(s) - 1
          /\ \A i \in 1 .. Len(s) - 1 : t[i] = s[i + 1]
        BY HeadTailProperties
    <1>3. /\ Front(s) \in Seq(EntryType) /\ Len(Front(s)) = Len(s) - 1
          /\ \A i \in 1 .. Len(s) - 1 : Front(s)[i] = s[i]
        BY FrontIs
    <1> HIDE DEF t
    <1>4. s = <<Head(s)>> \o t
        <2>1. Len(s) = Len(t) + 1 /\ s[1] = Head(s)
            BY <1>1, <1>2
        <2>2. \A i \in 1 .. Len(t) : s[i + 1] = t[i]
            BY <1>2
        <2> QED BY <1>1, <1>2, <2>1, <2>2, Prepended, Zenon
    <1>5. ASSUME Clean(s)
          PROVE  ~Head(s).is_end /\ Clean(t) /\ Coming(s) = <<Head(s)>> \o Coming(t)
        <2>1. ~Head(s).is_end
            BY <1>1, <1>5 DEF Clean
        <2>2. Clean(t)
            <3>1. ASSUME NEW i \in 1 .. Len(s) - 1 PROVE ~t[i].is_end
                BY <1>1, <1>2, <1>5, i + 1 \in 1 .. Len(s) DEF Clean
            <3> QED BY <1>2, <3>1 DEF Clean
        <2>3. Coming(s) = s /\ Coming(t) = t
            BY <1>2, <1>5, <2>2, CleanComing
        <2> QED BY <1>4, <2>1, <2>2, <2>3
    <1>6. ASSUME Ended(s), Len(s) = 1
          PROVE  Head(s).is_end /\ t = << >> /\ Coming(s) = << >>
        <2>1. Head(s).is_end
            BY <1>1, <1>6 DEF Ended, Last
        <2>2. t = << >> /\ Front(s) = << >>
            BY <1>2, <1>3, <1>6
        <2> QED BY <1>6, <2>1, <2>2 DEF Coming, Ended
    <1>7. ASSUME Ended(s), Len(s) # 1
          PROVE  ~Head(s).is_end /\ Ended(t) /\ Coming(s) = <<Head(s)>> \o Coming(t)
        <2>1. Len(s) - 1 \in Nat /\ Len(s) - 1 >= 1 /\ t # << >>
            BY <1>1, <1>2, <1>7
        <2>2. Last(s).is_end /\ Clean(Front(s))
            BY <1>7 DEF Ended
        <2>3. Last(t) = Last(s)
            BY <1>1, <1>2, <2>1 DEF Last
        <2>4. ASSUME NEW i \in 1 .. Len(s) - 1 PROVE ~s[i].is_end
            BY <1>3, <2>2 DEF Clean
        <2>5. ~Head(s).is_end
            BY <1>1, <2>1, <2>4
        <2>6. /\ Front(t) \in Seq(EntryType) /\ Len(Front(t)) = Len(s) - 2
              /\ \A i \in 1 .. Len(s) - 2 : Front(t)[i] = s[i + 1]
            <3>1. /\ Front(t) \in Seq(EntryType) /\ Len(Front(t)) = Len(t) - 1
                  /\ \A i \in 1 .. Len(t) - 1 : Front(t)[i] = t[i]
                BY <1>2, <2>1, FrontIs
            <3> QED BY <1>1, <1>2, <3>1
        <2>7. Clean(Front(t))
            <3>1. ASSUME NEW i \in 1 .. Len(s) - 2 PROVE ~Front(t)[i].is_end
                BY <1>1, <2>4, <2>6, i + 1 \in 1 .. Len(s) - 1
            <3> QED BY <2>6, <3>1 DEF Clean
        <2>8. Front(s) = <<Head(s)>> \o Front(t)
            <3>1. Front(s)[1] = Head(s)
                BY <1>1, <1>3, <2>1
            <3>2. ASSUME NEW i \in 1 .. Len(s) - 2 PROVE Front(s)[i + 1] = Front(t)[i]
                BY <1>1, <1>3, <2>6, i + 1 \in 1 .. Len(s) - 1
            <3>3. Len(Front(s)) = Len(Front(t)) + 1
                BY <1>1, <1>3, <2>6
            <3>4. \A i \in 1 .. Len(Front(t)) : Front(s)[i + 1] = Front(t)[i]
                BY <2>6, <3>2
            <3> QED BY <1>1, <1>3, <2>6, <3>1, <3>3, <3>4, Prepended
        <2> QED BY <2>1, <2>2, <2>3, <2>5, <2>7, <2>8 DEF Ended, Coming
    <1> QED BY <1>5, <1>6, <1>7 DEF t

-----------------------------------------------------------------------------
(* Types                                                                   *)

USE DEF ControlCalls

LEMMA TypedRingSize ==
    ASSUME TypeOK, RingOK', Size' >= Size
    PROVE  /\ entries' \in Seq(EntryType) /\ Size' >= Capacity
           /\ head' \in 0 .. Size' - 1 /\ tail' \in 0 .. Size' - 1
    <1>1. Size \in Nat /\ Size' \in Nat /\ Size >= Capacity
        BY SMTT(60) DEF TypeOK, RingOK, IsRing, Size
    <1> QED BY <1>1, CapacityAssumption DEF RingOK, IsRing, Size

LEMMA AddedEntry ==
    ASSUME TypeOK, NEW a \in Adders, Add(a)
    PROVE  Entry(<<a, added'[a]>>) \in EntryType /\ ~Entry(<<a, added'[a]>>).is_end
    <1>1. added'[a] \in 1 .. PerAdder
        BY BoundsAssumption, SMTT(60) DEF Add, TypeOK
    <1>2. <<a, added'[a]>> \in Messages
        BY <1>1 DEF Messages
    <1> QED BY <1>2 DEF Entry, EntryType, TypeOK

LEMMA InitTypes == Init => TypeOK
    <1> SUFFICES ASSUME Init PROVE TypeOK
        OBVIOUS
    <1>1. Blank \in EntryType
        BY DEF Blank, EntryType
    <1>2. entries \in Seq(EntryType) /\ Size = Capacity
        BY <1>1, CapacityAssumption DEF Init, Size
    <1>3. << >> \in Seq([entry : EntryType, file : Nat, colors : BOOLEAN])
        BY EmptySeq
    <1>4. << >> \in Seq([entry : EntryType, colors : BOOLEAN]) /\ << >> \in Seq(Seq(EntryType))
        BY EmptySeq
    <1>5. added \in [Adders -> 0 .. PerAdder] /\ calls \in 0 .. Calls
        BY BoundsAssumption DEF Init
    <1>6. /\ entries \in Seq(EntryType) /\ Size >= Capacity
          /\ head \in 0 .. Size - 1 /\ tail \in 0 .. Size - 1
        BY <1>2, CapacityAssumption DEF Init
    <1>7. file \in 0 .. Len(disk)
        BY DEF Init
    <1> QED BY <1>1, <1>3, <1>4, <1>5, <1>6, <1>7 DEF Init, TypeOK

LEMMA AddTypes ==
    ASSUME TypeOK, NEW a \in Adders, Add(a)
    PROVE  TypeOK'
    <1> DEFINE e == Entry(<<a, added'[a]>>)
    <1>1. e \in EntryType
        BY AddedEntry
    <1>2. UNCHANGED <<running, prefix, sink, worker, cur, control, call, calls, console, disk>>
        BY DEF Add
    <1>3. added' \in [Adders -> 0 .. PerAdder]
        BY BoundsAssumption, SMTT(60) DEF Add, TypeOK
    <1>4. RingOK
        BY TypedRing
    <1>5. /\ RingOK' /\ Size' >= Size
          /\ sent' \in Seq([entry : EntryType, file : Nat, colors : BOOLEAN])
        <2>1. CASE /\ running /\ Put(e)
                   /\ sent' = Append(sent, [entry |-> e, file |-> file, colors |-> colors])
            <3>1. RingOK' /\ Size' >= Size
                BY <1>1, <1>4, <2>1, PutAppends
            <3>2. [entry |-> e, file |-> file, colors |-> colors]
                      \in [entry : EntryType, file : Nat, colors : BOOLEAN]
                BY <1>1 DEF TypeOK
            <3>3. sent \in Seq([entry : EntryType, file : Nat, colors : BOOLEAN])
                BY DEF TypeOK
            <3> QED BY <2>1, <3>1, <3>2, <3>3, AppendProperties
        <2>2. CASE ~running /\ UNCHANGED <<entries, head, tail, sent>>
            <3>1. RingOK' /\ Size' = Size /\ Size \in Nat
                BY <1>4, <2>2, RingKept DEF ring, RingOK, IsRing, Size
            <3> QED BY <2>2, <3>1 DEF TypeOK
        <2> QED BY <2>1, <2>2 DEF Add
    <1>6. /\ entries' \in Seq(EntryType) /\ Size' >= Capacity
          /\ head' \in 0 .. Size' - 1 /\ tail' \in 0 .. Size' - 1
        BY <1>5, TypedRingSize
    <1> QED BY <1>2, <1>3, <1>5, <1>6 DEF TypeOK, sink

LEMMA WorkerTypes ==
    ASSUME TypeOK, Worker
    PROVE  TypeOK'
    <1>1. RingOK /\ Size \in Nat
        BY TypedRing DEF RingOK, IsRing, Size
    <1>2. CASE Take
        <2>1. RingOK' /\ Size' = Size /\ cur' \in EntryType
            BY <1>1, <1>2, TakesHead
        <2>2. /\ entries' \in Seq(EntryType) /\ Size' >= Capacity
              /\ head' \in 0 .. Size' - 1 /\ tail' \in 0 .. Size' - 1
            BY <1>1, <2>1, TypedRingSize
        <2> QED BY <1>2, <2>1, <2>2 DEF Take, TypeOK, sink
    <1>3. CASE PrintConsole
        <2>1. console' \in Seq([entry : EntryType, colors : BOOLEAN])
            <3>1. [entry |-> cur, colors |-> colors] \in [entry : EntryType, colors : BOOLEAN]
                BY DEF TypeOK
            <3>2. console \in Seq([entry : EntryType, colors : BOOLEAN])
                BY DEF TypeOK
            <3> QED BY <1>3, <3>1, <3>2, AppendProperties DEF PrintConsole
        <2> QED BY <1>3, <2>1 DEF PrintConsole, TypeOK, Size, ring, sink
    <1>4. CASE PrintFile
        <2>1. disk' \in Seq(Seq(EntryType)) /\ Len(disk') = Len(disk)
            <3>1. disk \in Seq(Seq(EntryType)) /\ cur \in EntryType
                BY DEF TypeOK
            <3>2. disk' = [disk EXCEPT ![file] = Append(@, cur)]
                BY <1>4 DEF PrintFile
            <3>3. CASE file = 0
                <4>1. disk' = disk
                    BY <3>1, <3>2, <3>3
                <4> QED BY <3>1, <4>1
            <3>4. CASE file # 0
                <4>1. file \in 1 .. Len(disk)
                    BY <3>4 DEF TypeOK
                <4>2. Append(disk[file], cur) \in Seq(EntryType)
                    BY <3>1, <4>1, AppendProperties
                <4> QED BY <3>1, <3>2, <4>1, <4>2, ExceptSeq
            <3> QED BY <3>3, <3>4
        <2> QED BY <1>4, <2>1 DEF PrintFile, TypeOK, Size, ring, sink
    <1> QED BY <1>2, <1>3, <1>4 DEF Worker

LEMMA ControlTypes ==
    ASSUME TypeOK, (\E c \in ControlCalls : Call(c)) \/ Join \/ Finish
    PROVE  TypeOK'
    <1>1. RingOK /\ Size \in Nat
        BY TypedRing DEF RingOK, IsRing, Size
    <1>2. ASSUME NEW c \in ControlCalls, Call(c) PROVE TypeOK'
        <2>1. /\ entries' \in Seq(EntryType) /\ Size' >= Capacity
              /\ head' \in 0 .. Size' - 1 /\ tail' \in 0 .. Size' - 1
            <3>1. RingOK' /\ Size' = Size
                <4>1. UNCHANGED ring \/ PushEnd
                    BY <1>2 DEF Call
                <4> QED BY <1>1, <4>1, RingKept, PushAppends
            <3> QED BY <1>1, <3>1, TypedRingSize
        <2>2. calls' \in 0 .. Calls
            BY <1>2, BoundsAssumption DEF Call, TypeOK
        <2> QED BY <1>2, <2>1, <2>2 DEF Call, TypeOK, sink
    <1>3. CASE Join
        BY <1>3 DEF Join, TypeOK, Size, ring, sink
    <1>4. CASE Finish
        <2>1. file' \in 0 .. Len(disk') /\ disk' \in Seq(Seq(EntryType))
            <3>1. disk \in Seq(Seq(EntryType)) /\ Len(disk) \in Nat /\ file \in 0 .. Len(disk)
                BY DEF TypeOK
            <3>2. CASE call # "set_file"
                BY <1>4, <3>1, <3>2 DEF Finish
            <3>3. CASE call = "set_file"
                <4> DEFINE T == Seq(EntryType)
                           x == << >>
                <4>1. x \in T /\ disk \in Seq(T)
                    BY <3>1, EmptySeq
                <4> HIDE DEF T, x
                <4>2. Append(disk, x) \in Seq(T) /\ Len(Append(disk, x)) = Len(disk) + 1
                    BY <4>1, AppendProperties
                <4>3. \/ file' = Len(disk) + 1 /\ disk' = Append(disk, x)
                      \/ file' = 0 /\ disk' = disk
                    BY <1>4, <3>3 DEF Finish, OpenFile, x
                <4>4. disk' \in Seq(T)
                    BY <4>1, <4>2, <4>3, Zenon
                <4>5. \/ file' = Len(disk) + 1 /\ Len(disk') = Len(disk) + 1
                      \/ file' = 0 /\ Len(disk') = Len(disk)
                    BY <4>2, <4>3, Zenon
                <4>6. file' \in 0 .. Len(disk')
                    BY <3>1, <4>5
                <4> QED BY <4>4, <4>6 DEF T
            <3> QED BY <3>2, <3>3
        <2>2. running' \in BOOLEAN /\ worker' \in {"none", "wait", "print", "file", "exited"}
            BY <1>4 DEF Finish, Restart, TypeOK
        <2>3. colors' \in BOOLEAN /\ control' \in {"idle", "join", "set", "freed"}
            BY <1>4 DEF Finish, TypeOK
        <2> QED BY <1>4, <2>1, <2>2, <2>3 DEF Finish, TypeOK, Size, ring
    <1> QED BY <1>2, <1>3, <1>4

LEMMA NextTypes == TypeOK /\ [Next]_vars => TypeOK'
    <1> SUFFICES ASSUME TypeOK, [Next]_vars PROVE TypeOK'
        OBVIOUS
    <1>1. CASE SetPrefix
        BY <1>1 DEF SetPrefix, TypeOK, Size, ring, sink
    <1>2. CASE UNCHANGED vars
        BY <1>2 DEF vars, TypeOK, Size
    <1> QED BY <1>1, <1>2, AddTypes, WorkerTypes, ControlTypes DEF Next, Idle

-----------------------------------------------------------------------------
(* What is in the ring while the worker runs, is told to stop and is gone  *)

Active == {"wait", "print", "file"}

PauseInv ==
    /\ running => worker \in Active /\ Clean(Ring) /\ control # "join"
    /\ control = "join" => \/ worker \in Active /\ Ended(Ring)
                           \/ worker = "exited" /\ Ring = << >>
    /\ ~running /\ control # "join" => worker = "none" /\ Ring = << >>
    /\ running /\ control = "set" => call = "resume"

LInv == TypeOK /\ PauseInv

\* While the worker runs, the ring ends with an end entry or holds none.
LEMMA RingWhileActive ==
    ASSUME LInv, worker \in Active
    PROVE  Clean(Ring) \/ Ended(Ring)
    BY DEF LInv, PauseInv, Active, TypeOK

LEMMA InitPause == Init => PauseInv
    <1> SUFFICES ASSUME Init PROVE PauseInv
        OBVIOUS
    <1>1. Ring = << >>
        BY InitTypes, TypedRing, RingNow DEF Init
    <1>2. Clean(Ring)
        BY <1>1 DEF Clean
    <1> QED BY <1>2 DEF Init, PauseInv, Active

LEMMA AddPause ==
    ASSUME LInv, NEW a \in Adders, Add(a)
    PROVE  PauseInv'
    <1>1. UNCHANGED <<running, worker, control, call>> /\ RingOK
        BY TypedRing DEF Add, LInv
    <1>2. CASE running /\ Put(Entry(<<a, added'[a]>>))
        <2>1. Ring \in Seq(EntryType) /\ Clean(Ring)
            BY <1>1, <1>2, RingNow DEF LInv, PauseInv
        <2>2. Clean(Ring')
            BY <1>1, <1>2, <2>1, AddedEntry, PutAppends, CleanAppend DEF LInv
        <2> QED BY <1>1, <1>2, <2>2 DEF LInv, PauseInv, Clean
    <1>3. CASE ~running /\ UNCHANGED ring
        <2>1. Ring' = Ring
            BY <1>1, <1>3, RingKept
        <2> QED BY <1>1, <1>3, <2>1 DEF LInv, PauseInv
    <1> QED BY <1>2, <1>3 DEF Add, ring

LEMMA TakePause ==
    ASSUME LInv, Take
    PROVE  PauseInv'
    <1>1. UNCHANGED <<running, control, call>> /\ RingOK /\ worker \in Active
        BY TypedRing DEF Take, LInv, Active
    <1>2. /\ Ring \in Seq(EntryType) /\ Ring # << >> /\ (Clean(Ring) \/ Ended(Ring))
          /\ cur' = Head(Ring) /\ Ring' = Tail(Ring)
          /\ worker' = IF Head(Ring).is_end THEN "exited" ELSE "print"
        BY <1>1, RingNow, TakesHead, RingWhileActive DEF Take
    <1>3. /\ Clean(Ring) => ~Head(Ring).is_end /\ Clean(Tail(Ring))
          /\ ~Head(Ring).is_end /\ Ended(Ring) => Ended(Tail(Ring))
          /\ Head(Ring).is_end => Tail(Ring) = << >>
        BY <1>2, FirstTaken
    <1>4. CASE running
        BY <1>1, <1>2, <1>3, <1>4 DEF LInv, PauseInv, Active, Clean
    <1>5. CASE ~running
        <2>1. control = "join" /\ Ended(Ring)
            BY <1>1, <1>2, <1>5 DEF LInv, PauseInv, Active
        <2>2. (worker' \in Active /\ Ended(Ring')) \/ (worker' = "exited" /\ Ring' = << >>)
            <3>1. CASE Head(Ring).is_end
                BY <1>2, <1>3, <3>1
            <3>2. CASE ~Head(Ring).is_end
                <4>1. Ended(Tail(Ring)) /\ worker' = "print"
                    BY <1>2, <1>3, <2>1, <3>2
                <4> QED BY <1>2, <4>1 DEF Active, Ended
            <3> QED BY <3>1, <3>2
        <2> QED BY <1>1, <1>5, <2>1, <2>2 DEF PauseInv
    <1> QED BY <1>4, <1>5

LEMMA PrintPause ==
    ASSUME LInv, PrintConsole \/ PrintFile
    PROVE  PauseInv'
    <1>1. /\ UNCHANGED <<ring, running, control, call>>
          /\ worker \in Active /\ worker' \in Active /\ worker # "none" /\ worker # "exited"
        BY DEF PrintConsole, PrintFile, Active
    <1>2. Ring' = Ring
        BY <1>1, TypedRing, RingKept DEF LInv
    <1> QED BY <1>1, <1>2 DEF LInv, PauseInv

LEMMA CallPause ==
    ASSUME LInv, Careful, NEW c \in ControlCalls, Call(c)
    PROVE  PauseInv'
    <1>1. RingOK /\ control = "idle" /\ worker' = worker /\ call' = c
        BY TypedRing DEF LInv, Call
    <1>2. CASE (c = "resume" \/ ~running) /\ control' = "set" /\ UNCHANGED <<ring, running>>
        <2>1. Ring' = Ring
            BY <1>1, <1>2, RingKept
        <2> QED BY <1>1, <1>2, <2>1 DEF LInv, PauseInv
    <1>3. CASE running /\ Following(tail) # head /\ running' = FALSE /\ PushEnd /\ control' = "join"
        <2>1. Clean(Ring) /\ worker \in Active /\ Ring \in Seq(EntryType)
            BY <1>1, <1>3, RingNow DEF LInv, PauseInv
        <2>2. PICK e \in EntryType : e.is_end /\ Ring' = Append(Ring, e)
            BY <1>1, <1>3, PushAppends
        <2>3. Ended(Append(Ring, e))
            BY <2>1, <2>2, EndPushed
        <2>4. Ended(Ring')
            BY <2>2, <2>3 DEF Ended
        <2> QED BY <1>1, <1>3, <2>1, <2>4 DEF PauseInv
    <1> QED BY <1>2, <1>3 DEF Call

LEMMA JoinPause ==
    ASSUME LInv, Join
    PROVE  PauseInv'
    <1>1. /\ UNCHANGED <<ring, running, call>> /\ control = "join" /\ control' = "set"
          /\ worker = "exited" /\ worker' = "none"
        BY DEF Join
    <1>2. Ring' = Ring
        BY <1>1, TypedRing, RingKept DEF LInv
    <1> QED BY <1>1, <1>2 DEF LInv, PauseInv, Active

LEMMA FinishPause ==
    ASSUME LInv, Finish
    PROVE  PauseInv'
    <1>1. /\ UNCHANGED ring /\ control = "set" /\ control' \in {"idle", "freed"} /\ call' = call
          /\ UNCHANGED <<running, worker>> \/ Restart
        BY DEF Finish
    <1>2. Ring' = Ring
        BY <1>1, TypedRing, RingKept DEF LInv
    <1>3. CASE UNCHANGED <<running, worker>>
        BY <1>1, <1>2, <1>3 DEF LInv, PauseInv
    <1>4. CASE ~running /\ running' = TRUE /\ worker' = "wait"
        <2>1. Ring = << >>
            BY <1>1, <1>4 DEF LInv, PauseInv
        <2>2. Clean(Ring)
            BY <2>1 DEF Clean
        <2> QED BY <1>1, <1>2, <1>4, <2>2 DEF PauseInv, Active
    <1> QED BY <1>1, <1>3, <1>4 DEF Restart

LEMMA NextLInv ==
    ASSUME Careful, LInv, [Next]_vars
    PROVE  LInv'
    <1>1. TypeOK'
        BY NextTypes DEF LInv
    <1>2. PauseInv'
        <2>1. CASE SetPrefix \/ UNCHANGED vars
            <3>1. UNCHANGED <<ring, running, worker, control, call>>
                BY <2>1 DEF SetPrefix, vars, ring
            <3>2. Ring' = Ring
                BY <3>1, TypedRing, RingKept DEF LInv
            <3> QED BY <3>1, <3>2 DEF LInv, PauseInv
        <2>2. CASE Worker
            BY <2>2, TakePause, PrintPause DEF Worker
        <2> QED BY <2>1, <2>2, AddPause, CallPause, JoinPause, FinishPause DEF Next, Idle
    <1> QED BY <1>1, <1>2 DEF LInv

-----------------------------------------------------------------------------
(* Refinement                                                              *)

\* The entries of u as LogQueue knows them, in colours c.
InColors(u, c) == [i \in DOMAIN u |-> [entry |-> u[i], colors |-> c]]

Logged == [entry : EntryType, colors : BOOLEAN]

LEMMA InColorsAppend ==
    ASSUME NEW u \in Seq(EntryType), NEW e \in EntryType, NEW c \in BOOLEAN
    PROVE  InColors(Append(u, e), c) = Append(InColors(u, c), [entry |-> e, colors |-> c])
    <1> DEFINE a == Append(u, e)
               f == InColors(u, c)
               x == [entry |-> e, colors |-> c]
    <1>1. /\ a \in Seq(EntryType) /\ Len(a) = Len(u) + 1 /\ Len(u) \in Nat
          /\ \A i \in 1 .. Len(u) : a[i] = u[i]
          /\ a[Len(u) + 1] = e
        BY AppendProperties
    <1>2. f \in Seq(Logged) /\ Len(f) = Len(u)
        <2>1. \A i \in 1 .. Len(u) : [entry |-> u[i], colors |-> c] \in Logged
            BY DEF Logged
        <2>2. f = [i \in 1 .. Len(u) |-> [entry |-> u[i], colors |-> c]]
            BY DEF InColors
        <2> QED BY <1>1, <2>1, <2>2
    <1>3. x \in Logged
        BY DEF Logged
    <1> HIDE DEF a
    <1>4. InColors(a, c) = [i \in 1 .. Len(u) + 1 |-> [entry |-> a[i], colors |-> c]]
        BY <1>1 DEF InColors
    <1>5. Append(f, x) = [i \in 1 .. Len(u) + 1 |-> IF i = Len(u) + 1 THEN x ELSE f[i]]
        <2> HIDE DEF f, x
        <2> QED BY <1>1, <1>2, <1>3, AppendIs
    <1>6. ASSUME NEW i \in 1 .. Len(u) + 1
          PROVE  [entry |-> a[i], colors |-> c] = IF i = Len(u) + 1 THEN x ELSE f[i]
        <2>1. CASE i = Len(u) + 1
            BY <1>1, <2>1
        <2>2. CASE i # Len(u) + 1
            <3>1. i \in 1 .. Len(u)
                BY <1>1, <2>2
            <3>2. f[i] = [entry |-> u[i], colors |-> c]
                BY <3>1 DEF InColors
            <3> QED BY <1>1, <2>2, <3>1, <3>2
        <2> QED BY <2>1, <2>2
    <1> HIDE DEF f, x
    <1>7. InColors(a, c) = Append(f, x)
        BY <1>4, <1>5, <1>6
    <1> QED BY <1>7 DEF a, f, x

LEMMA InColorsFirst ==
    ASSUME NEW u \in Seq(EntryType), NEW e \in EntryType, NEW c \in BOOLEAN
    PROVE  /\ InColors(<<e>> \o u, c) # << >>
           /\ Head(InColors(<<e>> \o u, c)) = [entry |-> e, colors |-> c]
           /\ Tail(InColors(<<e>> \o u, c)) = InColors(u, c)
    <1> DEFINE a == <<e>> \o u
               f == InColors(a, c)
    <1>1. /\ a \in Seq(EntryType) /\ Len(a) = Len(u) + 1 /\ Len(u) \in Nat
          /\ a[1] = e /\ \A i \in 1 .. Len(u) : a[i + 1] = u[i]
        OBVIOUS
    <1> HIDE DEF a
    <1>2. f = [i \in 1 .. Len(u) + 1 |-> [entry |-> a[i], colors |-> c]]
        BY <1>1 DEF InColors
    <1>3. f \in Seq(Logged) /\ Len(f) = Len(u) + 1
        <2>1. \A i \in 1 .. Len(u) + 1 : [entry |-> a[i], colors |-> c] \in Logged
            BY <1>1 DEF Logged
        <2> QED BY <1>1, <1>2, <2>1
    <1>4. f # << >> /\ Head(f) = [entry |-> e, colors |-> c]
        BY <1>1, <1>2, <1>3
    <1>5. Tail(f) = [i \in 1 .. Len(u) |-> f[i + 1]]
        <2> HIDE DEF f
        <2> QED BY <1>1, <1>3, TailIs
    <1>6. InColors(u, c) = [i \in 1 .. Len(u) |-> [entry |-> u[i], colors |-> c]]
        BY DEF InColors
    <1>7. ASSUME NEW i \in 1 .. Len(u) PROVE f[i + 1] = [entry |-> u[i], colors |-> c]
        BY <1>1, <1>2, i + 1 \in 1 .. Len(u) + 1
    <1>8. Tail(f) = InColors(u, c)
        BY <1>5, <1>6, <1>7
    <1> QED BY <1>4, <1>8 DEF a

Waiting == InColors(Unshown, colors)

\* What Unshown is, before a step and after it.
LEMMA UnshownNow ==
    /\ Unshown = (IF worker = "print" THEN <<cur>> ELSE << >>) \o Coming(Ring)
    /\ Unshown' = (IF worker' = "print" THEN <<cur'>> ELSE << >>) \o Coming(Ring')
    BY DEF Unshown, InRing, Coming

LEMMA ComingTyped ==
    ASSUME NEW s \in Seq(EntryType)
    PROVE  Coming(s) \in Seq(EntryType) /\ << >> \o Coming(s) = Coming(s)
    <1>1. Coming(s) \in Seq(EntryType)
        BY FrontIs DEF Coming
    <1> QED BY <1>1, ConcatEmptySeq

\* Steps that neither print, nor add, nor change the settings of what waits.
LEMMA NoChange ==
    ASSUME UNCHANGED <<running, colors, console>>, Unshown' = Unshown
    PROVE  UNCHANGED Abstract!vars
    BY DEF Abstract!vars

LEMMA Unseen ==
    ASSUME LInv, UNCHANGED <<ring, running, colors, console, worker, cur>>
    PROVE  UNCHANGED Abstract!vars
    <1>1. Ring' = Ring
        BY TypedRing, RingKept DEF LInv
    <1>2. Unshown' = Unshown
        BY <1>1, UnshownNow
    <1> QED BY <1>2, NoChange

LEMMA AddAccepts ==
    ASSUME LInv, NEW a \in Adders, Add(a)
    PROVE  [Abstract!Next]_Abstract!vars
    <1> DEFINE e == Entry(<<a, added'[a]>>)
    <1>1. UNCHANGED <<running, colors, console, worker, cur>> /\ RingOK
        BY TypedRing DEF Add, LInv, sink
    <1>2. CASE ~running /\ UNCHANGED ring
        BY <1>1, <1>2, Unseen
    <1>3. CASE running /\ Put(e)
        <2>1. Ring \in Seq(EntryType) /\ Clean(Ring)
            BY <1>1, <1>3, RingNow DEF LInv, PauseInv
        <2>2. e \in EntryType /\ ~e.is_end
            BY AddedEntry DEF LInv
        <2> HIDE DEF e
        <2>3. Ring' = Append(Ring, e)
            BY <1>1, <1>3, <2>2, PutAppends
        <2>4. Coming(Ring) = Ring /\ Coming(Append(Ring, e)) = Append(Ring, e)
            <3>1. Clean(Append(Ring, e)) /\ Append(Ring, e) \in Seq(EntryType)
                BY <2>1, <2>2, CleanAppend, AppendProperties
            <3> QED BY <2>1, <3>1, CleanComing
        <2>5. Unshown \in Seq(EntryType) /\ Unshown' = Append(Unshown, e)
            <3> DEFINE p == IF worker = "print" THEN <<cur>> ELSE << >>
            <3>1. p \in Seq(EntryType)
                BY DEF LInv, TypeOK
            <3>2. Unshown = p \o Ring /\ Unshown' = p \o Append(Ring, e)
                BY <1>1, <2>3, <2>4, UnshownNow
            <3> HIDE DEF p
            <3>3. p \o Ring \in Seq(EntryType) /\ p \o Append(Ring, e) = Append(p \o Ring, e)
                <4>1. /\ Append(Ring, e) = Ring \o <<e>> /\ <<e>> \in Seq(EntryType)
                      /\ p \o Ring \in Seq(EntryType)
                    BY <2>1, <2>2, <3>1, AppendIsConcat, ConcatProperties
                <4>2. Append(p \o Ring, e) = (p \o Ring) \o <<e>>
                    BY <2>2, <4>1, AppendIsConcat
                <4> QED BY <2>1, <3>1, <4>1, <4>2, ConcatAssociative
            <3> QED BY <3>2, <3>3
        <2>6. colors \in BOOLEAN
            BY DEF LInv, TypeOK
        <2>7. Waiting' = Append(Waiting, [entry |-> e, colors |-> colors])
            BY <1>1, <2>2, <2>5, <2>6, InColorsAppend DEF Waiting
        <2>8. PICK x \in [entry : EntryType, colors : BOOLEAN] : x = [entry |-> e, colors |-> colors]
            BY <2>2, <2>6
        <2>9. Abstract!Accept(x)
            <3>1. [i \in DOMAIN Unshown |-> [entry |-> Unshown[i], colors |-> colors]]'
                      = Append([i \in DOMAIN Unshown |-> [entry |-> Unshown[i], colors |-> colors]], x)
                BY <2>7, <2>8 DEF Waiting, InColors
            <3>2. running /\ running' = running /\ console' = console
                BY <1>1, <1>3
            <3> QED BY <3>1, <3>2 DEF Abstract!Accept
        <2> QED BY <2>9 DEF Abstract!Next
    <1> QED BY <1>2, <1>3 DEF Add, ring

LEMMA TakeHides ==
    ASSUME LInv, Take
    PROVE  [Abstract!Next]_Abstract!vars
    <1>1. /\ UNCHANGED <<running, colors, console>> /\ RingOK
          /\ worker = "wait" /\ worker \in Active
          /\ worker' = IF cur'.is_end THEN "exited" ELSE "print"
        BY TypedRing DEF Take, LInv, Active, sink
    <1>2. /\ Ring \in Seq(EntryType) /\ Ring # << >> /\ (Clean(Ring) \/ Ended(Ring))
          /\ cur' = Head(Ring) /\ Ring' = Tail(Ring) /\ Tail(Ring) \in Seq(EntryType)
        BY <1>1, RingNow, TakesHead, RingWhileActive, HeadTailProperties
    <1>3. /\ ~Head(Ring).is_end => Coming(Ring) = <<Head(Ring)>> \o Coming(Tail(Ring))
          /\ Head(Ring).is_end => Tail(Ring) = << >> /\ Coming(Ring) = << >>
        BY <1>2, FirstTaken
    <1>4. Unshown = Coming(Ring)
        BY <1>1, <1>2, UnshownNow, ComingTyped
    <1>5. Unshown' = Unshown
        <2>1. CASE Head(Ring).is_end
            <3>1. Ring' = << >> /\ Coming(Ring) = << >> /\ worker' # "print"
                BY <1>1, <1>2, <1>3, <2>1
            <3>2. Coming(Ring') = << >>
                BY <3>1 DEF Coming
            <3>3. Unshown' = << >> \o Coming(Ring')
                BY <3>1, UnshownNow
            <3> QED BY <1>4, <3>1, <3>2, <3>3
        <2>2. CASE ~Head(Ring).is_end
            <3>1. Unshown' = <<Head(Ring)>> \o Coming(Tail(Ring))
                BY <1>1, <1>2, <2>2, UnshownNow
            <3> QED BY <1>3, <1>4, <2>2, <3>1
        <2> QED BY <2>1, <2>2
    <1> QED BY <1>1, <1>5, NoChange

LEMMA PrintShows ==
    ASSUME LInv, PrintConsole
    PROVE  [Abstract!Next]_Abstract!vars
    <1>1. /\ UNCHANGED <<ring, running, colors, cur>> /\ worker = "print" /\ worker' # "print"
          /\ cur \in EntryType /\ colors \in BOOLEAN
          /\ console' = IF cur.msg \in Quiet THEN console
                        ELSE Append(console, [entry |-> cur, colors |-> colors])
        BY DEF PrintConsole, sink, LInv, TypeOK
    <1>2. Ring' = Ring /\ Ring \in Seq(EntryType)
        BY <1>1, TypedRing, RingKept, RingNow DEF LInv
    <1>3. /\ Unshown = <<cur>> \o Coming(Ring) /\ Unshown' = Coming(Ring)
          /\ Coming(Ring) \in Seq(EntryType)
        BY <1>1, <1>2, UnshownNow, ComingTyped
    <1>4. /\ Waiting # << >> /\ Head(Waiting) = [entry |-> cur, colors |-> colors]
          /\ Waiting' = Tail(Waiting)
        BY <1>1, <1>3, InColorsFirst DEF Waiting
    <1>5. /\ [entry |-> cur, colors |-> colors]
                 \in [entry : {e \in EntryType : e.msg \in Quiet}, colors : BOOLEAN]
                 <=> cur.msg \in Quiet
        BY <1>1
    <1>6. Abstract!Show
        BY <1>1, <1>4, <1>5 DEF Abstract!Show, Waiting, InColors
    <1> QED BY <1>6 DEF Abstract!Next

LEMMA FilePrintHides ==
    ASSUME LInv, PrintFile
    PROVE  [Abstract!Next]_Abstract!vars
    <1>1. UNCHANGED <<ring, running, colors, console, cur>> /\ worker = "file" /\ worker' = "wait"
        BY DEF PrintFile, sink
    <1>2. Ring' = Ring
        BY <1>1, TypedRing, RingKept DEF LInv
    <1>3. Unshown' = Unshown
        BY <1>1, <1>2, UnshownNow
    <1> QED BY <1>1, <1>3, NoChange

LEMMA CallStops ==
    ASSUME LInv, Careful, NEW c \in ControlCalls, Call(c)
    PROVE  [Abstract!Next]_Abstract!vars
    <1>1. RingOK /\ UNCHANGED <<worker, cur, colors, console>>
        BY TypedRing DEF LInv, Call, sink
    <1>2. CASE UNCHANGED <<ring, running>>
        BY <1>1, <1>2, Unseen
    <1>3. CASE running /\ Following(tail) # head /\ running' = FALSE /\ PushEnd
        <2>1. Clean(Ring) /\ Ring \in Seq(EntryType)
            BY <1>1, <1>3, RingNow DEF LInv, PauseInv
        <2>2. PICK e \in EntryType : e.is_end /\ Ring' = Append(Ring, e)
            BY <1>1, <1>3, PushAppends
        <2>3. Coming(Append(Ring, e)) = Ring /\ Coming(Ring) = Ring
            BY <2>1, <2>2, EndPushed, CleanComing
        <2>4. Coming(Ring') = Coming(Ring)
            BY <2>2, <2>3
        <2>5. Unshown' = Unshown
            BY <1>1, <2>4, UnshownNow
        <2>6. Abstract!Stop
            BY <1>1, <1>3, <2>5 DEF Abstract!Stop
        <2> QED BY <2>6 DEF Abstract!Next
    <1> QED BY <1>2, <1>3 DEF Call

LEMMA JoinHides ==
    ASSUME LInv, Join
    PROVE  [Abstract!Next]_Abstract!vars
    <1>1. UNCHANGED <<ring, running, colors, console, cur>> /\ worker = "exited" /\ worker' = "none"
        BY DEF Join, sink
    <1>2. Ring' = Ring
        BY <1>1, TypedRing, RingKept DEF LInv
    <1>3. Unshown' = Unshown
        BY <1>1, <1>2, UnshownNow
    <1> QED BY <1>1, <1>3, NoChange

LEMMA FinishStarts ==
    ASSUME LInv, Finish
    PROVE  [Abstract!Next]_Abstract!vars
    <1>1. /\ UNCHANGED <<ring, cur, console>> /\ control = "set" /\ RingOK
          /\ UNCHANGED <<running, worker>> \/ (~running /\ running' = TRUE /\ worker' = "wait")
          /\ call # "set_colors" => colors' = colors
        BY TypedRing DEF Finish, Restart, LInv
    <1>2. CASE running
        <2>1. call = "resume"
            BY <1>1, <1>2 DEF LInv, PauseInv
        <2>2. UNCHANGED <<running, worker, colors>>
            BY <1>1, <1>2, <2>1
        <2> QED BY <1>1, <2>2, Unseen
    <1>3. CASE ~running
        <2>1. worker = "none" /\ Ring = << >>
            BY <1>1, <1>3 DEF LInv, PauseInv
        <2>2. Ring' = << >> /\ worker' # "print"
            BY <1>1, <2>1, RingKept
        <2>3. Unshown = << >> /\ Unshown' = << >>
            <3>1. Coming(Ring) = << >> /\ Coming(Ring') = << >>
                BY <2>1, <2>2 DEF Coming
            <3>2. << >> \o << >> = << >>
                OBVIOUS
            <3> QED BY <2>1, <2>2, <3>1, <3>2, UnshownNow
        <2>4. Waiting = << >> /\ Waiting' = << >>
            BY <2>3 DEF Waiting, InColors
        <2>5. CASE running' = running
            BY <1>1, <2>4, <2>5 DEF Abstract!vars, Waiting, InColors
        <2>6. CASE running' = TRUE
            <3>1. Abstract!Start
                BY <1>1, <1>3, <2>4, <2>6 DEF Abstract!Start, Waiting, InColors
            <3> QED BY <3>1 DEF Abstract!Next
        <2> QED BY <1>1, <2>5, <2>6
    <1> QED BY <1>2, <1>3

LEMMA InitIsInit == Init => Abstract!Init
    <1> SUFFICES ASSUME Init PROVE Abstract!Init
        OBVIOUS
    <1>1. Ring = << >>
        BY InitTypes, TypedRing, RingNow DEF Init
    <1>2. Coming(Ring) = << >>
        BY <1>1 DEF Coming
    <1>3. Unshown = << >>
        BY <1>2, UnshownNow DEF Init
    <1>4. Waiting = << >>
        BY <1>3 DEF Waiting, InColors
    <1> QED BY <1>4 DEF Init, Abstract!Init, Waiting, InColors

LEMMA StepIsStep ==
    ASSUME Careful, LInv, [Next]_vars
    PROVE  [Abstract!Next]_Abstract!vars
    <1>1. CASE SetPrefix \/ UNCHANGED vars
        <2>1. UNCHANGED <<ring, running, colors, console, worker, cur>>
            BY <1>1 DEF SetPrefix, vars, ring, sink
        <2> QED BY <2>1, Unseen
    <1>2. CASE Worker
        BY <1>2, TakeHides, PrintShows, FilePrintHides DEF Worker
    <1> QED BY <1>1, <1>2, AddAccepts, CallStops, JoinHides, FinishStarts DEF Next, Idle

-----------------------------------------------------------------------------
(* What was logged, and what came of it                                    *)

Sent == [entry : EntryType, file : Nat, colors : BOOLEAN]

LEMMA ListsAgree ==
    ASSUME NEW out, NEW is, NEW f, NEW g, Lists(out, is, f), \A i \in is : f[i] = g[i]
    PROVE  Lists(out, is, g)
    BY DEF Lists

LEMMA ListsNothing ==
    ASSUME NEW f
    PROVE  Lists(<< >>, {}, f)
    BY FS_EmptySet DEF Lists

\* What is appended is listed under the next index.
LEMMA ListsMore ==
    ASSUME NEW S, NEW out \in Seq(S), NEW x \in S, NEW n \in Nat, NEW is \in SUBSET (1 .. n),
           NEW f, Lists(out, is, f), f[n + 1] = x
    PROVE  Lists(Append(out, x), is \cup {n + 1}, f)
    <1> DEFINE more == is \cup {n + 1}
    <1>1. IsFiniteSet(is) /\ Cardinality(is) \in Nat
        <2>1. IsFiniteSet(1 .. n)
            BY FS_Interval
        <2> QED BY <2>1, FS_Subset, FS_CardinalityType
    <1>2. n + 1 \notin is /\ Cardinality(more) = Cardinality(is) + 1
        <2>1. n + 1 \notin is
            OBVIOUS
        <2> QED BY <1>1, <2>1, FS_AddElement
    <1>3. /\ Len(out) = Cardinality(is) /\ Len(Append(out, x)) = Len(out) + 1
          /\ \A c \in 1 .. Len(out) : Append(out, x)[c] = out[c]
          /\ Append(out, x)[Len(out) + 1] = x
        BY AppendProperties DEF Lists
    <1>4. ASSUME NEW i \in is
          PROVE  Append(out, x)[Cardinality({k \in more : k <= i})] = f[i]
        <2> DEFINE upto == {k \in is : k <= i}
        <2>1. {k \in more : k <= i} = upto
            OBVIOUS
        <2>2. Cardinality(upto) \in 1 .. Len(out)
            <3>1. IsFiniteSet(upto) /\ Cardinality(upto) <= Cardinality(is)
                BY <1>1, FS_Subset
            <3>2. i \in upto
                OBVIOUS
            <3>3. Cardinality(upto) # 0 /\ Cardinality(upto) \in Nat
                BY <3>1, <3>2, FS_EmptySet, FS_CardinalityType
            <3> QED BY <1>1, <1>3, <3>1, <3>3
        <2>3. out[Cardinality(upto)] = f[i]
            BY DEF Lists
        <2> HIDE DEF upto
        <2> QED BY <1>3, <2>1, <2>2, <2>3
    <1>5. {k \in more : k <= n + 1} = more
        <2>1. \A k \in more : k <= n + 1
            OBVIOUS
        <2> QED BY <2>1
    <1>6. ASSUME NEW i \in more
          PROVE  Append(out, x)[Cardinality({k \in more : k <= i})] = f[i]
        <2>1. CASE i \in is
            BY <1>4, <2>1
        <2>2. CASE i = n + 1
            BY <1>2, <1>3, <1>5, <2>2
        <2> QED BY <2>1, <2>2
    <1> QED BY <1>2, <1>3, <1>6 DEF Lists

\* The latest one more, and the latest but one less.
LEMMA LatestAppend ==
    ASSUME NEW u \in Seq(EntryType), NEW s \in Seq(Sent), NEW x \in Sent, AreLatest(u, s)
    PROVE  /\ AreLatest(Append(u, x.entry), Append(s, x))
           /\ Len(Append(s, x)) - Len(Append(u, x.entry)) = Len(s) - Len(u)
    <1> DEFINE v == Append(u, x.entry)
               t == Append(s, x)
    <1>1. x.entry \in EntryType
        BY DEF Sent
    <1>2. /\ v \in Seq(EntryType) /\ Len(v) = Len(u) + 1 /\ Len(u) \in Nat
          /\ \A i \in 1 .. Len(u) : v[i] = u[i]
          /\ v[Len(u) + 1] = x.entry
        BY <1>1, AppendProperties
    <1>3. /\ t \in Seq(Sent) /\ Len(t) = Len(s) + 1 /\ Len(s) \in Nat
          /\ \A i \in 1 .. Len(s) : t[i] = s[i]
          /\ t[Len(s) + 1] = x
        BY AppendProperties
    <1>4. Len(u) <= Len(s) /\ \A i \in 1 .. Len(u) : u[i] = s[Len(s) - Len(u) + i].entry
        BY DEF AreLatest
    <1> HIDE DEF v, t
    <1>5. ASSUME NEW i \in 1 .. Len(u) + 1
          PROVE  v[i] = t[Len(t) - Len(v) + i].entry
        <2>1. Len(t) - Len(v) + i = Len(s) - Len(u) + i
            BY <1>2, <1>3
        <2>2. CASE i = Len(u) + 1
            <3>1. Len(s) - Len(u) + i = Len(s) + 1
                BY <1>2, <1>3, <2>2
            <3> QED BY <1>2, <1>3, <2>1, <2>2, <3>1
        <2>3. CASE i \in 1 .. Len(u)
            <3>1. Len(s) - Len(u) + i \in 1 .. Len(s)
                BY <1>2, <1>3, <1>4, <2>3
            <3> QED BY <1>2, <1>3, <1>4, <2>1, <2>3, <3>1, ZenonT(60)
        <2> QED BY <1>2, <2>2, <2>3
    <1>6. DOMAIN v = 1 .. Len(u) + 1 /\ Len(v) <= Len(t) /\ Len(t) - Len(v) = Len(s) - Len(u)
        BY <1>2, <1>3, <1>4
    <1>7. AreLatest(v, t)
        BY <1>5, <1>6 DEF AreLatest
    <1> QED BY <1>6, <1>7 DEF v, t

LEMMA LatestGone ==
    ASSUME NEW e \in EntryType, NEW v \in Seq(EntryType), NEW s \in Seq(Sent),
           AreLatest(<<e>> \o v, s)
    PROVE  /\ AreLatest(v, s) /\ Len(<<e>> \o v) = Len(v) + 1
           /\ Len(s) - Len(<<e>> \o v) \in Nat
           /\ Len(s) - Len(v) = (Len(s) - Len(<<e>> \o v)) + 1
           /\ Len(s) - Len(v) \in 1 .. Len(s) /\ s[Len(s) - Len(v)].entry = e
    <1> DEFINE u == <<e>> \o v
    <1>1. /\ u \in Seq(EntryType) /\ Len(u) = Len(v) + 1 /\ Len(v) \in Nat /\ Len(s) \in Nat
          /\ u[1] = e /\ \A i \in 1 .. Len(v) : u[i + 1] = v[i]
        OBVIOUS
    <1>2. Len(u) <= Len(s) /\ \A i \in DOMAIN u : u[i] = s[Len(s) - Len(u) + i].entry
        BY DEF AreLatest
    <1> HIDE DEF u
    <1>3. DOMAIN u = 1 .. Len(v) + 1 /\ DOMAIN v = 1 .. Len(v)
        BY <1>1
    <1>4. ASSUME NEW i \in 1 .. Len(v) PROVE v[i] = s[Len(s) - Len(v) + i].entry
        <2>1. i + 1 \in DOMAIN u /\ Len(s) - Len(u) + (i + 1) = Len(s) - Len(v) + i
            BY <1>1, <1>3
        <2> QED BY <1>1, <1>2, <2>1
    <1>5. s[Len(s) - Len(v)].entry = e
        <2>1. 1 \in DOMAIN u /\ Len(s) - Len(u) + 1 = Len(s) - Len(v)
            BY <1>1, <1>3
        <2> QED BY <1>1, <1>2, <2>1
    <1>6. Len(v) <= Len(s) /\ Len(s) - Len(u) \in Nat
          /\ Len(s) - Len(v) = Len(s) - Len(u) + 1 /\ Len(s) - Len(v) \in 1 .. Len(s)
        BY <1>1, <1>2
    <1>7. AreLatest(v, s)
        BY <1>3, <1>4, <1>6 DEF AreLatest
    <1> QED BY <1>1, <1>5, <1>6, <1>7 DEF u

-----------------------------------------------------------------------------
(* What is still to be shown or to be written                              *)

Pending(P) == (IF worker \in P THEN <<cur>> ELSE << >>) \o Coming(Ring)

LEMMA PendingIs ==
    /\ Unshown = Pending({"print"}) /\ Unwritten = Pending({"print", "file"})
    /\ Unshown' = Pending({"print"})' /\ Unwritten' = Pending({"print", "file"})'
    BY DEF Unshown, Unwritten, InRing, Coming, Pending

LEMMA PendingTyped ==
    ASSUME LInv, NEW P
    PROVE  Pending(P) \in Seq(EntryType)
    <1>1. Ring \in Seq(EntryType) /\ cur \in EntryType
        BY TypedRing, RingNow DEF LInv, TypeOK
    <1>2. Coming(Ring) \in Seq(EntryType)
        BY <1>1, ComingTyped
    <1>3. (IF worker \in P THEN <<cur>> ELSE << >>) \in Seq(EntryType)
        BY <1>1
    <1> QED BY <1>2, <1>3, ConcatProperties DEF Pending

LEMMA PendingKept ==
    ASSUME LInv, NEW P, UNCHANGED <<ring, worker, cur>>
    PROVE  Pending(P)' = Pending(P)
    <1>1. Ring' = Ring
        BY TypedRing, RingKept DEF LInv
    <1> QED BY <1>1 DEF Pending

LEMMA AddPending ==
    ASSUME LInv, NEW a \in Adders, Add(a), NEW P
    PROVE  \/ Pending(P)' = Pending(P) /\ sent' = sent
           \/ /\ Pending(P)' = Append(Pending(P), Entry(<<a, added'[a]>>))
              /\ sent' = Append(sent, [entry |-> Entry(<<a, added'[a]>>), file |-> file,
                                       colors |-> colors])
    <1> DEFINE e == Entry(<<a, added'[a]>>)
    <1>1. UNCHANGED <<worker, cur>> /\ RingOK
        BY TypedRing DEF Add, LInv
    <1>2. CASE ~running /\ UNCHANGED <<ring, sent>>
        BY <1>1, <1>2, PendingKept
    <1>3. CASE /\ running /\ Put(e)
               /\ sent' = Append(sent, [entry |-> e, file |-> file, colors |-> colors])
        <2>1. Ring \in Seq(EntryType) /\ Clean(Ring)
            BY <1>1, <1>3, RingNow DEF LInv, PauseInv
        <2>2. e \in EntryType /\ ~e.is_end
            BY AddedEntry DEF LInv
        <2> HIDE DEF e
        <2>3. Ring' = Append(Ring, e)
            BY <1>1, <1>3, <2>2, PutAppends
        <2>4. Coming(Ring) = Ring /\ Coming(Append(Ring, e)) = Append(Ring, e)
            <3>1. Clean(Append(Ring, e)) /\ Append(Ring, e) \in Seq(EntryType)
                BY <2>1, <2>2, CleanAppend, AppendProperties
            <3> QED BY <2>1, <3>1, CleanComing
        <2> DEFINE p == IF worker \in P THEN <<cur>> ELSE << >>
        <2>5. p \in Seq(EntryType)
            BY DEF LInv, TypeOK
        <2>6. Pending(P) = p \o Ring /\ Pending(P)' = p \o Append(Ring, e)
            BY <1>1, <2>3, <2>4 DEF Pending
        <2> HIDE DEF p
        <2>7. p \o Append(Ring, e) = Append(p \o Ring, e)
            <3>1. /\ Append(Ring, e) = Ring \o <<e>> /\ <<e>> \in Seq(EntryType)
                  /\ p \o Ring \in Seq(EntryType)
                BY <2>1, <2>2, <2>5, AppendIsConcat, ConcatProperties
            <3>2. Append(p \o Ring, e) = (p \o Ring) \o <<e>>
                BY <2>2, <3>1, AppendIsConcat
            <3> QED BY <2>1, <2>5, <3>1, <3>2, ConcatAssociative
        <2> QED BY <1>3, <2>6, <2>7 DEF e
    <1> QED BY <1>2, <1>3 DEF Add, ring

LEMMA TakePending ==
    ASSUME LInv, Take, NEW P, "print" \in P, "wait" \notin P, "exited" \notin P
    PROVE  Pending(P)' = Pending(P)
    <1>1. /\ RingOK /\ worker = "wait" /\ worker \in Active
          /\ worker' = IF cur'.is_end THEN "exited" ELSE "print"
        BY TypedRing DEF Take, LInv, Active
    <1>2. /\ Ring \in Seq(EntryType) /\ Ring # << >> /\ (Clean(Ring) \/ Ended(Ring))
          /\ cur' = Head(Ring) /\ Ring' = Tail(Ring) /\ Tail(Ring) \in Seq(EntryType)
        BY <1>1, RingNow, TakesHead, RingWhileActive, HeadTailProperties
    <1>3. /\ ~Head(Ring).is_end => Coming(Ring) = <<Head(Ring)>> \o Coming(Tail(Ring))
          /\ Head(Ring).is_end => Tail(Ring) = << >> /\ Coming(Ring) = << >>
        BY <1>2, FirstTaken
    <1>4. Pending(P) = Coming(Ring)
        BY <1>1, <1>2, ComingTyped DEF Pending
    <1>5. CASE Head(Ring).is_end
        <2>1. Ring' = << >> /\ Coming(Ring) = << >> /\ worker' \notin P
            BY <1>1, <1>2, <1>3, <1>5
        <2>2. Coming(Ring') = << >> /\ << >> \o << >> = << >>
            BY <2>1 DEF Coming
        <2>3. Pending(P)' = << >> \o Coming(Ring')
            BY <2>1 DEF Pending, Coming
        <2> QED BY <1>4, <2>1, <2>2, <2>3
    <1>6. CASE ~Head(Ring).is_end
        <2>1. worker' \in P
            BY <1>1, <1>2, <1>6
        <2>2. Pending(P)' = <<Head(Ring)>> \o Coming(Tail(Ring))
            BY <1>2, <2>1 DEF Pending, Coming
        <2> QED BY <1>3, <1>4, <1>6, <2>2
    <1> QED BY <1>5, <1>6

\* The worker goes on with the entry it has, or is done with it.
LEMMA PrintPending ==
    ASSUME LInv, PrintConsole \/ PrintFile, NEW P
    PROVE  /\ (worker \in P <=> worker' \in P) => Pending(P)' = Pending(P)
           /\ worker \in P /\ worker' \notin P =>
                  Pending(P) = <<cur>> \o Pending(P)' /\ Pending(P)' \in Seq(EntryType)
    <1>1. UNCHANGED <<ring, cur>>
        BY DEF PrintConsole, PrintFile
    <1>2. Ring' = Ring /\ Ring \in Seq(EntryType)
        BY <1>1, TypedRing, RingKept, RingNow DEF LInv
    <1>3. /\ Pending(P) = (IF worker \in P THEN <<cur>> ELSE << >>) \o Coming(Ring)
          /\ Pending(P)' = (IF worker' \in P THEN <<cur>> ELSE << >>) \o Coming(Ring)
        BY <1>1, <1>2 DEF Pending, Coming
    <1>4. Coming(Ring) \in Seq(EntryType) /\ << >> \o Coming(Ring) = Coming(Ring)
        BY <1>2, ComingTyped
    <1> QED BY <1>3, <1>4

LEMMA ControlPending ==
    ASSUME LInv, Careful, NEW P \in SUBSET {"print", "file"},
           Join \/ Finish \/ \E c \in ControlCalls : Call(c)
    PROVE  Pending(P)' = Pending(P)
    <1>1. CASE \E c \in ControlCalls : Call(c)
        <2>1. PICK c \in ControlCalls : Call(c)
            BY <1>1
        <2>2. RingOK /\ UNCHANGED <<worker, cur>>
            BY <2>1, TypedRing DEF LInv, Call
        <2>3. CASE UNCHANGED <<ring, running>>
            BY <2>2, <2>3, PendingKept
        <2>4. CASE running /\ Following(tail) # head /\ PushEnd
            <3>1. Clean(Ring) /\ Ring \in Seq(EntryType)
                BY <2>2, <2>4, RingNow DEF LInv, PauseInv
            <3>2. PICK e \in EntryType : e.is_end /\ Ring' = Append(Ring, e)
                BY <2>2, <2>4, PushAppends
            <3>3. Coming(Append(Ring, e)) = Ring /\ Coming(Ring) = Ring
                BY <3>1, <3>2, EndPushed, CleanComing
            <3>4. Coming(Ring') = Coming(Ring)
                BY <3>2, <3>3
            <3> QED BY <2>2, <3>4 DEF Pending, Coming
        <2> QED BY <2>1, <2>3, <2>4 DEF Call
    <1>2. ASSUME UNCHANGED <<ring, cur>>, worker \notin P, worker' \notin P
          PROVE  Pending(P)' = Pending(P)
        <2>1. Ring' = Ring
            BY <1>2, TypedRing, RingKept DEF LInv
        <2> QED BY <1>2, <2>1 DEF Pending, Coming
    <1>3. CASE Join
        <2>1. UNCHANGED <<ring, cur>> /\ worker = "exited" /\ worker' = "none"
            BY <1>3 DEF Join
        <2> QED BY <1>2, <2>1
    <1>4. CASE Finish
        <2>1. /\ UNCHANGED <<ring, cur>> /\ control = "set"
              /\ UNCHANGED <<running, worker>> \/ (~running /\ worker' = "wait")
            BY <1>4 DEF Finish, Restart
        <2>2. CASE UNCHANGED worker
            BY <2>1, <2>2, PendingKept
        <2>3. CASE ~running /\ worker' = "wait"
            <3>1. worker = "none"
                BY <2>1, <2>3 DEF LInv, PauseInv
            <3> QED BY <1>2, <2>1, <2>3, <3>1
        <2> QED BY <2>1, <2>2, <2>3
    <1> QED BY <1>1, <1>3, <1>4

\* When the settings change nothing is pending.
LEMMA FinishPending ==
    ASSUME LInv, Finish, NEW P \in SUBSET {"print", "file"}
    PROVE  UNCHANGED <<file, disk, colors>> \/ Pending(P) = << >>
    <1>1. CASE running
        <2>1. call = "resume"
            BY <1>1 DEF LInv, PauseInv, Finish
        <2> QED BY <2>1 DEF Finish
    <1>2. CASE ~running
        <2>1. worker = "none" /\ Ring = << >>
            BY <1>2 DEF LInv, PauseInv, Finish
        <2>2. Coming(Ring) = << >> /\ << >> \o << >> = << >>
            BY <2>1 DEF Coming
        <2> QED BY <2>1, <2>2 DEF Pending
    <1> QED BY <1>1, <1>2

-----------------------------------------------------------------------------
(* The console and the files                                               *)

Shown(n, s)     == {i \in 1 .. n : s[i].entry.msg \notin Quiet}
Own(f, n, s)    == {i \in 1 .. n : s[i].file = f}
ForConsole(s)   == [i \in DOMAIN s |-> Displayed(s[i])]
ForFile(s)      == [i \in DOMAIN s |-> s[i].entry]

\* What is pending was accepted under the present settings.
HistoryInv ==
    /\ ConsoleInOrder /\ FilesComplete
    /\ \A i \in 1 .. Len(sent) : i > Len(sent) - Len(Unshown) => sent[i].colors = colors
    /\ \A i \in 1 .. Len(sent) : sent[i].file <= Len(disk)

LEMMA HistoryIs ==
    HistoryInv <=>
        /\ AreLatest(Unshown, sent) /\ AreLatest(Unwritten, sent)
        /\ Lists(console, Shown(Len(sent) - Len(Unshown), sent), ForConsole(sent))
        /\ \A i \in DOMAIN sent \ (1 .. Len(sent) - Len(Unwritten)) : sent[i].file = file
        /\ \A f \in DOMAIN disk :
               Lists(disk[f], Own(f, Len(sent) - Len(Unwritten), sent), ForFile(sent))
        /\ \A i \in 1 .. Len(sent) : i > Len(sent) - Len(Unshown) => sent[i].colors = colors
        /\ \A i \in 1 .. Len(sent) : sent[i].file <= Len(disk)
    BY DEF HistoryInv, ConsoleInOrder, FilesComplete, Shown, Own, ForConsole, ForFile

LEMMA HistoryThen ==
    ASSUME /\ AreLatest(Unshown', sent') /\ AreLatest(Unwritten', sent')
           /\ Lists(console', Shown(Len(sent') - Len(Unshown'), sent'), ForConsole(sent'))
           /\ \A i \in DOMAIN sent' \ (1 .. Len(sent') - Len(Unwritten')) : sent'[i].file = file'
           /\ \A f \in DOMAIN disk' :
                  Lists(disk'[f], Own(f, Len(sent') - Len(Unwritten'), sent'), ForFile(sent'))
           /\ \A i \in 1 .. Len(sent') : i > Len(sent') - Len(Unshown') => sent'[i].colors = colors'
           /\ \A i \in 1 .. Len(sent') : sent'[i].file <= Len(disk')
    PROVE  HistoryInv'
    <1>1. ConsoleInOrder'
        BY DEF ConsoleInOrder, Shown, ForConsole, AreLatest, Lists, Displayed
    <1>2. FilesComplete'
        BY DEF FilesComplete, Own, ForFile, AreLatest, Lists
    <1> QED BY <1>1, <1>2 DEF HistoryInv

\* What was already listed stays listed when more is accepted.
LEMMA ListsLonger ==
    ASSUME NEW s \in Seq(Sent), NEW x \in Sent, NEW n \in Nat, n <= Len(s)
    PROVE  /\ \A out : Lists(out, Shown(n, s), ForConsole(s))
                          => Lists(out, Shown(n, Append(s, x)), ForConsole(Append(s, x)))
           /\ \A out, f : Lists(out, Own(f, n, s), ForFile(s))
                             => Lists(out, Own(f, n, Append(s, x)), ForFile(Append(s, x)))
    <1> DEFINE t == Append(s, x)
    <1>1. /\ Len(s) \in Nat /\ Len(t) = Len(s) + 1 /\ DOMAIN t = 1 .. Len(s) + 1
          /\ DOMAIN s = 1 .. Len(s)
          /\ \A i \in 1 .. Len(s) : t[i] = s[i]
        BY AppendProperties
    <1> HIDE DEF t
    <1>2. \A i \in 1 .. n : i \in 1 .. Len(s) /\ i \in DOMAIN s /\ i \in DOMAIN t /\ t[i] = s[i]
        BY <1>1
    <1>3. /\ Shown(n, t) = Shown(n, s) /\ \A f : Own(f, n, t) = Own(f, n, s)
        BY <1>2 DEF Shown, Own
    <1>4. /\ \A i \in Shown(n, s) : ForConsole(s)[i] = ForConsole(t)[i]
          /\ \A f : \A i \in Own(f, n, s) : ForFile(s)[i] = ForFile(t)[i]
        BY <1>2 DEF Shown, Own, ForConsole, ForFile
    <1>5. ASSUME NEW out, Lists(out, Shown(n, s), ForConsole(s))
          PROVE  Lists(out, Shown(n, t), ForConsole(t))
        BY <1>3, <1>4, <1>5, ListsAgree
    <1>6. ASSUME NEW out, NEW f, Lists(out, Own(f, n, s), ForFile(s))
          PROVE  Lists(out, Own(f, n, t), ForFile(t))
        BY <1>3, <1>4, <1>6, ListsAgree
    <1> QED BY <1>5, <1>6 DEF t

\* Both counts are within what was accepted.
LEMMA Counted ==
    ASSUME LInv, HistoryInv
    PROVE  /\ sent \in Seq(Sent) /\ Unshown \in Seq(EntryType) /\ Unwritten \in Seq(EntryType)
           /\ Len(sent) \in Nat /\ Len(Unshown) \in Nat /\ Len(Unwritten) \in Nat
           /\ Len(sent) - Len(Unshown) \in Nat /\ Len(sent) - Len(Unwritten) \in Nat
           /\ DOMAIN sent = 1 .. Len(sent)
           /\ AreLatest(Unshown, sent) /\ AreLatest(Unwritten, sent)
    <1>1. sent \in Seq(Sent) /\ Unshown \in Seq(EntryType) /\ Unwritten \in Seq(EntryType)
        BY PendingTyped, PendingIs DEF LInv, TypeOK, Sent
    <1>2. AreLatest(Unshown, sent) /\ AreLatest(Unwritten, sent)
        BY HistoryIs
    <1>3. Len(sent) \in Nat /\ Len(Unshown) \in Nat /\ Len(Unwritten) \in Nat
        BY <1>1
    <1>4. Len(Unshown) <= Len(sent) /\ Len(Unwritten) <= Len(sent)
        BY <1>2 DEF AreLatest
    <1> QED BY <1>1, <1>2, <1>3, <1>4

\* Nothing is added and nothing is printed.
LEMMA HistoryKept ==
    ASSUME LInv, HistoryInv, UNCHANGED <<sent, console, disk, file, colors>>,
           Unshown' = Unshown, Unwritten' = Unwritten
    PROVE  HistoryInv'
    BY HistoryIs, HistoryThen

LEMMA AddHistory ==
    ASSUME LInv, HistoryInv, NEW a \in Adders, Add(a)
    PROVE  HistoryInv'
    <1> DEFINE e == Entry(<<a, added'[a]>>)
               x == [entry |-> e, file |-> file, colors |-> colors]
               n == Len(sent) - Len(Unshown)
               m == Len(sent) - Len(Unwritten)
    <1>1. UNCHANGED <<file, colors, console, disk>>
        BY DEF Add, sink
    <1>2. \/ Unshown' = Unshown /\ Unwritten' = Unwritten /\ sent' = sent
          \/ /\ Unshown' = Append(Unshown, e) /\ Unwritten' = Append(Unwritten, e)
             /\ sent' = Append(sent, x)
        <2>1. \A P \in {{"print"}, {"print", "file"}} :
                  \/ Pending(P)' = Pending(P) /\ sent' = sent
                  \/ Pending(P)' = Append(Pending(P), e) /\ sent' = Append(sent, x)
            BY AddPending
        <2>2. sent \in Seq(Sent)
            BY Counted
        <2>3. sent # Append(sent, x)
            BY <2>2
        <2> HIDE DEF e, x
        <2> QED BY <2>1, <2>3, PendingIs
    <1>3. e \in EntryType /\ file \in Nat /\ colors \in BOOLEAN
        BY AddedEntry DEF LInv, TypeOK
    <1>4. x \in Sent /\ x.entry = e /\ x.file = file /\ x.colors = colors
        BY <1>3 DEF Sent
    <1> HIDE DEF e, x
    <1>5. CASE /\ Unshown' = Append(Unshown, e) /\ Unwritten' = Append(Unwritten, e)
               /\ sent' = Append(sent, x)
        <2>1. /\ AreLatest(Unshown', sent') /\ Len(sent') - Len(Unshown') = n
              /\ AreLatest(Unwritten', sent') /\ Len(sent') - Len(Unwritten') = m
            BY <1>4, <1>5, Counted, LatestAppend
        <2>2. /\ n \in Nat /\ n <= Len(sent) /\ m \in Nat /\ m <= Len(sent) /\ sent \in Seq(Sent)
              /\ Len(sent) \in Nat
            BY Counted
        <2>3. /\ DOMAIN sent' = 1 .. Len(sent) + 1 /\ Len(sent') = Len(sent) + 1
              /\ sent'[Len(sent) + 1] = x /\ \A i \in 1 .. Len(sent) : sent'[i] = sent[i]
            BY <1>4, <1>5, <2>2, AppendProperties
        <2> HIDE DEF n, m
        <2>4. Lists(console', Shown(n, sent'), ForConsole(sent'))
            BY <1>1, <1>4, <1>5, <2>2, HistoryIs, ListsLonger DEF n
        <2>5. \A f \in DOMAIN disk' : Lists(disk'[f], Own(f, m, sent'), ForFile(sent'))
            BY <1>1, <1>4, <1>5, <2>2, HistoryIs, ListsLonger DEF m
        <2>6. \A i \in DOMAIN sent' \ (1 .. m) : sent'[i].file = file'
            <3>1. ASSUME NEW i \in DOMAIN sent' \ (1 .. m) PROVE sent'[i].file = file
                <4>1. CASE i = Len(sent) + 1
                    BY <1>4, <2>3, <4>1
                <4>2. CASE i # Len(sent) + 1
                    <5>1. i \in DOMAIN sent \ (1 .. m) /\ i \in 1 .. Len(sent)
                        BY <2>2, <2>3, <4>2
                    <5> QED BY <2>3, <5>1, HistoryIs DEF m
                <4> QED BY <4>1, <4>2
            <3> QED BY <1>1, <3>1
        <2>7. \A i \in 1 .. Len(sent') : i > n => sent'[i].colors = colors'
            <3>1. ASSUME NEW i \in 1 .. Len(sent'), i > n PROVE sent'[i].colors = colors
                <4>1. CASE i = Len(sent) + 1
                    BY <1>4, <2>3, <4>1
                <4>2. CASE i # Len(sent) + 1
                    <5>1. i \in 1 .. Len(sent)
                        BY <2>2, <2>3, <4>2
                    <5> QED BY <2>3, <3>1, <5>1, HistoryIs DEF n
                <4> QED BY <4>1, <4>2
            <3> QED BY <1>1, <3>1
        <2>8. \A i \in 1 .. Len(sent') : sent'[i].file <= Len(disk')
            <3>1. ASSUME NEW i \in 1 .. Len(sent') PROVE sent'[i].file <= Len(disk)
                <4>1. CASE i = Len(sent) + 1
                    BY <1>4, <2>3, <4>1 DEF LInv, TypeOK
                <4>2. CASE i # Len(sent) + 1
                    <5>1. i \in 1 .. Len(sent)
                        BY <2>2, <2>3, <4>2
                    <5> QED BY <2>3, <5>1, HistoryIs
                <4> QED BY <4>1, <4>2
            <3> QED BY <1>1, <3>1
        <2> QED BY <2>1, <2>4, <2>5, <2>6, <2>7, <2>8, HistoryThen
    <1> QED BY <1>1, <1>2, <1>5, HistoryKept

LEMMA TakeHistory ==
    ASSUME LInv, HistoryInv, Take
    PROVE  HistoryInv'
    <1>1. Unshown' = Unshown /\ Unwritten' = Unwritten
        BY TakePending, PendingIs
    <1> QED BY <1>1, HistoryKept DEF Take, sink

\* One more of the messages is done: what the sets of indices become.
LEMMA OneMore ==
    ASSUME NEW n \in Nat, NEW s
    PROVE  /\ s[n + 1].entry.msg \in Quiet => Shown(n + 1, s) = Shown(n, s)
           /\ s[n + 1].entry.msg \notin Quiet => Shown(n + 1, s) = Shown(n, s) \cup {n + 1}
           /\ \A f : s[n + 1].file # f => Own(f, n + 1, s) = Own(f, n, s)
           /\ \A f : s[n + 1].file = f => Own(f, n + 1, s) = Own(f, n, s) \cup {n + 1}
    <1>1. \A i : i \in 1 .. n + 1 <=> (i = n + 1 \/ i \in 1 .. n)
        OBVIOUS
    <1> QED BY <1>1 DEF Shown, Own

LEMMA PrintConsoleHistory ==
    ASSUME LInv, HistoryInv, PrintConsole
    PROVE  HistoryInv'
    <1> DEFINE n == Len(sent) - Len(Unshown)
               m == Len(sent) - Len(Unwritten)
               x == [entry |-> cur, colors |-> colors]
    <1>1. /\ worker = "print" /\ UNCHANGED <<sent, disk, file, colors>>
          /\ worker' = IF file # 0 THEN "file" ELSE "wait"
          /\ console' = IF cur.msg \in Quiet THEN console ELSE Append(console, x)
          /\ cur \in EntryType /\ console \in Seq(Logged) /\ x \in Logged
        BY DEF PrintConsole, sink, LInv, TypeOK, Logged
    <1>2. /\ Unshown = <<cur>> \o Unshown' /\ Unshown' \in Seq(EntryType)
          /\ file # 0 => Unwritten' = Unwritten
          /\ file = 0 => Unwritten = <<cur>> \o Unwritten' /\ Unwritten' \in Seq(EntryType)
        BY <1>1, PrintPending, PendingIs
    <1>3. /\ sent \in Seq(Sent) /\ n \in Nat /\ m \in Nat /\ Len(sent) \in Nat
          /\ DOMAIN sent = 1 .. Len(sent)
          /\ AreLatest(Unshown, sent) /\ AreLatest(Unwritten, sent)
        BY Counted
    <1>4. /\ AreLatest(Unshown', sent) /\ Len(sent) - Len(Unshown') = n + 1
          /\ n + 1 \in 1 .. Len(sent) /\ sent[n + 1].entry = cur
        BY <1>1, <1>2, <1>3, LatestGone, SMTT(60)
    <1>5. file = 0 => /\ AreLatest(Unwritten', sent) /\ Len(sent) - Len(Unwritten') = m + 1
                      /\ m + 1 \in 1 .. Len(sent)
        <2>1. ASSUME NEW v \in Seq(EntryType), Unwritten = <<cur>> \o v
              PROVE  /\ AreLatest(v, sent) /\ Len(sent) - Len(v) = m + 1
                     /\ m + 1 \in 1 .. Len(sent)
            BY <1>1, <1>3, <2>1, LatestGone
        <2> QED BY <1>2, <2>1
    <1> HIDE DEF n, m
    <1>6. sent[n + 1].colors = colors
        <2>1. n + 1 > n
            BY <1>3
        <2> QED BY <1>4, <2>1, HistoryIs DEF n
    <1>7. ForConsole(sent)[n + 1] = x
        BY <1>3, <1>4, <1>6 DEF ForConsole, Displayed
    <1>8. Lists(console, Shown(n, sent), ForConsole(sent)) /\ Shown(n, sent) \in SUBSET (1 .. n)
        BY HistoryIs DEF n, Shown
    <1> HIDE DEF x
    <1>9. Lists(console', Shown(n + 1, sent), ForConsole(sent))
        <2>1. CASE cur.msg \in Quiet
            BY <1>1, <1>3, <1>4, <1>8, <2>1, OneMore
        <2>2. CASE cur.msg \notin Quiet
            <3>1. Lists(Append(console, x), Shown(n, sent) \cup {n + 1}, ForConsole(sent))
                BY <1>1, <1>3, <1>7, <1>8, ListsMore
            <3> QED BY <1>1, <1>3, <1>4, <2>2, <3>1, OneMore
        <2> QED BY <2>1, <2>2
    <1>10. /\ \A i \in DOMAIN sent \ (1 .. m) : sent[i].file = file
           /\ \A f \in DOMAIN disk : Lists(disk[f], Own(f, m, sent), ForFile(sent))
           /\ \A i \in 1 .. Len(sent) : i > n => sent[i].colors = colors
           /\ \A i \in 1 .. Len(sent) : sent[i].file <= Len(disk)
        BY HistoryIs DEF n, m
    <1>11. \A i \in 1 .. Len(sent) : i > n + 1 => sent[i].colors = colors
        <2>1. \A i \in 1 .. Len(sent) : i > n + 1 => i > n
            BY <1>3
        <2> QED BY <1>10, <2>1
    <1>12. CASE file # 0
        BY <1>1, <1>2, <1>3, <1>4, <1>9, <1>10, <1>11, <1>12, HistoryThen DEF m
    <1>13. CASE file = 0
        <2>1. \A i \in DOMAIN sent \ (1 .. m + 1) : i \in DOMAIN sent \ (1 .. m)
            BY <1>3
        <2>2. m + 1 \in DOMAIN sent \ (1 .. m)
            BY <1>3, <1>5, <1>13
        <2>3. sent[m + 1].file = 0 /\ 0 \notin DOMAIN disk
            BY <1>10, <1>13, <2>2, SMTT(60) DEF LInv, TypeOK
        <2>4. \A f \in DOMAIN disk : Own(f, m + 1, sent) = Own(f, m, sent)
            BY <1>3, <2>3, OneMore
        <2>5. \A f \in DOMAIN disk : Lists(disk[f], Own(f, m + 1, sent), ForFile(sent))
            BY <1>10, <2>4
        <2>6. \A i \in DOMAIN sent \ (1 .. m + 1) : sent[i].file = file
            BY <1>10, <2>1
        <2> QED BY <1>1, <1>4, <1>5, <1>9, <1>10, <1>11, <1>13, <2>5, <2>6, HistoryThen
    <1> QED BY <1>12, <1>13

LEMMA PrintFileHistory ==
    ASSUME LInv, HistoryInv, PrintFile
    PROVE  HistoryInv'
    <1> DEFINE n == Len(sent) - Len(Unshown)
               m == Len(sent) - Len(Unwritten)
    <1>1. /\ worker = "file" /\ worker' = "wait" /\ UNCHANGED <<sent, console, file, colors>>
          /\ disk' = [disk EXCEPT ![file] = Append(disk[file], cur)]
          /\ cur \in EntryType /\ disk \in Seq(Seq(EntryType)) /\ file \in 0 .. Len(disk)
        BY DEF PrintFile, sink, LInv, TypeOK
    <1>2. /\ Unshown' = Unshown
          /\ Unwritten = <<cur>> \o Unwritten' /\ Unwritten' \in Seq(EntryType)
        BY <1>1, PrintPending, PendingIs
    <1>3. /\ sent \in Seq(Sent) /\ n \in Nat /\ m \in Nat /\ Len(sent) \in Nat
          /\ DOMAIN sent = 1 .. Len(sent)
          /\ AreLatest(Unshown, sent) /\ AreLatest(Unwritten, sent)
        BY Counted
    <1>4. /\ AreLatest(Unwritten', sent) /\ Len(sent) - Len(Unwritten') = m + 1
          /\ m + 1 \in 1 .. Len(sent) /\ sent[m + 1].entry = cur
        BY <1>1, <1>2, <1>3, LatestGone
    <1> HIDE DEF n, m
    <1>5. /\ \A i \in DOMAIN sent \ (1 .. m) : sent[i].file = file
          /\ \A f \in DOMAIN disk : Lists(disk[f], Own(f, m, sent), ForFile(sent))
          /\ \A i \in 1 .. Len(sent) : i > n => sent[i].colors = colors
          /\ \A i \in 1 .. Len(sent) : sent[i].file <= Len(disk)
          /\ Lists(console, Shown(n, sent), ForConsole(sent))
        BY HistoryIs DEF n, m
    <1>6. sent[m + 1].file = file /\ ForFile(sent)[m + 1] = cur
        <2>1. m + 1 \in DOMAIN sent \ (1 .. m)
            BY <1>3, <1>4
        <2> QED BY <1>4, <1>5, <2>1 DEF ForFile
    <1>7. /\ DOMAIN disk' = DOMAIN disk /\ Len(disk') = Len(disk)
          /\ \A f \in DOMAIN disk : f # file => disk'[f] = disk[f]
          /\ file \in DOMAIN disk => disk'[file] = Append(disk[file], cur)
        BY <1>1
    <1>8. ASSUME NEW f \in DOMAIN disk
          PROVE  Lists(disk'[f], Own(f, m + 1, sent), ForFile(sent))
        <2>1. Lists(disk[f], Own(f, m, sent), ForFile(sent)) /\ disk[f] \in Seq(EntryType)
            BY <1>1, <1>5
        <2>2. CASE f # file
            BY <1>3, <1>6, <1>7, <2>1, <2>2, OneMore, ZenonT(60)
        <2>3. CASE f = file
            <3>1. Own(f, m, sent) \in SUBSET (1 .. m)
                BY DEF Own
            <3>2. Lists(Append(disk[f], cur), Own(f, m, sent) \cup {m + 1}, ForFile(sent))
                BY <1>1, <1>3, <1>6, <2>1, <3>1, ListsMore
            <3> QED BY <1>3, <1>6, <1>7, <2>3, <3>2, OneMore, ZenonT(60)
        <2> QED BY <2>2, <2>3
    <1>9. \A i \in DOMAIN sent \ (1 .. m + 1) : i \in DOMAIN sent \ (1 .. m)
        BY <1>3
    <1>10. \A i \in DOMAIN sent \ (1 .. m + 1) : sent[i].file = file
        BY <1>5, <1>9
    <1> QED BY <1>1, <1>2, <1>3, <1>4, <1>5, <1>7, <1>8, <1>10, HistoryThen DEF n

LEMMA SentFile ==
    ASSUME NEW s \in Seq(Sent), NEW i \in 1 .. Len(s)
    PROVE  s[i].file \in Nat
    <1>1. s[i] \in Sent
        OBVIOUS
    <1> QED BY <1>1 DEF Sent

LEMMA FinishHistory ==
    ASSUME LInv, HistoryInv, Careful, Finish
    PROVE  HistoryInv'
    <1>1. Unshown' = Unshown /\ Unwritten' = Unwritten
        BY ControlPending, PendingIs
    <1>2. UNCHANGED <<sent, console>>
        BY DEF Finish
    <1>3. CASE UNCHANGED <<file, disk, colors>>
        BY <1>1, <1>2, <1>3, HistoryKept
    <1>4. CASE Unshown = << >> /\ Unwritten = << >>
        <2>1. /\ \/ disk' = disk
                 \/ disk' = Append(disk, << >>)
              /\ disk \in Seq(Seq(EntryType))
            BY DEF Finish, OpenFile, LInv, TypeOK
        <2>2. /\ sent \in Seq(Sent) /\ Len(sent) \in Nat /\ DOMAIN sent = 1 .. Len(sent)
              /\ Len(Unshown) = 0 /\ Len(Unwritten) = 0
              /\ AreLatest(Unshown, sent) /\ AreLatest(Unwritten, sent)
            BY <1>4, Counted
        <2>3. Len(sent) - Len(Unshown) = Len(sent) /\ Len(sent) - Len(Unwritten) = Len(sent)
            BY <2>2
        <2>4. /\ Lists(console, Shown(Len(sent), sent), ForConsole(sent))
              /\ \A f \in DOMAIN disk : Lists(disk[f], Own(f, Len(sent), sent), ForFile(sent))
              /\ \A i \in 1 .. Len(sent) : sent[i].file <= Len(disk)
            BY <2>3, HistoryIs
        <2>5. /\ \A f \in DOMAIN disk' : Lists(disk'[f], Own(f, Len(sent), sent), ForFile(sent))
              /\ Len(disk') >= Len(disk) /\ Len(disk') \in Nat /\ Len(disk) \in Nat
            <3>1. CASE disk' = disk
                BY <2>1, <2>4, <3>1
            <3>2. CASE disk' = Append(disk, << >>)
                <4>1. << >> \in Seq(EntryType)
                    OBVIOUS
                <4>2. /\ DOMAIN disk' = 1 .. Len(disk) + 1 /\ disk'[Len(disk) + 1] = << >>
                      /\ Len(disk') = Len(disk) + 1 /\ Len(disk) \in Nat
                      /\ DOMAIN disk = 1 .. Len(disk)
                      /\ \A f \in 1 .. Len(disk) : disk'[f] = disk[f]
                    BY <2>1, <3>2, <4>1, AppendProperties
                <4>3. Own(Len(disk) + 1, Len(sent), sent) = {}
                    <5>1. ASSUME NEW i \in 1 .. Len(sent) PROVE sent[i].file # Len(disk) + 1
                        <6>1. sent[i].file \in Nat
                            BY <2>2, SentFile
                        <6> QED BY <2>4, <4>2, <6>1
                    <5> QED BY <5>1 DEF Own
                <4>4. Lists(disk'[Len(disk) + 1], Own(Len(disk) + 1, Len(sent), sent), ForFile(sent))
                    BY <4>2, <4>3, ListsNothing
                <4>5. ASSUME NEW f \in DOMAIN disk'
                      PROVE  Lists(disk'[f], Own(f, Len(sent), sent), ForFile(sent))
                    <5>1. f = Len(disk) + 1 \/ f \in DOMAIN disk
                        BY <4>2
                    <5> QED BY <2>4, <4>2, <4>4, <5>1
                <4> QED BY <4>2, <4>5
            <3> QED BY <2>1, <3>1, <3>2
        <2>6. \A i \in 1 .. Len(sent) : sent[i].file <= Len(disk')
            <3>1. ASSUME NEW i \in 1 .. Len(sent) PROVE sent[i].file <= Len(disk')
                <4>1. sent[i].file \in Nat
                    BY <2>2, SentFile
                <4> QED BY <2>4, <2>5, <4>1
            <3> QED BY <3>1
        <2>7. /\ \A i \in 1 .. Len(sent) : ~(i > Len(sent))
              /\ DOMAIN sent \ (1 .. Len(sent)) = {}
            BY <2>2
        <2> QED BY <1>1, <1>2, <2>2, <2>3, <2>4, <2>5, <2>6, <2>7, HistoryThen
    <1>5. \/ UNCHANGED <<file, disk, colors>>
          \/ Unshown = << >> /\ Unwritten = << >>
        BY FinishPending, PendingIs
    <1> QED BY <1>3, <1>4, <1>5

LEMMA InitHistory == Init => HistoryInv
    <1> SUFFICES ASSUME Init PROVE HistoryInv
        OBVIOUS
    <1>1. Ring = << >>
        BY InitTypes, TypedRing, RingNow DEF Init
    <1>2. Unshown = << >> /\ Unwritten = << >>
        <2>1. Coming(Ring) = << >> /\ << >> \o << >> = << >>
            BY <1>1 DEF Coming
        <2> QED BY <2>1, PendingIs DEF Pending, Init
    <1>3. sent = << >> /\ console = << >> /\ disk = << >>
        BY DEF Init
    <1>4. Len(sent) = 0 /\ Len(Unshown) = 0 /\ Len(Unwritten) = 0 /\ DOMAIN sent = {}
          /\ DOMAIN disk = {} /\ DOMAIN Unshown = {} /\ DOMAIN Unwritten = {}
        BY <1>2, <1>3
    <1>5. AreLatest(Unshown, sent) /\ AreLatest(Unwritten, sent)
        BY <1>4 DEF AreLatest
    <1>6. Shown(Len(sent) - Len(Unshown), sent) = {} /\ 1 .. Len(sent) = {}
        BY <1>4 DEF Shown
    <1>7. Lists(console, Shown(Len(sent) - Len(Unshown), sent), ForConsole(sent))
        BY <1>3, <1>6, ListsNothing
    <1> QED BY <1>4, <1>5, <1>6, <1>7, HistoryIs

LEMMA NextHistory ==
    ASSUME Careful, LInv, HistoryInv, [Next]_vars
    PROVE  HistoryInv'
    <1>1. CASE SetPrefix \/ UNCHANGED vars
        <2>1. UNCHANGED <<ring, worker, cur, sent, console, disk, file, colors>>
            BY <1>1 DEF SetPrefix, vars, ring, sink
        <2>2. Unshown' = Unshown /\ Unwritten' = Unwritten
            BY <2>1, PendingKept, PendingIs
        <2> QED BY <2>1, <2>2, HistoryKept
    <1>2. CASE Worker
        BY <1>2, TakeHistory, PrintConsoleHistory, PrintFileHistory DEF Worker
    <1>3. CASE Join \/ \E c \in ControlCalls : Call(c)
        <2>1. UNCHANGED <<sent, console, disk, file, colors>>
            BY <1>3 DEF Join, Call, sink
        <2>2. Unshown' = Unshown /\ Unwritten' = Unwritten
            BY <1>3, ControlPending, PendingIs
        <2> QED BY <2>1, <2>2, HistoryKept
    <1> QED BY <1>1, <1>2, <1>3, AddHistory, FinishHistory DEF Next, Idle

-----------------------------------------------------------------------------
(* Theorems                                                                *)

\* The variables of gpt_log keep their types: head and tail stay within the ring however
\* it grows, and whatever pause() finds in it.
THEOREM TypeCorrect == Spec => []TypeOK
    BY InitTypes, NextTypes, PTL DEF Spec

\* Between resume() and the end of pause() a worker runs, and the end entry is the last of
\* the ring; when pause() has returned the ring is empty.
THEOREM PausedMeansDrained == Careful => (Spec => []PauseInv)
    <1> SUFFICES ASSUME Careful PROVE Spec => []PauseInv
        OBVIOUS
    <1>1. Init => LInv
        BY InitTypes, InitPause DEF LInv
    <1>2. LInv /\ [Next]_vars => LInv'
        BY NextLInv
    <1>3. LInv => PauseInv
        BY DEF LInv
    <1> QED BY <1>1, <1>2, <1>3, PTL DEF Spec

\* With a controller that pauses only while the ring has room for the end entry, gpt_log
\* does only what LogQueue allows: it shows what it accepted, once, in order and in the
\* colours it was accepted under, and restarts only with nothing left to show.
THEOREM ImplementsQueue == Careful => (Spec => Abstract!Init /\ [][Abstract!Next]_Abstract!vars)
    <1> SUFFICES ASSUME Careful PROVE Spec => Abstract!Init /\ [][Abstract!Next]_Abstract!vars
        OBVIOUS
    <1>1. Init => LInv
        BY InitTypes, InitPause DEF LInv
    <1>2. LInv /\ [Next]_vars => LInv'
        BY NextLInv
    <1>3. LInv /\ [Next]_vars => [Abstract!Next]_Abstract!vars
        BY StepIsStep
    <1> QED BY <1>1, <1>2, <1>3, InitIsInit, PTL DEF Spec

LEMMA HistoryKnown == Careful => (Spec => []HistoryInv)
    <1> SUFFICES ASSUME Careful PROVE Spec => []HistoryInv
        OBVIOUS
    <1>1. Init => LInv /\ HistoryInv
        BY InitTypes, InitPause, InitHistory DEF LInv
    <1>2. LInv /\ HistoryInv /\ [Next]_vars => (LInv /\ HistoryInv)'
        BY NextLInv, NextHistory
    <1> QED BY <1>1, <1>2, PTL DEF Spec

\* However full the ring is, however often it grows, and whenever a careful controller
\* pauses the log or changes its colours: every message accepted is printed once, in order
\* and as it was to look when it was accepted, or is still to come.
THEOREM NothingMissedOnConsole == Careful => (Spec => []ConsoleInOrder)
    <1> SUFFICES ASSUME Careful PROVE Spec => []ConsoleInOrder
        OBVIOUS
    <1>1. HistoryInv => ConsoleInOrder
        BY DEF HistoryInv
    <1> QED BY <1>1, HistoryKnown, PTL

\* Each log file gets the messages that were accepted while it was set, all of them and in
\* order, but for those still to come, which are for the file that is set now.
THEOREM NothingMissedInFiles == Careful => (Spec => []FilesComplete)
    <1> SUFFICES ASSUME Careful PROVE Spec => []FilesComplete
        OBVIOUS
    <1>1. HistoryInv => FilesComplete
        BY DEF HistoryInv
    <1> QED BY <1>1, HistoryKnown, PTL

=============================================================================
