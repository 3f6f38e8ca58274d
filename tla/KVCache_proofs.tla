--------------------------- MODULE KVCache_proofs ---------------------------
(***************************************************************************)
(* Proofs about KVCache, for caches of any size, any batches, and any      *)
(* order of calls: that it implements SeqCache; that a defragmentation     *)
(* finds the cells to fill every hole with, that its copies do not depend  *)
(* on their order, and that it leaves no hole unless it runs out of moves; *)
(* and that the rows of every used cell are those of its token at its      *)
(* position, up to the shift that is pending.                              *)
(***************************************************************************)
EXTENDS KVCache, Tally_proofs, FunctionTheorems, FiniteSetTheorems, SequenceTheorems, WellFoundedInduction, TLAPS

\* The plan of a defragmentation is a record throughout, and what it remembers holds:
\* cells beyond n_used may be moved, those of the hole that are to be filled are empty.
Plan ==
    [n_kv : 0 .. Size, n_used : 0 .. Size, ids : UNION {[0 .. m - 1 -> 0 .. m] : m \in 0 .. Size},
     i0 : 0 .. Size, nh : 0 .. Size, nf : 0 .. Size, i1 : 0 .. Size, cont : BOOLEAN,
     moves : 0 .. MaxMoves]

PlanInv ==
    /\ plan \in Plan /\ plan.ids \in [0 .. plan.n_kv - 1 -> 0 .. plan.n_kv]
    /\ pc \in {"defrag", "move"} => plan.n_used <= plan.n_kv
    /\ pc = "defrag" => plan.moves < MaxMoves
    /\ pc = "move" =>
           /\ plan.nf < plan.nh /\ plan.i0 + plan.nh <= plan.n_used
           /\ \A k \in plan.nf .. plan.nh - 1 : Empty(plan.i0 + k)
           /\ plan.cont \/ plan.moves < MaxMoves

\* A ubatch has tokens.
BatchLeft == pc \in {"slot", "find", "found", "compute"} => batch # << >>

\* Where the search has been, in its first round or after one or more turns at the end, an
\* occupied cell is in the way.
Blocked(h) == \E i \in h .. h + NTokens - 1 : cells[i].pos >= 0

FirstRound ==
    /\ head = scan_from + n_tested
    /\ \A h \in 0 .. Size - NTokens : h >= scan_from /\ h < head => Blocked(h)

SecondRound ==
    /\ head + Size = scan_from + n_tested
    /\ \A h \in 0 .. Size - NTokens : h >= scan_from \/ h < head => Blocked(h)

SearchInv ==
    pc = "find" => FirstRound \/ SecondRound \/ \A h \in 0 .. Size - NTokens : Blocked(h)

IInv ==
    /\ TypeOK /\ UsedIsAccurate /\ PlanInv /\ BatchLeft /\ SearchInv /\ EveryUsedCellAttended

USE CacheAssumption

-----------------------------------------------------------------------------
(* Cells                                                                   *)

LEMMA CellsAreFinite ==
    ASSUME NEW S \in SUBSET Index
    PROVE  IsFiniteSet(S) /\ Cardinality(S) \in 0 .. Size
    <1>1. IsFiniteSet(Index) /\ Cardinality(Index) = Size
        BY FS_Interval DEF Index
    <1> QED BY <1>1, FS_Subset, FS_CardinalityType

LEMMA CellFields ==
    ASSUME NEW c \in Cell
    PROVE  /\ c.pos \in -1 .. MaxPos /\ c.delta \in Int /\ c.seq_id \in SUBSET Seqs
           /\ c.tok \in Toks \cup {NoTok}
    BY DEF Cell

\* A cell at any position, as it may be for a moment before it is freed.
LooseCell == [pos : Int, delta : Int, seq_id : SUBSET Seqs, tok : Toks \cup {NoTok}]

LEMMA FreedCell ==
    ASSUME NEW c \in LooseCell
    PROVE  Freed(c) \in Cell /\ Freed(c).seq_id = {} /\ Freed(c).pos = -1
    <1>1. -1 \in -1 .. MaxPos /\ {} \in SUBSET Seqs /\ NoTok \in Toks \cup {NoTok}
        OBVIOUS
    <1>2. Freed(c).seq_id = {} /\ Freed(c).pos = -1
        BY DEF LooseCell, Freed
    <1>3. Freed(c) \in Cell
        BY <1>1 DEF LooseCell, Cell, Freed
    <1> QED BY <1>2, <1>3

LEMMA CellIsLoose == \A c \in Cell : c \in LooseCell
    <1>1. -1 .. MaxPos \subseteq Int
        OBVIOUS
    <1> QED BY <1>1 DEF Cell, LooseCell

Relabelled(c, q) == [c EXCEPT !.seq_id = q]

LEMMA RelabelledCell ==
    ASSUME NEW c \in Cell, NEW q \in SUBSET Seqs
    PROVE  Relabelled(c, q) \in Cell /\ Relabelled(c, q).seq_id = q /\ Relabelled(c, q).pos = c.pos
    BY DEF Cell, Relabelled

\* A cell at another position, with another delta.
At(c, p, d) == [c EXCEPT !.pos = p, !.delta = d]

LEMMA CellAt ==
    ASSUME NEW c \in Cell, NEW p \in -1 .. MaxPos, NEW d \in Int
    PROVE  At(c, p, d) \in Cell /\ At(c, p, d).seq_id = c.seq_id /\ At(c, p, d).pos = p
    BY DEF Cell, At

LEMMA AtIsLoose ==
    ASSUME NEW c \in Cell, NEW p \in Int, NEW d \in Int
    PROVE  At(c, p, d) \in LooseCell
    BY DEF Cell, LooseCell, At

\* Cells that are no longer used come off the count.
LEMMA Uncounted ==
    ASSUME UsedIsAccurate, NEW S \in SUBSET UsedCells,
           \A i \in Index : (cells'[i].seq_id = {}) <=> (Empty(i) \/ i \in S),
           \A i \in Index : (cells'[i].seq_id = {}) <=> cells'[i].pos < 0,
           used' = used - Cardinality(S)
    PROVE  UsedIsAccurate'
    <1>1. UsedCells' = UsedCells \ S
        BY DEF UsedCells, Empty
    <1>2. IsFiniteSet(UsedCells) /\ IsFiniteSet(S) /\ IsFiniteSet(UsedCells \ S)
        BY CellsAreFinite DEF UsedCells
    <1>3. /\ Cardinality(UsedCells) \in Int /\ Cardinality(S) \in Int
          /\ Cardinality(UsedCells \ S) \in Int
        BY <1>2, FS_CardinalityType
    <1>4. Cardinality(UsedCells) = Cardinality(UsedCells \ S) + Cardinality(S)
        <2>1. (UsedCells \ S) \cup S = UsedCells /\ (UsedCells \ S) \cap S = {}
            OBVIOUS
        <2>2. Cardinality(UsedCells) = Cardinality(UsedCells \ S) + Cardinality(S) - Cardinality({})
            BY <1>2, <2>1, FS_Union
        <2> QED BY <1>3, <2>2, FS_EmptySet
    <1> QED BY <1>1, <1>3, <1>4 DEF UsedIsAccurate, Empty

\* An operation on sequences leaves everything to do with calls alone.
LEMMA RequestKeeps ==
    ASSUME IInv, pc = "idle", cells' \in [Index -> Cell], rows' \in [Index -> Row],
           UsedIsAccurate', head' \in 0 .. Size, has_shift' \in BOOLEAN, do_defrag' \in BOOLEAN,
           UNCHANGED <<n, callVars>>
    PROVE  IInv'
    <1>1. UsedCells' \in SUBSET Index
        BY DEF UsedCells
    <1>2. used' \in 0 .. Size
        BY <1>1, CellsAreFinite DEF UsedIsAccurate
    <1>3. TypeOK'
        BY <1>2 DEF IInv, TypeOK, callVars
    <1> QED BY <1>3 DEF IInv, PlanInv, BatchLeft, SearchInv, EveryUsedCellAttended, callVars

-----------------------------------------------------------------------------
(* Operations on sequences                                                 *)

LEMMA CellTyped ==
    ASSUME IInv, NEW i \in Index
    PROVE  /\ cells[i] \in Cell /\ cells[i].pos \in Int /\ cells[i].pos <= MaxPos
           /\ cells[i].delta \in Int /\ cells[i].seq_id \in SUBSET Seqs
           /\ (cells[i].seq_id = {}) <=> cells[i].pos < 0
           /\ Empty(i) <=> cells[i].pos < 0
    <1>1. cells[i] \in Cell
        BY DEF IInv, TypeOK
    <1>2. cells[i].pos \in -1 .. MaxPos /\ cells[i].delta \in Int /\ cells[i].seq_id \in SUBSET Seqs
        BY <1>1, CellFields
    <1>3. Empty(i) <=> cells[i].pos < 0
        BY DEF IInv, UsedIsAccurate
    <1>4. (cells[i].seq_id = {}) <=> Empty(i)
        BY DEF Empty
    <1>5. cells[i].pos \in Int /\ cells[i].pos <= MaxPos
        BY <1>2
    <1> QED BY <1>1, <1>2, <1>3, <1>4, <1>5

LEMMA HeadMoves ==
    ASSUME IInv, NEW freed \in SUBSET Index, HeadToFreed(freed)
    PROVE  head' \in 0 .. Size
    <1>1. head \in 0 .. Size
        BY DEF IInv, TypeOK
    <1>2. CASE freed = {}
        BY <1>1, <1>2 DEF HeadToFreed
    <1>3. CASE freed # {}
        <2>1. PICK h \in freed : head' = Least(h, head)
            BY <1>3 DEF HeadToFreed
        <2>2. h \in 0 .. Size
            BY DEF Index
        <2> QED BY <1>1, <2>1, <2>2 DEF Least
    <1> QED BY <1>2, <1>3

LEMMA ClearInv == ASSUME IInv, Clear PROVE IInv'
    <1>1. /\ pc = "idle" /\ head' = 0 /\ used' = 0
          /\ cells' = [i \in Index |-> Freed(cells[i])] /\ rows' = [i \in Index |-> ZeroRow]
          /\ UNCHANGED <<n, has_shift, do_defrag, callVars>>
        BY DEF Clear, Clearing, flagVars
    <1>2. \A i \in Index : /\ cells'[i] \in Cell /\ cells'[i].seq_id = {} /\ cells'[i].pos = -1
        BY <1>1, CellTyped, CellIsLoose, FreedCell
    <1>3. cells' \in [Index -> Cell]
        BY <1>1, <1>2
    <1>4. UsedCells' = {}
        BY <1>2 DEF UsedCells, Empty
    <1>5. UsedIsAccurate'
        <2>1. Cardinality(UsedCells') = 0
            BY <1>4, FS_EmptySet
        <2> QED BY <1>1, <1>2, <2>1, SMTT(60) DEF UsedIsAccurate, Empty
    <1>6. rows' \in [Index -> Row]
        <2>1. ZeroRow \in Row
            BY DEF ZeroRow, Row
        <2> QED BY <1>1, <2>1
    <1>7. has_shift' \in BOOLEAN /\ do_defrag' \in BOOLEAN /\ head' \in 0 .. Size
        BY <1>1 DEF IInv, TypeOK
    <1> QED BY <1>1, <1>3, <1>5, <1>6, <1>7, RequestKeeps

\* What an operation applies to is in use.
LEMMA HitUsed ==
    ASSUME IInv, NEW s, NEW p0 \in Int, NEW p1
    PROVE  /\ Hit(s, p0, p1) \in SUBSET UsedCells
           /\ \A i \in Hit(s, p0, p1) : i \in Index /\ cells[i].pos >= 0
    <1>1. ASSUME NEW i \in Hit(s, p0, p1)
          PROVE  i \in Index /\ cells[i].pos >= 0 /\ i \in UsedCells
        <2>1. i \in Index /\ cells[i].pos >= From(p0)
            BY DEF Hit, InRange
        <2>2. From(p0) >= 0 /\ From(p0) \in Int
            BY DEF From
        <2>3. cells[i].pos \in Int /\ (cells[i].seq_id = {} <=> cells[i].pos < 0)
            BY <2>1, CellTyped
        <2>4. cells[i].pos >= 0
            BY <2>1, <2>2, <2>3
        <2> QED BY <2>1, <2>3, <2>4 DEF UsedCells, Empty
    <1> QED BY <1>1

LEMMA SeqRmInv ==
    ASSUME IInv, NEW s, NEW p0 \in Int, NEW p1, SeqRm(s, p0, p1)
    PROVE  IInv'
    <1> DEFINE S == FreedBy(s, p0, p1)
               H == Hit(s, p0, p1)
    <1>1. /\ pc = "idle" /\ used' = used - Cardinality(S) /\ HeadToFreed(S)
          /\ cells' = [i \in Index |-> IF i \in S THEN Freed(cells[i])
                                      ELSE IF i \in H THEN [cells[i] EXCEPT !.seq_id = Without(i, s)]
                                      ELSE cells[i]]
          /\ UNCHANGED <<rows, n, has_shift, do_defrag, callVars>>
        BY DEF SeqRm, Removing, flagVars
    <1>2. /\ S \in SUBSET UsedCells /\ \A i \in H : i \in UsedCells /\ i \in Index
          /\ \A i \in H \ S : Without(i, s) # {}
        BY HitUsed DEF FreedBy
    <1> HIDE DEF S, H
    <1>3. ASSUME NEW i \in Index
          PROVE  /\ cells'[i] \in Cell
                 /\ (cells'[i].seq_id = {}) <=> (Empty(i) \/ i \in S)
                 /\ (cells'[i].seq_id = {}) <=> cells'[i].pos < 0
        <2>0. cells[i] \in Cell /\ cells[i].pos \in Int /\ (Empty(i) <=> cells[i].pos < 0)
            BY CellTyped
        <2>1. CASE i \in S
            <3>1. cells'[i] = Freed(cells[i])
                BY <1>1, <2>1
            <3> QED BY <2>0, <2>1, <3>1, CellIsLoose, FreedCell
        <2>2. CASE i \in H \ S
            <3>1. cells'[i] = Relabelled(cells[i], Without(i, s))
                BY <1>1, <2>2 DEF Relabelled
            <3>2. ~Empty(i) /\ Without(i, s) # {}
                BY <1>2, <2>2 DEF UsedCells
            <3>3. Without(i, s) \in SUBSET Seqs
                BY <2>0, CellFields DEF Without
            <3>4. /\ cells'[i] \in Cell /\ cells'[i].pos = cells[i].pos
                  /\ cells'[i].seq_id = Without(i, s)
                BY <2>0, <3>1, <3>3, RelabelledCell
            <3> QED BY <2>0, <2>2, <3>2, <3>4
        <2>3. CASE i \notin H /\ i \notin S
            <3>1. cells'[i] = cells[i]
                BY <1>1, <2>3
            <3> QED BY <2>0, <2>3, <3>1 DEF Empty
        <2> QED BY <2>1, <2>2, <2>3
    <1>4. cells' \in [Index -> Cell]
        BY <1>1, <1>3
    <1>5. UsedIsAccurate'
        BY <1>1, <1>2, <1>3, Uncounted DEF IInv
    <1>6. S \in SUBSET Index
        BY <1>2 DEF UsedCells
    <1>7. head' \in 0 .. Size
        BY <1>1, <1>6, HeadMoves
    <1>8. rows' \in [Index -> Row] /\ has_shift' \in BOOLEAN /\ do_defrag' \in BOOLEAN
        BY <1>1 DEF IInv, TypeOK
    <1> QED BY <1>1, <1>4, <1>5, <1>7, <1>8, RequestKeeps

LEMMA SeqCpInv ==
    ASSUME IInv, NEW src, NEW dst \in Seqs, NEW p0 \in Int, NEW p1, SeqCp(src, dst, p0, p1)
    PROVE  IInv'
    <1> DEFINE H == Hit(src, p0, p1)
    <1>1. /\ pc = "idle" /\ head' = 0
          /\ cells' = [i \in Index |-> IF i \in H THEN [cells[i] EXCEPT !.seq_id = cells[i].seq_id \cup {dst}]
                                      ELSE cells[i]]
          /\ UNCHANGED <<used, rows, n, has_shift, do_defrag, callVars>>
        BY DEF SeqCp, flagVars
    <1>2. \A i \in H : cells[i].pos >= 0
        BY HitUsed
    <1> HIDE DEF H
    <1>3. ASSUME NEW i \in Index
          PROVE  /\ cells'[i] \in Cell
                 /\ (cells'[i].seq_id = {}) <=> (Empty(i) \/ i \in {})
                 /\ (cells'[i].seq_id = {}) <=> cells'[i].pos < 0
        <2>0. cells[i] \in Cell /\ cells[i].pos \in Int /\ (Empty(i) <=> cells[i].pos < 0)
            BY CellTyped
        <2>1. CASE i \in H
            <3>1. cells'[i] = Relabelled(cells[i], cells[i].seq_id \cup {dst})
                BY <1>1, <2>1 DEF Relabelled
            <3>2. cells[i].seq_id \cup {dst} \in SUBSET Seqs
                BY <2>0, CellFields
            <3>3. /\ cells'[i] \in Cell /\ cells'[i].pos = cells[i].pos
                  /\ cells'[i].seq_id = cells[i].seq_id \cup {dst}
                BY <2>0, <3>1, <3>2, RelabelledCell
            <3>4. cells[i].pos >= 0
                BY <1>2, <2>1
            <3> QED BY <2>0, <3>3, <3>4
        <2>2. CASE i \notin H
            <3>1. cells'[i] = cells[i]
                BY <1>1, <2>2
            <3> QED BY <2>0, <3>1 DEF Empty
        <2> QED BY <2>1, <2>2
    <1>4. cells' \in [Index -> Cell]
        BY <1>1, <1>3
    <1>5. used' = used - Cardinality({}) /\ {} \in SUBSET UsedCells
        <2>1. used \in Int
            BY DEF IInv, TypeOK
        <2> QED BY <1>1, <2>1, FS_EmptySet
    <1>6. UsedIsAccurate'
        BY <1>3, <1>5, Uncounted DEF IInv
    <1>7. head' \in 0 .. Size /\ rows' \in [Index -> Row] /\ has_shift' \in BOOLEAN /\ do_defrag' \in BOOLEAN
        BY <1>1 DEF IInv, TypeOK
    <1> QED BY <1>1, <1>4, <1>6, <1>7, RequestKeeps

LEMMA SeqKeepInv ==
    ASSUME IInv, NEW s \in Seqs, SeqKeep(s)
    PROVE  IInv'
    <1> DEFINE O == {i \in Index : s \notin cells[i].seq_id}
               S == {i \in Index : s \notin cells[i].seq_id /\ cells[i].pos >= 0}
    <1>1. /\ pc = "idle" /\ used' = used - Cardinality(S) /\ HeadToFreed(O)
          /\ cells' = [i \in Index |-> IF i \in O THEN Freed(cells[i])
                                      ELSE [cells[i] EXCEPT !.seq_id = {s}]]
          /\ UNCHANGED <<rows, n, has_shift, do_defrag, callVars>>
        BY DEF SeqKeep, Keeping, flagVars
    <1>2. /\ S \in SUBSET UsedCells /\ O \in SUBSET Index
          /\ \A i \in Index : i \in O <=> Empty(i) \/ i \in S
        <2>1. ASSUME NEW i \in Index
              PROVE  /\ i \in S => i \in UsedCells
                     /\ i \in O <=> Empty(i) \/ i \in S
            <3>1. cells[i].pos \in Int /\ (Empty(i) <=> cells[i].pos < 0)
                BY CellTyped
            <3>2. Empty(i) => s \notin cells[i].seq_id
                BY DEF Empty
            <3> QED BY <3>1, <3>2 DEF UsedCells
        <2> QED BY <2>1
    <1> HIDE DEF S, O
    <1>3. ASSUME NEW i \in Index
          PROVE  /\ cells'[i] \in Cell
                 /\ (cells'[i].seq_id = {}) <=> (Empty(i) \/ i \in S)
                 /\ (cells'[i].seq_id = {}) <=> cells'[i].pos < 0
        <2>0. cells[i] \in Cell /\ cells[i].pos \in Int /\ (Empty(i) <=> cells[i].pos < 0)
            BY CellTyped
        <2>1. CASE i \in O
            <3>1. cells'[i] = Freed(cells[i])
                BY <1>1, <2>1
            <3> QED BY <1>2, <2>0, <2>1, <3>1, CellIsLoose, FreedCell
        <2>2. CASE i \notin O
            <3>1. cells'[i] = Relabelled(cells[i], {s})
                BY <1>1, <2>2 DEF Relabelled
            <3>2. {s} \in SUBSET Seqs
                OBVIOUS
            <3>3. cells'[i] \in Cell /\ cells'[i].seq_id = {s} /\ cells'[i].pos = cells[i].pos
                BY <2>0, <3>1, <3>2, RelabelledCell
            <3>4. ~Empty(i) /\ i \notin S
                BY <1>2, <2>2
            <3> QED BY <2>0, <3>3, <3>4
        <2> QED BY <2>1, <2>2
    <1>4. cells' \in [Index -> Cell]
        BY <1>1, <1>3
    <1>5. UsedIsAccurate'
        BY <1>1, <1>2, <1>3, Uncounted DEF IInv
    <1>6. head' \in 0 .. Size
        BY <1>1, <1>2, HeadMoves
    <1>7. rows' \in [Index -> Row] /\ has_shift' \in BOOLEAN /\ do_defrag' \in BOOLEAN
        BY <1>1 DEF IInv, TypeOK
    <1> QED BY <1>1, <1>4, <1>5, <1>6, <1>7, RequestKeeps

LEMMA SeqAddInv ==
    ASSUME IInv, NEW s, NEW p0 \in Int, NEW p1, NEW d \in Int, SeqAdd(s, p0, p1, d)
    PROVE  IInv'
    <1> DEFINE H == Hit(s, p0, p1)
               S == {i \in H : cells[i].pos + d < 0}
               moved(i) == At(cells[i], cells[i].pos + d, cells[i].delta + d)
    <1>1. /\ pc = "idle" /\ used' = used - Cardinality(S)
          /\ \A i \in H : cells[i].pos + d <= MaxPos
          /\ cells' = [i \in Index |-> IF i \in S THEN Freed(moved(i))
                                      ELSE IF i \in H THEN moved(i)
                                      ELSE cells[i]]
          /\ UNCHANGED <<rows, n, do_defrag, callVars>>
        BY DEF SeqAdd, At
    <1>2. IF S = {} THEN head' = 0 ELSE \E h \in S : head' = h
        BY DEF SeqAdd
    <1>3. has_shift' \in BOOLEAN
        BY DEF SeqAdd, IInv, TypeOK
    <1>4. S \in SUBSET UsedCells /\ \A i \in H : cells[i].pos >= 0
        BY HitUsed
    <1>5. \A i \in H : cells[i].pos + d < 0 <=> i \in S
        OBVIOUS
    <1>6. S \in SUBSET H
        OBVIOUS
    <1> HIDE DEF S, H
    <1>7. ASSUME NEW i \in Index
          PROVE  /\ cells'[i] \in Cell
                 /\ (cells'[i].seq_id = {}) <=> (Empty(i) \/ i \in S)
                 /\ (cells'[i].seq_id = {}) <=> cells'[i].pos < 0
        <2>0. /\ cells[i] \in Cell /\ cells[i].pos \in Int /\ cells[i].delta \in Int
              /\ Empty(i) <=> cells[i].pos < 0
            BY CellTyped
        <2>1. CASE i \in S
            <3>1. cells'[i] = Freed(moved(i))
                BY <1>1, <2>1
            <3>2. cells[i].pos + d \in Int /\ cells[i].delta + d \in Int
                BY <2>0
            <3> QED BY <2>0, <2>1, <3>1, <3>2, AtIsLoose, FreedCell
        <2>2. CASE i \in H \ S
            <3>1. cells'[i] = moved(i)
                BY <1>1, <2>2
            <3>2. /\ cells[i].pos + d <= MaxPos /\ cells[i].pos >= 0 /\ ~(cells[i].pos + d < 0)
                BY <1>1, <1>4, <1>5, <2>2
            <3>3. /\ cells[i].pos + d \in -1 .. MaxPos /\ cells[i].pos + d >= 0 /\ ~Empty(i)
                  /\ cells[i].delta + d \in Int
                BY <2>0, <3>2
            <3>4. /\ cells'[i] \in Cell /\ cells'[i].seq_id = cells[i].seq_id
                  /\ cells'[i].pos = cells[i].pos + d
                <4> DEFINE p == cells[i].pos + d
                           e == cells[i].delta + d
                <4>1. p \in -1 .. MaxPos /\ e \in Int
                    BY <3>3
                <4>2. cells'[i] = At(cells[i], p, e)
                    BY <3>1
                <4> HIDE DEF p, e
                <4>3. /\ At(cells[i], p, e) \in Cell /\ At(cells[i], p, e).seq_id = cells[i].seq_id
                      /\ At(cells[i], p, e).pos = p
                    <5>1. cells[i] \in Cell
                        BY <2>0
                    <5>2. \A c \in Cell : At(c, p, e) \in Cell /\ At(c, p, e).seq_id = c.seq_id /\ At(c, p, e).pos = p
                        BY <4>1, CellAt
                    <5> QED BY <5>1, <5>2
                <4> QED BY <4>2, <4>3 DEF p
            <3> QED BY <2>2, <3>3, <3>4 DEF Empty
        <2>3. CASE i \notin H
            <3>1. cells'[i] = cells[i] /\ i \notin S
                BY <1>1, <1>6, <2>3
            <3> QED BY <2>0, <3>1 DEF Empty
        <2> QED BY <2>1, <2>2, <2>3
    <1>8. cells' \in [Index -> Cell]
        BY <1>1, <1>7
    <1>9. UsedIsAccurate'
        BY <1>1, <1>4, <1>7, Uncounted DEF IInv
    <1>10. head' \in 0 .. Size
        BY <1>2, <1>4 DEF UsedCells, Index
    <1>11. rows' \in [Index -> Row] /\ do_defrag' \in BOOLEAN
        BY <1>1 DEF IInv, TypeOK
    <1> QED BY <1>1, <1>3, <1>8, <1>9, <1>10, <1>11, RequestKeeps

\* A positive divisor leaves a position between zero and where it was.
LEMMA Divided ==
    ASSUME NEW p \in Nat, NEW d \in Nat \ {0}
    PROVE  p \div d \in Nat /\ p \div d <= p
    OBVIOUS

LEMMA SeqDivInv ==
    ASSUME IInv, NEW s, NEW p0 \in Int, NEW p1, NEW d \in Nat \ {0}, SeqDiv(s, p0, p1, d)
    PROVE  IInv'
    <1> DEFINE H == Hit(s, p0, p1)
               moved(i) == At(cells[i], cells[i].pos \div d,
                              cells[i].delta + cells[i].pos \div d - cells[i].pos)
    <1>1. /\ pc = "idle"
          /\ cells' = [i \in Index |-> IF i \in H THEN moved(i) ELSE cells[i]]
          /\ UNCHANGED <<head, used, rows, n, do_defrag, callVars>>
        BY DEF SeqDiv, At
    <1>2. has_shift' \in BOOLEAN
        BY DEF SeqDiv, IInv, TypeOK
    <1>3. \A i \in H : cells[i].pos >= 0
        BY HitUsed
    <1> HIDE DEF H
    <1>4. ASSUME NEW i \in Index
          PROVE  /\ cells'[i] \in Cell
                 /\ (cells'[i].seq_id = {}) <=> (Empty(i) \/ i \in {})
                 /\ (cells'[i].seq_id = {}) <=> cells'[i].pos < 0
        <2>0. /\ cells[i] \in Cell /\ cells[i].pos \in Int /\ cells[i].delta \in Int
              /\ cells[i].pos <= MaxPos /\ (Empty(i) <=> cells[i].pos < 0)
            BY CellTyped
        <2>1. CASE i \in H
            <3>1. cells'[i] = moved(i)
                BY <1>1, <2>1
            <3>2. cells[i].pos \in Nat
                BY <1>3, <2>0, <2>1
            <3> DEFINE q == cells[i].pos \div d
                       e == cells[i].delta + q - cells[i].pos
            <3>3. q \in Nat /\ q <= cells[i].pos
                BY <3>2, Divided
            <3>4. cells'[i] = At(cells[i], q, e)
                BY <3>1
            <3> HIDE DEF q
            <3>5. q \in -1 .. MaxPos /\ e \in Int
                BY <2>0, <3>3
            <3> HIDE DEF e
            <3>6. At(cells[i], q, e) \in Cell /\ At(cells[i], q, e).seq_id = cells[i].seq_id
                  /\ At(cells[i], q, e).pos = q
                <4>1. cells[i] \in Cell
                    BY <2>0
                <4>2. q \in -1 .. MaxPos
                    BY <3>5
                <4>3. e \in Int
                    BY <3>5
                <4>4. \A c \in Cell : At(c, q, e) \in Cell /\ At(c, q, e).seq_id = c.seq_id
                                      /\ At(c, q, e).pos = q
                    BY <4>2, <4>3, CellAt
                <4> QED BY <4>1, <4>4
            <3>7. cells'[i] \in Cell /\ cells'[i].seq_id = cells[i].seq_id /\ cells'[i].pos = q
                BY <3>4, <3>6
            <3> QED BY <2>0, <3>2, <3>3, <3>7 DEF Empty
        <2>2. CASE i \notin H
            <3>1. cells'[i] = cells[i]
                BY <1>1, <2>2
            <3> QED BY <2>0, <3>1 DEF Empty
        <2> QED BY <2>1, <2>2
    <1>5. cells' \in [Index -> Cell]
        BY <1>1, <1>4
    <1>6. used' = used - Cardinality({}) /\ {} \in SUBSET UsedCells
        <2>1. used \in Int /\ used' = used
            BY <1>1 DEF IInv, TypeOK
        <2>2. Cardinality({}) = 0
            BY FS_EmptySet
        <2> QED BY <2>1, <2>2
    <1>7. UsedIsAccurate'
        BY <1>4, <1>6, Uncounted DEF IInv
    <1>8. head' \in 0 .. Size /\ rows' \in [Index -> Row] /\ do_defrag' \in BOOLEAN
        BY <1>1 DEF IInv, TypeOK
    <1> QED BY <1>1, <1>2, <1>5, <1>7, <1>8, RequestKeeps

LEMMA DefragInv == ASSUME IInv, Defrag PROVE IInv'
    <1>1. pc = "idle" /\ do_defrag' = TRUE /\ UNCHANGED <<cells, head, used, rows, n, has_shift, callVars>>
        BY DEF Defrag, metaVars
    <1>2. UsedIsAccurate'
        BY <1>1 DEF IInv, UsedIsAccurate, UsedCells, Empty
    <1>3. /\ cells' \in [Index -> Cell] /\ rows' \in [Index -> Row] /\ head' \in 0 .. Size
          /\ has_shift' \in BOOLEAN /\ do_defrag' \in BOOLEAN
        BY <1>1 DEF IInv, TypeOK
    <1> QED BY <1>1, <1>2, <1>3, RequestKeeps

LEMMA UpdateRequestedInv == ASSUME IInv, UpdateRequested PROVE IInv'
    <1>1. /\ pc = "idle" /\ pc' = "update"
          /\ UNCHANGED <<cells, head, used, rows, n, has_shift, do_defrag, batch, n_tested,
                         scan_from, plan>>
        BY DEF UpdateRequested, metaVars, flagVars
    <1>2. TypeOK'
        BY <1>1 DEF IInv, TypeOK
    <1>3. UsedIsAccurate'
        BY <1>1 DEF IInv, UsedIsAccurate, UsedCells, Empty
    <1>4. PlanInv'
        BY <1>1 DEF IInv, PlanInv
    <1> QED BY <1>1, <1>2, <1>3, <1>4 DEF IInv, BatchLeft, SearchInv, EveryUsedCellAttended

LEMMA DecodeInv == ASSUME IInv, Decode PROVE IInv'
    <1>1. /\ pc = "idle" /\ pc' = "update" /\ batch' \in Batches
          /\ UNCHANGED <<cells, head, used, rows, n, has_shift, do_defrag, n_tested, scan_from,
                         plan>>
        BY DEF Decode, metaVars, flagVars
    <1>2. batch' \in Seq(Token)
        BY <1>1, BatchesAssumption
    <1>3. TypeOK'
        BY <1>1, <1>2 DEF IInv, TypeOK
    <1>4. UsedIsAccurate'
        BY <1>1 DEF IInv, UsedIsAccurate, UsedCells, Empty
    <1>5. PlanInv'
        BY <1>1 DEF IInv, PlanInv
    <1> QED BY <1>1, <1>3, <1>4, <1>5 DEF IInv, BatchLeft, SearchInv, EveryUsedCellAttended

-----------------------------------------------------------------------------
(* llama_kv_cache_update()                                                 *)

\* The plan there is while no cache is defragmented.
LEMMA NoPlanTyped ==
    /\ NoPlan \in Plan /\ NoPlan.ids \in [0 .. NoPlan.n_kv - 1 -> 0 .. NoPlan.n_kv]
    <1>1. << >> \in [0 .. 0 - 1 -> 0 .. 0]
        OBVIOUS
    <1>2. 0 \in 0 .. Size /\ 0 \in 0 .. MaxMoves
        OBVIOUS
    <1>3. NoPlan.n_kv = 0 /\ NoPlan.ids = << >>
        BY DEF NoPlan
    <1>4. << >> \in UNION {[0 .. m - 1 -> 0 .. m] : m \in 0 .. Size}
        BY <1>1, <1>2
    <1> QED BY <1>1, <1>2, <1>3, <1>4 DEF NoPlan, Plan

\* All used cells come before the one that llama_kv_cache_cell_max() returns.
LEMMA UsedBelowMax ==
    ASSUME IInv, NEW m \in 0 .. Size, IsCellMax(cells, m)
    PROVE  UsedCells \subseteq 0 .. m - 1 /\ used <= m
    <1>1. ASSUME NEW i \in UsedCells PROVE i \in 0 .. m - 1
        <2>1. i \in Index /\ ~Empty(i)
            BY DEF UsedCells
        <2>2. cells[i].pos \in Int /\ (cells[i].seq_id = {} <=> cells[i].pos < 0) /\ ~(cells[i].pos < 0)
            BY <2>1, CellTyped
        <2>3. ~(i \in m .. Size - 1)
            BY <2>2 DEF IsCellMax
        <2> QED BY <2>1, <2>3 DEF Index
    <1>2. UsedCells \subseteq 0 .. m - 1
        BY <1>1
    <1>3. IsFiniteSet(0 .. m - 1) /\ Cardinality(0 .. m - 1) = m
        <2>1. 0 \in Int /\ m - 1 \in Int /\ m \in Nat
            OBVIOUS
        <2>2. /\ IsFiniteSet(0 .. m - 1)
              /\ Cardinality(0 .. m - 1) = IF 0 > m - 1 THEN 0 ELSE m - 1 - 0 + 1
            BY <2>1, FS_Interval, Zenon
        <2> QED BY <2>1, <2>2
    <1>4. Cardinality(UsedCells) <= Cardinality(0 .. m - 1)
        <2>1. UsedCells \in SUBSET (0 .. m - 1)
            BY <1>2
        <2> HIDE DEF UsedCells
        <2> QED BY <1>3, <2>1, FS_Subset, Zenon
    <1>5. used = Cardinality(UsedCells)
        BY DEF IInv, UsedIsAccurate
    <1>6. used <= m
        <2> HIDE DEF UsedCells
        <2> QED BY <1>3, <1>4, <1>5
    <1> QED BY <1>2, <1>6

LEMMA AfterUpdateInv ==
    ASSUME IInv, cells' \in [Index -> Cell], rows' \in [Index -> Row], UsedIsAccurate',
           has_shift' \in BOOLEAN, do_defrag' \in BOOLEAN,
           UNCHANGED <<head, used, n, batch, n_tested, scan_from>>,
           plan' = plan \/ plan' = NoPlan, pc' = AfterUpdate
    PROVE  IInv'
    <1>1. pc' = IF batch = << >> THEN "idle" ELSE "slot"
        BY DEF AfterUpdate
    <1>2. plan' \in Plan /\ plan'.ids \in [0 .. plan'.n_kv - 1 -> 0 .. plan'.n_kv]
        BY NoPlanTyped DEF IInv, PlanInv
    <1>3. /\ plan'.n_kv \in 0 .. Size /\ plan'.n_used \in 0 .. Size /\ plan'.i0 \in 0 .. Size
          /\ plan'.nh \in 0 .. Size /\ plan'.nf \in 0 .. Size /\ plan'.i1 \in 0 .. Size
          /\ plan'.cont \in BOOLEAN /\ plan'.moves \in 0 .. MaxMoves
        BY <1>2 DEF Plan
    <1>4. TypeOK'
        BY <1>1, <1>2, <1>3 DEF IInv, TypeOK
    <1>5. PlanInv'
        BY <1>1, <1>2 DEF PlanInv
    <1>6. BatchLeft'
        BY <1>1 DEF BatchLeft
    <1> QED BY <1>1, <1>4, <1>5, <1>6 DEF IInv, SearchInv, EveryUsedCellAttended

LEMMA UpdateInv == ASSUME IInv, Update PROVE IInv'
    <1> DEFINE settled(c) == [c EXCEPT !.delta = 0]
    <1>1. /\ pc = "update" /\ has_shift' = FALSE
          /\ UNCHANGED <<head, used, n, do_defrag, batch, n_tested, scan_from>>
        BY DEF Update, Updating
    <1>2. cells' = [i \in Index |-> settled(cells[i])] \/ UNCHANGED cells
        BY DEF Update, Updating
    <1>3. ASSUME NEW i \in Index
          PROVE  cells'[i] \in Cell /\ cells'[i].seq_id = cells[i].seq_id /\ cells'[i].pos = cells[i].pos
        <2>1. cells[i] \in Cell
            BY CellTyped
        <2>2. cells'[i] = settled(cells[i]) \/ cells'[i] = cells[i]
            BY <1>2
        <2>3. /\ settled(cells[i]) \in Cell /\ settled(cells[i]).seq_id = cells[i].seq_id
              /\ settled(cells[i]).pos = cells[i].pos
            BY <2>1 DEF Cell
        <2> HIDE DEF settled
        <2> QED BY <2>1, <2>2, <2>3
    <1>4. cells' \in [Index -> Cell]
        <2>1. cells \in [Index -> Cell]
            BY DEF IInv, TypeOK
        <2>2. CASE cells' = [i \in Index |-> settled(cells[i])]
            <3> HIDE DEF settled
            <3>1. \A i \in Index : settled(cells[i]) \in Cell
                BY <1>3, <2>2
            <3> QED BY <2>2, <3>1
        <2> QED BY <1>2, <2>1, <2>2
    <1>5. UsedIsAccurate'
        <2>1. UsedCells' = UsedCells
            BY <1>3 DEF UsedCells, Empty
        <2> QED BY <1>1, <1>3, <2>1 DEF IInv, UsedIsAccurate, Empty
    <1>6. rows' \in [Index -> Row]
        <2>1. rows \in [Index -> Row]
            BY DEF IInv, TypeOK
        <2>2. ASSUME NEW i \in Index PROVE Turned(rows[i], cells[i].delta) \in Row
            <3>1. rows[i] \in Row
                BY <2>1
            <3>2. cells[i].delta \in Int
                BY CellTyped
            <3>3. CASE rows[i].tok = NoTok
                BY <3>1, <3>3 DEF Turned
            <3>4. CASE rows[i].tok # NoTok
                <4>1. Turned(rows[i], cells[i].delta) = [rows[i] EXCEPT !.rot = @ + cells[i].delta]
                    BY <3>4 DEF Turned
                <4> QED BY <3>1, <3>2, <4>1 DEF Row
            <3> QED BY <3>3, <3>4
        <2>3. rows' = [i \in Index |-> Turned(rows[i], cells[i].delta)] \/ UNCHANGED rows
            BY DEF Update, Updating
        <2> QED BY <2>1, <2>2, <2>3
    <1>7. CASE do_defrag
        <2>1. PICK m \in 0 .. Size :
                  /\ IsCellMax(cells, m)
                  /\ plan' = [NoPlan EXCEPT !.n_kv = m, !.n_used = used,
                                            !.ids = [i \in 0 .. m - 1 |-> m]]
            BY <1>7 DEF Update, Updating
        <2>2. pc' = "defrag"
            BY <1>7 DEF Update, Updating
        <2>3. used <= m /\ used \in 0 .. Size
            BY <2>1, UsedBelowMax DEF IInv, TypeOK
        <2>4. /\ plan'.n_kv = m /\ plan'.n_used = used /\ plan'.ids = [i \in 0 .. m - 1 |-> m]
              /\ plan'.i0 = 0 /\ plan'.nh = 0 /\ plan'.nf = 0 /\ plan'.i1 = 0
              /\ plan'.cont = FALSE /\ plan'.moves = 0
            BY <2>1 DEF NoPlan
        <2>5. [i \in 0 .. m - 1 |-> m] \in [0 .. m - 1 -> 0 .. m]
            OBVIOUS
        <2>6. plan' \in Plan
            <3>1. plan' = [n_kv |-> m, n_used |-> used, ids |-> [i \in 0 .. m - 1 |-> m], i0 |-> 0,
                           nh |-> 0, nf |-> 0, i1 |-> 0, cont |-> FALSE, moves |-> 0]
                BY <2>1 DEF NoPlan
            <3>2. [i \in 0 .. m - 1 |-> m] \in UNION {[0 .. k - 1 -> 0 .. k] : k \in 0 .. Size}
                BY <2>5
            <3> QED BY <2>3, <3>1, <3>2 DEF Plan
        <2>7. TypeOK'
            <3>1. /\ plan'.n_kv \in 0 .. Size /\ plan'.n_used \in 0 .. Size /\ plan'.i0 \in 0 .. Size
                  /\ plan'.nh \in 0 .. Size /\ plan'.nf \in 0 .. Size /\ plan'.i1 \in 0 .. Size
                  /\ plan'.cont \in BOOLEAN /\ plan'.moves \in 0 .. MaxMoves
                BY <2>6 DEF Plan
            <3>2. plan'.ids \in [0 .. plan'.n_kv - 1 -> 0 .. plan'.n_kv]
                BY <2>4, <2>5
            <3>3. has_shift' \in BOOLEAN /\ do_defrag' \in BOOLEAN /\ UNCHANGED <<head, used, n, batch>>
                  /\ UNCHANGED <<n_tested, scan_from>>
                BY <1>1 DEF IInv, TypeOK
            <3> QED BY <1>4, <1>6, <2>2, <3>1, <3>2, <3>3 DEF IInv, TypeOK
        <2>8. PlanInv'
            BY <2>2, <2>3, <2>4, <2>5, <2>6 DEF PlanInv
        <2> QED BY <1>5, <2>2, <2>7, <2>8, SMTT(60) DEF IInv, BatchLeft, SearchInv, EveryUsedCellAttended
    <1>8. CASE ~do_defrag
        <2>1. pc' = AfterUpdate /\ plan' = plan
            BY <1>8 DEF Update, Updating
        <2>2. has_shift' \in BOOLEAN /\ do_defrag' \in BOOLEAN
            BY <1>1 DEF IInv, TypeOK
        <2> QED BY <1>1, <1>4, <1>5, <1>6, <2>1, <2>2, AfterUpdateInv
    <1> QED BY <1>7, <1>8

\* What the fields of the plan are.
LEMMA PlanFields ==
    ASSUME plan \in Plan
    PROVE  /\ plan.n_kv \in 0 .. Size /\ plan.n_used \in 0 .. Size /\ plan.i0 \in 0 .. Size
           /\ plan.nh \in 0 .. Size /\ plan.nf \in 0 .. Size /\ plan.i1 \in 0 .. Size
           /\ plan.cont \in BOOLEAN /\ plan.moves \in 0 .. MaxMoves
    BY DEF Plan

LEMMA PlanFieldsNext ==
    ASSUME plan' \in Plan
    PROVE  /\ plan'.n_kv \in 0 .. Size /\ plan'.n_used \in 0 .. Size /\ plan'.i0 \in 0 .. Size
           /\ plan'.nh \in 0 .. Size /\ plan'.nf \in 0 .. Size /\ plan'.i1 \in 0 .. Size
           /\ plan'.cont \in BOOLEAN /\ plan'.moves \in 0 .. MaxMoves
    BY DEF Plan

\* A step of the defragmentation changes cells and the plan.
LEMMA PlanningInv ==
    ASSUME IInv, cells' \in [Index -> Cell], UsedIsAccurate', PlanInv', head' \in 0 .. Size,
           pc' \in {"defrag", "move", "copy"},
           UNCHANGED <<used, rows, n, has_shift, do_defrag, batch, n_tested, scan_from>>
    PROVE  IInv'
    <1>1. plan' \in Plan /\ plan'.ids \in [0 .. plan'.n_kv - 1 -> 0 .. plan'.n_kv]
        BY DEF PlanInv
    <1>2. TypeOK'
        BY <1>1, PlanFieldsNext DEF IInv, TypeOK
    <1>3. pc' \notin {"slot", "find", "found", "compute"}
        OBVIOUS
    <1> QED BY <1>2, <1>3 DEF IInv, BatchLeft, SearchInv, EveryUsedCellAttended

\* ... and some only the plan.
LEMMA UnmovedInv ==
    ASSUME IInv, PlanInv', pc' \in {"defrag", "move", "copy"},
           UNCHANGED <<cells, head, used, rows, n, has_shift, do_defrag, batch, n_tested, scan_from>>
    PROVE  IInv'
    <1>1. UsedIsAccurate'
        BY DEF IInv, UsedIsAccurate, UsedCells, Empty
    <1>2. cells' \in [Index -> Cell] /\ head' \in 0 .. Size
        BY DEF IInv, TypeOK
    <1> QED BY <1>1, <1>2, PlanningInv

\* A cell of the plan gets its place.
LEMMA PlannedIds ==
    ASSUME plan \in Plan, plan.ids \in [0 .. plan.n_kv - 1 -> 0 .. plan.n_kv],
           NEW i \in 0 .. plan.n_kv - 1, NEW j \in 0 .. plan.n_kv
    PROVE  [plan.ids EXCEPT ![i] = j] \in [0 .. plan.n_kv - 1 -> 0 .. plan.n_kv]
    OBVIOUS

LEMMA DefragKeepInv == ASSUME IInv, DefragKeep PROVE IInv'
    <1>0. plan \in Plan /\ plan.ids \in [0 .. plan.n_kv - 1 -> 0 .. plan.n_kv]
        BY DEF IInv, PlanInv
    <1>1. /\ pc = "defrag" /\ pc' = "defrag" /\ plan.i0 < plan.n_used
          /\ plan.n_used <= plan.n_kv /\ plan.moves < MaxMoves
        BY DEF DefragKeep, IInv, PlanInv
    <1>2. plan.i0 \in 0 .. plan.n_kv - 1 /\ plan.i0 \in 0 .. plan.n_kv /\ plan.i0 + 1 \in 0 .. Size
        <2>1. plan.n_kv \in 0 .. Size /\ plan.n_used \in 0 .. Size /\ plan.i0 \in 0 .. Size
            BY <1>0, PlanFields
        <2> QED BY <1>1, <2>1
    <1> DEFINE ids == [plan.ids EXCEPT ![plan.i0] = plan.i0]
    <1>3. ids \in [0 .. plan.n_kv - 1 -> 0 .. plan.n_kv]
        BY <1>0, <1>2, PlannedIds
    <1>4. plan' = [plan EXCEPT !.ids = ids, !.i0 = plan.i0 + 1]
        BY <1>0 DEF DefragKeep, Plan
    <1> HIDE DEF ids
    <1>5. /\ plan'.n_kv = plan.n_kv /\ plan'.n_used = plan.n_used /\ plan'.ids = ids
          /\ plan'.moves = plan.moves
        BY <1>0, <1>4 DEF Plan
    <1>6. plan' \in Plan
        <2>1. ids \in UNION {[0 .. m - 1 -> 0 .. m] : m \in 0 .. Size}
            BY <1>0, <1>3, PlanFields
        <2> QED BY <1>0, <1>2, <1>4, <2>1 DEF Plan
    <1>7. PlanInv'
        BY <1>1, <1>3, <1>5, <1>6 DEF PlanInv
    <1>8. UNCHANGED <<cells, head, used, rows, n, has_shift, do_defrag, batch, n_tested, scan_from>>
        BY DEF DefragKeep, metaVars, flagVars
    <1> QED BY <1>1, <1>7, <1>8, UnmovedInv

LEMMA DefragHoleInv == ASSUME IInv, DefragHole PROVE IInv'
    <1>0. plan \in Plan /\ plan.ids \in [0 .. plan.n_kv - 1 -> 0 .. plan.n_kv]
        BY DEF IInv, PlanInv
    <1>1. pc = "defrag" /\ plan.n_used <= plan.n_kv /\ plan.moves < MaxMoves
        BY DEF DefragHole, IInv, PlanInv
    <1>2. PICK nh \in 1 .. plan.n_used, is \in Index :
              /\ IsHole(nh)
              /\ plan' = [plan EXCEPT !.nh = nh, !.nf = 0, !.i1 = is, !.cont = FALSE]
        BY DEF DefragHole
    <1>3. nh \in 0 .. Size /\ nh >= 1 /\ is \in 0 .. Size /\ 0 \in 0 .. Size
        <2>1. plan.n_used \in 0 .. Size
            BY <1>0, PlanFields
        <2>2. is \in 0 .. Size
            BY DEF Index
        <2> QED BY <2>1, <2>2
    <1>4. plan.i0 + nh <= plan.n_used /\ \A k \in 0 .. nh - 1 : Empty(plan.i0 + k)
        BY <1>2 DEF IsHole
    <1>5. plan' = [plan EXCEPT !.nh = nh, !.nf = 0, !.i1 = is, !.cont = FALSE]
        BY <1>2
    <1>6. /\ plan' \in Plan
          /\ plan'.n_kv = plan.n_kv /\ plan'.n_used = plan.n_used /\ plan'.ids = plan.ids
          /\ plan'.moves = plan.moves /\ plan'.nh = nh /\ plan'.nf = 0 /\ plan'.i0 = plan.i0
        BY <1>0, <1>3, <1>5 DEF Plan
    <1>7. UNCHANGED <<cells, head, used, rows, n, has_shift, do_defrag, batch, n_tested, scan_from>>
        BY DEF DefragHole, metaVars, flagVars
    <1>8. pc' = "move"
        BY DEF DefragHole
    <1>9. PlanInv'
        <2>1. (\A k \in plan.nf .. plan.nh - 1 : Empty(plan.i0 + k))'
            BY <1>4, <1>6, <1>7 DEF Empty
        <2>2. plan'.nf < plan'.nh /\ plan'.i0 + plan'.nh <= plan'.n_used /\ plan'.n_used <= plan'.n_kv
            BY <1>1, <1>3, <1>4, <1>6
        <2>3. plan'.moves < MaxMoves
            BY <1>1, <1>6
        <2>4. plan'.ids \in [0 .. plan'.n_kv - 1 -> 0 .. plan'.n_kv]
            BY <1>0, <1>6
        <2> QED BY <1>6, <1>8, <2>1, <2>2, <2>3, <2>4 DEF PlanInv
    <1> QED BY <1>7, <1>8, <1>9, UnmovedInv

LEMMA PassCellInv == ASSUME IInv, PassCell PROVE IInv'
    <1>0. plan \in Plan /\ plan.ids \in [0 .. plan.n_kv - 1 -> 0 .. plan.n_kv]
        BY DEF IInv, PlanInv
    <1>1. /\ pc = "move" /\ plan.n_used <= plan.n_kv
          /\ plan.nf < plan.nh /\ plan.i0 + plan.nh <= plan.n_used
          /\ \A k \in plan.nf .. plan.nh - 1 : Empty(plan.i0 + k)
        BY DEF PassCell, IInv, PlanInv
    <1>2. UNCHANGED <<cells, head, used, rows, n, has_shift, do_defrag, batch, n_tested, scan_from>>
        BY DEF PassCell, metaVars, flagVars
    <1>3. CASE plan.moves = MaxMoves
        <2>1. pc' = "copy" /\ plan' = plan
            BY <1>3 DEF PassCell
        <2>2. PlanInv'
            BY <1>0, <2>1 DEF PlanInv
        <2> QED BY <1>2, <2>1, <2>2, UnmovedInv
    <1>4. CASE plan.moves # MaxMoves
        <2>1. /\ pc' = "move" /\ plan.i1 < plan.n_kv
              /\ plan' = [plan EXCEPT !.i1 = plan.i1 + 1, !.cont = FALSE]
            BY <1>0, <1>1, <1>4 DEF PassCell, Plan
        <2>2. plan.i1 + 1 \in 0 .. Size /\ plan.moves < MaxMoves
            <3>1. /\ plan.n_kv \in 0 .. Size /\ plan.i1 \in 0 .. Size /\ plan.moves \in 0 .. MaxMoves
                BY <1>0, PlanFields
            <3>2. plan.i1 < plan.n_kv
                BY <2>1
            <3> QED BY <1>4, <3>1, <3>2
        <2>3. plan' \in Plan
            BY <1>0, <2>1, <2>2 DEF Plan
        <2>4. /\ plan'.n_kv = plan.n_kv /\ plan'.n_used = plan.n_used /\ plan'.ids = plan.ids
              /\ plan'.moves = plan.moves /\ plan'.nh = plan.nh /\ plan'.nf = plan.nf
              /\ plan'.i0 = plan.i0
            BY <1>0, <2>1 DEF Plan
        <2>5. PlanInv'
            BY <1>0, <1>1, <1>2, <2>1, <2>2, <2>3, <2>4 DEF PlanInv, Empty
        <2> QED BY <1>2, <2>1, <2>5, UnmovedInv
    <1> QED BY <1>3, <1>4

LEMMA DefragDoneInv == ASSUME IInv, DefragDone PROVE IInv'
    <1>1. /\ pc' = "copy"
          /\ UNCHANGED <<cells, head, used, rows, n, has_shift, do_defrag, batch, n_tested,
                         scan_from, plan>>
        BY DEF DefragDone, DoneAt, metaVars, flagVars
    <1>2. PlanInv'
        BY <1>1 DEF IInv, PlanInv
    <1> QED BY <1>1, <1>2, UnmovedInv

\* A cell that moves leaves the number of used cells as it is.
LEMMA MovedCell ==
    ASSUME IInv, NEW from \in Index, NEW to \in Index, ~Empty(from), Empty(to),
           cells' = [cells EXCEPT ![to] = cells[from], ![from] = NewCell], used' = used
    PROVE  cells' \in [Index -> Cell] /\ UsedIsAccurate'
    <1>0. from # to
        OBVIOUS
    <1>1. NewCell \in Cell /\ NewCell.seq_id = {} /\ NewCell.pos = -1
        BY DEF NewCell, Cell
    <1>2. cells \in [Index -> Cell] /\ cells[from] \in Cell
        BY DEF IInv, TypeOK
    <1>3. cells' \in [Index -> Cell]
        BY <1>1, <1>2
    <1>4. /\ cells'[from] = NewCell /\ cells'[to] = cells[from]
          /\ \A i \in Index \ {from, to} : cells'[i] = cells[i]
        BY <1>0, <1>2
    <1>5. UsedCells' = (UsedCells \ {from}) \cup {to}
        BY <1>0, <1>1, <1>4, ZenonT(60) DEF UsedCells, Empty
    <1>6. \A i \in Index : (cells'[i].seq_id = {}) <=> cells'[i].pos < 0
        <2>1. ASSUME NEW i \in Index PROVE (cells'[i].seq_id = {}) <=> cells'[i].pos < 0
            <3>1. CASE i = from
                BY <1>1, <1>4, <3>1
            <3>2. CASE i = to
                BY <1>4, <3>2, CellTyped
            <3>3. CASE i \notin {from, to}
                BY <1>4, <3>3, CellTyped
            <3> QED BY <3>1, <3>2, <3>3
        <2> QED BY <2>1
    <1>7. Cardinality((UsedCells \ {from}) \cup {to}) = Cardinality(UsedCells)
        <2>1. IsFiniteSet(UsedCells) /\ from \in UsedCells /\ to \notin UsedCells
            BY CellsAreFinite DEF UsedCells
        <2>2. Cardinality(UsedCells) \in Int
            BY <2>1, FS_CardinalityType
        <2>3. IsFiniteSet(UsedCells \ {from}) /\ Cardinality(UsedCells \ {from}) = Cardinality(UsedCells) - 1
            BY <2>1, FS_RemoveElement
        <2>4. to \notin UsedCells \ {from}
            BY <2>1
        <2> DEFINE W == UsedCells \ {from}
        <2> HIDE DEF W
        <2>5. Cardinality(W \cup {to}) = Cardinality(W) + 1
            BY <2>3, <2>4, FS_AddElement DEF W
        <2>6. Cardinality(W) = Cardinality(UsedCells) - 1
            BY <2>3 DEF W
        <2>7. Cardinality(W \cup {to}) = Cardinality(UsedCells)
            BY <2>2, <2>5, <2>6
        <2> QED BY <2>7 DEF W
    <1> QED BY <1>3, <1>5, <1>6, <1>7 DEF IInv, UsedIsAccurate, Empty

\* Where a cell is moved from and to, by the numbers in the plan.
LEMMA PlannedMove ==
    ASSUME NEW n_kv \in 0 .. Size, NEW n_used \in 0 .. Size, NEW i0 \in 0 .. Size,
           NEW nh \in 0 .. Size, NEW nf \in 0 .. Size, NEW i1 \in 0 .. Size,
           n_used <= n_kv, nf < nh, i0 + nh <= n_used, i1 < n_kv
    PROVE  /\ i1 \in Index /\ i0 + nf \in Index /\ i1 \in 0 .. n_kv - 1
           /\ i0 + nf \in 0 .. n_kv
    BY DEF Index

\* The rest of the hole after a move.
LEMMA HoleLeft ==
    ASSUME NEW n_used \in 0 .. Size, NEW i0 \in 0 .. Size,
           NEW nh \in 0 .. Size, NEW nf \in 0 .. Size, i0 + nh <= n_used,
           NEW k \in nf + 1 .. nh - 1
    PROVE  k \in nf .. nh - 1 /\ i0 + k \in Index /\ i0 + k # i0 + nf
    BY DEF Index

LEMMA MoveCellInv == ASSUME IInv, MoveCell PROVE IInv'
    <1>0. plan \in Plan /\ plan.ids \in [0 .. plan.n_kv - 1 -> 0 .. plan.n_kv]
        BY DEF IInv, PlanInv
    <1> DEFINE to == plan.i0 + plan.nf
               moves == plan.moves + IF plan.cont THEN 0 ELSE 1
               ids == [plan.ids EXCEPT ![plan.i1] = to]
               last == plan.nf + 1 = plan.nh \/ plan.i1 + 1 = plan.n_kv
    <1>1. /\ pc = "move" /\ plan.n_used <= plan.n_kv
          /\ plan.nf < plan.nh /\ plan.i0 + plan.nh <= plan.n_used
          /\ \A k \in plan.nf .. plan.nh - 1 : Empty(plan.i0 + k)
          /\ plan.cont \/ plan.moves < MaxMoves
        BY DEF MoveCell, MoveTo, IInv, PlanInv
    <1>2. plan.i1 < plan.n_kv /\ ~Empty(plan.i1)
        BY DEF MoveCell, MoveTo, Movable
    <1>3. /\ cells' = [cells EXCEPT ![to] = cells[plan.i1], ![plan.i1] = NewCell]
          /\ head' = plan.n_used
          /\ UNCHANGED <<used, rows, n, has_shift, do_defrag, batch, n_tested, scan_from>>
        BY DEF MoveCell, MoveTo, flagVars
    <1>4. /\ plan.i1 \in Index /\ to \in Index /\ plan.i1 \in 0 .. plan.n_kv - 1
          /\ to \in 0 .. plan.n_kv
        <2>1. /\ plan.n_kv \in 0 .. Size /\ plan.n_used \in 0 .. Size /\ plan.i0 \in 0 .. Size
              /\ plan.nh \in 0 .. Size /\ plan.nf \in 0 .. Size /\ plan.i1 \in 0 .. Size
            BY <1>0, PlanFields
        <2>2. /\ plan.n_used <= plan.n_kv /\ plan.nf < plan.nh /\ plan.i0 + plan.nh <= plan.n_used
              /\ plan.i1 < plan.n_kv
            BY <1>1, <1>2
        <2> QED BY <2>1, <2>2, PlannedMove, Zenon
    <1>5. Empty(to)
        <2>1. plan.nf \in plan.nf .. plan.nh - 1
            BY <1>0, <1>1, PlanFields
        <2> QED BY <1>1, <2>1
    <1>6. moves \in 0 .. MaxMoves
        BY <1>0, <1>1, PlanFields, SMTT(60)
    <1>7. ids \in [0 .. plan.n_kv - 1 -> 0 .. plan.n_kv]
        BY <1>0, <1>4, PlannedIds
    <1>8. cells' \in [Index -> Cell] /\ UsedIsAccurate'
        BY <1>2, <1>3, <1>4, <1>5, MovedCell
    <1>9. ids \in UNION {[0 .. m - 1 -> 0 .. m] : m \in 0 .. Size}
        BY <1>0, <1>7, PlanFields
    <1>10. PlanInv' /\ pc' \in {"defrag", "move", "copy"}
        <2>1. CASE last
            <3>1. /\ plan' = [plan EXCEPT !.ids = ids, !.moves = moves,
                                         !.i0 = plan.i0 + plan.nh, !.nf = 0, !.nh = 0, !.cont = FALSE]
                  /\ pc' = IF moves = MaxMoves THEN "copy" ELSE "defrag"
                BY <1>0, <2>1 DEF MoveCell, MoveTo, Plan
            <3> HIDE DEF ids, moves
            <3>2. plan.i0 + plan.nh \in 0 .. Size /\ 0 \in 0 .. Size
                BY <1>0, <1>1, PlanFields, SMTT(60)
            <3>3. /\ plan' \in Plan /\ plan'.n_kv = plan.n_kv /\ plan'.n_used = plan.n_used
                  /\ plan'.ids = ids /\ plan'.moves = moves
                BY <1>0, <1>6, <1>9, <3>1, <3>2 DEF Plan
            <3>4. plan'.ids \in [0 .. plan'.n_kv - 1 -> 0 .. plan'.n_kv]
                BY <1>7, <3>3
            <3>5. pc' = "defrag" => plan'.moves < MaxMoves
                BY <1>6, <3>1, <3>3
            <3> QED BY <1>1, <3>1, <3>3, <3>4, <3>5 DEF PlanInv
        <2>2. CASE ~last
            <3>1. /\ plan' = [plan EXCEPT !.ids = ids, !.moves = moves, !.nf = plan.nf + 1,
                                         !.i1 = plan.i1 + 1, !.cont = TRUE]
                  /\ pc' = "move"
                BY <1>0, <1>1, <2>2 DEF MoveCell, MoveTo, Plan
            <3>2. plan.nf + 1 < plan.nh
                BY <1>0, <1>1, <2>2, PlanFields
            <3> HIDE DEF ids, moves
            <3>3. plan.nf + 1 \in 0 .. Size /\ plan.i1 + 1 \in 0 .. Size
                <4>1. /\ plan.nh \in 0 .. Size /\ plan.nf \in 0 .. Size /\ plan.i1 \in 0 .. Size
                      /\ plan.n_kv \in 0 .. Size
                    BY <1>0, PlanFields
                <4>2. plan.nf < plan.nh /\ plan.i1 < plan.n_kv
                    BY <1>1, <1>2
                <4> HIDE DEF last
                <4> QED BY <4>1, <4>2
            <3>4. /\ plan' \in Plan /\ plan'.n_kv = plan.n_kv /\ plan'.n_used = plan.n_used
                  /\ plan'.ids = ids /\ plan'.moves = moves /\ plan'.nf = plan.nf + 1
                  /\ plan'.nh = plan.nh /\ plan'.i0 = plan.i0 /\ plan'.cont = TRUE
                BY <1>0, <1>6, <1>9, <3>1, <3>3 DEF Plan
            <3>5. plan'.ids \in [0 .. plan'.n_kv - 1 -> 0 .. plan'.n_kv]
                BY <1>7, <3>4
            <3>6. (\A k \in plan.nf .. plan.nh - 1 : Empty(plan.i0 + k))'
                <4>1. ASSUME NEW k \in plan.nf + 1 .. plan.nh - 1
                      PROVE  cells'[plan.i0 + k].seq_id = {}
                    <5>1. k \in plan.nf .. plan.nh - 1 /\ plan.i0 + k \in Index /\ plan.i0 + k # to
                        <6>1. /\ plan.n_used \in 0 .. Size /\ plan.i0 \in 0 .. Size
                              /\ plan.nh \in 0 .. Size /\ plan.nf \in 0 .. Size
                            BY <1>0, PlanFields
                        <6>2. plan.i0 + plan.nh <= plan.n_used
                            BY <1>1
                        <6> QED BY <6>1, <6>2, HoleLeft, Zenon
                    <5>2. Empty(plan.i0 + k)
                        BY <1>1, <5>1
                    <5>3. plan.i0 + k # plan.i1
                        BY <1>2, <5>2
                    <5>4. cells \in [Index -> Cell]
                        BY DEF IInv, TypeOK
                    <5>5. cells'[plan.i0 + k] = cells[plan.i0 + k]
                        BY <1>3, <5>1, <5>3, <5>4
                    <5> QED BY <5>2, <5>5 DEF Empty
                <4> QED BY <3>4, <4>1 DEF Empty
            <3>7. plan'.nf < plan'.nh /\ plan'.i0 + plan'.nh <= plan'.n_used /\ plan'.n_used <= plan'.n_kv
                BY <1>1, <3>2, <3>4
            <3> QED BY <3>1, <3>4, <3>5, <3>6, <3>7 DEF PlanInv
        <2> QED BY <2>1, <2>2
    <1>11. head' \in 0 .. Size
        BY <1>0, <1>3, PlanFields
    <1> QED BY <1>3, <1>8, <1>10, <1>11, PlanningInv

LEMMA CopyRowsInv == ASSUME IInv, CopyRows PROVE IInv'
    <1>1. /\ rows' = [j \in Index |-> RowOf(j)] /\ do_defrag' = FALSE /\ pc' = AfterUpdate
          /\ plan' = NoPlan
          /\ UNCHANGED <<cells, head, used, n, has_shift, batch, n_tested, scan_from>>
        BY DEF CopyRows, metaVars
    <1>2. rows' \in [Index -> Row]
        <2>1. ASSUME NEW j \in Index PROVE RowOf(j) \in Row
            <3>1. plan.n_kv \in 0 .. Size /\ rows \in [Index -> Row]
                BY DEF IInv, TypeOK
            <3>2. MovedTo(j) \in SUBSET Index
                BY <3>1 DEF MovedTo, Index
            <3>3. (IF MovedTo(j) = {} THEN j ELSE CHOOSE i \in MovedTo(j) : TRUE) \in Index
                BY <3>2
            <3> QED BY <3>1, <3>3 DEF RowOf
        <2> QED BY <1>1, <2>1
    <1>3. UsedIsAccurate'
        BY <1>1 DEF IInv, UsedIsAccurate, UsedCells, Empty
    <1>4. cells' \in [Index -> Cell] /\ has_shift' \in BOOLEAN
        BY <1>1 DEF IInv, TypeOK
    <1> QED BY <1>1, <1>2, <1>3, <1>4, AfterUpdateInv

-----------------------------------------------------------------------------
(* llama_decode()                                                          *)

LEMMA UbatchLength ==
    ASSUME IInv, batch # << >>
    PROVE  /\ NTokens \in 1 .. Len(batch) /\ NTokens \in Nat /\ NTokens >= 1
           /\ NTokens <= Len(batch) /\ Len(batch) \in Nat /\ batch \in Seq(Token) /\ head \in Nat
    <1>1. batch \in Seq(Token)
        BY DEF IInv, TypeOK
    <1>2. Len(batch) \in Nat /\ Len(batch) # 0
        BY <1>1
    <1>3. head \in Nat
        BY DEF IInv, TypeOK
    <1> QED BY <1>1, <1>2, <1>3 DEF NTokens, Least

\* A step of the search changes head, what it has tested, and where it is.
LEMMA SearchingInv ==
    ASSUME IInv, head' \in 0 .. Size, n_tested' \in Nat, scan_from' \in 0 .. Size,
           \/ pc' = "find" /\ batch' = batch /\ batch # << >>
           \/ pc' = "idle" /\ batch' = << >>,
           UNCHANGED <<cells, rows, used, n, has_shift, do_defrag, plan>>, SearchInv'
    PROVE  IInv'
    <1>1. batch' \in Seq(Token)
        <2>1. batch \in Seq(Token) /\ << >> \in Seq(Token)
            BY DEF IInv, TypeOK
        <2>2. batch' = batch \/ batch' = << >>
            OBVIOUS
        <2> QED BY <2>1, <2>2
    <1>2. pc' \in {"idle", "find"} /\ (pc' = "find" => batch' # << >>)
        OBVIOUS
    <1>3. TypeOK'
        BY <1>1, <1>2 DEF IInv, TypeOK
    <1>4. UsedIsAccurate'
        BY DEF IInv, UsedIsAccurate, UsedCells, Empty
    <1>5. PlanInv'
        BY <1>2 DEF IInv, PlanInv
    <1> QED BY <1>2, <1>3, <1>4, <1>5 DEF IInv, BatchLeft, EveryUsedCellAttended

LEMMA BeginSlotInv == ASSUME IInv, BeginSlot PROVE IInv'
    <1>1. /\ pc = "slot" /\ batch # << >>
          /\ UNCHANGED <<cells, rows, used, n, has_shift, do_defrag, plan>>
        BY DEF BeginSlot, flagVars, IInv, BatchLeft
    <1>2. head' \in 0 .. Size
        BY DEF BeginSlot, IInv, TypeOK
    <1>3. CASE NTokens > Size
        <2>1. pc' = "idle" /\ batch' = << >> /\ n_tested' = 0 /\ scan_from' = 0
            BY <1>3 DEF BeginSlot, NoSlot
        <2>2. SearchInv'
            BY <2>1 DEF SearchInv
        <2> QED BY <1>1, <1>2, <2>1, <2>2, SearchingInv
    <1>4. CASE ~(NTokens > Size)
        <2>1. pc' = "find" /\ batch' = batch /\ n_tested' = 0 /\ scan_from' = head'
            BY <1>4 DEF BeginSlot
        <2>2. FirstRound'
            <3>1. head' = scan_from' + n_tested'
                <4>1. n_tested' = 0 /\ scan_from' = head'
                    BY <2>1
                <4>2. head' \in Int
                    BY <1>2
                <4>3. \A x \in Int : x = x + 0
                    OBVIOUS
                <4> QED BY <4>1, <4>2, <4>3
            <3>2. ASSUME NEW h \in (0 .. Size - NTokens)', h >= scan_from' /\ h < head'
                  PROVE  FALSE
                <4>1. NTokens' = NTokens
                    BY <2>1 DEF NTokens
                <4>2. NTokens \in Int
                    BY <1>1, UbatchLength
                <4> QED BY <1>2, <2>1, <3>2, <4>1, <4>2
            <3> QED BY <3>1, <3>2 DEF FirstRound
        <2>3. SearchInv'
            BY <2>2 DEF SearchInv
        <2> QED BY <1>1, <1>2, <2>1, <2>3, SearchingInv
    <1> QED BY <1>3, <1>4

LEMMA FindWrapInv == ASSUME IInv, FindWrap PROVE IInv'
    <1>1. /\ pc = "find" /\ pc' = "find" /\ head + NTokens > Size
          /\ n_tested' = n_tested + (Size - head) /\ head' = 0
          /\ UNCHANGED <<cells, rows, used, n, has_shift, do_defrag, batch, scan_from, plan>>
        BY DEF FindWrap, flagVars
    <1>2. batch # << >> /\ NTokens' = NTokens
        BY <1>1 DEF IInv, BatchLeft, NTokens
    <1>3. head \in 0 .. Size /\ n_tested \in Nat /\ scan_from \in 0 .. Size
        BY DEF IInv, TypeOK
    <1>4. NTokens \in Nat /\ NTokens >= 1
        BY <1>2, UbatchLength
    <1>5. \A h : Blocked(h)' <=> Blocked(h)
        BY <1>1, <1>2 DEF Blocked
    <1>6. \A h \in 0 .. Size - NTokens : h < head
        BY <1>1, <1>3, <1>4
    <1>7. CASE FirstRound
        <2>1. head + 0 = scan_from + n_tested
            BY <1>3, <1>7 DEF FirstRound
        <2>2. head' + Size = scan_from' + n_tested'
            BY <1>1, <1>3, <2>1
        <2>3. ASSUME NEW h \in 0 .. Size - NTokens, h >= scan_from \/ h < 0 PROVE Blocked(h)
            <3>1. h >= scan_from /\ h < head
                BY <1>3, <1>4, <1>6, <2>3
            <3> QED BY <1>7, <3>1 DEF FirstRound
        <2>4. SecondRound'
            BY <1>1, <1>2, <1>5, <2>2, <2>3 DEF SecondRound
        <2> QED BY <1>1, <1>2, <1>3, <2>4, SearchingInv DEF SearchInv
    <1>8. CASE SecondRound \/ \A h \in 0 .. Size - NTokens : Blocked(h)
        <2>1. \A h \in 0 .. Size - NTokens : Blocked(h)
            BY <1>6, <1>8 DEF SecondRound
        <2>2. SearchInv'
            BY <1>2, <1>5, <2>1 DEF SearchInv
        <2> QED BY <1>1, <1>2, <1>3, <2>2, SearchingInv
    <1> QED BY <1>1, <1>7, <1>8 DEF IInv, SearchInv

LEMMA Reached ==
    ASSUME NEW g \in Nat, NEW t \in Nat, NEW i \in 0 .. t - 1, NEW h \in 0 .. Size - t,
           h >= g, h < g + i + 1
    PROVE  g + i \in h .. h + t - 1
    OBVIOUS

\* What the search has skipped is blocked, as far as it went.
LEMMA SkippedIsBlocked ==
    ASSUME IInv, NEW i \in 0 .. NTokens - 1, NEW tested, SkipOccupied(i, tested),
           NEW h \in 0 .. Size - NTokens, h >= head, h < head + i + 1
    PROVE  Blocked(h)
    <1>1. pc = "find" /\ cells[head + i].pos >= 0 /\ batch # << >>
        BY DEF SkipOccupied, IInv, BatchLeft
    <1>2. NTokens \in Nat /\ head \in Nat
        BY <1>1, UbatchLength
    <1>3. head + i \in h .. h + NTokens - 1
        BY <1>2, Reached, Zenon
    <1> QED BY <1>1, <1>3 DEF Blocked

LEMMA FindOccupiedInv == ASSUME IInv, FindOccupied PROVE IInv'
    <1>0. PICK i \in 0 .. NTokens - 1 : SkipOccupied(i, n_tested + i + 1)
        BY DEF FindOccupied
    <1>1. /\ pc = "find" /\ head + NTokens <= Size /\ head' = head + i + 1
          /\ UNCHANGED <<cells, rows, used, n, has_shift, do_defrag, plan>>
        BY <1>0 DEF SkipOccupied, flagVars
    <1>2. batch # << >>
        BY <1>1 DEF IInv, BatchLeft
    <1>3. head \in 0 .. Size /\ n_tested \in Nat /\ scan_from \in 0 .. Size
        BY DEF IInv, TypeOK
    <1>4. NTokens \in Nat /\ NTokens >= 1
        BY <1>2, UbatchLength
    <1>5. head' \in 0 .. Size
        BY <1>1, <1>3, <1>4
    <1>6. CASE n_tested + i + 1 >= Size
        <2>1. pc' = "idle" /\ batch' = << >> /\ n_tested' = 0 /\ scan_from' = 0
            BY <1>0, <1>6 DEF SkipOccupied, NoSlot
        <2>2. SearchInv'
            BY <2>1 DEF SearchInv
        <2> QED BY <1>1, <1>5, <2>1, <2>2, SearchingInv
    <1>7. CASE ~(n_tested + i + 1 >= Size)
        <2>1. n_tested' = n_tested + i + 1 /\ UNCHANGED <<pc, batch, scan_from>>
            BY <1>0, <1>7 DEF SkipOccupied
        <2>2. NTokens' = NTokens
            BY <2>1 DEF NTokens
        <2>3. \A h : Blocked(h)' <=> Blocked(h)
            BY <1>1, <2>2 DEF Blocked
        <2>4. \A h \in 0 .. Size - NTokens : h >= head /\ h < head' => Blocked(h)
            BY <1>0, <1>1, SkippedIsBlocked
        <2>5. ASSUME FirstRound PROVE SearchInv'
            <3>1. head' = scan_from' + n_tested'
                BY <1>1, <1>3, <2>1, <2>5 DEF FirstRound
            <3>2. \A h \in 0 .. Size - NTokens : h >= scan_from /\ h < head' => Blocked(h)
                BY <1>3, <1>4, <2>4, <2>5 DEF FirstRound
            <3>3. FirstRound'
                BY <2>1, <2>2, <2>3, <3>1, <3>2 DEF FirstRound
            <3> QED BY <3>3 DEF SearchInv
        <2>6. ASSUME SecondRound PROVE SearchInv'
            <3>1. head' + Size = scan_from' + n_tested'
                BY <1>1, <1>3, <2>1, <2>6 DEF SecondRound
            <3>2. \A h \in 0 .. Size - NTokens : h >= scan_from \/ h < head' => Blocked(h)
                BY <1>3, <1>4, <2>4, <2>6 DEF SecondRound
            <3>3. SecondRound'
                BY <2>1, <2>2, <2>3, <3>1, <3>2 DEF SecondRound
            <3> QED BY <3>3 DEF SearchInv
        <2>7. ASSUME \A h \in 0 .. Size - NTokens : Blocked(h) PROVE SearchInv'
            BY <2>2, <2>3, <2>7 DEF SearchInv
        <2>8. SearchInv'
            BY <1>1, <2>5, <2>6, <2>7 DEF IInv, SearchInv
        <2>9. n_tested' \in Nat /\ scan_from' \in 0 .. Size /\ pc' = "find"
            BY <1>1, <1>3, <2>1
        <2> QED BY <1>1, <1>2, <1>5, <2>1, <2>8, <2>9, SearchingInv
    <1> QED BY <1>6, <1>7

\* When the search gives up, it has gone all the way round.
LEMMA GivesUpWhenFull ==
    ASSUME IInv, FindOccupied, pc' = "idle"
    PROVE  \A h \in 0 .. Size - NTokens : Blocked(h)
    <1>0. PICK i \in 0 .. NTokens - 1 : SkipOccupied(i, n_tested + i + 1)
        BY DEF FindOccupied
    <1>1. pc = "find" /\ head + NTokens <= Size /\ batch # << >>
        BY <1>0 DEF SkipOccupied, IInv, BatchLeft
    <1>2. head \in 0 .. Size /\ n_tested \in Nat /\ scan_from \in 0 .. Size
        BY DEF IInv, TypeOK
    <1>3. NTokens \in Nat /\ NTokens >= 1
        BY <1>1, UbatchLength
    <1>4. n_tested + i + 1 >= Size
        BY <1>0, <1>1 DEF SkipOccupied
    <1>5. SUFFICES ASSUME NEW h \in 0 .. Size - NTokens PROVE Blocked(h)
        OBVIOUS
    <1>6. CASE h >= head /\ h < head + i + 1
        BY <1>0, <1>6, SkippedIsBlocked
    <1>7. CASE h < head
        <2>1. CASE FirstRound
            <3>1. h >= scan_from
                BY <1>1, <1>2, <1>3, <1>4, <2>1 DEF FirstRound
            <3> QED BY <1>7, <2>1, <3>1 DEF FirstRound
        <2>2. CASE SecondRound
            BY <1>7, <2>2 DEF SecondRound
        <2> QED BY <1>1, <2>1, <2>2 DEF IInv, SearchInv
    <1>8. CASE h >= head + i + 1
        <2>1. CASE FirstRound
            BY <1>1, <1>2, <1>3, <1>4, <1>8, <2>1 DEF FirstRound
        <2>2. CASE SecondRound
            <3>1. h >= scan_from
                BY <1>1, <1>2, <1>3, <1>4, <1>8, <2>2 DEF SecondRound
            <3> QED BY <2>2, <3>1 DEF SecondRound
        <2> QED BY <1>1, <2>1, <2>2 DEF IInv, SearchInv
    <1> QED BY <1>2, <1>3, <1>6, <1>7, <1>8

\* A cell that takes a token.
Taking(c, x) == [c EXCEPT !.pos = x.pos, !.seq_id = c.seq_id \cup x.seq_id, !.tok = x.tok]

LEMMA TakingCell ==
    ASSUME NEW c \in Cell, NEW x \in Token
    PROVE  /\ Taking(c, x) \in Cell /\ Taking(c, x).seq_id # {}
           /\ Taking(c, x).pos \in Int /\ Taking(c, x).pos >= 0
    <1>1. /\ x.pos \in 0 .. MaxPos /\ x.seq_id \in SUBSET Seqs /\ x.seq_id # {}
          /\ x.tok \in Toks \cup {NoTok}
        BY DEF Token
    <1>2. c.seq_id \in SUBSET Seqs
        BY CellFields
    <1>3. /\ x.pos \in -1 .. MaxPos /\ x.pos \in Int /\ x.pos >= 0
          /\ c.seq_id \cup x.seq_id \in SUBSET Seqs /\ c.seq_id \cup x.seq_id # {}
        BY <1>1, <1>2
    <1>4. /\ Taking(c, x).pos = x.pos /\ Taking(c, x).seq_id = c.seq_id \cup x.seq_id
        BY DEF Taking, Cell
    <1>5. Taking(c, x) \in Cell
        BY <1>1, <1>3 DEF Taking, Cell
    <1> QED BY <1>3, <1>4, <1>5

LEMMA StretchSize ==
    ASSUME NEW a \in Nat, NEW k \in Nat
    PROVE  IsFiniteSet(a .. a + k - 1) /\ Cardinality(a .. a + k - 1) = k
    <1> DEFINE b == a + k - 1
    <1>1. b \in Int /\ a \in Int /\ (a > b <=> k = 0) /\ b - a + 1 = k
        OBVIOUS
    <1> HIDE DEF b
    <1>2. IsFiniteSet(a .. b) /\ Cardinality(a .. b) = IF a > b THEN 0 ELSE b - a + 1
        BY <1>1, FS_Interval
    <1>3. Cardinality(a .. b) = k
        BY <1>1, <1>2
    <1> QED BY <1>2, <1>3 DEF b

LEMMA FindFreeInv == ASSUME IInv, FindFree PROVE IInv'
    <1> DEFINE slot == head .. head + NTokens - 1
               token(i) == batch[i - head + 1]
    <1>1. /\ pc = "find" /\ head + NTokens <= Size /\ used' = used + NTokens
          /\ \A i \in 0 .. NTokens - 1 : cells[head + i].pos < 0
          /\ pc' = "found" /\ n_tested' = 0 /\ scan_from' = 0
          /\ UNCHANGED <<head, rows, n, has_shift, do_defrag, batch, plan>>
        BY DEF FindFree, Filling, flagVars
    <1>2. cells' = [i \in Index |-> IF i \in slot THEN Taking(cells[i], token(i)) ELSE cells[i]]
        BY DEF FindFree, Filling, Taking
    <1>3. batch # << >>
        BY <1>1 DEF IInv, BatchLeft
    <1>4. head \in Nat /\ NTokens \in Nat /\ NTokens >= 1 /\ NTokens <= Len(batch)
          /\ Len(batch) \in Nat /\ batch \in Seq(Token)
        BY <1>3, UbatchLength
    <1>5. ASSUME NEW i \in slot
          PROVE  i \in Index /\ token(i) \in Token /\ cells[i].pos < 0
        <2>1. i \in Index /\ i - head \in 0 .. NTokens - 1 /\ i - head + 1 \in 1 .. Len(batch)
            BY <1>1, <1>4 DEF Index
        <2>2. head + (i - head) = i
            BY <1>4
        <2>3. cells[i].pos < 0
            BY <1>1, <2>1, <2>2
        <2>4. token(i) \in Token
            BY <1>4, <2>1
        <2> QED BY <2>1, <2>3, <2>4
    <1> HIDE DEF token
    <1>6. ASSUME NEW i \in Index
          PROVE  /\ cells'[i] \in Cell
                 /\ (cells'[i].seq_id = {}) <=> (Empty(i) /\ i \notin slot)
                 /\ (cells'[i].seq_id = {}) <=> cells'[i].pos < 0
        <2>1. CASE i \in slot
            <3>1. cells'[i] = Taking(cells[i], token(i))
                BY <1>2, <2>1
            <3>2. cells[i] \in Cell
                BY CellTyped
            <3>3. token(i) \in Token
                BY <1>5, <2>1
            <3>4. cells'[i] \in Cell /\ cells'[i].seq_id # {} /\ cells'[i].pos \in Int /\ cells'[i].pos >= 0
                BY <3>1, <3>2, <3>3, TakingCell
            <3> QED BY <2>1, <3>4
        <2>2. CASE i \notin slot
            <3>1. cells'[i] = cells[i]
                BY <1>2, <2>2
            <3> QED BY <2>2, <3>1, CellTyped DEF Empty
        <2> QED BY <2>1, <2>2
    <1>7. cells' \in [Index -> Cell]
        BY <1>2, <1>6
    <1>8. UsedCells' = UsedCells \cup slot
        <2>1. slot \subseteq Index
            BY <1>5
        <2> QED BY <1>6, <2>1 DEF UsedCells, Empty
    <1>9. UsedCells \cap slot = {}
        <2>1. ASSUME NEW i \in slot PROVE i \notin UsedCells
            <3>1. i \in Index /\ cells[i].pos < 0
                BY <1>5
            <3>2. Empty(i)
                BY <3>1, CellTyped
            <3> QED BY <3>2 DEF UsedCells
        <2> QED BY <2>1
    <1>10. Cardinality(UsedCells \cup slot) = used + NTokens
        <2>1. IsFiniteSet(slot) /\ Cardinality(slot) = NTokens
            <3> HIDE DEF slot
            <3>1. head \in Nat /\ NTokens \in Nat
                BY <1>4
            <3> QED BY <3>1, StretchSize DEF slot
        <2>2. IsFiniteSet(UsedCells) /\ Cardinality(UsedCells) = used /\ used \in Int
            BY CellsAreFinite DEF IInv, UsedIsAccurate, TypeOK, UsedCells
        <2> HIDE DEF slot
        <2>3. Cardinality(UsedCells \cup slot) =
                  Cardinality(UsedCells) + Cardinality(slot) - Cardinality(UsedCells \cap slot)
            BY <2>1, <2>2, FS_Union
        <2>4. Cardinality(UsedCells \cap slot) = 0
            BY <1>9, FS_EmptySet
        <2> QED BY <1>4, <2>1, <2>2, <2>3, <2>4
    <1>11. UsedIsAccurate'
        BY <1>1, <1>6, <1>8, <1>10 DEF UsedIsAccurate, Empty
    <1>12. used' \in 0 .. Size
        <2>1. UsedCells' \in SUBSET Index
            BY DEF UsedCells
        <2>2. Cardinality(UsedCells') \in 0 .. Size
            BY <2>1, CellsAreFinite, Zenon
        <2> QED BY <1>11, <2>2 DEF UsedIsAccurate
    <1>13. TypeOK'
        BY <1>1, <1>7, <1>12, SMTT(60) DEF IInv, TypeOK
    <1>14. PlanInv'
        BY <1>1 DEF IInv, PlanInv
    <1> QED BY <1>1, <1>3, <1>11, <1>13, <1>14 DEF IInv, BatchLeft, SearchInv, EveryUsedCellAttended

\* Rounding up does not lose a cell.
LEMMA RoundedUp == ASSUME NEW m \in Nat PROVE RoundUp(m) \in Int /\ RoundUp(m) >= m
    <1> DEFINE x == m + Pad - 1
    <1>1. x \in Int /\ Pad \in Nat \ {0} /\ x - m = Pad - 1
        OBVIOUS
    <1> HIDE DEF x
    <1>2. (x \div Pad) * Pad \in Int /\ (x \div Pad) * Pad > x - Pad
        BY <1>1
    <1>3. RoundUp(m) = (x \div Pad) * Pad
        BY DEF RoundUp, x
    <1> QED BY <1>1, <1>2, <1>3

LEMMA SetNInv == ASSUME IInv, SetN PROVE IInv'
    <1>1. PICK m \in 0 .. Size : IsCellMax(cells, m) /\ Attending(m)
        BY DEF SetN
    <1>2. /\ pc = "found" /\ pc' = "compute" /\ n' = Least(Size, Most(Pad, RoundUp(m)))
          /\ UNCHANGED <<cells, head, used, rows, has_shift, do_defrag, batch, n_tested, scan_from,
                         plan>>
        BY <1>1 DEF Attending, metaVars, flagVars
    <1>3. n' \in 0 .. Size /\ n' >= m
        BY <1>2, RoundedUp DEF Least, Most
    <1>4. EveryUsedCellAttended'
        <2>1. ASSUME NEW i \in UsedCells PROVE i < n'
            <3>1. i \in 0 .. m - 1
                BY <1>1, UsedBelowMax
            <3>2. m \in Int /\ n' \in Int /\ n' >= m
                BY <1>3
            <3> QED BY <3>1, <3>2
        <2>2. UsedCells' = UsedCells
            BY <1>2 DEF UsedCells, Empty
        <2> QED BY <2>1, <2>2 DEF EveryUsedCellAttended
    <1>5. TypeOK'
        BY <1>2, <1>3 DEF IInv, TypeOK
    <1>6. UsedIsAccurate'
        BY <1>2 DEF IInv, UsedIsAccurate, UsedCells, Empty
    <1>7. PlanInv' /\ BatchLeft'
        BY <1>2 DEF IInv, PlanInv, BatchLeft
    <1> QED BY <1>2, <1>4, <1>5, <1>6, <1>7 DEF IInv, SearchInv

LEMMA ComputeInv == ASSUME IInv, Compute PROVE IInv'
    <1> DEFINE slot == head .. head + NTokens - 1
               row(i) == [tok |-> batch[i - head + 1].tok, rot |-> batch[i - head + 1].pos]
    <1>1. /\ pc = "compute" /\ pc' \in {"idle", "update"}
          /\ head' = (IF head + NTokens >= Size THEN 0 ELSE head + NTokens)
          /\ batch' = SubSeq(batch, NTokens + 1, Len(batch))
          /\ rows' = [i \in Index |-> IF i \in slot THEN row(i) ELSE rows[i]]
          /\ UNCHANGED <<cells, used, n, has_shift, n_tested, scan_from, plan>>
        BY DEF Compute
    <1>2. do_defrag' \in BOOLEAN
        BY DEF Compute, IInv, TypeOK, Fragmented
    <1>3. batch # << >>
        BY <1>1 DEF IInv, BatchLeft
    <1>4. head \in Nat /\ NTokens \in Nat /\ NTokens >= 1 /\ NTokens <= Len(batch)
          /\ Len(batch) \in Nat /\ batch \in Seq(Token)
        BY <1>3, UbatchLength
    <1>5. head' \in 0 .. Size
        BY <1>1, <1>4
    <1>6. rows' \in [Index -> Row]
        <2>1. ASSUME NEW i \in slot PROVE row(i) \in Row
            <3>1. i - head + 1 \in 1 .. Len(batch)
                BY <1>4
            <3>2. batch[i - head + 1] \in Token
                BY <1>4, <3>1
            <3>3. batch[i - head + 1].tok \in Toks /\ batch[i - head + 1].pos \in 0 .. MaxPos
                BY <3>2 DEF Token
            <3> QED BY <3>3 DEF Row
        <2>2. rows \in [Index -> Row]
            BY DEF IInv, TypeOK
        <2> HIDE DEF row
        <2> QED BY <1>1, <2>1, <2>2
    <1>7. batch' \in Seq(Token)
        <2>1. NTokens + 1 \in 1 .. Len(batch) + 1
            BY <1>4
        <2> QED BY <1>1, <1>4, <2>1, SubSeqProperties
    <1>8. TypeOK'
        BY <1>1, <1>2, <1>5, <1>6, <1>7 DEF IInv, TypeOK
    <1>9. UsedIsAccurate'
        BY <1>1 DEF IInv, UsedIsAccurate, UsedCells, Empty
    <1>10. PlanInv'
        BY <1>1 DEF IInv, PlanInv
    <1> QED BY <1>1, <1>8, <1>9, <1>10 DEF IInv, BatchLeft, SearchInv, EveryUsedCellAttended

-----------------------------------------------------------------------------
(* The inductive invariant                                                 *)

LEMMA InitInv == Init => IInv
    <1> SUFFICES ASSUME Init PROVE IInv
        OBVIOUS
    <1>1. /\ cells = [i \in Index |-> NewCell] /\ rows = [i \in Index |-> ZeroRow]
          /\ head = 0 /\ used = 0 /\ n = 0 /\ has_shift = FALSE /\ do_defrag = FALSE
          /\ pc = "idle" /\ batch = << >> /\ n_tested = 0 /\ scan_from = 0 /\ plan = NoPlan
        BY DEF Init
    <1>2. NewCell \in Cell /\ NewCell.seq_id = {} /\ NewCell.pos = -1
        BY DEF NewCell, Cell
    <1>3. ZeroRow \in Row
        BY DEF ZeroRow, Row
    <1>4. cells \in [Index -> Cell] /\ rows \in [Index -> Row]
        BY <1>1, <1>2, <1>3
    <1>5. plan \in Plan /\ plan.ids \in [0 .. plan.n_kv - 1 -> 0 .. plan.n_kv]
        BY <1>1, NoPlanTyped
    <1>6. << >> \in Seq(Token) /\ 0 \in 0 .. Size
        OBVIOUS
    <1>7. TypeOK
        BY <1>1, <1>4, <1>5, <1>6, PlanFields DEF TypeOK
    <1>8. UsedCells = {}
        BY <1>1, <1>2 DEF UsedCells, Empty
    <1>9. UsedIsAccurate
        BY <1>1, <1>2, <1>8, FS_EmptySet DEF UsedIsAccurate, Empty
    <1>10. PlanInv
        BY <1>1, <1>5 DEF PlanInv
    <1> QED BY <1>1, <1>7, <1>9, <1>10 DEF IInv, BatchLeft, SearchInv, EveryUsedCellAttended

LEMMA RequestInv == ASSUME IInv, Request PROVE IInv'
    <1>1. CASE Clear \/ Defrag \/ UpdateRequested \/ Decode
        BY <1>1, ClearInv, DefragInv, UpdateRequestedInv, DecodeInv
    <1>2. ASSUME NEW s \in Seqs, SeqKeep(s) PROVE IInv'
        BY <1>2, SeqKeepInv
    <1>3. ASSUME NEW r \in Ranges PROVE r[1] \in Int /\ r[2] \in Int
        OBVIOUS
    <1>4. ASSUME NEW s \in Seqs \cup {-1}, NEW r \in Ranges, SeqRm(s, r[1], r[2]) PROVE IInv'
        BY <1>3, <1>4, SeqRmInv
    <1>5. ASSUME NEW src \in Seqs, NEW dst \in Seqs, NEW r \in Ranges, SeqCp(src, dst, r[1], r[2])
          PROVE  IInv'
        BY <1>3, <1>5, SeqCpInv
    <1>6. ASSUME NEW s \in Seqs, NEW r \in Ranges, NEW d \in Shifts, SeqAdd(s, r[1], r[2], d)
          PROVE  IInv'
        <2>1. d \in Int
            OBVIOUS
        <2> QED BY <1>3, <1>6, <2>1, SeqAddInv
    <1>7. ASSUME NEW s \in Seqs, NEW r \in Ranges, NEW d \in Divisors, SeqDiv(s, r[1], r[2], d)
          PROVE  IInv'
        <2>1. d \in Nat \ {0}
            OBVIOUS
        <2> QED BY <1>3, <1>7, <2>1, SeqDivInv
    <1> QED BY <1>1, <1>2, <1>4, <1>5, <1>6, <1>7 DEF Request

LEMMA ContinueInv == ASSUME IInv, Continue PROVE IInv'
    BY UpdateInv, DefragKeepInv, DefragHoleInv, MoveCellInv, PassCellInv, DefragDoneInv,
       CopyRowsInv, BeginSlotInv, FindWrapInv, FindOccupiedInv, FindFreeInv, SetNInv, ComputeInv
       DEF Continue

LEMMA NextInv == IInv /\ [Next]_vars => IInv'
    <1> SUFFICES ASSUME IInv, [Next]_vars PROVE IInv'
        OBVIOUS
    <1>1. CASE UNCHANGED vars
        <2>1. UNCHANGED <<cells, rows, head, used, n, has_shift, do_defrag, pc, batch, n_tested,
                          scan_from, plan>>
            BY <1>1 DEF vars, metaVars, flagVars, callVars
        <2>2. TypeOK'
            BY <2>1 DEF IInv, TypeOK
        <2>3. UsedIsAccurate'
            BY <2>1 DEF IInv, UsedIsAccurate, UsedCells, Empty
        <2>4. PlanInv'
            BY <2>1 DEF IInv, PlanInv, Empty
        <2>5. BatchLeft' /\ EveryUsedCellAttended'
            BY <2>1 DEF IInv, BatchLeft, EveryUsedCellAttended, UsedCells, Empty
        <2>6. SearchInv'
            BY <2>1 DEF IInv, SearchInv, FirstRound, SecondRound, Blocked, NTokens
        <2> QED BY <2>2, <2>3, <2>4, <2>5, <2>6 DEF IInv
    <1> QED BY <1>1, RequestInv, ContinueInv DEF Next

-----------------------------------------------------------------------------
(* Theorems                                                                *)

THEOREM Invariant == Spec => []IInv
    BY InitInv, NextInv, PTL DEF Spec

\* The cache and the locals of the call that is under way keep their types: among others,
\* the number of used cells, which wraps around in the code, never drops below zero.
THEOREM TypeCorrect == Spec => []TypeOK
    <1>1. IInv => TypeOK
        BY DEF IInv
    <1> QED BY <1>1, Invariant, PTL

\* used counts the cells in use in a cache of any size, after any calls.
THEOREM UsedCounted == Spec => []UsedIsAccurate
    <1>1. IInv => UsedIsAccurate
        BY DEF IInv
    <1> QED BY <1>1, Invariant, PTL

\* Attention covers all used cells, however the size, the padding and the cells lie.
THEOREM UsedCellsAttended == Spec => []EveryUsedCellAttended
    <1>1. IInv => EveryUsedCellAttended
        BY DEF IInv
    <1> QED BY <1>1, Invariant, PTL

\* A search of any length in a cache of any size that finds no slot has left none out.
THEOREM SearchIsComplete == Spec => FailsOnlyWhenFull
    <1>1. ASSUME IInv, [Next]_vars, pc = "find", pc' = "idle"
          PROVE  \A h \in 0 .. Size - NTokens : \E i \in h .. h + NTokens - 1 : ~Empty(i)
        <2>1. FindOccupied
            <3>1. ~UNCHANGED vars
                BY <1>1 DEF vars, callVars
            <3>2. ~Request
                BY <1>1 DEF Request, Clear, Clearing, Defrag, UpdateRequested, Decode, SeqKeep, Keeping,
                            SeqRm, Removing, SeqCp, SeqAdd, SeqDiv
            <3>3. Continue => FindOccupied
                BY <1>1 DEF Continue, Update, Updating, DefragKeep, DefragHole, MoveCell, MoveTo,
                            PassCell, DefragDone, DoneAt, CopyRows, BeginSlot, FindWrap, FindFree,
                            Filling, SetN, Attending, Compute
            <3> QED BY <1>1, <3>1, <3>2, <3>3 DEF Next
        <2>2. batch # << >>
            BY <1>1 DEF IInv, BatchLeft
        <2>3. NTokens \in Nat /\ NTokens >= 1
            BY <1>1, <2>2, UbatchLength
        <2>4. ASSUME NEW h \in 0 .. Size - NTokens PROVE \E i \in h .. h + NTokens - 1 : ~Empty(i)
            <3>1. Blocked(h)
                BY <1>1, <2>1, GivesUpWhenFull
            <3>2. PICK i \in h .. h + NTokens - 1 : cells[i].pos >= 0
                BY <3>1 DEF Blocked
            <3>3. i \in Index
                BY <2>3 DEF Index
            <3>4. ~Empty(i)
                BY <1>1, <3>2, <3>3, CellTyped
            <3> QED BY <3>4
        <2> QED BY <2>4
    <1> QED BY <1>1, Invariant, PTL DEF Spec, FailsOnlyWhenFull

-----------------------------------------------------------------------------
(* The tokens in the cells                                                 *)

\* SeqCache counts as KVCache does.
LEMMA SameTallies ==
    /\ \A S, f : Abstract!Tally(S, f) = Tally(S, f)
    /\ \A b : Abstract!Copies(b) = Copies(b)
    /\ \A m, b : Abstract!MappedBag(m, b) = MappedBag(m, b)
    /\ \A b : Abstract!Total(b) = Total(b)
    <1>0. ASSUME NEW S PROVE Abstract!Cardinality(S) = Cardinality(S)
        BY Zenon DEF Abstract!Cardinality, Cardinality, Abstract!IsFiniteSet, IsFiniteSet
    <1>1. ASSUME NEW S, NEW f PROVE Abstract!Tally(S, f) = Tally(S, f)
        BY <1>0 DEF Abstract!Tally, Tally
    <1>2. ASSUME NEW b PROVE Abstract!Copies(b) = Copies(b)
        BY DEF Abstract!Copies, Copies
    <1>3. ASSUME NEW m, NEW b PROVE Abstract!MappedBag(m, b) = MappedBag(m, b)
        BY <1>1, <1>2 DEF Abstract!MappedBag, MappedBag
    <1>4. ASSUME NEW b PROVE Abstract!Total(b) = Total(b)
        BY <1>0, <1>2 DEF Abstract!Total, Total
    <1> QED BY <1>1, <1>2, <1>3, <1>4

\* The tokens of the used cells.
Held == [i \in UsedCells |-> TokenIn(cells[i])]

LEMMA ContentIsTally ==
    /\ Content = Tally(UsedCells, Held) /\ Content' = Tally(UsedCells', Held')
    /\ IsFiniteSet(UsedCells) /\ IsFiniteSet(UsedCells')
    <1>1. UsedCells \in SUBSET Index /\ UsedCells' \in SUBSET Index
        BY DEF UsedCells
    <1>2. IsFiniteSet(UsedCells)
        BY <1>1, CellsAreFinite
    <1>3. ASSUME NEW S \in SUBSET Index PROVE IsFiniteSet(S)
        BY CellsAreFinite
    <1>4. IsFiniteSet(UsedCells')
        BY <1>1, <1>3
    <1>5. Content = Tally(UsedCells, Held)
        BY DEF Content, Held
    <1>6. Content' = Tally(UsedCells', Held')
        BY DEF Content, Held
    <1> QED BY <1>2, <1>4, <1>5, <1>6

LEMMA HeldToken ==
    ASSUME NEW i \in UsedCells
    PROVE  Held[i] = TokenIn(cells[i]) /\ Held[i] \in DOMAIN Content
    <1>1. Held[i] = TokenIn(cells[i])
        BY DEF Held
    <1>2. DOMAIN Content = {Held[j] : j \in UsedCells}
        BY ContentIsTally DEF Tally
    <1> QED BY <1>1, <1>2

IsThere(c) == c.seq_id # {} /\ c.pos >= 0

\* What m makes of every token, whichever cell it is in, is what it makes of the content.
LEMMA ContentMapped ==
    ASSUME NEW m,
           \A i \in UsedCells :
               /\ i \in UsedCells' <=> IsThere(m[TokenIn(cells[i])])
               /\ i \in UsedCells' => TokenIn(cells'[i]) = m[TokenIn(cells[i])],
           \A i \in Index : i \notin UsedCells => i \notin UsedCells'
    PROVE  Content' = Abstract!Mapped(m, Content)
    <1> DEFINE to == [i \in UsedCells |-> m[Held[i]]]
               V  == {v \in DOMAIN Tally(UsedCells, to) : IsThere(v)}
               R  == Having(UsedCells, to, V)
    <1>1. Abstract!MappedBag(m, Content) = Tally(UsedCells, to)
        BY ContentIsTally, SameTallies, MappedTally
    <1>2. Abstract!Mapped(m, Content) =
              [c \in {v \in DOMAIN Tally(UsedCells, to) : IsThere(v)} |-> Tally(UsedCells, to)[c]]
        BY <1>1 DEF Abstract!Mapped, Abstract!Valid, IsThere
    <1>3. {v \in DOMAIN Tally(UsedCells, to) : IsThere(v)}
              = {v \in DOMAIN Tally(UsedCells, to) : v \in V}
        OBVIOUS
    <1>8. Abstract!Mapped(m, Content) = Part(Tally(UsedCells, to), V)
        BY <1>2, <1>3 DEF Part
    <1>4. \A i \in UsedCells : to[i] = m[TokenIn(cells[i])] /\ to[i] \in DOMAIN Tally(UsedCells, to)
        BY HeldToken DEF Tally
    <1>5. UsedCells' \subseteq Index
        BY DEF UsedCells
    <1>6. R = UsedCells'
        BY <1>4, <1>5 DEF Having
    <1>7. \A i \in R : to[i] = Held'[i]
        <2>1. ASSUME NEW i \in R PROVE to[i] = Held'[i]
            <3>1. i \in UsedCells /\ i \in UsedCells'
                BY <1>6 DEF Having
            <3>2. Held'[i] = TokenIn(cells'[i])
                BY <3>1 DEF Held
            <3>3. to[i] = m[TokenIn(cells[i])]
                BY <1>4, <3>1
            <3> QED BY <3>1, <3>2, <3>3
        <2> QED BY <2>1
    <1> HIDE DEF V, R, to
    <1>9. Abstract!Mapped(m, Content) = Tally(R, to)
        BY <1>8, TallyOfSome DEF R
    <1>10. Tally(R, to) = Tally(R, Held')
        BY <1>7, TallyOfSame
    <1> QED BY <1>6, <1>9, <1>10, ContentIsTally

\* Tokens that change their cells do not change the content.
LEMMA ContentMoved ==
    ASSUME NEW h \in Bijection(UsedCells, UsedCells'),
           \A i \in UsedCells : TokenIn(cells'[h[i]]) = TokenIn(cells[i])
    PROVE  Content' = Content
    <1>1. \A i \in UsedCells : h[i] \in UsedCells'
        BY DEF Bijection, Injection
    <1>2. \A i \in UsedCells' : Held'[i] = TokenIn(cells'[i])
        BY DEF Held
    <1>3. \A i \in UsedCells : Held'[h[i]] = Held[i]
        BY <1>1, <1>2, HeldToken
    <1> DEFINE U == UsedCells'
               G == Held'
    <1> HIDE DEF U, G
    <1>4. h \in Bijection(UsedCells, U) /\ \A i \in UsedCells : G[h[i]] = Held[i]
        BY <1>3 DEF U, G
    <1>5. Tally(UsedCells, Held) = Tally(U, G)
        BY <1>4, ContentIsTally, SameTally
    <1> QED BY <1>5, ContentIsTally DEF U, G

LEMMA ContentKept ==
    ASSUME \A i \in Index : /\ cells'[i].pos = cells[i].pos /\ cells'[i].seq_id = cells[i].seq_id
                            /\ cells'[i].tok = cells[i].tok
    PROVE  Content' = Content
    <1>1. UsedCells' = UsedCells
        BY DEF UsedCells, Empty
    <1>2. \A i \in UsedCells : TokenIn(cells'[i]) = TokenIn(cells[i])
        BY DEF UsedCells, TokenIn
    <1>3. Held' = Held
        BY <1>1, <1>2 DEF Held
    <1> QED BY <1>1, <1>3, ContentIsTally

-----------------------------------------------------------------------------
(* Operations on sequences                                                 *)

\* An operation applies to the cells whose tokens it applies to.
LEMMA HitsCell ==
    ASSUME NEW i \in Index, NEW s, NEW p0, NEW p1
    PROVE  Abstract!Hits(TokenIn(cells[i]), s, p0, p1) <=> i \in Hit(s, p0, p1)
    BY DEF Abstract!Hits, Abstract!From, From, TokenIn, Hit, InRange

\* The token in a cell, and when it is there.
LEMMA TokenThere ==
    ASSUME NEW c
    PROVE  /\ TokenIn(c).pos = c.pos /\ TokenIn(c).seq_id = c.seq_id /\ TokenIn(c).tok = c.tok
           /\ IsThere(TokenIn(c)) <=> c.seq_id # {} /\ c.pos >= 0
    BY DEF TokenIn, IsThere

LEMMA UsedThere ==
    ASSUME IInv, NEW i \in Index
    PROVE  i \in UsedCells <=> IsThere(TokenIn(cells[i]))
    <1>1. cells[i].pos \in Int /\ (cells[i].seq_id = {} <=> cells[i].pos < 0)
        BY CellTyped
    <1> QED BY <1>1, TokenThere DEF UsedCells, Empty

\* A token elsewhere or in other sequences.
Labelled(t, q) == [t EXCEPT !.seq_id = q]
Placed(t, p)   == [t EXCEPT !.pos = p]

LEMMA ChangedToken ==
    ASSUME NEW c, NEW q, NEW p
    PROVE  /\ Labelled(TokenIn(c), q) = [pos |-> c.pos, seq_id |-> q, tok |-> c.tok]
           /\ Placed(TokenIn(c), p) = [pos |-> p, seq_id |-> c.seq_id, tok |-> c.tok]
    BY DEF Labelled, Placed, TokenIn

LEMMA ClearedCells == ASSUME Clear PROVE Content' = Abstract!EmptyBag
    <1>1. \A i \in Index : cells'[i] = Freed(cells[i])
        BY DEF Clear, Clearing
    <1>2. ASSUME NEW i \in Index PROVE cells'[i].seq_id = {}
        <2>1. Freed(cells[i]).seq_id = {}
            BY DEF Freed
        <2> QED BY <1>1, <2>1
    <1>3. UsedCells' = {}
        BY <1>2 DEF UsedCells, Empty
    <1>4. Content' = Tally({}, Held')
        BY <1>3, ContentIsTally
    <1> QED BY <1>4 DEF Tally, Abstract!EmptyBag, Abstract!SetToBag

LEMMA RemovedTokens ==
    ASSUME IInv, NEW s, NEW p0 \in Int, NEW p1, SeqRm(s, p0, p1)
    PROVE  Content' = Abstract!Removed(Content, s, p0, p1)
    <1> DEFINE rest(c) == IF s < 0 THEN {} ELSE c.seq_id \ {s}
               m == [c \in DOMAIN Content |->
                        IF ~Abstract!Hits(c, s, p0, p1) THEN c ELSE Labelled(c, rest(c))]
    <1>1. cells' = [i \in Index |-> IF i \in FreedBy(s, p0, p1) THEN Freed(cells[i])
                                    ELSE IF i \in Hit(s, p0, p1)
                                    THEN Relabelled(cells[i], Without(i, s))
                                    ELSE cells[i]]
        BY DEF SeqRm, Removing, Relabelled
    <1>2. Abstract!Removed(Content, s, p0, p1) = Abstract!Mapped(m, Content)
        BY DEF Abstract!Removed, Labelled
    <1>3. ASSUME NEW i \in Index, i \notin UsedCells PROVE i \notin UsedCells'
        <2>1. i \notin Hit(s, p0, p1) /\ i \notin FreedBy(s, p0, p1)
            BY <1>3, HitUsed DEF FreedBy
        <2> QED BY <1>1, <1>3, <2>1 DEF UsedCells, Empty
    <1>4. ASSUME NEW i \in UsedCells
          PROVE  /\ i \in UsedCells' <=> IsThere(m[TokenIn(cells[i])])
                 /\ i \in UsedCells' => TokenIn(cells'[i]) = m[TokenIn(cells[i])]
        <2>1. i \in Index /\ cells[i] \in Cell /\ cells[i].pos >= 0 /\ cells[i].seq_id # {}
            BY CellTyped DEF UsedCells, Empty
        <2>2. TokenIn(cells[i]) \in DOMAIN Content
            BY HeldToken
        <2>3. CASE i \notin Hit(s, p0, p1)
            <3>1. m[TokenIn(cells[i])] = TokenIn(cells[i])
                BY <2>1, <2>2, <2>3, HitsCell
            <3>2. i \notin FreedBy(s, p0, p1)
                BY <2>3 DEF FreedBy
            <3>3. cells'[i] = cells[i]
                BY <1>1, <2>1, <2>3, <3>2
            <3> QED BY <2>1, <3>1, <3>3, TokenThere DEF UsedCells, Empty
        <2>4. CASE i \in Hit(s, p0, p1)
            <3>1. m[TokenIn(cells[i])] = Labelled(TokenIn(cells[i]), Without(i, s))
                BY <2>1, <2>2, <2>4, HitsCell, TokenThere DEF Without
            <3>2. m[TokenIn(cells[i])] =
                      [pos |-> cells[i].pos, seq_id |-> Without(i, s), tok |-> cells[i].tok]
                BY <3>1, ChangedToken
            <3> HIDE DEF m
            <3>3. CASE Without(i, s) = {}
                <4>1. cells'[i] = Freed(cells[i])
                    BY <1>1, <2>1, <2>4, <3>3 DEF FreedBy
                <4>2. cells'[i].seq_id = {}
                    BY <2>1, <4>1 DEF Freed, Cell
                <4> QED BY <3>2, <3>3, <4>2 DEF UsedCells, Empty, IsThere
            <3>4. CASE Without(i, s) # {}
                <4>1. cells'[i] = Relabelled(cells[i], Without(i, s))
                    BY <1>1, <2>1, <2>4, <3>4 DEF FreedBy
                <4>2. /\ cells'[i].pos = cells[i].pos /\ cells'[i].tok = cells[i].tok
                      /\ cells'[i].seq_id = Without(i, s)
                    BY <2>1, <4>1 DEF Relabelled, Cell
                <4>3. TokenIn(cells'[i]) = m[TokenIn(cells[i])]
                    BY <3>2, <4>2 DEF TokenIn
                <4>4. i \in UsedCells' /\ IsThere(TokenIn(cells'[i]))
                    BY <2>1, <3>4, <4>2, TokenThere DEF UsedCells, Empty
                <4> QED BY <4>3, <4>4
            <3> QED BY <3>3, <3>4
        <2> QED BY <2>3, <2>4
    <1> HIDE DEF m
    <1> QED BY <1>2, <1>3, <1>4, ContentMapped

LEMMA CopiedTokens ==
    ASSUME IInv, NEW src, NEW dst, NEW p0 \in Int, NEW p1, SeqCp(src, dst, p0, p1)
    PROVE  Content' = Abstract!Copied(Content, src, dst, p0, p1)
    <1> DEFINE with(c) == c.seq_id \cup {dst}
               m == [c \in DOMAIN Content |->
                        IF Abstract!Hits(c, src, p0, p1) THEN Labelled(c, with(c)) ELSE c]
    <1>1. cells' = [i \in Index |-> IF i \in Hit(src, p0, p1)
                                    THEN Relabelled(cells[i], with(cells[i])) ELSE cells[i]]
        BY DEF SeqCp, Relabelled
    <1>2. Abstract!Copied(Content, src, dst, p0, p1) = Abstract!Mapped(m, Content)
        BY DEF Abstract!Copied, Labelled
    <1>3. ASSUME NEW i \in Index, i \notin UsedCells PROVE i \notin UsedCells'
        <2>1. i \notin Hit(src, p0, p1)
            BY <1>3, HitUsed
        <2> QED BY <1>1, <1>3, <2>1 DEF UsedCells, Empty
    <1>4. ASSUME NEW i \in UsedCells
          PROVE  /\ i \in UsedCells' <=> IsThere(m[TokenIn(cells[i])])
                 /\ i \in UsedCells' => TokenIn(cells'[i]) = m[TokenIn(cells[i])]
        <2>1. i \in Index /\ cells[i] \in Cell /\ cells[i].pos >= 0 /\ cells[i].seq_id # {}
            BY CellTyped DEF UsedCells, Empty
        <2>2. TokenIn(cells[i]) \in DOMAIN Content
            BY HeldToken
        <2>3. CASE i \notin Hit(src, p0, p1)
            <3>1. m[TokenIn(cells[i])] = TokenIn(cells[i])
                BY <2>1, <2>2, <2>3, HitsCell
            <3>2. cells'[i] = cells[i]
                BY <1>1, <2>1, <2>3
            <3> QED BY <2>1, <3>1, <3>2, TokenThere DEF UsedCells, Empty
        <2>4. CASE i \in Hit(src, p0, p1)
            <3>1. m[TokenIn(cells[i])] = Labelled(TokenIn(cells[i]), with(cells[i]))
                BY <2>1, <2>2, <2>4, HitsCell, TokenThere
            <3>2. m[TokenIn(cells[i])] =
                      [pos |-> cells[i].pos, seq_id |-> with(cells[i]), tok |-> cells[i].tok]
                BY <3>1, ChangedToken
            <3> HIDE DEF m
            <3>3. cells'[i] = Relabelled(cells[i], with(cells[i]))
                BY <1>1, <2>1, <2>4
            <3>4. /\ cells'[i].pos = cells[i].pos /\ cells'[i].tok = cells[i].tok
                  /\ cells'[i].seq_id = with(cells[i])
                BY <2>1, <3>3 DEF Relabelled, Cell
            <3>5. TokenIn(cells'[i]) = m[TokenIn(cells[i])]
                BY <3>2, <3>4 DEF TokenIn
            <3>6. i \in UsedCells' /\ IsThere(TokenIn(cells'[i]))
                BY <2>1, <3>4, TokenThere DEF UsedCells, Empty
            <3> QED BY <3>5, <3>6
        <2> QED BY <2>3, <2>4
    <1> HIDE DEF m
    <1> QED BY <1>2, <1>3, <1>4, ContentMapped

LEMMA KeptTokens ==
    ASSUME IInv, NEW s, SeqKeep(s)
    PROVE  Content' = Abstract!KeptOnly(Content, s)
    <1> DEFINE m == [c \in DOMAIN Content |-> Labelled(c, c.seq_id \cap {s})]
    <1>1. cells' = [i \in Index |-> IF s \notin cells[i].seq_id THEN Freed(cells[i])
                                    ELSE Relabelled(cells[i], {s})]
        BY DEF SeqKeep, Keeping, Relabelled
    <1>2. Abstract!KeptOnly(Content, s) = Abstract!Mapped(m, Content)
        BY DEF Abstract!KeptOnly, Labelled
    <1>3. \A i \in Index : s \notin cells[i].seq_id => i \notin UsedCells'
        <2>1. ASSUME NEW i \in Index, s \notin cells[i].seq_id PROVE cells'[i].seq_id = {}
            <3>1. cells[i] \in Cell /\ cells'[i] = Freed(cells[i])
                BY <1>1, <2>1, CellTyped
            <3> QED BY <3>1 DEF Freed, Cell
        <2> QED BY <2>1 DEF UsedCells, Empty
    <1>4. ASSUME NEW i \in UsedCells
          PROVE  /\ i \in UsedCells' <=> IsThere(m[TokenIn(cells[i])])
                 /\ i \in UsedCells' => TokenIn(cells'[i]) = m[TokenIn(cells[i])]
        <2>1. i \in Index /\ cells[i] \in Cell /\ cells[i].pos >= 0 /\ cells[i].seq_id # {}
            BY CellTyped DEF UsedCells, Empty
        <2>2. TokenIn(cells[i]) \in DOMAIN Content
            BY HeldToken
        <2>3. m[TokenIn(cells[i])] = [pos |-> cells[i].pos, seq_id |-> cells[i].seq_id \cap {s},
                                      tok |-> cells[i].tok]
            <3>1. m[TokenIn(cells[i])] = Labelled(TokenIn(cells[i]), cells[i].seq_id \cap {s})
                BY <2>2, TokenThere
            <3> QED BY <3>1, ChangedToken
        <2> HIDE DEF m
        <2>4. CASE s \notin cells[i].seq_id
            BY <1>3, <2>1, <2>3, <2>4 DEF IsThere
        <2>5. CASE s \in cells[i].seq_id
            <3>1. cells'[i] = Relabelled(cells[i], {s})
                BY <1>1, <2>1, <2>5
            <3>2. cells'[i].pos = cells[i].pos /\ cells'[i].tok = cells[i].tok /\ cells'[i].seq_id = {s}
                BY <2>1, <3>1 DEF Relabelled, Cell
            <3>3. cells[i].seq_id \cap {s} = {s}
                BY <2>5
            <3>4. TokenIn(cells'[i]) = m[TokenIn(cells[i])]
                BY <2>3, <3>2, <3>3 DEF TokenIn
            <3>5. i \in UsedCells' /\ IsThere(TokenIn(cells'[i]))
                BY <2>1, <3>2, TokenThere DEF UsedCells, Empty
            <3> QED BY <3>4, <3>5
        <2> QED BY <2>4, <2>5
    <1>5. \A i \in Index : i \notin UsedCells => i \notin UsedCells'
        BY <1>3 DEF UsedCells, Empty
    <1> HIDE DEF m
    <1> QED BY <1>2, <1>4, <1>5, ContentMapped

LEMMA ShiftedTokens ==
    ASSUME IInv, NEW s, NEW p0 \in Int, NEW p1, NEW d \in Int, SeqAdd(s, p0, p1, d)
    PROVE  Content' = Abstract!Shifted(Content, s, p0, p1, d)
    <1> DEFINE to(c) == c.pos + d
               m == [c \in DOMAIN Content |->
                        IF Abstract!Hits(c, s, p0, p1) THEN Placed(c, to(c)) ELSE c]
               moved(i) == At(cells[i], to(cells[i]), cells[i].delta + d)
               H == Hit(s, p0, p1)
    <1>1. cells' = [i \in Index |-> IF i \in {j \in H : to(cells[j]) < 0} THEN Freed(moved(i))
                                    ELSE IF i \in H THEN moved(i) ELSE cells[i]]
        BY DEF SeqAdd, At
    <1>2. Abstract!Shifted(Content, s, p0, p1, d) = Abstract!Mapped(m, Content)
        BY DEF Abstract!Shifted, Placed
    <1>3. ASSUME NEW i \in Index, i \notin UsedCells PROVE i \notin UsedCells'
        <2>1. i \notin H
            BY <1>3, HitUsed
        <2> HIDE DEF H
        <2>2. cells'[i] = cells[i]
            BY <1>1, <2>1
        <2> QED BY <1>3, <2>2 DEF UsedCells, Empty
    <1>4. ASSUME NEW i \in UsedCells
          PROVE  /\ i \in UsedCells' <=> IsThere(m[TokenIn(cells[i])])
                 /\ i \in UsedCells' => TokenIn(cells'[i]) = m[TokenIn(cells[i])]
        <2>1. /\ i \in Index /\ cells[i] \in Cell /\ cells[i].pos >= 0 /\ cells[i].seq_id # {}
              /\ cells[i].pos \in Int /\ cells[i].delta \in Int
            BY CellTyped DEF UsedCells, Empty
        <2>2. TokenIn(cells[i]) \in DOMAIN Content
            BY HeldToken
        <2>3. CASE i \notin H
            <3>1. m[TokenIn(cells[i])] = TokenIn(cells[i])
                BY <2>1, <2>2, <2>3, HitsCell
            <3> HIDE DEF H
            <3>2. cells'[i] = cells[i]
                BY <1>1, <2>1, <2>3
            <3> QED BY <2>1, <3>1, <3>2, TokenThere DEF UsedCells, Empty
        <2>4. CASE i \in H
            <3>1. m[TokenIn(cells[i])] = Placed(TokenIn(cells[i]), to(cells[i]))
                BY <2>1, <2>2, <2>4, HitsCell, TokenThere
            <3>2. m[TokenIn(cells[i])] =
                      [pos |-> to(cells[i]), seq_id |-> cells[i].seq_id, tok |-> cells[i].tok]
                BY <3>1, ChangedToken
            <3>3. /\ moved(i).pos = to(cells[i]) /\ moved(i).seq_id = cells[i].seq_id
                  /\ moved(i).tok = cells[i].tok
                BY <2>1 DEF At, Cell
            <3>4. to(cells[i]) \in Int /\ cells[i].delta + d \in Int
                BY <2>1
            <3>7. moved(i) \in LooseCell
                <4> HIDE DEF to
                <4> QED BY <2>1, <3>4, AtIsLoose
            <3> HIDE DEF m, H, moved, to
            <3>5. CASE to(cells[i]) < 0
                <4>1. cells'[i] = Freed(moved(i))
                    BY <1>1, <2>1, <2>4, <3>5
                <4>2. cells'[i].seq_id = {}
                    BY <3>7, <4>1, FreedCell
                <4> QED BY <3>2, <3>4, <3>5, <4>2 DEF UsedCells, Empty, IsThere
            <3>6. CASE ~(to(cells[i]) < 0)
                <4>1. cells'[i] = moved(i)
                    BY <1>1, <2>1, <2>4, <3>6
                <4>2. TokenIn(cells'[i]) = m[TokenIn(cells[i])]
                    BY <3>2, <3>3, <4>1 DEF TokenIn
                <4>3. i \in UsedCells' /\ IsThere(TokenIn(cells'[i]))
                    BY <2>1, <3>3, <3>4, <3>6, <4>1, TokenThere DEF UsedCells, Empty
                <4> QED BY <4>2, <4>3
            <3> QED BY <3>5, <3>6
        <2> QED BY <2>3, <2>4
    <1> HIDE DEF m
    <1> QED BY <1>2, <1>3, <1>4, ContentMapped, SMTT(60)

LEMMA DividedTokens ==
    ASSUME IInv, NEW s, NEW p0 \in Int, NEW p1, NEW d \in Nat \ {0}, SeqDiv(s, p0, p1, d)
    PROVE  Content' = Abstract!Divided(Content, s, p0, p1, d)
    <1> DEFINE to(c) == c.pos \div d
               m == [c \in DOMAIN Content |->
                        IF Abstract!Hits(c, s, p0, p1) THEN Placed(c, to(c)) ELSE c]
               moved(i) == At(cells[i], to(cells[i]), cells[i].delta + to(cells[i]) - cells[i].pos)
               H == Hit(s, p0, p1)
    <1>1. cells' = [i \in Index |-> IF i \in H THEN moved(i) ELSE cells[i]]
        BY DEF SeqDiv, At
    <1>2. Abstract!Divided(Content, s, p0, p1, d) = Abstract!Mapped(m, Content)
        BY DEF Abstract!Divided, Placed
    <1>3. ASSUME NEW i \in Index, i \notin UsedCells PROVE i \notin UsedCells'
        <2>1. i \notin H
            BY <1>3, HitUsed
        <2> HIDE DEF H
        <2>2. cells'[i] = cells[i]
            BY <1>1, <2>1
        <2> QED BY <1>3, <2>2 DEF UsedCells, Empty
    <1>4. ASSUME NEW i \in UsedCells
          PROVE  /\ i \in UsedCells' <=> IsThere(m[TokenIn(cells[i])])
                 /\ i \in UsedCells' => TokenIn(cells'[i]) = m[TokenIn(cells[i])]
        <2>1. /\ i \in Index /\ cells[i] \in Cell /\ cells[i].pos >= 0 /\ cells[i].seq_id # {}
              /\ cells[i].pos \in Nat
            BY CellTyped DEF UsedCells, Empty
        <2>2. TokenIn(cells[i]) \in DOMAIN Content
            BY HeldToken
        <2>3. CASE i \notin H
            <3>1. m[TokenIn(cells[i])] = TokenIn(cells[i])
                BY <2>1, <2>2, <2>3, HitsCell
            <3> HIDE DEF H
            <3>2. cells'[i] = cells[i]
                BY <1>1, <2>1, <2>3
            <3> QED BY <2>1, <3>1, <3>2, TokenThere DEF UsedCells, Empty
        <2>4. CASE i \in H
            <3>1. m[TokenIn(cells[i])] = Placed(TokenIn(cells[i]), to(cells[i]))
                BY <2>1, <2>2, <2>4, HitsCell, TokenThere
            <3>2. m[TokenIn(cells[i])] =
                      [pos |-> to(cells[i]), seq_id |-> cells[i].seq_id, tok |-> cells[i].tok]
                BY <3>1, ChangedToken
            <3>3. /\ moved(i).pos = to(cells[i]) /\ moved(i).seq_id = cells[i].seq_id
                  /\ moved(i).tok = cells[i].tok
                BY <2>1 DEF At, Cell
            <3>4. to(cells[i]) \in Nat
                BY <2>1, Divided
            <3> HIDE DEF m, H, moved, to
            <3>5. cells'[i] = moved(i)
                BY <1>1, <2>1, <2>4
            <3>6. TokenIn(cells'[i]) = m[TokenIn(cells[i])]
                BY <3>2, <3>3, <3>5 DEF TokenIn
            <3>7. i \in UsedCells' /\ IsThere(TokenIn(cells'[i]))
                BY <2>1, <3>3, <3>4, <3>5, TokenThere DEF UsedCells, Empty
            <3> QED BY <3>6, <3>7
        <2> QED BY <2>3, <2>4
    <1> HIDE DEF m
    <1> QED BY <1>2, <1>3, <1>4, ContentMapped

-----------------------------------------------------------------------------
(* Updates and batches                                                     *)

LEMMA SettledTokens == ASSUME IInv, Update PROVE Content' = Content
    <1>1. ASSUME NEW i \in Index
          PROVE  /\ cells'[i].pos = cells[i].pos /\ cells'[i].seq_id = cells[i].seq_id
                 /\ cells'[i].tok = cells[i].tok
        <2>1. cells[i] \in Cell
            BY CellTyped
        <2>2. cells'[i] = [cells[i] EXCEPT !.delta = 0] \/ cells'[i] = cells[i]
            BY DEF Update, Updating
        <2> QED BY <2>1, <2>2 DEF Cell
    <1> QED BY <1>1, ContentKept

LEMMA MovedTokens ==
    ASSUME IInv, NEW from \in Index, NEW to \in Index, ~Empty(from), Empty(to),
           cells' = [cells EXCEPT ![to] = cells[from], ![from] = NewCell]
    PROVE  Content' = Content
    <1> DEFINE h == [i \in UsedCells |-> IF i = from THEN to ELSE i]
    <1>0. from # to /\ from \in UsedCells /\ to \notin UsedCells
        BY DEF UsedCells
    <1>1. /\ cells'[from] = NewCell /\ cells'[to] = cells[from]
          /\ \A i \in Index \ {from, to} : cells'[i] = cells[i]
        BY <1>0 DEF IInv, TypeOK
    <1>2. NewCell.seq_id = {}
        BY DEF NewCell
    <1>3. UsedCells' = (UsedCells \ {from}) \cup {to}
        BY <1>0, <1>1, <1>2 DEF UsedCells, Empty
    <1>4. h \in Bijection(UsedCells, (UsedCells \ {from}) \cup {to})
        BY <1>0 DEF Bijection, Injection, Surjection, IsInjective
    <1>5. \A i \in UsedCells : cells'[h[i]] = cells[i]
        BY <1>0, <1>1 DEF UsedCells
    <1> HIDE DEF h
    <1>6. h \in Bijection(UsedCells, UsedCells')
        BY <1>3, <1>4
    <1> QED BY <1>5, <1>6, ContentMoved

LEMMA DefraggedTokens == ASSUME IInv, MoveCell PROVE Content' = Content
    <1> DEFINE to == plan.i0 + plan.nf
    <1>0. plan \in Plan
        BY DEF IInv, PlanInv
    <1>1. /\ plan.n_used <= plan.n_kv /\ plan.nf < plan.nh /\ plan.i0 + plan.nh <= plan.n_used
          /\ \A k \in plan.nf .. plan.nh - 1 : Empty(plan.i0 + k)
        BY DEF MoveCell, MoveTo, IInv, PlanInv
    <1>2. plan.i1 < plan.n_kv /\ ~Empty(plan.i1)
        BY DEF MoveCell, MoveTo, Movable
    <1>3. cells' = [cells EXCEPT ![to] = cells[plan.i1], ![plan.i1] = NewCell]
        BY DEF MoveCell, MoveTo
    <1>4. plan.i1 \in Index /\ to \in Index
        <2>1. /\ plan.n_kv \in 0 .. Size /\ plan.n_used \in 0 .. Size /\ plan.i0 \in 0 .. Size
              /\ plan.nh \in 0 .. Size /\ plan.nf \in 0 .. Size /\ plan.i1 \in 0 .. Size
            BY <1>0, PlanFields
        <2> QED BY <1>1, <1>2, <2>1, PlannedMove, Zenon
    <1>5. Empty(to)
        <2>1. plan.nf \in plan.nf .. plan.nh - 1
            BY <1>0, <1>1, PlanFields
        <2> QED BY <1>1, <2>1
    <1> QED BY <1>2, <1>3, <1>4, <1>5, MovedTokens

\* The count of a token in the content and in what is stored.
LEMMA StoredTally ==
    ASSUME NEW b, NEW q
    PROVE  Abstract!Stored(b, q) = AddedUp(b, Tally(DOMAIN q, q))
    BY SameTallies DEF Abstract!Stored, Abstract!(+), AddedUp, CountIn

LEMMA ArrivedTokens ==
    ASSUME IInv, FindFree
    PROVE  /\ NTokens \in 1 .. Len(batch)
           /\ Content' = Abstract!Stored(Content, SubSeq(batch, 1, NTokens))
    <1> DEFINE slot == head .. head + NTokens - 1
               q    == SubSeq(batch, 1, NTokens)
               g    == [i \in slot |-> batch[i - head + 1]]
               h    == [i \in slot |-> i - head + 1]
    <1>1. /\ pc = "find" /\ head + NTokens <= Size
          /\ \A i \in 0 .. NTokens - 1 : cells[head + i].pos < 0
          /\ cells' = [i \in Index |-> IF i \in slot THEN Taking(cells[i], batch[i - head + 1])
                                                     ELSE cells[i]]
        BY DEF FindFree, Filling, Taking
    <1>2. batch # << >>
        BY <1>1 DEF IInv, BatchLeft
    <1>3. /\ NTokens \in 1 .. Len(batch) /\ head \in Nat /\ NTokens \in Nat /\ NTokens >= 1
          /\ NTokens <= Len(batch) /\ Len(batch) \in Nat /\ batch \in Seq(Token)
        BY <1>2, UbatchLength
    <1>4. ASSUME NEW i \in slot
          PROVE  /\ i \in Index /\ i \notin UsedCells /\ i \in UsedCells'
                 /\ h[i] \in 1 .. NTokens /\ TokenIn(cells'[i]) = g[i] /\ g[i] = q[h[i]]
        <2>1. i \in Index /\ i - head \in 0 .. NTokens - 1 /\ i - head + 1 \in 1 .. NTokens
              /\ i - head + 1 \in 1 .. Len(batch)
            BY <1>1, <1>3 DEF Index
        <2>2. cells[i].pos < 0
            <3>1. head + (i - head) = i
                BY <1>3
            <3> QED BY <1>1, <2>1, <3>1
        <2>3. Empty(i) /\ cells[i] \in Cell
            BY <2>1, <2>2, CellTyped
        <2>4. batch[i - head + 1] \in Token
            BY <1>3, <2>1
        <2>5. cells'[i] = Taking(cells[i], batch[i - head + 1])
            BY <1>1, <2>1
        <2> DEFINE x == batch[i - head + 1]
        <2>6. /\ x = [pos |-> x.pos, seq_id |-> x.seq_id, tok |-> x.tok] /\ x.seq_id # {}
            BY <2>4 DEF Token
        <2> HIDE DEF x
        <2>7. cells'[i].pos = x.pos /\ cells'[i].seq_id = x.seq_id /\ cells'[i].tok = x.tok
            BY <2>3, <2>5 DEF x, Taking, Cell, Empty
        <2>8. TokenIn(cells'[i]) = x
            BY <2>6, <2>7 DEF TokenIn
        <2>9. i \notin UsedCells /\ i \in UsedCells'
            BY <2>1, <2>3, <2>6, <2>7 DEF UsedCells, Empty
        <2>10. q[i - head + 1] = x
            BY <1>3, <2>1, SMTT(60) DEF x
        <2> QED BY <2>1, <2>8, <2>9, <2>10 DEF x
    <1>5. UsedCells' = UsedCells \cup slot /\ UsedCells \cap slot = {}
        <2>1. ASSUME NEW i \in Index, i \notin slot PROVE cells'[i] = cells[i]
            BY <1>1, <2>1
        <2> HIDE DEF slot
        <2> QED BY <1>4, <2>1 DEF UsedCells, Empty
    <1>6. IsFiniteSet(slot)
        BY <1>3, StretchSize
    <1>7. DOMAIN q = 1 .. NTokens
        BY <1>3
    <1>8. h \in Bijection(slot, DOMAIN q)
        <2>1. \A j \in 1 .. NTokens : j + head - 1 \in slot /\ (j + head - 1) - head + 1 = j
            BY <1>3
        <2>2. \A i, j \in slot : i - head + 1 = j - head + 1 => i = j
            BY <1>3
        <2>3. \A j \in 1 .. NTokens : \E i \in slot : h[i] = j
            BY <2>1
        <2> HIDE DEF q
        <2> QED BY <1>4, <1>7, <2>2, <2>3 DEF Bijection, Injection, Surjection, IsInjective
    <1> HIDE DEF h, q, g, slot
    <1>9. Tally(slot, g) = Tally(DOMAIN q, q)
        BY <1>4, <1>6, <1>8, SameTally
    <1>10. ASSUME NEW i \in UsedCells PROVE Held'[i] = Held[i]
        <2>1. i \in Index /\ i \notin slot /\ i \in UsedCells'
            BY <1>5 DEF UsedCells
        <2>2. cells'[i] = cells[i]
            BY <1>1, <2>1
        <2>3. Held'[i] = TokenIn(cells'[i])
            BY <2>1 DEF Held
        <2> QED BY <2>2, <2>3, HeldToken
    <1>11. ASSUME NEW i \in slot PROVE Held'[i] = g[i]
        <2>1. i \in UsedCells' /\ TokenIn(cells'[i]) = g[i]
            BY <1>4
        <2> QED BY <2>1 DEF Held
    <1> DEFINE u == Held'
    <1> HIDE DEF u
    <1>12. (\A i \in UsedCells : u[i] = Held[i]) /\ (\A i \in slot : u[i] = g[i])
        BY <1>10, <1>11 DEF u
    <1>13. Tally(UsedCells \cup slot, u) = AddedUp(Tally(UsedCells, Held), Tally(slot, g))
        BY <1>5, <1>6, <1>12, ContentIsTally, TalliesAddUp
    <1>14. Content' = Tally(UsedCells \cup slot, u)
        BY <1>5, ContentIsTally DEF u
    <1>15. Content' = Abstract!Stored(Content, q)
        BY <1>9, <1>13, <1>14, ContentIsTally, StoredTally
    <1> QED BY <1>3, <1>15 DEF q

\* What the cache holds has room in it.
LEMMA ContentFits == Total(Content') <= Size
    <1>1. ASSUME NEW S \in SUBSET Index, NEW f PROVE Total(Tally(S, f)) <= Size
        <2>1. IsFiniteSet(S) /\ Cardinality(S) \in 0 .. Size
            BY CellsAreFinite
        <2>2. Total(Tally(S, f)) = Cardinality(S)
            BY <2>1, TotalOfTally
        <2> QED BY <2>1, <2>2
    <1>2. UsedCells' \in SUBSET Index
        BY DEF UsedCells
    <1> QED BY <1>1, <1>2, ContentIsTally

-----------------------------------------------------------------------------
(* The refinement                                                          *)

\* Between calls no tokens are left.
NothingLeft == pc = "idle" => batch = << >>

LEMMA NothingLeftInit == Init => NothingLeft
    BY DEF Init, NothingLeft

LEMMA NothingLeftNext == NothingLeft /\ [Next]_vars => NothingLeft'
    <1> SUFFICES ASSUME NothingLeft, [Next]_vars PROVE NothingLeft'
        BY SMTT(60)
    <1>1. CASE Request
        BY <1>1, ZenonT(60)
           DEF NothingLeft, Request, Clear, Clearing, Defrag, UpdateRequested, Decode, SeqKeep,
                    Keeping, SeqRm, Removing, SeqCp, SeqAdd, SeqDiv, callVars
    <1>2. CASE Update \/ DefragKeep \/ DefragHole \/ MoveCell \/ PassCell \/ DefragDone \/ CopyRows
        BY <1>2 DEF NothingLeft, Update, Updating, DefragKeep, DefragHole, MoveCell, MoveTo,
                    PassCell, DefragDone, DoneAt, CopyRows, AfterUpdate
    <1>3. CASE BeginSlot \/ FindWrap \/ FindOccupied \/ FindFree \/ SetN \/ Compute
        BY <1>3 DEF NothingLeft, BeginSlot, FindWrap, FindOccupied, SkipOccupied, FindFree, Filling,
                    SetN, Attending, Compute, NoSlot
    <1>4. CASE UNCHANGED vars
        BY <1>4 DEF NothingLeft, vars, callVars
    <1> QED BY <1>1, <1>2, <1>3, <1>4 DEF Next, Continue

LEMMA SameCells == ASSUME UNCHANGED cells PROVE Content' = Content
    BY ContentKept

LEMMA Seen == Abstract!vars = <<Content, Unstored>> /\ Abstract!vars' = <<Content', Unstored'>>
    BY DEF Abstract!vars

\* Every operation on sequences does to the tokens what SeqCache says.
LEMMA RequestRefines ==
    ASSUME IInv, NothingLeft, Request
    PROVE  [Abstract!Next]_(Abstract!vars)
    <1>1. ASSUME pc = "idle", pc' = "idle", batch' = batch, Abstract!Changes(Content, Content')
          PROVE  [Abstract!Next]_(Abstract!vars)
        <2>1. Unstored = << >> /\ Unstored' = << >>
            BY <1>1 DEF Unstored, NothingLeft
        <2>2. CASE Content' = Content
            BY <2>1, <2>2, Seen
        <2>3. CASE Content' # Content
            <3>1. Abstract!Change
                BY <1>1, <2>1, <2>3 DEF Abstract!Change
            <3> QED BY <3>1 DEF Abstract!Next
        <2> QED BY <2>2, <2>3
    <1>2. ASSUME NEW r \in Ranges PROVE r[1] \in Int /\ r[2] \in Int
        OBVIOUS
    <1>3. CASE Clear
        <2>1. pc = "idle" /\ pc' = "idle" /\ batch' = batch
            BY <1>3 DEF Clear, Clearing, callVars
        <2>2. Abstract!Changes(Content, Content')
            BY <1>3, ClearedCells DEF Abstract!Changes
        <2> QED BY <1>1, <2>1, <2>2
    <1>4. ASSUME NEW s \in Seqs, SeqKeep(s) PROVE [Abstract!Next]_(Abstract!vars)
        <2>1. pc = "idle" /\ pc' = "idle" /\ batch' = batch
            BY <1>4 DEF SeqKeep, Keeping, callVars
        <2>2. Content' = Abstract!KeptOnly(Content, s)
            BY <1>4, KeptTokens
        <2>3. Abstract!Changes(Content, Content')
            BY <2>2 DEF Abstract!Changes
        <2> QED BY <1>1, <2>1, <2>3
    <1>5. ASSUME NEW s \in Seqs \cup {-1}, NEW r \in Ranges, SeqRm(s, r[1], r[2])
          PROVE  [Abstract!Next]_(Abstract!vars)
        <2>1. pc = "idle" /\ pc' = "idle" /\ batch' = batch
            BY <1>5 DEF SeqRm, Removing, callVars
        <2>2. Content' = Abstract!Removed(Content, s, r[1], r[2])
            BY <1>2, <1>5, RemovedTokens
        <2>3. Abstract!Changes(Content, Content')
            BY <2>2 DEF Abstract!Changes
        <2> QED BY <1>1, <2>1, <2>3
    <1>6. ASSUME NEW src \in Seqs, NEW dst \in Seqs, NEW r \in Ranges, SeqCp(src, dst, r[1], r[2])
          PROVE  [Abstract!Next]_(Abstract!vars)
        <2>1. pc = "idle" /\ pc' = "idle" /\ batch' = batch
            BY <1>6 DEF SeqCp, callVars
        <2>2. Content' = Abstract!Copied(Content, src, dst, r[1], r[2])
            BY <1>2, <1>6, CopiedTokens
        <2>3. Abstract!Changes(Content, Content')
            BY <2>2 DEF Abstract!Changes
        <2> QED BY <1>1, <2>1, <2>3
    <1>7. ASSUME NEW s \in Seqs, NEW r \in Ranges, NEW d \in Shifts, SeqAdd(s, r[1], r[2], d)
          PROVE  [Abstract!Next]_(Abstract!vars)
        <2>1. pc = "idle" /\ pc' = "idle" /\ batch' = batch
            BY <1>7 DEF SeqAdd, callVars
        <2>2. d \in Int
            OBVIOUS
        <2>3. Content' = Abstract!Shifted(Content, s, r[1], r[2], d)
            BY <1>2, <1>7, <2>2, ShiftedTokens
        <2>4. Abstract!Changes(Content, Content')
            BY <2>3 DEF Abstract!Changes
        <2> QED BY <1>1, <2>1, <2>4
    <1>8. ASSUME NEW s \in Seqs, NEW r \in Ranges, NEW d \in Divisors, SeqDiv(s, r[1], r[2], d)
          PROVE  [Abstract!Next]_(Abstract!vars)
        <2>1. pc = "idle" /\ pc' = "idle" /\ batch' = batch
            BY <1>8 DEF SeqDiv, callVars
        <2>2. d \in Nat \ {0}
            OBVIOUS
        <2>3. Content' = Abstract!Divided(Content, s, r[1], r[2], d)
            BY <1>2, <1>8, <2>2, DividedTokens
        <2>4. Abstract!Changes(Content, Content')
            BY <2>3 DEF Abstract!Changes
        <2> QED BY <1>1, <2>1, <2>4
    <1>9. CASE Defrag \/ UpdateRequested
        <2>1. UNCHANGED <<cells, batch>> /\ pc = "idle" /\ pc' \in {"idle", "update"}
            BY <1>9 DEF Defrag, UpdateRequested, metaVars, callVars
        <2>2. Unstored' = Unstored
            BY <2>1 DEF Unstored
        <2> QED BY <2>1, <2>2, SameCells, Seen
    <1>10. CASE Decode
        <2>1. UNCHANGED cells /\ pc = "idle" /\ pc' = "update" /\ batch' \in Batches
            BY <1>10 DEF Decode, metaVars
        <2>2. Unstored = << >> /\ Unstored' = batch' /\ batch' # << >>
            BY <2>1, BatchesAssumption DEF Unstored, NothingLeft
        <2>3. Abstract!Call
            BY <2>1, <2>2, SameCells DEF Abstract!Call
        <2> QED BY <2>3 DEF Abstract!Next
    <1> QED BY <1>3, <1>4, <1>5, <1>6, <1>7, <1>8, <1>9, <1>10 DEF Request

\* Updating the cache does not show.
LEMMA UpdateRefines ==
    ASSUME IInv,
           Update \/ DefragKeep \/ DefragHole \/ MoveCell \/ PassCell \/ DefragDone \/ CopyRows
    PROVE  UNCHANGED Abstract!vars
    <1>1. Content' = Content
        <2>1. CASE Update \/ MoveCell
            BY <2>1, SettledTokens, DefraggedTokens
        <2>2. CASE DefragKeep \/ DefragHole \/ PassCell \/ DefragDone \/ CopyRows
            BY <2>2, SameCells, ZenonT(60)
               DEF DefragKeep, DefragHole, PassCell, DefragDone, DoneAt, CopyRows, metaVars
        <2> QED BY <2>1, <2>2
    <1>2. /\ batch' = batch /\ pc \in {"update", "defrag", "move", "copy"}
          /\ pc' \in {"update", "defrag", "move", "copy", "idle", "slot"}
        BY DEF Update, Updating, DefragKeep, DefragHole, MoveCell, MoveTo, PassCell, DefragDone,
               DoneAt, CopyRows, AfterUpdate
    <1>3. Unstored' = Unstored
        BY <1>2 DEF Unstored
    <1> QED BY <1>1, <1>3, Seen

\* A search stores the tokens of a ubatch, or the call gives up.
LEMMA DecodeRefines ==
    ASSUME IInv, BeginSlot \/ FindWrap \/ FindOccupied \/ FindFree \/ SetN \/ Compute
    PROVE  [Abstract!Next]_(Abstract!vars)
    <1>1. CASE FindFree
        <2>1. NTokens \in 1 .. Len(batch) /\ Content' = Abstract!Stored(Content, SubSeq(batch, 1, NTokens))
            BY <1>1, ArrivedTokens, SMTT(60)
        <2>2. pc = "find" /\ pc' = "found" /\ batch' = batch
            BY <1>1 DEF FindFree, Filling
        <2>3. Unstored = batch /\ Unstored' = SubSeq(batch, NTokens + 1, Len(batch))
            BY <2>2 DEF Unstored, NTokens
        <2>5. Abstract!Total(Content') <= Size
            BY ContentFits, SameTallies
        <2>6. Abstract!Store
            BY <2>1, <2>3, <2>5 DEF Abstract!Store
        <2> QED BY <2>6 DEF Abstract!Next
    <1>2. CASE SetN \/ Compute
        <2>1. UNCHANGED cells
            BY <1>2 DEF SetN, Attending, Compute, metaVars
        <2>2. Unstored' = Unstored
            <3>1. CASE SetN
                BY <3>1 DEF SetN, Attending, Unstored, NTokens
            <3>2. CASE Compute
                <4>1. pc = "compute" /\ pc' \in {"idle", "update"}
                      /\ batch' = SubSeq(batch, NTokens + 1, Len(batch))
                    BY <3>2 DEF Compute
                <4> QED BY <4>1 DEF Unstored
            <3> QED BY <1>2, <3>1, <3>2
        <2> QED BY <2>1, <2>2, SameCells, Seen
    <1>3. CASE BeginSlot \/ FindWrap \/ FindOccupied
        <2>1. UNCHANGED cells /\ pc \in {"slot", "find"}
            BY <1>3 DEF BeginSlot, FindWrap, FindOccupied, SkipOccupied
        <2>2. \/ pc' = "idle" /\ batch' = << >>
              \/ pc' \in {"slot", "find"} /\ batch' = batch
            BY <1>3 DEF BeginSlot, FindWrap, FindOccupied, SkipOccupied, NoSlot
        <2>3. Unstored = batch /\ Unstored' = batch' /\ batch # << >>
            BY <2>1, <2>2 DEF Unstored, IInv, BatchLeft
        <2>4. CASE batch' = batch
            BY <2>1, <2>3, <2>4, SameCells, Seen
        <2>5. CASE batch' = << >>
            <3>1. Abstract!GiveUp
                BY <2>1, <2>3, <2>5, SameCells DEF Abstract!GiveUp
            <3> QED BY <3>1 DEF Abstract!Next
        <2> QED BY <2>2, <2>4, <2>5
    <1> QED BY <1>1, <1>2, <1>3

\* To those who use it the cache is a bag of tokens, of any size and whatever cells they are
\* in: an operation does to every token what it says, a batch is stored whole or up to where
\* the call gave up, and turning keys, searching and moving cells changes nothing.
THEOREM SeqCacheImplemented == Spec => ImplementsSeqCache
    <1>1. ASSUME Init PROVE Abstract!Init
        <2>1. (\A i \in Index : cells[i].seq_id = {}) /\ batch = << >> /\ pc = "idle"
            BY <1>1 DEF Init, NewCell
        <2>2. UsedCells = {}
            BY <2>1 DEF UsedCells, Empty
        <2>3. Content = Abstract!EmptyBag
            BY <2>2, ContentIsTally DEF Tally, Abstract!EmptyBag, Abstract!SetToBag
        <2> QED BY <2>1, <2>3 DEF Abstract!Init, Unstored
    <1>2. ASSUME IInv, NothingLeft, [Next]_vars PROVE [Abstract!Next]_(Abstract!vars)
        <2>1. CASE Request
            BY <1>2, <2>1, RequestRefines
        <2>2. CASE Update \/ DefragKeep \/ DefragHole \/ MoveCell \/ PassCell \/ DefragDone \/ CopyRows
            BY <1>2, <2>2, UpdateRefines
        <2>3. CASE BeginSlot \/ FindWrap \/ FindOccupied \/ FindFree \/ SetN \/ Compute
            BY <1>2, <2>3, DecodeRefines
        <2>4. CASE UNCHANGED vars
            <3>1. UNCHANGED <<cells, pc, batch>>
                BY <2>4 DEF vars, metaVars, callVars
            <3>2. Unstored' = Unstored
                BY <3>1 DEF Unstored, NTokens
            <3> QED BY <3>1, <3>2, SameCells, Seen
        <2> QED BY <1>2, <2>1, <2>2, <2>3, <2>4 DEF Next, Continue
    <1> QED BY Invariant, NothingLeftInit, NothingLeftNext, <1>1, <1>2, PTL
            DEF Spec, ImplementsSeqCache, Abstract!Spec

-----------------------------------------------------------------------------
(* The rows, and what a defragmentation plans and copies                   *)

\* The cells before Front are in place.
Front == plan.i0 + plan.nf

\* The cells that have been moved, and the used ones from cell m on.
Planned == {i \in 0 .. plan.n_kv - 1 : Moved(i)}
UsedFrom(m) == {i \in m .. plan.n_kv - 1 : ~Empty(i)}

TargetsDiffer == \A i, j \in Planned : plan.ids[i] = plan.ids[j] => i = j

\* While cells are moved: all before Front are used, all used ones after it have no place yet,
\* and whatever was moved came from beyond n_used, which counts the used cells.
FrontInv ==
    pc \in {"defrag", "move"} =>
        /\ plan.n_used = used /\ plan.i0 <= plan.n_used /\ UsedCells \subseteq 0 .. plan.n_kv - 1
        /\ \A i \in 0 .. Front - 1 : ~Empty(i)
        /\ \A i \in Front .. plan.n_kv - 1 : ~Empty(i) => plan.ids[i] = plan.n_kv
        /\ \A i \in Planned : plan.n_used <= i /\ plan.ids[i] < Front
        /\ TargetsDiffer

\* The used cells from i1 on are as many as the rest of the hole takes.
SourceInv ==
    /\ pc = "defrag" => plan.nf = 0
    /\ pc = "move" => plan.n_used <= plan.i1 /\ Cardinality(UsedFrom(plan.i1)) = plan.nh - plan.nf

CopyInv ==
    pc = "copy" =>
        /\ \A i \in Planned : plan.n_used <= i /\ plan.ids[i] < plan.n_used
        /\ TargetsDiffer
        /\ plan.moves < MaxMoves => \A i \in 0 .. plan.n_used - 1 : ~Empty(i)

DefragIInv ==
    /\ pc \notin {"defrag", "move", "copy"} => plan = NoPlan
    /\ FrontInv /\ SourceInv /\ CopyInv

-----------------------------------------------------------------------------
(* Counting                                                                *)

\* A nonempty set of natural numbers has a least element.
LEMMA LeastNatural ==
    ASSUME NEW S \in SUBSET Nat, S # {}
    PROVE  \E x \in S : \A y \in S : x <= y
    <1> DEFINE R == OpToRel(<, Nat)
    <1>1. IsWellFoundedOn(R, Nat)
        BY NatLessThanWellFounded
    <1> HIDE DEF R
    <1>2. PICK x \in S : \A y \in S : <<y, x>> \notin R
        BY <1>1, WFMin, Zenon
    <1>3. ASSUME NEW y \in S PROVE x <= y
        <2>1. <<y, x>> \notin R
            BY <1>2
        <2>2. x \in Nat /\ y \in Nat
            OBVIOUS
        <2>3. y < x => <<y, x>> \in R
            BY <2>2 DEF R, OpToRel
        <2> QED BY <2>1, <2>2, <2>3
    <1> QED BY <1>3

\* What the plan says, by its numbers.
LEMMA PlanNumbers ==
    ASSUME IInv
    PROVE  /\ plan \in Plan /\ plan.ids \in [0 .. plan.n_kv - 1 -> 0 .. plan.n_kv]
           /\ plan.n_kv \in 0 .. Size /\ plan.n_used \in 0 .. Size /\ plan.i0 \in 0 .. Size
           /\ plan.nh \in 0 .. Size /\ plan.nf \in 0 .. Size /\ plan.i1 \in 0 .. Size
           /\ plan.moves \in 0 .. MaxMoves
           /\ pc \in {"defrag", "move"} => plan.n_used <= plan.n_kv
           /\ pc = "move" => plan.nf < plan.nh /\ plan.i0 + plan.nh <= plan.n_used
    BY PlanFields DEF IInv, PlanInv

LEMMA UsedFromFinite ==
    ASSUME IInv, NEW m \in Nat
    PROVE  IsFiniteSet(UsedFrom(m)) /\ Cardinality(UsedFrom(m)) \in Nat
    <1>0. plan.n_kv \in 0 .. Size
        BY PlanNumbers
    <1>1. UsedFrom(m) \in SUBSET Index
        <2>1. m .. plan.n_kv - 1 \subseteq 0 .. Size - 1
            BY <1>0
        <2> QED BY <2>1 DEF UsedFrom, Index
    <1>2. IsFiniteSet(UsedFrom(m)) /\ Cardinality(UsedFrom(m)) \in 0 .. Size
        BY <1>1, CellsAreFinite, Zenon
    <1> QED BY <1>2

LEMMA UsedFromEnd ==
    ASSUME IInv
    PROVE  Cardinality(UsedFrom(plan.n_kv)) = 0
    <1>1. UsedFrom(plan.n_kv) = {}
        BY PlanNumbers DEF UsedFrom
    <1> QED BY <1>1, FS_EmptySet

\* One cell less.
LEMMA UsedFromNext ==
    ASSUME IInv, NEW m \in 0 .. plan.n_kv - 1
    PROVE  /\ ~Empty(m) => Cardinality(UsedFrom(m)) = Cardinality(UsedFrom(m + 1)) + 1
           /\ Empty(m) => UsedFrom(m) = UsedFrom(m + 1)
    <1>0. plan.n_kv \in Int
        BY PlanNumbers
    <1>1. IsFiniteSet(UsedFrom(m + 1)) /\ m + 1 \in Nat
        BY UsedFromFinite
    <1>2. m \notin UsedFrom(m + 1)
        BY DEF UsedFrom
    <1>3. CASE ~Empty(m)
        <2>1. UsedFrom(m) = UsedFrom(m + 1) \cup {m}
            BY <1>0, <1>3 DEF UsedFrom
        <2>2. Cardinality(UsedFrom(m + 1) \cup {m}) = Cardinality(UsedFrom(m + 1)) + 1
            BY <1>1, <1>2, FS_AddElement, Zenon
        <2> QED BY <1>3, <2>1, <2>2
    <1>4. CASE Empty(m)
        BY <1>0, <1>4 DEF UsedFrom
    <1> QED BY <1>3, <1>4

\* k cells less.
LEMMA UsedFromLater ==
    ASSUME IInv, NEW a \in Nat, NEW b \in Nat, a <= b
    PROVE  /\ Cardinality(UsedFrom(b)) <= Cardinality(UsedFrom(a))
           /\ Cardinality(UsedFrom(a)) <= Cardinality(UsedFrom(b)) + (b - a)
    <1> DEFINE between == UsedFrom(a) \ UsedFrom(b)
    <1>1. IsFiniteSet(UsedFrom(a)) /\ UsedFrom(b) \subseteq UsedFrom(a)
        BY UsedFromFinite DEF UsedFrom
    <1>2. IsFiniteSet(UsedFrom(b)) /\ Cardinality(UsedFrom(b)) \in Nat /\ Cardinality(UsedFrom(a)) \in Nat
        BY UsedFromFinite
    <1>3. Cardinality(UsedFrom(b)) <= Cardinality(UsedFrom(a))
        BY <1>1, FS_Subset, Zenon
    <1>4. IsFiniteSet(between) /\ between \subseteq a .. b - 1
        <2>1. IsFiniteSet(between)
            BY <1>1, FS_Subset
        <2>2. plan.n_kv \in Int
            BY PlanNumbers
        <2> QED BY <2>1, <2>2 DEF UsedFrom
    <1>5. IsFiniteSet(a .. b - 1) /\ Cardinality(a .. b - 1) = b - a
        <2>1. b - 1 \in Int /\ a \in Int
            OBVIOUS
        <2>2. /\ IsFiniteSet(a .. b - 1)
              /\ Cardinality(a .. b - 1) = IF a > b - 1 THEN 0 ELSE b - 1 - a + 1
            BY <2>1, FS_Interval, Zenon
        <2> QED BY <2>2
    <1>6. Cardinality(between) <= b - a /\ Cardinality(between) \in Nat
        <2> HIDE DEF between
        <2>1. Cardinality(between) <= Cardinality(a .. b - 1)
            BY <1>4, <1>5, FS_Subset, Zenon
        <2>2. Cardinality(between) \in Nat
            BY <1>4, FS_CardinalityType
        <2> QED BY <1>5, <2>1, <2>2
    <1>7. Cardinality(UsedFrom(a)) = Cardinality(UsedFrom(b)) + Cardinality(between)
        <2>1. UsedFrom(b) \cup between = UsedFrom(a) /\ UsedFrom(b) \cap between = {}
            BY <1>1
        <2> HIDE DEF between
        <2>2. Cardinality(UsedFrom(b) \cup between) =
                  Cardinality(UsedFrom(b)) + Cardinality(between) - Cardinality(UsedFrom(b) \cap between)
            BY <1>2, <1>4, FS_Union
        <2>3. Cardinality(UsedFrom(b) \cap between) = 0
            BY <2>1, FS_EmptySet
        <2>4. Cardinality(UsedFrom(b) \cup between) = Cardinality(UsedFrom(a))
            BY <2>1
        <2> QED BY <1>2, <1>6, <2>2, <2>3, <2>4
    <1> HIDE DEF between
    <1> QED BY <1>2, <1>3, <1>6, <1>7

\* As many cells are used from Front on as are missing before n_used.
LEMMA UsedFromFront ==
    ASSUME IInv, DefragIInv, pc \in {"defrag", "move"}
    PROVE  /\ Front \in Nat /\ Front <= plan.n_used
           /\ Cardinality(UsedFrom(Front)) = plan.n_used - Front
    <1>1. Front \in Nat /\ Front <= plan.n_used
        BY PlanNumbers, SMTT(60) DEF Front, DefragIInv, FrontInv, SourceInv
    <1>2. /\ used = Cardinality(UsedCells) /\ plan.n_used = used
          /\ UsedCells \subseteq 0 .. plan.n_kv - 1 /\ \A i \in 0 .. Front - 1 : ~Empty(i)
          /\ plan.n_used <= plan.n_kv
        BY PlanNumbers DEF IInv, UsedIsAccurate, DefragIInv, FrontInv
    <1>3. UsedCells = UsedFrom(0)
        <2>1. 0 .. plan.n_kv - 1 \subseteq 0 .. Size - 1
            BY PlanNumbers
        <2> QED BY <1>2, <2>1 DEF UsedCells, UsedFrom, Index
    <1> DEFINE before == 0 .. Front - 1
    <1>4. UsedFrom(0) = before \cup UsedFrom(Front) /\ before \cap UsedFrom(Front) = {}
        <2>1. plan.n_kv \in Int /\ plan.n_used \in Int /\ plan.n_used <= plan.n_kv
            BY <1>2, PlanNumbers
        <2> QED BY <1>1, <1>2, <2>1 DEF UsedFrom
    <1>5. IsFiniteSet(before) /\ Cardinality(before) = Front
        <2>1. Front - 1 \in Int /\ 0 \in Int
            BY <1>1
        <2>2. /\ IsFiniteSet(0 .. Front - 1)
              /\ Cardinality(0 .. Front - 1) = IF 0 > Front - 1 THEN 0 ELSE Front - 1 - 0 + 1
            BY <2>1, FS_Interval, Zenon
        <2> QED BY <1>1, <2>2
    <1>6. IsFiniteSet(UsedFrom(Front)) /\ Cardinality(UsedFrom(Front)) \in Nat
        BY <1>1, UsedFromFinite
    <1> HIDE DEF before
    <1>7. Cardinality(before \cup UsedFrom(Front)) =
              Cardinality(before) + Cardinality(UsedFrom(Front)) - Cardinality(before \cap UsedFrom(Front))
        BY <1>5, <1>6, FS_Union
    <1>8. Cardinality(before \cap UsedFrom(Front)) = 0
        BY <1>4, FS_EmptySet
    <1>9. Cardinality(UsedFrom(Front)) = plan.n_used - Front
        <2>1. plan.n_used = Cardinality(before \cup UsedFrom(Front))
            BY <1>2, <1>3, <1>4
        <2> QED BY <1>1, <1>5, <1>6, <1>7, <1>8, <2>1
    <1> QED BY <1>1, <1>9

-----------------------------------------------------------------------------
(* The steps of the defragmentation                                        *)

\* A step that does not defragment leaves no trace of a plan.
LEMMA NotPlanning ==
    ASSUME pc' \notin {"defrag", "move", "copy"}, plan' = NoPlan
    PROVE  DefragIInv'
    BY DEF DefragIInv, FrontInv, SourceInv, CopyInv

LEMMA UpdateDefrag == ASSUME IInv, DefragIInv, Update PROVE DefragIInv'
    <1>1. pc = "update" /\ plan = NoPlan /\ UNCHANGED used
        BY DEF Update, Updating, DefragIInv
    <1>2. \A i \in Index : cells'[i].seq_id = cells[i].seq_id
        <2>1. cells' = [i \in Index |-> [cells[i] EXCEPT !.delta = 0]] \/ UNCHANGED cells
            BY DEF Update, Updating
        <2>2. ASSUME NEW i \in Index PROVE [cells[i] EXCEPT !.delta = 0].seq_id = cells[i].seq_id
            <3>1. cells[i] \in Cell
                BY CellTyped
            <3> QED BY <3>1 DEF Cell
        <2> QED BY <2>1, <2>2
    <1>3. CASE ~do_defrag
        <2>1. pc' \in {"idle", "slot"} /\ plan' = NoPlan
            BY <1>1, <1>3 DEF Update, Updating, AfterUpdate
        <2> QED BY <2>1, NotPlanning
    <1>4. CASE do_defrag
        <2>1. PICK m \in 0 .. Size :
                  /\ IsCellMax(cells, m)
                  /\ plan' = [NoPlan EXCEPT !.n_kv = m, !.n_used = used,
                                            !.ids = [i \in 0 .. m - 1 |-> m]]
            BY <1>4 DEF Update, Updating
        <2>2. pc' = "defrag"
            BY <1>4 DEF Update, Updating
        <2>3. /\ plan'.n_kv = m /\ plan'.n_used = used /\ plan'.ids = [i \in 0 .. m - 1 |-> m]
              /\ plan'.i0 = 0 /\ plan'.nf = 0
            BY <2>1 DEF NoPlan
        <2>4. UsedCells \subseteq 0 .. m - 1 /\ UsedCells' = UsedCells
            BY <1>2, <2>1, UsedBelowMax DEF UsedCells, Empty
        <2>5. Planned' = {}
            BY <2>3 DEF Planned, Moved
        <2>6. Front' = 0 /\ used' \in Nat /\ used' = used
            BY <1>1, <2>3 DEF Front, IInv, TypeOK
        <2>7. FrontInv'
            BY <2>2, <2>3, <2>4, <2>5, <2>6 DEF FrontInv, TargetsDiffer
        <2> QED BY <2>2, <2>3, <2>7 DEF DefragIInv, SourceInv, CopyInv
    <1> QED BY <1>3, <1>4

\* The step that leaves a used cell in its place.
LEMMA DefragKeepDefrag == ASSUME IInv, DefragIInv, DefragKeep PROVE DefragIInv'
    <1>0. /\ plan \in Plan /\ plan.ids \in [0 .. plan.n_kv - 1 -> 0 .. plan.n_kv]
          /\ plan.n_kv \in Nat /\ plan.n_used \in Nat /\ plan.i0 \in Nat
          /\ plan.n_used <= plan.n_kv
        <2>1. pc = "defrag"
            BY DEF DefragKeep
        <2> QED BY <2>1, PlanNumbers
    <1>1. /\ pc = "defrag" /\ pc' = "defrag" /\ plan.i0 < plan.n_used /\ ~Empty(plan.i0)
          /\ plan' = [plan EXCEPT !.ids = [plan.ids EXCEPT ![plan.i0] = plan.i0], !.i0 = plan.i0 + 1]
          /\ UNCHANGED <<cells, used>>
        BY <1>0 DEF DefragKeep, metaVars, Plan
    <1>2. /\ plan'.n_kv = plan.n_kv /\ plan'.n_used = plan.n_used /\ plan'.i0 = plan.i0 + 1
          /\ plan'.ids = [plan.ids EXCEPT ![plan.i0] = plan.i0] /\ plan'.nf = plan.nf
        BY <1>0, <1>1 DEF Plan
    <1>3. plan.nf = 0 /\ Front = plan.i0 /\ Front' = plan.i0 + 1
        BY <1>0, <1>1, <1>2, SMTT(60) DEF DefragIInv, SourceInv, Front
    <1>4. /\ plan.n_used = used /\ UsedCells \subseteq 0 .. plan.n_kv - 1
          /\ \A i \in 0 .. plan.i0 - 1 : ~Empty(i)
          /\ \A i \in plan.i0 .. plan.n_kv - 1 : ~Empty(i) => plan.ids[i] = plan.n_kv
          /\ \A i \in Planned : plan.n_used <= i /\ plan.ids[i] < plan.i0
          /\ TargetsDiffer
        BY <1>1, <1>3 DEF DefragIInv, FrontInv
    <1>5. /\ plan'.ids[plan.i0] = plan.i0
          /\ \A i \in 0 .. plan.n_kv - 1 : i # plan.i0 => plan'.ids[i] = plan.ids[i]
        <2>1. plan.i0 \in 0 .. plan.n_kv - 1
            BY <1>0, <1>1, SMTT(60)
        <2>2. plan'.ids = [plan.ids EXCEPT ![plan.i0] = plan.i0]
            BY <1>2
        <2>3. plan.ids \in [0 .. plan.n_kv - 1 -> 0 .. plan.n_kv]
            BY <1>0
        <2> QED BY <2>1, <2>2, <2>3
    <1>6. Planned' \subseteq Planned /\ \A i \in Planned' : plan'.ids[i] = plan.ids[i]
        BY <1>2, <1>5 DEF Planned, Moved
    <1>7. UsedCells' = UsedCells /\ \A i : Empty(i)' = Empty(i)
        BY <1>1 DEF UsedCells, Empty
    <1>8. \A i \in 0 .. plan.i0 : ~Empty(i)
        BY <1>0, <1>1, <1>4, SMTT(60)
    <1>9. \A i \in plan.i0 + 1 .. plan.n_kv - 1 : ~Empty(i) => plan'.ids[i] = plan.n_kv
        <2>1. ASSUME NEW i \in plan.i0 + 1 .. plan.n_kv - 1, ~Empty(i)
              PROVE  plan'.ids[i] = plan.n_kv
            <3>1. i \in plan.i0 .. plan.n_kv - 1 /\ i \in 0 .. plan.n_kv - 1 /\ i # plan.i0
                BY <1>0
            <3>2. plan.ids[i] = plan.n_kv
                BY <1>4, <2>1, <3>1
            <3>3. plan'.ids[i] = plan.ids[i]
                BY <1>0, <1>2, <3>1
            <3> QED BY <3>2, <3>3
        <2> QED BY <2>1
    <1>10. \A i \in Planned' : plan'.n_used <= i /\ plan'.ids[i] < plan.i0 + 1
        <2>1. ASSUME NEW i \in Planned' PROVE plan.n_used <= i /\ plan.ids[i] < plan.i0 + 1
            <3>1. i \in Planned
                BY <1>6
            <3>2. plan.ids[i] \in 0 .. plan.n_kv
                BY <1>0, <3>1 DEF Planned
            <3> QED BY <1>0, <1>4, <3>1, <3>2
        <2> QED BY <1>2, <1>6, <2>1
    <1>11. TargetsDiffer'
        BY <1>4, <1>6 DEF TargetsDiffer
    <1>12. FrontInv'
        <2>1. plan'.i0 <= plan'.n_used
            BY <1>0, <1>1, <1>2, SMTT(60)
        <2>2. 0 .. Front' - 1 = 0 .. plan.i0
            BY <1>0, <1>3
        <2>3. plan'.n_used = used' /\ UsedCells' \subseteq 0 .. plan'.n_kv - 1
            BY <1>1, <1>2, <1>4, <1>7
        <2>4. \A i \in 0 .. Front' - 1 : ~Empty(i)'
            BY <1>1, <1>8, <2>2 DEF Empty
        <2>5. \A i \in Front' .. plan'.n_kv - 1 : ~Empty(i)' => plan'.ids[i] = plan'.n_kv
            BY <1>1, <1>2, <1>3, <1>9 DEF Empty
        <2>6. \A i \in Planned' : plan'.n_used <= i /\ plan'.ids[i] < Front'
            BY <1>3, <1>10
        <2> QED BY <1>11, <2>1, <2>3, <2>4, <2>5, <2>6 DEF FrontInv
    <1> QED BY <1>1, <1>2, <1>3, <1>12 DEF DefragIInv, SourceInv, CopyInv

\* A hole of nh cells is filled from beyond n_used: the used cells before n_used are too few to
\* leave less than nh there.
LEMMA SourceBeyond ==
    ASSUME IInv, DefragIInv, pc = "defrag", NEW nh \in 1 .. plan.n_used, NEW is \in Index,
           IsHole(nh), IsSource(is, nh)
    PROVE  plan.n_used <= is /\ Cardinality(UsedFrom(is)) = nh
    <1>0. /\ plan.n_kv \in Nat /\ plan.n_used \in Nat /\ plan.i0 \in Nat /\ is \in Nat /\ nh \in Nat
          /\ plan.n_used <= plan.n_kv
        BY PlanNumbers DEF Index
    <1>1. Front = plan.i0
        BY <1>0 DEF DefragIInv, SourceInv, Front
    <1>2. \A i \in plan.i0 .. plan.n_kv - 1 : ~Empty(i) => plan.ids[i] = plan.n_kv
        BY <1>1 DEF DefragIInv, FrontInv
    <1>3. /\ plan.i0 + nh <= plan.n_used /\ \A k \in 0 .. nh - 1 : Empty(plan.i0 + k)
          /\ is \in plan.i0 + 1 .. plan.n_kv - 1 /\ ~Empty(is)
          /\ Cardinality({i \in is .. plan.n_kv - 1 : Movable(i)}) = nh
        BY DEF IsHole, IsSource, Movable
    <1>4. {i \in is .. plan.n_kv - 1 : Movable(i)} = UsedFrom(is)
        <2>1. ASSUME NEW i \in is .. plan.n_kv - 1 PROVE Movable(i) <=> ~Empty(i)
            <3>1. i \in plan.i0 .. plan.n_kv - 1 /\ i < plan.n_kv
                BY <1>0, <1>3
            <3> QED BY <1>2, <3>1 DEF Movable
        <2> QED BY <2>1 DEF UsedFrom
    <1>5. UsedFrom(plan.i0) = UsedFrom(plan.i0 + nh)
        <2>1. ASSUME NEW i \in plan.i0 .. plan.i0 + nh - 1 PROVE Empty(i)
            <3>1. i - plan.i0 \in 0 .. nh - 1 /\ plan.i0 + (i - plan.i0) = i
                BY <1>0
            <3> QED BY <1>3, <3>1
        <2> QED BY <1>0, <2>1 DEF UsedFrom
    <1>6. Cardinality(UsedFrom(plan.n_used)) >= nh
        <2>1. Cardinality(UsedFrom(plan.i0)) = plan.n_used - plan.i0
            BY <1>1, UsedFromFront
        <2>2. plan.i0 + nh \in Nat /\ plan.i0 + nh <= plan.n_used
            BY <1>0, <1>3
        <2>3. Cardinality(UsedFrom(plan.i0 + nh)) <=
                  Cardinality(UsedFrom(plan.n_used)) + (plan.n_used - (plan.i0 + nh))
            BY <1>0, <2>2, UsedFromLater
        <2>4. Cardinality(UsedFrom(plan.n_used)) \in Nat
            BY <1>0, UsedFromFinite
        <2>5. Cardinality(UsedFrom(plan.i0 + nh)) = plan.n_used - plan.i0
            BY <1>5, <2>1
        <2> QED BY <1>0, <2>3, <2>4, <2>5
    <1>7. ASSUME is < plan.n_used PROVE FALSE
        <2>1. is \in 0 .. plan.n_kv - 1 /\ is + 1 \in Nat /\ is + 1 <= plan.n_used
            BY <1>0, <1>7
        <2>2. Cardinality(UsedFrom(is)) = Cardinality(UsedFrom(is + 1)) + 1
            BY <1>3, <2>1, UsedFromNext
        <2>3. Cardinality(UsedFrom(plan.n_used)) <= Cardinality(UsedFrom(is + 1))
            BY <1>0, <2>1, UsedFromLater
        <2>4. Cardinality(UsedFrom(plan.n_used)) \in Nat /\ Cardinality(UsedFrom(is + 1)) \in Nat
            BY <1>0, <2>1, UsedFromFinite
        <2>5. Cardinality(UsedFrom(is)) = nh
            BY <1>3, <1>4
        <2> QED BY <1>0, <1>6, <2>2, <2>3, <2>4, <2>5
    <1>8. Cardinality(UsedFrom(is)) = nh
        BY <1>3, <1>4
    <1> QED BY <1>0, <1>7, <1>8

LEMMA DefragHoleDefrag == ASSUME IInv, DefragIInv, DefragHole PROVE DefragIInv'
    <1>0. /\ plan \in Plan /\ plan.i0 \in Nat
        BY PlanNumbers
    <1>1. pc = "defrag" /\ pc' = "move" /\ UNCHANGED <<cells, used>>
        BY DEF DefragHole, metaVars
    <1>2. PICK nh \in 1 .. plan.n_used, is \in Index :
              /\ IsHole(nh) /\ IsSource(is, nh)
              /\ plan' = [plan EXCEPT !.nh = nh, !.nf = 0, !.i1 = is, !.cont = FALSE]
        BY DEF DefragHole
    <1>3. /\ plan'.n_kv = plan.n_kv /\ plan'.n_used = plan.n_used /\ plan'.i0 = plan.i0
          /\ plan'.ids = plan.ids /\ plan'.nf = 0 /\ plan'.nh = nh /\ plan'.i1 = is
        BY <1>0, <1>2 DEF Plan
    <1>4. Front' = Front
        BY <1>0, <1>1, <1>3 DEF Front, DefragIInv, SourceInv
    <1>5. /\ UsedCells' = UsedCells /\ \A i : Empty(i)' = Empty(i)
          /\ Planned' = Planned
        BY <1>1, <1>3 DEF UsedCells, Empty, Planned, Moved
    <1>6. FrontInv'
        BY <1>1, <1>3, <1>4, <1>5 DEF DefragIInv, FrontInv, TargetsDiffer
    <1>7. plan.n_used <= is /\ Cardinality(UsedFrom(is)) = nh
        BY <1>1, <1>2, SourceBeyond
    <1>8. UsedFrom(plan.i1)' = UsedFrom(is)
        BY <1>1, <1>3 DEF UsedFrom, Empty
    <1>9. SourceInv'
        BY <1>1, <1>3, <1>7, <1>8 DEF SourceInv
    <1> QED BY <1>1, <1>6, <1>9 DEF DefragIInv, CopyInv

\* A cell moves to Front; it was beyond n_used, and Front takes one step.
LEMMA MoveCellDefrag == ASSUME IInv, DefragIInv, MoveCell PROVE DefragIInv'
    <1>0. plan \in Plan /\ plan.ids \in [0 .. plan.n_kv - 1 -> 0 .. plan.n_kv]
        BY PlanNumbers
    <1>a. pc = "move" /\ plan.i1 < plan.n_kv /\ ~Empty(plan.i1) /\ plan.ids[plan.i1] = plan.n_kv
        BY DEF MoveCell, MoveTo, Movable
    <1>b. /\ plan.n_kv \in Nat /\ plan.n_used \in Nat /\ plan.i0 \in Nat /\ plan.nh \in Nat
          /\ plan.nf \in Nat /\ plan.i1 \in Nat /\ plan.n_used <= plan.n_kv /\ plan.n_kv <= Size
          /\ plan.nf < plan.nh /\ plan.i0 + plan.nh <= plan.n_used
        BY <1>a, PlanNumbers
    <1> DEFINE to == plan.i0 + plan.nf
               moves == plan.moves + IF plan.cont THEN 0 ELSE 1
               ids == [plan.ids EXCEPT ![plan.i1] = to]
               last == plan.nf + 1 = plan.nh \/ plan.i1 + 1 = plan.n_kv
    <1>1. /\ cells' = [cells EXCEPT ![to] = cells[plan.i1], ![plan.i1] = NewCell]
          /\ UNCHANGED used
        BY DEF MoveCell, MoveTo
    <1>2. /\ Front = to /\ plan.n_used = used /\ UsedCells \subseteq 0 .. plan.n_kv - 1
          /\ \A i \in 0 .. to - 1 : ~Empty(i)
          /\ \A i \in to .. plan.n_kv - 1 : ~Empty(i) => plan.ids[i] = plan.n_kv
          /\ \A i \in Planned : plan.n_used <= i /\ plan.ids[i] < to
          /\ TargetsDiffer
          /\ plan.n_used <= plan.i1 /\ Cardinality(UsedFrom(plan.i1)) = plan.nh - plan.nf
        BY <1>a DEF DefragIInv, FrontInv, SourceInv, Front
    <1>3. /\ to \in Nat /\ to < plan.n_used /\ to \in Index /\ plan.i1 \in Index /\ to < plan.i1
          /\ plan.i1 \in 0 .. plan.n_kv - 1 /\ plan.i1 + 1 \in Nat
        <2>1. plan.n_used <= plan.i1 /\ plan.i1 < plan.n_kv
            BY <1>a, <1>2
        <2> QED BY <1>b, <2>1 DEF Index
    <1>4. /\ plan'.n_kv = plan.n_kv /\ plan'.n_used = plan.n_used /\ plan'.ids = ids
          /\ plan'.moves = moves
          /\ last => /\ plan'.i0 = plan.i0 + plan.nh /\ plan'.nf = 0
                     /\ pc' = IF moves = MaxMoves THEN "copy" ELSE "defrag"
          /\ ~last => /\ plan'.i0 = plan.i0 /\ plan'.nf = plan.nf + 1 /\ plan'.nh = plan.nh
                      /\ plan'.i1 = plan.i1 + 1 /\ pc' = "move"
        <2>1. CASE last
            <3>1. /\ plan' = [plan EXCEPT !.ids = ids, !.moves = moves,
                                         !.i0 = plan.i0 + plan.nh, !.nf = 0, !.nh = 0, !.cont = FALSE]
                  /\ pc' = IF moves = MaxMoves THEN "copy" ELSE "defrag"
                BY <1>0, <1>b, <2>1 DEF MoveCell, MoveTo, Plan
            <3> HIDE DEF ids, moves
            <3> QED BY <1>0, <2>1, <3>1 DEF Plan
        <2>2. CASE ~last
            <3>1. /\ plan' = [plan EXCEPT !.ids = ids, !.moves = moves, !.nf = plan.nf + 1,
                                         !.i1 = plan.i1 + 1, !.cont = TRUE]
                  /\ pc' = "move"
                BY <1>0, <1>a, <2>2 DEF MoveCell, MoveTo, Plan
            <3> HIDE DEF ids, moves
            <3> QED BY <1>0, <2>2, <3>1 DEF Plan
        <2> QED BY <2>1, <2>2
    <1> HIDE DEF moves
    <1>5. Cardinality(UsedFrom(plan.i1 + 1)) = plan.nh - plan.nf - 1
        <2>1. Cardinality(UsedFrom(plan.i1)) = Cardinality(UsedFrom(plan.i1 + 1)) + 1
            BY <1>a, <1>3, UsedFromNext
        <2>2. Cardinality(UsedFrom(plan.i1 + 1)) \in Nat
            BY <1>3, UsedFromFinite
        <2>3. Cardinality(UsedFrom(plan.i1)) = plan.nh - plan.nf
            BY <1>2
        <2> QED BY <1>b, <2>1, <2>2, <2>3
    <1>6. last <=> plan.nf + 1 = plan.nh
        <2>1. ASSUME plan.i1 + 1 = plan.n_kv PROVE plan.nf + 1 = plan.nh
            <3>1. Cardinality(UsedFrom(plan.i1 + 1)) = 0
                BY <2>1, UsedFromEnd
            <3> QED BY <1>b, <1>5, <3>1
        <2> QED BY <2>1
    <1>7. Front' = to + 1
        <2>1. CASE last
            BY <1>b, <1>4, <1>6, <2>1 DEF Front
        <2>2. CASE ~last
            BY <1>b, <1>4, <2>2 DEF Front
        <2> QED BY <2>1, <2>2
    <1>8. /\ cells'[to] = cells[plan.i1] /\ cells'[plan.i1] = NewCell
          /\ \A i \in Index \ {to, plan.i1} : cells'[i] = cells[i]
        <2>1. cells \in [Index -> Cell]
            BY DEF IInv, TypeOK
        <2> HIDE DEF to
        <2> QED BY <1>1, <1>3, <2>1
    <1>9. /\ cells'[to].seq_id # {} /\ cells'[plan.i1].seq_id = {}
          /\ \A i \in Index \ {to, plan.i1} : (cells'[i].seq_id = {}) <=> Empty(i)
        <2>1. NewCell.seq_id = {}
            BY DEF NewCell
        <2> HIDE DEF to
        <2> QED BY <1>a, <1>8, <2>1 DEF Empty
    <1> HIDE DEF to, last
    <1>10. UsedCells' \subseteq 0 .. plan.n_kv - 1
        <2>1. ASSUME NEW i \in UsedCells' PROVE i \in 0 .. plan.n_kv - 1
            <3>1. i \in Index /\ cells'[i].seq_id # {}
                BY DEF UsedCells, Empty
            <3>2. CASE i = to
                BY <1>b, <1>3, <3>2
            <3>3. CASE i # to
                <4>1. i \in UsedCells
                    BY <1>9, <3>1, <3>3 DEF UsedCells, Empty
                <4> QED BY <1>2, <4>1
            <3> QED BY <3>2, <3>3
        <2> QED BY <2>1
    <1>11. \A i \in 0 .. to : cells'[i].seq_id # {}
        <2>1. ASSUME NEW i \in 0 .. to PROVE cells'[i].seq_id # {}
            <3>1. CASE i = to
                BY <1>9, <3>1
            <3>2. CASE i # to
                <4>1. i \in 0 .. to - 1 /\ i \in Index /\ i # plan.i1
                    BY <1>3, <3>2 DEF Index
                <4>2. ~Empty(i)
                    BY <1>2, <4>1
                <4> QED BY <1>9, <3>2, <4>1, <4>2
            <3> QED BY <3>1, <3>2
        <2> QED BY <2>1
    <1>12. /\ ids[plan.i1] = to
           /\ \A i \in 0 .. plan.n_kv - 1 : i # plan.i1 => ids[i] = plan.ids[i]
        BY <1>0, <1>3
    <1> HIDE DEF ids
    <1>13. \A i \in to + 1 .. plan.n_kv - 1 : cells'[i].seq_id # {} => ids[i] = plan.n_kv
        <2>1. ASSUME NEW i \in to + 1 .. plan.n_kv - 1, cells'[i].seq_id # {}
              PROVE  ids[i] = plan.n_kv
            <3>1. /\ i \in to .. plan.n_kv - 1 /\ i \in 0 .. plan.n_kv - 1 /\ i \in Index
                  /\ i # to
                BY <1>b, <1>3 DEF Index
            <3>2. i # plan.i1
                BY <1>9, <2>1
            <3>3. ~Empty(i)
                BY <1>9, <2>1, <3>1, <3>2
            <3>4. plan.ids[i] = plan.n_kv
                BY <1>2, <3>1, <3>3
            <3> QED BY <1>12, <3>1, <3>2, <3>4
        <2> QED BY <2>1
    <1>14. /\ \A i \in Planned' : i = plan.i1 \/ (i \in Planned /\ ids[i] = plan.ids[i])
           /\ \A i \in Planned' : i # plan.i1 => ids[i] < to
        <2>1. ASSUME NEW i \in Planned', i # plan.i1
              PROVE  i \in Planned /\ ids[i] = plan.ids[i] /\ ids[i] < to
            <3>1. i \in 0 .. plan.n_kv - 1 /\ ids[i] # i /\ ids[i] # plan.n_kv
                BY <1>4 DEF Planned, Moved
            <3>2. ids[i] = plan.ids[i]
                BY <1>12, <2>1, <3>1
            <3>3. i \in Planned
                BY <3>1, <3>2 DEF Planned, Moved
            <3> QED BY <1>2, <3>2, <3>3
        <2> QED BY <2>1
    <1>15. \A i \in Planned' : plan.n_used <= i /\ ids[i] < to + 1
        <2>1. ASSUME NEW i \in Planned' PROVE plan.n_used <= i /\ ids[i] < to + 1
            <3>1. CASE i = plan.i1
                BY <1>2, <1>3, <1>12, <3>1
            <3>2. CASE i # plan.i1
                <4>1. i \in Planned /\ ids[i] = plan.ids[i] /\ ids[i] < to
                    BY <1>14, <3>2
                <4>2. plan.ids[i] \in 0 .. plan.n_kv
                    BY <1>0, <4>1 DEF Planned
                <4>3. plan.n_used <= i
                    BY <1>2, <4>1
                <4> QED BY <1>b, <1>3, <4>1, <4>2, <4>3
            <3> QED BY <3>1, <3>2
        <2> QED BY <2>1
    <1>16. TargetsDiffer'
        <2>1. ASSUME NEW i \in Planned', NEW j \in Planned', ids[i] = ids[j] PROVE i = j
            <3>1. CASE i = plan.i1 /\ j # plan.i1
                BY <1>3, <1>12, <1>14, <2>1, <3>1
            <3>2. CASE i # plan.i1 /\ j = plan.i1
                BY <1>3, <1>12, <1>14, <2>1, <3>2
            <3>3. CASE i # plan.i1 /\ j # plan.i1
                BY <1>2, <1>14, <2>1, <3>3 DEF TargetsDiffer
            <3> QED BY <3>1, <3>2, <3>3
        <2> QED BY <1>4, <2>1 DEF TargetsDiffer
    <1>17. plan'.i0 <= plan'.n_used
        BY <1>b, <1>4
    <1>18. FrontInv'
        <2>1. \A i \in 0 .. Front' - 1 : ~Empty(i)'
            BY <1>3, <1>7, <1>11 DEF Empty
        <2>2. \A i \in Front' .. plan'.n_kv - 1 : ~Empty(i)' => plan'.ids[i] = plan'.n_kv
            BY <1>4, <1>7, <1>13 DEF Empty
        <2>3. \A i \in Planned' : plan'.n_used <= i /\ plan'.ids[i] < Front'
            BY <1>4, <1>7, <1>15
        <2>4. plan'.n_used = used' /\ UsedCells' \subseteq 0 .. plan'.n_kv - 1
            BY <1>1, <1>2, <1>4, <1>10
        <2> QED BY <1>16, <1>17, <2>1, <2>2, <2>3, <2>4 DEF FrontInv
    <1>19. SourceInv'
        <2>1. CASE last
            BY <1>4, <2>1 DEF SourceInv
        <2>2. CASE ~last
            <3>1. plan'.n_used <= plan'.i1
                BY <1>b, <1>2, <1>4, <2>2
            <3>2. UsedFrom(plan.i1)' = UsedFrom(plan.i1 + 1)
                <4>1. ASSUME NEW i \in plan.i1 + 1 .. plan.n_kv - 1
                      PROVE  (cells'[i].seq_id = {}) <=> Empty(i)
                    <5>1. i \in Index /\ i # to /\ i # plan.i1
                        BY <1>b, <1>3 DEF Index
                    <5> QED BY <1>9, <5>1
                <4>2. plan'.i1 = plan.i1 + 1 /\ plan'.n_kv = plan.n_kv
                    BY <1>4, <2>2
                <4> QED BY <4>1, <4>2 DEF UsedFrom, Empty
            <3>3. plan'.nh - plan'.nf = plan.nh - plan.nf - 1
                BY <1>b, <1>4, <2>2
            <3> QED BY <1>4, <1>5, <2>2, <3>1, <3>2, <3>3 DEF SourceInv
        <2> QED BY <2>1, <2>2
    <1>20. CopyInv'
        <2>1. ASSUME pc' = "copy" PROVE moves = MaxMoves
            BY <1>4, <2>1
        <2>2. \A i \in Planned' : plan'.n_used <= i /\ plan'.ids[i] < plan'.n_used
            <3>1. ASSUME NEW i \in Planned' PROVE plan.n_used <= i /\ ids[i] < plan.n_used
                <4>1. i = plan.i1 \/ (i \in Planned /\ ids[i] = plan.ids[i])
                    BY <1>14
                <4>2. ids[i] \in Int
                    <5>1. CASE i = plan.i1
                        BY <1>3, <1>12, <5>1
                    <5>2. CASE i \in Planned /\ ids[i] = plan.ids[i]
                        <6>1. plan.ids[i] \in 0 .. plan.n_kv
                            BY <1>0, <5>2 DEF Planned
                        <6> QED BY <5>2, <6>1
                    <5> QED BY <4>1, <5>1, <5>2
                <4> QED BY <1>b, <1>3, <1>15, <4>2
            <3> QED BY <1>4, <3>1
        <2>3. pc' = "copy" => ~(plan'.moves < MaxMoves)
            BY <1>4, <2>1
        <2> QED BY <1>16, <2>2, <2>3 DEF CopyInv
    <1>21. pc' \in {"defrag", "move", "copy"}
        BY <1>4
    <1> QED BY <1>18, <1>19, <1>20, <1>21 DEF DefragIInv

LEMMA PassCellDefrag == ASSUME IInv, DefragIInv, PassCell PROVE DefragIInv'
    <1>0. plan \in Plan /\ plan.ids \in [0 .. plan.n_kv - 1 -> 0 .. plan.n_kv]
        BY PlanNumbers
    <1>1. pc = "move" /\ plan.i1 < plan.n_kv /\ ~Movable(plan.i1) /\ UNCHANGED <<cells, used>>
        BY DEF PassCell, metaVars
    <1>2. /\ plan.n_kv \in Nat /\ plan.n_used \in Nat /\ plan.i0 \in Nat /\ plan.nh \in Nat
          /\ plan.nf \in Nat /\ plan.i1 \in Nat /\ plan.n_used <= plan.n_kv
          /\ plan.nf < plan.nh /\ plan.i0 + plan.nh <= plan.n_used
        BY <1>1, PlanNumbers, SMTT(60)
    <1>3. /\ Front = plan.i0 + plan.nf
          /\ \A i \in Front .. plan.n_kv - 1 : ~Empty(i) => plan.ids[i] = plan.n_kv
          /\ \A i \in Planned : plan.n_used <= i /\ plan.ids[i] < Front
          /\ TargetsDiffer /\ FrontInv
          /\ plan.n_used <= plan.i1 /\ Cardinality(UsedFrom(plan.i1)) = plan.nh - plan.nf
        BY <1>1 DEF DefragIInv, FrontInv, SourceInv, Front
    <1>4. CASE plan.moves = MaxMoves
        <2>1. pc' = "copy" /\ plan' = plan
            BY <1>4 DEF PassCell
        <2>2. Planned' = Planned /\ TargetsDiffer'
            BY <1>3, <2>1 DEF Planned, Moved, TargetsDiffer
        <2>3. \A i \in Planned : plan.n_used <= i /\ plan.ids[i] < plan.n_used
            <3>1. ASSUME NEW i \in Planned PROVE plan.n_used <= i /\ plan.ids[i] < plan.n_used
                <4>1. plan.ids[i] \in 0 .. plan.n_kv
                    BY <1>0 DEF Planned
                <4>2. plan.n_used <= i /\ plan.ids[i] < Front
                    BY <1>3
                <4>3. Front < plan.n_used /\ Front \in Nat
                    BY <1>2, <1>3
                <4> QED BY <1>2, <4>1, <4>2, <4>3
            <3> QED BY <3>1
        <2>4. ~(plan'.moves < MaxMoves)
            BY <1>4, <2>1
        <2>5. CopyInv'
            BY <2>1, <2>2, <2>3, <2>4 DEF CopyInv
        <2> QED BY <2>1, <2>5 DEF DefragIInv, FrontInv, SourceInv
    <1>5. CASE plan.moves # MaxMoves
        <2>1. pc' = "move" /\ plan' = [plan EXCEPT !.i1 = plan.i1 + 1, !.cont = FALSE]
            BY <1>0, <1>1, <1>5 DEF PassCell, Plan
        <2>2. /\ plan'.n_kv = plan.n_kv /\ plan'.n_used = plan.n_used /\ plan'.ids = plan.ids
              /\ plan'.nh = plan.nh /\ plan'.nf = plan.nf /\ plan'.i0 = plan.i0
              /\ plan'.i1 = plan.i1 + 1
            BY <1>0, <2>1 DEF Plan
        <2>3. /\ UsedCells' = UsedCells /\ \A i : Empty(i)' = Empty(i)
              /\ Planned' = Planned /\ Front' = Front
            BY <1>1, <2>2 DEF UsedCells, Empty, Planned, Moved, Front
        <2>4. FrontInv'
            BY <1>1, <1>3, <2>1, <2>2, <2>3 DEF FrontInv, TargetsDiffer
        <2>5. Empty(plan.i1)
            <3>1. plan.i1 \in Front .. plan.n_kv - 1
                BY <1>1, <1>2, <1>3
            <3> QED BY <1>1, <1>3, <3>1 DEF Movable
        <2>6. UsedFrom(plan.i1)' = UsedFrom(plan.i1)
            <3>1. UsedFrom(plan.i1) = UsedFrom(plan.i1 + 1)
                BY <1>1, <1>2, <2>5, UsedFromNext
            <3>2. UsedFrom(plan.i1)' = UsedFrom(plan.i1 + 1)
                BY <2>2, <2>3 DEF UsedFrom
            <3> QED BY <3>1, <3>2
        <2>7. SourceInv'
            BY <1>2, <1>3, <2>1, <2>2, <2>6 DEF SourceInv
        <2> QED BY <2>1, <2>4, <2>7 DEF DefragIInv, CopyInv
    <1> QED BY <1>4, <1>5

LEMMA DefragDoneDefrag == ASSUME IInv, DefragIInv, DefragDone PROVE DefragIInv'
    <1>1. /\ pc = "defrag" /\ pc' = "copy" /\ plan.i0 >= plan.n_used /\ plan' = plan
          /\ UNCHANGED cells
        BY DEF DefragDone, DoneAt, metaVars
    <1>2. plan.n_used \in Nat /\ plan.i0 \in Nat
        BY PlanNumbers
    <1>3. /\ Front = plan.n_used
          /\ \A i \in 0 .. Front - 1 : ~Empty(i)
          /\ \A i \in Planned : plan.n_used <= i /\ plan.ids[i] < Front
          /\ TargetsDiffer
        BY <1>1, <1>2 DEF DefragIInv, FrontInv, SourceInv, Front
    <1>4. Planned' = Planned /\ TargetsDiffer' /\ \A i : Empty(i)' = Empty(i)
        BY <1>1, <1>3 DEF Planned, Moved, TargetsDiffer, Empty
    <1>5. CopyInv'
        BY <1>1, <1>3, <1>4 DEF CopyInv
    <1> QED BY <1>1, <1>5 DEF DefragIInv, FrontInv, SourceInv

LEMMA CopyRowsDefrag == ASSUME CopyRows PROVE DefragIInv'
    <1>1. pc' \in {"idle", "slot"} /\ plan' = NoPlan
        BY DEF CopyRows, AfterUpdate
    <1> QED BY <1>1, NotPlanning

\* Everything else happens without a plan.
LEMMA OtherDefrag ==
    ASSUME DefragIInv, pc \notin {"defrag", "move", "copy"},
           pc' \notin {"defrag", "move", "copy"}, UNCHANGED plan
    PROVE  DefragIInv'
    BY NotPlanning DEF DefragIInv

LEMMA NextDefrag == IInv /\ DefragIInv /\ [Next]_vars => DefragIInv'
    <1> SUFFICES ASSUME IInv, DefragIInv, [Next]_vars PROVE DefragIInv'
        OBVIOUS
    <1>1. CASE UNCHANGED vars
        <2>1. UNCHANGED <<cells, used, pc, plan>>
            BY <1>1 DEF vars, metaVars, callVars
        <2>2. /\ UsedCells' = UsedCells /\ \A i : Empty(i)' = Empty(i)
              /\ Planned' = Planned /\ Front' = Front /\ TargetsDiffer' = TargetsDiffer
              /\ UsedFrom(plan.i1)' = UsedFrom(plan.i1)
            BY <2>1 DEF UsedCells, Empty, Planned, Moved, Front, TargetsDiffer, UsedFrom
        <2> QED BY <2>1, <2>2 DEF DefragIInv, FrontInv, SourceInv, CopyInv
    <1>2. CASE Request
        <2>1. pc = "idle" /\ pc' \in {"idle", "update"} /\ plan' = plan
            BY <1>2, ZenonT(60)
               DEF Request, Clear, Clearing, Defrag, UpdateRequested, Decode, SeqKeep, Keeping,
                        SeqRm, Removing, SeqCp, SeqAdd, SeqDiv, callVars
        <2> QED BY <2>1, OtherDefrag, SMTT(60)
    <1>3. CASE BeginSlot \/ FindWrap \/ FindOccupied \/ FindFree \/ SetN \/ Compute
        <2>1. /\ pc \in {"slot", "find", "found", "compute"} /\ plan' = plan
              /\ pc' \in {"idle", "update", "find", "found", "compute"}
            BY <1>3 DEF BeginSlot, NoSlot, FindWrap, FindOccupied, SkipOccupied, FindFree, Filling,
                        SetN, Attending, Compute
        <2> QED BY <2>1, OtherDefrag
    <1>4. CASE Update \/ DefragKeep \/ DefragHole \/ MoveCell \/ PassCell \/ DefragDone \/ CopyRows
        BY <1>4, UpdateDefrag, DefragKeepDefrag, DefragHoleDefrag, MoveCellDefrag, PassCellDefrag,
           DefragDoneDefrag, CopyRowsDefrag
    <1> QED BY <1>1, <1>2, <1>3, <1>4 DEF Next, Continue

-----------------------------------------------------------------------------
(* Theorems                                                                *)

\* Whatever the cache is asked to do, a defragmentation fills it from the front, takes cells only
\* from beyond the used ones it counted, and has as many of them left as its hole needs.
THEOREM DefragInvariant == Spec => []DefragIInv
    <1>1. Init => DefragIInv
        BY DEF Init, DefragIInv, FrontInv, SourceInv, CopyInv
    <1> QED BY <1>1, Invariant, NextDefrag, PTL DEF Spec

\* In a cache of any size, whatever pattern of cells is in use, a hole of any length has used
\* cells behind it to be filled with: the assertion nf == nh of the code never fails.
THEOREM HolesAreFilled == Spec => []HolesCanBeFilled
    <1>1. ASSUME IInv, DefragIInv, pc = "defrag", plan.i0 < plan.n_used, Empty(plan.i0)
          PROVE  \E nh \in 1 .. plan.n_used, is \in Index : IsHole(nh) /\ IsSource(is, nh)
        <2>0. /\ plan.n_kv \in Nat /\ plan.n_used \in Nat /\ plan.i0 \in Nat
              /\ plan.n_used <= plan.n_kv /\ plan.n_kv <= Size
            BY <1>1, PlanNumbers
        <2>1. /\ Front = plan.i0
              /\ \A i \in plan.i0 .. plan.n_kv - 1 : ~Empty(i) => plan.ids[i] = plan.n_kv
            BY <1>1, <2>0 DEF DefragIInv, FrontInv, SourceInv, Front
        <2>2. PICK nh \in 1 .. plan.n_used : IsHole(nh)
            <3> DEFINE ends == {k \in Nat : k <= plan.n_used /\ plan.i0 + k <= plan.n_used
                                            /\ (plan.i0 + k < plan.n_used => ~Empty(plan.i0 + k))}
            <3>1. plan.n_used - plan.i0 \in ends
                BY <1>1, <2>0
            <3>2. PICK nh \in ends : \A k \in ends : nh <= k
                <4>1. ends \in SUBSET Nat /\ ends # {}
                    BY <3>1
                <4> HIDE DEF ends
                <4> QED BY <4>1, LeastNatural
            <3>3. nh # 0
                <4>1. plan.i0 + 0 = plan.i0
                    BY <2>0
                <4>2. 0 \notin ends
                    BY <1>1, <4>1
                <4> QED BY <4>2
            <3>4. ASSUME NEW k \in 0 .. nh - 1 PROVE Empty(plan.i0 + k)
                <4>1. k \notin ends /\ k \in Nat
                    BY <3>2
                <4> QED BY <2>0, <3>2, <4>1
            <3> QED BY <2>0, <3>2, <3>3, <3>4 DEF IsHole
        <2>3. plan.i0 + nh <= plan.n_used
            BY <2>2 DEF IsHole
        <2>4. PICK is \in 0 .. plan.n_kv - 1 :
                  plan.i0 < is /\ ~Empty(is) /\ Cardinality(UsedFrom(is)) = nh
            <3> DEFINE back == {x \in Nat : x <= plan.n_kv - plan.i0
                                            /\ nh <= Cardinality(UsedFrom(plan.n_kv - x))}
            <3>1. plan.n_kv - plan.i0 \in back
                <4>1. Cardinality(UsedFrom(plan.i0)) = plan.n_used - plan.i0
                    BY <1>1, <2>1, UsedFromFront
                <4>2. plan.n_kv - (plan.n_kv - plan.i0) = plan.i0 /\ plan.n_kv - plan.i0 \in Nat
                    BY <1>1, <2>0
                <4>3. nh <= plan.n_used - plan.i0
                    BY <2>0, <2>3
                <4> QED BY <4>1, <4>2, <4>3
            <3>2. PICK x \in back : \A y \in back : x <= y
                <4>1. back \in SUBSET Nat /\ back # {}
                    BY <3>1
                <4> HIDE DEF back
                <4> QED BY <4>1, LeastNatural
            <3> DEFINE is == plan.n_kv - x
            <3>3. x # 0
                <4>1. plan.n_kv - 0 = plan.n_kv
                    BY <2>0
                <4>2. 0 \notin back
                    BY <1>1, <4>1, UsedFromEnd
                <4> QED BY <4>2
            <3>4. /\ is \in 0 .. plan.n_kv - 1 /\ is + 1 = plan.n_kv - (x - 1) /\ x - 1 \in Nat
                  /\ x - 1 <= plan.n_kv - plan.i0 /\ plan.i0 <= is
                BY <2>0, <3>2, <3>3
            <3>5. nh <= Cardinality(UsedFrom(is)) /\ Cardinality(UsedFrom(is)) \in Nat
                BY <1>1, <3>2, <3>4, UsedFromFinite
            <3>6. Cardinality(UsedFrom(is + 1)) < nh /\ Cardinality(UsedFrom(is + 1)) \in Nat
                <4>1. x - 1 \notin back
                    BY <3>2, <3>4
                <4>2. ~(nh <= Cardinality(UsedFrom(is + 1)))
                    BY <3>4, <4>1
                <4>3. is + 1 \in Nat
                    BY <3>4
                <4>4. Cardinality(UsedFrom(is + 1)) \in Nat
                    BY <1>1, <4>3, UsedFromFinite
                <4> HIDE DEF is
                <4> QED BY <4>2, <4>4
            <3> HIDE DEF back, is
            <3>7. ~Empty(is) /\ Cardinality(UsedFrom(is)) = nh
                <4>1. ~Empty(is) => Cardinality(UsedFrom(is)) = Cardinality(UsedFrom(is + 1)) + 1
                    BY <1>1, <3>4, UsedFromNext
                <4>2. Empty(is) => UsedFrom(is) = UsedFrom(is + 1)
                    BY <1>1, <3>4, UsedFromNext
                <4>3. ~Empty(is)
                    BY <3>5, <3>6, <4>2
                <4> QED BY <3>5, <3>6, <4>1, <4>3
            <3>8. is # plan.i0
                BY <1>1, <3>7
            <3>9. plan.i0 < is
                BY <2>0, <3>4, <3>8
            <3> QED BY <3>4, <3>7, <3>9
        <2>5. is \in Index /\ is \in plan.i0 + 1 .. plan.n_kv - 1
            BY <2>0, <2>4 DEF Index
        <2>6. ASSUME NEW i \in is .. plan.n_kv - 1 PROVE Movable(i) <=> ~Empty(i)
            <3>1. i \in plan.i0 .. plan.n_kv - 1 /\ i < plan.n_kv
                BY <2>0, <2>4
            <3> QED BY <2>1, <3>1 DEF Movable
        <2>7. {i \in is .. plan.n_kv - 1 : Movable(i)} = UsedFrom(is)
            BY <2>6 DEF UsedFrom
        <2>8. Movable(is)
            <3>1. is \in is .. plan.n_kv - 1
                BY <2>0, <2>4
            <3> QED BY <2>4, <2>6, <3>1
        <2>9. IsSource(is, nh)
            BY <2>4, <2>5, <2>7, <2>8 DEF IsSource
        <2> QED BY <2>2, <2>5, <2>9
    <1>2. IInv /\ DefragIInv => HolesCanBeFilled
        BY <1>1 DEF HolesCanBeFilled
    <1> QED BY <1>2, Invariant, DefragInvariant, PTL

\* The copies that one graph makes of any number of rows may be made in any order.
THEOREM CopiesCommute == Spec => []CopiesAreApart
    <1>1. ASSUME IInv, DefragIInv, pc = "copy", NEW i \in Planned, NEW j \in Planned
          PROVE  plan.ids[i] # j /\ (i # j => plan.ids[i] # plan.ids[j])
        <2>1. /\ plan.n_used <= j /\ plan.ids[i] < plan.n_used
              /\ plan.ids[i] = plan.ids[j] => i = j
            BY <1>1 DEF DefragIInv, CopyInv, TargetsDiffer
        <2>2. plan.n_used \in Nat /\ j \in Int /\ plan.n_kv \in Nat
            BY <1>1, PlanNumbers DEF Planned
        <2>3. plan.ids[i] \in Int
            BY <1>1, <2>2, PlanNumbers, SMTT(60) DEF Planned
        <2> QED BY <2>1, <2>2, <2>3
    <1>2. IInv /\ DefragIInv => CopiesAreApart
        BY <1>1 DEF CopiesAreApart, Planned
    <1> QED BY <1>2, Invariant, DefragInvariant, PTL

\* The used cells are the first ones after a defragmentation that had moves left.
THEOREM Compacted == Spec => []DefragCompacts
    <1>1. DefragIInv => DefragCompacts
        BY DEF DefragIInv, CopyInv, DefragCompacts
    <1> QED BY <1>1, DefragInvariant, PTL

-----------------------------------------------------------------------------
(* Rows and their cells                                                    *)

\* Deltas are pending only as long as has_shift says so; a call settles them before it
\* looks for a slot or moves cells.
ShiftInv ==
    /\ ~has_shift => \A i \in Index : cells[i].delta = 0
    /\ pc \notin {"idle", "update"} => ~has_shift

\* A used cell stands for a token.
TokensInv == \A i \in UsedCells : cells[i].tok \in Toks

\* The slot that was found has taken the tokens of the ubatch.
SlotInv ==
    pc \in {"found", "compute"} =>
        /\ head + NTokens <= Size
        /\ \A i \in head .. head + NTokens - 1 : /\ cells[i].pos = batch[i - head + 1].pos
                                                 /\ cells[i].tok = batch[i - head + 1].tok

RowsIInv == ShiftInv /\ TokensInv /\ SlotInv /\ RowsMatchCells

-----------------------------------------------------------------------------
(* Rows                                                                    *)

\* The rows of a cell that nothing is moved to are its own, those of one that a cell is
\* moved to are that cell's.
LEMMA OwnRow ==
    ASSUME NEW j, \A i \in Planned : plan.ids[i] # j
    PROVE  RowOf(j) = rows[j]
    <1>1. MovedTo(j) = {}
        BY DEF MovedTo, Planned
    <1> QED BY <1>1 DEF RowOf

LEMMA MovedRow ==
    ASSUME TargetsDiffer, NEW i \in Planned
    PROVE  RowOf(plan.ids[i]) = rows[i]
    <1>1. MovedTo(plan.ids[i]) = {i}
        BY DEF MovedTo, Planned, TargetsDiffer
    <1>2. (CHOOSE k \in {i} : TRUE) = i
        OBVIOUS
    <1> QED BY <1>1, <1>2 DEF RowOf

\* Without a plan all rows are the cells' own.
LEMMA RowsWithoutPlan ==
    ASSUME plan = NoPlan
    PROVE  \A j : RowOf(j) = rows[j]
    <1>1. plan.n_kv = 0
        BY DEF NoPlan
    <1>2. Planned = {}
        BY <1>1 DEF Planned
    <1> QED BY <1>2, OwnRow

\* The rows of cell i match it.
Matches(i) == rows[i].tok = cells[i].tok /\ rows[i].rot + cells[i].delta = cells[i].pos

LEMMA MatchesWithoutPlan ==
    ASSUME plan = NoPlan
    PROVE  RowsMatchCells <=> \A i \in UsedCells \ ToStore : Matches(i)
    BY RowsWithoutPlan DEF RowsMatchCells, Matches

LEMMA MatchesNext ==
    ASSUME Planned' = {}
    PROVE  RowsMatchCells' <=> (\A i \in UsedCells \ ToStore : Matches(i))'
    <1>1. \A j : MovedTo(j)' = {}
        BY DEF MovedTo, Planned
    <1>2. \A j : RowOf(j)' = rows'[j]
        BY <1>1 DEF RowOf
    <1> QED BY <1>2 DEF RowsMatchCells, Matches

LEMMA NoPlanNext == plan' = NoPlan => Planned' = {}
    <1>1. plan' = NoPlan => plan'.n_kv = 0
        BY DEF NoPlan
    <1> QED BY <1>1 DEF Planned

-----------------------------------------------------------------------------
(* Operations on sequences                                                 *)

\* A step that frees cells, shares them, or moves position and delta together.
CellsGoOn ==
    \A i \in Index : cells'[i].seq_id # {} =>
        /\ cells[i].seq_id # {} /\ cells'[i].tok = cells[i].tok
        /\ cells'[i].pos - cells'[i].delta = cells[i].pos - cells[i].delta

DeltasKept == \A i \in Index : cells'[i].delta = cells[i].delta

LEMMA QuietRows ==
    ASSUME IInv, IInv', RowsIInv, plan = NoPlan, UNCHANGED <<rows, plan>>, CellsGoOn,
           pc \notin {"found", "compute"}, pc' \notin {"found", "compute"},
           ~has_shift' => \A i \in Index : cells'[i].delta = 0,
           pc' \notin {"idle", "update"} => ~has_shift'
    PROVE  RowsIInv'
    <1>1. \A i \in UsedCells' : i \in UsedCells /\ i \in Index /\ cells'[i].tok = cells[i].tok
        BY DEF CellsGoOn, UsedCells, Empty
    <1>2. TokensInv'
        BY <1>1 DEF RowsIInv, TokensInv
    <1>3. ShiftInv' /\ SlotInv'
        BY DEF ShiftInv, SlotInv
    <1>4. ToStore = {} /\ ToStore' = {}
        BY DEF ToStore
    <1>5. ASSUME NEW i \in UsedCells'
          PROVE  rows[i].tok = cells'[i].tok /\ rows[i].rot + cells'[i].delta = cells'[i].pos
        <2>1. i \in UsedCells \ ToStore /\ i \in Index
            BY <1>1, <1>4
        <2>2. Matches(i)
            BY <2>1, MatchesWithoutPlan DEF RowsIInv
        <2>3. cells[i].pos \in Int /\ cells[i].delta \in Int
            BY <2>1, CellTyped
        <2>4. cells'[i].pos \in Int /\ cells'[i].delta \in Int
            <3>1. cells'[i] \in Cell
                BY <2>1 DEF IInv, TypeOK
            <3>2. -1 .. MaxPos \subseteq Int
                OBVIOUS
            <3> QED BY <3>1, <3>2 DEF Cell
        <2>5. rows[i].rot \in Int
            BY <2>1 DEF IInv, TypeOK, Row
        <2>6. cells'[i].pos - cells'[i].delta = cells[i].pos - cells[i].delta
            BY <2>1 DEF CellsGoOn, UsedCells, Empty
        <2> QED BY <1>1, <2>2, <2>3, <2>4, <2>5, <2>6 DEF Matches
    <1>6. RowsMatchCells'
        BY <1>4, <1>5, MatchesNext, NoPlanNext DEF Matches
    <1> QED BY <1>2, <1>3, <1>6 DEF RowsIInv

\* What freeing and sharing leave of a cell.
LEMMA FreedDelta ==
    ASSUME NEW c \in LooseCell
    PROVE  Freed(c).delta = c.delta /\ Freed(c).seq_id = {}
    BY DEF LooseCell, Freed

LEMMA RelabelledFields ==
    ASSUME NEW c \in Cell, NEW q
    PROVE  /\ Relabelled(c, q).delta = c.delta /\ Relabelled(c, q).pos = c.pos
           /\ Relabelled(c, q).tok = c.tok /\ Relabelled(c, q).seq_id = q
    BY DEF Cell, Relabelled

LEMMA AtFields ==
    ASSUME NEW c \in Cell, NEW p, NEW d
    PROVE  /\ At(c, p, d).delta = d /\ At(c, p, d).pos = p
           /\ At(c, p, d).tok = c.tok /\ At(c, p, d).seq_id = c.seq_id
    BY DEF Cell, At

\* Each cell is freed, gets other sequences, or stays as it is.
LEMMA FreeOrShare ==
    ASSUME IInv,
           \A i \in Index : \/ cells'[i] = Freed(cells[i]) \/ cells'[i] = cells[i]
                            \/ ~Empty(i) /\ \E q : cells'[i] = Relabelled(cells[i], q)
    PROVE  CellsGoOn /\ DeltasKept
    <1>1. ASSUME NEW i \in Index
          PROVE  /\ cells'[i].delta = cells[i].delta
                 /\ cells'[i].seq_id # {} =>
                        /\ cells[i].seq_id # {} /\ cells'[i].tok = cells[i].tok
                        /\ cells'[i].pos - cells'[i].delta = cells[i].pos - cells[i].delta
        <2>0. cells[i] \in Cell /\ cells[i] \in LooseCell
            BY CellTyped, CellIsLoose
        <2>1. CASE cells'[i] = Freed(cells[i])
            BY <2>0, <2>1, FreedDelta
        <2>2. CASE ~Empty(i) /\ \E q : cells'[i] = Relabelled(cells[i], q)
            <3>1. PICK q : cells'[i] = Relabelled(cells[i], q)
                BY <2>2
            <3>2. cells[i].seq_id # {}
                BY <2>2 DEF Empty
            <3> QED BY <2>0, <3>1, <3>2, RelabelledFields
        <2>3. CASE cells'[i] = cells[i]
            BY <2>3
        <2> QED BY <2>1, <2>2, <2>3
    <1> QED BY <1>1 DEF CellsGoOn, DeltasKept

LEMMA ClearRows == ASSUME IInv, RowsIInv, Clear PROVE RowsIInv'
    <1>1. /\ pc = "idle" /\ pc' = pc /\ has_shift' = has_shift
          /\ cells' = [i \in Index |-> Freed(cells[i])]
        BY DEF Clear, Clearing, flagVars, callVars
    <1>2. \A i \in Index : cells'[i].delta = cells[i].delta /\ cells'[i].seq_id = {}
        BY <1>1, CellTyped, CellIsLoose, FreedDelta
    <1>3. UsedCells' = {}
        BY <1>2 DEF UsedCells, Empty
    <1> QED BY <1>1, <1>2, <1>3 DEF RowsIInv, ShiftInv, TokensInv, SlotInv, RowsMatchCells

LEMMA SeqRmCells ==
    ASSUME IInv, NEW s, NEW p0 \in Int, NEW p1, SeqRm(s, p0, p1)
    PROVE  /\ CellsGoOn /\ DeltasKept
           /\ pc = "idle" /\ UNCHANGED <<rows, has_shift, callVars>>
    <1>1. /\ pc = "idle" /\ UNCHANGED <<rows, has_shift, callVars>>
          /\ cells' = [i \in Index |->
                          IF i \in FreedBy(s, p0, p1) THEN Freed(cells[i])
                          ELSE IF i \in Hit(s, p0, p1) THEN Relabelled(cells[i], Without(i, s))
                          ELSE cells[i]]
        BY DEF SeqRm, Removing, flagVars, Relabelled
    <1>2. \A i \in Hit(s, p0, p1) : ~Empty(i)
        BY HitUsed DEF UsedCells
    <1>3. CellsGoOn /\ DeltasKept
        BY <1>1, <1>2, FreeOrShare
    <1> QED BY <1>1, <1>3

LEMMA SeqCpCells ==
    ASSUME IInv, NEW src, NEW dst \in Seqs, NEW p0 \in Int, NEW p1, SeqCp(src, dst, p0, p1)
    PROVE  /\ CellsGoOn /\ DeltasKept
           /\ pc = "idle" /\ UNCHANGED <<rows, has_shift, callVars>>
    <1>1. /\ pc = "idle" /\ UNCHANGED <<rows, has_shift, callVars>>
          /\ cells' = [i \in Index |->
                          IF i \in Hit(src, p0, p1)
                          THEN Relabelled(cells[i], cells[i].seq_id \cup {dst}) ELSE cells[i]]
        BY DEF SeqCp, flagVars, Relabelled
    <1>2. \A i \in Hit(src, p0, p1) : ~Empty(i)
        BY HitUsed DEF UsedCells
    <1>3. CellsGoOn /\ DeltasKept
        BY <1>1, <1>2, FreeOrShare
    <1> QED BY <1>1, <1>3

LEMMA SeqKeepCells ==
    ASSUME IInv, NEW s \in Seqs, SeqKeep(s)
    PROVE  /\ CellsGoOn /\ DeltasKept
           /\ pc = "idle" /\ UNCHANGED <<rows, has_shift, callVars>>
    <1>1. /\ pc = "idle" /\ UNCHANGED <<rows, has_shift, callVars>>
          /\ cells' = [i \in Index |-> IF i \in {j \in Index : s \notin cells[j].seq_id}
                                       THEN Freed(cells[i]) ELSE Relabelled(cells[i], {s})]
        BY DEF SeqKeep, Keeping, flagVars, Relabelled
    <1>2. ASSUME NEW i \in Index
          PROVE  \/ cells'[i] = Freed(cells[i])
                 \/ ~Empty(i) /\ \E q : cells'[i] = Relabelled(cells[i], q)
        BY <1>1 DEF Empty
    <1>3. CellsGoOn /\ DeltasKept
        BY <1>2, FreeOrShare
    <1> QED BY <1>1, <1>3

\* Positions and deltas change by the same amount.
LEMMA ShiftedCells ==
    ASSUME IInv, NEW H \in SUBSET UsedCells,
           \A i \in Index \ H : cells'[i] = cells[i],
           \A i \in H : \/ cells'[i].seq_id = {}
                        \/ \E k \in Int : cells'[i] = At(cells[i], cells[i].pos + k, cells[i].delta + k)
    PROVE  CellsGoOn
    <1>1. ASSUME NEW i \in Index, cells'[i].seq_id # {}
          PROVE  /\ cells[i].seq_id # {} /\ cells'[i].tok = cells[i].tok
                 /\ cells'[i].pos - cells'[i].delta = cells[i].pos - cells[i].delta
        <2>1. CASE i \in H
            <3>1. PICK k \in Int : cells'[i] = At(cells[i], cells[i].pos + k, cells[i].delta + k)
                BY <1>1, <2>1
            <3>2. cells[i] \in Cell /\ cells[i].pos \in Int /\ cells[i].delta \in Int
                BY CellTyped
            <3>3. /\ cells'[i].pos = cells[i].pos + k /\ cells'[i].delta = cells[i].delta + k
                  /\ cells'[i].tok = cells[i].tok
                BY <3>1, <3>2, AtFields
            <3>4. cells[i].seq_id # {}
                BY <2>1 DEF UsedCells, Empty
            <3> QED BY <3>2, <3>3, <3>4
        <2>2. CASE i \notin H
            BY <1>1, <2>2
        <2> QED BY <2>1, <2>2
    <1> QED BY <1>1 DEF CellsGoOn

LEMMA SeqAddCells ==
    ASSUME IInv, NEW s, NEW p0 \in Int, NEW p1, NEW d \in Int, SeqAdd(s, p0, p1, d)
    PROVE  /\ CellsGoOn /\ pc = "idle" /\ UNCHANGED <<rows, callVars>>
           /\ ~has_shift' => ~has_shift /\ \A i \in Index : cells'[i] = cells[i]
    <1> DEFINE H == Hit(s, p0, p1)
               S == {i \in H : cells[i].pos + d < 0}
               moved(i) == At(cells[i], cells[i].pos + d, cells[i].delta + d)
    <1>1. /\ pc = "idle" /\ UNCHANGED <<rows, callVars>> /\ has_shift' = (has_shift \/ H # {})
          /\ cells' = [i \in Index |-> IF i \in S THEN Freed(moved(i))
                                      ELSE IF i \in H THEN moved(i)
                                      ELSE cells[i]]
        BY DEF SeqAdd, At
    <1>2. H \in SUBSET UsedCells /\ S \subseteq H /\ H \subseteq Index
        BY HitUsed DEF UsedCells
    <1> HIDE DEF S, H
    <1>3. ASSUME NEW i \in H
          PROVE  \/ cells'[i].seq_id = {}
                 \/ \E k \in Int : cells'[i] = At(cells[i], cells[i].pos + k, cells[i].delta + k)
        <2>1. CASE i \in S
            <3>1. cells'[i] = Freed(moved(i))
                BY <1>1, <1>2, <2>1
            <3> HIDE DEF moved
            <3>2. Freed(moved(i)).seq_id = {}
                <4>1. /\ cells[i] \in Cell /\ cells[i].pos + d \in Int /\ cells[i].delta + d \in Int
                    BY <1>2, CellTyped
                <4>2. moved(i) \in LooseCell
                    BY <4>1, AtIsLoose DEF moved
                <4> QED BY <4>2, FreedDelta
            <3> QED BY <3>1, <3>2
        <2>2. CASE i \notin S
            BY <1>1, <1>2, <2>2
        <2> QED BY <2>1, <2>2
    <1>4. \A i \in Index \ H : cells'[i] = cells[i]
        BY <1>1, <1>2
    <1>5. CellsGoOn
        BY <1>2, <1>3, <1>4, ShiftedCells
    <1>6. ~has_shift' => \A i \in Index : cells'[i] = cells[i]
        BY <1>1, <1>4
    <1> QED BY <1>1, <1>5, <1>6

LEMMA SeqDivCells ==
    ASSUME IInv, NEW s, NEW p0 \in Int, NEW p1, NEW d \in Nat \ {0}, SeqDiv(s, p0, p1, d)
    PROVE  /\ CellsGoOn /\ pc = "idle" /\ UNCHANGED <<rows, callVars>>
           /\ ~has_shift' => ~has_shift /\ \A i \in Index : cells'[i] = cells[i]
    <1> DEFINE H == Hit(s, p0, p1)
    <1>1. /\ pc = "idle" /\ UNCHANGED <<rows, callVars>> /\ has_shift' = (has_shift \/ H # {})
          /\ cells' = [i \in Index |->
                          IF i \in H
                          THEN At(cells[i], cells[i].pos \div d,
                                  cells[i].delta + cells[i].pos \div d - cells[i].pos)
                          ELSE cells[i]]
        BY DEF SeqDiv, At
    <1>2. H \in SUBSET UsedCells /\ H \subseteq Index /\ \A i \in H : cells[i].pos >= 0
        BY HitUsed DEF UsedCells
    <1> HIDE DEF H
    <1>3. ASSUME NEW i \in H
          PROVE  \E k \in Int : cells'[i] = At(cells[i], cells[i].pos + k, cells[i].delta + k)
        <2> DEFINE q == cells[i].pos \div d
        <2>1. cells[i].pos \in Nat /\ cells[i].delta \in Int
            BY <1>2, CellTyped
        <2>2. q \in Nat
            BY <2>1, Divided
        <2>3. cells'[i] = At(cells[i], q, cells[i].delta + q - cells[i].pos)
            BY <1>1, <1>2
        <2> HIDE DEF q
        <2>4. /\ q - cells[i].pos \in Int /\ cells[i].pos + (q - cells[i].pos) = q
              /\ cells[i].delta + (q - cells[i].pos) = cells[i].delta + q - cells[i].pos
            BY <2>1, <2>2
        <2> QED BY <2>3, <2>4
    <1>4. \A i \in Index \ H : cells'[i] = cells[i]
        BY <1>1, <1>2
    <1>5. CellsGoOn
        BY <1>2, <1>3, <1>4, ShiftedCells
    <1>6. ~has_shift' => \A i \in Index : cells'[i] = cells[i]
        BY <1>1, <1>4
    <1> QED BY <1>1, <1>5, <1>6

\* Requests free cells, share them, or move them with their deltas.
LEMMA RequestCells ==
    ASSUME IInv, Request
    PROVE  /\ CellsGoOn /\ pc = "idle" /\ pc' \in {"idle", "update"} /\ plan' = plan
           /\ Clear \/ rows' = rows
           /\ ~has_shift' => ~has_shift /\ DeltasKept
    <1>1. CASE Clear
        <2>1. /\ pc = "idle" /\ pc' = pc /\ plan' = plan /\ has_shift' = has_shift
              /\ cells' = [i \in Index |-> Freed(cells[i])]
            BY <1>1 DEF Clear, Clearing, flagVars, callVars
        <2>2. CellsGoOn /\ DeltasKept
            BY <2>1, FreeOrShare
        <2> QED BY <1>1, <2>1, <2>2
    <1>2. CASE Defrag \/ UpdateRequested \/ Decode
        BY <1>2 DEF Defrag, UpdateRequested, Decode, metaVars, flagVars, callVars, CellsGoOn,
                    DeltasKept
    <1>3. ASSUME CellsGoOn, DeltasKept, pc = "idle", UNCHANGED <<rows, has_shift, callVars>>
          PROVE  /\ CellsGoOn /\ pc = "idle" /\ pc' \in {"idle", "update"} /\ plan' = plan
                 /\ Clear \/ rows' = rows
                 /\ ~has_shift' => ~has_shift /\ DeltasKept
        BY <1>3 DEF callVars
    <1>4. ASSUME CellsGoOn, pc = "idle", UNCHANGED <<rows, callVars>>,
                 ~has_shift' => ~has_shift /\ \A i \in Index : cells'[i] = cells[i]
          PROVE  /\ CellsGoOn /\ pc = "idle" /\ pc' \in {"idle", "update"} /\ plan' = plan
                 /\ Clear \/ rows' = rows
                 /\ ~has_shift' => ~has_shift /\ DeltasKept
        BY <1>4 DEF callVars, DeltasKept
    <1>5. ASSUME NEW s \in Seqs, SeqKeep(s)
          PROVE  CellsGoOn /\ DeltasKept /\ pc = "idle" /\ UNCHANGED <<rows, has_shift, callVars>>
        BY <1>5, SeqKeepCells
    <1>6. ASSUME NEW r \in Ranges PROVE r[1] \in Int /\ r[2] \in Int
        OBVIOUS
    <1>7. ASSUME NEW s \in Seqs \cup {-1}, NEW r \in Ranges, SeqRm(s, r[1], r[2])
          PROVE  CellsGoOn /\ DeltasKept /\ pc = "idle" /\ UNCHANGED <<rows, has_shift, callVars>>
        BY <1>6, <1>7, SeqRmCells
    <1>8. ASSUME NEW src \in Seqs, NEW dst \in Seqs, NEW r \in Ranges, SeqCp(src, dst, r[1], r[2])
          PROVE  CellsGoOn /\ DeltasKept /\ pc = "idle" /\ UNCHANGED <<rows, has_shift, callVars>>
        BY <1>6, <1>8, SeqCpCells
    <1>9. ASSUME NEW s \in Seqs, NEW r \in Ranges, NEW d \in Shifts, SeqAdd(s, r[1], r[2], d)
          PROVE  /\ CellsGoOn /\ pc = "idle" /\ UNCHANGED <<rows, callVars>>
                 /\ ~has_shift' => ~has_shift /\ \A i \in Index : cells'[i] = cells[i]
        <2>1. d \in Int
            OBVIOUS
        <2> QED BY <1>6, <1>9, <2>1, SeqAddCells
    <1>10. ASSUME NEW s \in Seqs, NEW r \in Ranges, NEW d \in Divisors, SeqDiv(s, r[1], r[2], d)
           PROVE  /\ CellsGoOn /\ pc = "idle" /\ UNCHANGED <<rows, callVars>>
                  /\ ~has_shift' => ~has_shift /\ \A i \in Index : cells'[i] = cells[i]
        <2>1. d \in Nat \ {0}
            OBVIOUS
        <2> QED BY <1>6, <1>10, <2>1, SeqDivCells
    <1> QED BY <1>1, <1>2, <1>3, <1>4, <1>5, <1>7, <1>8, <1>9, <1>10 DEF Request

LEMMA RequestRowsInv ==
    ASSUME IInv, IInv', DefragIInv, RowsIInv, Request
    PROVE  RowsIInv'
    <1>1. CASE Clear
        BY <1>1, ClearRows
    <1>2. CASE ~Clear
        <2>1. /\ CellsGoOn /\ pc = "idle" /\ pc' \in {"idle", "update"} /\ UNCHANGED <<rows, plan>>
              /\ ~has_shift' => ~has_shift /\ DeltasKept
            BY <1>2, RequestCells
        <2>2. ~has_shift' => \A i \in Index : cells'[i].delta = 0
            BY <2>1 DEF RowsIInv, ShiftInv, DeltasKept
        <2>3. plan = NoPlan
            BY <2>1 DEF DefragIInv
        <2> QED BY <2>1, <2>2, <2>3, QuietRows
    <1> QED BY <1>1, <1>2

-----------------------------------------------------------------------------
(* llama_kv_cache_update()                                                 *)

\* The K-shift pays all deltas.
LEMMA UpdateRows == ASSUME IInv, IInv', DefragIInv, RowsIInv, Update PROVE RowsIInv'
    <1>1. /\ pc = "update" /\ plan = NoPlan /\ has_shift' = FALSE
          /\ pc' \in {"defrag", "idle", "slot"}
        BY DEF Update, Updating, AfterUpdate, DefragIInv
    <1>2. \/ /\ has_shift
             /\ rows' = [i \in Index |-> Turned(rows[i], cells[i].delta)]
             /\ cells' = [i \in Index |-> [cells[i] EXCEPT !.delta = 0]]
          \/ ~has_shift /\ UNCHANGED <<rows, cells>>
        BY DEF Update, Updating
    <1>3. Planned' = {}
        <2>1. CASE do_defrag
            <3>1. PICK m \in 0 .. Size : plan' = [NoPlan EXCEPT !.n_kv = m, !.n_used = used,
                                                                !.ids = [i \in 0 .. m - 1 |-> m]]
                BY <2>1 DEF Update, Updating
            <3>2. plan'.n_kv = m /\ plan'.ids = [i \in 0 .. m - 1 |-> m]
                BY <3>1 DEF NoPlan
            <3> QED BY <3>2 DEF Planned, Moved
        <2>2. CASE ~do_defrag
            BY <1>1, <2>2, NoPlanNext DEF Update, Updating
        <2> QED BY <2>1, <2>2
    <1>4. ASSUME NEW i \in Index
          PROVE  /\ cells'[i].delta = 0 /\ cells'[i].tok = cells[i].tok
                 /\ cells'[i].pos = cells[i].pos /\ cells'[i].seq_id = cells[i].seq_id
        <2>1. CASE has_shift
            <3>1. cells'[i] = [cells[i] EXCEPT !.delta = 0]
                BY <1>2, <2>1
            <3>2. cells[i] \in Cell
                BY CellTyped
            <3> QED BY <3>1, <3>2 DEF Cell
        <2>2. CASE ~has_shift
            BY <1>2, <2>2 DEF RowsIInv, ShiftInv
        <2> QED BY <2>1, <2>2
    <1>5. UsedCells' = UsedCells /\ ToStore' = {} /\ ToStore = {}
        BY <1>1, <1>4 DEF UsedCells, Empty, ToStore
    <1>6. ASSUME NEW i \in UsedCells
          PROVE  rows'[i].tok = cells'[i].tok /\ rows'[i].rot + cells'[i].delta = cells'[i].pos
        <2>1. i \in Index /\ Matches(i) /\ cells[i].tok \in Toks
            BY <1>1, <1>5, MatchesWithoutPlan DEF RowsIInv, TokensInv, UsedCells
        <2>2. rows[i] \in Row /\ cells[i].delta \in Int /\ cells[i].pos \in Int
            BY <2>1, CellTyped DEF IInv, TypeOK
        <2>3. CASE has_shift
            <3>1. rows[i].tok # NoTok
                BY <2>1 DEF Matches
            <3>2. rows'[i] = [rows[i] EXCEPT !.rot = rows[i].rot + cells[i].delta]
                BY <1>2, <2>1, <2>3, <3>1 DEF Turned
            <3>3. rows'[i].tok = rows[i].tok /\ rows'[i].rot = rows[i].rot + cells[i].delta
                BY <2>2, <3>2 DEF Row
            <3>4. rows'[i].rot = cells[i].pos
                BY <2>1, <3>3 DEF Matches
            <3> QED BY <1>4, <2>1, <2>2, <3>3, <3>4 DEF Matches
        <2>4. CASE ~has_shift
            BY <1>2, <2>1, <2>4 DEF Matches
        <2> QED BY <2>3, <2>4
    <1>7. RowsMatchCells'
        BY <1>3, <1>5, <1>6, MatchesNext DEF Matches
    <1>8. TokensInv'
        <2>1. ASSUME NEW i \in UsedCells PROVE cells'[i].tok \in Toks
            BY <1>4 DEF RowsIInv, TokensInv, UsedCells
        <2> QED BY <1>5, <2>1 DEF TokensInv
    <1>9. ShiftInv' /\ SlotInv'
        BY <1>1, <1>4 DEF ShiftInv, SlotInv
    <1> QED BY <1>7, <1>8, <1>9 DEF RowsIInv

\* The cells that a plan for m cells moves to j, and the rows j then has.
MovesIn(m, ids, j) == {i \in 0 .. m - 1 : ids[i] # i /\ ids[i] # m /\ ids[i] = j}
RowIn(r, m, ids, j) ==
    r[IF MovesIn(m, ids, j) = {} THEN j ELSE CHOOSE i \in MovesIn(m, ids, j) : TRUE]

LEMMA RowOfIsRowIn ==
    ASSUME NEW j
    PROVE  /\ RowOf(j) = RowIn(rows, plan.n_kv, plan.ids, j)
           /\ RowOf(j)' = RowIn(rows', plan'.n_kv, plan'.ids, j)
    <1>1. RowOf(j) = RowIn(rows, plan.n_kv, plan.ids, j)
        <2>1. MovedTo(j) = MovesIn(plan.n_kv, plan.ids, j)
            BY DEF MovedTo, Moved, MovesIn
        <2> QED BY <2>1 DEF RowOf, RowIn
    <1>2. RowOf(j)' = RowIn(rows', plan'.n_kv, plan'.ids, j)
        <2>1. MovedTo(j)' = MovesIn(plan'.n_kv, plan'.ids, j)
            BY DEF MovedTo, Moved, MovesIn
        <2> QED BY <2>1 DEF RowOf, RowIn
    <1> QED BY <1>1, <1>2

\* As long as the same cells move to the same places, the rows to be copied are the same.
LEMMA PlanningRows ==
    ASSUME RowsIInv, UNCHANGED <<cells, rows, has_shift>>,
           \A j : MovesIn(plan'.n_kv, plan'.ids, j) = MovesIn(plan.n_kv, plan.ids, j),
           pc \in {"defrag", "move"}, pc' \in {"defrag", "move", "copy"}
    PROVE  RowsIInv'
    <1>1. UsedCells' = UsedCells /\ ToStore' = {} /\ ToStore = {}
        BY DEF UsedCells, Empty, ToStore
    <1>2. ASSUME NEW j PROVE RowOf(j)' = RowOf(j)
        BY RowOfIsRowIn DEF RowIn
    <1>3. RowsMatchCells'
        BY <1>1, <1>2 DEF RowsIInv, RowsMatchCells
    <1>4. ShiftInv' /\ TokensInv' /\ SlotInv'
        BY <1>1 DEF RowsIInv, ShiftInv, TokensInv, SlotInv
    <1> QED BY <1>3, <1>4 DEF RowsIInv

LEMMA DefragKeepRows == ASSUME IInv, DefragIInv, RowsIInv, DefragKeep PROVE RowsIInv'
    <1>0. plan \in Plan /\ plan.ids \in [0 .. plan.n_kv - 1 -> 0 .. plan.n_kv]
        BY PlanNumbers
    <1>1. /\ pc = "defrag" /\ pc' = "defrag" /\ plan.i0 < plan.n_used /\ ~Empty(plan.i0)
          /\ plan' = [plan EXCEPT !.ids = [plan.ids EXCEPT ![plan.i0] = plan.i0], !.i0 = plan.i0 + 1]
          /\ UNCHANGED <<cells, rows, has_shift>>
        BY <1>0 DEF DefragKeep, metaVars, flagVars, Plan
    <1>2. plan'.n_kv = plan.n_kv /\ plan'.ids = [plan.ids EXCEPT ![plan.i0] = plan.i0]
        BY <1>0, <1>1 DEF Plan
    <1>3. plan.i0 \in 0 .. plan.n_kv - 1 /\ plan.ids[plan.i0] = plan.n_kv
        <2>1. /\ plan.n_kv \in Nat /\ plan.n_used \in Nat /\ plan.i0 \in Nat
              /\ plan.n_used <= plan.n_kv
            BY <1>1, PlanNumbers, SMTT(60)
        <2>2. Front = plan.i0
            BY <1>1, <2>1 DEF DefragIInv, SourceInv, Front
        <2>3. plan.i0 \in Front .. plan.n_kv - 1
            BY <1>1, <2>1, <2>2
        <2> QED BY <1>1, <2>1, <2>3 DEF DefragIInv, FrontInv
    <1>4. /\ plan'.ids[plan.i0] = plan.i0
          /\ \A i \in 0 .. plan.n_kv - 1 : i # plan.i0 => plan'.ids[i] = plan.ids[i]
        BY <1>0, <1>2, <1>3
    <1>5. \A j : MovesIn(plan'.n_kv, plan'.ids, j) = MovesIn(plan.n_kv, plan.ids, j)
        BY <1>2, <1>3, <1>4 DEF MovesIn
    <1> QED BY <1>1, <1>5, PlanningRows

\* Steps that move nothing.
LEMMA LookingRows ==
    ASSUME IInv, RowsIInv, DefragHole \/ PassCell \/ DefragDone
    PROVE  RowsIInv'
    <1>0. plan \in Plan
        BY PlanNumbers
    <1>1. plan'.n_kv = plan.n_kv /\ plan'.ids = plan.ids
        <2>1. CASE DefragHole
            <3>1. PICK nh \in 1 .. plan.n_used, is \in Index :
                      plan' = [plan EXCEPT !.nh = nh, !.nf = 0, !.i1 = is, !.cont = FALSE]
                BY <2>1 DEF DefragHole
            <3> QED BY <1>0, <3>1 DEF Plan
        <2>2. CASE PassCell
            <3>1. plan' = plan \/ plan' = [plan EXCEPT !.i1 = @ + 1, !.cont = FALSE]
                BY <2>2 DEF PassCell
            <3> QED BY <1>0, <3>1 DEF Plan
        <2>3. CASE DefragDone
            BY <2>3 DEF DefragDone, DoneAt
        <2> QED BY <2>1, <2>2, <2>3
    <1>2. \A j : MovesIn(plan'.n_kv, plan'.ids, j) = MovesIn(plan.n_kv, plan.ids, j)
        BY <1>1
    <1>3. /\ pc \in {"defrag", "move"} /\ pc' \in {"defrag", "move", "copy"}
          /\ UNCHANGED <<cells, rows, has_shift>>
        BY DEF DefragHole, PassCell, DefragDone, DoneAt, metaVars, flagVars
    <1> QED BY <1>2, <1>3, PlanningRows

\* The cell that moves to Front takes its rows along: nothing was moved to it before.
LEMMA MoveCellRows == ASSUME IInv, DefragIInv, RowsIInv, MoveCell PROVE RowsIInv'
    <1>0. plan \in Plan /\ plan.ids \in [0 .. plan.n_kv - 1 -> 0 .. plan.n_kv]
        BY PlanNumbers
    <1>a. pc = "move" /\ plan.i1 < plan.n_kv /\ ~Empty(plan.i1) /\ plan.ids[plan.i1] = plan.n_kv
        BY DEF MoveCell, MoveTo, Movable
    <1>b. /\ plan.n_kv \in Nat /\ plan.n_used \in Nat /\ plan.i0 \in Nat /\ plan.nh \in Nat
          /\ plan.nf \in Nat /\ plan.i1 \in Nat /\ plan.n_used <= plan.n_kv /\ plan.n_kv <= Size
          /\ plan.nf < plan.nh /\ plan.i0 + plan.nh <= plan.n_used
        BY <1>a, PlanNumbers
    <1> DEFINE to == plan.i0 + plan.nf
               ids == [plan.ids EXCEPT ![plan.i1] = to]
    <1>1. /\ cells' = [cells EXCEPT ![to] = cells[plan.i1], ![plan.i1] = NewCell]
          /\ UNCHANGED <<rows, has_shift>>
        BY DEF MoveCell, MoveTo, flagVars
    <1>2. /\ \A i \in Planned : plan.n_used <= i /\ plan.ids[i] < to
          /\ TargetsDiffer /\ plan.n_used <= plan.i1
        BY <1>a DEF DefragIInv, FrontInv, SourceInv, Front
    <1>3. /\ to \in Nat /\ to < plan.n_used /\ to \in Index /\ plan.i1 \in Index /\ to < plan.i1
          /\ plan.i1 \in 0 .. plan.n_kv - 1
        BY <1>a, <1>b, <1>2 DEF Index
    <1>4. plan'.n_kv = plan.n_kv /\ plan'.ids = ids /\ pc' \in {"move", "copy", "defrag"}
        <2>1. \/ plan' = [plan EXCEPT !.ids = ids, !.moves = plan'.moves, !.i0 = plan'.i0, !.nf = 0,
                                      !.nh = 0, !.cont = FALSE]
              \/ plan' = [plan EXCEPT !.ids = ids, !.moves = plan'.moves, !.nf = plan'.nf,
                                      !.i1 = plan'.i1, !.cont = TRUE]
            BY <1>0, ZenonT(60) DEF MoveCell, MoveTo, Plan
        <2>2. pc' \in {"move", "copy", "defrag"}
            BY <1>a DEF MoveCell, MoveTo
        <2> HIDE DEF ids
        <2> QED BY <1>0, <2>1, <2>2 DEF Plan
    <1>5. /\ cells'[to] = cells[plan.i1] /\ cells'[plan.i1] = NewCell
          /\ \A i \in Index \ {to, plan.i1} : cells'[i] = cells[i]
        <2>1. cells \in [Index -> Cell]
            BY DEF IInv, TypeOK
        <2> HIDE DEF to
        <2> QED BY <1>1, <1>3, <2>1
    <1>6. /\ ids[plan.i1] = to
          /\ \A i \in 0 .. plan.n_kv - 1 : i # plan.i1 => ids[i] = plan.ids[i]
        BY <1>0, <1>3
    <1> HIDE DEF to, ids
    <1>7. ToStore = {} /\ ToStore' = {}
        BY <1>a, <1>4 DEF ToStore
    <1>8. UsedCells' \subseteq (UsedCells \cup {to}) \ {plan.i1}
        BY <1>3, <1>5 DEF UsedCells, Empty, NewCell
    <1>9. ASSUME NEW j, j # to
          PROVE  MovesIn(plan.n_kv, ids, j) = MovesIn(plan.n_kv, plan.ids, j)
        <2>1. ASSUME NEW i \in 0 .. plan.n_kv - 1
              PROVE  ids[i] # i /\ ids[i] # plan.n_kv /\ ids[i] = j
                     <=> plan.ids[i] # i /\ plan.ids[i] # plan.n_kv /\ plan.ids[i] = j
            <3>1. CASE i = plan.i1
                BY <1>a, <1>6, <1>9, <3>1
            <3>2. CASE i # plan.i1
                BY <1>6, <3>2
            <3> QED BY <3>1, <3>2
        <2> QED BY <2>1 DEF MovesIn
    <1>10. MovesIn(plan.n_kv, ids, to) = {plan.i1}
        <2>1. ASSUME NEW i \in 0 .. plan.n_kv - 1
              PROVE  ids[i] # i /\ ids[i] # plan.n_kv /\ ids[i] = to <=> i = plan.i1
            <3>1. CASE i = plan.i1
                BY <1>b, <1>3, <1>6, <3>1
            <3>2. CASE i # plan.i1
                <4>1. ASSUME ids[i] # i, ids[i] # plan.n_kv, ids[i] = to PROVE FALSE
                    <5>1. plan.ids[i] = to /\ i \in Planned
                        BY <1>6, <3>2, <4>1 DEF Planned, Moved
                    <5>2. plan.ids[i] < to
                        BY <1>2, <5>1
                    <5> QED BY <1>3, <5>1, <5>2
                <4> QED BY <3>2, <4>1
            <3> QED BY <3>1, <3>2
        <2> QED BY <1>3, <2>1 DEF MovesIn
    <1>11. ASSUME NEW j
           PROVE  RowOf(j)' = IF j = to THEN rows[plan.i1] ELSE RowOf(j)
        <2>1. RowOf(j)' = RowIn(rows, plan.n_kv, ids, j)
            BY <1>1, <1>4, RowOfIsRowIn
        <2>2. CASE j = to
            <3>1. (CHOOSE k \in {plan.i1} : TRUE) = plan.i1
                OBVIOUS
            <3>2. MovesIn(plan.n_kv, ids, j) = {plan.i1}
                BY <1>10, <2>2
            <3>3. RowIn(rows, plan.n_kv, ids, j) = rows[plan.i1]
                BY <3>1, <3>2 DEF RowIn
            <3> QED BY <2>1, <2>2, <3>3
        <2>3. CASE j # to
            <3>1. MovesIn(plan.n_kv, ids, j) = MovesIn(plan.n_kv, plan.ids, j)
                BY <1>9, <2>3
            <3>2. RowIn(rows, plan.n_kv, ids, j) = RowOf(j)
                BY <3>1, RowOfIsRowIn DEF RowIn
            <3> QED BY <2>1, <2>3, <3>2
        <2> QED BY <2>2, <2>3
    <1>12. RowOf(plan.i1) = rows[plan.i1]
        <2>1. ASSUME NEW i \in Planned PROVE plan.ids[i] # plan.i1
            <3>1. plan.ids[i] < to /\ plan.ids[i] \in 0 .. plan.n_kv
                <4>1. i \in 0 .. plan.n_kv - 1
                    BY DEF Planned
                <4> QED BY <1>0, <1>2, <4>1
            <3> QED BY <1>3, <1>b, <3>1
        <2> QED BY <2>1, OwnRow
    <1>13. plan.i1 \in UsedCells
        BY <1>a, <1>3 DEF UsedCells
    <1>14. ASSUME NEW j \in UsedCells'
           PROVE  /\ cells'[j].tok \in Toks /\ RowOf(j)'.tok = cells'[j].tok
                  /\ RowOf(j)'.rot + cells'[j].delta = cells'[j].pos
        <2>1. CASE j = to
            <3>1. cells[plan.i1].tok \in Toks /\ rows[plan.i1].tok = cells[plan.i1].tok
                  /\ rows[plan.i1].rot + cells[plan.i1].delta = cells[plan.i1].pos
                BY <1>7, <1>12, <1>13 DEF RowsIInv, TokensInv, RowsMatchCells
            <3> QED BY <1>5, <1>11, <2>1, <3>1
        <2>2. CASE j # to
            <3>1. j \in UsedCells /\ cells'[j] = cells[j]
                BY <1>5, <1>8, <2>2 DEF UsedCells
            <3>2. RowOf(j)' = RowOf(j)
                BY <1>11, <2>2
            <3> QED BY <1>7, <3>1, <3>2 DEF RowsIInv, TokensInv, RowsMatchCells
        <2> QED BY <2>1, <2>2
    <1>15. ShiftInv'
        <2>1. ~has_shift /\ \A i \in Index : cells[i].delta = 0
            BY <1>a DEF RowsIInv, ShiftInv
        <2>2. ASSUME NEW i \in Index PROVE cells'[i].delta = 0
            BY <1>3, <1>5, <2>1 DEF NewCell
        <2> QED BY <1>1, <2>1, <2>2 DEF ShiftInv
    <1>16. RowsMatchCells' /\ TokensInv'
        BY <1>14 DEF RowsMatchCells, TokensInv
    <1>17. SlotInv'
        BY <1>4 DEF SlotInv
    <1> QED BY <1>15, <1>16, <1>17 DEF RowsIInv

LEMMA CopyRowsRows == ASSUME IInv, RowsIInv, CopyRows PROVE RowsIInv'
    <1>1. /\ pc = "copy" /\ pc' \in {"idle", "slot"} /\ plan' = NoPlan
          /\ rows' = [j \in Index |-> RowOf(j)] /\ UNCHANGED <<cells, has_shift>>
        BY DEF CopyRows, AfterUpdate, metaVars
    <1>2. UsedCells' = UsedCells /\ ToStore' = {} /\ ToStore = {}
        BY <1>1 DEF UsedCells, Empty, ToStore
    <1>3. ASSUME NEW i \in UsedCells
          PROVE  rows'[i].tok = cells[i].tok /\ rows'[i].rot + cells[i].delta = cells[i].pos
        BY <1>1, <1>2 DEF RowsIInv, RowsMatchCells, UsedCells
    <1>4. RowsMatchCells'
        BY <1>1, <1>2, <1>3, MatchesNext, NoPlanNext DEF Matches
    <1>5. ShiftInv' /\ TokensInv' /\ SlotInv'
        BY <1>1, <1>2 DEF RowsIInv, ShiftInv, TokensInv, SlotInv
    <1> QED BY <1>4, <1>5 DEF RowsIInv

-----------------------------------------------------------------------------
(* llama_decode()                                                          *)

LEMMA SearchRows ==
    ASSUME IInv, IInv', DefragIInv, RowsIInv, BeginSlot \/ FindWrap \/ FindOccupied
    PROVE  RowsIInv'
    <1>1. /\ pc \in {"slot", "find"} /\ pc' \in {"idle", "find"}
          /\ UNCHANGED <<cells, rows, has_shift, plan>>
        BY DEF BeginSlot, NoSlot, FindWrap, FindOccupied, SkipOccupied, flagVars
    <1>2. plan = NoPlan /\ CellsGoOn
        BY <1>1 DEF DefragIInv, CellsGoOn
    <1>3. ~has_shift /\ \A i \in Index : cells[i].delta = 0
        BY <1>1 DEF RowsIInv, ShiftInv
    <1> QED BY <1>1, <1>2, <1>3, QuietRows

\* The cells of the slot have no delta left from what they were before.
LEMMA FindFreeRows == ASSUME IInv, DefragIInv, RowsIInv, FindFree PROVE RowsIInv'
    <1> DEFINE slot == head .. head + NTokens - 1
    <1>1. /\ pc = "find" /\ pc' = "found" /\ head + NTokens <= Size
          /\ cells' = [i \in Index |-> IF i \in slot THEN Taking(cells[i], batch[i - head + 1])
                                      ELSE cells[i]]
          /\ UNCHANGED <<head, rows, has_shift, batch, plan>>
        BY DEF FindFree, Filling, flagVars, Taking
    <1>2. plan = NoPlan /\ ~has_shift /\ \A i \in Index : cells[i].delta = 0
        BY <1>1 DEF DefragIInv, RowsIInv, ShiftInv
    <1>3. batch # << >>
        BY <1>1 DEF IInv, BatchLeft
    <1>4. /\ head \in Nat /\ NTokens \in Nat /\ NTokens <= Len(batch)
          /\ Len(batch) \in Nat /\ batch \in Seq(Token)
        BY <1>3, UbatchLength
    <1>5. ASSUME NEW i \in slot
          PROVE  /\ i \in Index /\ cells'[i].delta = 0 /\ cells'[i].tok \in Toks
                 /\ cells'[i].pos = batch[i - head + 1].pos /\ cells'[i].tok = batch[i - head + 1].tok
        <2>1. i \in Index /\ i - head + 1 \in 1 .. Len(batch)
            BY <1>1, <1>4 DEF Index
        <2> DEFINE x == batch[i - head + 1]
        <2>2. x \in Token
            BY <1>4, <2>1
        <2> HIDE DEF x
        <2>3. cells'[i] = Taking(cells[i], x) /\ cells[i] \in Cell
            BY <1>1, <2>1, CellTyped DEF x
        <2>4. /\ Taking(cells[i], x).pos = x.pos /\ Taking(cells[i], x).tok = x.tok
              /\ Taking(cells[i], x).delta = cells[i].delta
            BY <2>3 DEF Taking, Cell
        <2>5. x.tok \in Toks
            BY <2>2 DEF Token
        <2> QED BY <1>2, <2>1, <2>3, <2>4, <2>5 DEF x
    <1>6. \A i \in Index \ slot : cells'[i] = cells[i]
        BY <1>1
    <1>7. NTokens' = NTokens /\ ToStore' = slot /\ ToStore = {}
        BY <1>1 DEF NTokens, ToStore
    <1> HIDE DEF slot
    <1>8. ASSUME NEW i \in UsedCells', i \notin slot
          PROVE  i \in UsedCells /\ cells'[i] = cells[i] /\ cells'[i].tok \in Toks /\ Matches(i)
        <2>1. i \in UsedCells /\ cells'[i] = cells[i]
            BY <1>6, <1>8 DEF UsedCells, Empty
        <2> QED BY <1>2, <1>7, <2>1, MatchesWithoutPlan DEF RowsIInv, TokensInv
    <1>9. RowsMatchCells'
        <2>1. plan' = NoPlan
            BY <1>1, <1>2
        <2> QED BY <1>1, <1>7, <1>8, <2>1, MatchesNext, NoPlanNext DEF Matches
    <1>10. TokensInv'
        BY <1>5, <1>8 DEF TokensInv
    <1>11. ShiftInv'
        BY <1>1, <1>2, <1>5, <1>6 DEF ShiftInv
    <1>12. SlotInv'
        BY <1>1, <1>5, <1>7 DEF SlotInv, slot
    <1> QED BY <1>9, <1>10, <1>11, <1>12 DEF RowsIInv

LEMMA SetNRows == ASSUME RowsIInv, SetN PROVE RowsIInv'
    <1>1. /\ pc = "found" /\ pc' = "compute"
          /\ UNCHANGED <<cells, head, rows, has_shift, batch, plan>>
        BY DEF SetN, Attending, metaVars, flagVars
    <1>2. /\ UsedCells' = UsedCells /\ ToStore' = ToStore /\ NTokens' = NTokens
          /\ \A j : RowOf(j)' = RowOf(j)
        BY <1>1 DEF UsedCells, Empty, ToStore, NTokens, RowOf, MovedTo, Moved
    <1> QED BY <1>1, <1>2 DEF RowsIInv, ShiftInv, TokensInv, SlotInv, RowsMatchCells

\* The graph stores what the cells of the slot stand for.
LEMMA ComputeRows == ASSUME IInv, DefragIInv, RowsIInv, Compute PROVE RowsIInv'
    <1> DEFINE slot == head .. head + NTokens - 1
    <1>1. /\ pc = "compute" /\ pc' \in {"idle", "update"}
          /\ rows' = [i \in Index |->
                          IF i \in slot
                          THEN [tok |-> batch[i - head + 1].tok, rot |-> batch[i - head + 1].pos]
                          ELSE rows[i]]
          /\ UNCHANGED <<cells, has_shift, plan>>
        BY DEF Compute
    <1>2. plan = NoPlan /\ ~has_shift /\ \A i \in Index : cells[i].delta = 0
        BY <1>1 DEF DefragIInv, RowsIInv, ShiftInv
    <1>3. UsedCells' = UsedCells /\ ToStore = slot /\ ToStore' = {}
        BY <1>1 DEF UsedCells, Empty, ToStore
    <1>4. \A i \in slot : /\ cells[i].pos = batch[i - head + 1].pos
                          /\ cells[i].tok = batch[i - head + 1].tok
        BY <1>1 DEF RowsIInv, SlotInv
    <1> HIDE DEF slot
    <1>5. ASSUME NEW i \in UsedCells
          PROVE  rows'[i].tok = cells[i].tok /\ rows'[i].rot + cells[i].delta = cells[i].pos
        <2>1. i \in Index /\ cells[i].pos \in Int
            BY CellTyped DEF UsedCells
        <2>2. CASE i \in slot
            <3>1. rows'[i].tok = cells[i].tok /\ rows'[i].rot = cells[i].pos
                BY <1>1, <1>4, <2>1, <2>2
            <3> QED BY <1>2, <2>1, <3>1
        <2>3. CASE i \notin slot
            <3>1. Matches(i) /\ rows'[i] = rows[i]
                BY <1>1, <1>2, <1>3, <2>1, <2>3, MatchesWithoutPlan DEF RowsIInv
            <3> QED BY <3>1 DEF Matches
        <2> QED BY <2>2, <2>3
    <1>6. RowsMatchCells'
        BY <1>1, <1>2, <1>3, <1>5, MatchesNext, NoPlanNext, SMTT(60) DEF Matches
    <1>7. ShiftInv' /\ TokensInv' /\ SlotInv'
        BY <1>1, <1>2, <1>3 DEF RowsIInv, ShiftInv, TokensInv, SlotInv
    <1> QED BY <1>6, <1>7 DEF RowsIInv

-----------------------------------------------------------------------------
(* The theorem                                                             *)

LEMMA NextRows == IInv /\ IInv' /\ DefragIInv /\ RowsIInv /\ [Next]_vars => RowsIInv'
    <1> SUFFICES ASSUME IInv, IInv', DefragIInv, RowsIInv, [Next]_vars PROVE RowsIInv'
        OBVIOUS
    <1>1. CASE UNCHANGED vars
        <2>1. UNCHANGED <<cells, rows, head, has_shift, pc, batch, plan>>
            BY <1>1 DEF vars, metaVars, flagVars, callVars
        <2>2. /\ UsedCells' = UsedCells /\ ToStore' = ToStore /\ NTokens' = NTokens
              /\ \A j : RowOf(j)' = RowOf(j)
            BY <2>1 DEF UsedCells, Empty, ToStore, NTokens, RowOf, MovedTo, Moved
        <2> QED BY <2>1, <2>2 DEF RowsIInv, ShiftInv, TokensInv, SlotInv, RowsMatchCells
    <1>2. CASE Request
        BY <1>2, RequestRowsInv
    <1>3. CASE Continue
        BY <1>3, UpdateRows, DefragKeepRows, LookingRows, MoveCellRows, CopyRowsRows, SearchRows,
           FindFreeRows, SetNRows, ComputeRows DEF Continue
    <1> QED BY <1>1, <1>2, <1>3 DEF Next

LEMMA InitRows == Init => RowsIInv
    <1> SUFFICES ASSUME Init PROVE RowsIInv
        OBVIOUS
    <1>1. /\ cells = [i \in Index |-> NewCell] /\ pc = "idle" /\ has_shift = FALSE
        BY DEF Init
    <1>2. \A i \in Index : cells[i].delta = 0 /\ cells[i].seq_id = {}
        BY <1>1 DEF NewCell
    <1>3. UsedCells = {}
        BY <1>2 DEF UsedCells, Empty
    <1> QED BY <1>1, <1>2, <1>3 DEF RowsIInv, ShiftInv, TokensInv, SlotInv, RowsMatchCells

\* In a cache of any size, after any operations, the rows of every used cell are those of its
\* token, turned to its position but for the shift that is pending: whatever was shifted in
\* between, freed and used again, split, given up, or moved with its rows still to be copied.
THEOREM RowsAreRight == Spec => []RowsMatchCells
    <1>1. RowsIInv => RowsMatchCells
        BY DEF RowsIInv
    <1> QED BY <1>1, Invariant, DefragInvariant, InitRows, NextRows, PTL DEF Spec

=============================================================================
