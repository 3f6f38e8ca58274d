--------------------------- MODULE KVState_proofs ---------------------------
(***************************************************************************)
(* Proofs about KVState, for caches of any size, whatever is saved, and    *)
(* however a restore ends: with a file that ends early, with one of        *)
(* another model, or without room.                                         *)
(***************************************************************************)
EXTENDS KVState, KVCache_proofs

\* An entry of a file.
Entry == [pos : 0 .. MaxPos, seq_id : SUBSET Seqs, tok : Toks, row : Row]

\* A file has at most as many entries as a cache has cells; those of a whole cache are in use.
SavedInv ==
    /\ saved.kind \in {"none", "all", "seq"}
    /\ saved.entries \in Seq(Entry) /\ Len(saved.entries) <= Size
    /\ saved.kind = "all" => \A k \in DOMAIN saved.entries : saved.entries[k].seq_id # {}

\* The cache as KVCache keeps it, but for the count of used cells after a file that ended early.
CallInv == TypeOK /\ PlanInv /\ BatchLeft /\ SearchInv /\ EveryUsedCellAttended

CacheInv ==
    /\ CallInv /\ TokensInv /\ DefragIInv
    /\ \A i \in Index : cells[i].pos < 0 => Empty(i)
    /\ Counted \/ (pc = "idle" /\ load = NoLoad)

\* What is looked for in the cache is what the file lists, for the destination.
FileBatch ==
    [k \in DOMAIN saved.entries |->
        [pos |-> saved.entries[k].pos, seq_id |-> {load.dest}, tok |-> saved.entries[k].tok]]

Absent(s) == \A i \in Index : s \notin cells[i].seq_id

OthersKept == \A s \in Seqs \ {load.dest} : Contents(s) = load.before[s]

\* The slot, and nothing else, is the destination's.
Slot  == head .. head + NTokens - 1
Taken ==
    /\ head + NTokens <= Size
    /\ \A i \in Slot : cells[i].seq_id = {load.dest} /\ cells[i].pos = batch[i - head + 1].pos
    /\ \A i \in Index \ Slot : load.dest \notin cells[i].seq_id

\* While a sequence is restored: where the call is, and what of the cache has changed.
LoadInv ==
    load # NoLoad =>
        /\ load = [stage |-> load.stage, dest |-> load.dest, before |-> load.before]
        /\ load.stage \in {"read", "search"} /\ load.dest \in Seqs
        /\ saved.kind = "seq" /\ saved.entries # << >>
        /\ OthersKept
        /\ load.stage = "read" => pc = "idle" /\ Absent(load.dest)
        /\ load.stage = "search" => pc \in {"idle", "find", "found"}
        /\ pc \in {"find", "found"} => batch = FileBatch
        /\ pc = "find" => Absent(load.dest)
        /\ pc = "found" => Taken

StateIInv == CacheInv /\ SavedInv /\ LoadInv

USE CacheAssumption

-----------------------------------------------------------------------------
(* The cache                                                               *)

LEMMA WhenCounted == ASSUME CacheInv, Counted PROVE IInv
    BY DEF CacheInv, CallInv, Counted, IInv, UsedIsAccurate

LEMMA IsCounted == ASSUME IInv PROVE Counted
    BY DEF IInv, UsedIsAccurate, Counted

LEMMA CacheKept == ASSUME IInv', TokensInv', DefragIInv' PROVE CacheInv'
    BY DEF CacheInv, CallInv, Counted, IInv, UsedIsAccurate

LEMMA OnCall == ASSUME CacheInv, pc # "idle" \/ load # NoLoad PROVE IInv
    BY WhenCounted DEF CacheInv

\* Used cells go on with their tokens, or take some of a file or a batch.
LEMMA TokensNext ==
    ASSUME IInv, TokensInv, Next
    PROVE  TokensInv'
    <1>1. ASSUME \A i \in Index : cells'[i].seq_id # {} =>
                     \/ cells'[i].tok \in Toks
                     \/ \E j \in Index : cells[j].seq_id # {} /\ cells'[i].tok = cells[j].tok
          PROVE  TokensInv'
        <2>1. ASSUME NEW i \in UsedCells' PROVE cells'[i].tok \in Toks
            <3>1. i \in Index /\ cells'[i].seq_id # {}
                BY DEF UsedCells, Empty
            <3>2. CASE \E j \in Index : cells[j].seq_id # {} /\ cells'[i].tok = cells[j].tok
                BY <3>2 DEF TokensInv, UsedCells, Empty
            <3> QED BY <1>1, <3>1, <3>2
        <2> QED BY <2>1 DEF TokensInv
    <1>2. CASE Request
        BY <1>1, <1>2, RequestCells DEF CellsGoOn
    <1>3. CASE Update
        <2>1. ASSUME NEW i \in Index
              PROVE  cells'[i].seq_id = cells[i].seq_id /\ cells'[i].tok = cells[i].tok
            <3>1. cells[i] \in Cell
                BY CellTyped
            <3>2. cells'[i] = cells[i] \/ cells'[i] = [cells[i] EXCEPT !.delta = 0]
                BY <1>3 DEF Update, Updating
            <3> QED BY <3>1, <3>2 DEF Cell
        <2> QED BY <1>1, <2>1
    <1>4. CASE MoveCell
        <2>1. /\ plan.i1 < plan.n_kv /\ Movable(plan.i1)
              /\ cells' = [cells EXCEPT ![plan.i0 + plan.nf] = cells[plan.i1], ![plan.i1] = NewCell]
            BY <1>4 DEF MoveCell, MoveTo
        <2>2. plan.i1 \in Index /\ cells[plan.i1].seq_id # {}
            <3>1. plan.i1 \in 0 .. Size /\ plan.n_kv \in 0 .. Size
                BY DEF IInv, TypeOK
            <3> QED BY <2>1, <3>1 DEF Movable, Empty, Index
        <2>3. cells \in [Index -> Cell] /\ NewCell.seq_id = {}
            BY DEF IInv, TypeOK, NewCell
        <2>4. \A i \in Index : cells'[i] \in {cells[i], cells[plan.i1], NewCell}
            BY <2>1, <2>3
        <2> QED BY <1>1, <2>2, <2>3, <2>4
    <1>5. CASE FindFree
        <2>1. \A i \in Index \ Slot : cells'[i] = cells[i]
            BY <1>5 DEF FindFree, Filling, Slot
        <2>2. ASSUME NEW i \in Slot, i \in Index PROVE cells'[i].tok \in Toks
            <3>1. cells'[i] = Taking(cells[i], batch[i - head + 1])
                BY <1>5, <2>2 DEF FindFree, Filling, Slot, Taking
            <3>2. batch # << >>
                BY <1>5 DEF FindFree, Filling, IInv, BatchLeft
            <3>3. NTokens \in Nat /\ NTokens <= Len(batch) /\ Len(batch) \in Nat
                BY <3>2, UbatchLength
            <3>4. head \in Nat /\ batch \in Seq(Token)
                BY DEF IInv, TypeOK
            <3>5. i - head + 1 \in 1 .. Len(batch)
                BY <3>3, <3>4 DEF Slot
            <3>6. batch[i - head + 1] \in Token
                BY <3>4, <3>5
            <3>7. cells[i] \in Cell
                BY <2>2, CellTyped
            <3> QED BY <3>1, <3>6, <3>7 DEF Taking, Token, Cell
        <2> QED BY <1>1, <2>1, <2>2
    <1>6. CASE DefragKeep \/ DefragHole \/ PassCell \/ DefragDone \/ CopyRows
               \/ BeginSlot \/ FindWrap \/ FindOccupied \/ SetN \/ Compute
        <2>1. cells' = cells
            BY <1>6 DEF DefragKeep, DefragHole, PassCell, DefragDone, DoneAt, CopyRows, BeginSlot,
                        FindWrap, FindOccupied, SkipOccupied, SetN, Attending, Compute, metaVars
        <2> QED BY <1>1, <2>1, SMTT(60)
    <1> QED BY <1>2, <1>3, <1>4, <1>5, <1>6 DEF Next, Continue

\* A step of KVCache on a cache that is counted.
LEMMA CacheNext ==
    ASSUME CacheInv, Counted, Next
    PROVE  IInv /\ IInv' /\ CacheInv'
    <1>1. IInv
        BY WhenCounted
    <1>2. IInv' /\ TokensInv' /\ DefragIInv'
        BY <1>1, NextInv, TokensNext, NextDefrag DEF CacheInv
    <1> QED BY <1>1, <1>2, CacheKept

\* A step that fills the cache anew between calls.
LEMMA CacheAnew ==
    ASSUME CacheInv, pc = "idle", load' = NoLoad, UNCHANGED callVars,
           cells' \in [Index -> Cell], rows' \in [Index -> Row],
           head' \in 0 .. Size, used' \in 0 .. Size, n' \in 0 .. Size,
           has_shift' \in BOOLEAN, do_defrag' \in BOOLEAN,
           \A i \in Index : cells'[i].pos < 0 => cells'[i].seq_id = {},
           \A i \in Index : cells'[i].seq_id # {} => cells'[i].tok \in Toks
    PROVE  CacheInv'
    <1>1. pc' = "idle" /\ UNCHANGED <<batch, n_tested, scan_from, plan>>
        BY DEF callVars
    <1>2. TypeOK'
        BY <1>1 DEF CacheInv, CallInv, TypeOK
    <1>3. PlanInv' /\ BatchLeft' /\ SearchInv' /\ EveryUsedCellAttended'
        BY <1>1 DEF CacheInv, CallInv, PlanInv, BatchLeft, SearchInv, EveryUsedCellAttended
    <1>4. TokensInv'
        BY DEF TokensInv, UsedCells, Empty
    <1>5. DefragIInv'
        BY <1>1, NotPlanning DEF CacheInv, DefragIInv
    <1>6. \A i \in Index : cells'[i].pos < 0 => Empty(i)'
        BY DEF Empty
    <1> QED BY <1>1, <1>2, <1>3, <1>4, <1>5, <1>6 DEF CacheInv, CallInv

LEMMA CellLoose == ASSUME CacheInv, NEW i \in Index PROVE cells[i] \in Cell /\ cells[i] \in LooseCell
    BY CellIsLoose DEF CacheInv, CallInv, TypeOK

LEMMA CacheCleared ==
    ASSUME CacheInv, Clear, load' = NoLoad
    PROVE  CacheInv'
    <1>1. /\ pc = "idle" /\ UNCHANGED <<n, has_shift, do_defrag, callVars>> /\ head' = 0 /\ used' = 0
          /\ cells' = [i \in Index |-> Freed(cells[i])] /\ rows' = [i \in Index |-> ZeroRow]
        BY DEF Clear, Clearing, flagVars
    <1>2. \A i \in Index : cells'[i] \in Cell /\ cells'[i].seq_id = {}
        BY <1>1, CellLoose, FreedCell
    <1>3. cells' \in [Index -> Cell]
        BY <1>1, <1>2
    <1>4. rows' \in [Index -> Row]
        <2>1. ZeroRow \in Row
            BY DEF ZeroRow, Row
        <2> QED BY <1>1, <2>1
    <1>5. n' \in 0 .. Size /\ has_shift' \in BOOLEAN /\ do_defrag' \in BOOLEAN
        BY <1>1 DEF CacheInv, CallInv, TypeOK
    <1> QED BY <1>1, <1>2, <1>3, <1>4, <1>5, CacheAnew

\* Nothing of the cache changes.
LEMMA SameCache ==
    ASSUME CacheInv, UNCHANGED <<vars, load>>
    PROVE  CacheInv'
    <1>1. UNCHANGED vars
        OBVIOUS
    <1>2. /\ UNCHANGED <<cells, rows, head, used, n, has_shift, do_defrag, pc, batch, n_tested,
                         scan_from, plan>>
        BY DEF vars, metaVars, flagVars, callVars
    <1>3. CASE Counted
        <2>1. IInv
            BY <1>3, WhenCounted
        <2>2. IInv' /\ DefragIInv'
            BY <2>1, NextInv, NextDefrag DEF CacheInv
        <2>3. TokensInv'
            BY <1>2 DEF CacheInv, TokensInv, UsedCells, Empty
        <2> QED BY <2>2, <2>3, CacheKept
    <1>4. CASE ~Counted
        <2>1. pc = "idle" /\ load = NoLoad
            BY <1>4 DEF CacheInv
        <2>2. TypeOK
            BY DEF CacheInv, CallInv
        <2>3. UNCHANGED callVars
            BY <1>2 DEF callVars
        <2> QED BY <1>2, <2>1, <2>2, <2>3, CacheAnew DEF TypeOK, CacheInv, TokensInv, UsedCells, Empty
    <1> QED BY <1>3, <1>4

-----------------------------------------------------------------------------
(* What the cache holds for a sequence                                     *)

\* A sequence keeps what it has while its cells keep their positions and rows.
LEMMA ContentsKept ==
    ASSUME NEW s,
           \A i \in Index : /\ s \in cells'[i].seq_id <=> s \in cells[i].seq_id
                            /\ s \in cells[i].seq_id =>
                                   cells'[i].pos = cells[i].pos /\ RowOf(i)' = RowOf(i)
    PROVE  Contents(s)' = Contents(s)
    <1>1. Contents(s)' = {[pos |-> cells'[i].pos, row |-> RowOf(i)'] :
                              i \in {j \in Index : s \in cells'[j].seq_id}}
        BY DEF Contents
    <1>2. {j \in Index : s \in cells'[j].seq_id} = {j \in Index : s \in cells[j].seq_id}
        OBVIOUS
    <1>3. \A i \in {j \in Index : s \in cells[j].seq_id} :
              [pos |-> cells'[i].pos, row |-> RowOf(i)'] = [pos |-> cells[i].pos, row |-> RowOf(i)]
        OBVIOUS
    <1> QED BY <1>1, <1>2, <1>3 DEF Contents

\* Between calls, and while a slot is looked for, rows are the cells' own.
LEMMA RowsNext ==
    ASSUME plan = NoPlan, plan' = plan
    PROVE  \A j : RowOf(j) = rows[j] /\ RowOf(j)' = rows'[j]
    <1>1. Planned' = {}
        BY NoPlanNext
    <1>2. \A j : MovedTo(j)' = {}
        BY <1>1 DEF MovedTo, Planned
    <1>3. \A j : RowOf(j)' = rows'[j]
        BY <1>2 DEF RowOf
    <1> QED BY <1>3, RowsWithoutPlan

\* Removing a sequence leaves the others what they have.
LEMMA RemovedOnly ==
    ASSUME IInv, DefragIInv, NEW s \in Seqs, SeqRm(s, -1, -1)
    PROVE  Absent(s)' /\ \A x \in Seqs \ {s} : Contents(x)' = Contents(x)
    <1>1. /\ pc = "idle" /\ UNCHANGED <<rows, plan>>
          /\ cells' = [i \in Index |->
                          IF i \in FreedBy(s, -1, -1) THEN Freed(cells[i])
                          ELSE IF i \in Hit(s, -1, -1) THEN Relabelled(cells[i], Without(i, s))
                          ELSE cells[i]]
        BY DEF SeqRm, Removing, Relabelled, callVars
    <1>2. plan = NoPlan
        BY <1>1 DEF DefragIInv
    <1>3. s \in Nat
        OBVIOUS
    <1>4. ASSUME NEW i \in Index
          PROVE  /\ i \in Hit(s, -1, -1) <=> s \in cells[i].seq_id
                 /\ i \in FreedBy(s, -1, -1) <=> cells[i].seq_id = {s}
                 /\ Without(i, s) = cells[i].seq_id \ {s}
        <2>1. i \in Hit(s, -1, -1) <=> s \in cells[i].seq_id
            BY <1>3, CellTyped DEF Hit, InRange, From
        <2>2. Without(i, s) = cells[i].seq_id \ {s}
            BY <1>3 DEF Without
        <2>3. i \in FreedBy(s, -1, -1) <=> s \in cells[i].seq_id /\ cells[i].seq_id \ {s} = {}
            BY <2>1, <2>2 DEF FreedBy
        <2> QED BY <2>1, <2>2, <2>3
    <1>5. ASSUME NEW i \in Index
          PROVE  /\ cells'[i].seq_id = cells[i].seq_id \ {s}
                 /\ cells'[i].seq_id # {} => cells'[i].pos = cells[i].pos
        <2>1. cells[i] \in Cell /\ cells[i] \in LooseCell
            BY CellTyped, CellIsLoose
        <2>2. CASE i \in FreedBy(s, -1, -1)
            <3>1. cells'[i] = Freed(cells[i])
                BY <1>1, <2>2
            <3> QED BY <1>4, <2>1, <2>2, <3>1, FreedCell
        <2>3. CASE i \notin FreedBy(s, -1, -1) /\ i \in Hit(s, -1, -1)
            <3>1. cells'[i] = Relabelled(cells[i], cells[i].seq_id \ {s})
                BY <1>1, <1>4, <2>3
            <3> QED BY <2>1, <3>1, RelabelledFields
        <2>4. CASE i \notin FreedBy(s, -1, -1) /\ i \notin Hit(s, -1, -1)
            BY <1>1, <1>4, <2>4
        <2> QED BY <2>2, <2>3, <2>4
    <1>6. Absent(s)'
        BY <1>5 DEF Absent
    <1>7. \A j : RowOf(j)' = RowOf(j)
        BY <1>1, <1>2, RowsNext
    <1>8. ASSUME NEW x \in Seqs \ {s} PROVE Contents(x)' = Contents(x)
        BY <1>5, <1>7, ContentsKept
    <1> QED BY <1>6, <1>8

\* A slot takes a ubatch of one sequence, and the others keep what they have.
LEMMA FilledOnly ==
    ASSUME IInv, DefragIInv, FindFree, NEW s \in Seqs, Absent(s),
           \A k \in DOMAIN batch : batch[k].seq_id = {s}
    PROVE  /\ head' = head /\ batch' = batch /\ head + NTokens <= Size
           /\ \A i \in Slot : cells'[i].seq_id = {s} /\ cells'[i].pos = batch[i - head + 1].pos
           /\ \A i \in Index \ Slot : cells'[i] = cells[i]
           /\ \A x \in Seqs \ {s} : Contents(x)' = Contents(x)
    <1>1. /\ pc = "find" /\ UNCHANGED <<rows, plan, head, batch>> /\ head + NTokens <= Size
          /\ \A i \in 0 .. NTokens - 1 : cells[head + i].pos < 0
          /\ cells' = [i \in Index |-> IF i \in Slot THEN Taking(cells[i], batch[i - head + 1])
                                      ELSE cells[i]]
        BY DEF FindFree, Filling, Taking, Slot
    <1>2. batch # << >>
        BY <1>1 DEF IInv, BatchLeft
    <1>3. NTokens \in Nat /\ NTokens <= Len(batch) /\ Len(batch) \in Nat
        BY <1>2, UbatchLength
    <1>4. head \in Nat /\ batch \in Seq(Token)
        BY DEF IInv, TypeOK
    <1>5. ASSUME NEW i \in Slot
          PROVE  /\ i \in Index /\ cells[i].seq_id = {}
                 /\ cells'[i].seq_id = {s} /\ cells'[i].pos = batch[i - head + 1].pos
        <2>1. /\ i \in Index /\ i - head \in 0 .. NTokens - 1 /\ i - head + 1 \in 1 .. Len(batch)
              /\ head + (i - head) = i
            BY <1>1, <1>3, <1>4 DEF Slot, Index
        <2>2. cells[i].pos < 0
            BY <1>1, <2>1
        <2>3. cells[i] \in Cell /\ cells[i].seq_id = {}
            BY <2>1, <2>2, CellTyped
        <2>4. batch[i - head + 1].seq_id = {s}
            BY <1>4, <2>1
        <2>5. cells'[i] = Taking(cells[i], batch[i - head + 1])
            BY <1>1, <2>1
        <2> QED BY <2>1, <2>3, <2>4, <2>5 DEF Taking, Cell
    <1>6. \A i \in Index \ Slot : cells'[i] = cells[i]
        BY <1>1
    <1>7. plan = NoPlan
        BY <1>1 DEF DefragIInv
    <1>8. \A j : RowOf(j)' = RowOf(j)
        BY <1>1, <1>7, RowsNext
    <1>9. ASSUME NEW x \in Seqs \ {s} PROVE Contents(x)' = Contents(x)
        <2>1. ASSUME NEW i \in Index
              PROVE  /\ x \in cells'[i].seq_id <=> x \in cells[i].seq_id
                     /\ x \in cells[i].seq_id => cells'[i].pos = cells[i].pos
            BY <1>5, <1>6
        <2> QED BY <1>8, <2>1, ContentsKept
    <1> QED BY <1>1, <1>5, <1>6, <1>9

-----------------------------------------------------------------------------
(* Saving                                                                  *)

Before(S, i) == {j \in S : j < i}
Nth(S, k)    == CHOOSE i \in S : Cardinality(Before(S, i)) = k - 1

\* A set of cells has a k-th one: the number of those before it tells a cell from the others.
LEMMA NthCell ==
    ASSUME NEW S \in SUBSET Index, NEW k \in 1 .. Cardinality(S)
    PROVE  Nth(S, k) \in S
    <1> DEFINE c    == Cardinality(S)
               rank == [i \in S |-> Cardinality(Before(S, i))]
               R    == 0 .. c - 1
    <1>1. IsFiniteSet(S) /\ c \in Nat
        BY CellsAreFinite
    <1>2. ASSUME NEW i \in S
          PROVE  /\ IsFiniteSet(Before(S, i)) /\ Cardinality(Before(S, i)) \in Nat
                 /\ Cardinality(Before(S, i)) < c
        <2>1. Before(S, i) \in SUBSET S /\ i \notin Before(S, i)
            BY DEF Before, Index
        <2>2. IsFiniteSet(Before(S, i)) /\ Cardinality(Before(S, i)) <= c /\ Before(S, i) # S
            BY <1>1, <2>1, FS_Subset
        <2>3. Cardinality(Before(S, i)) # c
            BY <1>1, <2>1, <2>2, FS_Subset
        <2>4. Cardinality(Before(S, i)) \in Nat
            BY <2>2, FS_CardinalityType
        <2> HIDE DEF c
        <2> QED BY <1>1, <2>2, <2>3, <2>4
    <1>3. ASSUME NEW i \in S, NEW j \in S, i < j
          PROVE  Cardinality(Before(S, i)) < Cardinality(Before(S, j))
        <2>0. i \in Int /\ j \in Int /\ \A x \in S : x \in Int
            BY DEF Index
        <2>5. \A x \in S : x < i => x < j
            BY <1>3, <2>0
        <2>6. ~(i < i)
            BY <2>0
        <2>1. /\ Before(S, i) \in SUBSET Before(S, j) /\ i \in Before(S, j) /\ i \notin Before(S, i)
            BY <1>3, <2>5, <2>6 DEF Before
        <2>2. /\ Cardinality(Before(S, i)) <= Cardinality(Before(S, j))
              /\ Cardinality(Before(S, i)) # Cardinality(Before(S, j))
            BY <1>2, <2>1, FS_Subset
        <2> QED BY <1>2, <2>2
    <1>4. rank \in [S -> R]
        <2>1. \A i \in S : Cardinality(Before(S, i)) \in R
            <3> HIDE DEF c
            <3> QED BY <1>1, <1>2
        <2> QED BY <2>1
    <1>5. \A i, j \in S : rank[i] = rank[j] => i = j
        <2>1. ASSUME NEW i \in S, NEW j \in S, i # j PROVE rank[i] # rank[j]
            <3>1. i \in Int /\ j \in Int
                BY DEF Index
            <3>2. CASE i < j
                BY <1>2, <1>3, <3>2
            <3>3. CASE j < i
                BY <1>2, <1>3, <3>3
            <3> QED BY <2>1, <3>1, <3>2, <3>3
        <2> QED BY <2>1
    <1>6. rank \in Injection(S, R)
        BY <1>4, <1>5 DEF Injection, IsInjective
    <1>7. IsFiniteSet(R) /\ Cardinality(R) = c
        <2> HIDE DEF c
        <2>1. c - 1 \in Int /\ (0 > c - 1 <=> c = 0)
            BY <1>1
        <2> QED BY <1>1, <2>1, FS_Interval, SMTT(60)
    <1>8. rank \in Surjection(S, R)
        BY <1>6, <1>7, FS_Injection
    <1>9. k - 1 \in R
        <2> HIDE DEF c
        <2>1. k \in 1 .. c
            BY DEF c
        <2> QED BY <1>1, <2>1
    <1>10. \E i \in S : Cardinality(Before(S, i)) = k - 1
        <2>1. PICK i \in S : rank[i] = k - 1
            BY <1>8, <1>9 DEF Surjection
        <2> QED BY <2>1
    <1> QED BY <1>10 DEF Nth

LEMMA EntriesTyped ==
    ASSUME CacheInv, NEW S \in SUBSET Index, NEW ids,
           \A i \in S : cells[i].pos >= 0 /\ cells[i].tok \in Toks /\ ids[i] \in SUBSET Seqs
    PROVE  /\ Entries(S, ids) \in Seq(Entry) /\ Len(Entries(S, ids)) <= Size
           /\ \A k \in DOMAIN Entries(S, ids) : \E i \in S : Entries(S, ids)[k].seq_id = ids[i]
    <1> DEFINE e(k) == [pos |-> cells[Nth(S, k)].pos, seq_id |-> ids[Nth(S, k)],
                        tok |-> cells[Nth(S, k)].tok, row |-> rows[Nth(S, k)]]
    <1>1. Entries(S, ids) = [k \in 1 .. Cardinality(S) |-> e(k)]
        BY DEF Entries, Nth, Before
    <1>2. Cardinality(S) \in 0 .. Size
        BY CellsAreFinite
    <1>3. ASSUME NEW k \in 1 .. Cardinality(S)
          PROVE  e(k) \in Entry /\ e(k).seq_id = ids[Nth(S, k)] /\ Nth(S, k) \in S
        <2>1. Nth(S, k) \in S /\ Nth(S, k) \in Index
            BY NthCell
        <2>2. cells[Nth(S, k)] \in Cell /\ rows[Nth(S, k)] \in Row
            BY <2>1 DEF CacheInv, CallInv, TypeOK
        <2>3. cells[Nth(S, k)].pos \in 0 .. MaxPos
            <3>1. cells[Nth(S, k)].pos \in -1 .. MaxPos
                BY <2>2, CellFields
            <3> QED BY <2>1, <3>1
        <2> QED BY <2>1, <2>2, <2>3 DEF Entry
    <1> HIDE DEF e
    <1>4. Entries(S, ids) \in Seq(Entry)
        BY <1>1, <1>2, <1>3
    <1>5. Len(Entries(S, ids)) = Cardinality(S) /\ DOMAIN Entries(S, ids) = 1 .. Cardinality(S)
        BY <1>1, <1>2
    <1>6. ASSUME NEW k \in DOMAIN Entries(S, ids)
          PROVE  \E i \in S : Entries(S, ids)[k].seq_id = ids[i]
        <2>1. k \in 1 .. Cardinality(S)
            BY <1>5
        <2> QED BY <1>1, <1>3, <2>1
    <1> QED BY <1>2, <1>4, <1>5, <1>6

LEMMA SaveKeeps ==
    ASSUME StateIInv, Save \/ \E s \in Seqs : SaveSeq(s)
    PROVE  StateIInv'
    <1>1. UNCHANGED <<vars, load>> /\ load = NoLoad
        BY DEF Save, SaveSeq
    <1>2. CacheInv' /\ LoadInv'
        BY <1>1, SameCache DEF StateIInv, LoadInv
    <1>3. ASSUME NEW i \in Index, cells[i].seq_id # {}
          PROVE  cells[i].pos >= 0 /\ cells[i].tok \in Toks /\ cells[i].seq_id \in SUBSET Seqs
        <2>1. cells[i].pos \in -1 .. MaxPos /\ cells[i].seq_id \in SUBSET Seqs
            BY CellFields DEF StateIInv, CacheInv, CallInv, TypeOK
        <2> QED BY <1>3, <2>1 DEF StateIInv, CacheInv, TokensInv, UsedCells, Empty
    <1>4. CASE Save
        <2> DEFINE ids == [i \in Index |-> cells[i].seq_id]
        <2>1. saved' = [kind |-> "all", entries |-> Entries(UsedCells, ids)]
            BY <1>4 DEF Save
        <2>2. UsedCells \in SUBSET Index /\ \A i \in UsedCells : cells[i].seq_id # {} /\ ids[i] = cells[i].seq_id
            BY DEF UsedCells, Empty
        <2> HIDE DEF ids
        <2>4. \A i \in UsedCells : cells[i].pos >= 0 /\ cells[i].tok \in Toks /\ ids[i] \in SUBSET Seqs
            BY <1>3, <2>2
        <2>3. /\ Entries(UsedCells, ids) \in Seq(Entry) /\ Len(Entries(UsedCells, ids)) <= Size
              /\ \A k \in DOMAIN Entries(UsedCells, ids) :
                     \E i \in UsedCells : Entries(UsedCells, ids)[k].seq_id = ids[i]
            BY <2>2, <2>4, EntriesTyped DEF StateIInv
        <2> QED BY <1>2, <2>1, <2>2, <2>3 DEF StateIInv, SavedInv
    <1>5. ASSUME NEW s \in Seqs, SaveSeq(s) PROVE StateIInv'
        <2> DEFINE ids == [i \in Index |-> {}]
                   S   == {i \in Index : s \in cells[i].seq_id}
        <2>1. saved' = [kind |-> "seq", entries |-> Entries(S, ids)]
            BY <1>5 DEF SaveSeq
        <2>2. S \in SUBSET Index /\ \A i \in S : cells[i].seq_id # {} /\ ids[i] \in SUBSET Seqs
            OBVIOUS
        <2> HIDE DEF ids, S
        <2>3. Entries(S, ids) \in Seq(Entry) /\ Len(Entries(S, ids)) <= Size
            BY <1>3, <2>2, EntriesTyped DEF StateIInv
        <2> QED BY <1>2, <2>1, <2>3 DEF StateIInv, SavedInv
    <1> QED BY <1>4, <1>5

-----------------------------------------------------------------------------
(* Restoring a whole cache                                                 *)

LEMMA EntryFields ==
    ASSUME SavedInv, NEW k \in 1 .. Len(saved.entries)
    PROVE  /\ saved.entries[k].pos \in 0 .. MaxPos /\ saved.entries[k].seq_id \in SUBSET Seqs
           /\ saved.entries[k].tok \in Toks /\ saved.entries[k].row \in Row
    <1>1. saved.entries \in Seq(Entry)
        BY DEF SavedInv
    <1>2. saved.entries[k] \in Entry
        BY <1>1
    <1> QED BY <1>2 DEF Entry

LEMMA SavedLength ==
    ASSUME SavedInv
    PROVE  /\ Len(saved.entries) \in 0 .. Size /\ Len(saved.entries) \in Nat
           /\ DOMAIN saved.entries = 1 .. Len(saved.entries)
    <1>1. saved.entries \in Seq(Entry) /\ Len(saved.entries) <= Size
        BY DEF SavedInv
    <1> QED BY <1>1

\* Cells that are restored, in part or not at all.
LEMMA RestoredCells ==
    ASSUME CacheInv, SavedInv, NEW k \in 0 .. Len(saved.entries), NEW part \in SUBSET Seqs
    PROVE  /\ Restored(k, part) \in [Index -> Cell]
           /\ \A i \in Index :
                  /\ Restored(k, part)[i].pos < 0 => Restored(k, part)[i].seq_id = {}
                  /\ Restored(k, part)[i].seq_id # {} => Restored(k, part)[i].tok \in Toks
                  /\ i < k => /\ Restored(k, part)[i].pos = saved.entries[i + 1].pos
                              /\ Restored(k, part)[i].seq_id = saved.entries[i + 1].seq_id
    <1> DEFINE read(i, q) == [cells[i] EXCEPT !.pos = saved.entries[i + 1].pos, !.seq_id = q,
                                              !.tok = saved.entries[i + 1].tok]
    <1>1. Restored(k, part) =
              [i \in Index |-> IF i < k THEN read(i, saved.entries[i + 1].seq_id)
                               ELSE IF i = k /\ k < Len(saved.entries) THEN read(i, part)
                               ELSE Freed(cells[i])]
        BY DEF Restored
    <1>2. ASSUME NEW i \in Index, i < Len(saved.entries), NEW q \in SUBSET Seqs
          PROVE  /\ read(i, q) \in Cell /\ read(i, q).seq_id = q
                 /\ read(i, q).pos = saved.entries[i + 1].pos /\ ~(read(i, q).pos < 0)
                 /\ read(i, q).tok \in Toks
        <2>1. i + 1 \in 1 .. Len(saved.entries)
            BY <1>2, SavedLength DEF Index
        <2>2. saved.entries[i + 1].pos \in 0 .. MaxPos /\ saved.entries[i + 1].tok \in Toks
            BY <2>1, EntryFields
        <2>3. cells[i] \in Cell
            BY CellLoose
        <2>4. /\ read(i, q).seq_id = q /\ read(i, q).pos = saved.entries[i + 1].pos
              /\ read(i, q).tok = saved.entries[i + 1].tok
            BY <2>3 DEF Cell
        <2>5. \A p \in 0 .. MaxPos : p \in -1 .. MaxPos /\ ~(p < 0)
            OBVIOUS
        <2>6. read(i, q) \in Cell
            BY <2>2, <2>3, <2>5 DEF Cell
        <2> QED BY <2>2, <2>4, <2>5, <2>6
    <1> HIDE DEF read
    <1>3. ASSUME NEW i \in Index
          PROVE  /\ Restored(k, part)[i] \in Cell
                 /\ Restored(k, part)[i].pos < 0 => Restored(k, part)[i].seq_id = {}
                 /\ Restored(k, part)[i].seq_id # {} => Restored(k, part)[i].tok \in Toks
                 /\ i < k => /\ Restored(k, part)[i].pos = saved.entries[i + 1].pos
                             /\ Restored(k, part)[i].seq_id = saved.entries[i + 1].seq_id
        <2>0. i \in Int /\ k \in Int /\ Len(saved.entries) \in Int /\ k <= Len(saved.entries)
            BY SavedLength DEF Index
        <2>1. CASE i < k
            <3>1. i + 1 \in 1 .. Len(saved.entries) /\ i < Len(saved.entries)
                BY <2>0, <2>1 DEF Index
            <3>2. saved.entries[i + 1].seq_id \in SUBSET Seqs
                BY <3>1, EntryFields
            <3>3. Restored(k, part)[i] = read(i, saved.entries[i + 1].seq_id)
                BY <1>1, <2>1
            <3> QED BY <1>2, <3>1, <3>2, <3>3
        <2>2. CASE i = k /\ k < Len(saved.entries)
            <3>1. Restored(k, part)[i] = read(i, part) /\ ~(i < k)
                BY <1>1, <2>0, <2>2
            <3> QED BY <1>2, <2>2, <3>1
        <2>3. CASE ~(i < k) /\ ~(i = k /\ k < Len(saved.entries))
            <3>1. Restored(k, part)[i] = Freed(cells[i])
                BY <1>1, <2>3
            <3> QED BY <2>3, <3>1, CellLoose, FreedCell
        <2> QED BY <2>1, <2>2, <2>3
    <1>4. Restored(k, part) \in [Index -> Cell]
        BY <1>1, <1>3
    <1> QED BY <1>3, <1>4

LEMMA NotRestoring == load' = NoLoad => LoadInv'
    BY DEF LoadInv

LEMMA LoadKeeps == ASSUME StateIInv, Load PROVE StateIInv'
    <1>1. /\ pc = "idle" /\ load = NoLoad /\ load' = NoLoad /\ saved' = saved
          /\ cells' = Restored(Len(saved.entries), {})
          /\ rows' = [i \in Index |-> IF i < Len(saved.entries) THEN saved.entries[i + 1].row
                                     ELSE ZeroRow]
          /\ head' = 0 /\ used' = Len(saved.entries)
          /\ UNCHANGED <<n, has_shift, do_defrag, callVars>>
        BY DEF Load, CanLoad, flagVars, stateVars
    <1>2. CacheInv /\ SavedInv /\ TypeOK
        BY DEF StateIInv, CacheInv, CallInv
    <1>3. ASSUME NEW i \in Index PROVE rows'[i] \in Row
        <2>1. CASE i < Len(saved.entries)
            <3>1. i + 1 \in 1 .. Len(saved.entries)
                BY <1>2, <2>1, SavedLength DEF Index
            <3> QED BY <1>1, <1>2, <2>1, <3>1, EntryFields
        <2>2. CASE ~(i < Len(saved.entries))
            BY <1>1, <2>2 DEF ZeroRow, Row
        <2> QED BY <2>1, <2>2
    <1>4. rows' \in [Index -> Row]
        BY <1>1, <1>3
    <1>5. Len(saved.entries) \in 0 .. Len(saved.entries) /\ {} \in SUBSET Seqs
        BY <1>2, SavedLength
    <1>6. /\ cells' \in [Index -> Cell]
          /\ \A i \in Index : cells'[i].pos < 0 => cells'[i].seq_id = {}
          /\ \A i \in Index : cells'[i].seq_id # {} => cells'[i].tok \in Toks
        BY <1>1, <1>2, <1>5, RestoredCells
    <1>7. /\ head' \in 0 .. Size /\ used' \in 0 .. Size /\ n' \in 0 .. Size
          /\ has_shift' \in BOOLEAN /\ do_defrag' \in BOOLEAN
        BY <1>1, <1>2, SavedLength DEF TypeOK
    <1>8. CacheInv'
        BY <1>1, <1>2, <1>4, <1>6, <1>7, CacheAnew
    <1> QED BY <1>1, <1>2, <1>8, NotRestoring DEF StateIInv, SavedInv

LEMMA LoadShortKeeps == ASSUME StateIInv, LoadShort PROVE StateIInv'
    <1>1. /\ pc = "idle" /\ load' = NoLoad /\ saved' = saved
          /\ rows' = [i \in Index |-> ZeroRow] /\ head' = 0
          /\ UNCHANGED <<n, has_shift, do_defrag, callVars>>
        BY DEF LoadShort, CanLoad, flagVars, stateVars
    <1>2. CacheInv /\ SavedInv /\ TypeOK
        BY DEF StateIInv, CacheInv, CallInv
    <1>3. rows' \in [Index -> Row]
        BY <1>1 DEF ZeroRow, Row
    <1>4. \E k \in 0 .. Len(saved.entries), part \in SUBSET Seqs :
              cells' = Restored(k, part) /\ used' \in 0 .. Size
        <2>1. CASE /\ used' = 0
                   /\ \E k \in 0 .. Len(saved.entries) - 1 :
                          \E part \in SUBSET saved.entries[k + 1].seq_id \ {saved.entries[k + 1].seq_id} :
                              cells' = Restored(k, part)
            <3>1. PICK k \in 0 .. Len(saved.entries) - 1 :
                      \E part \in SUBSET saved.entries[k + 1].seq_id \ {saved.entries[k + 1].seq_id} :
                          cells' = Restored(k, part)
                BY <2>1
            <3>2. PICK part \in SUBSET saved.entries[k + 1].seq_id \ {saved.entries[k + 1].seq_id} :
                      cells' = Restored(k, part)
                BY <3>1
            <3>3. k + 1 \in 1 .. Len(saved.entries) /\ k \in 0 .. Len(saved.entries)
                BY <1>2, SavedLength
            <3>4. saved.entries[k + 1].seq_id \in SUBSET Seqs
                BY <1>2, <3>3, EntryFields
            <3>5. part \in SUBSET Seqs
                BY <3>4
            <3> QED BY <2>1, <3>2, <3>3, <3>5
        <2>2. CASE used' = Len(saved.entries) /\ cells' = Restored(Len(saved.entries), {})
            <3>1. Len(saved.entries) \in 0 .. Len(saved.entries) /\ Len(saved.entries) \in 0 .. Size
                BY <1>2, SavedLength
            <3>2. {} \in SUBSET Seqs
                OBVIOUS
            <3> QED BY <2>2, <3>1, <3>2
        <2> QED BY <2>1, <2>2 DEF LoadShort
    <1>5. PICK k \in 0 .. Len(saved.entries), part \in SUBSET Seqs :
              cells' = Restored(k, part) /\ used' \in 0 .. Size
        BY <1>4
    <1>6. /\ cells' \in [Index -> Cell]
          /\ \A i \in Index : cells'[i].pos < 0 => cells'[i].seq_id = {}
          /\ \A i \in Index : cells'[i].seq_id # {} => cells'[i].tok \in Toks
        BY <1>2, <1>5, RestoredCells
    <1>7. /\ head' \in 0 .. Size /\ n' \in 0 .. Size
          /\ has_shift' \in BOOLEAN /\ do_defrag' \in BOOLEAN
        BY <1>1, <1>2 DEF TypeOK
    <1>8. CacheInv'
        BY <1>1, <1>2, <1>3, <1>5, <1>6, <1>7, CacheAnew
    <1> QED BY <1>1, <1>2, <1>8, NotRestoring DEF StateIInv, SavedInv

LEMMA LoadForeignKeeps == ASSUME StateIInv, LoadForeign PROVE StateIInv'
    <1>1. Clear /\ load' = NoLoad /\ saved' = saved
        BY DEF LoadForeign, CanLoad, stateVars
    <1>2. CacheInv' /\ LoadInv'
        BY <1>1, CacheCleared, NotRestoring DEF StateIInv
    <1> QED BY <1>1, <1>2 DEF StateIInv, SavedInv

LEMMA RestartKeeps == ASSUME StateIInv, Restart PROVE StateIInv'
    <1>1. /\ pc = "idle" /\ load' = NoLoad /\ saved' = saved
          /\ cells' = [i \in Index |-> NewCell] /\ rows' = [i \in Index |-> ZeroRow]
          /\ head' = 0 /\ used' = 0 /\ n' = 0 /\ has_shift' = FALSE /\ do_defrag' = FALSE
          /\ UNCHANGED callVars
        BY DEF Restart, stateVars
    <1>2. NewCell \in Cell /\ NewCell.seq_id = {} /\ ZeroRow \in Row
        BY DEF NewCell, Cell, ZeroRow, Row
    <1>3. cells' \in [Index -> Cell] /\ rows' \in [Index -> Row] /\ \A i \in Index : cells'[i].seq_id = {}
        BY <1>1, <1>2
    <1>4. 0 \in 0 .. Size
        OBVIOUS
    <1>5. CacheInv'
        BY <1>1, <1>3, <1>4, CacheAnew DEF StateIInv
    <1> QED BY <1>1, <1>5, NotRestoring DEF StateIInv, SavedInv

-----------------------------------------------------------------------------
(* Restoring a sequence                                                    *)

\* What a step on a sequence that is restored may not touch.
OthersStay == \A x \in Seqs \ {load.dest} : Contents(x)' = Contents(x)

LEMMA Restoring ==
    ASSUME StateIInv, load # NoLoad
    PROVE  IInv /\ DefragIInv /\ TokensInv /\ SavedInv /\ load.dest \in Seqs
    BY OnCall DEF StateIInv, CacheInv, LoadInv

LEMMA StageRestores == load.stage # "none" => load # NoLoad
    BY DEF NoLoad

\* The others stay as they were before it all began.
LEMMA OthersStillKept ==
    ASSUME OthersKept, OthersStay, load'.dest = load.dest, load'.before = load.before
    PROVE  OthersKept'
    BY DEF OthersKept, OthersStay

\* The cells stay as they are, and so does what the cache holds.
LEMMA CellsStay ==
    ASSUME UNCHANGED <<cells, rows>>, plan = NoPlan, plan' = plan
    PROVE  \A s : Contents(s)' = Contents(s)
    <1>1. \A j : RowOf(j)' = RowOf(j)
        BY RowsNext
    <1> QED BY <1>1, ContentsKept

\* A removal leaves the cache sound.
LEMMA Removed ==
    ASSUME IInv, TokensInv, DefragIInv, NEW s \in Seqs, SeqRm(s, -1, -1)
    PROVE  /\ CacheInv' /\ IInv' /\ pc = "idle" /\ pc' = "idle" /\ plan' = plan
           /\ plan = NoPlan
    <1>1. IInv'
        BY SeqRmInv
    <1>2. CellsGoOn /\ pc = "idle" /\ UNCHANGED callVars
        BY SeqRmCells
    <1>3. TokensInv'
        BY <1>2 DEF CellsGoOn, TokensInv, UsedCells, Empty
    <1>4. pc' = "idle" /\ plan' = plan
        BY <1>2 DEF callVars
    <1>5. DefragIInv'
        BY <1>2, <1>4, OtherDefrag
    <1> QED BY <1>1, <1>2, <1>3, <1>4, <1>5, CacheKept DEF DefragIInv

LEMMA LoadSeqKeeps ==
    ASSUME StateIInv, NEW s \in Seqs, LoadSeq(s)
    PROVE  StateIInv'
    <1>1. /\ load = NoLoad /\ saved.kind = "seq" /\ saved.entries # << >> /\ Counted
          /\ SeqRm(s, -1, -1) /\ saved' = saved
          /\ load' = [stage |-> "read", dest |-> s, before |-> [x \in Seqs |-> Contents(x)]]
        BY DEF LoadSeq, CanLoad
    <1>2. IInv /\ TokensInv /\ DefragIInv
        BY <1>1, WhenCounted DEF StateIInv, CacheInv
    <1>3. CacheInv' /\ pc' = "idle"
        BY <1>1, <1>2, Removed
    <1>4. Absent(s)' /\ \A x \in Seqs \ {s} : Contents(x)' = Contents(x)
        BY <1>1, <1>2, RemovedOnly
    <1>5. OthersKept'
        BY <1>1, <1>4 DEF OthersKept
    <1>6. Absent(load.dest)'
        BY <1>1, <1>4 DEF Absent
    <1>7. LoadInv'
        BY <1>1, <1>3, <1>5, <1>6 DEF LoadInv
    <1> QED BY <1>1, <1>3, <1>7 DEF StateIInv, SavedInv

LEMMA LoadSeqShortKeeps ==
    ASSUME StateIInv, LoadSeqShort
    PROVE  StateIInv' /\ OthersStay
    <1>1. load' = NoLoad /\ saved' = saved /\ UNCHANGED vars /\ load # NoLoad
        BY StageRestores DEF LoadSeqShort
    <1>2. UNCHANGED <<cells, rows, plan, pc>> /\ pc = "idle"
        BY <1>1 DEF vars, metaVars, callVars, LoadSeqShort, StateIInv, LoadInv
    <1>3. IInv /\ DefragIInv /\ TokensInv
        BY <1>1, Restoring
    <1>4. IInv' /\ DefragIInv'
        BY <1>1, <1>3, NextInv, NextDefrag
    <1>5. TokensInv'
        BY <1>2, <1>3 DEF TokensInv, UsedCells, Empty
    <1>6. OthersStay
        BY <1>2, <1>3, CellsStay DEF OthersStay, DefragIInv
    <1> QED BY <1>1, <1>4, <1>5, <1>6, CacheKept, NotRestoring DEF StateIInv, SavedInv

LEMMA FileBatchTyped ==
    ASSUME SavedInv, load.dest \in Seqs, saved.entries # << >>
    PROVE  FileBatch \in Seq(Token) /\ FileBatch # << >> /\ Len(FileBatch) = Len(saved.entries)
    <1>1. /\ Len(saved.entries) \in Nat /\ DOMAIN saved.entries = 1 .. Len(saved.entries)
          /\ Len(saved.entries) # 0
        BY SavedLength DEF SavedInv
    <1> DEFINE t(k) == [pos |-> saved.entries[k].pos, seq_id |-> {load.dest},
                        tok |-> saved.entries[k].tok]
    <1>2. FileBatch = [k \in 1 .. Len(saved.entries) |-> t(k)]
        BY <1>1 DEF FileBatch
    <1>3. \A k \in 1 .. Len(saved.entries) : t(k) \in Token
        BY EntryFields DEF Token
    <1> HIDE DEF t
    <1>4. FileBatch \in Seq(Token) /\ Len(FileBatch) = Len(saved.entries)
        BY <1>1, <1>2, <1>3
    <1> QED BY <1>1, <1>4

LEMMA LoadSeqSearchKeeps ==
    ASSUME StateIInv, LoadSeqSearch
    PROVE  StateIInv' /\ OthersStay
    <1>1. /\ load.stage = "read" /\ pc' = "find" /\ n_tested' = 0 /\ scan_from' = head
          /\ batch' = FileBatch
          /\ load' = [load EXCEPT !.stage = "search"]
          /\ UNCHANGED <<cells, head, used, rows, n, has_shift, do_defrag, plan, saved>>
        BY DEF LoadSeqSearch, FileBatch, metaVars, flagVars
    <1>2. load # NoLoad
        BY <1>1, StageRestores
    <1>3. /\ IInv /\ DefragIInv /\ TokensInv /\ SavedInv /\ load.dest \in Seqs
          /\ saved.kind = "seq" /\ saved.entries # << >> /\ OthersKept /\ pc = "idle" /\ Absent(load.dest)
          /\ load = [stage |-> load.stage, dest |-> load.dest, before |-> load.before]
        BY <1>1, <1>2, Restoring DEF StateIInv, LoadInv
    <1>4. load' = [stage |-> "search", dest |-> load.dest, before |-> load.before]
        BY <1>1, <1>3
    <1>5. batch' \in Seq(Token) /\ batch' # << >>
        BY <1>1, <1>3, FileBatchTyped
    <1>6. TypeOK'
        BY <1>1, <1>3, <1>5 DEF IInv, TypeOK
    <1>7. UsedIsAccurate' /\ TokensInv'
        BY <1>1, <1>3 DEF IInv, UsedIsAccurate, TokensInv, UsedCells, Empty
    <1>8. PlanInv' /\ BatchLeft' /\ EveryUsedCellAttended'
        BY <1>1, <1>3, <1>5 DEF IInv, PlanInv, BatchLeft, EveryUsedCellAttended
    <1>9. SearchInv'
        <2>1. head' \in Int /\ head' = scan_from' + n_tested' /\ head' = scan_from'
            BY <1>1, <1>3 DEF IInv, TypeOK
        <2>2. ~ \E h \in 0 .. Size - NTokens' : h >= scan_from' /\ h < head'
            BY <2>1
        <2> QED BY <2>1, <2>2 DEF SearchInv, FirstRound
    <1>10. IInv'
        BY <1>6, <1>7, <1>8, <1>9 DEF IInv
    <1>11. DefragIInv'
        BY <1>1, <1>3, OtherDefrag
    <1>12. \A s : Contents(s)' = Contents(s)
        BY <1>1, <1>3, CellsStay DEF DefragIInv
    <1>13. OthersStay
        BY <1>12 DEF OthersStay
    <1>14. OthersKept'
        BY <1>3, <1>4, <1>13, OthersStillKept
    <1>15. batch' = FileBatch'
        BY <1>1, <1>4 DEF FileBatch
    <1>16. Absent(load.dest)'
        BY <1>1, <1>3, <1>4 DEF Absent
    <1>17. LoadInv'
        BY <1>1, <1>3, <1>4, <1>14, <1>15, <1>16 DEF LoadInv
    <1> QED BY <1>1, <1>3, <1>7, <1>10, <1>11, <1>13, <1>17, CacheKept DEF StateIInv, SavedInv

\* The search goes on, ends without a slot, or takes one.
LEMMA SearchKeeps ==
    ASSUME StateIInv, load # NoLoad, Continue, pc = "find", UNCHANGED stateVars
    PROVE  StateIInv' /\ OthersStay
    <1>1. /\ IInv /\ DefragIInv /\ TokensInv /\ SavedInv /\ load.dest \in Seqs
          /\ load.stage = "search" /\ saved.kind = "seq" /\ saved.entries # << >>
          /\ OthersKept /\ batch = FileBatch /\ Absent(load.dest)
          /\ load = [stage |-> load.stage, dest |-> load.dest, before |-> load.before]
        BY Restoring DEF StateIInv, LoadInv
    <1>2. saved' = saved /\ load' = load
        BY DEF stateVars
    <1>3. IInv' /\ CacheInv'
        <2>1. Counted
            BY <1>1, IsCounted
        <2> QED BY <2>1, CacheNext DEF StateIInv, Next
    <1>4. plan = NoPlan
        BY <1>1 DEF DefragIInv
    <1>5. CASE FindWrap \/ FindOccupied
        <2>1. /\ UNCHANGED <<cells, rows, plan>>
              /\ pc' = "idle" \/ (pc' = "find" /\ batch' = batch)
            BY <1>5 DEF FindWrap, FindOccupied, SkipOccupied, NoSlot
        <2>2. OthersStay
            BY <1>4, <2>1, CellsStay DEF OthersStay
        <2>3. OthersKept'
            BY <1>1, <1>2, <2>2, OthersStillKept
        <2>4. FileBatch' = FileBatch
            BY <1>2 DEF FileBatch
        <2>5. Absent(load.dest)'
            BY <1>1, <1>2, <2>1 DEF Absent
        <2>6. LoadInv'
            BY <1>1, <1>2, <2>1, <2>3, <2>4, <2>5 DEF LoadInv
        <2> QED BY <1>1, <1>2, <1>3, <2>2, <2>6 DEF StateIInv, SavedInv
    <1>6. CASE FindFree
        <2>1. \A k \in DOMAIN batch : batch[k].seq_id = {load.dest}
            BY <1>1 DEF FileBatch
        <2>2. /\ head' = head /\ batch' = batch /\ head + NTokens <= Size
              /\ \A i \in Slot : cells'[i].seq_id = {load.dest} /\ cells'[i].pos = batch[i - head + 1].pos
              /\ \A i \in Index \ Slot : cells'[i] = cells[i]
              /\ OthersStay
            BY <1>1, <1>6, <2>1, FilledOnly DEF OthersStay
        <2>3. pc' = "found"
            BY <1>6 DEF FindFree, Filling
        <2>4. OthersKept'
            BY <1>1, <1>2, <2>2, OthersStillKept
        <2>5. FileBatch' = FileBatch /\ NTokens' = NTokens
            BY <1>2, <2>2 DEF FileBatch, NTokens
        <2>6. Slot' = Slot
            BY <2>2, <2>5 DEF Slot
        <2>7. Taken'
            BY <1>1, <1>2, <2>2, <2>5, <2>6 DEF Taken, Absent
        <2>8. LoadInv'
            BY <1>1, <1>2, <2>2, <2>3, <2>4, <2>5, <2>7 DEF LoadInv
        <2> QED BY <1>1, <1>2, <1>3, <2>2, <2>8 DEF StateIInv, SavedInv
    <1>7. FindWrap \/ FindOccupied \/ FindFree
        BY DEF Continue, Update, Updating, DefragKeep, DefragHole, MoveCell, MoveTo, PassCell,
               DefragDone, DoneAt, CopyRows, BeginSlot, SetN, Attending, Compute
    <1> QED BY <1>5, <1>6, <1>7

\* A restored sequence is one ubatch, so the slot has a cell for each of its entries.
LEMMA SlotOfEntries ==
    ASSUME StateIInv, load.stage = "search", pc = "found"
    PROVE  /\ batch = FileBatch /\ NTokens = Len(saved.entries) /\ Taken /\ plan = NoPlan
           /\ \A i \in Slot : i \in Index /\ i - head + 1 \in 1 .. Len(saved.entries)
           /\ \A k \in 1 .. Len(saved.entries) : head + k - 1 \in Slot
    <1>1. load # NoLoad
        BY StageRestores
    <1>2. /\ IInv /\ SavedInv /\ load.dest \in Seqs /\ saved.entries # << >>
          /\ batch = FileBatch /\ Taken /\ plan = NoPlan
        BY <1>1, Restoring DEF StateIInv, LoadInv, DefragIInv
    <1>3. Len(batch) = Len(saved.entries)
        BY <1>2, FileBatchTyped
    <1>4. /\ Len(saved.entries) \in Nat /\ Len(saved.entries) <= Size /\ Size <= NUbatch
          /\ NUbatch \in Nat
        BY <1>2, SavedLength, StateAssumption
    <1>5. NTokens = Len(saved.entries)
        BY <1>3, <1>4 DEF NTokens, Least
    <1>6. head \in Nat /\ head + NTokens <= Size
        BY <1>2 DEF IInv, TypeOK, Taken
    <1>7. /\ \A i \in Slot : i \in Index /\ i - head + 1 \in 1 .. Len(saved.entries)
          /\ \A k \in 1 .. Len(saved.entries) : head + k - 1 \in Slot
        BY <1>4, <1>5, <1>6 DEF Slot, Index
    <1> QED BY <1>2, <1>5, <1>7

\* The call is over, and of the cache at most rows of the slot have changed.
LEMMA SearchOver ==
    ASSUME StateIInv, load.stage = "search", pc = "found", pc' = "idle", batch' = << >>,
           UNCHANGED <<metaVars, n, flagVars, n_tested, scan_from, plan>>,
           rows' \in [Index -> Row], \A i \in Index \ Slot : rows'[i] = rows[i]
    PROVE  CacheInv' /\ OthersStay
    <1>1. load # NoLoad
        BY StageRestores
    <1>2. /\ IInv /\ DefragIInv /\ TokensInv /\ Taken /\ plan = NoPlan
        BY <1>1, Restoring, SlotOfEntries
    <1>3. UNCHANGED <<cells, head, used, n, has_shift, do_defrag, n_tested, scan_from, plan>>
        BY DEF metaVars, flagVars
    <1>4. TypeOK'
        BY <1>2, <1>3, SMTT(60) DEF IInv, TypeOK
    <1>5. UsedIsAccurate' /\ TokensInv'
        BY <1>2, <1>3 DEF IInv, UsedIsAccurate, TokensInv, UsedCells, Empty
    <1>6. PlanInv' /\ BatchLeft' /\ EveryUsedCellAttended' /\ SearchInv'
        BY <1>2, <1>3 DEF IInv, PlanInv, BatchLeft, EveryUsedCellAttended, SearchInv
    <1>7. DefragIInv'
        BY <1>2, <1>3, NotPlanning
    <1>8. CacheInv'
        BY <1>4, <1>5, <1>6, <1>7, CacheKept DEF IInv
    <1>9. ASSUME NEW x \in Seqs \ {load.dest} PROVE Contents(x)' = Contents(x)
        <2>1. \A j : RowOf(j) = rows[j] /\ RowOf(j)' = rows'[j]
            BY <1>2, <1>3, RowsNext
        <2>2. \A i \in Index : x \in cells[i].seq_id => i \notin Slot
            BY <1>2 DEF Taken
        <2>3. \A i \in Index : x \in cells[i].seq_id => RowOf(i)' = RowOf(i)
            BY <2>1, <2>2
        <2> QED BY <1>3, <2>3, ContentsKept
    <1> QED BY <1>8, <1>9 DEF OthersStay

LEMMA LoadSeqRowsKeeps ==
    ASSUME StateIInv, LoadSeqRows
    PROVE  StateIInv' /\ OthersStay
    <1>1. /\ load.stage = "search" /\ pc = "found" /\ pc' = "idle" /\ batch' = << >>
          /\ rows' = [i \in Index |-> IF i \in Slot THEN saved.entries[i - head + 1].row ELSE rows[i]]
          /\ UNCHANGED <<metaVars, n, flagVars, n_tested, scan_from, plan>>
          /\ load' = NoLoad /\ saved' = saved
        BY DEF LoadSeqRows, LoadRows, Slot
    <1>2. SavedInv /\ TypeOK
        BY DEF StateIInv, CacheInv, CallInv
    <1>3. ASSUME NEW i \in Index PROVE rows'[i] \in Row
        <2>1. CASE i \in Slot
            <3>1. i - head + 1 \in 1 .. Len(saved.entries)
                BY <1>1, <2>1, SlotOfEntries
            <3> QED BY <1>1, <1>2, <2>1, <3>1, EntryFields
        <2>2. CASE i \notin Slot
            BY <1>1, <1>2, <2>2 DEF TypeOK
        <2> QED BY <2>1, <2>2
    <1>4. rows' \in [Index -> Row]
        BY <1>1, <1>3
    <1>5. \A i \in Index \ Slot : rows'[i] = rows[i]
        BY <1>1
    <1>6. CacheInv' /\ OthersStay
        BY <1>1, <1>4, <1>5, SearchOver
    <1> QED BY <1>1, <1>2, <1>6, NotRestoring DEF StateIInv, SavedInv

LEMMA LoadSeqRowsShortKeeps ==
    ASSUME StateIInv, LoadSeqRowsShort
    PROVE  StateIInv' /\ OthersStay
    <1>1. /\ load.stage = "search" /\ pc = "found" /\ pc' = "idle" /\ batch' = << >>
          /\ UNCHANGED <<metaVars, rows, n, flagVars, n_tested, scan_from, plan>>
          /\ load' = NoLoad /\ saved' = saved
        BY DEF LoadSeqRowsShort
    <1>2. rows' \in [Index -> Row] /\ \A i \in Index \ Slot : rows'[i] = rows[i]
        BY <1>1 DEF StateIInv, CacheInv, CallInv, TypeOK
    <1>3. CacheInv' /\ OthersStay
        BY <1>1, <1>2, SearchOver
    <1> QED BY <1>1, <1>3, NotRestoring DEF StateIInv, SavedInv

LEMMA LoadSeqForeignKeeps ==
    ASSUME StateIInv, LoadSeqForeign
    PROVE  StateIInv' /\ OthersStay
    <1>1. /\ load.stage = "search" /\ pc = "found" /\ pc' = "idle" /\ batch' = << >>
          /\ UNCHANGED <<metaVars, rows, n, flagVars, n_tested, scan_from, plan>>
          /\ load' = load /\ saved' = saved /\ load # NoLoad
        BY StageRestores DEF LoadSeqForeign, stateVars
    <1>2. rows' \in [Index -> Row] /\ \A i \in Index \ Slot : rows'[i] = rows[i]
        BY <1>1 DEF StateIInv, CacheInv, CallInv, TypeOK
    <1>3. CacheInv' /\ OthersStay
        BY <1>1, <1>2, SearchOver
    <1>4. OthersKept'
        BY <1>1, <1>3, OthersStillKept DEF StateIInv, LoadInv
    <1>5. LoadInv'
        BY <1>1, <1>4 DEF StateIInv, LoadInv
    <1> QED BY <1>1, <1>3, <1>5 DEF StateIInv, SavedInv

LEMMA LoadSeqRefusedKeeps ==
    ASSUME StateIInv, LoadSeqRefused
    PROVE  StateIInv' /\ OthersStay
    <1>1. /\ load # NoLoad /\ SeqRm(load.dest, -1, -1) /\ load' = NoLoad /\ saved' = saved
        BY StageRestores DEF LoadSeqRefused
    <1>2. IInv /\ DefragIInv /\ TokensInv /\ load.dest \in Seqs
        BY <1>1, Restoring
    <1>3. CacheInv'
        BY <1>1, <1>2, Removed
    <1>4. OthersStay
        BY <1>1, <1>2, RemovedOnly DEF OthersStay
    <1> QED BY <1>1, <1>3, <1>4, NotRestoring DEF StateIInv, SavedInv

-----------------------------------------------------------------------------
(* All steps                                                               *)

LEMMA NothingChanges ==
    ASSUME StateIInv, UNCHANGED allVars
    PROVE  StateIInv' /\ OthersStay
    <1>1. UNCHANGED <<cells, rows, head, pc, batch, plan, saved, load>> /\ UNCHANGED <<vars, load>>
        BY DEF allVars, vars, metaVars, callVars, stateVars
    <1>2. CacheInv'
        BY <1>1, SameCache DEF StateIInv
    <1>3. \A s : Contents(s)' = Contents(s)
        BY <1>1 DEF Contents, RowOf, MovedTo, Moved
    <1>4. /\ FileBatch' = FileBatch /\ NTokens' = NTokens /\ (Taken <=> Taken')
          /\ (Absent(load.dest) <=> Absent(load.dest)')
        BY <1>1 DEF FileBatch, NTokens, Taken, Slot, Absent
    <1>5. OthersKept <=> OthersKept'
        BY <1>1, <1>3 DEF OthersKept
    <1>6. LoadInv'
        BY <1>1, <1>4, <1>5 DEF StateIInv, LoadInv
    <1> QED BY <1>1, <1>2, <1>3, <1>6 DEF StateIInv, SavedInv, OthersStay

LEMMA CallsKeep ==
    ASSUME StateIInv, load = NoLoad, UNCHANGED stateVars,
           (IF Counted THEN Request ELSE Clear) \/ Continue
    PROVE  StateIInv'
    <1>1. load' = NoLoad /\ saved' = saved
        BY SMTT(60) DEF stateVars
    <1>2. pc # "idle" \/ ~Continue
        BY DEF Continue, Update, Updating, DefragKeep, DefragHole, MoveCell, MoveTo,
               PassCell, DefragDone, DoneAt, CopyRows, BeginSlot, FindWrap, FindOccupied,
               SkipOccupied, FindFree, Filling, SetN, Attending, Compute
    <1>3. CacheInv'
        <2>1. CASE Counted
            <3>1. Next
                BY <2>1 DEF Next
            <3> QED BY <2>1, <3>1, CacheNext DEF StateIInv
        <2>2. CASE ~Counted
            <3>1. pc = "idle"
                BY <2>2 DEF StateIInv, CacheInv
            <3>2. Clear
                BY <1>2, <2>2, <3>1
            <3> QED BY <1>1, <3>2, CacheCleared DEF StateIInv
        <2> QED BY <2>1, <2>2
    <1> QED BY <1>1, <1>3, NotRestoring DEF StateIInv, SavedInv

LEMMA StateNextInv == StateIInv /\ [StateNext]_allVars => StateIInv'
    <1> SUFFICES ASSUME StateIInv, [StateNext]_allVars PROVE StateIInv'
        OBVIOUS
    <1>1. CASE UNCHANGED allVars
        BY <1>1, NothingChanges
    <1>2. CASE (IF Counted THEN Request ELSE Clear) /\ load = NoLoad /\ UNCHANGED stateVars
        BY <1>2, CallsKeep
    <1>3. CASE Continue /\ (load = NoLoad \/ pc = "find") /\ UNCHANGED stateVars
        <2>1. CASE load = NoLoad
            BY <1>3, <2>1, CallsKeep
        <2>2. CASE load # NoLoad
            BY <1>3, <2>2, SearchKeeps
        <2> QED BY <2>1, <2>2
    <1>4. CASE Save \/ \E s \in Seqs : SaveSeq(s)
        BY <1>4, SaveKeeps
    <1>5. CASE Load \/ LoadShort \/ LoadForeign \/ Restart
        BY <1>5, LoadKeeps, LoadShortKeeps, LoadForeignKeeps, RestartKeeps
    <1>6. CASE \E s \in Seqs : LoadSeq(s)
        BY <1>6, LoadSeqKeeps
    <1>7. CASE LoadSeqShort \/ LoadSeqSearch \/ LoadSeqRows \/ LoadSeqRowsShort
                   \/ LoadSeqForeign \/ LoadSeqRefused
        BY <1>7, LoadSeqShortKeeps, LoadSeqSearchKeeps, LoadSeqRowsKeeps, LoadSeqRowsShortKeeps,
           LoadSeqForeignKeeps, LoadSeqRefusedKeeps
    <1> QED BY <1>1, <1>2, <1>3, <1>4, <1>5, <1>6, <1>7 DEF StateNext

\* While a sequence is restored, no step changes what the others have.
LEMMA RestoringStays ==
    ASSUME StateIInv, StateNext, load # NoLoad
    PROVE  OthersStay
    <1>1. CASE Continue /\ pc = "find" /\ UNCHANGED stateVars
        BY <1>1, SearchKeeps
    <1>2. CASE LoadSeqShort \/ LoadSeqSearch \/ LoadSeqRows \/ LoadSeqRowsShort
                   \/ LoadSeqForeign \/ LoadSeqRefused
        BY <1>2, LoadSeqShortKeeps, LoadSeqSearchKeeps, LoadSeqRowsKeeps, LoadSeqRowsShortKeeps,
           LoadSeqForeignKeeps, LoadSeqRefusedKeeps
    <1> QED BY <1>1, <1>2 DEF StateNext, Save, SaveSeq, Load, LoadShort, LoadForeign, LoadSeq,
                              CanLoad, Restart

LEMMA StateInitInv == StateInit => StateIInv
    <1> SUFFICES ASSUME StateInit PROVE StateIInv
        OBVIOUS
    <1>1. Init /\ saved = NoFile /\ load = NoLoad
        BY DEF StateInit
    <1>2. IInv
        BY <1>1, InitInv
    <1>3. /\ cells = [i \in Index |-> NewCell] /\ pc = "idle" /\ plan = NoPlan
        BY <1>1 DEF Init
    <1>4. \A i \in Index : cells[i].seq_id = {}
        BY <1>3 DEF NewCell
    <1>5. TokensInv /\ DefragIInv
        BY <1>3, <1>4 DEF TokensInv, UsedCells, Empty, DefragIInv, FrontInv, SourceInv, CopyInv
    <1>6. CacheInv
        BY <1>2, <1>5, IsCounted DEF CacheInv, CallInv, IInv, UsedIsAccurate
    <1>7. SavedInv
        <2>1. << >> \in Seq(Entry) /\ Len(<< >>) = 0
            OBVIOUS
        <2> QED BY <1>1, <2>1 DEF SavedInv, NoFile
    <1> QED BY <1>1, <1>6, <1>7 DEF StateIInv, LoadInv

\* The invariant of saving and restoring, which the theorems below rest on.
THEOREM StateInvariant == StateSpec => []StateIInv
    BY StateInitInv, StateNextInv, PTL DEF StateSpec

\* Whatever way a restore of a sequence ends, with success, an early end of the file, rows
\* that do not fit, or no room, no step of it changes what another sequence has.
THEOREM OthersAreUntouched == StateSpec => OthersUntouched
    <1>1. StateIInv /\ [StateNext]_allVars =>
              [load # NoLoad => \A s \in Seqs \ {load.dest} : Contents(s)' = load.before[s]]_allVars
        <2> SUFFICES ASSUME StateIInv, StateNext, load # NoLoad, NEW s \in Seqs \ {load.dest}
                     PROVE  Contents(s)' = load.before[s]
            OBVIOUS
        <2>1. OthersKept
            BY DEF StateIInv, LoadInv
        <2> QED BY <2>1, RestoringStays DEF OthersStay, OthersKept
    <1> QED BY <1>1, StateInvariant, PTL DEF StateSpec, OthersUntouched

-----------------------------------------------------------------------------
(* What a restore gives back                                               *)

\* The cells of a whole cache that was restored.
LEMMA LoadGives ==
    ASSUME StateIInv, Load
    PROVE  /\ used' = Cardinality(UsedCells')
           /\ \A s \in Seqs :
                  Contents(s)' = {[pos |-> e.pos, row |-> e.row] :
                                      e \in {x \in Listed : s \in x.seq_id}}
    <1> DEFINE m == Len(saved.entries)
    <1>1. /\ pc = "idle" /\ saved.kind = "all" /\ plan' = plan
          /\ cells' = Restored(m, {}) /\ used' = m
          /\ rows' = [i \in Index |-> IF i < m THEN saved.entries[i + 1].row ELSE ZeroRow]
        BY DEF Load, CanLoad, callVars
    <1>2. CacheInv /\ SavedInv /\ plan = NoPlan
        BY <1>1 DEF StateIInv, CacheInv, DefragIInv
    <1>3. m \in 0 .. Size /\ m \in Nat /\ DOMAIN saved.entries = 1 .. m
        BY <1>2, SavedLength
    <1>4. ASSUME NEW i \in Index
          PROVE  /\ i < m => /\ i + 1 \in 1 .. m
                             /\ cells'[i].seq_id = saved.entries[i + 1].seq_id
                             /\ cells'[i].pos = saved.entries[i + 1].pos
                             /\ rows'[i] = saved.entries[i + 1].row
                 /\ ~(i < m) => cells'[i].seq_id = {}
        <2>1. CASE i < m
            <3>1. m \in 0 .. Len(saved.entries) /\ {} \in SUBSET Seqs
                BY <1>3
            <3>2. /\ cells'[i].seq_id = saved.entries[i + 1].seq_id
                  /\ cells'[i].pos = saved.entries[i + 1].pos
                BY <1>1, <1>2, <2>1, <3>1, RestoredCells
            <3> QED BY <1>1, <1>3, <2>1, <3>2 DEF Index
        <2>2. CASE ~(i < m)
            <3>1. cells'[i] = Freed(cells[i])
                BY <1>1, <2>2 DEF Restored
            <3> QED BY <1>2, <2>2, <3>1, CellLoose, FreedCell, SMTT(60)
        <2> QED BY <2>1, <2>2
    <1>5. \A k \in 1 .. m : k - 1 \in Index /\ k - 1 < m /\ (k - 1) + 1 = k
        BY <1>3 DEF Index
    <1>6. used' = Cardinality(UsedCells')
        <2>1. \A k \in 1 .. m : saved.entries[k].seq_id # {}
            BY <1>1, <1>2, <1>3 DEF SavedInv
        <2>2. UsedCells' = {i \in Index : cells'[i].seq_id # {}}
            BY DEF UsedCells, Empty
        <2>3. \A i \in Index : cells'[i].seq_id # {} <=> i < m
            BY <1>4, <2>1
        <2>4. \A i : i \in 0 .. m - 1 <=> i \in Index /\ i < m
            BY <1>3 DEF Index
        <2>5. UsedCells' = 0 .. m - 1
            BY <2>2, <2>3, <2>4
        <2>6. Cardinality(0 .. m - 1) = m
            BY <1>3, StretchSize
        <2> QED BY <1>1, <2>5, <2>6
    <1>7. \A j : RowOf(j)' = rows'[j]
        BY <1>1, <1>2, RowsNext
    <1>8. ASSUME NEW s \in Seqs
          PROVE  Contents(s)' = {[pos |-> e.pos, row |-> e.row] :
                                     e \in {x \in Listed : s \in x.seq_id}}
        <2>1. Contents(s)' = {[pos |-> cells'[i].pos, row |-> rows'[i]] :
                                  i \in {j \in Index : s \in cells'[j].seq_id}}
            BY <1>7 DEF Contents
        <2>2. Listed = {saved.entries[k] : k \in 1 .. m}
            BY <1>3 DEF Listed
        <2>3. ASSUME NEW i \in Index, s \in cells'[i].seq_id
              PROVE  \E e \in {x \in Listed : s \in x.seq_id} :
                         [pos |-> cells'[i].pos, row |-> rows'[i]] = [pos |-> e.pos, row |-> e.row]
            <3>1. i < m
                BY <1>4, <2>3
            <3>2. saved.entries[i + 1] \in {x \in Listed : s \in x.seq_id}
                BY <1>4, <2>2, <2>3, <3>1
            <3> QED BY <1>4, <3>1, <3>2
        <2>4. ASSUME NEW e \in Listed, s \in e.seq_id
              PROVE  \E i \in {j \in Index : s \in cells'[j].seq_id} :
                         [pos |-> cells'[i].pos, row |-> rows'[i]] = [pos |-> e.pos, row |-> e.row]
            <3>1. PICK k \in 1 .. m : e = saved.entries[k]
                BY <2>2
            <3>2. k - 1 \in Index /\ k - 1 < m /\ (k - 1) + 1 = k
                BY <1>5
            <3>3. /\ cells'[k - 1].seq_id = e.seq_id /\ cells'[k - 1].pos = e.pos
                  /\ rows'[k - 1] = e.row
                BY <1>4, <3>1, <3>2
            <3> QED BY <2>4, <3>2, <3>3
        <2> DEFINE S    == {j \in Index : s \in cells'[j].seq_id}
                   T    == {x \in Listed : s \in x.seq_id}
                   f(i) == [pos |-> cells'[i].pos, row |-> rows'[i]]
                   g(e) == [pos |-> e.pos, row |-> e.row]
        <2>5. (\A i \in S : \E e \in T : f(i) = g(e)) /\ (\A e \in T : \E i \in S : f(i) = g(e))
            BY <2>3, <2>4
        <2>6. {f(i) : i \in S} = {g(e) : e \in T}
            <3> HIDE DEF S, T, f, g
            <3> QED BY <2>5
        <2> QED BY <2>1, <2>6
    <1> QED BY <1>6, <1>8

\* The cells of a sequence that was restored.
LEMMA LoadSeqRowsGives ==
    ASSUME StateIInv, LoadSeqRows, NEW d \in Seqs, load.dest = d
    PROVE  /\ Contents(d)' = {[pos |-> e.pos, row |-> e.row] : e \in Listed}
           /\ \A i \in Index : d \in cells'[i].seq_id => cells'[i].seq_id = {d}
    <1> DEFINE m == Len(saved.entries)
    <1>1. /\ load.stage = "search" /\ pc = "found" /\ plan' = plan /\ cells' = cells
          /\ rows' = [i \in Index |-> IF i \in Slot THEN saved.entries[i - head + 1].row ELSE rows[i]]
        BY DEF LoadSeqRows, LoadRows, Slot, metaVars
    <1>2. /\ batch = FileBatch /\ Taken /\ plan = NoPlan
          /\ \A i \in Slot : i \in Index /\ i - head + 1 \in 1 .. m
          /\ \A k \in 1 .. m : head + k - 1 \in Slot
        BY <1>1, SlotOfEntries
    <1>3. DOMAIN saved.entries = 1 .. m /\ m \in Nat /\ head \in Nat
        BY SavedLength DEF StateIInv, CacheInv, CallInv, TypeOK
    <1>4. \A i \in Index : d \in cells'[i].seq_id <=> i \in Slot
        BY <1>1, <1>2 DEF Taken
    <1>5. \A i \in Slot : cells'[i].seq_id = {d}
        BY <1>1, <1>2 DEF Taken
    <1>6. ASSUME NEW i \in Slot
          PROVE  /\ cells'[i].pos = saved.entries[i - head + 1].pos
                 /\ rows'[i] = saved.entries[i - head + 1].row
        <2>1. cells'[i].pos = batch[i - head + 1].pos
            BY <1>1, <1>2 DEF Taken
        <2>2. batch[i - head + 1].pos = saved.entries[i - head + 1].pos
            BY <1>2, <1>3 DEF FileBatch
        <2> QED BY <1>1, <1>2, <2>1, <2>2
    <1>7. \A j : RowOf(j)' = rows'[j]
        BY <1>1, <1>2, RowsNext
    <1>8. Contents(d)' = {[pos |-> e.pos, row |-> e.row] : e \in Listed}
        <2>1. Contents(d)' = {[pos |-> cells'[i].pos, row |-> rows'[i]] :
                                  i \in {j \in Index : d \in cells'[j].seq_id}}
            BY <1>7 DEF Contents
        <2>2. Listed = {saved.entries[k] : k \in 1 .. m}
            BY <1>3 DEF Listed
        <2>3. ASSUME NEW i \in Index, d \in cells'[i].seq_id
              PROVE  \E e \in Listed :
                         [pos |-> cells'[i].pos, row |-> rows'[i]] = [pos |-> e.pos, row |-> e.row]
            <3>1. i \in Slot
                BY <1>4, <2>3
            <3>2. saved.entries[i - head + 1] \in Listed
                BY <1>2, <2>2, <3>1
            <3> QED BY <1>6, <3>1, <3>2
        <2>4. ASSUME NEW e \in Listed
              PROVE  \E i \in {j \in Index : d \in cells'[j].seq_id} :
                         [pos |-> cells'[i].pos, row |-> rows'[i]] = [pos |-> e.pos, row |-> e.row]
            <3>1. PICK k \in 1 .. m : e = saved.entries[k]
                BY <2>2
            <3>2. (head + k - 1) - head + 1 = k
                BY <1>3
            <3>3. head + k - 1 \in Slot /\ head + k - 1 \in Index
                BY <1>2
            <3>4. cells'[head + k - 1].pos = e.pos /\ rows'[head + k - 1] = e.row
                BY <1>6, <3>1, <3>2, <3>3
            <3> QED BY <1>4, <3>3, <3>4
        <2> DEFINE S    == {j \in Index : d \in cells'[j].seq_id}
                   T    == Listed
                   f(i) == [pos |-> cells'[i].pos, row |-> rows'[i]]
                   g(e) == [pos |-> e.pos, row |-> e.row]
        <2>5. (\A i \in S : \E e \in T : f(i) = g(e)) /\ (\A e \in T : \E i \in S : f(i) = g(e))
            BY <2>3, <2>4
        <2>6. {f(i) : i \in S} = {g(e) : e \in T}
            <3> HIDE DEF S, T, f, g
            <3> QED BY <2>5
        <2> QED BY <2>1, <2>6
    <1> QED BY <1>4, <1>5, <1>8

\* A file of any length, restored to the end, gives back what was saved: a whole cache with
\* its count of cells, a sequence in cells that no other sequence shares.
THEOREM FileComesBack == StateSpec => LoadGivesBack
    <1> DEFINE A == /\ Load =>
                           /\ used' = Cardinality(UsedCells')
                           /\ \A s \in Seqs :
                                  Contents(s)' = {[pos |-> e.pos, row |-> e.row] :
                                                      e \in {x \in Listed : s \in x.seq_id}}
                    /\ \A d \in Seqs :
                        load.dest = d /\ LoadSeqRows =>
                            /\ Contents(d)' = {[pos |-> e.pos, row |-> e.row] : e \in Listed}
                            /\ \A i \in Index : d \in cells'[i].seq_id => cells'[i].seq_id = {d}
    <1>1. StateIInv => A
        BY LoadGives, LoadSeqRowsGives
    <1>2. StateIInv /\ [StateNext]_allVars => [A]_allVars
        BY <1>1
    <1> QED BY <1>2, StateInvariant, PTL DEF StateSpec, LoadGivesBack

=============================================================================
