------------------------------ MODULE KVCache ------------------------------
(***************************************************************************)
(* The KV cache of a Transformer model (src/llama.cpp): the cells, the     *)
(* operations on sequences, the search for a slot, K-shift and             *)
(* defragmentation, and llama_decode() as far as it uses them.             *)
(*                                                                         *)
(* A cell is metadata (position, pending shift, sequences); the K and V    *)
(* rows it stands for live in tensors that are written by graphs, at other *)
(* moments and through other indices.  The model keeps both apart: a cell  *)
(* remembers the token it stands for, a row remembers the token it was     *)
(* computed for and the position its key is rotated to.  The loops of the  *)
(* slot search and of the defragmentation are modelled step by step; an    *)
(* operation on sequences is one step.  One thread uses a context.         *)
(***************************************************************************)
EXTENDS Integers, Sequences, FiniteSets, Tally

CONSTANTS
    Size,         \* kv_size, a multiple of the padding in the code
    Seqs,         \* sequence ids
    Toks,         \* what tells tokens apart
    NoTok,        \* what a zeroed row holds
    MaxPos,       \* bound: positions are at most this
    Batches,      \* the batches llama_decode() is called with
    NUbatch,      \* cparams.n_ubatch
    Pad,          \* llama_kv_cache_get_padding()
    MaxMoves,     \* max_moves of the defragmentation
    FragMin,      \* the 128 below which fragmentation does not count
    DefragThold,  \* cparams.defrag_thold in percent, negative when disabled
    Ranges,       \* the <<p0, p1>> the operations on sequences are called with
    Shifts,       \* what seq_add() is called with
    Divisors      \* what seq_div() is called with

Index == 0 .. Size - 1
Token == [pos : 0 .. MaxPos, seq_id : (SUBSET Seqs) \ {{}}, tok : Toks]

ASSUME CacheAssumption ==
    /\ Size \in Nat \ {0} /\ NUbatch \in Nat \ {0} /\ Pad \in Nat \ {0}
    /\ MaxMoves \in Nat \ {0} /\ MaxPos \in Nat /\ FragMin \in Nat /\ DefragThold \in Int
    /\ Seqs \subseteq Nat /\ Ranges \subseteq Int \X Int
    /\ Shifts \subseteq Int \ {0} /\ Divisors \subseteq Nat \ {0, 1}
    /\ NoTok \notin Toks

ASSUME BatchesAssumption == Batches \subseteq Seq(Token) \ {<< >>}

VARIABLES
    cells,      \* kv_self.cells
    rows,       \* the rows of k_l and v_l
    head, used, n, has_shift, do_defrag,     \* the other fields of kv_self
    pc,         \* where llama_decode() or llama_kv_cache_update() is
    batch,      \* lctx.sbatch: tokens not yet given to a ubatch
    n_tested,   \* find_slot: cells looked at
    scan_from,  \* history: where find_slot started
    plan        \* defrag_internal: its locals

metaVars == <<cells, head, used>>
flagVars == <<has_shift, do_defrag>>
callVars == <<pc, batch, n_tested, scan_from, plan>>
vars == <<metaVars, rows, n, flagVars, callVars>>

Cell == [pos : -1 .. MaxPos, delta : Int, seq_id : SUBSET Seqs, tok : Toks \cup {NoTok}]
Row  == [tok : Toks \cup {NoTok}, rot : Int]
NewCell == [pos |-> -1, delta |-> 0, seq_id |-> {}, tok |-> NoTok]
ZeroRow == [tok |-> NoTok, rot |-> 0]
NoPlan  == [n_kv |-> 0, n_used |-> 0, ids |-> << >>, i0 |-> 0, nh |-> 0, nf |-> 0,
            i1 |-> 0, cont |-> FALSE, moves |-> 0]

Least(a, b) == IF a <= b THEN a ELSE b
Most(a, b)  == IF a >= b THEN a ELSE b

Empty(i)    == cells[i].seq_id = {}
UsedCells   == {i \in Index : ~Empty(i)}

\* A cell that lost its last sequence; seq_rm() and its like leave delta alone.
Freed(c) == [c EXCEPT !.pos = -1, !.seq_id = {}, !.tok = NoTok]

-----------------------------------------------------------------------------
(* Operations on sequences                                                 *)

From(p0) == IF p0 < 0 THEN 0 ELSE p0
InRange(i, p0, p1) == cells[i].pos >= From(p0) /\ (p1 < 0 \/ cells[i].pos < p1)

\* head goes back to the first freed cell when that is before it.
HeadToFreed(freed) ==
    IF freed = {} THEN UNCHANGED head
    ELSE \E h \in freed : (\A i \in freed : h <= i) /\ head' = Least(h, head)

Clearing(count) ==
    /\ pc = "idle"
    /\ cells' = [i \in Index |-> Freed(cells[i])]
    /\ rows' = [i \in Index |-> ZeroRow]
    /\ head' = 0 /\ used' = count
    /\ UNCHANGED <<n, flagVars, callVars>>

\* Mutant of Clear: the count of used cells is not reset.
ClearKeepsUsed == Clearing(used)

Clear == Clearing(0)

\* The cells an operation on sequence s applies to; a negative s matches any.
Hit(s, p0, p1) == {i \in Index : InRange(i, p0, p1) /\ (s < 0 \/ s \in cells[i].seq_id)}

\* Cells others share lose the sequence; the freed ones come off the count.
Without(i, s) == IF s < 0 THEN {} ELSE cells[i].seq_id \ {s}
FreedBy(s, p0, p1) == {i \in Hit(s, p0, p1) : Without(i, s) = {}}

Removing(s, p0, p1, count) ==
    /\ pc = "idle"
    /\ cells' = [i \in Index |->
                    IF i \in FreedBy(s, p0, p1) THEN Freed(cells[i])
                    ELSE IF i \in Hit(s, p0, p1) THEN [cells[i] EXCEPT !.seq_id = Without(i, s)]
                    ELSE cells[i]]
    /\ used' = used - count
    /\ HeadToFreed(FreedBy(s, p0, p1))
    /\ UNCHANGED <<rows, n, flagVars, callVars>>

\* Mutant of SeqRm: cells that other sequences share are taken off the count too.
SeqRmCountsHits(s, p0, p1) == Removing(s, p0, p1, Cardinality(Hit(s, p0, p1)))

SeqRm(s, p0, p1) == Removing(s, p0, p1, Cardinality(FreedBy(s, p0, p1)))

SeqCp(src, dst, p0, p1) ==
    /\ pc = "idle" /\ src # dst
    /\ cells' = [i \in Index |->
                    IF i \in Hit(src, p0, p1)
                    THEN [cells[i] EXCEPT !.seq_id = @ \cup {dst}] ELSE cells[i]]
    /\ head' = 0
    /\ UNCHANGED <<used, rows, n, flagVars, callVars>>

Keeping(s, count) ==
    LET others == {i \in Index : s \notin cells[i].seq_id}
    IN  /\ pc = "idle"
        /\ cells' = [i \in Index |-> IF i \in others THEN Freed(cells[i])
                                     ELSE [cells[i] EXCEPT !.seq_id = {s}]]
        /\ used' = used - count
        /\ HeadToFreed(others)
        /\ UNCHANGED <<rows, n, flagVars, callVars>>

\* Mutant of SeqKeep: cells that were free already are counted off too.
SeqKeepCountsFree(s) == Keeping(s, Cardinality({i \in Index : s \notin cells[i].seq_id}))

SeqKeep(s) ==
    Keeping(s, Cardinality({i \in Index : s \notin cells[i].seq_id /\ cells[i].pos >= 0}))

\* Cells move by d, their keys are to turn by d at the next update.  A cell shifted below zero is
\* freed; its delta stays until the next update.
SeqAdd(s, p0, p1, d) ==
    LET hit  == Hit(s, p0, p1)
        gone == {i \in hit : cells[i].pos + d < 0}
        shifted(c) == [c EXCEPT !.pos = @ + d, !.delta = @ + d]
    IN  /\ pc = "idle" /\ From(p0) # p1
        /\ \A i \in hit : cells[i].pos + d <= MaxPos
        /\ cells' = [i \in Index |-> IF i \in gone THEN Freed(shifted(cells[i]))
                                     ELSE IF i \in hit THEN shifted(cells[i])
                                     ELSE cells[i]]
        /\ used' = used - Cardinality(gone)
        /\ IF gone = {} THEN head' = 0
           ELSE \E h \in gone : (\A i \in gone : h <= i) /\ head' = h
        /\ has_shift' = (has_shift \/ hit # {})
        /\ UNCHANGED <<rows, n, do_defrag, callVars>>

SeqDiv(s, p0, p1, d) ==
    LET hit == Hit(s, p0, p1)
    IN  /\ pc = "idle" /\ From(p0) # p1
        /\ cells' = [i \in Index |->
                        IF i \in hit
                        THEN [cells[i] EXCEPT !.pos = @ \div d,
                                              !.delta = @ + cells[i].pos \div d - cells[i].pos]
                        ELSE cells[i]]
        /\ has_shift' = (has_shift \/ hit # {})
        /\ UNCHANGED <<head, used, rows, n, do_defrag, callVars>>

Defrag ==
    /\ pc = "idle" /\ ~do_defrag
    /\ do_defrag' = TRUE
    /\ UNCHANGED <<metaVars, rows, n, has_shift, callVars>>

-----------------------------------------------------------------------------
(* llama_kv_cache_update(): K-shift and defragmentation                    *)

\* The first cell after the last used one.
IsCellMax(c, m) ==
    /\ m \in 0 .. Size
    /\ m > 0 => c[m - 1].pos >= 0 /\ c[m - 1].seq_id # {}
    /\ \A i \in m .. Size - 1 : c[i].pos < 0 \/ c[i].seq_id = {}

UpdateRequested ==
    /\ pc = "idle" /\ (has_shift \/ do_defrag)
    /\ pc' = "update"
    /\ UNCHANGED <<metaVars, rows, n, flagVars, batch, n_tested, scan_from, plan>>

\* llama_decode() updates the cache before it looks for a slot.
AfterUpdate == IF batch = << >> THEN "idle" ELSE "slot"

\* Turning a zero row leaves it zero.
Turned(row, delta) == IF row.tok = NoTok THEN row ELSE [row EXCEPT !.rot = @ + delta]

\* The K-shift turns every row by its cell's delta; then the defragmentation starts.
Updating(turned) ==
    /\ pc = "update"
    /\ IF has_shift
       THEN /\ rows' = [i \in Index |-> Turned(rows[i], cells[i].delta)]
            /\ cells' = turned
       ELSE UNCHANGED <<rows, cells>>
    /\ has_shift' = FALSE
    /\ IF do_defrag
       THEN /\ pc' = "defrag"
            /\ \E m \in 0 .. Size :
                   /\ IsCellMax(cells, m)
                   /\ plan' = [NoPlan EXCEPT !.n_kv = m, !.n_used = used,
                                             !.ids = [i \in 0 .. m - 1 |-> m]]
       ELSE pc' = AfterUpdate /\ UNCHANGED plan
    /\ UNCHANGED <<head, used, n, do_defrag, batch, n_tested, scan_from>>

\* Mutant of Update: only used cells get their delta cleared.
UpdateKeepsDeltas ==
    Updating([i \in Index |-> [cells[i] EXCEPT !.delta = IF Empty(i) THEN @ ELSE 0]])

Update == Updating([i \in Index |-> [cells[i] EXCEPT !.delta = 0]])

\* A non-empty cell that is not moved yet.
Movable(i) == i < plan.n_kv /\ ~Empty(i) /\ plan.ids[i] = plan.n_kv

\* The hole at i0 reaches up to i0 + nh.
IsHole(nh) ==
    /\ nh >= 1 /\ plan.i0 + nh <= plan.n_used
    /\ \A k \in 0 .. nh - 1 : Empty(plan.i0 + k)
    /\ plan.i0 + nh < plan.n_used => ~Empty(plan.i0 + nh)

\* The nh movable cells from cell is on are the last nh of them after i0.
IsSource(is, nh) ==
    /\ is \in plan.i0 + 1 .. plan.n_kv - 1 /\ Movable(is)
    /\ Cardinality({i \in is .. plan.n_kv - 1 : Movable(i)}) = nh

DefragKeep ==
    /\ pc = "defrag" /\ plan.i0 < plan.n_used /\ ~Empty(plan.i0)
    /\ plan' = [plan EXCEPT !.ids[plan.i0] = plan.i0, !.i0 = @ + 1]
    /\ UNCHANGED <<metaVars, rows, n, flagVars, pc, batch, n_tested, scan_from>>

\* Without enough cells to fill the hole, "KV defrag bug: nf != nh" aborts.
DefragHole ==
    /\ pc = "defrag" /\ plan.i0 < plan.n_used /\ Empty(plan.i0)
    /\ \E nh \in 1 .. plan.n_used, is \in Index :
           /\ IsHole(nh) /\ IsSource(is, nh)
           /\ plan' = [plan EXCEPT !.nh = nh, !.nf = 0, !.i1 = is, !.cont = FALSE]
    /\ pc' = "move"
    /\ UNCHANGED <<metaVars, rows, n, flagVars, batch, n_tested, scan_from>>

\* Cell i1 moves at once, its rows go to ids[i1] when the graph is computed.
MoveTo(to) ==
    /\ pc = "move" /\ plan.i1 < plan.n_kv /\ Movable(plan.i1)
    /\ cells' = [cells EXCEPT ![plan.i0 + plan.nf] = cells[plan.i1], ![plan.i1] = NewCell]
    /\ head' = plan.n_used
    /\ LET moves == plan.moves + IF plan.cont THEN 0 ELSE 1
           ids   == [plan.ids EXCEPT ![plan.i1] = to]
           last  == plan.nf + 1 = plan.nh \/ plan.i1 + 1 = plan.n_kv
       IN  IF last
           THEN /\ plan' = [plan EXCEPT !.ids = ids, !.moves = moves,
                                        !.i0 = @ + plan.nh, !.nf = 0, !.nh = 0, !.cont = FALSE]
                /\ pc' = IF moves = MaxMoves THEN "copy" ELSE "defrag"
           ELSE /\ plan' = [plan EXCEPT !.ids = ids, !.moves = moves, !.nf = @ + 1,
                                        !.i1 = @ + 1, !.cont = TRUE]
                /\ UNCHANGED pc
    /\ UNCHANGED <<used, rows, n, flagVars, batch, n_tested, scan_from>>

\* Mutant of MoveCell: all cells of a block go to its first.
MoveCellSameTarget == MoveTo(plan.i0)

MoveCell == MoveTo(plan.i0 + plan.nf)

\* A gap ends a block; a new one is begun only while moves are left.
PassCell ==
    /\ pc = "move" /\ plan.i1 < plan.n_kv /\ ~Movable(plan.i1)
    /\ IF plan.moves = MaxMoves
       THEN pc' = "copy" /\ UNCHANGED plan
       ELSE plan' = [plan EXCEPT !.i1 = @ + 1, !.cont = FALSE] /\ UNCHANGED pc
    /\ UNCHANGED <<metaVars, rows, n, flagVars, batch, n_tested, scan_from>>

DoneAt(i) ==
    /\ pc = "defrag" /\ i >= plan.n_used
    /\ pc' = "copy"
    /\ UNCHANGED <<metaVars, rows, n, flagVars, batch, n_tested, scan_from, plan>>

\* Mutant of DefragDone: the last used cell is left out.
DefragDoneEarly == DoneAt(plan.i0 + 1)

DefragDone == DoneAt(plan.i0)

\* build_defrag() copies the rows of every moved cell, K and V of each layer.
Moved(i) == plan.ids[i] # i /\ plan.ids[i] # plan.n_kv
MovedTo(j) == {i \in 0 .. plan.n_kv - 1 : Moved(i) /\ plan.ids[i] = j}
RowOf(j) == rows[IF MovedTo(j) = {} THEN j ELSE CHOOSE i \in MovedTo(j) : TRUE]

CopyRows ==
    /\ pc = "copy"
    /\ rows' = [j \in Index |-> RowOf(j)]
    /\ do_defrag' = FALSE
    /\ pc' = AfterUpdate
    /\ plan' = NoPlan
    /\ UNCHANGED <<metaVars, n, has_shift, batch, n_tested, scan_from>>

-----------------------------------------------------------------------------
(* llama_decode()                                                          *)

\* split_simple(): the next ubatch is the first n_ubatch tokens that are left.
NTokens == Least(NUbatch, Len(batch))

Decode ==
    /\ pc = "idle"
    /\ batch' \in Batches
    /\ pc' = "update"
    /\ UNCHANGED <<metaVars, rows, n, flagVars, n_tested, scan_from, plan>>

\* llama_decode() returns 1; what earlier ubatches stored stays.
NoSlot == pc' = "idle" /\ batch' = << >> /\ n_tested' = 0 /\ scan_from' = 0

\* With enough unused cells before head, the search starts from the beginning.
BeginSlot ==
    /\ pc = "slot"
    /\ head' = IF head > used + 2 * NTokens THEN 0 ELSE head
    /\ IF NTokens > Size
       THEN NoSlot
       ELSE pc' = "find" /\ n_tested' = 0 /\ scan_from' = head' /\ UNCHANGED batch
    /\ UNCHANGED <<cells, used, rows, n, flagVars, plan>>

FindWrap ==
    /\ pc = "find" /\ head + NTokens > Size
    /\ n_tested' = n_tested + (Size - head)
    /\ head' = 0
    /\ UNCHANGED <<cells, used, rows, n, flagVars, pc, batch, scan_from, plan>>

\* The first occupied cell in the way is i behind head; the search goes on behind
\* it, or gives up after a full round.
SkipOccupied(i, tested) ==
    /\ pc = "find" /\ head + NTokens <= Size
    /\ cells[head + i].pos >= 0
    /\ \A k \in 0 .. i - 1 : cells[head + k].pos < 0
    /\ head' = head + i + 1
    /\ IF tested >= Size THEN NoSlot
       ELSE n_tested' = tested /\ UNCHANGED <<pc, batch, scan_from>>
    /\ UNCHANGED <<cells, used, rows, n, flagVars, plan>>

\* Mutants of FindOccupied: all cells of the slot are counted, or none.
FindGivesUpEarly == \E i \in 0 .. NTokens - 1 : SkipOccupied(i, n_tested + NTokens)
FindUncounted    == \E i \in 0 .. NTokens - 1 : SkipOccupied(i, n_tested)

FindOccupied == \E i \in 0 .. NTokens - 1 : SkipOccupied(i, n_tested + i + 1)

\* The slot: the cells take the ubatch.
Filling(free) ==
    /\ pc = "find" /\ head + NTokens <= Size
    /\ \A i \in free : cells[head + i].pos < 0
    /\ cells' = [i \in Index |->
                    IF i \in head .. head + NTokens - 1
                    THEN [cells[i] EXCEPT !.pos = batch[i - head + 1].pos,
                                          !.seq_id = @ \cup batch[i - head + 1].seq_id,
                                          !.tok = batch[i - head + 1].tok]
                    ELSE cells[i]]
    /\ used' = used + NTokens
    /\ pc' = "found" /\ n_tested' = 0 /\ scan_from' = 0
    /\ UNCHANGED <<head, rows, n, flagVars, batch, plan>>

\* Mutant of FindFree: only the first cell of the slot is looked at.
FindFreeLooksAtOne == Filling({0})

FindFree == Filling(0 .. NTokens - 1)

\* The graph attends the first n cells: those in use, padded.
RoundUp(m) == ((m + Pad - 1) \div Pad) * Pad

Attending(m) ==
    /\ pc = "found"
    /\ n' = Least(Size, Most(Pad, RoundUp(m)))
    /\ pc' = "compute"
    /\ UNCHANGED <<metaVars, rows, flagVars, batch, n_tested, scan_from, plan>>

\* Mutant of SetN: as many cells as are used, wherever they are.
SetNToUsed == Attending(used)

SetN == \E m \in 0 .. Size : IsCellMax(cells, m) /\ Attending(m)

\* Fragmentation above the threshold queues a defragmentation for the next update.
Fragmented == n >= FragMin /\ DefragThold >= 0 /\ (n - used) * 100 > DefragThold * n

\* The graph stores the rows from head on; head moves behind them.
Compute ==
    /\ pc = "compute"
    /\ rows' = [i \in Index |->
                    IF i \in head .. head + NTokens - 1
                    THEN [tok |-> batch[i - head + 1].tok, rot |-> batch[i - head + 1].pos]
                    ELSE rows[i]]
    /\ head' = IF head + NTokens >= Size THEN 0 ELSE head + NTokens
    /\ batch' = SubSeq(batch, NTokens + 1, Len(batch))
    /\ IF batch' = << >>
       THEN pc' = "idle" /\ do_defrag' = (do_defrag \/ Fragmented)
       ELSE pc' = "update" /\ UNCHANGED do_defrag
    /\ UNCHANGED <<cells, used, n, has_shift, n_tested, scan_from, plan>>

-----------------------------------------------------------------------------
Init ==
    /\ cells = [i \in Index |-> NewCell] /\ rows = [i \in Index |-> ZeroRow]
    /\ head = 0 /\ used = 0 /\ n = 0 /\ has_shift = FALSE /\ do_defrag = FALSE
    /\ pc = "idle" /\ batch = << >> /\ n_tested = 0 /\ scan_from = 0 /\ plan = NoPlan

Request ==
    \/ Clear \/ Defrag \/ UpdateRequested \/ Decode
    \/ \E s \in Seqs : SeqKeep(s)
    \/ \E s \in Seqs \cup {-1}, r \in Ranges : SeqRm(s, r[1], r[2])
    \/ \E src, dst \in Seqs, r \in Ranges : SeqCp(src, dst, r[1], r[2])
    \/ \E s \in Seqs, r \in Ranges, d \in Shifts : SeqAdd(s, r[1], r[2], d)
    \/ \E s \in Seqs, r \in Ranges, d \in Divisors : SeqDiv(s, r[1], r[2], d)

Continue ==
    \/ Update \/ DefragKeep \/ DefragHole \/ MoveCell \/ PassCell \/ DefragDone \/ CopyRows
    \/ BeginSlot \/ FindWrap \/ FindOccupied \/ FindFree \/ SetN \/ Compute

Next == Request \/ Continue

Spec == Init /\ [][Next]_vars

\* A call runs on the caller's thread until it returns; nothing obliges anyone to call.
FairSpec == Spec /\ WF_vars(Continue)

-----------------------------------------------------------------------------
(* Correctness                                                             *)

\* Every variable holds a value of its kind; head may be one behind the last cell.
TypeOK ==
    /\ cells \in [Index -> Cell] /\ rows \in [Index -> Row]
    /\ head \in 0 .. Size /\ used \in 0 .. Size /\ n \in 0 .. Size
    /\ has_shift \in BOOLEAN /\ do_defrag \in BOOLEAN
    /\ pc \in {"idle", "update", "defrag", "move", "copy", "slot", "find", "found",
              "compute"}
    /\ batch \in Seq(Token)
    /\ n_tested \in Nat /\ scan_from \in 0 .. Size
    /\ plan.n_kv \in 0 .. Size /\ plan.n_used \in 0 .. Size /\ plan.i0 \in 0 .. Size
    /\ plan.ids \in [0 .. plan.n_kv - 1 -> 0 .. plan.n_kv]
    /\ plan.nh \in 0 .. Size /\ plan.nf \in 0 .. Size /\ plan.i1 \in 0 .. Size
    /\ plan.cont \in BOOLEAN /\ plan.moves \in 0 .. MaxMoves

\* used counts the cells that some sequence uses, and exactly those have a
\* position, through every removal, shift, move and failed search.
UsedIsAccurate ==
    /\ used = Cardinality(UsedCells)
    /\ \A i \in Index : Empty(i) <=> cells[i].pos < 0

\* The cells whose rows the graph in progress still has to compute.
ToStore == IF pc \in {"found", "compute"} THEN head .. head + NTokens - 1 ELSE {}

\* The rows of a used cell hold the K and V of its token, with the key turned to
\* the cell's position but for the delta that is still pending: through shifts,
\* moves, failed and split batches, and the reuse of freed cells.
RowsMatchCells ==
    \A i \in UsedCells \ ToStore :
        /\ RowOf(i).tok = cells[i].tok
        /\ RowOf(i).rot + cells[i].delta = cells[i].pos

\* The search gives up only when no run of free cells is long enough, wherever
\* it started and however often it wrapped.
FailsOnlyWhenFull ==
    [][pc = "find" /\ pc' = "idle" =>
           \A h \in 0 .. Size - NTokens : \E i \in h .. h + NTokens - 1 : ~Empty(i)]_vars

\* While a ubatch is computed, attention looks at every used cell.
EveryUsedCellAttended == pc = "compute" => \A i \in UsedCells : i < n

\* GGML_ASSERT(nf == nh && "KV defrag bug: nf != nh").
HolesCanBeFilled ==
    pc = "defrag" /\ plan.i0 < plan.n_used /\ Empty(plan.i0) =>
        \E nh \in 1 .. plan.n_used, is \in Index : IsHole(nh) /\ IsSource(is, nh)

\* The copies of one defragmentation do not depend on their order: no row is
\* both source and destination, and none is the destination of two.
CopiesAreApart ==
    pc = "copy" =>
        \A i, j \in {k \in 0 .. plan.n_kv - 1 : Moved(k)} :
            /\ plan.ids[i] # j
            /\ i # j => plan.ids[i] # plan.ids[j]

\* A defragmentation that did not run out of moves leaves no hole.
DefragCompacts ==
    pc = "copy" /\ plan.moves < MaxMoves => \A i \in 0 .. plan.n_used - 1 : ~Empty(i)

\* The tokens in the cache, whatever the cells they are in.
TokenIn(c) == [pos |-> c.pos, seq_id |-> c.seq_id, tok |-> c.tok]
Content    == Tally(UsedCells, [i \in UsedCells |-> TokenIn(cells[i])])

\* The tokens of the current call that have no cell yet.
Unstored ==
    IF pc \in {"found", "compute"} THEN SubSeq(batch, NTokens + 1, Len(batch)) ELSE batch

\* Those who use the cache see a bag of tokens (SeqCache): operations do to every
\* token what they say whatever cell it is in; a batch is stored whole, or the call
\* gives up having stored its beginning; shifting keys, searching and moving cells
\* change nothing (llama_kv_cache_seq_*, llama_decode, llama_kv_cache_update).
Abstract == INSTANCE SeqCache WITH kv <- Content, todo <- Unstored

ImplementsSeqCache == Abstract!Spec

\* Every call returns: the search and the defragmentation end.
CallsReturn == pc # "idle" ~> pc = "idle"
=============================================================================
