------------------------------ MODULE KVState ------------------------------
(***************************************************************************)
(* Saving the KV cache and restoring it (src/llama.cpp, llama_data_write,  *)
(* llama_data_read and their callers): the whole cache, or one sequence    *)
(* into another.  A file is read field by field while the cache is being   *)
(* changed, and reading may end with an exception in the middle, or with a *)
(* refusal that is cleaned up.  The cache itself is module KVCache; the    *)
(* cells of a restored sequence are found by its slot search.              *)
(***************************************************************************)
EXTENDS KVCache

CONSTANTS
    Faults,     \* what may be wrong with a file: "short", or "foreign" to the model
    Careful     \* whether callers update the cache before they save or load

ASSUME StateAssumption ==
    /\ Faults \subseteq {"short", "foreign"} /\ Careful \in BOOLEAN
    /\ NUbatch >= Size      \* a restored sequence is one ubatch

VARIABLES
    saved,      \* the file: its kind, and the cells and rows in their order
    load        \* the restore of a sequence in progress

stateVars == <<saved, load>>
allVars   == <<vars, stateVars>>

NoFile == [kind |-> "none", entries |-> << >>]
NoLoad == [stage |-> "none", dest |-> -1, before |-> << >>]
Calm   == Careful => ~has_shift

\* Bound: a short file may leave used too small, and the next removal would wrap it
\* around.  What runs on such a cache is left out, but for what repairs it.
Counted == used = Cardinality(UsedCells) /\ \A i \in Index : Empty(i) => cells[i].pos < 0

\* What the cache holds for a sequence.
Contents(s) == {[pos |-> cells[i].pos, row |-> RowOf(i)] : i \in {j \in Index : s \in cells[j].seq_id}}

-----------------------------------------------------------------------------
(* write_kv_cache()                                                        *)

\* The cells of a set, by index, with their rows; cell.delta is not written.
Entries(S, ids) ==
    LET nth(k) == CHOOSE i \in S : Cardinality({j \in S : j < i}) = k - 1
    IN  [k \in 1 .. Cardinality(S) |->
            [pos |-> cells[nth(k)].pos, seq_id |-> ids[nth(k)],
             tok |-> cells[nth(k)].tok, row |-> rows[nth(k)]]]

Save ==
    /\ pc = "idle" /\ load = NoLoad /\ Calm
    /\ saved' = [kind |-> "all", entries |-> Entries(UsedCells, [i \in Index |-> cells[i].seq_id])]
    /\ UNCHANGED <<vars, load>>

SaveSeq(s) ==
    /\ pc = "idle" /\ load = NoLoad /\ Calm
    /\ saved' = [kind |-> "seq",
                 entries |-> Entries({i \in Index : s \in cells[i].seq_id}, [i \in Index |-> {}])]
    /\ UNCHANGED <<vars, load>>

-----------------------------------------------------------------------------
(* read_kv_cache(), all of it                                              *)

\* Cells 0 .. k-1 restored after a clear(), which leaves every delta alone; cell k
\* has its position and the sequences in part when the file ends inside it.
Restored(k, part) ==
    [i \in Index |->
        IF i < k
        THEN [cells[i] EXCEPT !.pos = saved.entries[i + 1].pos,
                              !.seq_id = saved.entries[i + 1].seq_id,
                              !.tok = saved.entries[i + 1].tok]
        ELSE IF i = k /\ k < Len(saved.entries)
        THEN [cells[i] EXCEPT !.pos = saved.entries[i + 1].pos, !.seq_id = part,
                              !.tok = saved.entries[i + 1].tok]
        ELSE Freed(cells[i])]

CanLoad(kind) == pc = "idle" /\ load = NoLoad /\ saved.kind = kind /\ Calm

Load ==
    /\ CanLoad("all")
    /\ cells' = Restored(Len(saved.entries), {})
    /\ rows' = [i \in Index |-> IF i < Len(saved.entries) THEN saved.entries[i + 1].row
                                ELSE ZeroRow]
    /\ head' = 0 /\ used' = Len(saved.entries)
    /\ UNCHANGED <<n, flagVars, callVars, stateVars>>

\* The file ends among the cells (used is not set yet) or among the rows: read()
\* throws past the clean-up.
LoadShort ==
    /\ CanLoad("all") /\ "short" \in Faults
    /\ \/ /\ used' = 0
          /\ \E k \in 0 .. Len(saved.entries) - 1 :
                 \E part \in SUBSET saved.entries[k + 1].seq_id \ {saved.entries[k + 1].seq_id} :
                     cells' = Restored(k, part)
       \/ used' = Len(saved.entries) /\ cells' = Restored(Len(saved.entries), {})
    /\ rows' = [i \in Index |-> ZeroRow] /\ head' = 0
    /\ UNCHANGED <<n, flagVars, callVars, stateVars>>

\* The rows do not fit this model: read_kv_cache() clears the cache and throws.
LoadForeign ==
    /\ CanLoad("all") /\ "foreign" \in Faults
    /\ Clear
    /\ UNCHANGED stateVars

-----------------------------------------------------------------------------
(* read_kv_cache(), one sequence                                           *)

\* The destination is emptied first.  A file without cells is left out: for it the
\* code reads batch.pos[0] of an empty batch.
LoadSeq(s) ==
    /\ CanLoad("seq") /\ Counted /\ saved.entries # << >>
    /\ SeqRm(s, -1, -1)
    /\ load' = [stage |-> "read", dest |-> s, before |-> [x \in Seqs |-> Contents(x)]]
    /\ UNCHANGED saved

\* The file ends among the positions: nothing else has been changed.
LoadSeqShort ==
    /\ load.stage = "read" /\ "short" \in Faults
    /\ load' = NoLoad
    /\ UNCHANGED <<vars, saved>>

LoadSeqSearch ==
    /\ load.stage = "read"
    /\ pc' = "find" /\ n_tested' = 0 /\ scan_from' = head
    /\ batch' = [k \in DOMAIN saved.entries |->
                    [pos |-> saved.entries[k].pos, seq_id |-> {load.dest},
                     tok |-> saved.entries[k].tok]]
    /\ load' = [load EXCEPT !.stage = "search"]
    /\ UNCHANGED <<metaVars, rows, n, flagVars, plan, saved>>

\* The slot is found; the rows are read into it from head on.  head stays.
LoadRows(from) ==
    /\ load.stage = "search" /\ pc = "found"
    /\ rows' = [i \in Index |->
                    IF i \in from .. from + NTokens - 1 THEN saved.entries[i - from + 1].row
                    ELSE rows[i]]
    /\ pc' = "idle" /\ batch' = << >> /\ load' = NoLoad
    /\ UNCHANGED <<metaVars, n, flagVars, n_tested, scan_from, plan, saved>>

\* Mutant of LoadSeqRows: the rows go to the first cells, as those of a whole cache do.
LoadSeqRowsFirst == LoadRows(0)

LoadSeqRows == LoadRows(head)

\* The file ends among the rows: the cells stay the destination's.
LoadSeqRowsShort ==
    /\ load.stage = "search" /\ pc = "found" /\ "short" \in Faults
    /\ pc' = "idle" /\ batch' = << >> /\ load' = NoLoad
    /\ UNCHANGED <<metaVars, rows, n, flagVars, n_tested, scan_from, plan, saved>>

LoadSeqForeign ==
    /\ load.stage = "search" /\ pc = "found" /\ "foreign" \in Faults
    /\ pc' = "idle" /\ batch' = << >>
    /\ UNCHANGED <<metaVars, rows, n, flagVars, n_tested, scan_from, plan, stateVars>>

\* Mutant of LoadSeqRefused: all sequences are removed.
LoadSeqRefusedAll ==
    /\ load.stage = "search" /\ pc = "idle"
    /\ SeqRm(-1, -1, -1)
    /\ load' = NoLoad
    /\ UNCHANGED saved

\* No slot, or rows that do not fit: the destination is removed again.
LoadSeqRefused ==
    /\ load.stage = "search" /\ pc = "idle"
    /\ SeqRm(load.dest, -1, -1)
    /\ load' = NoLoad
    /\ UNCHANGED saved

-----------------------------------------------------------------------------
\* A new context of the same size; the file outlives the old one.
Restart ==
    /\ pc = "idle" /\ load = NoLoad
    /\ cells' = [i \in Index |-> NewCell] /\ rows' = [i \in Index |-> ZeroRow]
    /\ head' = 0 /\ used' = 0 /\ n' = 0 /\ has_shift' = FALSE /\ do_defrag' = FALSE
    /\ UNCHANGED <<callVars, stateVars>>

StateInit == Init /\ saved = NoFile /\ load = NoLoad

StateNext ==
    \/ (IF Counted THEN Request ELSE Clear) /\ load = NoLoad /\ UNCHANGED stateVars
    \/ Continue /\ (load = NoLoad \/ pc = "find") /\ UNCHANGED stateVars
    \/ Save \/ Load \/ LoadShort \/ LoadForeign \/ Restart
    \/ \E s \in Seqs : SaveSeq(s) \/ LoadSeq(s)
    \/ LoadSeqShort \/ LoadSeqSearch \/ LoadSeqRows \/ LoadSeqRowsShort
    \/ LoadSeqForeign \/ LoadSeqRefused

StateSpec == StateInit /\ [][StateNext]_allVars

-----------------------------------------------------------------------------
(* Correctness                                                             *)

\* Between calls, also to save and restore, every used cell has the rows of its
\* token, turned to its position but for what is pending: "the KV data is updated
\* accordingly, lazily on next llama_decode()".  It holds only for callers that update
\* first and for files that do not end early (see the README).
RowsMatchBetweenCalls == load = NoLoad => RowsMatchCells

\* Restoring a sequence, also when it fails or is refused half way, leaves what the
\* cache holds for every other sequence as it was before, in every step.
OthersUntouched ==
    [][load # NoLoad => \A s \in Seqs \ {load.dest} : Contents(s)' = load.before[s]]_allVars

Listed == {saved.entries[k] : k \in DOMAIN saved.entries}

\* What a cache or a sequence holds after it was restored is what was saved,
\* position by position and row by row; a sequence is restored into cells of its
\* own, and the cells of a whole cache are counted.
LoadGivesBack ==
    [][/\ Load =>
              /\ used' = Cardinality(UsedCells')
              /\ \A s \in Seqs :
                     Contents(s)' = {[pos |-> e.pos, row |-> e.row] :
                                         e \in {x \in Listed : s \in x.seq_id}}
       /\ \A d \in Seqs :
           load.dest = d /\ LoadSeqRows =>
               /\ Contents(d)' = {[pos |-> e.pos, row |-> e.row] : e \in Listed}
               /\ \A i \in Index : d \in cells'[i].seq_id => cells'[i].seq_id = {d}]_allVars
=============================================================================
