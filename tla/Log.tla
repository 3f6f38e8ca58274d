-------------------------------- MODULE Log --------------------------------
(***************************************************************************)
(* The asynchronous log of common/log.cpp.  Any thread adds messages to a  *)
(* ring buffer under one mutex; a worker thread takes them out and prints  *)
(* them, first to the console, then to the log file if one is set.  One    *)
(* thread at a time, the controller (log.h calls these "not thread-safe"), *)
(* pauses and resumes the worker, changes the file or the colours, and     *)
(* frees the log.                                                          *)
(*                                                                         *)
(* A message is <<adder, k>>; an entry carries the prefix setting it was   *)
(* added under, which stands for timestamps as well.  Log files are        *)
(* numbered by the fopen() that emptied them; 0 is a null file.            *)
(***************************************************************************)
EXTENDS Naturals, Sequences, FiniteSets, SequencesExt

CONSTANTS
    Adders,      \* threads that log
    PerAdder,    \* bound: messages each of them logs
    Quiet,       \* messages of debug level, with the verbosity threshold below it
    Capacity,    \* entries.size() of a new log (256)
    Calls,       \* bound: control calls made
    Careful      \* the controller avoids pause() when one entry of the ring is free

ASSUME CapacityAssumption == Capacity \in Nat \ {0, 1}

ASSUME BoundsAssumption == PerAdder \in Nat /\ Calls \in Nat /\ Careful \in BOOLEAN

Messages == Adders \X (1 .. PerAdder)

ASSUME QuietAssumption == Quiet \subseteq Messages

VARIABLES
    entries, head, tail,   \* the ring buffer
    running, prefix,       \* under the mutex, like the ring
    file, colors,          \* changed only while the worker is joined
    worker,                \* "none" (joined), "wait", "print", "file" or "exited"
    cur,                   \* gpt_log::cur
    control,               \* what the controller does: "idle", "join", "set" or "freed"
    call,                  \* the control call under way
    calls,                 \* how many were made
    added,                 \* how many messages each adder has logged
    sent,                  \* history: the entries accepted, with file and colors then
    console, disk          \* what was printed, and how

ring == <<entries, head, tail>>
sink == <<file, colors>>
vars == <<entries, head, tail, running, prefix, file, colors, worker, cur,
          control, call, calls, added, sent, console, disk>>

ControlCalls == {"pause", "resume", "set_file", "set_colors", "free"}

Size == Len(entries)

\* entries[i], the C++ way: the first entry has index 0.
At(i) == entries[i + 1]

Following(i) == (i + 1) % Size

Entry(m) == [msg |-> m, prefix |-> prefix, is_end |-> FALSE]

Blank == [msg |-> << >>, prefix |-> FALSE, is_end |-> FALSE]

\* The entries from head up to tail, in the order the worker will take them.
Ring == [i \in 1 .. (tail + Size - head) % Size |-> At((head + i - 1) % Size)]

-----------------------------------------------------------------------------

\* The constructor, which resumes.
Init ==
    /\ entries = [i \in 1 .. Capacity |-> Blank]
    /\ head = 0 /\ tail = 0
    /\ running = TRUE
    /\ prefix = FALSE
    /\ file = 0 /\ colors = FALSE
    /\ worker = "wait"
    /\ cur = Blank
    /\ control = "idle" /\ call = "resume" /\ calls = 0
    /\ added = [a \in Adders |-> 0]
    /\ sent = << >>
    /\ console = << >>
    /\ disk = << >>

\* Mutants of Put: head is kept when the ring is rewritten; a full ring is
\* not noticed.
PutKeepsHead(e) ==
    LET filled == [entries EXCEPT ![tail + 1] = e]
        full   == Following(tail) = head
    IN /\ entries' = IF full
                     THEN [i \in 1 .. 2 * Size |->
                             IF i <= Size THEN filled[((head + i - 1) % Size) + 1] ELSE Blank]
                     ELSE filled
       /\ tail' = IF full THEN Size ELSE Following(tail)
       /\ UNCHANGED head

PutOverwrites(e) ==
    /\ entries' = [entries EXCEPT ![tail + 1] = e]
    /\ tail' = Following(tail)
    /\ UNCHANGED head

\* add(), after its first lines: the entry is put at tail, and when the ring
\* has become full it is rewritten from index 0 into one of twice the size.
Put(e) ==
    LET filled == [entries EXCEPT ![tail + 1] = e]
        full   == Following(tail) = head
    IN /\ entries' = IF full
                     THEN [i \in 1 .. 2 * Size |->
                             IF i <= Size THEN filled[((head + i - 1) % Size) + 1] ELSE Blank]
                     ELSE filled
       /\ head' = IF full THEN 0 ELSE head
       /\ tail' = IF full THEN Size ELSE Following(tail)

\* gpt_log_add: a message that comes while the log is paused is discarded.
Add(a) ==
    /\ added[a] < PerAdder
    /\ control # "freed"
    /\ added' = [added EXCEPT ![a] = @ + 1]
    /\ LET e == Entry(<<a, added'[a]>>)
       IN \/ /\ running
             /\ Put(e)
             /\ sent' = Append(sent, [entry |-> e, file |-> file, colors |-> colors])
          \/ /\ ~running
             /\ UNCHANGED <<entries, head, tail, sent>>
    /\ UNCHANGED <<running, prefix, sink, worker, cur, control, call, calls, console, disk>>

\* gpt_log_set_prefix and gpt_log_set_timestamps, from any thread.
SetPrefix ==
    /\ control # "freed"
    /\ prefix' = ~prefix
    /\ UNCHANGED <<ring, running, sink, worker, cur, control, call, calls, added, sent,
                   console, disk>>

-----------------------------------------------------------------------------
(* The worker thread.                                                      *)

\* cv.wait(head != tail), then the entry is copied and the mutex released.
Take ==
    /\ worker = "wait"
    /\ head # tail
    /\ cur' = At(head)
    /\ head' = Following(head)
    /\ worker' = IF cur'.is_end THEN "exited" ELSE "print"
    /\ UNCHANGED <<entries, tail, running, prefix, sink, control, call, calls, added, sent,
                   console, disk>>

\* cur.print(): debug messages below the verbosity threshold are left out.
PrintConsole ==
    /\ worker = "print"
    /\ console' = IF cur.msg \in Quiet THEN console
                  ELSE Append(console, [entry |-> cur, colors |-> colors])
    /\ worker' = IF file # 0 THEN "file" ELSE "wait"
    /\ UNCHANGED <<ring, running, prefix, sink, cur, control, call, calls, added, sent, disk>>

\* cur.print(file)
PrintFile ==
    /\ worker = "file"
    /\ disk' = [disk EXCEPT ![file] = Append(@, cur)]
    /\ worker' = "wait"
    /\ UNCHANGED <<ring, running, prefix, sink, cur, control, call, calls, added, sent, console>>

Worker == Take \/ PrintConsole \/ PrintFile

-----------------------------------------------------------------------------
(* The controller.  set_file, set_colors and the destructor start with     *)
(* pause(); all but pause() and the destructor end with resume().          *)

\* Mutant of PushEnd: the end entry is written and not published.
PushEndUnpublished ==
    /\ entries' = [entries EXCEPT ![tail + 1].is_end = TRUE]
    /\ UNCHANGED <<head, tail>>

\* pause(), up to the join: the end entry is pushed with no check for room.
PushEnd ==
    /\ entries' = [entries EXCEPT ![tail + 1].is_end = TRUE]
    /\ tail' = Following(tail)
    /\ UNCHANGED head

Call(c) ==
    /\ control = "idle"
    /\ calls < Calls
    /\ calls' = calls + 1
    /\ call' = c
    /\ \/ /\ c = "resume" \/ ~running
          /\ control' = "set"
          /\ UNCHANGED <<ring, running>>
       \/ /\ c # "resume"
          /\ running
          /\ Careful => Following(tail) # head
          /\ running' = FALSE
          /\ PushEnd
          /\ control' = "join"
    /\ UNCHANGED <<prefix, sink, worker, cur, added, sent, console, disk>>

\* Mutant of Join: pause() returns as soon as the worker was told to stop.
JoinEarly ==
    /\ control = "join"
    /\ control' = "set"
    /\ UNCHANGED <<ring, running, prefix, sink, worker, cur, call, calls, added, sent, console,
                   disk>>

\* thrd.join()
Join ==
    /\ control = "join"
    /\ worker = "exited"
    /\ worker' = "none"
    /\ control' = "set"
    /\ UNCHANGED <<ring, running, prefix, sink, cur, call, calls, added, sent, console, disk>>

\* resume(): nothing if the log runs, else a new worker thread.
Restart ==
    IF running THEN UNCHANGED <<running, worker>>
    ELSE running' = TRUE /\ worker' = "wait"

\* fopen(path, "w") empties the file; it may fail, and path may be null.
OpenFile ==
    \/ /\ file' = Len(disk) + 1
       /\ disk' = Append(disk, << >>)
    \/ /\ file' = 0
       /\ UNCHANGED disk

Finish ==
    /\ control = "set"
    /\ control' = IF call = "free" THEN "freed" ELSE "idle"
    /\ IF call \in {"pause", "free"} THEN UNCHANGED <<running, worker>> ELSE Restart
    /\ IF call = "set_file" THEN OpenFile ELSE UNCHANGED <<file, disk>>
    /\ IF call = "set_colors" THEN colors' \in BOOLEAN ELSE UNCHANGED colors
    /\ UNCHANGED <<ring, prefix, cur, call, calls, added, sent, console>>

\* Everything that is to happen has happened.
Idle ==
    /\ control = "freed" \/ (control = "idle" /\ calls = Calls)
    /\ control = "freed" \/ \A a \in Adders : added[a] = PerAdder
    /\ worker = "none" \/ (worker = "wait" /\ head = tail)
    /\ UNCHANGED vars

Next ==
    \/ \E a \in Adders : Add(a)
    \/ SetPrefix
    \/ Worker
    \/ \E c \in ControlCalls : Call(c)
    \/ Join
    \/ Finish
    \/ Idle

Spec == Init /\ [][Next]_vars

\* The worker runs when it can, and the controller carries on with a call it
\* has made; nobody has to log, to change a setting or to make a call.
FairSpec == Spec /\ WF_vars(Worker) /\ WF_vars(Join) /\ WF_vars(Finish)

-----------------------------------------------------------------------------

EntryType == [msg : Messages \cup {<< >>}, prefix : BOOLEAN, is_end : BOOLEAN]

TypeOK ==
    /\ entries \in Seq(EntryType) /\ Size >= Capacity
    /\ head \in 0 .. Size - 1 /\ tail \in 0 .. Size - 1
    /\ running \in BOOLEAN /\ prefix \in BOOLEAN /\ colors \in BOOLEAN
    /\ file \in 0 .. Len(disk)
    /\ worker \in {"none", "wait", "print", "file", "exited"}
    /\ cur \in EntryType
    /\ control \in {"idle", "join", "set", "freed"}
    /\ call \in ControlCalls
    /\ calls \in 0 .. Calls
    /\ added \in [Adders -> 0 .. PerAdder]
    /\ sent \in Seq([entry : EntryType, file : Nat, colors : BOOLEAN])
    /\ console \in Seq([entry : EntryType, colors : BOOLEAN])
    /\ disk \in Seq(Seq(EntryType))

\* What the worker will take, but for the end entry, behind which nothing is added.
InRing == IF Ring # << >> /\ Last(Ring).is_end THEN Front(Ring) ELSE Ring

Unshown   == (IF worker = "print" THEN <<cur>> ELSE << >>) \o InRing
Unwritten == (IF worker \in {"print", "file"} THEN <<cur>> ELSE << >>) \o InRing

Displayed(s) == [entry |-> s.entry, colors |-> s.colors]

\* The entries in u are the latest that were accepted, s being all of them.
AreLatest(u, s) ==
    /\ Len(u) <= Len(s)
    /\ \A i \in DOMAIN u : u[i] = s[Len(s) - Len(u) + i].entry

\* out is what f has at the indices in is, in their order.
Lists(out, is, f) ==
    /\ Len(out) = Cardinality(is)
    /\ \A i \in is : out[Cardinality({k \in is : k <= i})] = f[i]

\* Every message accepted is on the console or still to come there, once, in
\* the order of acceptance, with the prefix and in the colours set when it was
\* accepted, whatever pause, growth of the ring or change of colours came
\* between (add, resume and pause of gpt_log; print runs outside the mutex).
ConsoleInOrder ==
    LET shown == 1 .. Len(sent) - Len(Unshown)
    IN  /\ AreLatest(Unshown, sent)
        /\ Lists(console, {i \in shown : sent[i].entry.msg \notin Quiet},
                 [i \in DOMAIN sent |-> Displayed(sent[i])])

\* A log file holds the messages accepted while it was the log's file, all of
\* them once it is closed: set_file() and the destructor close it only after
\* the worker has written what was added before, and the worker writes no
\* message to a file set after the message was added.
FilesComplete ==
    LET written == 1 .. Len(sent) - Len(Unwritten)
    IN  /\ AreLatest(Unwritten, sent)
        /\ \A i \in DOMAIN sent \ written : sent[i].file = file
        /\ \A f \in DOMAIN disk :
               Lists(disk[f], {i \in written : sent[i].file = f},
                     [i \in DOMAIN sent |-> sent[i].entry])

\* Every control call returns: pause() joins the worker, whose wait for work
\* must see the end entry.
CallsReturn == control \in {"join", "set"} ~> control \in {"idle", "freed"}

\* The log does what a log promises (LogQueue).
Abstract == INSTANCE LogQueue WITH
    Entries   <- [entry : EntryType, colors : BOOLEAN],
    Quiet     <- [entry : {e \in EntryType : e.msg \in Quiet}, colors : BOOLEAN],
    accepting <- running,
    waiting   <- [i \in DOMAIN Unshown |-> [entry |-> Unshown[i], colors |-> colors]],
    shown     <- console

ImplementsLogQueue == Abstract!Spec

=============================================================================
