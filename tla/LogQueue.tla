------------------------------ MODULE LogQueue ------------------------------
(***************************************************************************)
(* What the log of common/log.h promises to those who use it: a message    *)
(* accepted while the log runs is shown, once and in the order of          *)
(* acceptance, and the log is only restarted (with another file, or other  *)
(* colours) when nothing accepted before is left to show.                  *)
(***************************************************************************)
EXTENDS Sequences

CONSTANTS
    Entries,   \* what can be logged, each with the settings it is logged under
    Quiet      \* entries the console leaves out

VARIABLES
    accepting, \* the worker thread is not paused
    waiting,   \* accepted, not yet shown
    shown      \* what the console has displayed

vars == <<accepting, waiting, shown>>

Init ==
    /\ accepting = TRUE
    /\ waiting = << >>
    /\ shown = << >>

Accept(e) ==
    /\ accepting
    /\ waiting' = Append(waiting, e)
    /\ UNCHANGED <<accepting, shown>>

Show ==
    /\ waiting # << >>
    /\ shown' = IF Head(waiting) \in Quiet THEN shown ELSE Append(shown, Head(waiting))
    /\ waiting' = Tail(waiting)
    /\ UNCHANGED accepting

Stop ==
    /\ accepting
    /\ accepting' = FALSE
    /\ UNCHANGED <<waiting, shown>>

Start ==
    /\ ~accepting
    /\ waiting = << >>
    /\ accepting' = TRUE
    /\ UNCHANGED <<waiting, shown>>

Next ==
    \/ \E e \in Entries : Accept(e)
    \/ Show
    \/ Stop
    \/ Start

Spec == Init /\ [][Next]_vars /\ WF_vars(Show)

=============================================================================
