---------------------------- MODULE Downloadable ----------------------------
(***************************************************************************)
(* The download button of a model file (Downloadable.kt) with the download *)
(* manager of the system, which writes the file.  One item; its monitors,  *)
(* one for each download started, look every 500 ms.  A step is an event   *)
(* of the main thread, or one of the download manager.                     *)
(***************************************************************************)
EXTENDS Integers, Sequences

CONSTANT MaxDownloads   \* bound: downloads that are started

ASSUME DownloadAssumption == MaxDownloads \in Nat

VARIABLES
    status,     \* of the button
    file,       \* item.destination: "none", "partial", "whole", or "bad" (another checksum)
    download,   \* the download manager's entries, by id
    monitor     \* of each download: whether its monitorDownload() still looks

itemVars == <<status, file, download, monitor>>

Ready           == [kind |-> "ready", id |-> 0]
Downloading(id) == [kind |-> "downloading", id |-> id]
Downloaded      == [kind |-> "downloaded", id |-> 0]
Failed          == [kind |-> "error", id |-> 0]

Monitored == \E id \in DOMAIN monitor : monitor[id]

-----------------------------------------------------------------------------
(* The button                                                              *)

\* initiateDownload()
InitiateDownload ==
    /\ status \in {Ready, Failed} /\ Len(download) < MaxDownloads
    /\ file' = "none"
    /\ download' = Append(download, "running")
    /\ monitor' = Append(monitor, TRUE)
    /\ status' = Downloading(Len(download) + 1)

\* cancelDownload(): the download manager deletes what it has written.
CancelDownload ==
    /\ status.kind = "downloading"
    /\ IF download[status.id] # "removed"
       THEN /\ download' = [download EXCEPT ![status.id] = "removed"]
            /\ file' = "none" /\ status' = Ready
       ELSE UNCHANGED <<download, file, status>>
    /\ UNCHANGED monitor

\* The button is composed anew (the screen is turned): its monitors are cancelled, and
\* status is found out from the file, which is deleted unless it is whole.
Recompose ==
    /\ monitor' = [id \in DOMAIN monitor |-> FALSE]
    /\ status' = IF file = "whole" THEN Downloaded ELSE Ready
    /\ file' = IF file = "whole" THEN file ELSE "none"
    /\ UNCHANGED download

\* monitorDownload(): one look at the download.
Looks(id) == monitor[id] /\ UNCHANGED download

LooksOn(id) ==
    /\ Looks(id) /\ download[id] = "running"
    /\ status' = Downloading(id)
    /\ UNCHANGED <<file, monitor>>

Settles(id, new) ==
    /\ Looks(id)
    /\ status' = new
    /\ monitor' = [monitor EXCEPT ![id] = FALSE]

Verifies(id) ==
    /\ download[id] = "successful"
    /\ Settles(id, IF file = "whole" THEN Downloaded ELSE Failed)
    /\ file' = IF file = "whole" THEN file ELSE "none"

\* Mutant of GivesUp: an entry that the download manager does not have is not told.
GivesUpOnFailure(id) ==
    /\ download[id] = "failed"
    /\ Settles(id, Failed)
    /\ UNCHANGED file

GivesUp(id) ==
    /\ download[id] \in {"failed", "removed"}
    /\ Settles(id, Failed)
    /\ UNCHANGED file

-----------------------------------------------------------------------------
(* The download manager                                                    *)

Runs(id) == download[id] = "running" /\ UNCHANGED <<status, monitor>>

Writes(id) == Runs(id) /\ file' = "partial" /\ UNCHANGED download

Completes(id) ==
    /\ Runs(id)
    /\ download' = [download EXCEPT ![id] = "successful"]
    /\ file' \in {"whole", "bad"}

Breaks(id) ==
    /\ Runs(id)
    /\ download' = [download EXCEPT ![id] = "failed"]
    /\ UNCHANGED file

\* The user stops it in the system's own list of downloads.
Stopped(id) ==
    /\ Runs(id)
    /\ download' = [download EXCEPT ![id] = "removed"]
    /\ file' = "none"

-----------------------------------------------------------------------------
ItemInit ==
    /\ file \in {"none", "whole"}
    /\ status = (IF file = "whole" THEN Downloaded ELSE Ready)
    /\ download = << >> /\ monitor = << >>

DownloadStep(id) ==
    \/ LooksOn(id) \/ Verifies(id) \/ GivesUp(id)
    \/ Writes(id) \/ Completes(id) \/ Breaks(id) \/ Stopped(id)

-----------------------------------------------------------------------------
(* Correctness                                                             *)

\* What the button offers to load is the whole file, with the checksum it should have:
\* no download that was given up still writes to it or deletes it.
DownloadedIsWhole == status = Downloaded => file = "whole"

\* A button does not stay at "Downloading" for ever, whatever becomes of the download,
\* here or in the system's list, and whichever monitors are left of earlier ones.
DownloadSettles == (status.kind = "downloading") ~> (status.kind # "downloading")

=============================================================================
