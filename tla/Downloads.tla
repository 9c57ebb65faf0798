-------------------------------- MODULE Downloads --------------------------------
(***************************************************************************)
(* The download queue the pages share (useDownloads.ts) and the buttons    *)
(* that fill it (AllMissions.vue, ViewMediaScreen.vue, MediaManager.vue).  *)
(*                                                                         *)
(* A job is named by what asked for it and its file.  A button counts once *)
(* per press: nothing holds a second batch back, since the page may be     *)
(* left and mounted anew, and MediaManager's button does not wait.  The    *)
(* pauses between the phases of a job and between jobs are just steps.     *)
(* DownloadToast.vue shows the array it took at its setup, which the first *)
(* job replaces: it stays empty, and nothing is dismissed through it.      *)
(***************************************************************************)
EXTENDS Integers, FiniteSets

CONSTANTS
    Items,       \* files
    Batches,     \* presses that ask for several files
    Singles      \* files that are asked for one at a time, once each

ASSUME ItemsAssumption == Singles \subseteq Items /\ "single" \notin Batches

Job == (Batches \X Items) \cup ({"single"} \X Singles)
Phase == {"none", "preparing", "starting", "streaming", "done", "error"}
EndedWell == {"none", "done"}  \* mutant: a file that fails holds up the others
Ended == {"none", "done", "error"}

VARIABLES
    phase,       \* of each job
    queue,       \* state.jobs: the jobs listed
    progress,    \* of a batch
    left         \* its files still to be enqueued

downloadVars == << phase, queue, progress, left >>

DownloadTypeOK ==
    /\ phase \in [Job -> Phase]
    /\ queue \subseteq Job
    /\ progress \in [Batches -> {"idle", "listing", "running", "over"}]
    /\ left \in [Batches -> SUBSET Items]

DownloadInit ==
    /\ phase = [j \in Job |-> "none"]
    /\ queue = {}
    /\ progress = [b \in Batches |-> "idle"] /\ left = [b \in Batches |-> {}]

-----------------------------------------------------------------------------
(* The queue.                                                              *)

Finished(js) == {j \in js : phase[j] \in {"done", "error"}}

\* pruneOlderThan.
Prune(old) == queue' = queue \ old

\* All finished jobs are older than 0 ms.
Enqueue(j) ==
    /\ phase' = [phase EXCEPT ![j] = "preparing"]
    /\ queue' = (queue \ Finished(queue)) \cup {j}

\* The HEAD request finds the file; or the file is gone, or the request fails.
Preflight(j) ==
    /\ phase[j] = "preparing"
    /\ \/ /\ phase' = [phase EXCEPT ![j] = "starting"]
          /\ UNCHANGED << queue >>
       \/ /\ phase' = [phase EXCEPT ![j] = "error"]
          /\ \E old \in SUBSET (Finished(queue) \cup {j}) : Prune(old)
    /\ UNCHANGED << progress, left >>

Streams(j) ==
    /\ phase[j] = "starting"
    /\ phase' = [phase EXCEPT ![j] = "streaming"]
    /\ UNCHANGED << queue, progress, left >>

\* The browser has it; what is 15 s old leaves the list, this job too if its HEAD took long.
Settles(j) ==
    /\ phase[j] = "streaming"
    /\ phase' = [phase EXCEPT ![j] = "done"]
    /\ \E old \in SUBSET (Finished(queue) \cup {j}) : Prune(old)
    /\ UNCHANGED << progress, left >>

JobStep(j) == Preflight(j) \/ Streams(j) \/ Settles(j)

-----------------------------------------------------------------------------
(* The buttons.                                                            *)

DownloadSingle(f) ==
    /\ f \in Singles /\ phase[<< "single", f >>] = "none"
    /\ Enqueue(<< "single", f >>)
    /\ UNCHANGED << progress, left >>

PressDownload(b) ==
    /\ progress[b] = "idle"
    /\ progress' = [progress EXCEPT ![b] = "listing"]
    /\ UNCHANGED << phase, queue, left >>

\* The files of the dive, as listed now, or by an earlier list if this one fails.
FilesFound(b, files) ==
    /\ progress[b] = "listing"
    /\ progress' = [progress EXCEPT ![b] = IF files = {} THEN "over" ELSE "running"]
    /\ left' = [left EXCEPT ![b] = files]
    /\ UNCHANGED << phase, queue >>

Rested(b) == \A f \in Items : phase[<< b, f >>] \in Ended

\* enqueueBulkDownload: one file after the other.
NextFile(b) ==
    /\ progress[b] = "running" /\ Rested(b)
    /\ \E f \in left[b] :
        /\ Enqueue(<< b, f >>)
        /\ left' = [left EXCEPT ![b] = @ \ {f}]
    /\ UNCHANGED << progress >>

BatchOver(b) ==
    /\ progress[b] = "running" /\ Rested(b) /\ left[b] = {}
    /\ progress' = [progress EXCEPT ![b] = "over"]
    /\ left' = [left EXCEPT ![b] = {}]
    /\ UNCHANGED << phase, queue >>

BatchStep(b) ==
    (\E files \in SUBSET Items : FilesFound(b, files)) \/ NextFile(b) \/ BatchOver(b)

DownloadNext ==
    \/ \E f \in Items : DownloadSingle(f)
    \/ \E j \in Job : JobStep(j)
    \/ \E b \in Batches : PressDownload(b) \/ BatchStep(b)

\* Requests are answered or fail, and the loop that enqueues goes on after either.
DownloadFairness ==
    /\ WF_downloadVars(\E j \in Job : JobStep(j))
    /\ WF_downloadVars(\E b \in Batches : BatchStep(b))

DownloadSpec == DownloadInit /\ [][DownloadNext]_downloadVars /\ DownloadFairness

-----------------------------------------------------------------------------
(* Properties.                                                             *)

\* A button that was pressed comes back: each file of the batch is tried in its turn,
\* whichever of them is gone from the vehicle or fails, whatever else is downloaded.
BatchEnds ==
    \A b \in Batches : []<>(progress[b] = "idle" \/ (progress[b] = "over" /\ left[b] = {}))
=============================================================================
