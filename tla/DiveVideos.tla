--------------------------------- MODULE DiveVideos ---------------------------------
(***************************************************************************)
(* What the post-dive job does to the footage of a dive: the steps of      *)
(* services/dive_processing.py from the preflight to the flush,            *)
(* finalize_dive of services/dive_finalize.py and the choice of a place    *)
(* for recordings in services/usb_storage.py.                              *)
(*                                                                         *)
(* One dive, over and recorded, is processed again and again, while its    *)
(* stick is pulled and put back.  A video is named after its first         *)
(* segment and lies beside it, so files of the dive's folders are known by *)
(* their segment: made are the videos, raw the segments that are left.     *)
(*                                                                         *)
(* Simplifications:                                                        *)
(*  - a group of segments that is cut into chunks makes one video here,    *)
(*    and a file is as long as another of its name if it shows the same.   *)
(*  - ffmpeg, when it says it succeeded, has muxed all it was given.       *)
(*  - the power does not fail: what was written is on the disk.            *)
(*  - photos, logs, telemetry and the record are left out, and so are      *)
(*    dives without a stamp and files of builds before the dive's folder.  *)
(*  - /mnt itself is no mount of the stick.                                *)
(***************************************************************************)
EXTENDS Naturals, FiniteSets

CONSTANTS
    Groups,    \* the segments that make a video each, numbered in the order of their names
    Recorded,  \* the disks they may be on
    MaxJobs,   \* bound on jobs
    MaxPulls   \* bound on the times the stick is pulled

Segments == UNION Groups

\* bare: the directory the stick is mounted on, when it is not.
Disks == {"inner", "stick", "bare"}

ASSUME VideosAssumption ==
    /\ Segments \subseteq Nat /\ Recorded \subseteq Disks
    /\ MaxJobs \in Nat /\ MaxPulls \in Nat
    /\ \A g, h \in Groups : g = h \/ g \cap h = {}

Roots == {"inner", "mount"}
JobSteps == {"none", "preflight", "list", "mux", "verify", "media", "copy", "clear", "flush"}

VARIABLES
    stick,       \* in; lost: pulled, and the mount is still there; out
    disk_of,     \* the disk each segment was recorded on
    raw,         \* segments left
    made, shows, \* videos in the dive's folders, and the segments each shows
    noted,       \* disks where the dive's folder has a manifest
    bundled, copies, \* videos in the bundle on the stick, or on the bare directory
    doing,       \* the step the job is at
    dive_dir, usb, \* what the preflight found
    base,        \* _recordings_dir, as finalize_dive asked for it
    unmuxed,     \* segments it has listed and not muxed
    video_outputs, pending_deletions,
    found,       \* the videos there were to copy
    copied,
    safe,        \* safe_to_remove_usb of the last job
    stuck,       \* history: a segment could not be deleted, and a later one could
    moved,       \* history: the stick was, since the copies of the job were checked
    jobs, pulls

footage == << disk_of, raw, made, shows, noted >>
bundle == << bundled, copies >>
finalizing == << base, unmuxed, video_outputs, pending_deletions >>
context == << dive_dir, usb, finalizing, found, copied >>
videoFaults == << stuck, moved, pulls >>
videoVars == << stick, footage, bundle, doing, context, safe, jobs, videoFaults >>

VideosTypeOK ==
    /\ stick \in {"in", "lost", "out"} /\ disk_of \in [Segments -> Disks]
    /\ raw \subseteq Segments /\ made \subseteq Segments
    /\ shows \in [Segments -> SUBSET Segments] /\ noted \subseteq Disks
    /\ bundled \in [{"stick", "bare"} -> SUBSET Segments]
    /\ copies \in [{"stick", "bare"} -> [Segments -> SUBSET Segments]]
    /\ doing \in JobSteps /\ dive_dir \in Roots \cup {"none"} /\ usb \in BOOLEAN
    /\ base \in Roots /\ unmuxed \subseteq Segments
    /\ video_outputs \subseteq Segments /\ pending_deletions \subseteq Segments
    /\ found \subseteq Segments /\ copied \subseteq Segments
    /\ safe \in BOOLEAN /\ stuck \in BOOLEAN /\ moved \in BOOLEAN
    /\ jobs \in 0 .. MaxJobs /\ pulls \in 0 .. MaxPulls

Blank == [s \in Segments |-> {}]

VideosInit ==
    /\ stick \in {"in", "out"} /\ disk_of \in [Segments -> Recorded]
    /\ raw = Segments /\ made = {} /\ shows = Blank /\ noted = {}
    /\ bundled = [d \in {"stick", "bare"} |-> {}]
    /\ copies = [d \in {"stick", "bare"} |-> Blank]
    /\ doing = "none" /\ dive_dir = "none" /\ usb = FALSE /\ base = "inner"
    /\ unmuxed = {} /\ video_outputs = {} /\ pending_deletions = {} /\ found = {} /\ copied = {}
    /\ safe = FALSE /\ stuck = FALSE /\ moved = FALSE /\ jobs = 0 /\ pulls = 0

-----------------------------------------------------------------------------
(* Places.                                                                 *)

\* What lies at the mount point.
Mounted == IF stick = "in" THEN "stick" ELSE IF stick = "out" THEN "bare" ELSE "none"
Disk(root) == IF root = "mount" THEN Mounted ELSE root
On(root, files) == {f \in files : disk_of[f] = Disk(root)}

Checked == doing \in {"clear", "flush"}

\* The stick is pulled, the host drops the mount of a device that is gone, the probe mounts the
\* stick again.
StickPulled ==
    /\ stick = "in" /\ pulls < MaxPulls
    /\ stick' = "lost" /\ pulls' = pulls + 1 /\ moved' = Checked
    /\ UNCHANGED << footage, bundle, doing, context, safe, stuck, jobs >>

StickUnmounts ==
    /\ stick = "lost" /\ stick' = "out"
    /\ UNCHANGED << footage, bundle, doing, context, safe, jobs, videoFaults >>

StickMounts ==
    /\ stick = "out" /\ stick' = "in" /\ moved' = Checked
    /\ UNCHANGED << footage, bundle, doing, context, safe, stuck, jobs, pulls >>

-----------------------------------------------------------------------------
(* The job.                                                                *)

\* One at a time.
StartJob ==
    /\ doing = "none" /\ jobs < MaxJobs
    /\ doing' = "preflight" /\ jobs' = jobs + 1 /\ safe' = FALSE
    /\ UNCHANGED << stick, footage, bundle, context, videoFaults >>

\* What finalize_dive has told is not read again after the segments are released.
FinalizeForgotten ==
    base' = "inner" /\ unmuxed' = {} /\ video_outputs' = {} /\ pending_deletions' = {}

Forgotten ==
    /\ doing' = "none" /\ dive_dir' = "none" /\ usb' = FALSE /\ FinalizeForgotten
    /\ found' = {} /\ copied' = {} /\ moved' = FALSE

\* A step raises and the others are skipped, or the backend restarts.
JobBreaks ==
    /\ doing # "none" /\ Forgotten
    /\ UNCHANGED << stick, footage, bundle, safe, stuck, jobs, pulls >>

\* _resolve_dive_dir: the first root where the dive's folder holds something.
Filled(root) == Disk(root) \in noted \/ On(root, raw \cup made) # {}
Resolved(room) ==
    IF room /\ Filled("mount") THEN "mount" ELSE IF Filled("inner") THEN "inner" ELSE "none"

\* room: get_recording_dir_if_available has made a directory at the mount point and seen enough
\* room there, which comes and goes; it does not ask whether anything is mounted.
StepPreflight(room) ==
    /\ doing = "preflight"
    /\ dive_dir' = Resolved(room) /\ usb' = room /\ doing' = "list"
    /\ UNCHANGED << stick, footage, bundle, finalizing, found, copied, safe, jobs, videoFaults >>

\* finalize_dive lists the segments of one root only.
ListSegments(room) ==
    /\ doing = "list"
    /\ base' = IF room THEN "mount" ELSE "inner"
    /\ unmuxed' = On(base', raw) /\ doing' = "mux"
    /\ UNCHANGED << stick, footage, bundle, dive_dir, usb, video_outputs, pending_deletions,
                    found, copied, safe, jobs, videoFaults >>

First(n, files) == n \in files /\ \A f \in files : n <= f

\* One run of ffmpeg, on what is listed of a group; -y replaces the video of that name.
Muxing(g, n) == doing = "mux" /\ First(n, unmuxed) /\ n \in g

WriteVideo(n, what) == made' = made \cup {n} /\ shows' = [shows EXCEPT ![n] = what]

\* _consume_sources with delete_sources=False.
AllPending(g) == pending_deletions' = pending_deletions \cup (g \cap unmuxed)

Muxed(g, n) ==
    /\ Muxing(g, n) /\ disk_of[n] = Disk(base)
    /\ WriteVideo(n, g \cap unmuxed) /\ video_outputs' = video_outputs \cup {n} /\ AllPending(g)
    /\ unmuxed' = unmuxed \ g
    /\ UNCHANGED << stick, disk_of, raw, noted, bundle, doing, dive_dir, usb, base, found,
                    copied, safe, jobs, videoFaults >>

\* What is left of the video then is of no use.
MuxFails(g, n) ==
    /\ Muxing(g, n)
    /\ \/ disk_of[n] = Disk(base) /\ WriteVideo(n, {})
       \/ UNCHANGED << made, shows >>
    /\ unmuxed' = unmuxed \ g
    /\ UNCHANGED << stick, disk_of, raw, noted, bundle, doing, dive_dir, usb, base,
                    video_outputs, pending_deletions, found, copied, safe, jobs, videoFaults >>

\* The manifest, if it can be written.
Finalized ==
    /\ doing = "mux" /\ unmuxed = {}
    /\ noted' \in {noted, noted \cup ({Disk(base)} \cap Disks)}
    /\ doing' = "verify"
    /\ UNCHANGED << stick, disk_of, raw, made, shows, bundle, context, safe, jobs, videoFaults >>

\* The segments are deleted in their order, as far as it goes.
InOrder(gone) == \A s \in gone, t \in pending_deletions : t < s => t \in gone

ReleaseSegments(gone) ==
    /\ doing = "verify"
    /\ \A n \in video_outputs : n \in made /\ disk_of[n] = Disk(base)
    /\ raw' = raw \ gone /\ stuck' = (stuck \/ ~InOrder(gone))
    /\ doing' = "media"
    /\ FinalizeForgotten
    /\ UNCHANGED << stick, disk_of, made, shows, noted, bundle, dive_dir, usb, found, copied,
                    safe, moved, jobs, pulls >>

\* _step_media lists the videos of dive_dir.
ListMedia ==
    /\ doing = "media"
    /\ found' = IF usb THEN On(dive_dir, made) ELSE {}
    /\ doing' = "copy"
    /\ UNCHANGED << stick, footage, bundle, dive_dir, usb, finalizing, copied, safe, jobs,
                    videoFaults >>

\* _copy_verified, under the name the video has.
CopyVideo(n) ==
    /\ doing = "copy" /\ First(n, found \ copied)
    /\ disk_of[n] = Disk(dive_dir) /\ Mounted # "none"
    /\ bundled' = [bundled EXCEPT ![Mounted] = @ \cup {n}]
    /\ copies' = [copies EXCEPT ![Mounted][n] = shows[n]]
    /\ copied' = copied \cup {n}
    /\ UNCHANGED << stick, footage, doing, dive_dir, usb, finalizing, found, safe, jobs,
                    videoFaults >>

\* What _step_verify_usb and _bundle_has_file ask of a file.
Bundled(n) == Mounted # "none" /\ n \in bundled[Mounted] /\ copies[Mounted][n] = shows[n]

LandedAnyhow == TRUE  \* mutant: the copies are not looked at again
Landed == \A n \in copied : Bundled(n)

CheckCopies ==
    /\ doing = "copy" /\ usb /\ found = copied
    /\ Landed
    /\ doing' = "clear"
    /\ UNCHANGED << stick, footage, bundle, context, safe, jobs, videoFaults >>

\* mutant: the segments that are left are not asked about
ReleasableVideos == \A n \in On("mount", made) : Bundled(n)
\* _release_copied_working_dir: all there is must be in the bundle, where no segment ever is.
Releasable == On("mount", raw) = {} /\ \A n \in On("mount", made) : Bundled(n)

\* rmtree, as far as it gets.
ClearFolder(gone) ==
    /\ doing = "clear"
    /\ dive_dir = "mount" /\ Releasable
    /\ raw' = raw \ gone /\ made' = made \ gone
    /\ shows' = [n \in Segments |-> IF n \in gone THEN {} ELSE shows[n]]
    /\ noted' \in {noted, noted \ {Mounted}}
    /\ doing' = "flush"
    /\ UNCHANGED << stick, disk_of, bundle, context, safe, jobs, videoFaults >>

KeepFolder ==
    /\ doing = "clear" /\ ~(dive_dir = "mount" /\ Releasable)
    /\ doing' = "flush"
    /\ UNCHANGED << stick, footage, bundle, context, safe, jobs, videoFaults >>

\* The stick is said to be safe to remove.
Flush ==
    /\ doing = "flush" /\ Forgotten /\ safe' = TRUE
    /\ UNCHANGED << stick, footage, bundle, stuck, jobs, pulls >>

\* Without one the rest is skipped.
EndWithoutUsb ==
    /\ doing = "copy" /\ ~usb /\ Forgotten
    /\ UNCHANGED << stick, footage, bundle, safe, stuck, jobs, pulls >>

VideosNext ==
    \/ StickPulled \/ StickUnmounts \/ StickMounts
    \/ StartJob \/ JobBreaks
    \/ \E room \in BOOLEAN : StepPreflight(room) \/ ListSegments(room)
    \/ \E g \in Groups, n \in Segments : Muxed(g, n) \/ MuxFails(g, n)
    \/ Finalized
    \/ \E gone \in SUBSET pending_deletions : ReleaseSegments(gone)
    \/ ListMedia
    \/ \E n \in found : CopyVideo(n)
    \/ CheckCopies
    \/ \E gone \in SUBSET On("mount", raw \cup made) : ClearFolder(gone)
    \/ KeepFolder
    \/ Flush
    \/ EndWithoutUsb

VideosSpec == VideosInit /\ [][VideosNext]_videoVars

-----------------------------------------------------------------------------
(* Properties.                                                             *)

\* Whatever breaks, is pulled, fails or is done again: each segment is left, or a video shows
\* it, in a folder of the dive or in a bundle; unless a segment could not be deleted and later
\* ones could, for then a video of its name would replace the one that shows them all.
FootageKept ==
    stuck \/ \A s \in Segments :
                \/ s \in raw
                \/ \E n \in Segments : s \in shows[n] \/ s \in copies["stick"][n]
                                           \/ s \in copies["bare"][n]

\* When it is said that the stick is safe to remove, what is mounted, the stick or the bare
\* directory in its place, holds every video that was found in the dive's folder, showing what
\* that one shows, unless it was moved since its copies were checked.
SafeMeansBundled ==
    [][ safe' /\ ~safe /\ ~moved =>
          \A n \in found :
             /\ Mounted # "none"
             /\ n \in bundled[Mounted] /\ shows[n] \subseteq copies[Mounted][n] ]_videoVars
=============================================================================
