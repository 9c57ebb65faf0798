------------------------------- MODULE ClockSync -------------------------------
(***************************************************************************)
(* The payload's clock: the background synchronisation with the tracker's  *)
(* GPS time, the floor kept over a power cut (services/timesync.py), and   *)
(* the browsers, which offer their own time to a vehicle whose clock is    *)
(* wrong by years (App.vue).                                               *)
(*                                                                         *)
(* Times are counted from the true time, in units longer than the drift    *)
(* that is tolerated and than the age at which a message is stale.  A      *)
(* clock at -Years is not of a sane year.  GPS_INPUT and SYSTEM_TIME are   *)
(* heard together; a tracker without a fix sends a time that is not sane.  *)
(* A browser has one request on its way at a time.                         *)
(***************************************************************************)
EXTENDS Integers

CONSTANTS
    Years,       \* more than any other error
    Oldest,      \* ages of a message beyond this are not told apart
    Browsers,    \* each by the error of its clock
    MaxBoots     \* bound on restarts and power cuts

ASSUME ClockAssumption ==
    Years \in Nat /\ Oldest \in 0..(Years - 1) /\ Browsers \subseteq (1 - Years)..(Years - 1)
    /\ MaxBoots \in Nat

Error == -Years..Years

VARIABLES
    skew,        \* the system clock
    age, fix,    \* of the cached messages of the tracker
    shift,       \* how far the clock was stepped since they came
    synced,      \* _synced
    source,      \* _source
    floor,       \* last_good_utc of the state file; -Years also if there is none
    sync,        \* where _poll_loop is
    boots,
    offers,      \* the browsers whose time is on its way
    clock_failed \* clockSyncFailed of each

sources == << synced, source >>
cache == << age, fix, shift >>
clockVars == << skew, cache, sources, floor, sync, boots, offers, clock_failed >>

ClockTypeOK ==
    /\ skew \in Error /\ age \in 0..Oldest /\ fix \in BOOLEAN /\ shift \in Int
    /\ synced \in BOOLEAN /\ source \in {"none", "floor", "browser", "gps"} /\ floor \in Error
    /\ sync \in {"asleep", "has_fix"} /\ boots \in 0..MaxBoots
    /\ offers \subseteq Browsers /\ clock_failed \in [Browsers -> BOOLEAN]

ClockInit ==
    /\ skew = -Years /\ age = Oldest /\ fix = FALSE /\ shift = 0
    /\ synced = FALSE /\ source = "none" /\ floor = -Years /\ sync = "asleep" /\ boots = 0
    /\ offers = {} /\ clock_failed = [b \in Browsers |-> FALSE]

Sane == skew > -Years

\* What is shown of the clock ages with it, what is written down does not.
Later ==
    /\ age' = IF age < Oldest THEN age + 1 ELSE age
    /\ floor' = IF floor > -Years THEN floor - 1 ELSE floor
    /\ UNCHANGED << skew, fix, shift, sources, sync, boots, offers, clock_failed >>

Hears(f) ==
    /\ age' = 0 /\ fix' = f /\ shift' = 0
    /\ UNCHANGED << skew, sources, floor, sync, boots, offers, clock_failed >>

\* _set_system_clock.
Steps(to) == skew' = to /\ shift' = shift + (to - skew)

\* _record_good_time, which also writes the floor.
RecordsGood(good, by) == synced' = TRUE /\ source' = by /\ floor' = good

-----------------------------------------------------------------------------
(* The synchronisation with the tracker.                                   *)

\* By _message_age_seconds, which compares two readings of the system clock.
Fresh == age + shift <= 0

LocksOnce ==  \* mutant: the loop rests once the clock was set
    /\ sync = "asleep" /\ ~synced /\ Fresh /\ fix
    /\ sync' = "has_fix"
    /\ UNCHANGED << skew, cache, sources, floor, boots, offers, clock_failed >>

\* _artemis_has_fresh_gps_fix.
FindsFix ==
    /\ sync = "asleep" /\ Fresh /\ fix
    /\ sync' = "has_fix"
    /\ UNCHANGED << skew, cache, sources, floor, boots, offers, clock_failed >>

\* The time of the message: as long ago as it is old.
ReadsTime(ok) ==
    /\ sync = "has_fix"
    /\ sync' = "asleep"
    /\ IF Fresh /\ fix /\ (skew = -age \/ ok)
       THEN Steps(-age) /\ RecordsGood(-age, "gps")
       ELSE UNCHANGED << skew, shift, sources, floor >>
    /\ UNCHANGED << age, fix, boots, offers, clock_failed >>

TimeLost ==
    /\ sync = "has_fix"
    /\ sync' = "asleep"
    /\ UNCHANGED << skew, cache, sources, floor, boots, offers, clock_failed >>

-----------------------------------------------------------------------------
(* The browsers.                                                           *)

\* GET: a clock that is sane is left alone.
AsksTime(b) ==
    /\ b \in Browsers \ offers
    /\ IF Sane
       THEN clock_failed' = [clock_failed EXCEPT ![b] = FALSE] /\ UNCHANGED offers
       ELSE offers' = offers \cup {b} /\ UNCHANGED clock_failed
    /\ UNCHANGED << skew, cache, sources, floor, sync, boots >>

\* try_sync_from_client; a source once set stays if there is nothing to correct.
TakesOffer(b, ok) ==
    IF b = skew
    THEN /\ RecordsGood(b, IF source = "none" THEN "browser" ELSE source)
         /\ UNCHANGED << skew, shift >>
    ELSE IF ~(source = "gps" /\ synced) /\ ok
    THEN Steps(b) /\ RecordsGood(b, "browser")
    ELSE UNCHANGED << skew, shift, sources, floor >>

\* An answer that is lost leaves the banner as it was; a refusal raises it.
OffersTime(b, ok) ==
    /\ b \in offers
    /\ offers' = offers \ {b}
    /\ TakesOffer(b, ok)
    /\ \E shown \in {clock_failed[b], ~Sane'} :
        clock_failed' = [clock_failed EXCEPT ![b] = shown]
    /\ UNCHANGED << age, fix, sync, boots >>

OfferLost(b) ==
    /\ b \in offers
    /\ offers' = offers \ {b}
    /\ \E shown \in {clock_failed[b], TRUE} :
        clock_failed' = [clock_failed EXCEPT ![b] = shown]
    /\ UNCHANGED << skew, cache, sources, floor, sync, boots >>

-----------------------------------------------------------------------------
(* Starts.                                                                 *)

\* apply_boot_floor.
Starts(from, ok) ==
    /\ boots < MaxBoots /\ boots' = boots + 1
    /\ synced' = FALSE /\ sync' = "asleep" /\ offers' = {}
    /\ IF from < floor /\ ok
       THEN skew' = floor /\ source' = "floor"
       ELSE skew' = from /\ source' = "none"
    /\ UNCHANGED << floor, clock_failed >>

RestartClock(ok) ==
    /\ Starts(skew, ok)
    /\ shift' = shift + (skew' - skew)
    /\ UNCHANGED << age, fix >>

\* The host comes up with some earlier time, and nothing has been heard.
PowerCut(from, ok) ==
    /\ from <= skew /\ Starts(from, ok)
    /\ age' = Oldest /\ fix' = FALSE /\ shift' = 0

ClockNext ==
    \/ Later
    \/ \E f \in BOOLEAN : Hears(f)
    \/ FindsFix
    \/ TimeLost
    \/ \E ok \in BOOLEAN : ReadsTime(ok) \/ RestartClock(ok)
    \/ \E b \in Browsers : AsksTime(b) \/ OfferLost(b) \/ \E ok \in BOOLEAN : OffersTime(b, ok)
    \/ \E from \in Error, ok \in BOOLEAN : PowerCut(from, ok)

ReadsSoon == age = 0 /\ fix /\ ReadsTime(TRUE)

\* Time goes on; the loop never ends, and now and then it finds the tracker heard just before,
\* and reads its time while it is as fresh.
ClockFairness == WF_clockVars(Later) /\ SF_clockVars(FindsFix) /\ SF_clockVars(ReadsSoon)

ClockSpec == ClockInit /\ [][ClockNext]_clockVars /\ ClockFairness

-----------------------------------------------------------------------------
(* Properties.                                                             *)

\* From some time on the clock is right whenever the tracker is heard with a fix, whatever
\* times browsers offer, whatever floor a start goes back to, and whatever a message whose age
\* is measured over a step of the clock did to it (services/timesync.py:22).
ClockSettles == <>[](skew = 0 \/ age > 0 \/ ~fix)
=============================================================================
