-------------------------- MODULE DiveRecordsProofs --------------------------
(***************************************************************************)
(* The dive records for any set of requests and any bounds: types, one     *)
(* open dive, nothing closed is rewritten, and the mission state agrees    *)
(* with the records.                                                       *)
(***************************************************************************)
EXTENDS DiveRecords, SequenceTheorems, WellFoundedInduction, TLAPS

USE JobAssumption, BoundAssumption DEF JobAssumption, BoundAssumption

-----------------------------------------------------------------------------
(***************************************************************************)
(* The newest of some files, and what the helpers do to a record           *)
(***************************************************************************)

\* A bounded set of naturals has a maximum, so Newest is one of the files.
LEMMA NewestIsMember ==
    ASSUME NEW n \in Nat, NEW set \in SUBSET (1 .. n)
    PROVE  /\ Newest(set) \in 0 .. n
           /\ set # {} => Newest(set) \in set
<1>1. CASE set = {}
  BY <1>1 DEF Newest
<1>2. CASE set # {}
  <2> DEFINE Bounds == {m \in Nat : \A i \in set : i <= m}
             less   == OpToRel(<, Nat)
  <2>1. n \in Bounds
    OBVIOUS
  <2>2. PICK m \in Bounds : \A b \in Bounds : ~(<<b, m>> \in less)
    <3>1. IsWellFoundedOn(less, Nat)
      BY NatLessThanWellFounded
    <3>2. Bounds \subseteq Nat /\ Bounds # {}
      BY <2>1
    <3> HIDE DEF Bounds, less
    <3> QED BY <3>1, <3>2, WFMin
  <2>3. \A b \in Bounds : ~(b < m)
    BY <2>2 DEF OpToRel
  <2>4. m \in set
    <3>1. SUFFICES ASSUME m \notin set
                   PROVE  FALSE
      OBVIOUS
    <3>2. PICK i \in set : TRUE
      BY <1>2
    <3>3. i \in 1 .. n /\ i <= m /\ i # m
      BY <3>1
    <3>4. m - 1 \in Nat
      BY <3>3
    <3>5. \A j \in set : j <= m - 1
      <4>1. TAKE j \in set
      <4>2. j \in 1 .. n /\ j <= m /\ j # m
        BY <3>1
      <4> QED BY <4>2
    <3> QED BY <2>3, <3>4, <3>5
  <2>5. \A i \in set : m >= i
    BY <2>4
  <2>6. Max(set) \in set
    BY <2>4, <2>5 DEF Max
  <2>7. Newest(set) = Max(set)
    BY <1>2 DEF Newest
  <2>8. \A i \in set : i \in 0 .. n
    OBVIOUS
  <2> HIDE DEF Bounds, less
  <2> QED BY <2>6, <2>7, <2>8
<1> QED BY <1>1, <1>2

\* What closing or annotating may do to the files: none is added or lost, a
\* terminal one keeps its status, an open one stays open or becomes terminal.
Closing(rs) ==
    /\ rs \in Seq(Records) /\ Len(rs) = Len(records)
    /\ \A i \in DOMAIN records :
          \/ rs[i].status = records[i].status
          \/ i \in Active /\ rs[i].status \in Terminal

LEMMA ActiveTypes ==
    ASSUME TypeOK
    PROVE  /\ Now \in Nat /\ Len(records) \in Nat
           /\ DOMAIN records = 1 .. Len(records)
           /\ Active \in SUBSET (1 .. Len(records))
           /\ ActiveRecord \in 0 .. Len(records)
           /\ Active # {} => ActiveRecord \in Active
<1>1. /\ Now \in Nat /\ Len(records) \in Nat
      /\ DOMAIN records = 1 .. Len(records)
  BY DEF TypeOK, Now
<1>2. Active \in SUBSET (1 .. Len(records))
  BY <1>1 DEF Active
<1> QED BY <1>1, <1>2, NewestIsMember DEF ActiveRecord

LEMMA UpdatedCloses ==
    ASSUME TypeOK, NEW s \in Terminal
    PROVE  /\ Closing(Updated(s))
           /\ \A i \in DOMAIN records :
                 i = ActiveRecord => Updated(s)[i].status = s
<1>1. \A i \in DOMAIN records : records[i] \in Records
  BY DEF TypeOK
<1>2. \A i \in DOMAIN records :
         [records[i] EXCEPT !.status = s, !.to = Now] \in Records
  BY <1>1, ActiveTypes DEF Records, Terminal
<1>3. Updated(s) \in [1 .. Len(records) -> Records]
  BY <1>1, <1>2, ActiveTypes DEF Updated
<1>4. Updated(s) \in Seq(Records) /\ Len(Updated(s)) = Len(records)
  <2> HIDE DEF Updated
  <2> QED BY <1>3, ActiveTypes
<1>5. \A i \in DOMAIN records : i = ActiveRecord => Active # {}
  BY ActiveTypes DEF ActiveRecord, Newest
<1>6. \A i \in DOMAIN records :
         Updated(s)[i].status = IF i = ActiveRecord THEN s ELSE records[i].status
  BY <1>1 DEF Updated, Records
<1> QED BY <1>4, <1>5, <1>6, ActiveTypes DEF Closing

LEMMA StaleClosedCloses ==
    ASSUME TypeOK, NEW written \in Written
    PROVE  /\ Closing(StaleClosed(written))
           /\ \A i \in DOMAIN records :
                 StaleClosed(written)[i].status # "active"
           /\ \A i \in Active : StaleClosed(written)[i].status = "completed"
<1>1. \A i \in DOMAIN records : records[i] \in Records
  BY DEF TypeOK
<1>2. written \in Nat
  <2>1. CASE Active = {}
    BY <2>1 DEF Written
  <2>2. CASE Active # {}
    <3>1. records[ActiveRecord].from \in Nat
      BY <1>1, <2>2, ActiveTypes DEF Records
    <3> QED BY <2>2, <3>1, ActiveTypes DEF Written
  <2> QED BY <2>1, <2>2
<1>3. \A i \in DOMAIN records :
         [records[i] EXCEPT !.status = "completed", !.to = written] \in Records
  BY <1>1, <1>2 DEF Records, Terminal
<1>4. StaleClosed(written) \in [1 .. Len(records) -> Records]
  BY <1>1, <1>3, ActiveTypes DEF StaleClosed
<1>5. /\ StaleClosed(written) \in Seq(Records)
      /\ Len(StaleClosed(written)) = Len(records)
  <2> HIDE DEF StaleClosed
  <2> QED BY <1>4, ActiveTypes
<1>6. \A i \in DOMAIN records : StaleClosed(written)[i].status =
         IF i \in Active THEN "completed" ELSE records[i].status
  BY <1>1 DEF StaleClosed, Records
<1> QED BY <1>5, <1>6 DEF Closing, Active, Terminal

\* Annotating changes no status.
LEMMA AnnotatedCloses ==
    ASSUME TypeOK, NEW rs, Closing(rs), NEW f, NEW s \in Nat
    PROVE  /\ Closing(Annotated(rs, f, s))
           /\ \A i \in DOMAIN records :
                 Annotated(rs, f, s)[i].status = rs[i].status
<1>1. /\ \A i \in DOMAIN rs : rs[i] \in Records
      /\ DOMAIN rs = 1 .. Len(records) /\ Len(records) \in Nat
  BY ActiveTypes DEF Closing
<1>2. \A i \in DOMAIN rs : [rs[i] EXCEPT !.stamp = s] \in Records
  BY <1>1 DEF Records
<1>3. Annotated(rs, f, s) \in [1 .. Len(records) -> Records]
  BY <1>1, <1>2 DEF Annotated
<1>4. /\ Annotated(rs, f, s) \in Seq(Records)
      /\ Len(Annotated(rs, f, s)) = Len(records)
  <2> HIDE DEF Annotated
  <2> QED BY <1>1, <1>3
<1>5. \A i \in DOMAIN rs : Annotated(rs, f, s)[i].status = rs[i].status
  BY <1>1 DEF Annotated, Records
<1> QED BY <1>1, <1>4, <1>5, ActiveTypes DEF Closing

-----------------------------------------------------------------------------
(***************************************************************************)
(* What a step does to the disk                                            *)
(***************************************************************************)

\* A file is added to files none of which is open.
Adding(status) ==
    \E rs, r :
        /\ Closing(rs) /\ \A i \in DOMAIN records : rs[i].status # "active"
        /\ \A i \in Active : rs[i].status = "completed"
        /\ r \in Records /\ r.status = status
        /\ records' = Append(rs, r)

Stays == UNCHANGED <<records, mission, torn>>

Loads ==
    /\ Adding("active") /\ torn' = FALSE
    /\ mission' = [status |-> "pending", dive |-> Len(records) + 1]

\* The open record is left closed as s.
Leaves(s) ==
    \A i \in DOMAIN records : i = ActiveRecord => records'[i].status = s

Ending ==
    /\ Closing(records') /\ UNCHANGED torn
    /\ \E s \in Terminal : mission' = Ended(s) /\ Leaves(s)

Advances ==
    /\ UNCHANGED <<records, torn>>
    /\ mission.status = "pending"
    /\ mission' = [mission EXCEPT !.status = "active"]

Heals ==
    /\ UNCHANGED <<records, torn>>
    /\ mission.status = "none" /\ Active # {}
    /\ mission' = [status |-> "active", dive |-> ActiveRecord]

Tears ==
    /\ torn' = TRUE /\ UNCHANGED mission
    /\ \/ Closing(records') /\ \E s \in Terminal : Leaves(s)
       \/ \E s \in {"garbled", "active"} : Adding(s)

Effect == Stays \/ Loads \/ Ending \/ Advances \/ Heals \/ Tears

LEMMA NewRecordType ==
    ASSUME TypeOK, NEW t \in Tasks
    PROVE  /\ NewRecord(t) \in Records /\ NewRecord(t).status = "active"
           /\ [NewRecord(t) EXCEPT !.status = "garbled"] \in Records
           /\ [NewRecord(t) EXCEPT !.status = "garbled"].status = "garbled"
<1>1. local[t].stamp \in Nat
  BY ActiveTypes DEF TypeOK
<1> QED BY <1>1 DEF NewRecord, Records

LEMMA StartEffect ==
    ASSUME TypeOK, NEW t \in Tasks,
           SendStart(t) \/ StartFails(t) \/ Started(t) \/ StartCut(t)
    PROVE  Effect
<1>1. CASE SendStart(t) \/ StartFails(t)
  BY <1>1 DEF SendStart, StartFails, Effect, Stays, disk
<1>2. CASE Started(t)
  <2>1. PICK written \in Written :
           records' = Append(StaleClosed(written), NewRecord(t))
    BY <1>2 DEF Started
  <2>2. Adding("active")
    BY <2>1, StaleClosedCloses, NewRecordType DEF Adding
  <2>3. Loads
    BY <1>2, <2>2 DEF Started, Loads, NextFile
  <2> QED BY <2>3 DEF Effect
<1>3. CASE StartCut(t)
  <2> DEFINE cut == [NewRecord(t) EXCEPT !.status = "garbled"]
  <2>1. PICK written \in Written :
           Cut({StaleClosed(written), Append(StaleClosed(written), cut),
                Append(StaleClosed(written), NewRecord(t))})
    BY <1>3 DEF StartCut
  <2>2. /\ torn' = TRUE /\ UNCHANGED mission
        /\ \/ records' = StaleClosed(written)
           \/ records' = Append(StaleClosed(written), cut)
           \/ records' = Append(StaleClosed(written), NewRecord(t))
    BY <2>1 DEF Cut
  <2>3. /\ Closing(StaleClosed(written))
        /\ \A i \in DOMAIN records :
              StaleClosed(written)[i].status # "active"
        /\ \A i \in Active : StaleClosed(written)[i].status = "completed"
    BY StaleClosedCloses
  <2>4. /\ NewRecord(t) \in Records /\ NewRecord(t).status = "active"
        /\ cut \in Records /\ cut.status = "garbled"
    BY NewRecordType
  <2> HIDE DEF cut
  <2>5. records' = StaleClosed(written) => Leaves("completed")
    BY <2>3, ActiveTypes DEF Leaves, ActiveRecord, Newest
  <2>6. Tears
    BY <2>2, <2>3, <2>4, <2>5 DEF Tears, Adding, Terminal
  <2> QED BY <2>6 DEF Effect
<1> QED BY <1>1, <1>2, <1>3

LEMMA StopEffect ==
    ASSUME TypeOK, NEW t \in Tasks,
           SendStop(t) \/ StopAnswered(t) \/ Stopped(t)
    PROVE  Effect
<1>1. CASE SendStop(t) \/ StopAnswered(t)
  BY <1>1 DEF SendStop, StopAnswered, Effect, Stays, disk
<1>2. CASE Stopped(t)
  <2>1. "cancelled" \in Terminal
    BY DEF Terminal
  <2>2. Ending
    BY <1>2, <2>1, UpdatedCloses DEF Stopped, Ending, Leaves, faults
  <2> QED BY <2>2 DEF Effect
<1> QED BY <1>1, <1>2

\* What a quiesce writes: the record closed, and its stamp.
LEMMA QuiescedCloses ==
    ASSUME TypeOK, NEW t \in Tasks
    PROVE  LET rs == Annotated(Updated("completed"), Target(t), local[t].stamp)
           IN  /\ Closing(rs)
               /\ \A i \in DOMAIN records :
                     i = ActiveRecord => rs[i].status = "completed"
<1>1. "completed" \in Terminal
  BY DEF Terminal
<1>2. local[t].stamp \in Nat
  BY ActiveTypes DEF TypeOK
<1> QED BY <1>1, <1>2, UpdatedCloses, AnnotatedCloses

LEMMA QuiesceEffect ==
    ASSUME TypeOK, NEW t \in Tasks, Quiesce(t) \/ Quiesced(t) \/ EndCut(t)
    PROVE  Effect
<1>1. CASE Quiesce(t)
  BY <1>1 DEF Quiesce, Effect, Stays, disk, faults
<1>2. CASE Quiesced(t)
  <2>1. "completed" \in Terminal
    BY DEF Terminal
  <2>2. Ending
    BY <1>2, <2>1, QuiescedCloses DEF Quiesced, Ending, Leaves, faults
  <2> QED BY <2>2 DEF Effect
<1>3. CASE EndCut(t)
  <2>1. {"completed", "cancelled"} = Terminal
    BY DEF Terminal
  <2>2. /\ torn' = TRUE /\ UNCHANGED mission
        /\ \/ \E s \in Terminal : records' = Updated(s)
           \/ records' =
                 Annotated(Updated("completed"), Target(t), local[t].stamp)
    BY <1>3, <2>1 DEF EndCut, Cut
  <2>3. Tears
    BY <2>1, <2>2, UpdatedCloses, QuiescedCloses DEF Tears, Leaves
  <2> QED BY <2>3 DEF Effect
<1> QED BY <1>1, <1>2, <1>3

LEMMA PollEffect ==
    ASSUME TypeOK, NEW t \in Tasks, NEW found \in BOOLEAN,
           PollStart(t, found) \/ PollEnd(t, found) \/ PollCut(t, found)
    PROVE  Effect
<1>1. Verdict(found) \in Terminal
  BY DEF Verdict, Terminal
<1>2. CASE PollStart(t, found)
  BY <1>2 DEF PollStart, Effect, Stays, disk, faults
<1>3. CASE PollEnd(t, found)
  <2>1. CASE Ends(found)
    <3>1. Ending
      BY <1>1, <1>3, <2>1, UpdatedCloses DEF PollEnd, Ending, Leaves, faults
    <3> QED BY <3>1 DEF Effect
  <2>2. CASE ~Ends(found)
    <3>1. UNCHANGED <<records, torn>>
      BY <1>3, <2>2 DEF PollEnd, faults
    <3>2. \/ /\ mission.status = "pending"
             /\ mission' = [mission EXCEPT !.status = "active"]
          \/ mission' = Healed(t)
      BY <1>3, <2>2 DEF PollEnd
    <3>3. Advances \/ Heals \/ Stays
      BY <3>1, <3>2 DEF Advances, Heals, Stays, Healed
    <3> QED BY <3>3 DEF Effect
  <2> QED BY <2>1, <2>2
<1>4. CASE PollCut(t, found)
  <2>1. torn' = TRUE /\ UNCHANGED mission /\ records' = Updated(Verdict(found))
    BY <1>4 DEF PollCut, Cut
  <2>2. Tears
    BY <1>1, <2>1, UpdatedCloses DEF Tears, Leaves
  <2> QED BY <2>2 DEF Effect
<1> QED BY <1>2, <1>3, <1>4

LEMMA StepEffect == TypeOK /\ [Next]_vars => Effect
<1> SUFFICES ASSUME TypeOK, [Next]_vars
             PROVE  Effect
  OBVIOUS
<1>1. CASE UNCHANGED vars
  BY <1>1 DEF vars, disk, faults, Effect, Stays
<1>2. ASSUME NEW t \in Tasks, Request(t)
      PROVE  Effect
  BY <1>2, StartEffect, StopEffect, QuiesceEffect, PollEffect DEF Request
<1>3. CASE \/ Restart \/ CooldownEnds \/ HearRecovery
           \/ Record \/ Finalized \/ Fly
  BY <1>3 DEF Restart, Forget, CooldownEnds, HearRecovery, Record, Finalized,
     Fly, disk, faults, Effect, Stays
<1> QED BY <1>1, <1>2, <1>3 DEF Next

-----------------------------------------------------------------------------
(***************************************************************************)
(* Types                                                                   *)
(***************************************************************************)

LEMMA AddingKeeps ==
    ASSUME TypeOK, NEW status, Adding(status)
    PROVE  /\ records' \in Seq(Records) /\ Len(records') = Len(records) + 1
           /\ records'[Len(records) + 1].status = status
           /\ \A i \in DOMAIN records :
                 /\ records'[i].status # "active"
                 /\ \/ records'[i].status = records[i].status
                    \/ i \in Active /\ records'[i].status \in Terminal
<1>1. PICK rs, r : /\ Closing(rs)
                   /\ \A i \in DOMAIN records : rs[i].status # "active"
                   /\ r \in Records /\ r.status = status
                   /\ records' = Append(rs, r)
  BY DEF Adding
<1>2. rs \in Seq(Records) /\ Len(rs) = Len(records)
  BY <1>1 DEF Closing
<1>3. \A i \in DOMAIN records : records'[i] = rs[i]
  BY <1>1, <1>2, ActiveTypes
<1>4. records' \in Seq(Records) /\ Len(records') = Len(records) + 1
  BY <1>1, <1>2
<1>5. records'[Len(records) + 1] = r
  BY <1>1, <1>2
<1> QED BY <1>1, <1>3, <1>4, <1>5 DEF Closing

LEMMA DiskTypes ==
    ASSUME TypeOK, Effect
    PROVE  /\ records' \in Seq(Records) /\ Len(records') \in Nat
           /\ Len(records') >= Len(records)
           /\ mission' \in Missions /\ mission'.dive <= Len(records')
<1> USE ActiveTypes
<1>1. /\ records \in Seq(Records) /\ Len(records) \in Nat
      /\ mission \in Missions /\ mission.dive <= Len(records)
      /\ mission.dive \in Nat
  BY DEF TypeOK, Missions
<1>2. CASE Stays
  BY <1>1, <1>2 DEF Stays
<1>3. CASE Loads
  <2>1. [status |-> "pending", dive |-> Len(records) + 1] \in Missions
    BY <1>1 DEF Missions
  <2>2. /\ records' \in Seq(Records) /\ Len(records') = Len(records) + 1
        /\ mission' = [status |-> "pending", dive |-> Len(records) + 1]
    BY <1>3, AddingKeeps DEF Loads
  <2> QED BY <1>1, <2>1, <2>2
<1>4. CASE Ending
  <2>1. PICK s \in Terminal : mission' = Ended(s)
    BY <1>4 DEF Ending
  <2>2. mission' \in Missions /\ mission'.dive = mission.dive
    BY <1>1, <2>1 DEF Ended, Missions
  <2>3. records' \in Seq(Records) /\ Len(records') = Len(records)
    BY <1>4 DEF Ending, Closing
  <2> QED BY <1>1, <2>2, <2>3
<1>5. CASE Advances
  <2>1. mission' \in Missions /\ mission'.dive = mission.dive
    BY <1>1, <1>5 DEF Advances, Missions
  <2> QED BY <1>1, <1>5, <2>1 DEF Advances
<1>6. CASE Heals
  <2>1. mission' \in Missions /\ mission'.dive = ActiveRecord
    BY <1>1, <1>6 DEF Heals, Missions
  <2> QED BY <1>1, <1>6, <2>1 DEF Heals
<1>7. CASE Tears
  <2>1. records' \in Seq(Records) /\ Len(records') >= Len(records)
    BY <1>1, <1>7, AddingKeeps DEF Tears, Closing
  <2>2. UNCHANGED mission
    BY <1>7 DEF Tears
  <2> QED BY <1>1, <2>1, <2>2
<1> QED BY <1>2, <1>3, <1>4, <1>5, <1>6, <1>7 DEF Effect

\* All that is not on the disk, but for what requests remember.
MemoryOK ==
    /\ START \in 0 .. 1 /\ vehicle \in Vehicle
    /\ last_known \in 0 .. 1 /\ cooling \in BOOLEAN /\ recovery_seen \in BOOLEAN
    /\ opened \in Seq(Nat) /\ stamp \in 0 .. Now
    /\ at \in [Tasks -> Places]
    /\ restarts \in Nat /\ astray \in Nat
    /\ torn \in BOOLEAN /\ overtaken \in BOOLEAN

LEMMA ForgetTypes ==
    ASSUME TypeOK, Forget, torn' \in BOOLEAN
    PROVE  MemoryOK'
<1>1. UNCHANGED <<START, vehicle, opened>>
  BY DEF Forget, device
<1>2. START' \in 0 .. 1 /\ vehicle' \in Vehicle /\ opened' \in Seq(Nat)
  BY <1>1 DEF TypeOK
<1>5. Now \in Nat /\ Now' = Now
  BY <1>1, ActiveTypes DEF Now
<1>6. last_known' \in 0 .. 1 /\ stamp' \in 0 .. Now'
  BY <1>5 DEF Forget
<1>7. cooling' \in BOOLEAN /\ recovery_seen' \in BOOLEAN
  BY DEF Forget
<1>3. at' \in [Tasks -> Places]
  BY DEF Forget, Places
<1>4. restarts' \in Nat /\ astray' \in Nat /\ overtaken' \in BOOLEAN
  BY DEF Forget, TypeOK
<1> QED BY <1>2, <1>3, <1>4, <1>6, <1>7 DEF MemoryOK

LEMMA CommandTypes ==
    ASSUME TypeOK, NEW t \in Tasks,
           \/ SendStart(t) \/ StartFails(t) \/ Started(t)
           \/ SendStop(t) \/ StopAnswered(t)
    PROVE  MemoryOK'
<1> USE ActiveTypes DEF TypeOK, MemoryOK, Goes, Astray, Places, Now,
                        device, memory, stamps, tasks, disk, faults
<1>1. CASE SendStart(t)
  BY <1>1 DEF SendStart
<1>2. CASE StartFails(t)
  BY <1>2 DEF StartFails
<1>3. CASE Started(t)
  <2>1. overtaken' \in BOOLEAN /\ torn' \in BOOLEAN
    BY <1>3 DEF Started
  <2>2. at' \in [Tasks -> Places]
    BY <1>3 DEF Started
  <2>3. /\ last_known' = 1 /\ cooling' = TRUE /\ stamp' = 0
        /\ UNCHANGED <<START, vehicle, recovery_seen, opened, restarts, astray>>
    BY <1>3 DEF Started, Known, ClearStamp
  <2> QED BY <2>1, <2>2, <2>3
<1>4. CASE SendStop(t)
  BY <1>4 DEF SendStop
<1>5. CASE StopAnswered(t)
  <2>1. last_known' \in 0 .. 1 /\ astray' \in Nat
    BY <1>5 DEF StopAnswered
  <2>4. cooling' \in BOOLEAN
    BY <1>5 DEF StopAnswered
  <2>2. at' \in [Tasks -> Places]
    BY <1>5 DEF StopAnswered
  <2>3. UNCHANGED <<START, vehicle, recovery_seen, stamp, opened, restarts, torn,
                    overtaken>>
    BY <1>5 DEF StopAnswered
  <2> QED BY <2>1, <2>2, <2>3, <2>4
<1> QED BY <1>1, <1>2, <1>3, <1>4, <1>5

LEMMA RequestTypes ==
    ASSUME TypeOK, NEW t \in Tasks, Request(t)
    PROVE  MemoryOK'
<1> USE ActiveTypes DEF TypeOK, MemoryOK, Goes, Places, Now,
                        device, memory, stamps, tasks, disk, faults
<1>1. CASE Stopped(t) \/ Quiesce(t) \/ Quiesced(t)
  BY <1>1 DEF Stopped, Quiesce, Quiesced
<1>2. ASSUME NEW found \in BOOLEAN, PollStart(t, found) \/ PollEnd(t, found)
      PROVE  MemoryOK'
  BY <1>2 DEF PollStart, PollEnd, Read
<1>3. ASSUME StartCut(t) \/ EndCut(t) \/ \E found \in BOOLEAN : PollCut(t, found)
      PROVE  MemoryOK'
  <2>1. Forget /\ torn' = TRUE
    BY <1>3 DEF StartCut, EndCut, PollCut, Cut
  <2> QED BY <2>1, ForgetTypes
<1> QED BY <1>1, <1>2, <1>3, CommandTypes DEF Request

LEMMA OtherTypes ==
    ASSUME TypeOK,
           \/ Restart \/ CooldownEnds \/ HearRecovery
           \/ Record \/ Finalized \/ Fly \/ UNCHANGED vars
    PROVE  MemoryOK'
<1>1. CASE Restart
  BY <1>1, ForgetTypes DEF Restart, TypeOK
<1> USE ActiveTypes DEF TypeOK, MemoryOK, Now, Vehicle,
                        device, memory, stamps, tasks, disk, faults, vars
<1>2. CASE CooldownEnds
  BY <1>2 DEF CooldownEnds
<1>3. CASE HearRecovery
  BY <1>3 DEF HearRecovery
<1>4. CASE Fly
  <2>1. START' \in 0 .. 1 /\ vehicle' \in Vehicle
    BY <1>4 DEF Fly
  <2> QED BY <1>4, <2>1 DEF Fly
<1>5. CASE UNCHANGED vars
  BY <1>5
<1>6. CASE Record
  <2>1. ActiveRecord \in Nat
    OBVIOUS
  <2>2. opened' \in Seq(Nat) /\ Len(opened') = Len(opened) + 1
    BY <1>6, <2>1 DEF Record
  <2> QED BY <1>6, <2>2 DEF Record
<1>7. CASE Finalized
  BY <1>7 DEF Finalized, ClearStamp
<1> QED BY <1>1, <1>2, <1>3, <1>4, <1>5, <1>6, <1>7

\* Stamps and files only grow, so what a request remembers stays in range.
LEMMA LocalTypes ==
    ASSUME TypeOK, [Next]_vars, Effect
    PROVE  local' \in
             [Tasks -> [stamp : 0 .. Now', file : 0 .. Len(records')]]
<1> USE ActiveTypes
<1>1. /\ Now \in Nat /\ Now' \in Nat /\ Now' >= Now
  <2>1. UNCHANGED opened \/ opened' = Append(opened, ActiveRecord)
    BY DEF Next, Request, SendStart, StartFails, Started, StartCut, SendStop,
       StopAnswered, Stopped, Quiesce, Quiesced, EndCut, PollStart, PollEnd,
       PollCut, Cut, Restart, Forget, CooldownEnds, HearRecovery, Record,
       Finalized, Fly, stamps, vars
  <2>2. opened \in Seq(Nat)
    BY DEF TypeOK
  <2> QED BY <2>1, <2>2 DEF Now
<1>2. /\ Len(records) \in Nat /\ Len(records') \in Nat
      /\ Len(records') >= Len(records)
  BY DiskTypes
<1>3. [stamp : 0 .. Now, file : 0 .. Len(records)]
        \subseteq [stamp : 0 .. Now', file : 0 .. Len(records')]
  BY <1>1, <1>2
<1>4. local' \in [Tasks -> [stamp : 0 .. Now, file : 0 .. Len(records)]]
  <2>1. local \in [Tasks -> [stamp : 0 .. Now, file : 0 .. Len(records)]]
    BY DEF TypeOK
  <2>2. \/ UNCHANGED local
        \/ local' = [t \in Tasks |-> Nothing]
        \/ \E t \in Tasks :
             \/ Remember(t, Now, 0) \/ Remember(t, 0, 0)
             \/ Remember(t, stamp, FindUnstamped(stamp))
    BY DEF Next, Request, SendStart, StartFails, Started, StartCut, SendStop,
       StopAnswered, Stopped, Quiesce, Quiesced, EndCut, PollStart, PollEnd,
       PollCut, Cut, Restart, Forget, CooldownEnds, HearRecovery, Record,
       Finalized, Fly, tasks, vars
  <2>3. /\ Now \in 0 .. Now /\ stamp \in 0 .. Now
        /\ FindUnstamped(stamp) \in 0 .. Len(records)
        /\ 0 \in 0 .. Now /\ 0 \in 0 .. Len(records)
    BY <1>1, <1>2, NewestIsMember DEF TypeOK, FindUnstamped
  <2> QED BY <2>1, <2>2, <2>3 DEF Remember, Nothing
<1> QED BY <1>3, <1>4

LEMMA InitTypes == Init => TypeOK
<1> SUFFICES ASSUME Init PROVE TypeOK
  OBVIOUS
<1>1. /\ Len(opened) = 0 /\ opened \in Seq(Nat)
      /\ Len(records) = 0 /\ records \in Seq(Records)
  BY DEF Init
<1>2. mission \in Missions /\ mission.dive = 0
  BY DEF Init, Missions
<1>3. at \in [Tasks -> Places]
  BY DEF Init, Places
<1>4. Nothing \in [stamp : 0 .. Now, file : 0 .. Len(records)]
  BY <1>1 DEF Nothing, Now
<1>5. local \in [Tasks -> [stamp : 0 .. Now, file : 0 .. Len(records)]]
  BY <1>4 DEF Init
<1>6. cooling \in BOOLEAN /\ recovery_seen \in BOOLEAN
      /\ torn \in BOOLEAN /\ overtaken \in BOOLEAN
  BY DEF Init
<1>7. START \in 0 .. 1 /\ last_known \in 0 .. 1 /\ stamp \in 0 .. Now
      /\ restarts \in Nat /\ astray \in Nat
  BY <1>1 DEF Init, Now
<1>8. vehicle \in Vehicle
  BY DEF Init, Vehicle
<1> QED BY <1>1, <1>2, <1>3, <1>5, <1>6, <1>7, <1>8 DEF TypeOK

LEMMA StepTypes == TypeOK /\ [Next]_vars => TypeOK'
<1> SUFFICES ASSUME TypeOK, [Next]_vars
             PROVE  TypeOK'
  OBVIOUS
<1>1. Effect
  BY StepEffect
<1>2. MemoryOK'
  BY RequestTypes, OtherTypes DEF Next
<1>3. /\ records' \in Seq(Records)
      /\ mission' \in Missions /\ mission'.dive <= Len(records')
  BY <1>1, DiskTypes
<1>4. local' \in [Tasks -> [stamp : 0 .. Now', file : 0 .. Len(records')]]
  BY <1>1, LocalTypes
<1> QED BY <1>2, <1>3, <1>4 DEF TypeOK, MemoryOK

\* Every reachable state of the backend, the disk and the vehicle's two
\* parameters is well typed; no request and no mission names a file that was
\* never written.
THEOREM RecordTypes == Spec => []TypeOK
<1>1. Init => TypeOK
  BY InitTypes
<1>2. TypeOK /\ [Next]_vars => TypeOK'
  BY StepTypes
<1> QED BY <1>1, <1>2, PTL DEF Spec

-----------------------------------------------------------------------------
(***************************************************************************)
(* The invariant                                                           *)
(***************************************************************************)

\* The mission names a file, and no file but that one is open.
NewestOpen ==
    /\ mission.status # "none" => mission.dive \in DOMAIN records
    /\ ~torn => Active \subseteq {mission.dive}

IInv == TypeOK /\ OneActive /\ MissionAgrees /\ NewestOpen

\* What is open after a step was open before it, or is the only one.
LEMMA ActiveAfter ==
    ASSUME TypeOK, TypeOK'
    PROVE  /\ Closing(records') => Active' \subseteq Active
           /\ \A s : Adding(s) => Active' \subseteq {Len(records) + 1}
<1>1. /\ DOMAIN records = 1 .. Len(records) /\ Len(records) \in Nat
      /\ DOMAIN records' = 1 .. Len(records') /\ Len(records') \in Nat
  BY DEF TypeOK
<1>2. ASSUME Closing(records')
      PROVE  Active' \subseteq Active
  BY <1>1, <1>2 DEF Closing, Active, Terminal
<1>3. ASSUME NEW s, Adding(s)
      PROVE  Active' \subseteq {Len(records) + 1}
  <2>1. /\ Len(records') = Len(records) + 1
        /\ \A i \in DOMAIN records : records'[i].status # "active"
    BY <1>3, AddingKeeps
  <2>2. ASSUME NEW i \in Active'
        PROVE  i = Len(records) + 1
    <3>1. i \in 1 .. Len(records) + 1 /\ records'[i].status = "active"
      BY <1>1, <2>1 DEF Active
    <3> QED BY <1>1, <2>1, <3>1
  <2> QED BY <2>2
<1> QED BY <1>2, <1>3

LEMMA OneActiveStep ==
    ASSUME TypeOK, TypeOK', OneActive, Effect
    PROVE  OneActive'
<1>1. UNCHANGED records \/ Closing(records') \/ \E s : Adding(s)
  BY DEF Effect, Stays, Loads, Ending, Advances, Heals, Tears
<1>2. CASE UNCHANGED records
  BY <1>2 DEF OneActive, Active
<1>3. CASE Closing(records')
  BY <1>3, ActiveAfter DEF OneActive
<1>4. ASSUME NEW s, Adding(s)
      PROVE  OneActive'
  BY <1>4, ActiveAfter DEF OneActive
<1> QED BY <1>1, <1>2, <1>3, <1>4

\* A closed file and a closed mission are left alone.
LEMMA ForwardStep ==
    ASSUME TypeOK, Effect
    PROVE  /\ \A i \in DOMAIN records :
                records[i].status \in Terminal =>
                    records'[i].status = records[i].status
           /\ mission.status \in Terminal /\ mission'.dive = mission.dive =>
                mission' = mission
<1>1. ASSUME NEW i \in DOMAIN records, records[i].status \in Terminal
      PROVE  records'[i].status = records[i].status
  <2>1. i \notin Active
    BY <1>1 DEF Active, Terminal
  <2>2. UNCHANGED records \/ Closing(records') \/ \E s : Adding(s)
    BY DEF Effect, Stays, Loads, Ending, Advances, Heals, Tears
  <2> QED BY <1>1, <2>1, <2>2, AddingKeeps DEF Closing
<1>2. ASSUME mission.status \in Terminal, mission'.dive = mission.dive
      PROVE  mission' = mission
  <2>1. ~Loads
    <3>1. mission.dive \in Nat /\ mission.dive <= Len(records)
      BY DEF TypeOK, Missions
    <3> QED BY <1>2, <3>1, ActiveTypes DEF Loads
  <2>2. ~Advances /\ ~Heals
    BY <1>2 DEF Advances, Heals, Terminal
  <2>3. Ending => UNCHANGED mission
    BY <1>2 DEF Ending, Ended, Open, Terminal
  <2> QED BY <2>1, <2>2, <2>3 DEF Effect, Stays, Tears
<1> QED BY <1>1, <1>2

LEMMA NewestOpenStep ==
    ASSUME IInv, TypeOK', Effect
    PROVE  NewestOpen'
<1> USE DEF IInv
<1>1. /\ DOMAIN records = 1 .. Len(records) /\ Len(records) \in Nat
      /\ DOMAIN records' = 1 .. Len(records') /\ Len(records') \in Nat
      /\ Len(records') >= Len(records)
  BY DiskTypes DEF TypeOK
<1>2. CASE Stays
  BY <1>1, <1>2 DEF Stays, NewestOpen, Active
<1>3. CASE Loads
  <2>1. Adding("active") /\ mission'.dive = Len(records) + 1
    BY <1>3 DEF Loads
  <2>2. Len(records') = Len(records) + 1
    BY <2>1, AddingKeeps
  <2>3. Active' \subseteq {Len(records) + 1}
    BY <2>1, ActiveAfter
  <2>4. Len(records) + 1 \in DOMAIN records'
    BY <1>1, <2>2
  <2> QED BY <2>1, <2>3, <2>4 DEF NewestOpen
<1>4. CASE Ending
  <2>1. \E s \in Terminal : mission' = Ended(s)
    BY <1>4 DEF Ending
  <2>2. /\ mission'.dive = mission.dive
        /\ mission'.status # "none" => mission.status # "none"
    BY <2>1 DEF Ended, Open, TypeOK, Missions
  <2>3. UNCHANGED torn /\ Closing(records')
    BY <1>4 DEF Ending
  <2> QED BY <1>1, <2>2, <2>3, ActiveAfter DEF NewestOpen
<1>5. CASE Advances
  <2>1. mission'.dive = mission.dive /\ mission.status # "none"
    BY <1>5 DEF Advances, TypeOK, Missions
  <2> QED BY <1>5, <2>1 DEF Advances, NewestOpen, Active
<1>6. CASE Heals
  <2>1. mission'.dive = ActiveRecord /\ ActiveRecord \in Active
    BY <1>6, ActiveTypes DEF Heals
  <2>2. Active \subseteq {ActiveRecord}
    BY <2>1 DEF OneActive
  <2> QED BY <1>6, <2>1, <2>2 DEF Heals, NewestOpen, Active
<1>7. CASE Tears
  BY <1>1, <1>7 DEF Tears, NewestOpen
<1> QED BY <1>2, <1>3, <1>4, <1>5, <1>6, <1>7 DEF Effect

\* A poll, a stop or a quiesce closes the open record and the mission alike,
\* since the record that is open is the one the mission names.
LEMMA EndingAgrees ==
    ASSUME IInv, TypeOK', Ending, ~torn
    PROVE  MissionAgrees'
<1> USE DEF IInv
<1>1. /\ DOMAIN records = 1 .. Len(records) /\ Len(records) \in Nat
      /\ Len(records') = Len(records) /\ records' \in Seq(Records)
  BY DEF TypeOK, Ending, Closing
<1>2. PICK s \in Terminal :
         /\ mission' = Ended(s)
         /\ \A i \in DOMAIN records :
               i = ActiveRecord => records'[i].status = s
  BY DEF Ending, Leaves
<1>3. CASE Open
  <2>1. mission' = [status |-> s, dive |-> mission.dive]
    BY <1>2, <1>3 DEF Ended, TypeOK, Missions
  <2>2. mission.dive \in Active
    BY <1>3 DEF Open, NewestOpen, MissionAgrees, Active
  <2>3. mission.dive = ActiveRecord
    BY <2>2, ActiveTypes DEF OneActive
  <2>4. records'[mission.dive].status = s
    BY <1>2, <2>2, <2>3 DEF Active
  <2>5. s # "none" /\ s # "pending" /\ s # "active"
    BY DEF Terminal
  <2> QED BY <1>1, <2>1, <2>4, <2>5 DEF MissionAgrees, Open
<1>4. CASE ~Open
  <2>1. UNCHANGED mission
    BY <1>2, <1>4 DEF Ended
  <2>2. mission.status \in Terminal =>
           records'[mission.dive].status = mission.status
    BY ForwardStep DEF Effect, MissionAgrees, NewestOpen, Terminal
  <2>3. mission.status = "none" => Len(records') = 0
    BY <1>1 DEF MissionAgrees
  <2>4. mission.dive = Len(records')
    BY <1>1 DEF MissionAgrees
  <2> QED BY <1>4, <2>1, <2>2, <2>3, <2>4 DEF MissionAgrees, Open
<1> QED BY <1>3, <1>4

LEMMA MissionAgreesStep ==
    ASSUME IInv, TypeOK', Effect
    PROVE  MissionAgrees'
<1> USE DEF IInv
<1>1. SUFFICES ASSUME ~torn'
               PROVE  MissionAgrees'
  BY DEF MissionAgrees
<1>2. CASE Stays
  BY <1>1, <1>2 DEF Stays, MissionAgrees, Open
<1>3. CASE Loads
  <2>1. /\ Len(records') = Len(records) + 1
        /\ records'[Len(records) + 1].status = "active"
    BY <1>3, AddingKeeps DEF Loads
  <2> QED BY <1>3, <2>1 DEF Loads, MissionAgrees, Open, Terminal
<1>4. CASE Ending
  BY <1>1, <1>4, EndingAgrees DEF Ending
<1>5. CASE Advances
  <2>1. mission' = [status |-> "active", dive |-> mission.dive]
    BY <1>5 DEF Advances, TypeOK, Missions
  <2> QED BY <1>1, <1>5, <2>1 DEF Advances, MissionAgrees, Open, Terminal
<1>6. CASE Heals
  BY <1>1, <1>6, ActiveTypes DEF Heals, MissionAgrees
<1>7. CASE Tears
  BY <1>1, <1>7 DEF Tears
<1> QED BY <1>2, <1>3, <1>4, <1>5, <1>6, <1>7 DEF Effect

LEMMA InitInvariant == Init => IInv
<1> SUFFICES ASSUME Init PROVE IInv
  OBVIOUS
<1>1. Active = {}
  BY DEF Init, Active
<1>2. mission.status = "none" /\ mission.dive = 0 /\ Len(records) = 0
  BY DEF Init
<1> QED BY <1>1, <1>2, InitTypes
       DEF IInv, OneActive, MissionAgrees, NewestOpen, Open, Terminal

LEMMA StepInvariant == IInv /\ [Next]_vars => IInv'
<1> SUFFICES ASSUME IInv, [Next]_vars
             PROVE  IInv'
  OBVIOUS
<1>1. TypeOK' /\ Effect
  BY StepTypes, StepEffect DEF IInv
<1> QED BY <1>1, OneActiveStep, NewestOpenStep, MissionAgreesStep DEF IInv

\* The inductive invariant that the results about the records follow from.
THEOREM RecordsInvariant == Spec => []IInv
<1>1. Init => IInv
  BY InitInvariant
<1>2. IInv /\ [Next]_vars => IInv'
  BY StepInvariant
<1> QED BY <1>1, <1>2, PTL DEF Spec

-----------------------------------------------------------------------------

\* At most one record is ever active, whatever crashes: a start closes the old
\* ones before it writes its own (routes/dive.py:304).
THEOREM OneDiveOpen == Spec => []OneActive
<1>1. IInv => OneActive
  BY DEF IInv
<1> QED BY <1>1, RecordsInvariant, PTL

\* Record and mission state tell the same of the newest dive, unless a crash
\* fell between their writes.
THEOREM RecordsAgree == Spec => []MissionAgrees
<1>1. IInv => MissionAgrees
  BY DEF IInv
<1> QED BY <1>1, RecordsInvariant, PTL

\* No request rewrites what another one has closed.
THEOREM ClosedForGood == Spec => ForwardOnly
<1>1. TypeOK /\ [Next]_vars =>
         [/\ \A i \in DOMAIN records :
                records[i].status \in Terminal =>
                    records'[i].status = records[i].status
          /\ mission.status \in Terminal /\ mission'.dive = mission.dive =>
                mission' = mission]_vars
  BY StepEffect, ForwardStep
<1> QED BY <1>1, RecordTypes, PTL DEF Spec, ForwardOnly

-----------------------------------------------------------------------------
(***************************************************************************)
(* Stamps                                                                  *)
(***************************************************************************)

\* What is known of a stamp in memory: it was allocated for the open record,
\* and for the one, if any, that was open at its time.
BelongsTo(s) ==
    /\ Active # {} => opened[s] = ActiveRecord
    /\ \A i \in DOMAIN records :
          records[i].status \in Terminal /\ Within(i, s) => opened[s] = i

\* What a quiesce remembers still belongs together.
Held(t) ==
    local[t].stamp > 0 =>
        /\ Active # {} => opened[local[t].stamp] = ActiveRecord
        /\ local[t].file > 0 => opened[local[t].stamp] = local[t].file

Stamped ==
    /\ \A i \in DOMAIN records :
          records[i].to <= Now /\ records[i].stamp <= Now
    /\ stamp > 0 => BelongsTo(stamp)
    /\ ~overtaken => \A t \in Tasks :
                        Job[t] = "quiesce" /\ at[t] = "flush" => Held(t)
    /\ StampBelongs

\* A step in which no stamp is allocated and no quiesce begins.
Keeps ==
    /\ UNCHANGED opened /\ stamp' \in {stamp, 0}
    /\ overtaken => overtaken'
    /\ \A t \in Tasks :
          Job[t] = "quiesce" /\ at'[t] = "flush" =>
              at[t] = "flush" /\ local'[t] = local[t]

\* Closing with times and stamps: what closes now was open until now, and a
\* stamp that is added is right.
Shuts(rs) ==
    /\ Closing(rs)
    /\ \A i \in DOMAIN records :
          /\ rs[i].from = records[i].from
          /\ rs[i].to <= Now /\ rs[i].stamp <= Now
          /\ \/ rs[i].to = records[i].to /\ rs[i].status = records[i].status
             \/ i \in Active
          /\ \/ rs[i].stamp = records[i].stamp
             \/ ~overtaken => opened[rs[i].stamp] = i

LEMMA ActiveStays ==
    ASSUME TypeOK, TypeOK', OneActive, Closing(records'), Active' # {}
    PROVE  Active # {} /\ ActiveRecord' = ActiveRecord
<1>1. Active' \in SUBSET (1 .. Len(records')) /\ Len(records') \in Nat
  BY DEF TypeOK, Active
<1>2. ActiveRecord' \in Active'
  BY <1>1, NewestIsMember DEF ActiveRecord
<1>3. Active' \subseteq Active
  BY ActiveAfter
<1> QED BY <1>2, <1>3, ActiveTypes DEF OneActive

LEMMA ShutsStamped ==
    ASSUME TypeOK, TypeOK', OneActive, Stamped, Keeps, Shuts(records')
    PROVE  Stamped'
<1>1. /\ DOMAIN records' = DOMAIN records
      /\ DOMAIN records = 1 .. Len(records) /\ Len(records) \in Nat
      /\ Closing(records') /\ UNCHANGED opened /\ Now' = Now
      /\ stamp \in Nat /\ stamp' \in {stamp, 0}
      /\ overtaken => overtaken'
  BY ActiveTypes DEF TypeOK, Shuts, Closing, Keeps, Now
<1>2. \A i \in DOMAIN records' :
         records'[i].to <= Now' /\ records'[i].stamp <= Now'
  BY <1>1 DEF Shuts
<1>3. ASSUME stamp' > 0
      PROVE  BelongsTo(stamp)'
  <2>1. stamp' = stamp /\ BelongsTo(stamp)
    BY <1>1, <1>3 DEF Stamped
  <2>2. Active' # {} => opened'[stamp'] = ActiveRecord'
    BY <1>1, <2>1, ActiveStays DEF BelongsTo
  <2>3. ASSUME NEW i \in DOMAIN records', records'[i].status \in Terminal,
               Within(i, stamp)'
        PROVE  opened'[stamp'] = i
    <3>1. CASE i \in Active
      <4>1. ActiveRecord = i
        BY <3>1, ActiveTypes DEF OneActive
      <4> QED BY <1>1, <2>1, <3>1, <4>1 DEF BelongsTo
    <3>2. CASE i \notin Active
      <4>1. /\ records'[i].from = records[i].from
            /\ records'[i].to = records[i].to
            /\ records'[i].status = records[i].status
        BY <1>1, <3>2 DEF Shuts
      <4>2. Within(i, stamp)
        BY <2>1, <2>3, <4>1 DEF Within
      <4> QED BY <1>1, <2>1, <2>3, <4>1, <4>2 DEF BelongsTo
    <3> QED BY <3>1, <3>2
  <2> QED BY <2>2, <2>3 DEF BelongsTo
<1>4. ASSUME ~overtaken', NEW t \in Tasks,
             Job[t] = "quiesce", at'[t] = "flush"
      PROVE  Held(t)'
  <2>1. /\ local'[t] = local[t] /\ Held(t)
    BY <1>1, <1>4 DEF Keeps, Stamped
  <2> QED BY <1>1, <2>1, ActiveStays DEF Held
<1>5. StampBelongs'
  <2> SUFFICES ASSUME ~overtaken', NEW i \in DOMAIN records',
                      records'[i].stamp > 0
               PROVE  opened'[records'[i].stamp] = i
    BY DEF StampBelongs
  <2> QED BY <1>1 DEF Stamped, StampBelongs, Shuts
<1> QED BY <1>2, <1>3, <1>4, <1>5 DEF Stamped

\* After a start no stamp is in memory, and a quiesce under way is overtaken.
LEMMA AddingStamped ==
    ASSUME TypeOK, TypeOK', Stamped, UNCHANGED opened, stamp' = 0,
           overtaken => overtaken',
           ~overtaken' =>
               \A t \in Tasks : Job[t] = "quiesce" => at'[t] # "flush",
           NEW rs, Shuts(rs),
           NEW r \in Records, r.stamp = 0, r.to <= Now,
           records' = Append(rs, r)
    PROVE  Stamped'
<1>1. /\ rs \in Seq(Records) /\ Len(rs) = Len(records)
      /\ Len(records) \in Nat /\ DOMAIN records = 1 .. Len(records)
  BY ActiveTypes DEF Shuts, Closing
<1>2. /\ DOMAIN records' = 1 .. Len(records) + 1
      /\ \A i \in DOMAIN records : records'[i] = rs[i]
      /\ records'[Len(records) + 1] = r
  BY <1>1
<1>3. \A i \in DOMAIN records' : i \in DOMAIN records \/ i = Len(records) + 1
  BY <1>1, <1>2
<1>4. \A i \in DOMAIN records' :
         records'[i].to <= Now' /\ records'[i].stamp <= Now'
  <2>1. Now' = Now /\ Now \in Nat
    BY ActiveTypes DEF Now
  <2> QED BY <1>2, <1>3, <2>1 DEF Shuts
<1>5. StampBelongs'
  <2> SUFFICES ASSUME ~overtaken', NEW i \in DOMAIN records',
                      records'[i].stamp > 0
               PROVE  opened'[records'[i].stamp] = i
    BY DEF StampBelongs
  <2>1. i \in DOMAIN records
    BY <1>2, <1>3
  <2> QED BY <1>2, <2>1 DEF Stamped, StampBelongs, Shuts
<1> QED BY <1>4, <1>5 DEF Stamped

LEMMA UnchangedShuts ==
    ASSUME TypeOK, Stamped
    PROVE  Shuts(records)
BY DEF TypeOK, Stamped, Shuts, Closing

LEMMA UpdatedShuts ==
    ASSUME TypeOK, Stamped, NEW s \in Terminal
    PROVE  Shuts(Updated(s))
<1>1. Closing(Updated(s))
  BY UpdatedCloses
<1>2. \A i \in DOMAIN records :
         /\ records[i] \in Records
         /\ records[i].to <= Now /\ records[i].stamp <= Now
  BY DEF TypeOK, Stamped
<1>3. \A i \in DOMAIN records :
         Updated(s)[i] = IF i = ActiveRecord
                         THEN [records[i] EXCEPT !.status = s, !.to = Now]
                         ELSE records[i]
  BY DEF Updated
<1>4. ASSUME NEW i \in DOMAIN records
      PROVE  /\ Updated(s)[i].from = records[i].from
             /\ Updated(s)[i].stamp = records[i].stamp
             /\ Updated(s)[i].to <= Now
             /\ \/ /\ Updated(s)[i].to = records[i].to
                   /\ Updated(s)[i].status = records[i].status
                \/ i \in Active
  <2>1. CASE i = ActiveRecord
    <3>1. Updated(s)[i] = [records[i] EXCEPT !.status = s, !.to = Now]
      BY <1>3, <2>1
    <3>2. i \in Active
      BY <2>1, ActiveTypes DEF ActiveRecord, Newest
    <3> HIDE DEF Updated
    <3> QED BY <1>2, <3>1, <3>2, ActiveTypes DEF Records
  <2>2. CASE i # ActiveRecord
    BY <1>2, <1>3, <2>2
  <2> QED BY <2>1, <2>2
<1> QED BY <1>1, <1>2, <1>4 DEF Shuts

LEMMA StaleClosedShuts ==
    ASSUME TypeOK, Stamped, NEW written \in Written
    PROVE  Shuts(StaleClosed(written))
<1>1. Closing(StaleClosed(written))
  BY StaleClosedCloses
<1>2. \A i \in DOMAIN records :
         /\ records[i] \in Records
         /\ records[i].to <= Now /\ records[i].stamp <= Now
  BY DEF TypeOK, Stamped
<1>3. Active # {} => written <= Now /\ written \in Nat
  <2> SUFFICES ASSUME Active # {}
               PROVE  written <= Now /\ written \in Nat
    OBVIOUS
  <2>1. records[ActiveRecord].from \in Nat
    BY <1>2, ActiveTypes DEF Records
  <2> QED BY <2>1, ActiveTypes DEF Written
<1>4. \A i \in DOMAIN records :
         StaleClosed(written)[i] =
             IF i \in Active
             THEN [records[i] EXCEPT !.status = "completed", !.to = written]
             ELSE records[i]
  BY DEF StaleClosed
<1>5. ASSUME NEW i \in DOMAIN records
      PROVE  /\ StaleClosed(written)[i].from = records[i].from
             /\ StaleClosed(written)[i].stamp = records[i].stamp
             /\ StaleClosed(written)[i].to <= Now
             /\ \/ /\ StaleClosed(written)[i].to = records[i].to
                   /\ StaleClosed(written)[i].status = records[i].status
                \/ i \in Active
  <2> HIDE DEF StaleClosed
  <2>1. CASE i \in Active
    BY <1>2, <1>3, <1>4, <2>1 DEF Records
  <2>2. CASE i \notin Active
    BY <1>2, <1>4, <2>2
  <2> QED BY <2>1, <2>2
<1> QED BY <1>1, <1>2, <1>5 DEF Shuts

\* The stamp a quiesce writes is the target's own.
LEMMA QuiescedShuts ==
    ASSUME TypeOK, Stamped, NEW t \in Tasks,
           Job[t] = "quiesce", at[t] = "flush"
    PROVE  Shuts(Annotated(Updated("completed"), Target(t), local[t].stamp))
<1> DEFINE rs == Updated("completed")
           an == Annotated(rs, Target(t), local[t].stamp)
<1>1. "completed" \in Terminal
  BY DEF Terminal
<1>2. Shuts(rs)
  BY <1>1, UpdatedShuts
<1>3. local[t].stamp \in Nat /\ local[t].file \in Nat
  BY ActiveTypes DEF TypeOK
<1>4. Closing(an) /\ Closing(rs)
  BY <1>2, <1>3, AnnotatedCloses DEF Shuts
<1>5. /\ DOMAIN rs = DOMAIN records
      /\ \A i \in DOMAIN records : rs[i] \in Records
  BY <1>4, ActiveTypes DEF Closing
<1>6. \A i \in DOMAIN records :
         an[i] = IF i = Target(t) /\ local[t].stamp > 0
                 THEN [rs[i] EXCEPT !.stamp = local[t].stamp] ELSE rs[i]
  BY <1>5 DEF Annotated
<1> HIDE DEF rs, an
<1>7. ASSUME NEW i \in DOMAIN records
      PROVE  /\ an[i].from = rs[i].from /\ an[i].to = rs[i].to
             /\ an[i].status = rs[i].status
             /\ \/ an[i].stamp = rs[i].stamp
                \/ /\ i = Target(t) /\ local[t].stamp > 0
                   /\ an[i].stamp = local[t].stamp
  <2>1. CASE i = Target(t) /\ local[t].stamp > 0
    <3>1. an[i] = [rs[i] EXCEPT !.stamp = local[t].stamp]
      BY <1>6, <2>1
    <3> QED BY <1>5, <2>1, <3>1 DEF Records
  <2>2. CASE ~(i = Target(t) /\ local[t].stamp > 0)
    <3>1. an[i] = rs[i]
      BY <1>6, <2>2
    <3> QED BY <3>1
  <2> QED BY <2>1, <2>2
<1>8. ASSUME NEW i \in DOMAIN records, i = Target(t), local[t].stamp > 0,
             ~overtaken
      PROVE  opened[local[t].stamp] = i
  <2>1. Held(t) /\ i > 0
    BY <1>8, ActiveTypes DEF Stamped
  <2> QED BY <1>8, <2>1 DEF Held, Target
<1>9. ASSUME NEW i \in DOMAIN records
      PROVE  /\ an[i].stamp <= Now
             /\ \/ an[i].stamp = records[i].stamp
                \/ ~overtaken => opened[an[i].stamp] = i
  <2>3. local[t].stamp <= Now
    BY ActiveTypes DEF TypeOK
  <2>1. CASE an[i].stamp = rs[i].stamp
    BY <1>2, <2>1 DEF Shuts
  <2>2. CASE /\ i = Target(t) /\ local[t].stamp > 0
             /\ an[i].stamp = local[t].stamp
    BY <1>8, <2>2, <2>3
  <2> QED BY <1>7, <2>1, <2>2
<1>10. Shuts(an)
  BY <1>2, <1>4, <1>7, <1>9 DEF Shuts
<1> QED BY <1>10 DEF an, rs

LEMMA RecordStamped ==
    ASSUME TypeOK, TypeOK', OneActive, Stamped, Record
    PROVE  Stamped'
<1>1. /\ stamp' = Now + 1 /\ opened' = Append(opened, ActiveRecord)
      /\ UNCHANGED <<records, overtaken, at, local>>
      /\ opened \in Seq(Nat) /\ Now = Len(opened) /\ ActiveRecord \in Nat
  BY ActiveTypes DEF Record, TypeOK, tasks, disk, faults, Now
<1>2. /\ Now' = Now + 1 /\ Now \in Nat
      /\ opened'[stamp'] = ActiveRecord
      /\ \A s \in 1 .. Now : opened'[s] = opened[s]
  BY <1>1 DEF Now
<1>3. Active' = Active /\ ActiveRecord' = ActiveRecord
  BY <1>1 DEF Active, ActiveRecord
<1>4. \A i \in DOMAIN records :
         /\ records[i].to \in Nat /\ records[i].to <= Now
         /\ records[i].stamp \in Nat /\ records[i].stamp <= Now
  <2>1. \A i \in DOMAIN records : records[i] \in Records
    BY DEF TypeOK
  <2> QED BY <2>1 DEF Stamped, Records
<1>5. \A i \in DOMAIN records' :
         records'[i].to <= Now' /\ records'[i].stamp <= Now'
  BY <1>1, <1>2, <1>4
<1>6. BelongsTo(stamp)'
  <2>1. \A i \in DOMAIN records : ~(stamp' <= records[i].to)
    BY <1>1, <1>2, <1>4
  <2> QED BY <1>1, <1>2, <1>3, <2>1 DEF BelongsTo, Within
<1>7. ASSUME ~overtaken', NEW t \in Tasks,
             Job[t] = "quiesce", at'[t] = "flush"
      PROVE  Held(t)'
  <2>1. Held(t) /\ local[t].stamp \in 0 .. Now
    BY <1>1, <1>7 DEF Stamped, TypeOK
  <2> QED BY <1>1, <1>2, <1>3, <2>1 DEF Held
<1>8. StampBelongs'
  <2> SUFFICES ASSUME ~overtaken', NEW i \in DOMAIN records',
                      records'[i].stamp > 0
               PROVE  opened'[records'[i].stamp] = i
    BY DEF StampBelongs
  <2>1. opened[records[i].stamp] = i
    BY <1>1 DEF Stamped, StampBelongs
  <2>2. records[i].stamp \in 1 .. Now
    BY <1>1, <1>2, <1>4
  <2> QED BY <1>1, <1>2, <2>1, <2>2
<1> QED BY <1>5, <1>6, <1>7, <1>8 DEF Stamped

\* A quiesce begins with the stamp in memory and the dive it belongs to.
LEMMA QuiesceStamped ==
    ASSUME TypeOK, Stamped, NEW t \in Tasks, Quiesce(t)
    PROVE  Stamped'
<1>1. /\ UNCHANGED <<stamp, opened, records, overtaken>>
      /\ at' = [at EXCEPT ![t] = "flush"]
      /\ local' = [local EXCEPT ![t] =
                      [stamp |-> stamp, file |-> FindUnstamped(stamp)]]
  BY DEF Quiesce, Goes, Remember, stamps, disk, faults
<1>2. Now' = Now /\ Active' = Active /\ ActiveRecord' = ActiveRecord
  BY <1>1 DEF Now, Active, ActiveRecord
<1>3. BelongsTo(stamp)' <=> BelongsTo(stamp)
  BY <1>1, <1>2 DEF BelongsTo, Within
<1>4. stamp > 0 /\ FindUnstamped(stamp) > 0 =>
         opened[stamp] = FindUnstamped(stamp)
  <2> DEFINE found == {i \in DOMAIN records :
                         /\ stamp > 0 /\ records[i].status \in Terminal
                         /\ records[i].stamp = 0 /\ Within(i, stamp)}
  <2>1. FindUnstamped(stamp) = Newest(found)
    BY DEF FindUnstamped
  <2>2. found \in SUBSET (1 .. Len(records)) /\ Len(records) \in Nat
    BY ActiveTypes
  <2>3. \A i \in found : stamp > 0 => opened[stamp] = i
    BY DEF Stamped, BelongsTo
  <2> HIDE DEF found
  <2>4. Newest(found) > 0 => Newest(found) \in found
    BY <2>2, NewestIsMember DEF Newest
  <2> QED BY <2>1, <2>3, <2>4
<1>5. ASSUME ~overtaken', NEW u \in Tasks,
             Job[u] = "quiesce", at'[u] = "flush"
      PROVE  Held(u)'
  <2>1. CASE u = t
    <3>1. local'[t].stamp = stamp /\ local'[t].file = FindUnstamped(stamp)
      BY <1>1 DEF TypeOK
    <3> QED BY <1>1, <1>2, <1>4, <2>1, <3>1 DEF Held, Stamped, BelongsTo
  <2>2. CASE u # t
    <3>1. local'[u] = local[u] /\ at[u] = "flush"
      BY <1>1, <1>5, <2>2 DEF TypeOK
    <3> QED BY <1>1, <1>2, <1>5, <3>1 DEF Held, Stamped
  <2> QED BY <2>1, <2>2
<1> QED BY <1>1, <1>2, <1>3, <1>5 DEF Stamped, StampBelongs

\* A start, whole or cut off.
LEMMA StartStamped ==
    ASSUME TypeOK, TypeOK', OneActive, Stamped, NEW t \in Tasks,
           Started(t) \/ StartCut(t)
    PROVE  Stamped'
<1> DEFINE new == NewRecord(t)
           cut == [NewRecord(t) EXCEPT !.status = "garbled"]
<1>1. PICK written \in Written :
         \/ records' = StaleClosed(written) /\ StartCut(t)
         \/ records' = Append(StaleClosed(written), cut) /\ StartCut(t)
         \/ records' = Append(StaleClosed(written), new)
  BY DEF Started, StartCut, Cut
<1>2. Shuts(StaleClosed(written))
  BY StaleClosedShuts
<1>3. /\ new \in Records /\ new.stamp = 0 /\ new.to <= Now
      /\ cut \in Records /\ cut.stamp = 0 /\ cut.to <= Now
  <2>1. local[t].stamp \in 0 .. Now /\ Now \in Nat
    BY ActiveTypes DEF TypeOK
  <2>2. new.stamp = 0 /\ new.to <= Now /\ cut.stamp = 0 /\ cut.to <= Now
    BY <2>1 DEF NewRecord
  <2> QED BY <2>2, NewRecordType
<1>4. UNCHANGED opened /\ stamp' = 0 /\ (overtaken => overtaken')
  <2>1. CASE Started(t)
    BY <2>1 DEF Started, ClearStamp
  <2>2. CASE StartCut(t)
    <3>1. Forget
      BY <2>2 DEF StartCut, Cut
    <3> QED BY <3>1 DEF Forget
  <2> QED BY <2>1, <2>2
<1>5. StartCut(t) => \A u \in Tasks : at'[u] = "idle"
  BY DEF StartCut, Cut, Forget
<1>6. Started(t) =>
         /\ at' = [at EXCEPT ![t] = "idle"]
         /\ \/ overtaken'
            \/ \A u \in Tasks : Job[u] = "quiesce" => at[u] = "idle"
  BY DEF Started, Goes
<1>7. ~overtaken' => \A u \in Tasks : Job[u] = "quiesce" => at'[u] # "flush"
  BY <1>5, <1>6 DEF TypeOK
<1> HIDE DEF new, cut
<1>8. CASE records' = StaleClosed(written) /\ StartCut(t)
  <2>1. Keeps
    BY <1>4, <1>5, <1>8 DEF Keeps
  <2> QED BY <1>2, <1>8, <2>1, ShutsStamped
<1>9. CASE \/ records' = Append(StaleClosed(written), cut)
           \/ records' = Append(StaleClosed(written), new)
  BY <1>2, <1>3, <1>4, <1>7, <1>9, AddingStamped
<1> QED BY <1>1, <1>8, <1>9

\* The other requests keep the stamps and at most close a record.
LEMMA CommandStamped ==
    ASSUME TypeOK, TypeOK', OneActive, Stamped, NEW t \in Tasks,
           \/ SendStart(t) \/ StartFails(t)
           \/ SendStop(t) \/ StopAnswered(t) \/ Stopped(t)
    PROVE  Stamped'
<1>1. Keeps
  BY DEF SendStart, StartFails, SendStop, StopAnswered, Stopped, Goes,
     Remember, Keeps, TypeOK, stamps, faults
<1>2. "cancelled" \in Terminal
  BY DEF Terminal
<1>3. Shuts(records')
  <2>1. UNCHANGED records \/ records' = Updated("cancelled")
    BY DEF SendStart, StartFails, SendStop, StopAnswered, Stopped, disk
  <2> QED BY <1>2, <2>1, UnchangedShuts, UpdatedShuts
<1> QED BY <1>1, <1>3, ShutsStamped

LEMMA PollStamped ==
    ASSUME TypeOK, TypeOK', OneActive, Stamped,
           NEW t \in Tasks, NEW found \in BOOLEAN,
           PollStart(t, found) \/ PollEnd(t, found) \/ PollCut(t, found)
    PROVE  Stamped'
<1>1. Keeps
  BY DEF PollStart, PollEnd, PollCut, Cut, Forget, Goes, Poller, Keeps,
     TypeOK, stamps, faults
<1>2. Verdict(found) \in Terminal
  BY DEF Verdict, Terminal
<1>3. Shuts(records')
  <2>1. UNCHANGED records \/ records' = Updated(Verdict(found))
    BY DEF PollStart, PollEnd, PollCut, Cut, disk
  <2> QED BY <1>2, <2>1, UnchangedShuts, UpdatedShuts
<1> QED BY <1>1, <1>3, ShutsStamped

LEMMA EndStamped ==
    ASSUME TypeOK, TypeOK', OneActive, Stamped, NEW t \in Tasks,
           Quiesced(t) \/ EndCut(t)
    PROVE  Stamped'
<1>1. Keeps
  BY DEF Quiesced, EndCut, Cut, Forget, Goes, Remember, Keeps, TypeOK, memory,
     stamps, faults
<1>2. {"completed", "cancelled"} = Terminal
  BY DEF Terminal
<1>3. \/ \E s \in Terminal : records' = Updated(s)
      \/ /\ Job[t] = "quiesce" /\ at[t] = "flush"
         /\ records' =
               Annotated(Updated("completed"), Target(t), local[t].stamp)
  BY <1>2 DEF Quiesced, EndCut, Cut, Goes
<1> QED BY <1>1, <1>3, UpdatedShuts, QuiescedShuts, ShutsStamped

LEMMA StepStamped ==
    ASSUME TypeOK, TypeOK', OneActive, Stamped, [Next]_vars
    PROVE  Stamped'
<1>1. ASSUME NEW t \in Tasks, Request(t)
      PROVE  Stamped'
  BY <1>1, StartStamped, CommandStamped, QuiesceStamped, EndStamped, PollStamped
     DEF Request
<1>2. CASE Record
  BY <1>2, RecordStamped
<1>3. CASE Restart \/ CooldownEnds \/ HearRecovery \/ Finalized \/ Fly
           \/ UNCHANGED vars
  <2>1. Keeps
    BY <1>3 DEF Restart, Forget, CooldownEnds, HearRecovery, Finalized,
       ClearStamp, Fly, Keeps, TypeOK, stamps, tasks, faults, vars
  <2>2. UNCHANGED records
    BY <1>3 DEF Restart, CooldownEnds, HearRecovery, Finalized, Fly, disk, vars
  <2> QED BY <2>1, <2>2, UnchangedShuts, ShutsStamped
<1> QED BY <1>1, <1>2, <1>3 DEF Next

\* A record gets no stamp but that of a recording made while it was open,
\* however polls, stops, quiesces and crashes fall: a closed one is found again
\* by its time window, and a start resets the recorder first.
THEOREM StampsBelong == Spec => []StampBelongs
<1>1. Init => Stamped
  BY DEF Init, Stamped, StampBelongs
<1>2. IInv /\ IInv' /\ Stamped /\ [Next]_vars => Stamped'
  BY StepStamped DEF IInv
<1>3. Stamped => StampBelongs
  BY DEF Stamped
<1> QED BY <1>1, <1>2, <1>3, RecordsInvariant, PTL DEF Spec


-----------------------------------------------------------------------------
(***************************************************************************)
(* What polling knows of START                                             *)
(***************************************************************************)

\* None of what the property excepts has happened.
Regular == restarts = 0 /\ astray = 0 /\ ~overtaken

Starting == \E t \in Tasks : Job[t] = "start" /\ at[t] = "sent"
Stopping == \E t \in Tasks : Job[t] = "stop" /\ at[t] = "sent"

\* A START that is set is known to the backend, or the request that set it is
\* still to end; a stop that awaits its answer has cleared it.
StartKnown ==
    Regular /\ START = 1 => Starting \/ (last_known = 1 /\ ~Stopping)

\* A request that neither sends nor answers a command.
Elsewhere(t) ==
    \/ Stopped(t) \/ Quiesce(t) \/ Quiesced(t)
    \/ \E found \in BOOLEAN : PollStart(t, found) \/ PollEnd(t, found)

LEMMA CutIrregular ==
    ASSUME TypeOK, NEW t \in Tasks,
           \/ StartFails(t) \/ StartCut(t) \/ EndCut(t)
           \/ \E found \in BOOLEAN : PollCut(t, found)
    PROVE  ~Regular'
<1>1. astray \in Nat /\ restarts \in Nat
  BY DEF TypeOK
<1>2. CASE StartFails(t)
  BY <1>1, <1>2 DEF StartFails, Astray, Regular
<1>3. CASE StartCut(t) \/ EndCut(t) \/ \E found \in BOOLEAN : PollCut(t, found)
  <2>1. Forget
    BY <1>3 DEF StartCut, EndCut, PollCut, Cut
  <2> QED BY <1>1, <2>1 DEF Forget, Regular
<1> QED BY <1>2, <1>3

LEMMA StartKeepsKnown ==
    ASSUME TypeOK, StartKnown, NEW t \in Tasks, SendStart(t) \/ Started(t)
    PROVE  StartKnown'
<1>1. at \in [Tasks -> Places] /\ astray \in Nat
  BY DEF TypeOK
<1>2. CASE SendStart(t)
  <2>1. Job[t] = "start" /\ at'[t] = "sent"
    BY <1>1, <1>2 DEF SendStart, Goes
  <2> QED BY <2>1 DEF StartKnown, Starting
<1>3. CASE Started(t)
  <2>1. last_known' = 1
    BY <1>3 DEF Started, Known
  <2>2. ASSUME Regular', NEW u \in Tasks, Job[u] = "stop"
        PROVE  at'[u] # "sent"
    <3>1. at[u] = "idle"
      BY <1>3, <2>2 DEF Started, Regular
    <3>2. u # t /\ at' = [at EXCEPT ![t] = "idle"]
      BY <1>3, <2>2 DEF Started, Goes
    <3> QED BY <1>1, <3>1, <3>2
  <2> QED BY <2>1, <2>2 DEF StartKnown, Stopping
<1> QED BY <1>2, <1>3

LEMMA StopKeepsKnown ==
    ASSUME TypeOK, StartKnown, NEW t \in Tasks, SendStop(t) \/ StopAnswered(t)
    PROVE  StartKnown'
<1>1. at \in [Tasks -> Places] /\ astray \in Nat
  BY DEF TypeOK
<1>2. CASE SendStop(t)
  <2>1. START' = 0 \/ astray' = astray + 1
    BY <1>2 DEF SendStop, Astray
  <2> QED BY <1>1, <2>1 DEF StartKnown, Regular
<1>3. CASE StopAnswered(t)
  <2>1. /\ Job[t] = "stop" /\ at[t] = "sent" /\ at' = [at EXCEPT ![t] = "flush"]
        /\ UNCHANGED <<START, restarts, overtaken>>
        /\ UNCHANGED astray \/ astray' = astray + 1
    BY <1>3 DEF StopAnswered, Goes, Astray, device
  <2>2. SUFFICES ASSUME Regular', START' = 1
                 PROVE  Starting'
    BY DEF StartKnown
  <2>3. Regular /\ START = 1
    BY <1>1, <2>1, <2>2 DEF Regular
  <2>4. Starting
    BY <2>1, <2>3 DEF StartKnown, Stopping
  <2>5. PICK u \in Tasks : Job[u] = "start" /\ at[u] = "sent"
    BY <2>4 DEF Starting
  <2>6. at'[u] = "sent"
    BY <1>1, <2>1, <2>5
  <2> QED BY <2>5, <2>6 DEF Starting
<1> QED BY <1>2, <1>3

LEMMA OthersKeepKnown ==
    ASSUME TypeOK, StartKnown, NEW t \in Tasks, Elsewhere(t)
    PROVE  StartKnown'
<1>1. at \in [Tasks -> Places]
  BY DEF TypeOK
<1>2. /\ \E to \in Places \ {"sent"} : at' = [at EXCEPT ![t] = to]
      /\ at[t] # "sent"
      /\ UNCHANGED <<START, restarts, astray, overtaken>>
      /\ UNCHANGED last_known \/ last_known' = START
  BY DEF Elsewhere, Stopped, Quiesce, Quiesced, PollStart, PollEnd, Goes, Read,
     Places, device, memory, faults
<1>3. \A u \in Tasks : at'[u] = "sent" <=> at[u] = "sent"
  BY <1>1, <1>2
<1>4. Starting' = Starting /\ Stopping' = Stopping
  BY <1>3 DEF Starting, Stopping
<1> QED BY <1>2, <1>4 DEF StartKnown, Regular

LEMMA StepKnown == TypeOK /\ StartKnown /\ [Next]_vars => StartKnown'
<1> SUFFICES ASSUME TypeOK, StartKnown, [Next]_vars
             PROVE  StartKnown'
  OBVIOUS
<1>1. ASSUME NEW t \in Tasks, Request(t)
      PROVE  StartKnown'
  BY <1>1, CutIrregular, StartKeepsKnown, StopKeepsKnown, OthersKeepKnown
     DEF Request, Elsewhere, StartKnown
<1>2. CASE Restart
  <2>1. restarts' = restarts + 1 /\ restarts \in Nat
    BY <1>2 DEF Restart, Forget, TypeOK
  <2> QED BY <2>1 DEF StartKnown, Regular
<1>3. CASE \/ CooldownEnds \/ HearRecovery \/ Record \/ Finalized \/ Fly
           \/ UNCHANGED vars
  <2>1. /\ UNCHANGED <<at, last_known, restarts, astray, overtaken>>
        /\ UNCHANGED START \/ START' = 0
    BY <1>3 DEF CooldownEnds, HearRecovery, Record, Finalized, Fly, device,
       memory, tasks, faults, vars
  <2> QED BY <2>1 DEF StartKnown, Regular, Starting, Stopping
<1> QED BY <1>1, <1>2, <1>3 DEF Next

\* The step by which a poll ends a mission is the end of a poll that found it
\* not active.
LEMMA EndsByPoll ==
    ASSUME TypeOK, [Next]_vars, NEW s \in Terminal, PollEnds(s)
    PROVE  last_known # 1
<1>1. PICK t \in Tasks : Poller(t) /\ at[t] = "state" /\ at'[t] = "idle"
  BY DEF PollEnds
<1>2. Open /\ mission'.status \in Terminal /\ mission.status \notin Terminal
  BY DEF PollEnds, Open, Terminal
<1>3. at \in [Tasks -> Places] /\ mission \in Missions
  BY DEF TypeOK
<1>4. mission' # mission
  BY <1>2
<1>5. ASSUME NEW u \in Tasks, Request(u)
      PROVE  \E found \in BOOLEAN : PollEnd(t, found)
  <2>1. \/ Started(u) \/ Stopped(u) \/ Quiesced(u)
        \/ \E found \in BOOLEAN : PollEnd(u, found)
    BY <1>4, <1>5 DEF Request, SendStart, StartFails, StartCut, SendStop,
       StopAnswered, Quiesce, EndCut, PollStart, PollCut, Cut, disk
  <2>2. at' = [at EXCEPT ![u] = "idle"] /\ (at[u] = "state" \/ ~Poller(u))
    BY <2>1 DEF Started, Stopped, Quiesced, PollEnd, Goes, Poller
  <2>3. u = t
    BY <1>1, <1>3, <2>2
  <2> QED BY <1>1, <2>1, <2>3 DEF Started, Stopped, Quiesced, Poller
<1>6. \E found \in BOOLEAN : PollEnd(t, found)
  BY <1>4, <1>5 DEF Next, Restart, CooldownEnds, HearRecovery, Record,
     Finalized, Fly, disk, vars
<1>7. PICK found \in BOOLEAN : PollEnd(t, found)
  BY <1>6
<1>8. Ends(found)
  <2> SUFFICES ASSUME ~Ends(found)
               PROVE  FALSE
    OBVIOUS
  <2>1. \/ mission' = [mission EXCEPT !.status = "active"]
        \/ mission' = Healed(t)
    BY <1>7 DEF PollEnd
  <2>2. CASE mission' = [mission EXCEPT !.status = "active"]
    BY <1>2, <1>3, <2>2 DEF Missions, Terminal
  <2>3. CASE mission' = Healed(t)
    BY <1>2, <1>4, <2>3 DEF Healed, Open
  <2> QED BY <2>1, <2>2, <2>3
<1> QED BY <1>8 DEF Ends, IsActive

\* A poll does not end the mission of a dive that is under way: whatever
\* parameters were not found and whether or not the cooldown is over, the
\* backend knows of a START that is set, unless it restarted, lost a command or
\* answer, or a start overtook a stop.
THEOREM PollsKeepDive == Spec => PollKeepsDive
<1>1. Init => TypeOK /\ StartKnown
  BY InitTypes DEF Init, StartKnown
<1>2. TypeOK /\ StartKnown /\ [Next]_vars => (TypeOK /\ StartKnown)'
  BY StepTypes, StepKnown
<1>3. TypeOK /\ StartKnown /\ [Next]_vars
      => [\A s \in Terminal :
            PollEnds(s) /\ restarts = 0 /\ astray = 0 /\ ~overtaken
                => ~Underway]_vars
  <2> SUFFICES ASSUME TypeOK, StartKnown, [Next]_vars, NEW s \in Terminal,
                      PollEnds(s), Regular, Underway
               PROVE  FALSE
    BY DEF Regular
  <2>1. last_known # 1
    BY EndsByPoll
  <2>2. START = 1 /\ ~Starting
    BY DEF Underway, Starting
  <2> QED BY <2>1, <2>2 DEF StartKnown
<1> QED BY <1>1, <1>2, <1>3, PTL DEF Spec, PollKeepsDive
-----------------------------------------------------------------------------
(***************************************************************************)
(* The refinement of the log                                               *)
(***************************************************************************)

\* Only the last file can be open: a new one is added to files that are closed.
LastOpen == Active \subseteq {Len(records)}

LEMMA LastOpenStep ==
    ASSUME TypeOK, TypeOK', LastOpen, Effect
    PROVE  LastOpen'
<1>1. CASE UNCHANGED records
  BY <1>1 DEF LastOpen, Active
<1>2. CASE Closing(records')
  BY <1>2, ActiveAfter DEF LastOpen, Closing
<1>3. ASSUME NEW s, Adding(s)
      PROVE  LastOpen'
  BY <1>3, ActiveAfter, AddingKeeps DEF LastOpen
<1> QED BY <1>1, <1>2, <1>3
        DEF Effect, Stays, Loads, Ending, Advances, Heals, Tears

\* The log, as the abstract module has it.
Statuses(rs) == [i \in DOMAIN rs |-> rs[i].status]
AnyStatus == {"active", "garbled", "completed", "cancelled"}

LEMMA StatusTypes ==
    ASSUME NEW rs \in Seq(Records)
    PROVE  /\ Statuses(rs) \in Seq(AnyStatus) /\ Len(Statuses(rs)) = Len(rs)
           /\ Len(rs) \in Nat /\ DOMAIN rs = 1 .. Len(rs)
           /\ \A i \in 1 .. Len(rs) : Statuses(rs)[i] = rs[i].status
<1>1. Len(rs) \in Nat /\ DOMAIN rs = 1 .. Len(rs)
  OBVIOUS
<1>2. \A i \in 1 .. Len(rs) : rs[i].status \in AnyStatus
  <2>1. \A i \in 1 .. Len(rs) : rs[i] \in Records
    BY <1>1
  <2> QED BY <2>1 DEF Records, AnyStatus, Terminal
<1>3. Statuses(rs) \in [1 .. Len(rs) -> AnyStatus]
  BY <1>1, <1>2 DEF Statuses
<1>4. \A i \in 1 .. Len(rs) : Statuses(rs)[i] = rs[i].status
  BY <1>1 DEF Statuses
<1> HIDE DEF Statuses
<1> QED BY <1>1, <1>3, <1>4

LEMMA LogActive ==
    ASSUME TypeOK, LastOpen
    PROVE  /\ Log!Active <=> Active # {}
           /\ Active # {} => ActiveRecord = Len(records)
           /\ Log!Last = Len(records)
<1>1. /\ records \in Seq(Records) /\ Len(records) \in Nat
      /\ DOMAIN records = 1 .. Len(records)
  BY DEF TypeOK
<1>2. Log!Last = Len(records)
  BY <1>1, StatusTypes DEF Log!Last, Statuses
<1>3. Log!Active <=> Len(records) > 0 /\ records[Len(records)].status = "active"
  BY <1>1, <1>2 DEF Log!Active
<1>4. Active # {} <=> Len(records) \in Active
  BY DEF LastOpen
<1> QED BY <1>1, <1>2, <1>3, <1>4, ActiveTypes DEF Active, LastOpen

\* Files of which the open one is closed as s are the closed log.
LEMMA ClosedLog ==
    ASSUME TypeOK, LastOpen, NEW s \in Terminal, NEW rs, Closing(rs),
           \A i \in Active : rs[i].status = s
    PROVE  Statuses(rs) = Log!Closed(s)
<1>1. /\ records \in Seq(Records) /\ rs \in Seq(Records)
      /\ Len(rs) = Len(records) /\ Len(records) \in Nat
      /\ DOMAIN records = 1 .. Len(records)
  BY DEF TypeOK, Closing
<1>2. /\ DOMAIN Statuses(rs) = 1 .. Len(records)
      /\ \A i \in 1 .. Len(records) :
            /\ Statuses(rs)[i] = rs[i].status
            /\ Statuses(records)[i] = records[i].status
      /\ DOMAIN Statuses(records) = 1 .. Len(records)
  BY <1>1 DEF Statuses
<1>3. Log!Closed(s) = IF Active # {} THEN [Statuses(records) EXCEPT ![Len(records)] = s]
                      ELSE Statuses(records)
  BY LogActive DEF Log!Closed, Statuses
<1>4. \A i \in 1 .. Len(records) :
         rs[i].status = IF i \in Active THEN s ELSE records[i].status
  BY <1>1 DEF Closing
<1>5. \A i \in 1 .. Len(records) : i \in Active => i = Len(records)
  BY DEF LastOpen
<1>6. Active # {} => Len(records) \in Active /\ Len(records) \in 1 .. Len(records)
  BY ActiveTypes DEF LastOpen
<1>7. CASE Active # {}
  <2>1. /\ DOMAIN Log!Closed(s) = 1 .. Len(records)
        /\ \A i \in 1 .. Len(records) :
              Log!Closed(s)[i] =
                 IF i = Len(records) THEN s ELSE records[i].status
    BY <1>2, <1>3, <1>7
  <2>2. \A i \in 1 .. Len(records) : Statuses(rs)[i] = Log!Closed(s)[i]
    BY <1>2, <1>4, <1>5, <1>6, <1>7, <2>1
  <2>3. Log!Closed(s) = [i \in 1 .. Len(records) |-> Log!Closed(s)[i]]
    BY <1>3, <1>7, <2>1
  <2>4. Statuses(rs) = [i \in 1 .. Len(records) |-> Statuses(rs)[i]]
    BY <1>2 DEF Statuses
  <2> QED BY <2>2, <2>3, <2>4
<1>8. CASE Active = {}
  <2>1. \A i \in 1 .. Len(records) : rs[i].status = records[i].status
    BY <1>4, <1>8
  <2> QED BY <1>1, <1>3, <1>8, <2>1 DEF Statuses
<1> QED BY <1>7, <1>8

\* A file added to closed ones is a dive added to the closed log.
LEMMA AddedLog ==
    ASSUME TypeOK, LastOpen, NEW status, Adding(status)
    PROVE  Statuses(records') = Append(Log!Closed("completed"), status)
<1>1. PICK rs, r : /\ Closing(rs)
                   /\ \A i \in Active : rs[i].status = "completed"
                   /\ r \in Records /\ r.status = status
                   /\ records' = Append(rs, r)
  BY DEF Adding
<1>2. "completed" \in Terminal
  BY DEF Terminal
<1>3. Statuses(rs) = Log!Closed("completed")
  BY <1>1, <1>2, ClosedLog
<1>4. rs \in Seq(Records)
  BY <1>1 DEF Closing
<1>5. Statuses(Append(rs, r)) = Append(Statuses(rs), r.status)
  <2> DEFINE n == Len(rs)
             long == Append(rs, r)
  <2>1. n \in Nat /\ long \in Seq(Records) /\ Len(long) = n + 1
    BY <1>1, <1>4
  <2>2. \A i \in 1 .. n + 1 : long[i] = IF i = n + 1 THEN r ELSE rs[i]
    BY <1>1, <1>4
  <2>3. /\ Statuses(long) \in Seq(AnyStatus) /\ Len(Statuses(long)) = n + 1
        /\ \A i \in 1 .. n + 1 : Statuses(long)[i] = long[i].status
    BY <2>1, StatusTypes
  <2>4. /\ Statuses(rs) \in Seq(AnyStatus) /\ Len(Statuses(rs)) = n
        /\ \A i \in 1 .. n : Statuses(rs)[i] = rs[i].status
    BY <1>4, StatusTypes
  <2>5. r.status \in AnyStatus
    BY <1>1 DEF Records, AnyStatus, Terminal
  <2>6. /\ Append(Statuses(rs), r.status) \in Seq(AnyStatus)
        /\ Len(Append(Statuses(rs), r.status)) = n + 1
        /\ \A i \in 1 .. n + 1 : Append(Statuses(rs), r.status)[i] =
              IF i = n + 1 THEN r.status ELSE Statuses(rs)[i]
    BY <2>1, <2>4, <2>5
  <2>7. \A i \in 1 .. n + 1 :
           Statuses(long)[i] = Append(Statuses(rs), r.status)[i]
    BY <2>1, <2>2, <2>3, <2>4, <2>6
  <2> HIDE DEF n, long
  <2>8. Statuses(long) = Append(Statuses(rs), r.status)
    BY <2>1, <2>3, <2>6, <2>7, SeqEqual
  <2> QED BY <2>8 DEF long
<1> QED BY <1>1, <1>3, <1>5

\* What ends a dive ends it in the log: in one step while the log is whole, since
\* the mission then tells of the open record.
LEMMA EndingMaps ==
    ASSUME IInv, LastOpen, Ending
    PROVE  [Log!Next]_(Log!vars)
<1>1. PICK s \in Terminal : mission' = Ended(s) /\ Leaves(s)
  BY DEF Ending
<1>2. \A i \in Active : records'[i].status = s
  BY <1>1, LogActive, ActiveTypes DEF Leaves, LastOpen, IInv
<1>3. Statuses(records') = Log!Closed(s)
  BY <1>2, ClosedLog DEF Ending, IInv
<1>4. s \in Log!Outcomes
  BY DEF Terminal, Log!Outcomes
<1>5. mission' = IF Log!Open THEN Log!Tell(s) ELSE mission
  BY <1>1 DEF Ended, Open, Log!Open, Log!Tell
<1>6. CASE torn
  <2>1. Log!EndTorn(s)
    BY <1>3, <1>5, <1>6 DEF Log!EndTorn, Ending, Statuses
  <2> QED BY <1>4, <2>1 DEF Log!Next
<1>7. CASE ~torn /\ Active # {}
  <2>1. mission.dive = Len(records) /\ records[Len(records)].status = "active"
    BY <1>7, ActiveTypes DEF IInv, MissionAgrees, LastOpen, Active
  <2>2. Open
    BY <1>7, <2>1, ActiveTypes
       DEF IInv, MissionAgrees, Open, TypeOK, Missions, Terminal
  <2>3. Log!End(s)
    BY <1>3, <1>5, <1>7, <2>1, <2>2, LogActive
       DEF Log!End, Ending, Statuses, Open, Log!Open, IInv
  <2> QED BY <1>4, <2>3 DEF Log!Next
<1>8. CASE ~torn /\ Active = {}
  <2>1. ~Open
    BY <1>8, ActiveTypes DEF IInv, MissionAgrees, NewestOpen, Open, Active
  <2>2. UNCHANGED mission
    BY <1>1, <2>1 DEF Ended
  <2>3. Statuses(records') = Statuses(records)
    BY <1>3, <1>8, LogActive DEF Log!Closed, Statuses, IInv
  <2> QED BY <2>2, <2>3 DEF Ending, Statuses, Log!vars
<1> QED BY <1>6, <1>7, <1>8

LEMMA TearsMaps ==
    ASSUME IInv, LastOpen, Tears
    PROVE  Log!Next
<1>1. ASSUME NEW s \in Terminal, Closing(records'), Leaves(s)
      PROVE  Log!Tear
  <2>1. \A i \in Active : records'[i].status = s
    BY <1>1, LogActive, ActiveTypes DEF Leaves, LastOpen, IInv
  <2>2. Statuses(records') = Log!Closed(s)
    BY <1>1, <2>1, ClosedLog DEF IInv
  <2> QED BY <2>2 DEF Log!Tear, Tears, Statuses, Terminal, Log!Outcomes
<1>2. ASSUME NEW s \in {"garbled", "active"}, Adding(s)
      PROVE  Log!Tear
  BY <1>2, AddedLog DEF Log!Tear, Tears, Statuses, IInv
<1> QED BY <1>1, <1>2 DEF Tears, Log!Next

\* A step of the requests, the pollers or a crash is a step of the log or none.
LEMMA EffectMaps ==
    ASSUME IInv, LastOpen, Effect
    PROVE  [Log!Next]_(Log!vars)
<1> USE DEF IInv
<1>1. CASE Stays
  BY <1>1 DEF Stays, Log!vars
<1>2. CASE Loads
  <2>1. Statuses(records') = Append(Log!Closed("completed"), "active")
    BY <1>2, AddedLog DEF Loads
  <2>2. Log!Start
    BY <1>2, <2>1, LogActive DEF Loads, Log!Start, Statuses
  <2> QED BY <2>2 DEF Log!Next
<1>3. CASE Ending
  BY <1>3, EndingMaps
<1>4. CASE Advances
  <2>1. Log!Reach
    BY <1>4 DEF Advances, Log!Reach, Log!Tell
  <2> QED BY <2>1 DEF Log!Next
<1>5. CASE Heals
  <2>1. torn
    BY <1>5, ActiveTypes DEF Heals, MissionAgrees
  <2>2. Log!Heal
    BY <1>5, <2>1, LogActive DEF Heals, Log!Heal
  <2> QED BY <2>2 DEF Log!Next
<1>6. CASE Tears
  BY <1>6, TearsMaps
<1> QED BY <1>1, <1>2, <1>3, <1>4, <1>5, <1>6 DEF Effect

\* The records and the mission state are a log: whichever requests, polls and
\* crashes fall together, a dive is closed once and told of in the same step.
THEOREM LogHolds == Spec => ImplementsLog
<1>1. Init => Log!Init /\ LastOpen
  BY DEF Init, Log!Init, LastOpen, Active
<1>2. IInv /\ IInv' /\ LastOpen /\ [Next]_vars => LastOpen'
  BY StepEffect, LastOpenStep DEF IInv
<1>3. IInv /\ LastOpen /\ [Next]_vars => [Log!Next]_(Log!vars)
  BY StepEffect, EffectMaps DEF IInv
<1> QED BY <1>1, <1>2, <1>3, RecordsInvariant, PTL
        DEF Spec, ImplementsLog, Log!Spec

=============================================================================
