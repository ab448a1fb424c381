------------------------------- MODULE Roster -------------------------------
(***************************************************************************)
(* Who trains where: enrolment in groups of limited capacity               *)
(* (backend/src/trainees, training-groups) and the sessions and attendance *)
(* records made from the enrolments (backend/src/attendance).              *)
(*                                                                         *)
(* enroll counts the occupied places and inserts later, without a lock.    *)
(* createSession inserts the session, reads the enrolments and inserts a   *)
(* record for each in one transaction.  updateSession saves a session that *)
(* it loaded with its records: save would take the records that have come  *)
(* since for removed ones and set their session_id to NULL, which the      *)
(* column refuses.                                                         *)
(*                                                                         *)
(* Left out: ages, branches, coaches and times, which only refuse a        *)
(* request (Stop), and so does the removal of a trainee or a group, whose  *)
(* rows stay.  No endpoint changes or removes an enrolment.  Of a record   *)
(* only its existence is kept.                                             *)
(***************************************************************************)
EXTENDS Integers, FiniteSets

CONSTANTS
    Trainees,
    Groups,
    Sessions,     \* identifiers of training_sessions rows
    Requests,     \* requests that may run at the same time
    MaxCapacity   \* bound: the largest capacity of a group

ASSUME RosterAssumption ==
    IsFiniteSet(Trainees) /\ IsFiniteSet(Requests) /\ MaxCapacity \in Nat \ {0}

VARIABLES
    capacity,   \* of each training_groups row
    least, most, \* history: the capacities a group has had lie between these
    enrolment,  \* the status of each group_enrollments row
    session,    \* training_sessions: status and group
    records,    \* trainees with an attendance_records row, by session
    entitled,   \* history: who was enrolled when the session's creation began
    rivals,     \* history: enrolments of a group once about to be ACTIVE together
    req         \* where each request stands

vars == <<capacity, least, most, enrolment, session, records, entitled, rivals, req>>

Capacities == 1..MaxCapacity
Places == {"ACTIVE", "WAITLISTED"}
(* SCHEDULED also stands for IN_PROGRESS and COMPLETED, ABSENT for no row. *)
Status == {"ABSENT", "SCHEDULED", "CANCELLED", "REMOVED"}
Row == [status : Status, group : Groups]

Idle == [step |-> "idle"]
Request ==
    {Idle}
    \cup [step : {"enrol"}, trainee : Trainees, group : Groups, capacity : Capacities]
    \cup [step : {"place"}, trainee : Trainees, group : Groups, place : Places]
    \cup [step : {"create"}, session : Sessions, group : Groups, entitled : SUBSET Trainees,
          roster : {"yes", "no"}]
    \cup [step : {"fill"}, session : Sessions, group : Groups, entitled : SUBSET Trainees,
          who : SUBSET Trainees]
    \cup [step : {"edit"}, session : Sessions, row : Row, known : SUBSET Trainees]
    \cup [step : {"mark"}, session : Sessions, who : SUBSET Trainees]
    \cup [step : {"save"}, session : Sessions, who : SUBSET Trainees, known : SUBSET Trainees]

Init ==
    /\ capacity \in [Groups -> Capacities]
    /\ least = capacity /\ most = capacity
    /\ enrolment = [g \in Groups |-> [t \in Trainees |-> "NONE"]]
    /\ session \in [Sessions -> [status : {"ABSENT"}, group : Groups]]
    /\ records = [s \in Sessions |-> {}]
    /\ entitled = [s \in Sessions |-> {}]
    /\ rivals = [g \in Groups |-> 0]
    /\ req = [q \in Requests |-> Idle]

-----------------------------------------------------------------------------
Active(g) == {t \in Trainees : enrolment[g][t] = "ACTIVE"}

(* ACTIVE or PAUSED: nothing pauses an enrolment. *)
Occupied(g) == Active(g)

(* Requests that have counted and are about to insert an ACTIVE row. *)
Placing(g) == {q \in Requests : /\ req[q].step = "place"
                                /\ req[q].group = g /\ req[q].place = "ACTIVE"}

(* enroll: the trainee and the group are found, no row for them. *)
EnrollRead(q, t, g) ==
    /\ req[q].step = "idle"
    /\ enrolment[g][t] = "NONE"
    /\ req' = [req EXCEPT ![q] = [step |-> "enrol", trainee |-> t, group |-> g,
                                  capacity |-> capacity[g]]]
    /\ UNCHANGED <<capacity, least, most, enrolment, session, records, entitled, rivals>>

(* Slip: one more than there are places. *)
PlaceOffByOne(occupied, places) == IF occupied > places THEN "WAITLISTED" ELSE "ACTIVE"

(* Slip: the newcomer is counted as well. *)
PlaceTooFew(occupied, places) == IF occupied + 1 >= places THEN "WAITLISTED" ELSE "ACTIVE"

(* Slip: a status for which enroll has no rule. *)
PlacePaused(occupied, places) == IF occupied >= places THEN "PAUSED" ELSE "ACTIVE"

Place(occupied, places) == IF occupied >= places THEN "WAITLISTED" ELSE "ACTIVE"

(* enroll: count. *)
EnrollCount(q) ==
    /\ req[q].step = "enrol"
    /\ LET g == req[q].group
           place == Place(Cardinality(Occupied(g)), req[q].capacity)
           together == Cardinality(Placing(g) \cup {q})
       IN  /\ req' = [req EXCEPT ![q] = [step |-> "place", trainee |-> req[q].trainee,
                                         group |-> g, place |-> place]]
           /\ rivals' = IF place = "ACTIVE" /\ together > rivals[g]
                        THEN [rivals EXCEPT ![g] = together] ELSE rivals
    /\ UNCHANGED <<capacity, least, most, enrolment, session, records, entitled>>

(* enroll: save.  A row inserted meanwhile makes it fail (Stop). *)
EnrollSave(q) ==
    /\ req[q].step = "place"
    /\ enrolment[req[q].group][req[q].trainee] = "NONE"
    /\ enrolment' = [enrolment EXCEPT ![req[q].group][req[q].trainee] = req[q].place]
    /\ req' = [req EXCEPT ![q] = Idle]
    /\ UNCHANGED <<capacity, least, most, session, records, entitled, rivals>>

(* TrainingGroupsService.update: the capacity is the one asked for or, when *)
(* the dto has none, the one the request had read: any value.               *)
UpdateGroup(g, places) ==
    /\ capacity' = [capacity EXCEPT ![g] = places]
    /\ least' = [least EXCEPT ![g] = IF places < @ THEN places ELSE @]
    /\ most' = [most EXCEPT ![g] = IF places > @ THEN places ELSE @]
    /\ UNCHANGED <<enrolment, session, records, entitled, rivals, req>>

-----------------------------------------------------------------------------
(* createSession: the group is found. *)
CreateSession(q, s, g, roster) ==
    /\ req[q].step = "idle"
    /\ session[s].status = "ABSENT"
    /\ req' = [req EXCEPT ![q] = [step |-> "create", session |-> s, group |-> g, roster |-> roster,
                                  entitled |-> IF roster = "yes" THEN Active(g) ELSE {}]]
    /\ UNCHANGED <<capacity, least, most, enrolment, session, records, entitled, rivals>>

(* Slip: the session is not saved with the transaction's manager. *)
ReadRosterAfterSave(q) ==
    /\ req[q].step = "create"
    /\ LET r == req[q]
       IN  /\ req' = [req EXCEPT ![q] = [step |-> "save", session |-> r.session, known |-> {},
                          who |-> IF r.roster = "yes" THEN Active(r.group) ELSE {}]]
           /\ session' = [session EXCEPT ![r.session] =
                             [status |-> "SCHEDULED", group |-> r.group]]
           /\ entitled' = [entitled EXCEPT ![r.session] = r.entitled]
    /\ UNCHANGED <<capacity, least, most, enrolment, records, rivals>>

(* createSession's transaction: the active enrolments are read ... *)
ReadRoster(q) ==
    /\ req[q].step = "create"
    /\ req' = [req EXCEPT ![q] = [step |-> "fill", session |-> req[q].session,
                  group |-> req[q].group, entitled |-> req[q].entitled,
                  who |-> IF req[q].roster = "yes" THEN Active(req[q].group) ELSE {}]]
    /\ UNCHANGED <<capacity, least, most, enrolment, session, records, entitled, rivals>>

(* ... and the session is committed with a record for each. *)
CommitSession(q) ==
    /\ req[q].step = "fill"
    /\ LET s == req[q].session
       IN  /\ session[s].status = "ABSENT"
           /\ session' = [session EXCEPT ![s] = [status |-> "SCHEDULED", group |-> req[q].group]]
           /\ records' = [records EXCEPT ![s] = req[q].who]
           /\ entitled' = [entitled EXCEPT ![s] = req[q].entitled]
    /\ req' = [req EXCEPT ![q] = Idle]
    /\ UNCHANGED <<capacity, least, most, enrolment, rivals>>

(* findSession of updateSession. *)
UpdateSession(q, s) ==
    /\ req[q].step = "idle"
    /\ session[s].status \in {"SCHEDULED", "CANCELLED"}
    /\ req' = [req EXCEPT ![q] = [step |-> "edit", session |-> s, row |-> session[s],
                                  known |-> records[s]]]
    /\ UNCHANGED <<capacity, least, most, enrolment, session, records, entitled, rivals>>

(* Slip: attendance_records.session_id may be NULL, records that the      *)
(* request does not know lose their session.                              *)
SaveSessionAlone(q, status) ==
    /\ req[q].step = "edit"
    /\ session' = [session EXCEPT ![req[q].session] = [req[q].row EXCEPT !.status = status]]
    /\ records' = [records EXCEPT ![req[q].session] = @ \cap req[q].known]
    /\ req' = [req EXCEPT ![q] = Idle]
    /\ UNCHANGED <<capacity, least, most, enrolment, entitled, rivals>>

(* The row is written as it was read, with any status; a session removed   *)
(* meanwhile comes back.  New records make the save fail (Stop).           *)
SaveSession(q, status) ==
    /\ req[q].step = "edit"
    /\ records[req[q].session] \subseteq req[q].known
    /\ session' = [session EXCEPT ![req[q].session] = [req[q].row EXCEPT !.status = status]]
    /\ req' = [req EXCEPT ![q] = Idle]
    /\ UNCHANGED <<capacity, least, most, enrolment, records, entitled, rivals>>

RemoveSession(s) ==
    /\ session[s].status \in {"SCHEDULED", "CANCELLED"}
    /\ session' = [session EXCEPT ![s].status = "REMOVED"]
    /\ UNCHANGED <<capacity, least, most, enrolment, records, entitled, rivals, req>>

-----------------------------------------------------------------------------
(* markAttendance: the session is found and not cancelled. *)
MarkAttendance(q, s, who) ==
    /\ req[q].step = "idle"
    /\ session[s].status = "SCHEDULED"
    /\ who # {}
    /\ req' = [req EXCEPT ![q] = [step |-> "mark", session |-> s, who |-> who]]
    /\ UNCHANGED <<capacity, least, most, enrolment, session, records, entitled, rivals>>

(* Slip: the enrolments are not looked at. *)
ReadRecordsOfAnyone(q) ==
    /\ req[q].step = "mark"
    /\ req' = [req EXCEPT ![q] = [step |-> "save", session |-> req[q].session, who |-> req[q].who,
                                  known |-> req[q].who \cap records[req[q].session]]]
    /\ UNCHANGED <<capacity, least, most, enrolment, session, records, entitled, rivals>>

(* All are actively enrolled, which stays so; their records are read. *)
ReadRecords(q) ==
    /\ req[q].step = "mark"
    /\ req[q].who \subseteq Active(session[req[q].session].group)
    /\ req' = [req EXCEPT ![q] = [step |-> "save", session |-> req[q].session, who |-> req[q].who,
                                  known |-> req[q].who \cap records[req[q].session]]]
    /\ UNCHANGED <<capacity, least, most, enrolment, session, records, entitled, rivals>>

(* One save for all.  A record that has come meanwhile would be inserted a *)
(* second time: the save fails as a whole (Stop).                          *)
SaveRecords(q) ==
    /\ req[q].step = "save"
    /\ records[req[q].session] \cap req[q].who \subseteq req[q].known
    /\ records' = [records EXCEPT ![req[q].session] = @ \cup req[q].who]
    /\ req' = [req EXCEPT ![q] = Idle]
    /\ UNCHANGED <<capacity, least, most, enrolment, session, entitled, rivals>>

(* A refusal, a conflict, a database error or a crash. *)
Stop(q) ==
    /\ req[q].step # "idle"
    /\ req' = [req EXCEPT ![q] = Idle]
    /\ UNCHANGED <<capacity, least, most, enrolment, session, records, entitled, rivals>>

Next ==
    \/ \E g \in Groups, places \in Capacities : UpdateGroup(g, places)
    \/ \E s \in Sessions : RemoveSession(s)
    \/ \E q \in Requests :
        \/ \E t \in Trainees, g \in Groups : EnrollRead(q, t, g)
        \/ \E s \in Sessions, g \in Groups, roster \in {"yes", "no"} : CreateSession(q, s, g, roster)
        \/ \E s \in Sessions : UpdateSession(q, s)
        \/ \E status \in {"SCHEDULED", "CANCELLED"} : SaveSession(q, status)
        \/ \E s \in Sessions, who \in SUBSET Trainees : MarkAttendance(q, s, who)
        \/ EnrollCount(q) \/ EnrollSave(q)
        \/ ReadRoster(q) \/ CommitSession(q)
        \/ ReadRecords(q) \/ SaveRecords(q)
        \/ Stop(q)

Spec == Init /\ [][Next]_vars

-----------------------------------------------------------------------------
TypeOK ==
    /\ capacity \in [Groups -> Capacities]
    /\ least \in [Groups -> Capacities] /\ most \in [Groups -> Capacities]
    /\ enrolment \in [Groups -> [Trainees -> Places \cup {"NONE"}]]
    /\ session \in [Sessions -> Row]
    /\ records \in [Sessions -> SUBSET Trainees]
    /\ entitled \in [Sessions -> SUBSET Trainees]
    /\ rivals \in [Groups -> Nat]
    /\ req \in [Requests -> Request]

(* The missing lock of enroll costs no more places than requests have      *)
(* stood between count and insert at once: a group exceeds the largest     *)
(* capacity it has had by at most their number less one, and not at all    *)
(* while enrolments come one by one (trainees.service.ts, enroll).         *)
OverfillBounded ==
    \A g \in Groups :
        Cardinality(Active(g)) <= most[g] + (IF rivals[g] = 0 THEN 0 ELSE rivals[g] - 1)

(* Nobody waits for a group that never was full: with a WAITLISTED row     *)
(* there are at least as many ACTIVE ones as the smallest capacity the     *)
(* group has had (enroll).                                                 *)
WaitlistedMeansFull ==
    \A g \in Groups : (\E t \in Trainees : enrolment[g][t] = "WAITLISTED") =>
        Cardinality(Active(g)) >= least[g]

(* A session made with a roster has, from the moment anyone can see it, a  *)
(* record of each trainee who was enrolled when the request began, and     *)
(* keeps it through markAttendance and stale updates of the session.       *)
RosterComplete == \A s \in Sessions : entitled[s] \subseteq records[s]

(* Nobody is on a session's roster without an active place in its group:   *)
(* createSession and markAttendance read the enrolments before they write. *)
RecordsAreEnrolled ==
    \A s \in Sessions : session[s].status # "ABSENT" => records[s] \subseteq Active(session[s].group)

(* No step loses an attendance record, not even updateSession, which saves *)
(* the list of records it once loaded.                                     *)
RecordsKept == [][\A s \in Sessions : records[s] \subseteq records'[s]]_vars
=============================================================================
