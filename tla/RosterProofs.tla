---------------------------- MODULE RosterProofs ----------------------------
(***************************************************************************)
(* Theorems about Roster, for any number of trainees, groups, sessions and *)
(* requests and any capacities.                                            *)
(*                                                                         *)
(* The bound on overfilling is inductive once the requests that have       *)
(* counted and not yet inserted are added to the places taken (Counted).   *)
(* The claims about rosters rest on what each request carries from one     *)
(* statement to the next (Carried), which stays true because enrolments    *)
(* only come and a session keeps its group.                                *)
(***************************************************************************)
EXTENDS Roster, FiniteSetTheorems, TLAPS

Excess(g) == IF rivals[g] = 0 THEN 0 ELSE rivals[g] - 1

Counted ==
    \A g \in Groups : Cardinality(Active(g)) + Cardinality(Placing(g)) <= most[g] + Excess(g)

Within ==
    /\ \A g \in Groups : least[g] <= capacity[g] /\ capacity[g] <= most[g]
    /\ \A q \in Requests : req[q].step = "enrol" =>
          least[req[q].group] <= req[q].capacity /\ req[q].capacity <= most[req[q].group]

Waiting(g) ==
    \/ \E t \in Trainees : enrolment[g][t] = "WAITLISTED"
    \/ \E q \in Requests :
          req[q].step = "place" /\ req[q].group = g /\ req[q].place = "WAITLISTED"

WaitingFull == \A g \in Groups : Waiting(g) => Cardinality(Active(g)) >= least[g]

PlacesInv == TypeOK /\ Counted /\ Within /\ WaitingFull

Known(s) == session[s].status # "ABSENT"

(* What a request has read and still holds when it writes. *)
Holds(r) ==
    /\ r.step = "create" => (IF r.roster = "yes" THEN r.entitled \subseteq Active(r.group)
                                                 ELSE r.entitled = {})
    /\ r.step = "fill" => r.entitled \subseteq r.who /\ r.who \subseteq Active(r.group)
    /\ r.step = "edit" => /\ Known(r.session)
                          /\ r.row.status # "ABSENT" /\ r.row.group = session[r.session].group
    /\ r.step = "mark" => Known(r.session)
    /\ r.step = "save" => Known(r.session) /\ r.who \subseteq Active(session[r.session].group)

Carried == \A q \in Requests : Holds(req[q])

Empty == \A s \in Sessions : ~ Known(s) => records[s] = {}

RosterInv == TypeOK /\ Carried /\ Empty /\ RosterComplete /\ RecordsAreEnrolled

-----------------------------------------------------------------------------
(* Type correctness *)

LEMMA InitType == Init => TypeOK
  BY RosterAssumption
  DEF Init, TypeOK, RosterAssumption, Capacities, Row, Status, Request, Idle

LEMMA PlacingFinite ==
  ASSUME NEW g PROVE IsFiniteSet(Placing(g)) /\ Cardinality(Placing(g)) \in Nat
<1>1. Placing(g) \subseteq Requests
  BY DEF Placing
<1> QED
  BY <1>1, RosterAssumption, FS_Subset, FS_CardinalityType DEF RosterAssumption

LEMMA ActiveFinite ==
  ASSUME NEW g PROVE IsFiniteSet(Active(g)) /\ Cardinality(Active(g)) \in Nat
<1>1. Active(g) \subseteq Trainees
  BY DEF Active
<1> QED
  BY <1>1, RosterAssumption, FS_Subset, FS_CardinalityType DEF RosterAssumption

(* What the steps of a request carry. *)
LEMMA ReqFields ==
  ASSUME TypeOK, NEW q \in Requests
  PROVE  /\ req[q].step = "enrol" => /\ req[q].trainee \in Trainees /\ req[q].group \in Groups
                                     /\ req[q].capacity \in Capacities
         /\ req[q].step = "place" => /\ req[q].trainee \in Trainees /\ req[q].group \in Groups
                                     /\ req[q].place \in Places
         /\ req[q].step = "create" => /\ req[q].session \in Sessions /\ req[q].group \in Groups
                                      /\ req[q].entitled \in SUBSET Trainees
         /\ req[q].step = "fill" => /\ req[q].session \in Sessions /\ req[q].group \in Groups
                                    /\ req[q].entitled \in SUBSET Trainees
                                    /\ req[q].who \in SUBSET Trainees
         /\ req[q].step = "edit" => /\ req[q].session \in Sessions /\ req[q].row \in Row
                                    /\ req[q].known \in SUBSET Trainees
         /\ req[q].step = "mark" => /\ req[q].session \in Sessions
                                    /\ req[q].who \in SUBSET Trainees
         /\ req[q].step = "save" => /\ req[q].session \in Sessions
                                    /\ req[q].who \in SUBSET Trainees
<1>1. req[q] \in Request
  BY DEF TypeOK
<1> QED
  BY <1>1 DEF Request, Idle

LEMMA StepType == TypeOK /\ [Next]_vars => TypeOK'
<1> SUFFICES ASSUME TypeOK, [Next]_vars PROVE TypeOK'
  OBVIOUS
<1>1. ASSUME NEW g \in Groups, NEW places \in Capacities, UpdateGroup(g, places) PROVE TypeOK'
  BY <1>1 DEF UpdateGroup, TypeOK
<1>2. ASSUME NEW s \in Sessions, RemoveSession(s) PROVE TypeOK'
  BY <1>2 DEF RemoveSession, TypeOK, Row, Status
<1>3. ASSUME NEW q \in Requests, NEW t \in Trainees, NEW g \in Groups, EnrollRead(q, t, g)
      PROVE  TypeOK'
  <2>1. [step |-> "enrol", trainee |-> t, group |-> g, capacity |-> capacity[g]] \in Request
    BY DEF TypeOK, Request
  <2> QED
    BY <1>3, <2>1 DEF EnrollRead, TypeOK
<1>4. ASSUME NEW q \in Requests, NEW s \in Sessions, NEW g \in Groups, NEW roster \in {"yes", "no"},
             CreateSession(q, s, g, roster)
      PROVE  TypeOK'
  <2> DEFINE r == [step |-> "create", session |-> s, group |-> g, roster |-> roster,
                   entitled |-> IF roster = "yes" THEN Active(g) ELSE {}]
  <2>1. r \in Request
    BY DEF Request, Active
  <2> HIDE DEF r
  <2>2. req' = [req EXCEPT ![q] = r]
    BY <1>4 DEF CreateSession, r
  <2> QED
    BY <1>4, <2>1, <2>2 DEF CreateSession, TypeOK
<1>5. ASSUME NEW q \in Requests, NEW s \in Sessions, UpdateSession(q, s) PROVE TypeOK'
  <2>1. [step |-> "edit", session |-> s, row |-> session[s], known |-> records[s]] \in Request
    BY DEF TypeOK, Request
  <2> QED
    BY <1>5, <2>1 DEF UpdateSession, TypeOK
<1>6. ASSUME NEW q \in Requests, NEW status \in {"SCHEDULED", "CANCELLED"}, SaveSession(q, status)
      PROVE  TypeOK'
  <2>1. req[q].session \in Sessions /\ req[q].row \in Row
    BY <1>6, ReqFields DEF SaveSession
  <2>2. [req[q].row EXCEPT !.status = status] \in Row
    BY <2>1 DEF Row, Status
  <2>3. Idle \in Request
    BY DEF Request
  <2> QED
    BY <1>6, <2>1, <2>2, <2>3 DEF SaveSession, TypeOK
<1>7. ASSUME NEW q \in Requests, NEW s \in Sessions, NEW who \in SUBSET Trainees,
             MarkAttendance(q, s, who)
      PROVE  TypeOK'
  <2>1. [step |-> "mark", session |-> s, who |-> who] \in Request
    BY DEF Request
  <2> QED
    BY <1>7, <2>1 DEF MarkAttendance, TypeOK
<1>8. ASSUME NEW q \in Requests, EnrollCount(q) PROVE TypeOK'
  <2> DEFINE g == req[q].group
             place == Place(Cardinality(Occupied(g)), req[q].capacity)
             r == [step |-> "place", trainee |-> req[q].trainee, group |-> g, place |-> place]
  <2>1. req[q].trainee \in Trainees /\ g \in Groups
    BY <1>8, ReqFields DEF EnrollCount
  <2>2. place \in Places
    BY DEF Place, Places
  <2>3. r \in Request
    BY <2>1, <2>2 DEF Request
  <2>4. Cardinality(Placing(g) \cup {q}) \in Nat
    BY PlacingFinite, FS_AddElement, FS_CardinalityType
  <2>5. req' = [req EXCEPT ![q] = r]
    BY <1>8 DEF EnrollCount
  <2>6. rivals' = rivals \/ rivals' = [rivals EXCEPT ![g] = Cardinality(Placing(g) \cup {q})]
    BY <1>8 DEF EnrollCount
  <2>7. rivals' \in [Groups -> Nat]
    BY <2>1, <2>4, <2>6 DEF TypeOK
  <2>8. req' \in [Requests -> Request]
    BY <2>3, <2>5 DEF TypeOK
  <2> QED
    BY <1>8, <2>7, <2>8 DEF EnrollCount, TypeOK
<1>9. ASSUME NEW q \in Requests, EnrollSave(q) PROVE TypeOK'
  <2>1. req[q].trainee \in Trainees /\ req[q].group \in Groups /\ req[q].place \in Places
    BY <1>9, ReqFields DEF EnrollSave
  <2>2. Idle \in Request
    BY DEF Request
  <2> QED
    BY <1>9, <2>1, <2>2 DEF EnrollSave, TypeOK
<1>10. ASSUME NEW q \in Requests, ReadRoster(q) PROVE TypeOK'
  <2> DEFINE r == [step |-> "fill", session |-> req[q].session, group |-> req[q].group,
                   entitled |-> req[q].entitled,
                   who |-> IF req[q].roster = "yes" THEN Active(req[q].group) ELSE {}]
  <2>1. /\ req[q].session \in Sessions /\ req[q].group \in Groups
        /\ req[q].entitled \in SUBSET Trainees
    BY <1>10, ReqFields DEF ReadRoster
  <2>2. r \in Request
    BY <2>1 DEF Request, Active
  <2>3. req' = [req EXCEPT ![q] = r]
    BY <1>10 DEF ReadRoster
  <2> HIDE DEF r
  <2> QED
    BY <1>10, <2>2, <2>3 DEF ReadRoster, TypeOK
<1>11. ASSUME NEW q \in Requests, CommitSession(q) PROVE TypeOK'
  <2>1. /\ req[q].session \in Sessions /\ req[q].group \in Groups
        /\ req[q].entitled \in SUBSET Trainees /\ req[q].who \in SUBSET Trainees
    BY <1>11, ReqFields DEF CommitSession
  <2>2. [status |-> "SCHEDULED", group |-> req[q].group] \in Row /\ Idle \in Request
    BY <2>1 DEF Row, Status, Request
  <2> QED
    BY <1>11, <2>1, <2>2 DEF CommitSession, TypeOK
<1>12. ASSUME NEW q \in Requests, ReadRecords(q) PROVE TypeOK'
  <2>1. req[q].session \in Sessions /\ req[q].who \in SUBSET Trainees
    BY <1>12, ReqFields DEF ReadRecords
  <2>2. [step |-> "save", session |-> req[q].session, who |-> req[q].who,
         known |-> req[q].who \cap records[req[q].session]] \in Request
    BY <2>1 DEF Request
  <2> QED
    BY <1>12, <2>2 DEF ReadRecords, TypeOK
<1>13. ASSUME NEW q \in Requests, SaveRecords(q) PROVE TypeOK'
  <2>1. req[q].session \in Sessions /\ req[q].who \in SUBSET Trainees
    BY <1>13, ReqFields DEF SaveRecords
  <2>2. Idle \in Request
    BY DEF Request
  <2> QED
    BY <1>13, <2>1, <2>2 DEF SaveRecords, TypeOK
<1>14. ASSUME NEW q \in Requests, Stop(q) PROVE TypeOK'
  <2>1. Idle \in Request
    BY DEF Request
  <2> QED
    BY <1>14, <2>1 DEF Stop, TypeOK
<1>15. CASE UNCHANGED vars
  BY <1>15 DEF vars, TypeOK, Row, Status
<1> QED
  BY <1>1, <1>2, <1>3, <1>4, <1>5, <1>6, <1>7, <1>8, <1>9, <1>10, <1>11, <1>12, <1>13, <1>14, <1>15
  DEF Next

(* Every variable of Roster keeps its type, in every behaviour. *)
THEOREM TypeCorrect == Spec => []TypeOK
  BY InitType, StepType, PTL DEF Spec

-----------------------------------------------------------------------------
(* Places: OverfillBounded and WaitlistedMeansFull *)

LEMMA InitPlaces == Init => PlacesInv
<1> SUFFICES ASSUME Init PROVE PlacesInv
  OBVIOUS
<1>1. TypeOK
  BY InitType
<1>2. \A g \in Groups : Active(g) = {} /\ Placing(g) = {}
  BY DEF Init, Active, Placing, Idle
<1>3. Counted
  <2> SUFFICES ASSUME NEW g \in Groups
               PROVE  Cardinality(Active(g)) + Cardinality(Placing(g)) <= most[g] + Excess(g)
    BY DEF Counted
  <2>1. Cardinality(Active(g)) = 0 /\ Cardinality(Placing(g)) = 0
    BY <1>2, FS_EmptySet
  <2>2. Excess(g) = 0 /\ most[g] \in Nat
    BY <1>1 DEF Excess, Init, TypeOK, Capacities
  <2> QED
    BY <2>1, <2>2
<1>4. Within
  BY <1>1 DEF Within, Init, TypeOK, Capacities, Idle
<1>5. WaitingFull
  BY DEF WaitingFull, Waiting, Init, Idle
<1> QED
  BY <1>1, <1>3, <1>4, <1>5 DEF PlacesInv

(* A step by which no request comes to the point of inserting. *)
LEMMA NoPlaceTaken ==
  ASSUME PlacesInv, NEW q \in Requests, NEW r,
         req' = [req EXCEPT ![q] = r], r.step # "place",
         r.step = "enrol" => least[r.group] <= r.capacity /\ r.capacity <= most[r.group],
         UNCHANGED <<capacity, least, most, enrolment, rivals>>
  PROVE  Counted' /\ Within' /\ WaitingFull'
<1>1. req \in [Requests -> Request]
  BY DEF PlacesInv, TypeOK
<1>2. \A g \in Groups : Active(g)' = Active(g)
  BY DEF Active
<1>3. \A g \in Groups : Placing(g)' \subseteq Placing(g)
  BY <1>1 DEF Placing
<1>4. \A g \in Groups : /\ Cardinality(Active(g)) \in Nat
                        /\ Cardinality(Placing(g)) \in Nat /\ Cardinality(Placing(g)') \in Nat
                        /\ Cardinality(Placing(g)') <= Cardinality(Placing(g))
  <2> SUFFICES ASSUME NEW g \in Groups
               PROVE  /\ Cardinality(Active(g)) \in Nat
                      /\ Cardinality(Placing(g)) \in Nat /\ Cardinality(Placing(g)') \in Nat
                      /\ Cardinality(Placing(g)') <= Cardinality(Placing(g))
    OBVIOUS
  <2>1. IsFiniteSet(Placing(g)) /\ Placing(g)' \in SUBSET Placing(g)
    BY <1>3, PlacingFinite
  <2> QED
    BY <2>1, PlacingFinite, ActiveFinite, FS_Subset, FS_CardinalityType
<1>5. Counted'
  <2> SUFFICES ASSUME NEW g \in Groups
               PROVE  Cardinality(Active(g)') + Cardinality(Placing(g)') <= most'[g] + Excess(g)'
    BY DEF Counted
  <2>1. Cardinality(Active(g)) + Cardinality(Placing(g)) <= most[g] + Excess(g)
    BY DEF PlacesInv, Counted
  <2>2. Excess(g)' = Excess(g) /\ most'[g] = most[g]
    BY DEF Excess
  <2>3. most[g] \in Int /\ Excess(g) \in Int
    BY DEF PlacesInv, TypeOK, Capacities, Excess
  <2> QED
    BY <1>2, <1>4, <2>1, <2>2, <2>3
<1>6. Within'
  BY <1>1 DEF PlacesInv, Within
<1>7. WaitingFull'
  <2> SUFFICES ASSUME NEW g \in Groups, Waiting(g)' PROVE Cardinality(Active(g)') >= least'[g]
    BY DEF WaitingFull
  <2>1. Waiting(g)
    BY <1>1 DEF Waiting
  <2> QED
    BY <1>2, <2>1 DEF PlacesInv, WaitingFull
<1> QED
  BY <1>5, <1>6, <1>7

(* enroll's count: the request joins those that stand before the insert. *)
LEMMA CountStep ==
  ASSUME PlacesInv, NEW q \in Requests, EnrollCount(q)
  PROVE  Counted' /\ Within' /\ WaitingFull'
<1>0. req[q].step = "enrol" /\ req[q].group \in Groups /\ req[q].capacity \in Nat
  BY ReqFields DEF EnrollCount, PlacesInv, Capacities
<1> PICK g \in Groups, places \in Nat : g = req[q].group /\ places = req[q].capacity
  BY <1>0
<1> PICK place : place = Place(Cardinality(Occupied(g)), places)
  OBVIOUS
<1>1. TypeOK /\ req \in [Requests -> Request] /\ rivals \in [Groups -> Nat]
  BY DEF PlacesInv, TypeOK
<1>2. least[g] <= places /\ places <= most[g]
  BY <1>0 DEF PlacesInv, Within
<1>3. req' = [req EXCEPT ![q] = [step |-> "place", trainee |-> req[q].trainee, group |-> g,
                                 place |-> place]]
  BY DEF EnrollCount
<1>4. req'[q].step = "place" /\ req'[q].group = g /\ req'[q].place = place
  BY <1>1, <1>3
<1>5. \A p \in Requests : p # q => req'[p] = req[p]
  BY <1>1, <1>3
<1>6. \A h \in Groups : Active(h)' = Active(h)
  BY DEF Active, EnrollCount
<1>7. UNCHANGED <<capacity, least, most, enrolment>>
  BY DEF EnrollCount
<1>8. \A h \in Groups : /\ Cardinality(Active(h)) \in Nat /\ Cardinality(Placing(h)) \in Nat
                        /\ most[h] \in Nat /\ least[h] \in Nat
  BY <1>1, ActiveFinite, PlacingFinite DEF TypeOK, Capacities
<1>9. \A h \in Groups : h # g => Placing(h)' = Placing(h)
  BY <1>0, <1>4, <1>5 DEF Placing
<1>10. Cardinality(Occupied(g)) = Cardinality(Active(g))
  BY DEF Occupied
<1>11. \A h \in Groups : h # g => rivals'[h] = rivals[h]
  BY <1>1 DEF EnrollCount
<1>12. Within'
  BY <1>4, <1>5, <1>7 DEF PlacesInv, Within
<1>13. \A h \in Groups : h # g => (Waiting(h)' => Waiting(h))
  BY <1>4, <1>5, <1>7 DEF Waiting
<1>14. CASE place = "ACTIVE"
  <2>1. Cardinality(Active(g)) + 1 <= most[g]
    <3>1. ~ (Cardinality(Active(g)) >= places)
      BY <1>10, <1>14 DEF Place
    <3> QED
      BY <1>2, <1>8, <3>1
  <2>2. Placing(g)' = Placing(g) \cup {q}
    BY <1>4, <1>5, <1>14 DEF Placing
  <2>3. Cardinality(Placing(g) \cup {q}) \in Nat /\ Cardinality(Placing(g) \cup {q}) >= 1
    <3>1. IsFiniteSet(Placing(g) \cup {q})
      BY PlacingFinite, FS_AddElement
    <3>2. Cardinality(Placing(g) \cup {q}) # 0
      BY <3>1, FS_EmptySet
    <3> QED
      BY <3>1, <3>2, FS_CardinalityType
  <2>4. rivals'[g] \in Nat /\ rivals'[g] >= Cardinality(Placing(g) \cup {q})
    <3>1. rivals' = IF Cardinality(Placing(g) \cup {q}) > rivals[g]
                    THEN [rivals EXCEPT ![g] = Cardinality(Placing(g) \cup {q})] ELSE rivals
      BY <1>14 DEF EnrollCount
    <3> QED
      BY <1>1, <2>3, <3>1
  <2>5. Counted'
    <3> SUFFICES ASSUME NEW h \in Groups
                 PROVE  Cardinality(Active(h)') + Cardinality(Placing(h)') <= most'[h] + Excess(h)'
      BY DEF Counted
    <3>1. CASE h = g
      <4>1. Excess(g)' = rivals'[g] - 1
        BY <2>3, <2>4 DEF Excess
      <4>2. Cardinality(Active(g)') = Cardinality(Active(g))
        BY <1>6
      <4>3. Cardinality(Placing(g)') <= rivals'[g]
        BY <2>2, <2>3, <2>4
      <4>4. Cardinality(Placing(g)') \in Nat
        BY <2>2, <2>3
      <4>5. most'[g] = most[g]
        BY <1>7
      <4>6. Cardinality(Active(g)') + Cardinality(Placing(g)') <= most'[g] + Excess(g)'
        BY <1>6, <1>8, <2>1, <2>4, <4>1, <4>2, <4>3, <4>4, <4>5
      <4> QED
        BY <3>1, <4>6
    <3>2. CASE h # g
      <4>1. Excess(h)' = Excess(h)
        BY <1>11, <3>2 DEF Excess
      <4> QED
        BY <1>6, <1>7, <1>9, <3>2, <4>1 DEF PlacesInv, Counted
    <3> QED
      BY <3>1, <3>2
  <2>6. Waiting(g)' => Waiting(g)
    BY <1>4, <1>5, <1>7, <1>14 DEF Waiting
  <2>7. WaitingFull'
    BY <1>6, <1>7, <1>13, <2>6 DEF PlacesInv, WaitingFull
  <2> QED
    BY <1>12, <2>5, <2>7
<1>15. CASE place # "ACTIVE"
  <2>1. Cardinality(Active(g)) >= least[g]
    <3>1. Cardinality(Active(g)) >= places
      BY <1>10, <1>15 DEF Place
    <3> QED
      BY <1>2, <1>8, <3>1
  <2>2. Placing(g)' = Placing(g)
    BY <1>0, <1>4, <1>5, <1>15 DEF Placing
  <2>3. rivals' = rivals
    BY <1>15 DEF EnrollCount
  <2>4. \A h \in Groups : /\ Cardinality(Placing(h)') = Cardinality(Placing(h))
                          /\ Excess(h)' = Excess(h)
    BY <1>9, <2>2, <2>3 DEF Excess
  <2>5. Counted'
    BY <1>6, <1>7, <2>4 DEF PlacesInv, Counted
  <2>6. WaitingFull'
    BY <1>6, <1>7, <1>13, <2>1 DEF PlacesInv, WaitingFull
  <2> QED
    BY <1>12, <2>5, <2>6
<1> QED
  BY <1>14, <1>15

(* enroll's insert: a request gives up its turn for a row. *)
LEMMA SaveStep ==
  ASSUME PlacesInv, NEW q \in Requests, EnrollSave(q)
  PROVE  Counted' /\ Within' /\ WaitingFull'
<1>0. req[q].group \in Groups /\ req[q].trainee \in Trainees
  BY ReqFields DEF EnrollSave, PlacesInv
<1> PICK g \in Groups, t \in Trainees : g = req[q].group /\ t = req[q].trainee
  BY <1>0
<1>1. TypeOK /\ req \in [Requests -> Request]
  BY DEF PlacesInv, TypeOK
<1>2. /\ req[q].step = "place" /\ req[q].place \in Places
      /\ enrolment[g][t] = "NONE"
  BY <1>1, ReqFields DEF EnrollSave
<1>3. req'[q].step = "idle" /\ \A p \in Requests : p # q => req'[p] = req[p]
  BY <1>1 DEF EnrollSave, Idle
<1>4. UNCHANGED <<capacity, least, most, rivals>>
  BY DEF EnrollSave
<1>5. /\ enrolment'[g][t] = req[q].place
      /\ \A h \in Groups, u \in Trainees : h # g \/ u # t => enrolment'[h][u] = enrolment[h][u]
  BY <1>1, <1>2 DEF EnrollSave, TypeOK
<1>6. \A h \in Groups : h # g => Active(h)' = Active(h) /\ Placing(h)' = Placing(h)
  BY <1>2, <1>3, <1>5 DEF Active, Placing
<1>7. \A h \in Groups : /\ IsFiniteSet(Active(h)) /\ Cardinality(Active(h)) \in Nat
                        /\ IsFiniteSet(Placing(h)) /\ Cardinality(Placing(h)) \in Nat
                        /\ most[h] \in Nat /\ least[h] \in Nat
  BY <1>1, ActiveFinite, PlacingFinite DEF TypeOK, Capacities
<1>8. \A h \in Groups : Excess(h)' = Excess(h)
  BY <1>4 DEF Excess
<1>9. Within'
  BY <1>3, <1>4 DEF PlacesInv, Within
<1>10. \A h \in Groups : Waiting(h)' => Waiting(h)
  BY <1>2, <1>3, <1>5 DEF Waiting, Places
<1>11. CASE req[q].place = "ACTIVE"
  <2>1. Active(g)' = Active(g) \cup {t} /\ t \notin Active(g)
    BY <1>2, <1>5, <1>11 DEF Active
  <2>2. Placing(g)' = Placing(g) \ {q} /\ q \in Placing(g)
    BY <1>2, <1>3, <1>11 DEF Placing
  <2>3. Cardinality(Active(g)') = Cardinality(Active(g)) + 1
    <3>1. Cardinality(Active(g) \cup {t}) = Cardinality(Active(g)) + 1
      BY <2>1, ActiveFinite, FS_AddElement
    <3> QED
      BY <2>1, <3>1
  <2>4. Cardinality(Placing(g)') = Cardinality(Placing(g)) - 1
    <3>1. Cardinality(Placing(g) \ {q}) = Cardinality(Placing(g)) - 1
      BY <2>2, PlacingFinite, FS_RemoveElement
    <3> QED
      BY <2>2, <3>1
  <2>5. Counted'
    <3> SUFFICES ASSUME NEW h \in Groups
                 PROVE  Cardinality(Active(h)') + Cardinality(Placing(h)') <= most'[h] + Excess(h)'
      BY DEF Counted
    <3>1. Cardinality(Active(h)) + Cardinality(Placing(h)) <= most[h] + Excess(h)
      BY DEF PlacesInv, Counted
    <3>2. CASE h = g
      BY <1>2, <1>4, <1>7, <1>8, <2>3, <2>4, <3>1, <3>2
    <3>3. CASE h # g
      BY <1>4, <1>6, <1>8, <3>1, <3>3
    <3> QED
      BY <3>2, <3>3
  <2>6. WaitingFull'
    <3> SUFFICES ASSUME NEW h \in Groups, Waiting(h)' PROVE Cardinality(Active(h)') >= least'[h]
      BY DEF WaitingFull
    <3>1. Cardinality(Active(h)) >= least[h]
      BY <1>10 DEF PlacesInv, WaitingFull
    <3>2. Cardinality(Active(h)') = Cardinality(Active(h)) \/ Cardinality(Active(h)') = Cardinality(Active(h)) + 1
      BY <1>6, <2>3
    <3> QED
      BY <1>4, <1>7, <3>1, <3>2
  <2> QED
    BY <1>9, <2>5, <2>6
<1>12. CASE req[q].place = "WAITLISTED"
  <2>1. Active(g)' = Active(g)
    BY <1>2, <1>5, <1>12 DEF Active
  <2>2. Placing(g)' = Placing(g)
    BY <1>2, <1>3, <1>12 DEF Placing
  <2>3. \A h \in Groups : Active(h)' = Active(h) /\ Placing(h)' = Placing(h)
    BY <1>6, <2>1, <2>2
  <2>4. Counted'
    BY <1>4, <1>8, <2>3 DEF PlacesInv, Counted
  <2>5. WaitingFull'
    BY <1>4, <1>10, <2>3 DEF PlacesInv, WaitingFull
  <2> QED
    BY <1>9, <2>4, <2>5
<1> QED
  BY <1>2, <1>11, <1>12 DEF Places

LEMMA UpdateStep ==
  ASSUME PlacesInv, NEW g \in Groups, NEW places \in Capacities, UpdateGroup(g, places)
  PROVE  Counted' /\ Within' /\ WaitingFull'
<1>1. /\ capacity \in [Groups -> Capacities] /\ least \in [Groups -> Capacities]
      /\ most \in [Groups -> Capacities] /\ req \in [Requests -> Request] /\ TypeOK
  BY DEF PlacesInv, TypeOK
<1>2. \A h \in Groups : /\ least'[h] <= least[h] /\ most[h] <= most'[h]
                        /\ least'[h] \in Nat /\ most'[h] \in Nat /\ least[h] \in Nat /\ most[h] \in Nat
  BY <1>1 DEF UpdateGroup, Capacities
<1>3. \A h \in Groups : least'[h] <= capacity'[h] /\ capacity'[h] <= most'[h]
  BY <1>1 DEF UpdateGroup, Capacities, PlacesInv, Within
<1>4. \A h \in Groups : /\ Active(h)' = Active(h) /\ Placing(h)' = Placing(h)
                        /\ Excess(h)' = Excess(h) /\ (Waiting(h)' <=> Waiting(h))
  BY DEF UpdateGroup, Active, Placing, Excess, Waiting
<1>5. \A h \in Groups : /\ Cardinality(Active(h)) \in Nat /\ Cardinality(Placing(h)) \in Nat
                        /\ Excess(h) \in Int
  BY ActiveFinite, PlacingFinite, <1>1 DEF Excess, TypeOK
<1>6. Counted'
  BY <1>2, <1>4, <1>5 DEF PlacesInv, Counted
<1>7. Within'
  <2> SUFFICES ASSUME NEW q \in Requests, req[q].step = "enrol"
               PROVE  /\ least'[req[q].group] <= req[q].capacity
                      /\ req[q].capacity <= most'[req[q].group]
    BY <1>3 DEF Within, UpdateGroup
  <2>1. req[q].group \in Groups /\ req[q].capacity \in Nat
    BY <1>1, ReqFields DEF Capacities
  <2> QED
    BY <1>2, <2>1 DEF PlacesInv, Within
<1>8. WaitingFull'
  BY <1>2, <1>4, <1>5 DEF PlacesInv, WaitingFull
<1> QED
  BY <1>6, <1>7, <1>8

LEMMA StepPlaces == PlacesInv /\ [Next]_vars => PlacesInv'
<1> SUFFICES ASSUME PlacesInv, [Next]_vars PROVE Counted' /\ Within' /\ WaitingFull'
  BY StepType DEF PlacesInv
<1>1. ASSUME NEW g \in Groups, NEW places \in Capacities, UpdateGroup(g, places)
      PROVE  Counted' /\ Within' /\ WaitingFull'
  BY <1>1, UpdateStep
<1>2. ASSUME NEW q \in Requests, NEW t \in Trainees, NEW g \in Groups, EnrollRead(q, t, g)
      PROVE  Counted' /\ Within' /\ WaitingFull'
  <2> DEFINE r == [step |-> "enrol", trainee |-> t, group |-> g, capacity |-> capacity[g]]
  <2>1. /\ r.step = "enrol" /\ r.group = g /\ r.capacity = capacity[g]
        /\ req' = [req EXCEPT ![q] = r]
        /\ UNCHANGED <<capacity, least, most, enrolment, rivals>>
    BY <1>2 DEF EnrollRead
  <2>2. least[g] <= capacity[g] /\ capacity[g] <= most[g]
    BY DEF PlacesInv, Within
  <2> HIDE DEF r
  <2> QED
    BY <2>1, <2>2, NoPlaceTaken
<1>3. ASSUME NEW q \in Requests, EnrollCount(q) PROVE Counted' /\ Within' /\ WaitingFull'
  BY <1>3, CountStep
<1>4. ASSUME NEW q \in Requests, EnrollSave(q) PROVE Counted' /\ Within' /\ WaitingFull'
  BY <1>4, SaveStep
<1>5. ASSUME NEW q \in Requests,
             \/ \E s \in Sessions, g \in Groups, roster \in {"yes", "no"} : CreateSession(q, s, g, roster)
             \/ \E s \in Sessions : UpdateSession(q, s)
             \/ \E status \in {"SCHEDULED", "CANCELLED"} : SaveSession(q, status)
             \/ \E s \in Sessions, who \in SUBSET Trainees : MarkAttendance(q, s, who)
             \/ ReadRoster(q) \/ CommitSession(q) \/ ReadRecords(q) \/ SaveRecords(q) \/ Stop(q)
      PROVE  Counted' /\ Within' /\ WaitingFull'
  <2>1. UNCHANGED <<capacity, least, most, enrolment, rivals>>
    BY <1>5 DEF CreateSession, UpdateSession, SaveSession, MarkAttendance, ReadRoster,
                CommitSession, ReadRecords, SaveRecords, Stop
  <2>2. req \in [Requests -> Request]
    BY DEF PlacesInv, TypeOK
  <2>3. req' = [req EXCEPT ![q] = req'[q]] /\ req'[q].step \notin {"place", "enrol"}
    <3>1. CASE \E s \in Sessions, g \in Groups, roster \in {"yes", "no"} : CreateSession(q, s, g, roster)
      BY <2>2, <3>1 DEF CreateSession
    <3>2. CASE \E s \in Sessions : UpdateSession(q, s)
      BY <2>2, <3>2 DEF UpdateSession
    <3>3. CASE \E s \in Sessions, who \in SUBSET Trainees : MarkAttendance(q, s, who)
      BY <2>2, <3>3 DEF MarkAttendance
    <3>4. CASE ReadRoster(q)
      BY <2>2, <3>4 DEF ReadRoster
    <3>5. CASE ReadRecords(q)
      BY <2>2, <3>5 DEF ReadRecords
    <3>6. CASE \/ \E status \in {"SCHEDULED", "CANCELLED"} : SaveSession(q, status)
               \/ CommitSession(q) \/ SaveRecords(q) \/ Stop(q)
      BY <2>2, <3>6 DEF SaveSession, CommitSession, SaveRecords, Stop, Idle
    <3> QED
      BY <1>5, <3>1, <3>2, <3>3, <3>4, <3>5, <3>6
  <2>4. PICK r : r = req'[q]
    OBVIOUS
  <2> QED
    BY <2>1, <2>3, <2>4, NoPlaceTaken
<1>6. ASSUME UNCHANGED <<capacity, least, most, enrolment, rivals, req>>
      PROVE  Counted' /\ Within' /\ WaitingFull'
  <2>1. \A g \in Groups : /\ Active(g)' = Active(g) /\ Placing(g)' = Placing(g)
                          /\ Excess(g)' = Excess(g) /\ (Waiting(g)' <=> Waiting(g))
    BY <1>6 DEF Active, Placing, Excess, Waiting
  <2> QED
    BY <1>6, <2>1 DEF PlacesInv, Counted, Within, WaitingFull
<1>7. ASSUME NEW s \in Sessions, RemoveSession(s) PROVE Counted' /\ Within' /\ WaitingFull'
  BY <1>6, <1>7 DEF RemoveSession
<1>8. CASE UNCHANGED vars
  BY <1>6, <1>8 DEF vars
<1> QED
  BY <1>1, <1>2, <1>3, <1>4, <1>5, <1>7, <1>8 DEF Next

LEMMA PlacesAlways == Spec => []PlacesInv
  BY InitPlaces, StepPlaces, PTL DEF Spec

LEMMA CountedBounds == PlacesInv => OverfillBounded
<1> SUFFICES ASSUME PlacesInv, NEW g \in Groups
             PROVE  Cardinality(Active(g)) <= most[g] + (IF rivals[g] = 0 THEN 0 ELSE rivals[g] - 1)
  BY DEF OverfillBounded
<1>1. Cardinality(Active(g)) + Cardinality(Placing(g)) <= most[g] + Excess(g)
  BY DEF PlacesInv, Counted
<1>2. Cardinality(Active(g)) \in Nat /\ Cardinality(Placing(g)) \in Nat
  BY ActiveFinite, PlacingFinite
<1>3. most[g] \in Int /\ Excess(g) \in Int
  BY DEF PlacesInv, TypeOK, Capacities, Excess
<1> QED
  BY <1>1, <1>2, <1>3 DEF Excess

(* However many enrolments of a group overlap, it never has more ACTIVE    *)
(* rows than its largest capacity and the number of requests that once     *)
(* stood between count and insert together, less one (enroll).             *)
THEOREM OverfillIsBounded == Spec => []OverfillBounded
  BY PlacesAlways, CountedBounds, PTL

(* Nobody is WAITLISTED in a group that never was full (enroll). *)
THEOREM OnlyFullGroupsWait == Spec => []WaitlistedMeansFull
<1>1. PlacesInv => WaitlistedMeansFull
  BY DEF PlacesInv, WaitingFull, Waiting, WaitlistedMeansFull
<1> QED
  BY <1>1, PlacesAlways, PTL

-----------------------------------------------------------------------------
(* Rosters: RosterComplete, RecordsAreEnrolled and RecordsKept *)

(* Enrolments only come, and a session, once known, stays and keeps its group. *)
Grows ==
    /\ \A g \in Groups : Active(g) \subseteq Active(g)'
    /\ \A s \in Sessions : Known(s) => Known(s)' /\ session'[s].group = session[s].group

LEMMA InitRoster == Init => RosterInv
<1> SUFFICES ASSUME Init PROVE RosterInv
  OBVIOUS
<1>1. TypeOK
  BY InitType
<1>2. Carried /\ Empty /\ RosterComplete
  BY DEF Init, Carried, Holds, Idle, Empty, RosterComplete
<1>3. RecordsAreEnrolled
  BY DEF Init, RecordsAreEnrolled
<1> QED
  BY <1>1, <1>2, <1>3 DEF RosterInv

LEMMA StepGrows == RosterInv /\ [Next]_vars => Grows
<1> SUFFICES ASSUME RosterInv, [Next]_vars PROVE Grows
  OBVIOUS
<1>1. TypeOK /\ session \in [Sessions -> Row]
  BY DEF RosterInv, TypeOK
<1>2. ASSUME enrolment' = enrolment PROVE \A g \in Groups : Active(g) \subseteq Active(g)'
  BY <1>2 DEF Active
<1>3. ASSUME session' = session
      PROVE  \A s \in Sessions : Known(s) => Known(s)' /\ session'[s].group = session[s].group
  BY <1>3 DEF Known
<1>4. ASSUME NEW q \in Requests, EnrollSave(q) PROVE Grows
  <2>1. req[q].trainee \in Trainees /\ req[q].group \in Groups
    BY <1>1, <1>4, ReqFields DEF EnrollSave
  <2>2. \A g \in Groups : Active(g) \subseteq Active(g)'
    BY <1>1, <1>4, <2>1 DEF EnrollSave, Active, TypeOK
  <2> QED
    BY <1>3, <1>4, <2>2 DEF EnrollSave, Grows
<1>5. ASSUME NEW s \in Sessions, RemoveSession(s) PROVE Grows
  <2>1. \A z \in Sessions : Known(z) => Known(z)' /\ session'[z].group = session[z].group
    BY <1>1, <1>5 DEF RemoveSession, Known, Row
  <2> QED
    BY <1>2, <1>5, <2>1 DEF RemoveSession, Grows
<1>6. ASSUME NEW q \in Requests, NEW status \in {"SCHEDULED", "CANCELLED"}, SaveSession(q, status)
      PROVE  Grows
  <2>1. req[q].session \in Sessions /\ req[q].row \in Row
    BY <1>1, <1>6, ReqFields DEF SaveSession
  <2>2. req[q].row.group = session[req[q].session].group
    BY <1>6 DEF SaveSession, RosterInv, Carried, Holds
  <2>3. /\ [req[q].row EXCEPT !.status = status].status = status
        /\ [req[q].row EXCEPT !.status = status].group = req[q].row.group
    BY <2>1 DEF Row
  <2>4. \A z \in Sessions : Known(z) => Known(z)' /\ session'[z].group = session[z].group
    BY <1>1, <1>6, <2>1, <2>2, <2>3 DEF SaveSession, Known
  <2> QED
    BY <1>2, <1>6, <2>4 DEF SaveSession, Grows
<1>7. ASSUME NEW q \in Requests, CommitSession(q) PROVE Grows
  <2>1. req[q].session \in Sessions /\ session[req[q].session].status = "ABSENT"
    BY <1>1, <1>7, ReqFields DEF CommitSession
  <2>2. \A z \in Sessions : Known(z) => Known(z)' /\ session'[z].group = session[z].group
    BY <1>1, <1>7, <2>1 DEF CommitSession, Known
  <2> QED
    BY <1>2, <1>7, <2>2 DEF CommitSession, Grows
<1>8. ASSUME enrolment' = enrolment, session' = session PROVE Grows
  BY <1>2, <1>3, <1>8 DEF Grows
<1>9. CASE \E g \in Groups, places \in Capacities : UpdateGroup(g, places)
  BY <1>8, <1>9 DEF UpdateGroup
<1>10. ASSUME NEW q \in Requests,
              \/ \E t \in Trainees, g \in Groups : EnrollRead(q, t, g)
              \/ \E s \in Sessions, g \in Groups, roster \in {"yes", "no"} : CreateSession(q, s, g, roster)
              \/ \E s \in Sessions : UpdateSession(q, s)
              \/ \E s \in Sessions, who \in SUBSET Trainees : MarkAttendance(q, s, who)
              \/ EnrollCount(q) \/ ReadRoster(q) \/ ReadRecords(q) \/ SaveRecords(q) \/ Stop(q)
       PROVE  Grows
  BY <1>8, <1>10 DEF EnrollRead, CreateSession, UpdateSession, MarkAttendance, EnrollCount,
                     ReadRoster, ReadRecords, SaveRecords, Stop
<1>11. CASE UNCHANGED vars
  BY <1>8, <1>11 DEF vars
<1> QED
  BY <1>4, <1>5, <1>6, <1>7, <1>9, <1>10, <1>11 DEF Next

(* What was read stays true while enrolments and sessions only come. *)
LEMMA HoldsOn ==
  ASSUME TypeOK, Grows, NEW r \in Request, Holds(r)
  PROVE  Holds(r)'
<1>1. /\ r.step \in {"create", "fill"} => r.group \in Groups
      /\ r.step \in {"edit", "mark", "save"} => r.session \in Sessions
  BY DEF Request, Idle
<1>2. \A s \in Sessions : session[s].group \in Groups
  BY DEF TypeOK, Row
<1>3. r.step = "create" => (IF r.roster = "yes" THEN r.entitled \subseteq Active(r.group)'
                                                ELSE r.entitled = {})
  BY <1>1 DEF Grows, Holds
<1>4. r.step = "fill" => r.entitled \subseteq r.who /\ r.who \subseteq Active(r.group)'
  BY <1>1 DEF Grows, Holds
<1>5. r.step = "edit" => /\ Known(r.session)'
                         /\ r.row.status # "ABSENT" /\ r.row.group = session'[r.session].group
  BY <1>1 DEF Grows, Holds
<1>6. r.step = "mark" => Known(r.session)'
  BY <1>1 DEF Grows, Holds
<1>7. ASSUME r.step = "save"
      PROVE  Known(r.session)' /\ r.who \subseteq (Active(session[r.session].group))'
  <2> DEFINE g == session[r.session].group
  <2>1. r.session \in Sessions /\ Known(r.session) /\ r.who \subseteq Active(g)
    BY <1>1, <1>7 DEF Holds
  <2>2. Known(r.session)' /\ session'[r.session].group = g
    BY <2>1 DEF Grows
  <2>3. PICK h \in Groups : h = g
    BY <1>2, <2>1
  <2>4. r.who \subseteq Active(h)'
    BY <2>1, <2>3 DEF Grows
  <2>5. session'[r.session].group = h
    BY <2>2, <2>3
  <2> HIDE DEF g
  <2> QED
    BY <2>2, <2>4, <2>5
<1> QED
  BY <1>3, <1>4, <1>5, <1>6, <1>7 DEF Holds

LEMMA StepCarried == RosterInv /\ [Next]_vars => Carried'
<1> SUFFICES ASSUME RosterInv, [Next]_vars PROVE Carried'
  OBVIOUS
<1>1. TypeOK /\ req \in [Requests -> Request] /\ session \in [Sessions -> Row]
  BY DEF RosterInv, TypeOK
<1>2. Grows
  BY StepGrows
<1>3. \A p \in Requests : Holds(req[p])
  BY DEF RosterInv, Carried
<1>4. ASSUME req' = req PROVE Carried'
  <2> SUFFICES ASSUME NEW p \in Requests PROVE Holds(req[p])'
    BY DEF Carried
  <2>1. PICK r \in Request : r = req[p]
    BY <1>1
  <2>2. Holds(r)'
    BY <1>1, <1>2, <1>3, <2>1, HoldsOn
  <2> QED
    BY <1>4, <2>1, <2>2
<1>5. ASSUME NEW q \in Requests, NEW r, req' = [req EXCEPT ![q] = r], Holds(r)'
      PROVE  Carried'
  <2> SUFFICES ASSUME NEW p \in Requests PROVE Holds(req[p])'
    BY DEF Carried
  <2>1. CASE p = q
    <3>1. req'[p] = r
      BY <1>1, <1>5, <2>1
    <3> QED
      BY <1>5, <3>1
  <2>2. CASE p # q
    <3>1. PICK z \in Request : z = req[p]
      BY <1>1
    <3>2. Holds(z)'
      BY <1>1, <1>2, <1>3, <3>1, HoldsOn
    <3>3. req'[p] = z
      BY <1>1, <1>5, <2>2, <3>1
    <3> QED
      BY <3>2, <3>3
  <2> QED
    BY <2>1, <2>2
<1>6. ASSUME NEW q \in Requests, NEW r, req' = [req EXCEPT ![q] = r],
             r.step \in {"idle", "enrol", "place"}
      PROVE  Carried'
  BY <1>5, <1>6 DEF Holds
<1>7. ASSUME NEW q \in Requests,
             \/ \E t \in Trainees, g \in Groups : EnrollRead(q, t, g)
             \/ EnrollCount(q)
      PROVE  Carried'
  <2>1. req' = [req EXCEPT ![q] = req'[q]] /\ req'[q].step \in {"enrol", "place"}
    BY <1>1, <1>7 DEF EnrollRead, EnrollCount
  <2>2. PICK r : r = req'[q]
    OBVIOUS
  <2> QED
    BY <1>6, <2>1, <2>2
<1>8. ASSUME NEW q \in Requests,
             \/ \E status \in {"SCHEDULED", "CANCELLED"} : SaveSession(q, status)
             \/ EnrollSave(q) \/ CommitSession(q) \/ SaveRecords(q) \/ Stop(q)
      PROVE  Carried'
  <2>1. req' = [req EXCEPT ![q] = Idle] /\ Idle.step = "idle"
    BY <1>8 DEF SaveSession, EnrollSave, CommitSession, SaveRecords, Stop, Idle
  <2> QED
    BY <1>6, <2>1
<1>9. ASSUME NEW q \in Requests, NEW s \in Sessions, NEW g \in Groups,
             NEW roster \in {"yes", "no"}, CreateSession(q, s, g, roster)
      PROVE  Carried'
  <2>1. PICK who \in SUBSET Trainees : who = IF roster = "yes" THEN Active(g) ELSE {}
    BY DEF Active
  <2> DEFINE r == [step |-> "create", session |-> s, group |-> g, roster |-> roster, entitled |-> who]
  <2>2. req' = [req EXCEPT ![q] = r]
    BY <1>9, <2>1 DEF CreateSession
  <2>3. roster = "yes" => who \subseteq Active(g)'
    BY <1>2, <2>1 DEF Grows
  <2>4. Holds(r)'
    BY <2>1, <2>3 DEF Holds
  <2> HIDE DEF r
  <2> QED
    BY <1>5, <2>2, <2>4
<1>10. ASSUME NEW q \in Requests, NEW s \in Sessions, UpdateSession(q, s) PROVE Carried'
  <2>1. PICK row \in Row : row = session[s]
    BY <1>1
  <2>2. PICK known : known = records[s]
    OBVIOUS
  <2> DEFINE r == [step |-> "edit", session |-> s, row |-> row, known |-> known]
  <2>3. req' = [req EXCEPT ![q] = r]
    BY <1>10, <2>1, <2>2 DEF UpdateSession
  <2>4. row.status # "ABSENT" /\ session'[s] = row
    BY <1>10, <2>1 DEF UpdateSession
  <2>5. Holds(r)'
    BY <2>4 DEF Holds, Known
  <2> HIDE DEF r
  <2> QED
    BY <1>5, <2>3, <2>5
<1>11. ASSUME NEW q \in Requests, NEW s \in Sessions, NEW who \in SUBSET Trainees,
              MarkAttendance(q, s, who)
       PROVE  Carried'
  <2> DEFINE r == [step |-> "mark", session |-> s, who |-> who]
  <2>1. req' = [req EXCEPT ![q] = r] /\ session'[s].status = "SCHEDULED"
    BY <1>11 DEF MarkAttendance
  <2>2. Holds(r)'
    BY <2>1 DEF Holds, Known
  <2> HIDE DEF r
  <2> QED
    BY <1>5, <2>1, <2>2
<1>12. ASSUME NEW q \in Requests, ReadRoster(q) PROVE Carried'
  <2>1. /\ req[q].step = "create" /\ req[q].session \in Sessions /\ req[q].group \in Groups
        /\ req[q].entitled \in SUBSET Trainees
    BY <1>1, <1>12, ReqFields DEF ReadRoster
  <2>2. PICK s \in Sessions, g \in Groups, old \in SUBSET Trainees :
           s = req[q].session /\ g = req[q].group /\ old = req[q].entitled
    BY <2>1
  <2>3. PICK who \in SUBSET Trainees : who = IF req[q].roster = "yes" THEN Active(g) ELSE {}
    BY DEF Active
  <2> DEFINE r == [step |-> "fill", session |-> s, group |-> g, entitled |-> old, who |-> who]
  <2>4. req' = [req EXCEPT ![q] = r]
    BY <1>12, <2>2, <2>3 DEF ReadRoster
  <2>5. old \subseteq who
    BY <1>3, <2>1, <2>2, <2>3 DEF Holds
  <2>6. who \subseteq Active(g)'
    BY <1>2, <2>3 DEF Grows
  <2>7. Holds(r)'
    BY <2>5, <2>6 DEF Holds
  <2> HIDE DEF r
  <2> QED
    BY <1>5, <2>4, <2>7
<1>13. ASSUME NEW q \in Requests, ReadRecords(q) PROVE Carried'
  <2>1. /\ req[q].step = "mark" /\ req[q].session \in Sessions
        /\ req[q].who \in SUBSET Trainees /\ Known(req[q].session)
    BY <1>1, <1>3, <1>13, ReqFields DEF ReadRecords, Holds
  <2>2. PICK s \in Sessions, who \in SUBSET Trainees : s = req[q].session /\ who = req[q].who
    BY <2>1
  <2>3. PICK known : known = who \cap records[s]
    OBVIOUS
  <2> DEFINE r == [step |-> "save", session |-> s, who |-> who, known |-> known]
  <2>4. req' = [req EXCEPT ![q] = r] /\ who \subseteq Active(session[s].group)
    BY <1>13, <2>2, <2>3 DEF ReadRecords
  <2>5. PICK g \in Groups : g = session[s].group
    BY <1>1 DEF Row
  <2>6. Known(s)' /\ session'[s].group = g
    BY <1>2, <2>1, <2>2, <2>5 DEF Grows
  <2>7. who \subseteq Active(g)'
    BY <1>2, <2>4, <2>5 DEF Grows
  <2>8. Holds(r)'
    BY <2>6, <2>7 DEF Holds
  <2> HIDE DEF r
  <2> QED
    BY <1>5, <2>4, <2>8
<1>14. CASE \/ \E g \in Groups, places \in Capacities : UpdateGroup(g, places)
            \/ \E s \in Sessions : RemoveSession(s)
            \/ UNCHANGED vars
  BY <1>4, <1>14 DEF UpdateGroup, RemoveSession, vars
<1> QED
  BY <1>7, <1>8, <1>9, <1>10, <1>11, <1>12, <1>13, <1>14 DEF Next

(* The records and the sessions after one step. *)
LEMMA StepRecords ==
  RosterInv /\ [Next]_vars =>
      /\ Empty' /\ RosterComplete' /\ RecordsAreEnrolled'
      /\ \A s \in Sessions : records[s] \subseteq records'[s]
<1> DEFINE Goal == /\ Empty' /\ RosterComplete' /\ RecordsAreEnrolled'
                   /\ \A s \in Sessions : records[s] \subseteq records'[s]
<1> SUFFICES ASSUME RosterInv, [Next]_vars PROVE Goal
  OBVIOUS
<1>1. /\ TypeOK /\ session \in [Sessions -> Row] /\ records \in [Sessions -> SUBSET Trainees]
      /\ entitled \in [Sessions -> SUBSET Trainees]
  BY DEF RosterInv, TypeOK
<1>2. Grows
  BY StepGrows
<1>3. \A s \in Sessions : session[s].group \in Groups
  BY <1>1 DEF Row
<1>4. \A s \in Sessions : /\ ~ Known(s) => records[s] = {}
                          /\ entitled[s] \subseteq records[s]
                          /\ Known(s) => records[s] \subseteq Active(session[s].group)
  BY DEF RosterInv, Empty, RosterComplete, RecordsAreEnrolled, Known
(* One session, of which the group before and after the step are named. *)
<1>5. ASSUME UNCHANGED <<records, entitled>>, \A s \in Sessions : Known(s) <=> Known(s)'
      PROVE  Goal
  <2>1. Empty' /\ RosterComplete' /\ \A s \in Sessions : records[s] \subseteq records'[s]
    BY <1>4, <1>5 DEF Empty, RosterComplete
  <2>2. RecordsAreEnrolled'
    <3> SUFFICES ASSUME NEW s \in Sessions, Known(s)'
                 PROVE  records'[s] \subseteq (Active(session[s].group))'
      BY DEF RecordsAreEnrolled, Known
    <3>1. PICK g \in Groups : g = session[s].group
      BY <1>3
    <3>2. session'[s].group = g
      BY <1>2, <1>5, <3>1 DEF Grows
    <3>3. records'[s] \subseteq Active(g)'
      BY <1>2, <1>4, <1>5, <3>1 DEF Grows
    <3> QED
      BY <3>2, <3>3
  <2> QED
    BY <2>1, <2>2
<1>6. ASSUME UNCHANGED <<session, records, entitled>> PROVE Goal
  BY <1>5, <1>6 DEF Known
<1>7. ASSUME NEW s \in Sessions, RemoveSession(s) PROVE Goal
  <2>1. \A z \in Sessions : Known(z) <=> Known(z)'
    BY <1>1, <1>7 DEF RemoveSession, Known, Row
  <2> QED
    BY <1>5, <1>7, <2>1 DEF RemoveSession
<1>8. ASSUME NEW q \in Requests, NEW status \in {"SCHEDULED", "CANCELLED"}, SaveSession(q, status)
      PROVE  Goal
  <2>1. /\ req[q].step = "edit" /\ req[q].session \in Sessions /\ req[q].row \in Row
    BY <1>1, <1>8, ReqFields DEF SaveSession
  <2>2. Known(req[q].session)
    BY <2>1 DEF RosterInv, Carried, Holds
  <2>3. [req[q].row EXCEPT !.status = status].status # "ABSENT"
    BY <2>1 DEF Row
  <2>4. \A z \in Sessions : Known(z) <=> Known(z)'
    BY <1>1, <1>8, <2>1, <2>2, <2>3 DEF SaveSession, Known
  <2> QED
    BY <1>5, <1>8, <2>4 DEF SaveSession
<1>9. ASSUME NEW q \in Requests, CommitSession(q) PROVE Goal
  <2>1. /\ req[q].step = "fill" /\ req[q].session \in Sessions /\ req[q].group \in Groups
        /\ req[q].entitled \in SUBSET Trainees /\ req[q].who \in SUBSET Trainees
        /\ session[req[q].session].status = "ABSENT"
    BY <1>1, <1>9, ReqFields DEF CommitSession
  <2>2. PICK s \in Sessions, g \in Groups, who \in SUBSET Trainees, old \in SUBSET Trainees :
           s = req[q].session /\ g = req[q].group /\ who = req[q].who /\ old = req[q].entitled
    BY <2>1
  <2>3. old \subseteq who /\ who \subseteq Active(g)
    BY <2>1, <2>2 DEF RosterInv, Carried, Holds
  <2>4. who \subseteq Active(g)'
    BY <1>2, <2>3 DEF Grows
  <2>5. /\ session'[s] = [status |-> "SCHEDULED", group |-> g]
        /\ records'[s] = who /\ entitled'[s] = old
        /\ \A z \in Sessions : z # s => /\ session'[z] = session[z] /\ records'[z] = records[z]
                                        /\ entitled'[z] = entitled[z]
    BY <1>1, <1>9, <2>2 DEF CommitSession
  <2>6. records[s] = {}
    BY <1>4, <2>1, <2>2 DEF Known
  <2>7. Empty'
    BY <1>4, <2>5 DEF Empty, Known
  <2>8. RosterComplete'
    BY <1>4, <2>3, <2>5 DEF RosterComplete
  <2>9. RecordsAreEnrolled'
    <3> SUFFICES ASSUME NEW z \in Sessions, session'[z].status # "ABSENT"
                 PROVE  records'[z] \subseteq (Active(session[z].group))'
      BY DEF RecordsAreEnrolled
    <3>1. CASE z = s
      <4>1. session'[z].group = g /\ records'[z] = who
        BY <2>5, <3>1
      <4> QED
        BY <2>4, <4>1
    <3>2. CASE z # s
      <4>1. PICK h \in Groups : h = session[z].group
        BY <1>3
      <4>2. session'[z].group = h /\ records'[z] = records[z] /\ Known(z)
        BY <2>5, <3>2, <4>1 DEF Known
      <4>3. records[z] \subseteq Active(h)'
        BY <1>2, <1>4, <4>1, <4>2 DEF Grows
      <4> QED
        BY <4>2, <4>3
    <3> QED
      BY <3>1, <3>2
  <2>10. \A z \in Sessions : records[z] \subseteq records'[z]
    BY <2>5, <2>6
  <2> QED
    BY <2>7, <2>8, <2>9, <2>10
<1>10. ASSUME NEW q \in Requests, SaveRecords(q) PROVE Goal
  <2>1. /\ req[q].step = "save" /\ req[q].session \in Sessions /\ req[q].who \in SUBSET Trainees
    BY <1>1, <1>10, ReqFields DEF SaveRecords
  <2>2. PICK s \in Sessions, who \in SUBSET Trainees : s = req[q].session /\ who = req[q].who
    BY <2>1
  <2>3. Known(s) /\ who \subseteq Active(session[s].group)
    BY <2>1, <2>2 DEF RosterInv, Carried, Holds
  <2>4. /\ records'[s] = records[s] \cup who
        /\ \A z \in Sessions : z # s => records'[z] = records[z]
        /\ session' = session /\ entitled' = entitled /\ enrolment' = enrolment
    BY <1>1, <1>10, <2>2 DEF SaveRecords
  <2>5. \A h : Active(h)' = Active(h)
    BY <2>4 DEF Active
  <2>6. Empty'
    BY <1>4, <2>3, <2>4 DEF Empty, Known
  <2>7. RosterComplete'
    BY <1>4, <2>4 DEF RosterComplete
  <2>8. RecordsAreEnrolled'
    <3> SUFFICES ASSUME NEW z \in Sessions, session'[z].status # "ABSENT"
                 PROVE  records'[z] \subseteq (Active(session[z].group))'
      BY DEF RecordsAreEnrolled
    <3>1. PICK h \in Groups : h = session[z].group
      BY <1>3
    <3>2. session'[z].group = h /\ Known(z) /\ records[z] \subseteq Active(h)
      BY <1>4, <2>4, <3>1 DEF Known
    <3>3. records'[z] \subseteq Active(h)
      BY <2>2, <2>3, <2>4, <3>1, <3>2
    <3>4. records'[z] \subseteq Active(h)'
      BY <2>5, <3>3
    <3> QED
      BY <3>2, <3>4
  <2>9. \A z \in Sessions : records[z] \subseteq records'[z]
    BY <2>4
  <2> QED
    BY <2>6, <2>7, <2>8, <2>9
<1>11. CASE \/ \E g \in Groups, places \in Capacities : UpdateGroup(g, places)
            \/ UNCHANGED vars
  BY <1>6, <1>11 DEF UpdateGroup, vars
<1>12. ASSUME NEW q \in Requests,
              \/ \E t \in Trainees, g \in Groups : EnrollRead(q, t, g)
              \/ \E s \in Sessions, g \in Groups, roster \in {"yes", "no"} : CreateSession(q, s, g, roster)
              \/ \E s \in Sessions : UpdateSession(q, s)
              \/ \E s \in Sessions, who \in SUBSET Trainees : MarkAttendance(q, s, who)
              \/ EnrollCount(q) \/ EnrollSave(q) \/ ReadRoster(q) \/ ReadRecords(q) \/ Stop(q)
       PROVE  Goal
  BY <1>6, <1>12 DEF EnrollRead, CreateSession, UpdateSession, MarkAttendance, EnrollCount,
                     EnrollSave, ReadRoster, ReadRecords, Stop
<1> HIDE DEF Goal
<1> QED
  BY <1>7, <1>8, <1>9, <1>10, <1>11, <1>12 DEF Next

LEMMA StepRoster == RosterInv /\ [Next]_vars => RosterInv'
  BY StepType, StepCarried, StepRecords DEF RosterInv

LEMMA RosterAlways == Spec => []RosterInv
  BY InitRoster, StepRoster, PTL DEF Spec

(* The roster of a session, once visible, has everyone who was enrolled    *)
(* when its creation began, for ever (createSession, updateSession).       *)
THEOREM RostersAreComplete == Spec => []RosterComplete
<1>1. RosterInv => RosterComplete
  BY DEF RosterInv
<1> QED
  BY <1>1, RosterAlways, PTL

(* Whoever has a record has an active place in the session's group         *)
(* (createSession, markAttendance).                                        *)
THEOREM RecordsOfEnrolled == Spec => []RecordsAreEnrolled
<1>1. RosterInv => RecordsAreEnrolled
  BY DEF RosterInv
<1> QED
  BY <1>1, RosterAlways, PTL

(* No step of any request loses an attendance record (updateSession). *)
THEOREM RecordsNeverLost == Spec => RecordsKept
<1>1. RosterInv /\ [Next]_vars => [\A s \in Sessions : records[s] \subseteq records'[s]]_vars
  BY StepRecords
<1> QED
  BY <1>1, RosterAlways, PTL DEF Spec, RecordsKept
=============================================================================
