------------------------------ MODULE Rankings ------------------------------
(***************************************************************************)
(* Points of trainees (backend/src/rankings).  There is one row for an     *)
(* academy and a trainee, removed or not; setting points finds it, removed *)
(* or not, and saves it, or inserts it.  The list has the live rows.       *)
(*                                                                         *)
(* Left out: notes, branches and names.  Points are a member of a small    *)
(* set.                                                                    *)
(***************************************************************************)
EXTENDS Persistence

CONSTANTS
    Ranked,     \* trainees
    Scorers,    \* requests that may run at the same time
    Points

ASSUME RankingsAssumption == Points # {}

VARIABLES
    score,      \* the trainee_rankings row of each trainee
    scoring,    \* where each request stands
    disturbed   \* history: requests during which another changed their row

rankingVars == <<score, scoring, disturbed>>

ScoreRow == [state : {"none", "live", "removed"}, points : Points]
NoScoring == [step |-> "idle"]
Scoring ==
    {NoScoring}
    \cup [step : {"find", "insert", "save"}, trainee : Ranked, points : Points]
    \cup [step : {"write"}, trainee : Ranked, entity : ScoreRow, base : ScoreRow]
    \cup [step : {"remove"}, trainee : Ranked]

RankingsInit ==
    /\ score = [t \in Ranked |-> [state |-> "none", points |-> CHOOSE p \in Points : TRUE]]
    /\ scoring = [q \in Scorers |-> NoScoring]
    /\ disturbed = {}

(* q changes the row of t, under the eyes of the others. *)
Change(q, t, row) ==
    /\ score' = [score EXCEPT ![t] = row]
    /\ disturbed' = (disturbed \ {q})
          \cup {r \in Scorers \ {q} : scoring[r] # NoScoring /\ scoring[r].trainee = t}

Idle(q) == scoring' = [scoring EXCEPT ![q] = NoScoring]

(* update, remove *)
SetPoints(q, t, points) ==
    /\ scoring[q] = NoScoring
    /\ scoring' = [scoring EXCEPT ![q] = [step |-> "find", trainee |-> t, points |-> points]]
    /\ UNCHANGED <<score, disturbed>>

(* Slip: removed rows are not found. *)
FoundLive(row) == row.state = "live"

Found(row) == row.state # "none"        \* withDeleted: true

FindScore(q) ==
    LET s == scoring[q]
    IN  /\ s.step = "find"
        /\ scoring' = [scoring EXCEPT ![q].step = IF Found(score[s.trainee]) THEN "save" ELSE "insert"]
        /\ UNCHANGED <<score, disturbed>>

(* UQ_trainee_rankings_academy_trainee *)
InsertScore(q) ==
    LET s == scoring[q]
    IN  /\ s.step = "insert" /\ score[s.trainee].state = "none"
        /\ Change(q, s.trainee, [state |-> "live", points |-> s.points])
        /\ Idle(q)

(* save selects the row, removed or not ... *)
SelectScore(q) ==
    LET s == scoring[q]
    IN  /\ s.step = "save"
        /\ scoring' = [scoring EXCEPT ![q] =
              [step |-> "write", trainee |-> s.trainee, base |-> score[s.trainee],
               entity |-> [state |-> "live", points |-> s.points]]]
        /\ UNCHANGED <<score, disturbed>>

(* ... and writes what differs. *)
WriteScore(q) ==
    LET s == scoring[q]
    IN  /\ s.step = "write"
        /\ Change(q, s.trainee, Written(s.entity, s.base, score[s.trainee]))
        /\ Idle(q)

FindForRemoval(q, t) ==
    /\ scoring[q] = NoScoring
    /\ score[t].state = "live"
    /\ scoring' = [scoring EXCEPT ![q] = [step |-> "remove", trainee |-> t]]
    /\ UNCHANGED <<score, disturbed>>

RemoveScore(q) ==
    LET s == scoring[q]
    IN  /\ s.step = "remove"
        /\ Change(q, s.trainee, [score[s.trainee] EXCEPT !.state = "removed"])
        /\ Idle(q)

(* The index's refusal, another error or a crash. *)
FailScoring(q) ==
    /\ scoring[q] # NoScoring
    /\ Idle(q)
    /\ disturbed' = disturbed \ {q}
    /\ UNCHANGED score

RankingsNext ==
    \E q \in Scorers :
        \/ \E t \in Ranked : FindForRemoval(q, t) \/ \E points \in Points : SetPoints(q, t, points)
        \/ FindScore(q) \/ InsertScore(q) \/ SelectScore(q) \/ WriteScore(q)
        \/ RemoveScore(q) \/ FailScoring(q)

RankingsSpec == RankingsInit /\ [][RankingsNext]_rankingVars

-----------------------------------------------------------------------------
RankingsTypeOK ==
    /\ score \in [Ranked -> ScoreRow]
    /\ scoring \in [Scorers -> Scoring]
    /\ disturbed \subseteq Scorers

(* Setting points works again and again, with removals in between          *)
(* (rankings.service.ts, update): the index, which counts removed rows,    *)
(* refuses the insert only if another request has changed the row since    *)
(* this one began.                                                         *)
ScoreRowFound ==
    \A q \in Scorers \ disturbed :
        scoring[q].step = "insert" => score[scoring[q].trainee].state = "none"
=============================================================================
