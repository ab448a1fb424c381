--------------------------- MODULE WorkflowProofs ---------------------------
(***************************************************************************)
(* Proofs about Workflow, for any number of steps, rows, server processes  *)
(* and administrators: every variable keeps its type and a task type has   *)
(* one open row of an entity at most.                                      *)
(***************************************************************************)
EXTENDS Workflow, TLAPS

(* A process that is about to update a row, or to go on from one that was  *)
(* completed, knows which.                                                 *)
Aimed == {"update", "unblock"}
Addressed == \A w \in Workers : worker[w].pc \in Aimed => worker[w].id \in Rows

TypeInv == TypeOK /\ Addressed

-----------------------------------------------------------------------------
LEMMA StepNumbers ==
    /\ Add \in Steps /\ Link \in Steps /\ Last \in Steps /\ 0 \in Steps
    /\ Manager + 1 \in 1..Add
    /\ \A i \in 1..Setup : i + 1 \in 1..Add
    /\ 1..Add \subseteq Steps /\ Link..Last \subseteq Steps
    /\ Link \in Link..Last
    /\ \A i \in Link..(Last - 1) : i + 1 \in Link..Last
    /\ \A i \in Add..(Last - 1) : i + 1 \in Steps
  BY WorkflowAssumption DEF Add, Link, Steps

LEMMA CallTypes ==
    ASSUME NEW i \in Steps, NEW wait \in Rows \cup {None}
    PROVE  /\ Own \in Entities
           /\ \A e \in Entities, s \in Status : Create(i, e, s, wait) \in Call
           /\ Complete(i) \in Call
           /\ [kind |-> "open", at |-> i, of |-> Own, give |-> "READY", wait |-> None] \in Call
           /\ [kind |-> "open", at |-> i, of |-> Own, give |-> "PENDING", wait |-> wait] \in Call
  <1>1. Own \in Entities
    BY WorkflowAssumption
  <1> QED
    BY <1>1 DEF Create, Complete, Call, Status

LEMMA SetupCallType ==
    ASSUME NEW i \in 1..Add, NEW seen, NEW before \in Rows \cup {None}
    PROVE  SetupCall(i, seen, before) \in Call
  <1>1. i \in Steps /\ {"READY", "PENDING"} \subseteq Status /\ None \in Rows \cup {None}
    BY StepNumbers DEF Status
  <1> QED
    BY <1>1, CallTypes DEF SetupCall

LEMMA OperationCallType ==
    ASSUME NEW i \in Link..Last, NEW seen, NEW before \in Rows \cup {None}, NEW status
    PROVE  OperationCall(i, seen, before, status) \in Call
  <1>1. i \in Steps
    BY StepNumbers
  <1> QED
    BY <1>1, CallTypes DEF OperationCall

LEMMA IdleType == Idle \in Worker /\ Idle.pc = "idle" /\ [Idle EXCEPT !.pc = "apply"] \in Worker
  <1>1. Create(0, Own, "READY", None) \in Call
    BY CallTypes, StepNumbers DEF Status
  <1> QED
    BY <1>1 DEF Idle, Worker

LEMMA EndedType ==
    ASSUME NEW w \in Workers
    PROVE  Ended(w) \in Worker /\ Ended(w).pc \notin Aimed
  BY IdleType DEF Ended, Idle, Aimed

LEMMA DoingType ==
    ASSUME TypeOK, NEW w \in Workers, NEW c \in Call, NEW prev \in Rows \cup {None}
    PROVE  /\ Doing(w, c, prev) \in Worker
           /\ Doing(w, c, prev).pc \notin Aimed
  BY DEF TypeOK, Doing, Worker, Aimed

LEMMA ReturnedType ==
    ASSUME TypeOK, NEW w \in Workers, NEW r \in Rows \cup {None}, NEW status
    PROVE  /\ Returned(w, r, status) \in Worker
           /\ Returned(w, r, status).pc \notin Aimed
  <1> DEFINE c == worker[w].call
             seen == worker[w].seen
  <1>1. /\ worker[w] \in Worker /\ c \in Call /\ c.at \in Steps
        /\ worker[w].prev \in Rows \cup {None} /\ None \in Rows \cup {None}
    BY DEF TypeOK, Worker, Call
  <1>2. Idle \in Worker /\ Idle.pc \notin Aimed /\ Ended(w) \in Worker /\ Ended(w).pc \notin Aimed
    BY IdleType, EndedType DEF Aimed
  <1>3. /\ Create(0, Own, "READY", None) \in Call /\ Create(Link, Own, "READY", None) \in Call
        /\ SetupCall(Manager + 1, seen, worker[w].prev) \in Call
        /\ c.at \in 1..Setup => SetupCall(c.at + 1, seen, r) \in Call
        /\ c.at \in Link..(Last - 1) => OperationCall(c.at + 1, seen, r, status) \in Call
    BY <1>1, StepNumbers, CallTypes, SetupCallType, OperationCallType DEF Status
  <1>4. LET x == [worker[w] EXCEPT !.pc = "operations", !.id = None]
        IN  x \in Worker /\ x.pc \notin Aimed
    BY <1>1 DEF Worker, Aimed
  <1>5. \A d \in Call, p \in Rows \cup {None} : Doing(w, d, p) \in Worker /\ Doing(w, d, p).pc \notin Aimed
    BY DoingType
  <1> HIDE DEF c, seen
  <1>6. ASSUME NEW x, x = Returned(w, r, status) PROVE x \in Worker /\ x.pc \notin Aimed
    BY <1>1, <1>2, <1>3, <1>4, <1>5, <1>6 DEF Returned, c, seen
  <1> QED
    BY <1>6

(* A process that moves leaves the others where they are. *)
LEMMA GotoEffect ==
    ASSUME TypeInv, NEW w \in Workers, NEW x \in Worker,
           x.pc \in Aimed => x.id \in Rows, Goto(w, x)
    PROVE  worker' \in [Workers -> Worker] /\ Addressed'
  BY DEF TypeInv, TypeOK, Addressed, Goto

LEMMA ReleasedType ==
    ASSUME TypeOK
    PROVE  Released \in [Rows -> Task]
  <1>1. ASSUME NEW r \in Rows PROVE [task[r] EXCEPT !.status = "READY", !.wait = None] \in Task
    BY DEF TypeOK, Task, Status
  <1>2. \A r \in Rows : task[r] \in Task
    BY DEF TypeOK
  <1> QED
    BY <1>1, <1>2 DEF Released

LEMMA ApplyType ==
    ASSUME TypeOK, ApplyInternalState
    PROVE  task' \in [Rows -> Task]
  BY ReleasedType DEF ApplyInternalState

LEMMA RewrittenType ==
    ASSUME TypeOK, NEW r \in Rows, NEW c \in Call
    PROVE  Rewritten(r, c) \in Task
  <1>1. [task[r] EXCEPT !.status = "COMPLETED"] \in Task
    BY DEF TypeOK, Task, Status
  <1>2. [status |-> c.give, wait |-> c.wait] \in Task
    BY DEF Call, Task
  <1> QED
    BY <1>1, <1>2 DEF Rewritten

-----------------------------------------------------------------------------
LEMMA TypeInit == Init => TypeInv
  <1> SUFFICES ASSUME Init PROVE TypeInv
    OBVIOUS
  <1>1. TypeOK
    BY IdleType, WorkflowAssumption DEF Init, Possible, TypeOK, NoTask, Task
  <1>2. Addressed
    BY IdleType DEF Init, Addressed, Aimed
  <1> QED
    BY <1>1, <1>2 DEF TypeInv

(* The steps of a synchronisation and of a request under way. *)
LEMMA WorkType ==
    ASSUME TypeInv, NEW w \in Workers, Work(w)
    PROVE  TypeInv'
  <1>0. /\ TypeOK /\ worker[w] \in Worker /\ worker[w].call \in Call
        /\ worker[w].call.at \in Steps
        /\ worker[w].call.of \in Entities /\ worker[w].id \in Rows \cup {None}
    BY DEF TypeInv, TypeOK, Worker, Call
  <1>1. CASE ReadCounts(w)
    <2> DEFINE d == Doing(w, SetupCall(1, facts, None), None)
               x == [d EXCEPT !.seen = facts]
    <2>1. SetupCall(1, facts, None) \in Call
      BY SetupCallType, StepNumbers, WorkflowAssumption DEF Add
    <2>2. d \in Worker /\ d.pc \notin Aimed
      BY <1>0, <2>1, DoingType
    <2> HIDE DEF d
    <2>3. x \in Worker /\ x.pc \notin Aimed
      BY <1>0, <2>2 DEF Worker, TypeOK
    <2>4. Goto(w, x)
      BY <1>1 DEF ReadCounts, Goto, d
    <2>5. worker' \in [Workers -> Worker] /\ Addressed'
      BY <2>3, <2>4, GotoEffect
    <2> QED
      BY <1>0, <1>1, <2>5 DEF ReadCounts, TypeInv, TypeOK, bounds, latest
  <1>2. CASE ReadOperations(w)
    <2> DEFINE r == lastAdd
               d == Doing(w, OperationCall(Link, facts, r, task[r].status), None)
               x == [d EXCEPT !.seen = facts]
    <2>1. OperationCall(Link, facts, r, task[r].status) \in Call
      BY <1>0, OperationCallType, StepNumbers DEF TypeOK
    <2>2. d \in Worker /\ d.pc \notin Aimed
      BY <1>0, <2>1, DoingType
    <2> HIDE DEF d
    <2>3. x \in Worker /\ x.pc \notin Aimed
      BY <1>0, <2>2 DEF Worker, TypeOK
    <2>4. Goto(w, x)
      BY <1>2 DEF ReadOperations, Goto, d
    <2>5. worker' \in [Workers -> Worker] /\ Addressed'
      BY <2>3, <2>4, GotoEffect
    <2> QED
      BY <1>0, <1>2, <2>5 DEF ReadOperations, TypeInv, TypeOK, bounds, latest
  <1>3. CASE Find(w)
    <2>1. ASSUME NEW r \in Rows
          PROVE  LET x == [worker[w] EXCEPT !.pc = "update", !.id = r]
                 IN  x \in Worker /\ x.id \in Rows
      BY <1>0 DEF Worker, Aimed
    <2>2. LET x == [worker[w] EXCEPT !.pc = "missing"] IN x \in Worker /\ x.pc \notin Aimed
      BY <1>0 DEF Worker, Aimed
    <2>3. \A r \in OpenRows(worker[w].call.at, worker[w].call.of) : r \in Rows
      BY DEF OpenRows
    <2>4. \A r \in {newest[<<worker[w].call.at, worker[w].call.of>>]} \ {None} : r \in Rows
      BY <1>0 DEF TypeOK
    <2>5. \/ Goto(w, [worker[w] EXCEPT !.pc = "missing"])
          \/ \E r \in Rows : Goto(w, [worker[w] EXCEPT !.pc = "update", !.id = r])
      BY <1>3, <2>3, <2>4 DEF Find
    <2>6. worker' \in [Workers -> Worker] /\ Addressed'
      BY <2>1, <2>2, <2>5, GotoEffect
    <2> QED
      BY <1>0, <1>3, <2>6 DEF Find, TypeInv, TypeOK, bounds, latest
  <1>4. CASE Missing(w)
    <2>1. \A p \in {"insert", "reload"} :
             LET x == [worker[w] EXCEPT !.pc = p] IN x \in Worker /\ x.pc \notin Aimed
      BY <1>0 DEF Worker, Aimed
    <2>2. ASSUME NEW r \in OpenRows(worker[w].call.at, worker[w].call.of)
          PROVE  LET x == Returned(w, r, task[r].status) IN x \in Worker /\ x.pc \notin Aimed
      BY <1>0, <2>2, ReturnedType DEF OpenRows
    <2>3. \/ \E p \in {"insert", "reload"} : Goto(w, [worker[w] EXCEPT !.pc = p])
          \/ \E r \in OpenRows(worker[w].call.at, worker[w].call.of) : Goto(w, Returned(w, r, task[r].status))
      BY <1>4 DEF Missing
    <2>4. worker' \in [Workers -> Worker] /\ Addressed'
      BY <2>1, <2>2, <2>3, GotoEffect
    <2> QED
      BY <1>0, <1>4, <2>4 DEF Missing, TypeInv, TypeOK, bounds, latest
  <1>5. CASE Insert(w)
    <2> DEFINE c == worker[w].call
               r == CHOOSE q \in Room(c.at, c.of) : TRUE
    <2>1. r \in Rows
      BY <1>5 DEF Insert, Room
    <2> HIDE DEF r
    <2>2. LET x == [worker[w] EXCEPT !.pc = "reload"] IN x \in Worker /\ x.pc \notin Aimed
      BY <1>0 DEF Worker, Aimed
    <2>3. LET x == Returned(w, r, c.give) IN x \in Worker /\ x.pc \notin Aimed
      BY <1>0, <2>1, ReturnedType
    <2>4. \/ Goto(w, Ended(w)) \/ Goto(w, Returned(w, r, c.give))
          \/ Goto(w, [worker[w] EXCEPT !.pc = "reload"])
      BY <1>5 DEF Insert, r
    <2>5. worker' \in [Workers -> Worker] /\ Addressed'
      BY <2>2, <2>3, <2>4, EndedType, GotoEffect
    <2>6. [status |-> c.give, wait |-> c.wait] \in Task
      BY <1>0 DEF Call, Task
    <2>7. \/ task' = task /\ newest' = newest /\ lastAdd' = lastAdd
          \/ /\ task' = [task EXCEPT ![r] = [status |-> c.give, wait |-> c.wait]]
             /\ newest' = [newest EXCEPT ![<<c.at, c.of>>] = r]
             /\ lastAdd' \in {r, lastAdd}
      BY <1>5 DEF Insert, r, latest
    <2>8. /\ task' \in [Rows -> Task] /\ newest' \in [Steps \X Entities -> Rows \cup {None}]
          /\ lastAdd' \in Rows \cup {None}
      BY <1>0, <2>1, <2>6, <2>7 DEF TypeOK
    <2> QED
      BY <1>0, <1>5, <2>5, <2>8 DEF Insert, TypeInv, TypeOK, bounds, latest
  <1>6. CASE Update(w)
    <2> DEFINE r == worker[w].id
               x == [worker[w] EXCEPT !.pc = "reload"]
    <2>1. r \in Rows
      BY <1>6 DEF Update, TypeInv, Addressed, Aimed
    <2>2. x \in Worker /\ x.pc \notin Aimed
      BY <1>0 DEF Worker, Aimed
    <2>3. Goto(w, Ended(w)) \/ Goto(w, x)
      BY <1>6 DEF Update
    <2>4. worker' \in [Workers -> Worker] /\ Addressed'
      BY <2>2, <2>3, EndedType, GotoEffect
    <2>5. task' = task \/ task' = [task EXCEPT ![r] = Rewritten(r, worker[w].call)]
      BY <1>6 DEF Update
    <2>6. Rewritten(r, worker[w].call) \in Task
      BY <1>0, <2>1, RewrittenType
    <2>7. task' \in [Rows -> Task]
      BY <1>0, <2>1, <2>5, <2>6 DEF TypeOK
    <2> QED
      BY <1>0, <1>6, <2>4, <2>7 DEF Update, TypeInv, TypeOK, bounds, latest
  <1>7. CASE Reload(w)
    <2> DEFINE r == IF worker[w].id = None THEN newest[<<worker[w].call.at, worker[w].call.of>>] ELSE worker[w].id
    <2>1. r \in Rows \cup {None}
      BY <1>0 DEF TypeOK
    <2>2. LET x == Returned(w, r, task[r].status) IN x \in Worker /\ x.pc \notin Aimed
      BY <1>0, <2>1, ReturnedType
    <2>3. worker' \in [Workers -> Worker] /\ Addressed'
      BY <1>7, <2>2, GotoEffect DEF Reload
    <2> QED
      BY <1>0, <1>7, <2>3 DEF Reload, TypeInv, TypeOK, bounds, latest
  <1>8. CASE Unblock(w)
    <2> DEFINE r == worker[w].id
    <2>0. r \in Rows
      BY <1>8 DEF Unblock, TypeInv, Addressed, Aimed
    <2>1. r[1] \in Add..(Last - 1) => Create(r[1] + 1, r[2], "READY", None) \in Call
      <3>1. r[2] \in Entities /\ "READY" \in Status /\ None \in Rows \cup {None}
        BY <2>0 DEF Rows, Status
      <3> QED
        BY <3>1, StepNumbers, CallTypes
    <2>2. r[1] \in Add..(Last - 1) =>
             LET x == Doing(w, Create(r[1] + 1, r[2], "READY", None), None)
             IN  x \in Worker /\ x.pc \notin Aimed
      BY <1>0, <2>1, DoingType
    <2>3. \/ Goto(w, Idle)
          \/ r[1] \in Add..(Last - 1) /\ Goto(w, Doing(w, Create(r[1] + 1, r[2], "READY", None), None))
      BY <1>8 DEF Unblock
    <2>4. worker' \in [Workers -> Worker] /\ Addressed'
      BY <2>2, <2>3, IdleType, GotoEffect DEF Aimed
    <2>5. \A q \in Rows : /\ task[q] \in Task
                          /\ [task[q] EXCEPT !.status = "READY", !.wait = None] \in Task
      BY <1>0 DEF TypeOK, Task, Status
    <2>6. task' \in [Rows -> Task]
      BY <1>8, <2>5 DEF Unblock
    <2> QED
      BY <1>0, <1>8, <2>4, <2>6 DEF Unblock, TypeInv, TypeOK, bounds, latest
  <1> QED
    BY <1>1, <1>2, <1>3, <1>4, <1>5, <1>6, <1>7, <1>8 DEF Work

(* The cycle's ends and the requests. *)
LEMMA RequestType ==
    ASSUME TypeInv, NEW u \in Workers, Cycle(u) \/ Request(u) \/ Stop(u)
    PROVE  TypeInv'
  <1>0. TypeOK
    BY DEF TypeInv
  <1>b. LET x == [Idle EXCEPT !.pc = "counts", !.job = "sync"] IN x \in Worker /\ x.pc \notin Aimed
    BY IdleType DEF Idle, Worker, Aimed
  <1>1. CASE CycleBegin(u) \/ CycleEnd(u)
    <2>1. Goto(u, [Idle EXCEPT !.pc = "counts", !.job = "sync"]) \/ Goto(u, Idle)
      BY <1>1 DEF CycleBegin, CycleEnd
    <2>2. worker' \in [Workers -> Worker] /\ Addressed'
      BY <1>b, <2>1, IdleType, GotoEffect DEF Aimed
    <2>3. task' \in [Rows -> Task]
      BY <1>0, <1>1, ApplyType DEF CycleBegin, CycleEnd
    <2> QED
      BY <1>0, <1>1, <2>2, <2>3 DEF CycleBegin, CycleEnd, TypeInv, TypeOK, bounds, latest
  <1>2. CASE SyncRequest(u)
    <2>1. worker' \in [Workers -> Worker] /\ Addressed'
      BY <1>b, <1>2, GotoEffect DEF SyncRequest
    <2> QED
      BY <1>0, <1>2, <2>1, WorkflowAssumption DEF SyncRequest, Welcome, latest, TypeInv, TypeOK
  <1>3. ASSUME NEW r \in Rows, NEW s \in Choices, UpdateTaskStatus(u, r, s) PROVE TypeInv'
    <2> DEFINE x == [Idle EXCEPT !.pc = "unblock", !.job = "request", !.id = r]
    <2>1. x \in Worker /\ x.id \in Rows
      BY IdleType DEF Idle, Worker
    <2>2. Goto(u, x) \/ Goto(u, Idle)
      BY <1>3 DEF UpdateTaskStatus
    <2>3. worker' \in [Workers -> Worker] /\ Addressed'
      BY <2>1, <2>2, IdleType, GotoEffect DEF Aimed
    <2>4. [task[r] EXCEPT !.status = s] \in Task
      BY <1>0, WorkflowAssumption DEF TypeOK, Task
    <2>5. task' \in [Rows -> Task]
      BY <1>0, <1>3, <2>4 DEF UpdateTaskStatus, TypeOK
    <2> QED
      BY <1>0, <1>3, <2>3, <2>5, WorkflowAssumption DEF UpdateTaskStatus, Welcome, latest, TypeInv, TypeOK
  <1>4. ASSUME NEW r \in Rows, EscalateTask(u, r) PROVE TypeInv'
    <2>1. [task[r] EXCEPT !.status = "ESCALATED"] \in Task
      BY <1>0 DEF TypeOK, Task, Status
    <2>2. task' \in [Rows -> Task]
      BY <1>0, <1>4, <2>1 DEF EscalateTask, TypeOK
    <2> QED
      BY <1>0, <1>4, <2>2, WorkflowAssumption DEF EscalateTask, Welcome, latest, TypeInv, TypeOK, Addressed
  <1>5. ASSUME NEW i \in Steps, NEW e \in Entities, NEW s \in Choices \cup {"READY"},
               NEW b \in Rows \cup {None},
               CreateTask(u, i, e, s, b)
        PROVE  TypeInv'
    <2> DEFINE d == Doing(u, Create(i, e, s, b), None)
               x == [d EXCEPT !.job = "request"]
    <2>0. s \in Status
      BY WorkflowAssumption DEF Status
    <2>1. Create(i, e, s, b) \in Call
      BY <2>0, CallTypes
    <2>2. d \in Worker /\ d.pc \notin Aimed
      BY <1>0, <2>1, DoingType
    <2> HIDE DEF d
    <2>3. x \in Worker /\ x.pc \notin Aimed
      BY <2>2 DEF Worker
    <2>4. Goto(u, x)
      BY <1>5 DEF CreateTask, d
    <2>5. worker' \in [Workers -> Worker] /\ Addressed'
      BY <2>3, <2>4, GotoEffect
    <2> QED
      BY <1>0, <1>5, <2>5, WorkflowAssumption DEF CreateTask, Welcome, latest, TypeInv, TypeOK
  <1>6. CASE Stop(u)
    <2>1. worker' \in [Workers -> Worker] /\ Addressed'
      BY <1>6, IdleType, EndedType, GotoEffect DEF Aimed, Stop
    <2> QED
      BY <1>0, <1>6, <2>1, WorkflowAssumption DEF Stop, latest, TypeInv, TypeOK
  <1> QED
    BY <1>1, <1>2, <1>3, <1>4, <1>5, <1>6 DEF Cycle, Request

LEMMA TypeStep == TypeInv /\ [Next]_vars => TypeInv'
  <1> SUFFICES ASSUME TypeInv, [Next]_vars PROVE TypeInv'
    OBVIOUS
  <1>1. ASSUME NEW w \in Workers, Work(w) \/ Stop(w) PROVE TypeInv'
    BY <1>1, WorkType, RequestType
  <1>2. ASSUME NEW a \in Automations, Cycle(a) PROVE TypeInv'
    BY <1>2, RequestType DEF Workers
  <1>3. ASSUME NEW u \in Admins, Request(u) PROVE TypeInv'
    BY <1>3, RequestType DEF Workers
  <1>4. ASSUME NEW i \in Steps, Change(i) PROVE TypeInv'
    BY <1>4, WorkflowAssumption DEF Change, latest, Possible, TypeInv, TypeOK, Addressed
  <1>5. CASE UNCHANGED vars
    BY <1>5 DEF vars, latest, TypeInv, TypeOK, Addressed
  <1> QED
    BY <1>1, <1>2, <1>3, <1>4, <1>5 DEF Next

(* Every variable of Workflow keeps its type. *)
THEOREM TypeCorrect == Spec => []TypeOK
  <1>1. TypeInv => TypeOK
    BY DEF TypeInv
  <1> QED
    BY TypeInit, TypeStep, <1>1, PTL DEF Spec

-----------------------------------------------------------------------------
(* Open rows. *)
OpenInv == TypeInv /\ OneOpenTask

(* No row is opened. *)
LEMMA NoneOpened ==
    ASSUME OneOpenTask,
           \A r \in Rows : task'[r].status \in Open => task[r].status \in Open
    PROVE  OneOpenTask'
  BY DEF OneOpenTask

(* One row is written, to an open status only if no other of its kind is open. *)
LEMMA OneWritten ==
    ASSUME TypeOK, OneOpenTask, NEW r \in Rows, NEW x,
           task' = [task EXCEPT ![r] = x],
           x.status \in Open => ~ Taken(r)
    PROVE  OneOpenTask'
  <1>1. /\ task'[r] = x
        /\ \A q \in Rows \ {r} : task'[q] = task[q]
    BY DEF TypeOK
  <1>2. x.status \in Open => \A q \in Rows \ {r} : q[1] = r[1] /\ q[2] = r[2] => task[q].status \notin Open
    BY DEF Taken, OpenRows
  <1> QED
    BY <1>1, <1>2 DEF OneOpenTask

LEMMA OpenStep == OpenInv /\ [Next]_vars => OpenInv'
  <1> SUFFICES ASSUME OpenInv, [Next]_vars PROVE OneOpenTask'
    BY TypeStep DEF OpenInv
  <1>0. TypeInv /\ TypeOK /\ OneOpenTask
    BY DEF OpenInv, TypeInv
  <1>s. {"PENDING", "READY"} \subseteq Open /\ "COMPLETED" \notin Open
    BY DEF Open, Status
  <1>1. ASSUME NEW w \in Workers, Insert(w) PROVE OneOpenTask'
    <2> DEFINE c == worker[w].call
               r == CHOOSE q \in Room(c.at, c.of) : TRUE
    <2>1. r \in Rows
      BY <1>1 DEF Insert, Room
    <2> HIDE DEF r
    <2>2. \/ task' = task
          \/ /\ task' = [task EXCEPT ![r] = [status |-> c.give, wait |-> c.wait]]
             /\ ~ (c.give \in Open /\ Taken(r))
      BY <1>1 DEF Insert, r
    <2> QED
      BY <1>0, <2>1, <2>2, NoneOpened, OneWritten
  <1>2. ASSUME NEW w \in Workers, Update(w) PROVE OneOpenTask'
    <2> DEFINE r == worker[w].id
               x == Rewritten(r, worker[w].call)
    <2>1. r \in Rows
      BY <1>0, <1>2 DEF Update, TypeInv, Addressed, Aimed
    <2>2. \/ task' = task
          \/ task' = [task EXCEPT ![r] = x] /\ ~ (x.status \in Open /\ Taken(r))
      BY <1>2 DEF Update
    <2> HIDE DEF x
    <2> QED
      BY <1>0, <2>1, <2>2, NoneOpened, OneWritten
  <1>3. ASSUME NEW w \in Workers, Unblock(w) PROVE OneOpenTask'
    <2>1. ASSUME NEW q \in Rows, task'[q].status \in Open PROVE task[q].status \in Open
      BY <1>0, <1>s, <1>3, <2>1 DEF Unblock
    <2> QED
      BY <1>0, <2>1, NoneOpened
  <1>4. ASSUME NEW a \in Automations, Cycle(a) PROVE OneOpenTask'
    <2>1. ASSUME NEW r \in Rows, task'[r].status \in Open PROVE task[r].status \in Open
      <3>1. task[r] \in Task /\ Released[r] \in Task
        BY <1>0, ReleasedType DEF TypeOK
      <3>3. task'[r].status = Released[r].status
        BY <1>4 DEF Cycle, CycleBegin, CycleEnd, ApplyInternalState
      <3>4. Released[r].status = task[r].status \/ task[r].status = "PENDING"
        BY DEF Released
      <3> QED
        BY <1>s, <2>1, <3>3, <3>4
    <2> QED
      BY <1>0, <2>1, NoneOpened
  <1>5. ASSUME NEW u \in Admins, NEW r \in Rows, NEW s \in Choices, UpdateTaskStatus(u, r, s)
        PROVE  OneOpenTask'
    <2> DEFINE x == [task[r] EXCEPT !.status = s]
    <2>1. task' = [task EXCEPT ![r] = x] /\ (x.status \in Open => ~ Taken(r))
      BY <1>0, <1>5 DEF UpdateTaskStatus, TypeOK, Task
    <2> HIDE DEF x
    <2> QED
      BY <1>0, <2>1, OneWritten
  <1>6. ASSUME NEW u \in Admins, NEW r \in Rows, EscalateTask(u, r) PROVE OneOpenTask'
    <2> DEFINE x == [task[r] EXCEPT !.status = "ESCALATED"]
    <2>1. task' = [task EXCEPT ![r] = x] /\ ~ Taken(r)
      BY <1>0, <1>6 DEF EscalateTask, TypeOK, Task
    <2> HIDE DEF x
    <2> QED
      BY <1>0, <2>1, OneWritten
  <1>7. CASE /\ \A w \in Workers : ~ Insert(w) /\ ~ Update(w) /\ ~ Unblock(w)
             /\ \A a \in Automations : ~ Cycle(a)
             /\ \A u \in Admins, r \in Rows :
                   ~ EscalateTask(u, r) /\ \A s \in Choices : ~ UpdateTaskStatus(u, r, s)
    <2>1. task' = task
      BY <1>7 DEF Next, Work, ReadCounts, ReadOperations, Find, Missing, Reload, Stop,
                  Request, SyncRequest, CreateTask, Change, vars
    <2> QED
      BY <1>0, <2>1, NoneOpened
  <1> QED
    BY <1>1, <1>2, <1>3, <1>4, <1>5, <1>6, <1>7

(* A type of task has one open row of an entity at most, whatever overlaps. *)
THEOREM TasksOpenOnce == Spec => []OneOpenTask
  <1>1. Init => OpenInv
    <2>1. Init => OneOpenTask
      BY DEF Init, OneOpenTask, NoTask, Open, Status
    <2> QED
      BY <2>1, TypeInit DEF OpenInv
  <1>2. OpenInv => OneOpenTask
    BY DEF OpenInv
  <1> QED
    BY <1>1, <1>2, OpenStep, PTL DEF Spec
=============================================================================
