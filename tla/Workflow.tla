------------------------------ MODULE Workflow ------------------------------
(***************************************************************************)
(* The task chain of one academy (backend/src/workflow): a background      *)
(* synchronisation derives workflow_tasks rows from what the academy's     *)
(* data say has been done, while administrators create, complete, escalate *)
(* and re-open the same rows by hand.                                      *)
(*                                                                         *)
(* No handler here opens a transaction: each action is one SQL statement,  *)
(* and a worker's record says which statement comes next.  The task types  *)
(* are their positions in the order of syncAcademy and                     *)
(* syncOperationalChain: 1..Setup, then ADD_TRAINEE, then the operations,  *)
(* LINK_PORTAL_ACCOUNT first; 0 is REVIEW_DUPLICATE_ACADEMY_MANAGERS.      *)
(* A row also has an entity (entity_type and entity_id): the chain's rows  *)
(* have the academy itself, one created by hand has any.  workflow_events  *)
(* and workflow_outbox rows, which nothing reads, and titles, roles,       *)
(* parents, dates and metadata are left out.                               *)
(***************************************************************************)
EXTENDS Integers

CONSTANTS
    Setup,        \* number of setup steps (CREATE_MAIN_BRANCH .. CREATE_TRAINING_GROUP)
    Manager,      \* the one of them that is CREATE_ACADEMY_MANAGER
    Last,         \* PUBLISH_NOTIFICATION
    Entities,     \* entities of tasks; a task posted without one has SYSTEM
    Own,          \* the academy as the entity of its own tasks
    Slots,        \* rows of one type and entity that are remembered
    Automations,  \* WorkflowAutomationService, one per server process
    Admins,       \* requests of administrators
    Choices,      \* statuses that administrators ask for
    MaxRequests,  \* bound: requests of administrators
    MaxChanges,   \* bound: changes of the academy's data
    MaxStops,     \* bound: crashes and database errors
    None          \* SQL NULL

Status == {"PENDING", "READY", "IN_PROGRESS", "WAITING_FEEDBACK", "COMPLETED",
           "FAILED", "CANCELLED", "ESCALATED"}
Open == Status \ {"COMPLETED", "CANCELLED"}

Add == Setup + 1     \* ADD_TRAINEE
Link == Setup + 2    \* LINK_PORTAL_ACCOUNT
Steps == 0..Last
Rows == Steps \X Entities \X Slots
Workers == Automations \cup Admins

ASSUME WorkflowAssumption ==
    /\ Setup \in Nat /\ Manager \in 1..Setup /\ Last \in Nat /\ Last > Link
    /\ Own \in Entities /\ Choices \subseteq Status
    /\ MaxRequests \in Nat /\ MaxChanges \in Nat /\ MaxStops \in Nat
    /\ None \notin Rows
    /\ Automations \cap Admins = {}

VARIABLES
    facts,     \* steps the data show as done; 0: more than one active manager
    task,      \* workflow_tasks rows; status "FREE" where there is none
    newest,    \* the row of each type and entity with the latest created_at
    lastAdd,   \* the ADD_TRAINEE row with the latest created_at, whatever its entity
    worker,    \* where each process stands
    requests, changes, stops

vars == <<facts, task, newest, lastAdd, worker, requests, changes, stops>>
bounds == <<requests, changes, stops>>
latest == <<newest, lastAdd>>

Task == [status : Status \cup {"FREE"}, wait : Rows \cup {None}]
(* What is asked of createTaskIfMissing, ensureOpenTask or ensureCompletedTask. *)
Call == [kind : {"create", "open", "complete"}, at : Steps, of : Entities,
         give : Status, wait : Rows \cup {None}]
Worker == [pc : {"idle", "counts", "operations", "find", "missing", "insert", "update",
                 "reload", "unblock", "apply"},
           job : {"none", "sync", "request"}, call : Call,
           id : Rows \cup {None}, prev : Rows \cup {None}, seen : SUBSET Steps]

NoTask == [status |-> "FREE", wait |-> None]
Create(i, e, status, wait) ==
    [kind |-> "create", at |-> i, of |-> e, give |-> status, wait |-> wait]
(* Slip: the previous row is passed where the step belongs. *)
CompleteNamed(i) ==
    [kind |-> "complete", at |-> i + 1, of |-> Own, give |-> "COMPLETED", wait |-> None]
Complete(i) == [kind |-> "complete", at |-> i, of |-> Own, give |-> "COMPLETED", wait |-> None]
Idle == [pc |-> "idle", job |-> "none", call |-> Create(0, Own, "READY", None),
         id |-> None, prev |-> None, seen |-> {}]

(* More than one active manager is one at least. *)
Possible == {f \in SUBSET Steps : 0 \in f => Manager \in f}

Init ==
    /\ facts \in Possible
    /\ task = [r \in Rows |-> NoTask]
    /\ newest = [k \in Steps \X Entities |-> None]
    /\ lastAdd = None
    /\ worker = [w \in Workers |-> Idle]
    /\ requests = 0 /\ changes = 0 /\ stops = 0

-----------------------------------------------------------------------------
OpenRows(i, e) == {r \in Rows : r[1] = i /\ r[2] = e /\ task[r].status \in Open}

(* Slip: the table without its unique index. *)
NeverTaken(r) == FALSE

(* uq_workflow_open_task: another row of this type and entity is open. *)
Taken(r) == OpenRows(r[1], r[2]) \ {r} # {}

(* A closed row that is not the latest of its kind and that nobody points  *)
(* at is forgotten when room is needed.                                    *)
Forgettable(r) ==
    /\ task[r].status \in {"COMPLETED", "CANCELLED"}
    /\ newest[<<r[1], r[2]>>] # r /\ lastAdd # r
    /\ \A q \in Rows : task[q].wait # r
    /\ \A w \in Workers : r \notin {worker[w].id, worker[w].prev, worker[w].call.wait}

Room(i, e) == {r \in Rows : r[1] = i /\ r[2] = e /\ (task[r].status = "FREE" \/ Forgettable(r))}

(* The second statement of applyInternalState. *)
Released ==
    [r \in Rows |->
        IF /\ task[r].status = "PENDING"
           /\ task[r].wait # None
           /\ task[task[r].wait].status = "COMPLETED"
        THEN [task[r] EXCEPT !.status = "READY", !.wait = None]
        ELSE task[r]]

(* Its first statement marks the metadata, which nothing here reads. *)
ApplyInternalState == task' = Released

-----------------------------------------------------------------------------
(* The calls of a synchronisation, in their order. *)

(* syncAcademy on a setup step or ADD_TRAINEE, after the row before it. *)
SetupCall(i, seen, before) ==
    IF i \in seen THEN Complete(i)
    ELSE IF i = 1 \/ i - 1 \in seen THEN Create(i, Own, "READY", None)
    ELSE Create(i, Own, "PENDING", before)

(* syncOperationalChain on an operation. *)
OperationCall(i, seen, before, status) ==
    IF i \in seen THEN Complete(i)
    ELSE IF status = "COMPLETED"
    THEN [kind |-> "open", at |-> i, of |-> Own, give |-> "READY", wait |-> None]
    ELSE [kind |-> "open", at |-> i, of |-> Own, give |-> "PENDING", wait |-> before]

Doing(w, c, prev) ==
    [worker[w] EXCEPT !.pc = IF c.kind = "create" THEN "missing" ELSE "find",
                      !.call = c, !.id = None, !.prev = prev]

(* The end of a synchronisation or of a request, in order or by an error,  *)
(* which the automation catches.                                           *)
Ended(w) == IF w \in Automations THEN [Idle EXCEPT !.pc = "apply"] ELSE Idle

(* The call returned row r with this status: what comes next. *)
Returned(w, r, status) ==
    LET c == worker[w].call
        seen == worker[w].seen
    IN  CASE worker[w].job = "request" -> Idle
          [] worker[w].job # "request" /\ c.at = Manager /\ 0 \in seen ->
                Doing(w, Create(0, Own, "READY", None), r)
          [] worker[w].job # "request" /\ c.at = 0 ->
                Doing(w, SetupCall(Manager + 1, seen, worker[w].prev), None)
          [] worker[w].job # "request" /\ c.at \in 1..Setup /\ (c.at # Manager \/ 0 \notin seen) ->
                Doing(w, SetupCall(c.at + 1, seen, r), None)
          [] worker[w].job # "request" /\ c.at = Add /\ c.kind = "complete" ->
                Doing(w, Create(Link, Own, "READY", None), None)
          [] worker[w].job # "request" /\ c.at = Add /\ c.kind # "complete" -> Ended(w)
          [] worker[w].job # "request" /\ c.at = Link /\ c.kind = "create" ->
                [worker[w] EXCEPT !.pc = "operations", !.id = None]
          [] worker[w].job # "request" /\ c.at \in Link..(Last - 1) /\ c.kind # "create" ->
                Doing(w, OperationCall(c.at + 1, seen, r, status), None)
          [] OTHER -> Ended(w)

Goto(w, x) == worker' = [worker EXCEPT ![w] = x]

-----------------------------------------------------------------------------
(* runCycle, from the timer to the synchronisation; `running' keeps one    *)
(* process from starting a second cycle.                                   *)
CycleBegin(a) ==
    /\ worker[a].pc = "idle"
    /\ ApplyInternalState
    /\ Goto(a, [Idle EXCEPT !.pc = "counts", !.job = "sync"])
    /\ UNCHANGED <<facts, latest, bounds>>

CycleEnd(a) ==
    /\ worker[a].pc = "apply"
    /\ ApplyInternalState
    /\ Goto(a, Idle)
    /\ UNCHANGED <<facts, latest, bounds>>

(* An administrator makes one request at a time. *)
Welcome(u) == worker[u].pc = "idle" /\ requests < MaxRequests

(* POST workflow/sync. *)
SyncRequest(u) ==
    /\ Welcome(u)
    /\ Goto(u, [Idle EXCEPT !.pc = "counts", !.job = "sync"])
    /\ requests' = requests + 1
    /\ UNCHANGED <<facts, task, latest, changes, stops>>

(* The counts syncAcademy starts from. *)
ReadCounts(w) ==
    /\ worker[w].pc = "counts"
    /\ worker' = [worker EXCEPT ![w] =
                     [Doing(w, SetupCall(1, facts, None), None) EXCEPT !.seen = facts]]
    /\ UNCHANGED <<facts, task, latest, bounds>>

(* The counts syncOperationalChain starts from, and the latest ADD_TRAINEE  *)
(* row of the academy, whatever its entity.                                *)
ReadOperations(w) ==
    LET r == lastAdd
    IN  /\ worker[w].pc = "operations"
        /\ worker' = [worker EXCEPT ![w] =
              [Doing(w, OperationCall(Link, facts, r, task[r].status), None) EXCEPT !.seen = facts]]
        /\ UNCHANGED <<facts, task, latest, bounds>>

(* The first SELECT of ensureCompletedTask (the latest row) and of         *)
(* ensureOpenTask (the open one).                                          *)
Find(w) ==
    LET c == worker[w].call
        found == IF c.kind = "complete" THEN {newest[<<c.at, c.of>>]} \ {None}
                 ELSE OpenRows(c.at, c.of)
    IN  /\ worker[w].pc = "find"
        /\ \/ /\ found = {}
              /\ Goto(w, [worker[w] EXCEPT !.pc = "missing"])
           \/ \E r \in found : Goto(w, [worker[w] EXCEPT !.pc = "update", !.id = r])
        /\ UNCHANGED <<facts, task, latest, bounds>>

(* The SELECT of createTaskIfMissing. *)
Missing(w) ==
    LET c == worker[w].call
    IN  /\ worker[w].pc = "missing"
        /\ \/ /\ OpenRows(c.at, c.of) = {}
              /\ Goto(w, [worker[w] EXCEPT !.pc = "insert"])
           \/ \E r \in OpenRows(c.at, c.of) :
                 IF c.kind = "create"
                 THEN Goto(w, Returned(w, r, task[r].status))
                 ELSE Goto(w, [worker[w] EXCEPT !.pc = "reload"])
        /\ UNCHANGED <<facts, task, latest, bounds>>

(* Its INSERT, which fails when an open row has appeared meanwhile. *)
Insert(w) ==
    LET c == worker[w].call
        r == CHOOSE q \in Room(c.at, c.of) : TRUE
    IN  /\ worker[w].pc = "insert"
        /\ Room(c.at, c.of) # {}
        /\ IF c.give \in Open /\ Taken(r)
           THEN Goto(w, Ended(w)) /\ UNCHANGED <<task, latest>>
           ELSE /\ task' = [task EXCEPT ![r] =
                               [status |-> c.give, wait |-> c.wait]]
                /\ newest' = [newest EXCEPT ![<<c.at, c.of>>] = r]
                /\ lastAdd' = IF c.at = Add THEN r ELSE lastAdd
                /\ IF c.kind = "create"
                   THEN Goto(w, Returned(w, r, c.give))
                   ELSE Goto(w, [worker[w] EXCEPT !.pc = "reload"])
        /\ UNCHANGED <<facts, bounds>>

(* Slip: an open row keeps the status it has. *)
RewrittenLazily(r, c) ==
    IF c.kind = "complete"
    THEN [task[r] EXCEPT !.status = "COMPLETED"]
    ELSE [task[r] EXCEPT !.wait = c.wait]

(* The columns ensureCompletedTask and ensureOpenTask set. *)
Rewritten(r, c) ==
    IF c.kind = "complete"
    THEN [task[r] EXCEPT !.status = "COMPLETED"]
    ELSE [status |-> c.give, wait |-> c.wait]

(* The UPDATE, by id, of a row that may have changed since it was found. *)
Update(w) ==
    LET c == worker[w].call
        r == worker[w].id
    IN  /\ worker[w].pc = "update"
        /\ IF Rewritten(r, c).status \in Open /\ Taken(r)
           THEN Goto(w, Ended(w)) /\ UNCHANGED task
           ELSE /\ task' = [task EXCEPT ![r] = Rewritten(r, c)]
                /\ Goto(w, [worker[w] EXCEPT !.pc = "reload"])
        /\ UNCHANGED <<facts, latest, bounds>>

(* The SELECT that re-reads the row: by id, or the latest after an INSERT. *)
Reload(w) ==
    LET c == worker[w].call
        r == IF worker[w].id = None THEN newest[<<c.at, c.of>>] ELSE worker[w].id
    IN  /\ worker[w].pc = "reload"
        /\ Goto(w, Returned(w, r, task[r].status))
        /\ UNCHANGED <<facts, task, latest, bounds>>

-----------------------------------------------------------------------------
(* updateTaskStatus: any row, any status; a row that would be a second     *)
(* open one is refused.                                                    *)
UpdateTaskStatus(u, r, status) ==
    /\ Welcome(u)
    /\ task[r].status # "FREE"
    /\ ~ (status \in Open /\ Taken(r))
    /\ task' = [task EXCEPT ![r].status = status]
    /\ Goto(u, IF status = "COMPLETED"
               THEN [Idle EXCEPT !.pc = "unblock", !.job = "request", !.id = r]
               ELSE Idle)
    /\ requests' = requests + 1
    /\ UNCHANGED <<facts, latest, changes, stops>>

(* What follows a completion: dependents are released, then createNextTask  *)
(* goes on with the entity of the row.                                     *)
Unblock(u) ==
    LET r == worker[u].id
    IN  /\ worker[u].pc = "unblock"
        /\ task' = [q \in Rows |->
                      IF task[q].wait = r /\ task[q].status = "PENDING"
                      THEN [task[q] EXCEPT !.status = "READY", !.wait = None]
                      ELSE task[q]]
        /\ Goto(u, IF r[1] \in Add..(Last - 1)
                   THEN Doing(u, Create(r[1] + 1, r[2], "READY", None), None)
                   ELSE Idle)
        /\ UNCHANGED <<facts, latest, bounds>>

EscalateTask(u, r) ==
    /\ Welcome(u)
    /\ task[r].status # "FREE"
    /\ ~ Taken(r)
    /\ task' = [task EXCEPT ![r].status = "ESCALATED"]
    /\ requests' = requests + 1
    /\ UNCHANGED <<facts, latest, worker, changes, stops>>

(* createTask: any type, entity, status and blocker. *)
CreateTask(u, i, e, status, wait) ==
    /\ Welcome(u)
    /\ wait # None => task[wait].status # "FREE"
    /\ Goto(u, [Doing(u, Create(i, e, status, wait), None) EXCEPT !.job = "request"])
    /\ requests' = requests + 1
    /\ UNCHANGED <<facts, task, latest, changes, stops>>

(* A branch, manager, group, trainee, link, subscription ... comes or goes. *)
Change(i) ==
    /\ changes < MaxChanges
    /\ facts' = IF i \in facts THEN facts \ {i} ELSE facts \cup {i}
    /\ facts' \in Possible
    /\ changes' = changes + 1
    /\ UNCHANGED <<task, latest, worker, requests, stops>>

(* A statement fails, or the process dies and starts again. *)
Stop(w) ==
    /\ worker[w].pc # "idle" /\ stops < MaxStops
    /\ Goto(w, Ended(w)) \/ Goto(w, Idle)
    /\ stops' = stops + 1
    /\ UNCHANGED <<facts, task, latest, requests, changes>>

-----------------------------------------------------------------------------
Work(w) ==
    \/ ReadCounts(w) \/ ReadOperations(w) \/ Find(w) \/ Missing(w) \/ Insert(w)
    \/ Update(w) \/ Reload(w) \/ Unblock(w)

Cycle(a) == CycleBegin(a) \/ CycleEnd(a)

Request(u) ==
    /\ Welcome(u)
    /\ \/ SyncRequest(u)
       \/ \E r \in Rows : EscalateTask(u, r) \/ (\E s \in Choices : UpdateTaskStatus(u, r, s))
       \/ \E i \in Steps, e \in Entities, s \in Choices \cup {"READY"}, b \in Rows \cup {None} :
             CreateTask(u, i, e, s, b)

Next ==
    \/ \E w \in Workers : Work(w) \/ Stop(w)
    \/ \E a \in Automations : Cycle(a)
    \/ \E u \in Admins : Request(u)
    \/ \E i \in Steps : Change(i)

Spec == Init /\ [][Next]_vars

(* The timer of the automation fires for ever; what has begun goes on. *)
Fairness ==
    /\ \A a \in Automations : WF_vars(Cycle(a) \/ Work(a))
    /\ \A u \in Admins : WF_vars(Work(u))

-----------------------------------------------------------------------------
(* Every variable keeps its type. *)
TypeOK ==
    /\ facts \subseteq Steps
    /\ task \in [Rows -> Task]
    /\ newest \in [Steps \X Entities -> Rows \cup {None}]
    /\ lastAdd \in Rows \cup {None}
    /\ worker \in [Workers -> Worker]
    /\ requests \in 0..MaxRequests /\ changes \in 0..MaxChanges /\ stops \in 0..MaxStops

(* However synchronisations and administrators overlap between the SELECT   *)
(* and the INSERT of createTaskIfMissing, the stale UPDATE of               *)
(* ensureOpenTask and re-opened rows, a type has one open task of an        *)
(* entity at most.                                                         *)
OneOpenTask ==
    \A q, r \in Rows :
        /\ q[1] = r[1] /\ q[2] = r[2]
        /\ {task[q].status, task[r].status} \subseteq Open
        => q = r

Finished(i) == newest[<<i, Own>>] # None /\ task[newest[<<i, Own>>]].status = "COMPLETED"

(* The chain waits for the operation before; LINK_PORTAL_ACCOUNT for the    *)
(* latest ADD_TRAINEE row, which may be one an administrator created.      *)
Awaited(i) == IF i = Link THEN task[lastAdd].status = "COMPLETED" ELSE i - 1 \in facts

(* The chain agrees with the data: a step that is done has its latest task *)
(* completed; one that is not has an open task, which for an operation is  *)
(* READY when what it waits for is done and PENDING otherwise; nothing     *)
(* waits for a completed task.  (A done LINK_PORTAL_ACCOUNT is re-opened   *)
(* and completed by every synchronisation and never rests.)                *)
Settled ==
    /\ \A i \in 1..Add : IF i \in facts THEN Finished(i) ELSE OpenRows(i, Own) # {}
    /\ Add \in facts =>
        \A i \in Link..Last :
            IF i \in facts
            THEN i # Link => Finished(i)
            ELSE \E r \in OpenRows(i, Own) :
                    task[r].status = IF Awaited(i) THEN "READY" ELSE "PENDING"
    /\ \A r \in Rows : task[r].status = "PENDING" /\ task[r].wait # None
                       => task[task[r].wait].status # "COMPLETED"

(* Whatever administrators did and wherever processes failed, once they    *)
(* rest the automation brings the chain to agree with the data and keeps   *)
(* it so (runCycle, every 30 seconds).                                     *)
Settles == <>[]Settled
=============================================================================
