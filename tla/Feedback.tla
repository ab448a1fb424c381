------------------------------ MODULE Feedback ------------------------------
(***************************************************************************)
(* Requests and complaints of portal users (backend/src/workflow,          *)
(* submitFeedback, resolveFeedback and the upload of an attachment in the  *)
(* controller).                                                            *)
(*                                                                         *)
(* The attachment is stored, the task is found or created, the feedback    *)
(* row and then an event are inserted: separate statements, without a      *)
(* transaction.  An error anywhere deletes the attachment.  The client     *)
(* names no entity_id, so that all open feedback of an academy shares one  *)
(* task: resolving one closes it for all, and the next feedback opens      *)
(* another.                                                                *)
(*                                                                         *)
(* Left out: contents, academies, branches and roles, which only refuse a  *)
(* request; events and the outbox, which nothing reads, except that        *)
(* inserting them may fail.                                                *)
(***************************************************************************)
EXTENDS Integers

CONSTANTS
    Messages,        \* identifiers of workflow_feedback rows
    MessageTasks,    \* identifiers of workflow_tasks rows of type CLIENT_FEEDBACK
    Clerks           \* requests that may run at the same time

VARIABLES
    message,    \* the workflow_feedback rows
    deskTask,   \* status of the workflow_tasks rows
    attached,   \* attachments in the store, named after their message
    clerk,      \* where each request stands
    reopened,   \* history: tasks an administrator has opened again
    cut         \* history: messages of a request that failed half-way

feedbackVars == <<message, deskTask, attached, clerk, reopened, cut>>

NoMessage == [status |-> "none"]
Message == {NoMessage} \cup [status : {"OPEN", "RESOLVED"}, task : MessageTasks, file : {"yes", "no"}]

NoClerk == [step |-> "idle"]
Clerk ==
    {NoClerk}
    \cup [step : {"find", "create"}, message : Messages, file : {"yes", "no"}]
    \cup [step : {"row"}, message : Messages, file : {"yes", "no"}, task : MessageTasks]
    \cup [step : {"event"}, message : Messages, file : {"yes", "no"}]
    \cup [step : {"resolve", "close"}, message : Messages, task : MessageTasks]

FeedbackInit ==
    /\ message = [m \in Messages |-> NoMessage]
    /\ deskTask = [k \in MessageTasks |-> "none"]
    /\ attached = {}
    /\ clerk = [q \in Clerks |-> NoClerk]
    /\ reopened = {} /\ cut = {}

-----------------------------------------------------------------------------
OpenTasks == {k \in MessageTasks : deskTask[k] = "open"}

Submitting(m) == \E q \in Clerks : clerk[q].step \in {"find", "create", "row", "event"}
                                   /\ clerk[q].message = m

(* submitFeedbackWithImage and submitFeedback: the attachment is stored. *)
SubmitFeedback(q, m, file) ==
    /\ clerk[q].step = "idle"
    /\ message[m].status = "none" /\ m \notin attached \cup cut /\ ~Submitting(m)
    /\ attached' = IF file = "yes" THEN attached \cup {m} ELSE attached
    /\ clerk' = [clerk EXCEPT ![q] = [step |-> "find", message |-> m, file |-> file]]
    /\ UNCHANGED <<message, deskTask, reopened, cut>>

(* createTaskIfMissing: SELECT an open task ... *)
FindTask(q) ==
    LET c == clerk[q]
    IN  /\ c.step = "find"
        /\ IF OpenTasks = {}
           THEN clerk' = [clerk EXCEPT ![q].step = "create"]
           ELSE \E k \in OpenTasks :
                   clerk' = [clerk EXCEPT ![q] = [step |-> "row", message |-> c.message,
                                                  file |-> c.file, task |-> k]]
        /\ UNCHANGED <<message, deskTask, attached, reopened, cut>>

(* ... or INSERT one; uq_workflow_open_task refuses a second (Fail). *)
InsertTask(q, k) ==
    LET c == clerk[q]
    IN  /\ c.step = "create"
        /\ deskTask[k] = "none" /\ OpenTasks = {}
        /\ deskTask' = [deskTask EXCEPT ![k] = "open"]
        /\ clerk' = [clerk EXCEPT ![q] = [step |-> "row", message |-> c.message,
                                          file |-> c.file, task |-> k]]
        /\ UNCHANGED <<message, attached, reopened, cut>>

InsertFeedback(q) ==
    LET c == clerk[q]
    IN  /\ c.step = "row"
        /\ message' = [message EXCEPT ![c.message] =
                          [status |-> "OPEN", task |-> c.task, file |-> c.file]]
        /\ clerk' = [clerk EXCEPT ![q] = [step |-> "event", message |-> c.message, file |-> c.file]]
        /\ UNCHANGED <<deskTask, attached, reopened, cut>>

InsertEvent(q) ==
    /\ clerk[q].step = "event"
    /\ clerk' = [clerk EXCEPT ![q] = NoClerk]
    /\ UNCHANGED <<message, deskTask, attached, reopened, cut>>

(* Slip: the attachment of a failed request is left where it is. *)
FailKeeping(q) ==
    /\ clerk[q].step \in {"find", "create", "row", "event"}
    /\ cut' = IF clerk[q].step = "event" THEN cut \cup {clerk[q].message} ELSE cut
    /\ clerk' = [clerk EXCEPT ![q] = NoClerk]
    /\ UNCHANGED <<message, deskTask, attached, reopened>>

(* A statement fails: the controller deletes the attachment, the row       *)
(* notwithstanding that may have been inserted before.                     *)
FailSubmission(q) ==
    LET m == clerk[q].message
    IN  /\ clerk[q].step \in {"find", "create", "row", "event"}
        /\ attached' = attached \ {m}
        /\ cut' = IF clerk[q].step = "event" THEN cut \cup {m} ELSE cut
        /\ clerk' = [clerk EXCEPT ![q] = NoClerk]
        /\ UNCHANGED <<message, deskTask, reopened>>

(* The server stops, or deleting the attachment fails as well. *)
CrashSubmission(q) ==
    /\ clerk[q].step \in {"find", "create", "row", "event"}
    /\ cut' = cut \cup {clerk[q].message}
    /\ clerk' = [clerk EXCEPT ![q] = NoClerk]
    /\ UNCHANGED <<message, deskTask, attached, reopened>>

-----------------------------------------------------------------------------
(* resolveFeedback: the row is read, whatever its status ... *)
ResolveFeedback(q, m) ==
    /\ clerk[q].step = "idle"
    /\ message[m].status # "none"
    /\ clerk' = [clerk EXCEPT ![q] = [step |-> "resolve", message |-> m, task |-> message[m].task]]
    /\ UNCHANGED <<message, deskTask, attached, reopened, cut>>

(* ... and updated ... *)
MarkResolved(q) ==
    /\ clerk[q].step = "resolve"
    /\ message' = [message EXCEPT ![clerk[q].message].status = "RESOLVED"]
    /\ clerk' = [clerk EXCEPT ![q].step = "close"]
    /\ UNCHANGED <<deskTask, attached, reopened, cut>>

(* Slip: a task that other open messages share is left open. *)
CloseUnshared(q) ==
    /\ clerk[q].step = "close"
    /\ deskTask' = IF \E m \in Messages : message[m].status = "OPEN" /\ message[m].task = clerk[q].task
                   THEN deskTask ELSE [deskTask EXCEPT ![clerk[q].task] = "closed"]
    /\ clerk' = [clerk EXCEPT ![q] = NoClerk]
    /\ UNCHANGED <<message, attached, reopened, cut>>

(* ... then its task, whoever shares it. *)
CloseTask(q) ==
    /\ clerk[q].step = "close"
    /\ deskTask' = [deskTask EXCEPT ![clerk[q].task] = "closed"]
    /\ clerk' = [clerk EXCEPT ![q] = NoClerk]
    /\ UNCHANGED <<message, attached, reopened, cut>>

FailResolving(q) ==
    /\ clerk[q].step \in {"resolve", "close"}
    /\ cut' = IF clerk[q].step = "close" THEN cut \cup {clerk[q].message} ELSE cut
    /\ clerk' = [clerk EXCEPT ![q] = NoClerk]
    /\ UNCHANGED <<message, deskTask, attached, reopened>>

(* updateTaskStatus: any status by hand; two open tasks the index refuses. *)
SetTaskStatus(k, status) ==
    /\ deskTask[k] # "none"
    /\ status = "open" => OpenTasks \subseteq {k}
    /\ deskTask' = [deskTask EXCEPT ![k] = status]
    /\ reopened' = IF status = "open" THEN reopened \cup {k} ELSE reopened
    /\ UNCHANGED <<message, attached, clerk, cut>>

FeedbackNext ==
    \/ \E q \in Clerks :
        \/ \E m \in Messages, file \in {"yes", "no"} : SubmitFeedback(q, m, file)
        \/ \E k \in MessageTasks : InsertTask(q, k)
        \/ \E m \in Messages : ResolveFeedback(q, m)
        \/ FindTask(q) \/ InsertFeedback(q) \/ InsertEvent(q)
        \/ FailSubmission(q) \/ CrashSubmission(q)
        \/ MarkResolved(q) \/ CloseTask(q) \/ FailResolving(q)
    \/ \E k \in MessageTasks, status \in {"open", "closed"} : SetTaskStatus(k, status)

FeedbackSpec == FeedbackInit /\ [][FeedbackNext]_feedbackVars

-----------------------------------------------------------------------------
FeedbackTypeOK ==
    /\ message \in [Messages -> Message]
    /\ deskTask \in [MessageTasks -> {"none", "open", "closed"}]
    /\ attached \subseteq Messages
    /\ clerk \in [Clerks -> Clerk]
    /\ reopened \subseteq MessageTasks
    /\ cut \subseteq Messages

(* The attachment a stored message speaks of is in the store, and an       *)
(* attachment without a message belongs to a request under way: unless the *)
(* request was cut off between its statements, where the order of storing, *)
(* inserting and deleting cannot keep the two together                     *)
(* (submitFeedbackWithImage).                                              *)
AttachmentsMatch ==
    \A m \in Messages \ cut :
        /\ (message[m].status # "none" /\ message[m].file = "yes") => m \in attached
        /\ m \in attached => (message[m].status # "none" \/ Submitting(m))

(* Whoever resolves a message closes its task: a resolved message with an  *)
(* open task is one that is being resolved, whose request was cut off, or  *)
(* whose task was opened again by hand; in particular no task is created   *)
(* or found for it afterwards (resolveFeedback).                           *)
ResolvedClosesTask ==
    \A m \in Messages :
        (message[m].status = "RESOLVED" /\ deskTask[message[m].task] = "open") =>
            \/ m \in cut \/ message[m].task \in reopened
            \/ \E q \in Clerks : clerk[q].step = "close" /\ clerk[q].message = m
=============================================================================
