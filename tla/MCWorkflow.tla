----------------------------- MODULE MCWorkflow -----------------------------
(* Small instances of Workflow for TLC. *)
EXTENDS Workflow

Resting == requests + changes + stops = 0

(* What an administrator may ask for in that run.  The posted tasks that    *)
(* wait for a row are the academy's.                                       *)
Asked(u) ==
    \/ SyncRequest(u)
    \/ \E r \in Rows : EscalateTask(u, r) \/ (\E s \in Choices : UpdateTaskStatus(u, r, s))
    \/ \E i \in Steps, e \in Entities, s \in {"READY", "COMPLETED"} : CreateTask(u, i, e, s, None)
    \/ \E i \in Steps, b \in Rows : CreateTask(u, i, Own, "READY", b)

(* The run of all operations: two disturbances of the automation, a change *)
(* of the data apart from a request.                                       *)
DisturbedNext ==
    \/ \E w \in Workers : Work(w)
    \/ \E a \in Automations : Cycle(a)
    \/ /\ requests + changes + stops < 2
       /\ \/ \E w \in Workers : Stop(w)
          \/ changes = 0 /\ \E u \in Admins : Asked(u)
          \/ requests = 0 /\ \E i \in Steps : Change(i)

DisturbedSpec == Init /\ [][DisturbedNext]_vars

(* Two disturbances, then rest: the data change and processes fail, or     *)
(* administrators act while one manager is active, and may fail too.  They *)
(* complete and cancel tasks, and may start with a synchronisation, an     *)
(* escalation or an ADD_TRAINEE task of their own.                         *)
SettlingNext ==
    \/ \E w \in Workers : Work(w)
    \/ \E a \in Automations : Cycle(a)
    \/ /\ requests + changes + stops < 2
       /\ \/ requests = 0 /\ \E i \in Steps : Change(i)
          \/ \E w \in Workers : (w \in Admins \/ requests = 0) /\ Stop(w)
          \/ /\ changes = 0 /\ 0 \notin facts
             /\ \E u \in Admins :
                  /\ Welcome(u)
                  /\ \/ Resting /\ SyncRequest(u)
                     \/ /\ Resting
                        /\ \E e \in Entities, s \in {"READY", "COMPLETED"} :
                              CreateTask(u, Add, e, s, None)
                     \/ Resting /\ \E r \in Rows : EscalateTask(u, r)
                     \/ \E r \in Rows, s \in Choices : UpdateTaskStatus(u, r, s)

SettlingSpec == Init /\ [][SettlingNext]_vars /\ Fairness
=============================================================================
