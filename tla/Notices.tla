------------------------------ MODULE Notices ------------------------------
(***************************************************************************)
(* Messages of an academy to its trainees, and who has read which          *)
(* (backend/src/notifications).  Opening a message marks it as read: look  *)
(* for the row of the pair, insert it if there is none.  Two devices may   *)
(* do so at the same time; the unique index refuses the second, which is   *)
(* told the same.                                                          *)
(*                                                                         *)
(* Left out: texts, dates, who may send (a message is for all or for a     *)
(* branch), the limit of 100 messages.  A reader's branch is that of the   *)
(* token.                                                                  *)
(***************************************************************************)
EXTENDS Naturals

CONSTANTS
    Notes,
    Readers,
    Devices,    \* requests of markAsRead that may run at the same time
    Branches

VARIABLES
    note,       \* each message: none, removed, or whom it is for
    branchOf,   \* the branch in each reader's token, or "none"
    rows,       \* rows of academy_notification_reads for a message and a reader
    marking,    \* where each markAsRead stands
    told        \* history: what was answered to have been marked as read

noticeVars == <<note, branchOf, rows, marking, told>>

Audience == {"all"} \cup Branches
NoMarking == [step |-> "idle"]
Marking == {NoMarking} \cup [step : {"look", "insert"}, note : Notes, reader : Readers]

NoticesInit ==
    /\ note = [n \in Notes |-> "none"]
    /\ branchOf \in [Readers -> Branches \cup {"none"}]
    /\ rows = [n \in Notes |-> [u \in Readers |-> 0]]
    /\ marking = [d \in Devices |-> NoMarking]
    /\ told = {}

(* findMyNotifications, findAccessibleNotification: not removed, and for   *)
(* all or for the reader's branch.                                         *)
Accessible(n, u) == note[n] \in {"all", branchOf[u]} \ {"none"}

(* findMyNotifications joins the rows of the reader: what it lists, and    *)
(* how often.                                                              *)
Listed(n, u) == IF ~Accessible(n, u) THEN 0 ELSE IF rows[n][u] = 0 THEN 1 ELSE rows[n][u]
IsRead(n, u) == rows[n][u] > 0

SendNotice(n, audience) ==
    /\ note[n] = "none"
    /\ note' = [note EXCEPT ![n] = audience]
    /\ UNCHANGED <<branchOf, rows, marking, told>>

RemoveNotice(n) ==
    /\ note[n] \in Audience
    /\ note' = [note EXCEPT ![n] = "removed"]
    /\ UNCHANGED <<branchOf, rows, marking, told>>

(* A press on a message; it is done once the message is known to be read,  *)
(* but nothing keeps a second press from coming before that.               *)
MarkAsRead(d, n, u) ==
    /\ marking[d] = NoMarking
    /\ Accessible(n, u)
    /\ marking' = [marking EXCEPT ![d] = [step |-> "look", note |-> n, reader |-> u]]
    /\ UNCHANGED <<note, branchOf, rows, told>>

LookForRow(d) ==
    LET m == marking[d]
    IN  /\ m.step = "look"
        /\ IF IsRead(m.note, m.reader)
           THEN /\ marking' = [marking EXCEPT ![d] = NoMarking]
                /\ told' = told \cup {<<m.note, m.reader>>}
           ELSE marking' = [marking EXCEPT ![d].step = "insert"] /\ UNCHANGED told
        /\ UNCHANGED <<note, branchOf, rows>>

(* Slip: there is no unique index. *)
InsertRowAgain(d) ==
    LET m == marking[d]
    IN  /\ m.step = "insert"
        /\ rows' = [rows EXCEPT ![m.note][m.reader] = @ + 1]
        /\ told' = told \cup {<<m.note, m.reader>>}
        /\ marking' = [marking EXCEPT ![d] = NoMarking]
        /\ UNCHANGED <<note, branchOf>>

(* UQ_academy_notification_reads_pair refuses a second row (23505), and    *)
(* markAsRead says nothing of it.                                          *)
InsertRow(d) ==
    LET m == marking[d]
    IN  /\ m.step = "insert"
        /\ rows' = [rows EXCEPT ![m.note][m.reader] = 1]
        /\ told' = told \cup {<<m.note, m.reader>>}
        /\ marking' = [marking EXCEPT ![d] = NoMarking]
        /\ UNCHANGED <<note, branchOf>>

FailMarking(d) ==
    /\ marking[d] # NoMarking
    /\ marking' = [marking EXCEPT ![d] = NoMarking]
    /\ UNCHANGED <<note, branchOf, rows, told>>

NoticesNext ==
    \/ \E n \in Notes :
        \/ \E audience \in Audience : SendNotice(n, audience)
        \/ RemoveNotice(n)
        \/ \E d \in Devices, u \in Readers : MarkAsRead(d, n, u)
    \/ \E d \in Devices : LookForRow(d) \/ InsertRow(d) \/ FailMarking(d)

NoticesSpec == NoticesInit /\ [][NoticesNext]_noticeVars

-----------------------------------------------------------------------------
NoticesTypeOK ==
    /\ note \in [Notes -> {"none", "removed"} \cup Audience]
    /\ branchOf \in [Readers -> Branches \cup {"none"}]
    /\ rows \in [Notes -> [Readers -> 0..1]]
    /\ marking \in [Devices -> Marking]
    /\ told \subseteq Notes \X Readers

(* However many devices mark a message at the same time, a reader's list   *)
(* has it once, and as read from the first answer on (findMyNotifications  *)
(* and markAsRead of notifications.service.ts): each row of the pair would *)
(* list the message once more.                                             *)
MessagesOnce ==
    \A n \in Notes, u \in Readers :
        /\ Listed(n, u) <= 1
        /\ <<n, u>> \in told => IsRead(n, u)
=============================================================================
