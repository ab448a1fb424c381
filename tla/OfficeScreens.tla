--------------------------- MODULE OfficeScreens ---------------------------
(***************************************************************************)
(* The pages an academy's staff works with (frontend/src/features), as     *)
(* Screens needs them: what each handler does, and which flags disable or  *)
(* hide which button.  XDialog has the flags that keep a dialog from being *)
(* left and those that disable its buttons; XRows and XToolbar have the    *)
(* buttons of a list and those above it.                                   *)
(***************************************************************************)
EXTENDS Screens

(***************************************************************************)
(* BillingPage: one flag for all submissions and for the details, whose    *)
(* button is never disabled: their answer frees the buttons of a           *)
(* submission.  The cross of each dialog works during a submission.        *)
(***************************************************************************)
InitializeBilling == {"loading"}
SubscriptionToolbar == [refresh |-> {}]
SubscriptionRows == [details |-> {"loading"}, payment |-> {"loading"}, renew |-> {"loading"}]
PlanRows == [edit |-> {}, toggle |-> {"saving"}]
AlertRows == [refresh |-> {}, details |-> {}]
BillingHeader == [synchronize |-> {"saving"}, create |-> {}]

PlanDialog == [leave |-> {}, send |-> {"saving"}]
SubscriptionDialog == [leave |-> {}, send |-> {"saving"}]
PaymentDialog == [leave |-> {}, send |-> {"saving"}]
RenewalDialog == [leave |-> {}, send |-> {"saving"}]
DetailsDialog == [leave |-> {}, pay |-> {}]

RefreshSubscriptions == Load(SubscriptionToolbar.refresh, {"loading"})
RefreshAlerts == Load(AlertRows.refresh, {"loading"})
SynchronizeStatuses == Submit("page", BillingHeader.synchronize, {"saving"})
OpenCreatePlan == Open("page", BillingHeader.create, "plan")
OpenEditPlan == Open("page", PlanRows.edit, "plan")
SubmitPlan == Submit("plan", PlanDialog.send, {"saving"})
TogglePlan == Submit("page", PlanRows.toggle, {"saving"})
OpenCreateSubscription == Open("page", BillingHeader.create, "subscription")

(* What is left to pay is asked for at once, if anything is. *)
SubmitSubscription ==
    {[Submit("subscription", SubscriptionDialog.send, {"saving"}) EXCEPT !.later = d] :
        d \in {{}, {"payment"}}}

OpenPayment == {Open("page", SubscriptionRows.payment, "payment"),
                Open("details", DetailsDialog.pay, "payment")}
SubmitPayment == Submit("payment", PaymentDialog.send, {"saving"})
OpenRenewal == Open("page", SubscriptionRows.renew, "renewal")

(* The renewed subscription's details are shown. *)
SubmitRenewal == [Submit("renewal", RenewalDialog.send, {"saving"}) EXCEPT !.shows = {"details"}]

OpenSubscription ==
    {Ask("page", off, {"saving"}, {"details"}) : off \in {SubscriptionRows.details, AlertRows.details}}

BillingPage ==
    [dialogs |-> [plan |-> PlanDialog.leave, subscription |-> SubscriptionDialog.leave,
                  payment |-> PaymentDialog.leave, renewal |-> RenewalDialog.leave,
                  details |-> DetailsDialog.leave],
     mount |-> InitializeBilling, loader |-> {}, order |-> "any", covers |-> "yes",
     first |-> "alone",
     controls |-> {RefreshSubscriptions, RefreshAlerts, SynchronizeStatuses, OpenCreatePlan,
                   OpenEditPlan, SubmitPlan, TogglePlan, OpenCreateSubscription, SubmitPayment,
                   OpenRenewal, SubmitRenewal}
                  \cup SubmitSubscription \cup OpenPayment \cup OpenSubscription]

(***************************************************************************)
(* SettingsPage: academies, branches, sports and programs, each a list     *)
(* with one form.                                                          *)
(***************************************************************************)
LoadSettings == {"loading"}
AcademyRows == [edit |-> {"loading"}, remove |-> {"saving", "loading"}]
BranchRows == [edit |-> {"loading"}, remove |-> {"saving", "loading"}]
SportRows == [edit |-> {"loading"}, remove |-> {"saving", "loading"}]
ProgramRows == [edit |-> {"loading"}, remove |-> {"saving", "loading"}]
SettingsToolbar == [refresh |-> {}]
SettingsDialog == [leave |-> {"saving"}, send |-> {"saving"}]

OpenCurrentCreate == Open("page", {}, "form")
OpenEdit == {Open("page", rows.edit, "form") : rows \in {AcademyRows, BranchRows, SportRows, ProgramRows}}
SubmitForm == Submit("form", SettingsDialog.send, {"saving"})
RemoveSettingsItem ==
    {Submit("page", rows.remove, {"saving"}) : rows \in {AcademyRows, BranchRows, SportRows, ProgramRows}}

SettingsPage ==
    [dialogs |-> [form |-> SettingsDialog.leave],
     mount |-> LoadSettings, loader |-> LoadSettings, order |-> "any", covers |-> "yes",
     first |-> "alone",
     controls |-> {OpenCurrentCreate, SubmitForm, Load(SettingsToolbar.refresh, {})}
                  \cup OpenEdit \cup RemoveSettingsItem]

(***************************************************************************)
(* AttendancePage: sessions, the roster of one and a trainee's statistics. *)
(***************************************************************************)
LoadSessions == {"loading"}
AttendanceToolbar == [refresh |-> {}, filter |-> {}]
SessionRows == [roster |-> {"saving", "loading"}, edit |-> {"loading"},
                complete |-> {"saving", "loading"}, remove |-> {"saving", "loading"}]

(* Slip: the button stays in use while the session is being saved. *)
SessionDialogEager == [leave |-> {"saving"}, send |-> {}]

SessionDialog == [leave |-> {"saving"}, send |-> {"saving"}]
RosterDialog == [leave |-> {"details"}, save |-> {"saving", "details"}, stats |-> {"details"}]
StatsDialog == [leave |-> {"details"}]      \* open as long as statsLoading

OpenSession == {Open("page", off, "session") : off \in {{}, SessionRows.edit}}
SubmitSession == Submit("session", SessionDialog.send, {"saving"})
OpenRoster == Ask("page", SessionRows.roster, {"saving"}, {"roster"})

(* The roster stays open, or opens again, with the answer. *)
SaveAttendance ==
    [Submit("roster", RosterDialog.save, {"saving"}) EXCEPT !.closes = {}, !.shows = {"roster"}]
ChangeSessionStatus == Submit("page", SessionRows.complete, {"saving"})
RemoveSession == Submit("page", SessionRows.remove, {"saving"})
OpenTraineeStats == [Ask("roster", RosterDialog.stats, {"details"}, {}) EXCEPT !.opens = {"stats"}]

AttendancePage ==
    [dialogs |-> [session |-> SessionDialog.leave, roster |-> RosterDialog.leave,
                  stats |-> StatsDialog.leave],
     mount |-> LoadSessions, loader |-> LoadSessions, order |-> "any", covers |-> "yes",
     first |-> "beside",
     controls |-> {SubmitSession, OpenRoster, SaveAttendance, ChangeSessionStatus, RemoveSession,
                   OpenTraineeStats, Load(AttendanceToolbar.refresh, {}),
                   Load(AttendanceToolbar.filter, {})} \cup OpenSession]

(***************************************************************************)
(* TraineesPage: the list looks at the order of its answers (requestId).   *)
(***************************************************************************)
(* Slip: every answer is shown. *)
LoadTraineesAnyhow == [flag |-> {"loading"}, order |-> "any"]

LoadTrainees == [flag |-> {"loading"}, order |-> "latest"]
TraineesToolbar == [refresh |-> {}, search |-> {}]
TraineeRows == [edit |-> {"loading"}, delete |-> {"loading"}]

(* Slip: the dialog can be left while it is being sent. *)
TraineeDialogLoose == [leave |-> {}, send |-> {"saving"}]

TraineeDialog == [leave |-> {"saving"}, send |-> {"saving"}]

OpenTrainee == {Open("page", off, "trainee") : off \in {{}, TraineeRows.edit}}

(* Photo, trainee, enrolment, plan and subscription, one message each.     *)
HandleSubmit == Submit("trainee", TraineeDialog.send, {"saving"})
HandleDelete == Submit("page", TraineeRows.delete, {})

TraineesPage ==
    [dialogs |-> [trainee |-> TraineeDialog.leave],
     mount |-> LoadTrainees.flag, loader |-> LoadTrainees.flag, order |-> LoadTrainees.order,
     covers |-> "yes", first |-> "beside",
     controls |-> {HandleSubmit, HandleDelete, Load(TraineesToolbar.refresh, {}),
                   Load(TraineesToolbar.search, {})} \cup OpenTrainee]

(***************************************************************************)
(* GroupsPage: groups and the weekly schedule of one.                      *)
(***************************************************************************)
LoadGroups == {"loading"}
GroupsToolbar == [refresh |-> {}, filter |-> {}]
GroupRows == [schedules |-> {"loading"}, edit |-> {"loading"}, remove |-> {"loading"}]
GroupDialog == [leave |-> {"saving"}, send |-> {"saving"}]
SchedulesDialog == [leave |-> {}, add |-> {"saving"}, remove |-> {"saving"}]

OpenGroup == {Open("page", off, "group") : off \in {{}, GroupRows.edit}}
SubmitGroup == Submit("group", GroupDialog.send, {"saving"})
RemoveGroup == Submit("page", GroupRows.remove, {})
OpenSchedules == Open("page", GroupRows.schedules, "schedules")

(* The dialog shows the group of the answer, even if it has been left.     *)
AddGroupSchedule ==
    [Submit("schedules", SchedulesDialog.add, {"saving"}) EXCEPT !.closes = {}, !.shows = {"schedules"}]
RemoveGroupSchedule ==
    [Submit("schedules", SchedulesDialog.remove, {"saving"}) EXCEPT
        !.loads = "quietly", !.closes = {}, !.later = {"schedules"}]

GroupsPage ==
    [dialogs |-> [group |-> GroupDialog.leave, schedules |-> SchedulesDialog.leave],
     mount |-> LoadGroups, loader |-> LoadGroups, order |-> "any", covers |-> "yes",
     first |-> "beside",
     controls |-> {SubmitGroup, RemoveGroup, OpenSchedules, AddGroupSchedule, RemoveGroupSchedule,
                   Load(GroupsToolbar.refresh, {}), Load(GroupsToolbar.filter, {})} \cup OpenGroup]

(***************************************************************************)
(* UsersPage                                                               *)
(***************************************************************************)
LoadUsers == {"loading"}
UsersToolbar == [refresh |-> {}]
UserRows == [details |-> {"details", "loading"}]
UserDialog == [leave |-> {"saving"}, send |-> {"saving"}]
UserDetails == [leave |-> {}]

OpenCreateUser == Open("page", {}, "user")
SubmitUser == Submit("user", UserDialog.send, {"saving"})
OpenUser == Ask("page", UserRows.details, {"details"}, {"details"})

UsersPage ==
    [dialogs |-> [user |-> UserDialog.leave, details |-> UserDetails.leave],
     mount |-> LoadUsers, loader |-> LoadUsers, order |-> "any", covers |-> "yes",
     first |-> "beside",
     controls |-> {OpenCreateUser, SubmitUser, OpenUser, Load(UsersToolbar.refresh, {})}]

(***************************************************************************)
(* PortalLinksPage.  Its list, and those below, is kept by react-query     *)
(* (external): a new question cancels the ones under way.                  *)
(***************************************************************************)
PortalQuery == [order |-> "latest", first |-> "alone"]
LinksHeader == [create |-> {"saving"}, reject |-> {"saving"}, approve |-> {"saving"},
                resend |-> {"saving"}]
LinksToolbar == [refresh |-> {}]
LinkRows == [primary |-> {"saving"}, toggle |-> {"saving"}, resend |-> {"saving"},
             remove |-> {"saving"}]
LinkDialog == [leave |-> {"saving"}, send |-> {"saving"}]

OpenLink == Open("page", LinksHeader.create, "link")
SubmitLink == Submit("link", LinkDialog.send, {"saving"})
ToggleActive == Submit("page", LinkRows.toggle, {"saving"})
MakePrimary == Submit("page", LinkRows.primary, {"saving"})
PressRemoveLink == Submit("page", LinkRows.remove, {"saving"})
ApproveSelectedTrainee == Submit("page", LinksHeader.approve, {"saving"})
RejectSelectedTrainee == Submit("page", LinksHeader.reject, {"saving"})
ResendInvitation ==
    {Submit("page", off, {"saving"}) : off \in {LinksHeader.resend, LinkRows.resend}}

LinksPage ==
    [dialogs |-> [link |-> LinkDialog.leave],
     mount |-> {}, loader |-> {}, order |-> PortalQuery.order, covers |-> "yes",
     first |-> PortalQuery.first,
     controls |-> {OpenLink, SubmitLink, ToggleActive, MakePrimary, PressRemoveLink,
                   ApproveSelectedTrainee, RejectSelectedTrainee, Load(LinksToolbar.refresh, {})}
                  \cup ResendInvitation]

(***************************************************************************)
(* AcademyRequestsPage: savingId is the one request whose button is        *)
(* disabled; answering a second one frees the button of the first, and     *)
(* whichever is done first those of both.                                  *)
(***************************************************************************)
LoadRequests == {"loading"}
RequestRows ==
    [one |-> [off |-> {"saving", "loading"}, busy |-> {"saving"}, frees |-> {"other"}],
     another |-> [off |-> {"other", "loading"}, busy |-> {"other"}, frees |-> {"saving"}]]
HandleResolve ==
    {[Submit("page", RequestRows[i].off, RequestRows[i].busy) EXCEPT !.frees = RequestRows[i].frees] :
        i \in {"one", "another"}}

RequestsPage ==
    [dialogs |-> [d \in {} |-> {}],
     mount |-> LoadRequests, loader |-> LoadRequests, order |-> "any", covers |-> "yes",
     first |-> "beside",
     controls |-> {Load(LoadRequests, {})} \cup HandleResolve]

(***************************************************************************)
(* GalleryPage, NotificationsPage and RankingsPage: one list, a flag for   *)
(* each of two mutations of react-query.                                   *)
(***************************************************************************)
GalleryForm == [upload |-> {"saving"}]
GalleryList == [delete |-> {"deleting"}]
UploadItem == Submit("page", GalleryForm.upload, {"saving"})
DeleteItem == Submit("page", GalleryList.delete, {"deleting"})

NotificationForm == [send |-> {"saving"}]
NotificationHistory == [delete |-> {"deleting"}]
CreateNotification == Submit("page", NotificationForm.send, {"saving"})
DeleteNotification == Submit("page", NotificationHistory.delete, {"deleting"})

RankingRows == [save |-> {"saving"}, remove |-> {"deleting"}]
SaveRanking == Submit("page", RankingRows.save, {"saving"})
DeleteRanking == Submit("page", RankingRows.remove, {"deleting"})

GalleryQuery == [order |-> "latest", first |-> "beside"]
QueriedPage(controls) ==
    [dialogs |-> [d \in {} |-> {}],
     mount |-> {}, loader |-> {}, order |-> GalleryQuery.order, covers |-> "yes",
     first |-> GalleryQuery.first, controls |-> controls]

GalleryPage == QueriedPage({UploadItem, DeleteItem})
NotificationsPage == QueriedPage({CreateNotification, DeleteNotification})
RankingsPage == QueriedPage({SaveRanking, DeleteRanking})

(***************************************************************************)
(* DashboardPage and ReportsPage only ask.  (Each choice of academy,       *)
(* branch or period has a list of its own.)                                *)
(***************************************************************************)
RefreshAll == Load({}, {"loading"})
RefreshReports == Load({"loading"}, {"loading"})

DashboardPage == QueriedPage({RefreshAll})
ReportsPage == QueriedPage({RefreshReports})
=============================================================================
