-------------------------- MODULE PlatformScreens --------------------------
(***************************************************************************)
(* The pages of the platform's administrator, of trainees and parents, and *)
(* those before the login (frontend/src), as Screens needs them.           *)
(***************************************************************************)
EXTENDS Screens

NoDialogs == [d \in {} |-> {}]

(***************************************************************************)
(* SuperAdminPage: the buttons of the three forms are never disabled, and  *)
(* another tab loads while the last one is being loaded.                   *)
(***************************************************************************)
LoadSection == Load({}, {"loading"})            \* another tab
RefreshSection == Load({"loading"}, {"loading"})
PlanForm == [leave |-> {}, send |-> {}]
SaasSubscriptionForm == [leave |-> {}, send |-> {}]
SaasPaymentForm == [leave |-> {}, send |-> {}]

ShowForm == Open("page", {}, "form")
CreateSaasPlan == Submit("form", PlanForm.send, {"loading"})
CreateSaasSubscription == Submit("form", SaasSubscriptionForm.send, {"loading"})
CreateSaasPayment == Submit("form", SaasPaymentForm.send, {"loading"})

PlatformPage ==
    [dialogs |-> [form |-> PlanForm.leave \cup SaasSubscriptionForm.leave \cup SaasPaymentForm.leave],
     mount |-> {"loading"}, loader |-> {}, order |-> "any", covers |-> "no", first |-> "beside",
     controls |-> {LoadSection, RefreshSection, ShowForm, CreateSaasPlan, CreateSaasSubscription,
                   CreateSaasPayment}]

(***************************************************************************)
(* SuperAdminAcademiesSection: one panel that shows a form or the details  *)
(* of an academy; the rows beside it stay in use, and details, manager     *)
(* form and list share the flag that disables the forms' buttons.          *)
(***************************************************************************)
LoadAcademies == {"loading"}
AcademiesHeader == [refresh |-> {"loading"}, create |-> {}]
AcademiesRows == [show |-> {}, edit |-> {}, manager |-> {}, branch |-> {}, status |-> {}]
AcademyForm == [leave |-> {}, send |-> {"loading"}]
ManagerForm == [leave |-> {}, send |-> {"loading"}, resend |-> {"loading"}]
BranchForm == [leave |-> {}, send |-> {"loading"}]
AcademyDetails == [leave |-> {}, resend |-> {"loading"}]

LoadDetails == [Ask("page", {}, LoadAcademies, {}) EXCEPT !.opens = {"panel"}]
OpenDetails == [LoadDetails EXCEPT !.off = AcademiesRows.show]
OpenManager == [LoadDetails EXCEPT !.off = AcademiesRows.manager]
OpenCreate == Open("page", AcademiesHeader.create, "panel")
OpenAcademy == Open("page", AcademiesRows.edit, "panel")
OpenBranch == Open("page", AcademiesRows.branch, "panel")
CreateAcademyForm == Submit("panel", AcademyForm.send, LoadAcademies)
UpdateAcademyForm == Submit("panel", AcademyForm.send, LoadAcademies)
ChangeAcademyStatus == Submit("page", AcademiesRows.status, LoadAcademies)
ResendManagerPasswordLink == Send("panel", ManagerForm.resend, LoadAcademies)
ResendExistingManagerPasswordLink == Send("panel", AcademyDetails.resend, LoadAcademies)
CreateManagerForm == Submit("panel", ManagerForm.send, LoadAcademies)
EnsureBranchForm == Submit("panel", BranchForm.send, LoadAcademies)

AcademiesPage ==
    [dialogs |-> [panel |-> {}],        \* closePanel
     mount |-> LoadAcademies, loader |-> LoadAcademies, order |-> "any", covers |-> "no",
     first |-> "beside",
     controls |-> {OpenDetails, OpenManager, OpenCreate, OpenAcademy, OpenBranch,
                   CreateAcademyForm, UpdateAcademyForm, ChangeAcademyStatus,
                   ResendManagerPasswordLink, ResendExistingManagerPasswordLink,
                   CreateManagerForm, EnsureBranchForm, Load(AcademiesHeader.refresh, {})}]

(***************************************************************************)
(* SuperAdminOperationsSection: users, tickets, audit and settings; with   *)
(* another tab the flag of a submission is cleared by the list.            *)
(***************************************************************************)
LoadOperations == {"loading"}
OperationsHeader == [refresh |-> {"loading"}, tab |-> {}]
SystemUserRows == [status |-> {"loading"}]
TicketForm == [send |-> {"loading"}]
TicketRows == [status |-> {"loading"}]
SettingRows == [save |-> {"loading"}]

PressUserStatus == Submit("page", SystemUserRows.status, {"loading"})
PressCreateTicket == Submit("page", TicketForm.send, {"loading"})
PressTicketStatus == Submit("page", TicketRows.status, {"loading"})
PressSaveSetting == Submit("page", SettingRows.save, {"loading"})

OperationsPage ==
    [dialogs |-> NoDialogs,
     mount |-> LoadOperations, loader |-> LoadOperations, order |-> "any", covers |-> "yes",
     first |-> "beside",
     controls |-> {PressUserStatus, PressCreateTicket, PressTicketStatus, PressSaveSetting,
                   Load(OperationsHeader.refresh, {}), Load(OperationsHeader.tab, {})}]

(***************************************************************************)
(* A trainee's or parent's page: the portal, requests and complaints, and  *)
(* the messages of the academy, which are lists of their own.              *)
(***************************************************************************)
LoadFeedback == {"loading"}
FeedbackForm == [send |-> {"saving"}]
FeedbackHistory == [refresh |-> {"loading"}]
SubmitRequest == Submit("page", FeedbackForm.send, {"saving"})

ClientFeedbackPage ==
    [dialogs |-> NoDialogs,
     mount |-> LoadFeedback, loader |-> LoadFeedback, order |-> "any", covers |-> "yes",
     first |-> "beside",
     controls |-> {SubmitRequest, Load(FeedbackHistory.refresh, {})}]

ClientQuery == [order |-> "latest", first |-> "beside"]     \* react-query: see OfficeScreens
MarkRead == Submit("page", {}, {})
RefetchMessages == Load({}, {})                 \* each minute

ClientMessagesPage ==
    [dialogs |-> NoDialogs, mount |-> {}, loader |-> {}, order |-> ClientQuery.order,
     covers |-> "yes", first |-> ClientQuery.first, controls |-> {MarkRead, RefetchMessages}]

(***************************************************************************)
(* The login of both applications and the recovery of a password.          *)
(***************************************************************************)
Login == Send("page", {"saving"}, {"saving"})
PlatformLogin == Send("page", {"loading"}, {"loading"})
ForgotPassword == Send("page", {"saving"}, {"saving"})
ResetPasswordForm == Send("page", {"saving"}, {"saving"})

EntryPage(control) ==
    [dialogs |-> NoDialogs, mount |-> {}, loader |-> {}, order |-> "any", covers |-> "yes",
     first |-> "none", controls |-> {control}]
=============================================================================
