---------------------------- MODULE ClientScreens ----------------------------
(***************************************************************************)
(* The pages of the browser application, by the names of their routes      *)
(* (frontend/src/main.tsx), and which of them keep which promise.          *)
(***************************************************************************)
EXTENDS OfficeScreens, PlatformScreens

Pages ==
    [billing |-> BillingPage, settings |-> SettingsPage, attendance |-> AttendancePage,
     trainees |-> TraineesPage, groups |-> GroupsPage, users |-> UsersPage, links |-> LinksPage,
     requests |-> RequestsPage, gallery |-> GalleryPage, notifications |-> NotificationsPage,
     rankings |-> RankingsPage, dashboard |-> DashboardPage, reports |-> ReportsPage,
     platform |-> PlatformPage, academies |-> AcademiesPage, operations |-> OperationsPage,
     feedback |-> ClientFeedbackPage, messages |-> ClientMessagesPage,
     entry |-> EntryPage(Login), console |-> EntryPage(PlatformLogin),
     forgotten |-> EntryPage(ForgotPassword), reset |-> EntryPage(ResetPasswordForm)]

(* A button that the flag of a submission does not disable works during    *)
(* it, or another answer clears that flag.                                 *)
OverlappingPages == {"billing", "requests", "platform", "academies", "operations"}

(* A dialog can be left while it is being sent. *)
ReopeningPages == {"billing", "platform", "academies"}

(* Every answer is shown, also one to an earlier question. *)
UnorderedPages ==
    {"billing", "settings", "attendance", "groups", "users", "requests", "platform", "academies",
     "operations", "feedback"}
=============================================================================
