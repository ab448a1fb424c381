------------------------------ MODULE Screens ------------------------------
(***************************************************************************)
(* How a page of the browser application works (frontend/src/features):    *)
(* a press of a button sets a flag, exchanges messages with the server,    *)
(* closes the dialog it was in, loads the list anew and clears the flag.   *)
(* Between any two of these steps another press may come: whatever the     *)
(* flags do not disable is accepted.  The answers come in any order, late  *)
(* or not at all (axios gives up after 15 seconds, fetch never).           *)
(*                                                                         *)
(* What the pages have in common is here; what each of them does is data,  *)
(* ScreenTable: see OfficeScreens and PlatformScreens.                     *)
(*                                                                         *)
(* Left out: what is in a list or a form (a list is the number of changes  *)
(* it reflects), and the checks of a form before its first message; the    *)
(* messages of one press count as one exchange, of which any part may be   *)
(* done when it fails; going to another page and back.  A dialog covers    *)
(* what is beneath it.                                                     *)
(***************************************************************************)
EXTENDS Integers

CONSTANTS
    ScreenTable,    \* the description of each page, by its name
    Presses,        \* presses that may be under way at the same time
    MaxChanges,     \* bound: changes the server makes for a page
    Overlapping,    \* pages whose flags do not keep submissions apart
    Reopening,      \* pages whose dialogs can be left during a submission
    Unordered       \* pages that show the list of whichever answer comes last

VARIABLES
    screen,     \* the page that is open
    flags,      \* its flags that are set
    opened,     \* its dialogs that are open
    press,      \* where each press of a button stands
    changes,    \* what the server has changed for the page
    shown,      \* the changes the page's list reflects; -1 before the first load
    reused      \* history: presses whose dialog was left and opened again meanwhile

screenVars == <<screen, flags, opened, press, changes, shown, reused>>

Flags == {"saving", "loading", "details", "deleting", "other"}
Versions == -1..MaxChanges

(* What pressing a control does:                                           *)
(*   at      the dialog the control is in, or "page"                       *)
(*   off     flags that disable or hide it                                 *)
(*   busy    flags it sets until it is done                                *)
(*   frees   flags it clears besides, with the press and when it is done   *)
(*   sends   a change, a question for details, or nothing                  *)
(*   loads   the list is loaded (anew) when that is done; quietly: without *)
(*           the page's flags for it                                       *)
(*   opens   dialogs that open at once                                     *)
(*   closes  dialogs that close when the answer is there                   *)
(*   shows   dialogs that open with the answer                             *)
(*   later   dialogs that open when the list has been loaded               *)
Control(names) ==
    [at : names \cup {"page"}, off : SUBSET Flags, busy : SUBSET Flags, frees : SUBSET Flags,
     sends : {"change", "question", "nothing"}, loads : {"yes", "quietly", "no"},
     opens : SUBSET names, closes : SUBSET names, shows : SUBSET names, later : SUBSET names]

(*   dialogs   flags that keep each dialog from being left                 *)
(*   mount     flags that the first load sets                              *)
(*   loader    flags that loading the list sets and clears by itself       *)
(*   order     "latest": only the answer to the latest question for the    *)
(*             list is shown; "any": each is                               *)
(*   covers    "no": the page's controls work while a dialog is open       *)
(*   first     "alone": no control works before the first list has come,   *)
(*             "beside": some do, "none": there is no first list           *)
IsScreen(s) ==
    LET names == DOMAIN s.dialogs
    IN  /\ s.dialogs \in [names -> SUBSET Flags]
        /\ s.mount \subseteq Flags /\ s.loader \subseteq Flags
        /\ s.order \in {"latest", "any"} /\ s.covers \in {"yes", "no"}
        /\ s.first \in {"alone", "beside", "none"}
        /\ s.controls \subseteq Control(names)

ASSUME ScreenAssumption ==
    /\ \A n \in DOMAIN ScreenTable : IsScreen(ScreenTable[n])
    /\ "login" \notin DOMAIN ScreenTable
    /\ MaxChanges \in Nat

(* A change sent from a dialog, which closes, or from the page; the list is *)
(* loaded.                                                                 *)
Submit(at, off, busy) ==
    [at |-> at, off |-> off, busy |-> busy, frees |-> {}, sends |-> "change", loads |-> "yes",
     opens |-> {}, closes |-> IF at = "page" THEN {} ELSE {at}, shows |-> {}, later |-> {}]

(* A change and no more. *)
Send(at, off, busy) == [Submit(at, off, busy) EXCEPT !.loads = "no", !.closes = {}]

(* The list is loaded. *)
Load(off, busy) == [Submit("page", off, busy) EXCEPT !.sends = "nothing"]

(* Something is asked for, to be shown in a dialog or on the page. *)
Ask(at, off, busy, shows) ==
    [Send(at, off, busy) EXCEPT !.sends = "question", !.shows = shows]

(* A dialog opens; the one the button is in closes. *)
Open(at, off, dialog) ==
    [Submit(at, off, {}) EXCEPT !.sends = "nothing", !.loads = "no", !.opens = {dialog}]

-----------------------------------------------------------------------------
This == ScreenTable[screen]

NoPress == [step |-> "none"]
PressSteps == {"sent", "done", "asking", "asked", "old"}
Stand(step, c, seen) == [step |-> step, control |-> c, seen |-> seen]
FirstLoad(s) == Load({}, s.mount)

(* The page is open and its first load, if it has one, under way. *)
ScreensInit ==
    /\ screen \in DOMAIN ScreenTable
    /\ LET none == This.first = "none"
       IN  /\ flags = IF none THEN {} ELSE This.mount
           /\ shown = IF none THEN 0 ELSE -1
           /\ \E mount \in Presses :
                press = [p \in Presses |-> IF p = mount /\ ~none
                                           THEN Stand("asking", FirstLoad(This), -1) ELSE NoPress]
    /\ opened = {}
    /\ changes = 0
    /\ reused = {}

Reachable(c) ==
    /\ screen # "login" /\ (This.first = "alone" => shown # -1)
    /\ IF c.at = "page" THEN opened = {} \/ This.covers = "no" ELSE c.at \in opened
    /\ c.off \cap flags = {}

(* With a new question for the list the ones under way are old, if the     *)
(* page looks at their order.                                              *)
Outdated ==
    [q \in Presses |->
        IF press[q].step \in {"asking", "asked"} /\ This.order = "latest"
        THEN [press[q] EXCEPT !.step = "old"] ELSE press[q]]

Loader(c) == IF c.loads = "yes" THEN This.loader ELSE {}

(* The press p is done with its messages: the list is loaded, or that's it. *)
Proceed(p, c) ==
    IF c.loads # "no"
    THEN /\ press' = [Outdated EXCEPT ![p] = Stand("asking", c, -1)]
         /\ flags' = flags \cup Loader(c) \cup IF c.sends = "nothing" THEN c.busy ELSE {}
    ELSE /\ press' = [press EXCEPT ![p] = NoPress]
         /\ flags' = flags \ (c.busy \cup c.frees)

(* Dialogs open, maybe one that a submission under way is going to close.  *)
Turn(closes, shows) ==
    /\ opened' = (opened \ closes) \cup shows
    /\ reused' = reused \cup
          {q \in Presses : /\ press[q].step \in {"sent", "done"}
                           /\ (shows \ opened) \cap press[q].control.closes # {}}

(* A control is pressed. *)
PressControl(p, c) ==
    /\ press[p] = NoPress
    /\ c.sends # "nothing" \/ c.loads # "no"
    /\ Reachable(c)
    /\ IF c.sends = "nothing" THEN Proceed(p, c)
       ELSE /\ press' = [press EXCEPT ![p] = Stand("sent", c, -1)]
            /\ flags' = (flags \ c.frees) \cup c.busy
    /\ Turn({}, c.opens)
    /\ UNCHANGED <<screen, changes, shown>>

(* A button that opens a dialog. *)
OpenDialog(c) ==
    /\ c.sends = "nothing" /\ c.loads = "no"
    /\ Reachable(c)
    /\ Turn(c.closes, c.opens)
    /\ UNCHANGED <<screen, flags, press, changes, shown>>

(* Cancel, the cross, or a press beside the dialog. *)
LeaveDialog(d) ==
    /\ d \in opened /\ This.dialogs[d] \cap flags = {}
    /\ opened' = opened \ {d}
    /\ UNCHANGED <<screen, flags, press, changes, shown, reused>>

(* The server does what it is asked. *)
Serve(p) ==
    /\ press[p].step = "sent"
    /\ press[p].control.sends = "change" => changes < MaxChanges
    /\ changes' = IF press[p].control.sends = "change" THEN changes + 1 ELSE changes
    /\ press' = [press EXCEPT ![p].step = "done"]
    /\ UNCHANGED <<screen, flags, opened, shown, reused>>

(* The answer is there. *)
Answer(p) ==
    /\ press[p].step = "done"
    /\ opened' = (opened \ press[p].control.closes) \cup press[p].control.shows
    /\ reused' = reused \ {p}
    /\ Proceed(p, press[p].control)
    /\ UNCHANGED <<screen, changes, shown>>

(* The server reads the list. *)
Read(p) ==
    /\ press[p].step = "asking"
    /\ press' = [press EXCEPT ![p].step = "asked", ![p].seen = changes]
    /\ UNCHANGED <<screen, flags, opened, changes, shown, reused>>

(* The end of the press, whatever it came to: finally { ... }. *)
Finish(p) ==
    /\ press' = [press EXCEPT ![p] = NoPress]
    /\ flags' = flags \ (press[p].control.busy \cup press[p].control.frees
                         \cup IF press[p].step \in {"asking", "asked"} THEN Loader(press[p].control) ELSE {})

(* The list arrives. *)
Deliver(p) ==
    /\ press[p].step = "asked"
    /\ shown' = press[p].seen
    /\ Turn({}, press[p].control.later)
    /\ Finish(p)
    /\ UNCHANGED <<screen, changes>>

(* A refusal, an error of the server or of the form, no answer in time, or *)
(* an answer nobody waits for any more.                                    *)
Fail(p) ==
    /\ press[p] # NoPress
    /\ Finish(p)
    /\ reused' = reused \ {p}
    /\ UNCHANGED <<screen, opened, changes, shown>>

(* An answer is 401: the stored tokens are removed and the application     *)
(* starts anew with the login.                                             *)
SignOut(p) ==
    /\ press[p].step \in {"sent", "asking"}
    /\ screen' = "login"
    /\ press' = [q \in Presses |-> NoPress]
    /\ flags' = {} /\ opened' = {} /\ reused' = {}
    /\ UNCHANGED <<changes, shown>>

ScreensNext ==
    \/ \E p \in Presses :
        \/ Serve(p) \/ Answer(p) \/ Read(p) \/ Deliver(p) \/ Fail(p) \/ SignOut(p)
    \/ /\ screen # "login"
       /\ \/ \E c \in This.controls : OpenDialog(c) \/ \E p \in Presses : PressControl(p, c)
          \/ \E d \in DOMAIN This.dialogs : LeaveDialog(d)

ScreensSpec == ScreensInit /\ [][ScreensNext]_screenVars

-----------------------------------------------------------------------------
ScreensTypeOK ==
    /\ screen \in DOMAIN ScreenTable \cup {"login"}
    /\ flags \subseteq Flags
    /\ opened \subseteq IF screen = "login" THEN {} ELSE DOMAIN This.dialogs
    /\ \A p \in Presses :
        press[p] # NoPress =>
            /\ screen # "login"
            /\ press[p].control \in This.controls \cup {FirstLoad(This)}
            /\ press[p] = Stand(press[p].step, press[p].control, press[p].seen)
            /\ press[p].step \in PressSteps
            /\ press[p].seen \in Versions
    /\ changes \in 0..MaxChanges
    /\ shown \in Versions
    /\ reused \subseteq Presses

Unanswered(p) == press[p].step \in {"sent", "done"}

(* A form is sent once: what a submission has disabled stays disabled      *)
(* until its answer is there, whatever else is pressed and answered        *)
(* meanwhile, so that no two changes under the same flag are under way.    *)
(* (The pages of Overlapping do not promise it: see their definitions.)    *)
OneSubmission ==
    screen \notin Overlapping =>
        \A p, q \in Presses :
            (p # q /\ Unanswered(p) /\ Unanswered(q)
                /\ press[p].control.sends = "change" /\ press[q].control.sends = "change") =>
                    press[p].control.busy \cap press[q].control.busy = {}

(* A submission closes the dialog it was sent from, never the same dialog  *)
(* opened anew for something else, with what has been entered in it.       *)
DialogsKept == screen \notin Reopening => reused = {}

(* The list on the page never goes back to an earlier state of the server. *)
NeverOlder == [][screen' \notin Unordered => shown' >= shown]_screenVars
=============================================================================
