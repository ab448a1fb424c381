--------------------------- MODULE ScreensProofs ---------------------------
(***************************************************************************)
(* Proofs about Screens, for any table of pages, and about the pages of    *)
(* the application, which meet their conditions.                           *)
(***************************************************************************)
EXTENDS ClientScreens, TLAPS

Settled == press = [p \in Presses |-> press[p]]

(* Only a press that has sent something waits for its answer. *)
AnswersAwaited ==
    \A p \in Presses :
        Unanswered(p) => /\ press[p].control \in This.controls
                         /\ press[p].control.sends # "nothing"

ScreensBase == ScreensTypeOK /\ Settled /\ (screen # "login" => AnswersAwaited)

LEMMA FirstLoadFields ==
    ASSUME NEW s
    PROVE  /\ FirstLoad(s).busy = s.mount /\ FirstLoad(s).frees = {} /\ FirstLoad(s).off = {}
           /\ FirstLoad(s).sends = "nothing" /\ FirstLoad(s).loads = "yes"
           /\ FirstLoad(s).opens = {} /\ FirstLoad(s).closes = {} /\ FirstLoad(s).shows = {}
           /\ FirstLoad(s).later = {}
  BY DEF FirstLoad, Load, Submit

LEMMA ThisPage ==
    ASSUME ScreensTypeOK, screen # "login"
    PROVE  /\ screen \in DOMAIN ScreenTable
           /\ This.mount \subseteq Flags /\ This.loader \subseteq Flags
           /\ This.controls \subseteq Control(DOMAIN This.dialogs)
           /\ This.dialogs \in [DOMAIN This.dialogs -> SUBSET Flags]
  BY ScreenAssumption DEF ScreensTypeOK, This, IsScreen

LEMMA ControlFields ==
    ASSUME ScreensTypeOK, screen # "login", NEW c \in This.controls \cup {FirstLoad(This)}
    PROVE  /\ c.busy \subseteq Flags /\ c.frees \subseteq Flags
           /\ c.opens \subseteq DOMAIN This.dialogs /\ c.closes \subseteq DOMAIN This.dialogs
           /\ c.shows \subseteq DOMAIN This.dialogs /\ c.later \subseteq DOMAIN This.dialogs
           /\ c.loads \in {"yes", "quietly", "no"}
  <1>1. CASE c \in This.controls
    <2>1. c \in Control(DOMAIN This.dialogs)
      BY <1>1, ThisPage
    <2> QED
      BY <2>1 DEF Control
  <1>2. CASE c = FirstLoad(This)
    BY <1>2, FirstLoadFields, ThisPage
  <1> QED
    BY <1>1, <1>2

LEMMA StandFields ==
    ASSUME NEW step, NEW c, NEW seen
    PROVE  /\ Stand(step, c, seen).step = step /\ Stand(step, c, seen).control = c
           /\ Stand(step, c, seen).seen = seen
           /\ step # "none" => Stand(step, c, seen) # NoPress
  <1>1. step # "none" => Stand(step, c, seen) # NoPress
    <2>1. Stand(step, c, seen).step = step /\ NoPress.step = "none"
      BY DEF Stand, NoPress
    <2> QED
      BY <2>1
  <1> QED
    BY <1>1 DEF Stand

LEMMA StandMoves ==
    ASSUME NEW step, NEW c, NEW seen, NEW new
    PROVE  [Stand(step, c, seen) EXCEPT !.step = new] = Stand(new, c, seen)
  <1> DEFINE R == [step : {step, new}, control : {c}, seen : {seen}]
             one == [Stand(step, c, seen) EXCEPT !.step = new]
  <1>1. Stand(step, c, seen) \in R /\ Stand(new, c, seen) \in R
    BY DEF Stand
  <1>2. one \in R /\ one.step = new
    BY <1>1
  <1> QED
    BY <1>1, <1>2 DEF Stand

LEMMA StandSees ==
    ASSUME NEW step, NEW c, NEW seen, NEW at
    PROVE  [Stand(step, c, seen) EXCEPT !.seen = at] = Stand(step, c, at)
  <1> DEFINE R == [step : {step}, control : {c}, seen : {seen, at}]
             one == [Stand(step, c, seen) EXCEPT !.seen = at]
  <1>1. Stand(step, c, seen) \in R /\ Stand(step, c, at) \in R
    BY DEF Stand
  <1>2. one \in R /\ one.seen = at
    BY <1>1
  <1> QED
    BY <1>1, <1>2 DEF Stand

LEMMA StandingMoves ==
    ASSUME NEW r, r = Stand(r.step, r.control, r.seen), NEW new
    PROVE  [r EXCEPT !.step = new] = Stand(new, r.control, r.seen)
  <1> DEFINE step == r.step
             c == r.control
             seen == r.seen
  <1>1. r = Stand(step, c, seen)
    OBVIOUS
  <1>2. [Stand(step, c, seen) EXCEPT !.step = new] = Stand(new, c, seen)
    BY StandMoves
  <1> HIDE DEF step, c, seen
  <1>3. [r EXCEPT !.step = new] = Stand(new, c, seen)
    BY <1>1, <1>2
  <1> QED
    BY <1>3 DEF c, seen

(* One press. *)
Standing(r) ==
    r # NoPress =>
        /\ r.control \in This.controls \cup {FirstLoad(This)}
        /\ r = Stand(r.step, r.control, r.seen)
        /\ r.step \in PressSteps
        /\ r.seen \in Versions

LEMMA StandIsStanding ==
    ASSUME NEW step \in PressSteps, NEW c \in This.controls \cup {FirstLoad(This)},
           NEW seen \in Versions
    PROVE  Standing(Stand(step, c, seen))
  <1>1. /\ Stand(step, c, seen).step = step /\ Stand(step, c, seen).control = c
        /\ Stand(step, c, seen).seen = seen
    BY StandFields
  <1> QED
    BY <1>1 DEF Standing

LEMMA TypeFacts ==
    ASSUME ScreensBase
    PROVE  /\ \A p \in Presses : Standing(press[p])
           /\ \A p \in Presses : press[p] # NoPress =>
                 /\ press[p].step \in PressSteps /\ screen # "login"
                 /\ press[p].control \in This.controls \cup {FirstLoad(This)}
           /\ \A p \in Presses : press[p] = NoPress => press[p].step = "none"
           /\ changes \in 0..MaxChanges /\ shown \in Versions /\ changes \in Versions
           /\ MaxChanges \in Nat /\ -1 \in Versions
  BY ScreenAssumption DEF ScreensBase, ScreensTypeOK, Standing, NoPress, Versions

(* What becomes of the other presses when the list is asked for. *)
LEMMA OutdatedFields ==
    ASSUME ScreensBase, NEW q \in Presses
    PROVE  \/ Outdated[q] = press[q]
           \/ /\ press[q].step \in {"asking", "asked"}
              /\ Outdated[q] = Stand("old", press[q].control, press[q].seen)
  <1>1. CASE press[q].step \in {"asking", "asked"} /\ This.order = "latest"
    <2>1. press[q] # NoPress
      BY <1>1 DEF NoPress
    <2>2. press[q] = Stand(press[q].step, press[q].control, press[q].seen)
      BY <2>1, TypeFacts DEF Standing
    <2>3. Outdated[q] = [press[q] EXCEPT !.step = "old"]
      BY <1>1 DEF Outdated
    <2> QED
      BY <1>1, <2>2, <2>3, StandingMoves
  <1>2. CASE ~(press[q].step \in {"asking", "asked"} /\ This.order = "latest")
    BY <1>2 DEF Outdated
  <1> QED
    BY <1>1, <1>2

(* The presses move as they may: p to r, others at most become old. *)
Moves(p, r) ==
    /\ press' = [q \in Presses |-> press'[q]]
    /\ press'[p] = r
    /\ \A q \in Presses \ {p} :
          \/ press'[q] = press[q]
          \/ /\ press[q].step \in {"asking", "asked"}
             /\ press'[q] = Stand("old", press[q].control, press[q].seen)

LEMMA ProceedMoves ==
    ASSUME ScreensBase, NEW p \in Presses, NEW c, Proceed(p, c)
    PROVE  \/ /\ c.loads # "no" /\ Moves(p, Stand("asking", c, -1))
              /\ flags' = flags \cup Loader(c) \cup IF c.sends = "nothing" THEN c.busy ELSE {}
           \/ /\ c.loads = "no" /\ Moves(p, NoPress)
              /\ flags' = flags \ (c.busy \cup c.frees)
  <1>1. CASE c.loads # "no"
    <2>1. press' = [Outdated EXCEPT ![p] = Stand("asking", c, -1)]
      BY <1>1 DEF Proceed
    <2>2. Outdated = [q \in Presses |-> Outdated[q]]
      BY DEF Outdated
    <2>3. Moves(p, Stand("asking", c, -1))
      BY <2>1, <2>2, OutdatedFields DEF Moves
    <2> QED
      BY <1>1, <2>3 DEF Proceed
  <1>2. CASE c.loads = "no"
    BY <1>2 DEF Proceed, Moves, ScreensBase, Settled
  <1> QED
    BY <1>1, <1>2

LEMMA OneMoves ==
    ASSUME ScreensBase, NEW p \in Presses, NEW r, press' = [press EXCEPT ![p] = r]
    PROVE  Moves(p, r)
  BY DEF Moves, ScreensBase, Settled

(* The types, once it is known what the step does. *)
LEMMA TypesKept ==
    ASSUME ScreensBase, screen # "login", screen' = screen, NEW p \in Presses, NEW r,
           Moves(p, r), Standing(r), flags' \subseteq Flags,
           opened' \subseteq DOMAIN This.dialogs,
           changes' \in 0..MaxChanges, shown' \in Versions, reused' \subseteq Presses,
           r.step \in {"sent", "done"} => r.control \in This.controls /\ r.control.sends # "nothing"
    PROVE  ScreensBase'
  <1>1. This' = This
    BY DEF This
  <1>2. \A q \in Presses : Standing(press'[q])
    <2>1. ASSUME NEW q \in Presses, q # p PROVE Standing(press'[q])
      <3>1. CASE press'[q] = press[q]
        BY <3>1, TypeFacts
      <3>2. CASE /\ press[q].step \in {"asking", "asked"}
                 /\ press'[q] = Stand("old", press[q].control, press[q].seen)
        <4>1. press[q] # NoPress
          BY <3>2 DEF NoPress
        <4>2. press[q].control \in This.controls \cup {FirstLoad(This)} /\ press[q].seen \in Versions
          BY <4>1, TypeFacts DEF Standing
        <4> QED
          BY <3>2, <4>2, StandIsStanding DEF PressSteps
      <3> QED
        BY <2>1, <3>1, <3>2 DEF Moves
    <2> QED
      BY <2>1 DEF Moves
  <1>3. ScreensTypeOK'
    BY <1>1, <1>2 DEF ScreensBase, ScreensTypeOK, Standing
  <1>4. AnswersAwaited'
    <2> SUFFICES ASSUME NEW q \in Presses, press'[q].step \in {"sent", "done"}
                 PROVE  /\ press'[q].control \in This.controls
                        /\ press'[q].control.sends # "nothing"
      BY <1>1 DEF AnswersAwaited, Unanswered
    <2>1. CASE q = p
      BY <2>1 DEF Moves
    <2>2. CASE q # p
      <3>1. press'[q] = press[q]
        <4>1. Stand("old", press[q].control, press[q].seen).step = "old"
          BY StandFields
        <4> QED
          BY <2>2, <4>1 DEF Moves
      <3> QED
        BY <3>1 DEF ScreensBase, AnswersAwaited, Unanswered
    <2> QED
      BY <2>1, <2>2
  <1> QED
    BY <1>3, <1>4 DEF ScreensBase, Settled, Moves

-----------------------------------------------------------------------------
(* What each action does, in these terms. *)
LEMMA PressEffect ==
    ASSUME ScreensBase, screen # "login", NEW p \in Presses, NEW c \in This.controls,
           PressControl(p, c)
    PROVE  /\ press[p] = NoPress /\ Reachable(c) /\ Turn({}, c.opens)
           /\ UNCHANGED <<screen, changes, shown>>
           /\ \/ /\ c.sends = "nothing" /\ c.loads # "no" /\ Moves(p, Stand("asking", c, -1))
                 /\ flags' = flags \cup Loader(c) \cup c.busy
                 /\ press' = [Outdated EXCEPT ![p] = Stand("asking", c, -1)]
              \/ /\ c.sends # "nothing" /\ Moves(p, Stand("sent", c, -1))
                 /\ flags' = (flags \ c.frees) \cup c.busy
                 /\ press' = [press EXCEPT ![p] = Stand("sent", c, -1)]
  <1>1. CASE c.sends = "nothing"
    BY <1>1, ProceedMoves DEF PressControl, Proceed
  <1>2. CASE c.sends # "nothing"
    BY <1>2, OneMoves DEF PressControl
  <1> QED
    BY <1>1, <1>2 DEF PressControl

LEMMA ServeEffect ==
    ASSUME ScreensBase, NEW p \in Presses, Serve(p)
    PROVE  /\ press[p].step = "sent"
           /\ Moves(p, Stand("done", press[p].control, press[p].seen))
           /\ changes' \in 0..MaxChanges /\ changes <= changes'
           /\ UNCHANGED <<screen, flags, opened, shown, reused>>
  <1>1. press[p].step = "sent" /\ press[p] # NoPress
    BY DEF Serve, NoPress
  <1>2. [press[p] EXCEPT !.step = "done"] = Stand("done", press[p].control, press[p].seen)
    BY <1>1, TypeFacts, StandingMoves DEF Standing
  <1>3. press' = [press EXCEPT ![p] = [press[p] EXCEPT !.step = "done"]]
    BY DEF Serve
  <1>4. Moves(p, Stand("done", press[p].control, press[p].seen))
    BY <1>2, <1>3, OneMoves
  <1>5. changes' \in 0..MaxChanges /\ changes <= changes'
    BY TypeFacts DEF Serve
  <1> QED
    BY <1>1, <1>4, <1>5 DEF Serve

LEMMA AnswerEffect ==
    ASSUME ScreensBase, NEW p \in Presses, Answer(p)
    PROVE  LET c == press[p].control
           IN  /\ press[p].step = "done"
               /\ opened' = (opened \ c.closes) \cup c.shows /\ reused' = reused \ {p}
               /\ UNCHANGED <<screen, changes, shown>>
               /\ \/ /\ c.loads # "no" /\ Moves(p, Stand("asking", c, -1))
                     /\ flags' = flags \cup Loader(c) \cup IF c.sends = "nothing" THEN c.busy ELSE {}
                     /\ press' = [Outdated EXCEPT ![p] = Stand("asking", c, -1)]
                  \/ /\ c.loads = "no" /\ Moves(p, NoPress)
                     /\ flags' = flags \ (c.busy \cup c.frees)
                     /\ press' = [press EXCEPT ![p] = NoPress]
  BY ProceedMoves DEF Answer, Proceed

LEMMA ReadEffect ==
    ASSUME ScreensBase, NEW p \in Presses, Read(p)
    PROVE  /\ press[p].step = "asking"
           /\ Moves(p, Stand("asked", press[p].control, changes))
           /\ press' = [press EXCEPT ![p] = Stand("asked", press[p].control, changes)]
           /\ UNCHANGED <<screen, flags, opened, changes, shown, reused>>
  <1> DEFINE c == press[p].control
             seen == press[p].seen
  <1>1. press[p].step = "asking" /\ press[p] # NoPress
    BY DEF Read, NoPress
  <1>2. press[p] = Stand("asking", c, seen)
    BY <1>1, TypeFacts DEF Standing
  <1>3. press' = [press EXCEPT ![p] = [[press[p] EXCEPT !.step = "asked"] EXCEPT !.seen = changes]]
    BY DEF Read, ScreensBase, Settled
  <1> HIDE DEF c, seen
  <1>4. [[press[p] EXCEPT !.step = "asked"] EXCEPT !.seen = changes] = Stand("asked", c, changes)
    <2>1. [press[p] EXCEPT !.step = "asked"] = Stand("asked", c, seen)
      BY <1>2, StandMoves
    <2>2. [Stand("asked", c, seen) EXCEPT !.seen = changes] = Stand("asked", c, changes)
      BY StandSees
    <2> QED
      BY <2>1, <2>2
  <1>5. Moves(p, Stand("asked", c, changes))
    BY <1>3, <1>4, OneMoves
  <1> QED
    BY <1>1, <1>3, <1>4, <1>5 DEF c, Read

LEMMA DeliverEffect ==
    ASSUME ScreensBase, NEW p \in Presses, Deliver(p)
    PROVE  LET c == press[p].control
           IN  /\ press[p].step = "asked" /\ shown' = press[p].seen
               /\ Moves(p, NoPress) /\ press' = [press EXCEPT ![p] = NoPress]
               /\ flags' = flags \ (c.busy \cup c.frees \cup Loader(c))
               /\ Turn({}, c.later) /\ UNCHANGED <<screen, changes>>
  <1>1. press[p].step = "asked" /\ press' = [press EXCEPT ![p] = NoPress]
    BY DEF Deliver, Finish
  <1>2. Moves(p, NoPress)
    BY <1>1, OneMoves
  <1> QED
    BY <1>1, <1>2 DEF Deliver, Finish

LEMMA FailEffect ==
    ASSUME ScreensBase, NEW p \in Presses, Fail(p)
    PROVE  LET c == press[p].control
           IN  /\ press[p] # NoPress /\ Moves(p, NoPress) /\ press' = [press EXCEPT ![p] = NoPress]
               /\ flags' \subseteq flags
               /\ \A f \in flags \ flags' : f \in c.busy \cup c.frees \cup Loader(c)
               /\ \A f \in c.busy : f \notin flags'
               /\ reused' = reused \ {p} /\ UNCHANGED <<screen, opened, changes, shown>>
  <1>1. press[p] # NoPress /\ press' = [press EXCEPT ![p] = NoPress]
    BY DEF Fail, Finish
  <1>2. Moves(p, NoPress)
    BY <1>1, OneMoves
  <1> QED
    BY <1>1, <1>2 DEF Fail, Finish

LEMMA DialogEffect ==
    ASSUME ScreensBase, screen # "login",
           (\E c \in This.controls : OpenDialog(c)) \/ (\E d \in DOMAIN This.dialogs : LeaveDialog(d))
    PROVE  ScreensBase' /\ UNCHANGED <<screen, flags, press, changes, shown>>
  <1>1. UNCHANGED <<screen, flags, press, changes, shown>>
    BY DEF OpenDialog, LeaveDialog
  <1>2. opened \subseteq DOMAIN This.dialogs /\ reused \subseteq Presses
    BY DEF ScreensBase, ScreensTypeOK
  <1>3. opened' \subseteq DOMAIN This.dialogs /\ reused' \subseteq Presses
    <2>1. ASSUME NEW c \in This.controls, OpenDialog(c)
          PROVE  opened' \subseteq DOMAIN This.dialogs /\ reused' \subseteq Presses
      BY <1>2, <2>1, ControlFields DEF OpenDialog, Turn, ScreensBase
    <2>2. ASSUME NEW d \in DOMAIN This.dialogs, LeaveDialog(d)
          PROVE  opened' \subseteq DOMAIN This.dialogs /\ reused' \subseteq Presses
      BY <1>2, <2>2 DEF LeaveDialog
    <2> QED
      BY <2>1, <2>2
  <1> QED
    BY <1>1, <1>3 DEF ScreensBase, ScreensTypeOK, Settled, AnswersAwaited, Unanswered, This

LEMMA SignOutEffect ==
    ASSUME ScreensBase, NEW p \in Presses, SignOut(p)
    PROVE  ScreensBase' /\ screen' = "login" /\ shown' = shown /\ reused' = {}
  BY DEF SignOut, ScreensBase, ScreensTypeOK, Settled

LEMMA BaseInit == ScreensInit => ScreensBase
  <1> SUFFICES ASSUME ScreensInit PROVE ScreensBase
    OBVIOUS
  <1>1. screen \in DOMAIN ScreenTable /\ screen # "login" /\ MaxChanges \in Nat
    BY ScreenAssumption DEF ScreensInit
  <1>2. This.mount \subseteq Flags
    BY <1>1, ScreenAssumption DEF This, IsScreen
  <1>3. PICK mount \in Presses :
           press = [p \in Presses |-> IF p = mount /\ This.first # "none"
                                      THEN Stand("asking", FirstLoad(This), -1) ELSE NoPress]
    BY DEF ScreensInit
  <1>4. \A p \in Presses : Standing(press[p]) /\ press[p].step \notin {"sent", "done"}
    <2>1. Standing(Stand("asking", FirstLoad(This), -1)) /\ Standing(NoPress)
      BY <1>1, StandIsStanding DEF PressSteps, Versions, Standing
    <2>2. Stand("asking", FirstLoad(This), -1).step = "asking" /\ NoPress.step = "none"
      BY StandFields DEF NoPress
    <2> QED
      BY <1>3, <2>1, <2>2
  <1> QED
    BY <1>1, <1>2, <1>3, <1>4
       DEF ScreensInit, ScreensBase, ScreensTypeOK, Settled, AnswersAwaited, Unanswered, Standing, Versions

LEMMA BaseNext == ScreensBase /\ [ScreensNext]_screenVars => ScreensBase'
  <1> SUFFICES ASSUME ScreensBase, [ScreensNext]_screenVars PROVE ScreensBase'
    OBVIOUS
  <1>t. /\ changes \in 0..MaxChanges /\ shown \in Versions /\ reused \subseteq Presses /\ flags \subseteq Flags
        /\ screen # "login" => opened \subseteq DOMAIN This.dialogs
    BY DEF ScreensBase, ScreensTypeOK
  <1>l. screen # "login" => \A c : Loader(c) \subseteq Flags
    BY ThisPage DEF Loader, ScreensBase
  <1>p. ASSUME NEW p \in Presses, press[p] # NoPress
        PROVE  screen # "login" /\ press[p].control \in This.controls \cup {FirstLoad(This)}
    BY <1>p, TypeFacts
  <1>n. NoPress.step = "none" /\ Standing(NoPress)
    BY DEF NoPress, Standing
  <1>1. ASSUME screen # "login", NEW p \in Presses, NEW c \in This.controls, PressControl(p, c)
        PROVE  ScreensBase'
    <2>1. c.busy \subseteq Flags /\ c.opens \subseteq DOMAIN This.dialogs
      BY <1>1, ControlFields DEF ScreensBase
    <2>2. opened' \subseteq DOMAIN This.dialogs /\ reused' \subseteq Presses
      BY <1>1, <1>t, <2>1, PressEffect DEF Turn
    <2>3. flags' \subseteq Flags /\ UNCHANGED <<screen, changes, shown>>
      BY <1>1, <1>t, <1>l, <2>1, PressEffect
    <2>4. PICK step \in {"sent", "asking"} :
             Moves(p, Stand(step, c, -1)) /\ (step = "sent" => c.sends # "nothing")
      BY <1>1, PressEffect
    <2>5. Standing(Stand(step, c, -1))
      BY <2>4, TypeFacts, StandIsStanding DEF PressSteps
    <2>6. /\ Stand(step, c, -1).step = step /\ Stand(step, c, -1).control = c
      BY StandFields
    <2> QED
      BY <1>1, <1>t, <2>2, <2>3, <2>4, <2>5, <2>6, TypesKept
  <1>2. ASSUME NEW p \in Presses, Serve(p) PROVE ScreensBase'
    <2>1. press[p] # NoPress /\ press[p].step = "sent"
      BY <1>2, ServeEffect DEF NoPress
    <2>2. screen # "login" /\ press[p].control \in This.controls /\ press[p].control.sends # "nothing"
          /\ press[p].seen \in Versions
      BY <1>p, <2>1, TypeFacts DEF ScreensBase, AnswersAwaited, Unanswered, Standing
    <2>3. Standing(Stand("done", press[p].control, press[p].seen))
      BY <2>2, StandIsStanding DEF PressSteps
    <2>4. Stand("done", press[p].control, press[p].seen).control = press[p].control
      BY StandFields
    <2> QED
      BY <1>2, <1>t, <2>2, <2>3, <2>4, ServeEffect, TypesKept
  <1>3. ASSUME NEW p \in Presses, Answer(p) PROVE ScreensBase'
    <2> DEFINE c == press[p].control
    <2>1. press[p] # NoPress /\ press[p].step = "done"
      BY <1>3, AnswerEffect DEF NoPress
    <2>2. screen # "login" /\ c \in This.controls \cup {FirstLoad(This)}
      BY <1>p, <2>1
    <2>3. c.busy \subseteq Flags /\ c.shows \subseteq DOMAIN This.dialogs
      BY <2>2, ControlFields DEF ScreensBase
    <2>4. opened' \subseteq DOMAIN This.dialogs /\ reused' \subseteq Presses /\ flags' \subseteq Flags
          /\ UNCHANGED <<screen, changes, shown>>
      BY <1>3, <1>t, <1>l, <2>2, <2>3, AnswerEffect
    <2>5. PICK r \in {Stand("asking", c, -1), NoPress} : Moves(p, r)
      BY <1>3, AnswerEffect
    <2>6. Standing(r) /\ r.step \notin {"sent", "done"}
      <3>1. Stand("asking", c, -1).step = "asking"
        BY StandFields
      <3> QED
        BY <1>n, <2>2, <3>1, TypeFacts, StandIsStanding DEF PressSteps
    <2> QED
      BY <1>t, <2>2, <2>4, <2>5, <2>6, TypesKept
  <1>4. ASSUME NEW p \in Presses, Read(p) PROVE ScreensBase'
    <2>1. press[p] # NoPress
      BY <1>4, ReadEffect DEF NoPress
    <2>2. Standing(Stand("asked", press[p].control, changes))
      BY <1>p, <2>1, TypeFacts, StandIsStanding DEF PressSteps
    <2>3. Stand("asked", press[p].control, changes).step = "asked"
      BY StandFields
    <2> QED
      BY <1>4, <1>p, <1>t, <2>1, <2>2, <2>3, ReadEffect, TypesKept
  <1>5. ASSUME NEW p \in Presses, Deliver(p) PROVE ScreensBase'
    <2>1. press[p] # NoPress
      BY <1>5, DeliverEffect DEF NoPress
    <2>2. press[p].control.later \subseteq DOMAIN This.dialogs /\ press[p].seen \in Versions
      BY <1>p, <2>1, ControlFields, TypeFacts DEF ScreensBase, Standing
    <2>3. opened' \subseteq DOMAIN This.dialogs /\ reused' \subseteq Presses /\ flags' \subseteq Flags
          /\ shown' \in Versions /\ UNCHANGED <<screen, changes>> /\ Moves(p, NoPress)
      BY <1>5, <1>p, <1>t, <2>1, <2>2, DeliverEffect DEF Turn
    <2> QED
      BY <1>n, <1>p, <1>t, <2>1, <2>3, TypesKept
  <1>6. ASSUME NEW p \in Presses, Fail(p) PROVE ScreensBase'
    <2>1. press[p] # NoPress /\ flags' \subseteq Flags /\ reused' \subseteq Presses /\ Moves(p, NoPress)
          /\ UNCHANGED <<screen, opened, changes, shown>>
      BY <1>6, <1>t, FailEffect
    <2> QED
      BY <1>n, <1>p, <1>t, <2>1, TypesKept
  <1>7. ASSUME NEW p \in Presses, SignOut(p) PROVE ScreensBase'
    BY <1>7, SignOutEffect
  <1>8. ASSUME screen # "login",
               (\E c \in This.controls : OpenDialog(c)) \/ (\E d \in DOMAIN This.dialogs : LeaveDialog(d))
        PROVE  ScreensBase'
    BY <1>8, DialogEffect
  <1>9. CASE UNCHANGED screenVars
    BY <1>9 DEF screenVars, ScreensBase, ScreensTypeOK, Settled, AnswersAwaited, Unanswered, This
  <1> QED
    BY <1>1, <1>2, <1>3, <1>4, <1>5, <1>6, <1>7, <1>8, <1>9 DEF ScreensNext

(* Whatever the table of pages. *)
THEOREM ScreensTypeCorrect == ScreensSpec => []ScreensTypeOK
  <1>1. ScreensBase => ScreensTypeOK
    BY DEF ScreensBase
  <1> QED
    BY <1>1, BaseInit, BaseNext, PTL DEF ScreensSpec

-----------------------------------------------------------------------------
(* A flag is guarded if whatever sets it is disabled while it is set, and  *)
(* nobody clears it who has not set it.                                    *)
Guarded(s, f) ==
    /\ f \notin s.mount \cup s.loader
    /\ \A c \in s.controls : f \notin c.frees /\ (f \in c.busy => f \in c.off)

(* The forms of a page: two changes share guarded flags only. *)
FormsGuarded(s) ==
    \A c, d \in s.controls :
        (c.sends = "change" /\ d.sends = "change") => \A f \in c.busy \cap d.busy : Guarded(s, f)

(* The dialogs of a page: one that closes with an answer has a guarded     *)
(* flag that keeps it open until then, and whatever else closes it waits   *)
(* for this flag.                                                          *)
DialogsGuarded(s) ==
    \A c \in s.controls : \A d \in c.closes :
        c.sends # "nothing" =>
            /\ c.at = d /\ d # "page"
            /\ \E f \in c.busy \cap s.dialogs[d] :
                  /\ Guarded(s, f)
                  /\ \A e \in s.controls :
                        d \in e.closes => (f \in e.off /\ (e.sends # "nothing" => f \in e.busy))

(* The list of a page: answers in order, or no list at all. *)
ListOrdered(s) ==
    s.order = "latest" \/ (s.first = "none" /\ \A c \in s.controls : c.loads = "no")

Holds(p, f) == press[p] # NoPress /\ f \in press[p].control.busy

Held(f) ==
    /\ \A p, q \in Presses : (Holds(p, f) /\ Holds(q, f)) => p = q
    /\ \A p \in Presses : Holds(p, f) => f \in flags

FlagsHeld == screen # "login" => \A f \in Flags : Guarded(This, f) => Held(f)

LEMMA HeldKept ==
    ASSUME ScreensBase, NEW p \in Presses, NEW r, Moves(p, r), NEW f, Held(f),
           (r # NoPress /\ f \in r.control.busy) => (f \in flags' /\ (Holds(p, f) \/ f \notin flags)),
           (f \in flags /\ f \notin flags') => Holds(p, f)
    PROVE  Held(f)'
  <1>1. \A q \in Presses \ {p} : Holds(q, f)' => Holds(q, f)
    <2> SUFFICES ASSUME NEW q \in Presses \ {p}, Holds(q, f)' PROVE Holds(q, f)
      OBVIOUS
    <2>1. CASE press'[q] = press[q]
      BY <2>1 DEF Holds
    <2>2. CASE /\ press[q].step \in {"asking", "asked"}
               /\ press'[q] = Stand("old", press[q].control, press[q].seen)
      <3>1. press[q] # NoPress /\ press'[q].control = press[q].control
        BY <2>2, StandFields DEF NoPress
      <3> QED
        BY <3>1 DEF Holds
    <2> QED
      BY <2>1, <2>2 DEF Moves
  <1>2. Holds(p, f)' => (f \in flags' /\ (Holds(p, f) \/ f \notin flags))
    BY DEF Holds, Moves
  <1>3. ASSUME NEW q \in Presses, Holds(q, f)' PROVE f \in flags'
    BY <1>1, <1>2, <1>3 DEF Held
  <1>4. ASSUME NEW q \in Presses, NEW o \in Presses, Holds(q, f)', Holds(o, f)' PROVE q = o
    BY <1>1, <1>2, <1>4 DEF Held
  <1> QED
    BY <1>3, <1>4 DEF Held

LEMMA LoaderFlags == ASSUME NEW c PROVE Loader(c) \subseteq This.loader
  BY DEF Loader

LEMMA FlagsHeldInit == ScreensInit => FlagsHeld
  <1> SUFFICES ASSUME ScreensInit, screen # "login", NEW f \in Flags, Guarded(This, f)
               PROVE  Held(f)
    BY DEF FlagsHeld
  <1>1. PICK mount \in Presses :
           press = [p \in Presses |-> IF p = mount /\ This.first # "none"
                                      THEN Stand("asking", FirstLoad(This), -1) ELSE NoPress]
    BY DEF ScreensInit
  <1>2. Stand("asking", FirstLoad(This), -1).control.busy = This.mount
    BY StandFields, FirstLoadFields
  <1>3. f \notin This.mount
    BY DEF Guarded
  <1>4. \A p \in Presses : ~Holds(p, f)
    BY <1>1, <1>2, <1>3 DEF Holds
  <1> QED
    BY <1>4 DEF Held

LEMMA FlagsHeldNext ==
    ScreensBase /\ FlagsHeld /\ [ScreensNext]_screenVars => FlagsHeld'
  <1> SUFFICES ASSUME ScreensBase, FlagsHeld, [ScreensNext]_screenVars, screen' # "login",
                      NEW f \in Flags, Guarded(This, f)'
               PROVE  Held(f)'
    BY DEF FlagsHeld
  <1>s. screen # "login" /\ screen' = screen
    BY DEF ScreensNext, screenVars, PressControl, OpenDialog, LeaveDialog, Serve, Answer, Read,
           Deliver, Fail, SignOut, ScreensBase, ScreensTypeOK
  <1>g. Guarded(This, f)
    BY <1>s DEF Guarded, This
  <1>h. Held(f)
    BY <1>s, <1>g DEF FlagsHeld
  <1>c. ASSUME NEW c \in This.controls \cup {FirstLoad(This)}
        PROVE  /\ f \notin c.frees /\ (f \in c.busy => f \in c.off) /\ f \notin Loader(c)
    <2>1. f \notin Loader(c)
      BY <1>g, LoaderFlags DEF Guarded
    <2> QED
      BY <1>g, <2>1, FirstLoadFields DEF Guarded
  <1>p. ASSUME NEW p \in Presses, press[p] # NoPress
        PROVE  press[p].control \in This.controls \cup {FirstLoad(This)}
    BY <1>p, TypeFacts
  <1>1. ASSUME NEW p \in Presses, NEW c \in This.controls, PressControl(p, c) PROVE Held(f)'
    <2>1. f \in c.busy => f \notin flags
      BY <1>1, <1>c, <1>s, PressEffect DEF Reachable
    <2>2. PICK step \in {"sent", "asking"} : Moves(p, Stand(step, c, -1))
      BY <1>1, <1>s, PressEffect
    <2>3. /\ f \in c.busy => f \in flags'
          /\ f \in flags => f \in flags'
      BY <1>1, <1>c, <1>s, PressEffect
    <2>4. Stand(step, c, -1).control = c
      BY StandFields
    <2> QED
      BY <1>h, <2>1, <2>2, <2>3, <2>4, HeldKept
  <1>2. ASSUME NEW p \in Presses, Serve(p) PROVE Held(f)'
    <2>1. /\ press[p] # NoPress /\ flags' = flags
          /\ Moves(p, Stand("done", press[p].control, press[p].seen))
      BY <1>2, ServeEffect DEF NoPress
    <2>2. Stand("done", press[p].control, press[p].seen).control = press[p].control
      BY StandFields
    <2> QED
      BY <1>h, <2>1, <2>2, HeldKept DEF Held, Holds
  <1>3. ASSUME NEW p \in Presses, Answer(p) PROVE Held(f)'
    <2> DEFINE c == press[p].control
    <2>1. press[p] # NoPress
      BY <1>3, AnswerEffect DEF NoPress
    <2>2. f \notin c.frees /\ f \notin Loader(c)
      BY <1>c, <1>p, <2>1
    <2>3. Holds(p, f) <=> f \in c.busy
      BY <2>1 DEF Holds
    <2>4. Stand("asking", c, -1).control = c
      BY StandFields
    <2>5. Holds(p, f) => f \in flags
      BY <1>h DEF Held
    <2>6. CASE /\ c.loads # "no" /\ Moves(p, Stand("asking", c, -1))
               /\ flags' = flags \cup Loader(c) \cup IF c.sends = "nothing" THEN c.busy ELSE {}
      <3>1. (f \in flags => f \in flags') /\ (f \in c.busy => f \in flags')
        BY <2>3, <2>5, <2>6
      <3> HIDE DEF c
      <3> QED
        BY <1>h, <2>3, <2>4, <2>6, <3>1, HeldKept
    <2>7. CASE c.loads = "no" /\ Moves(p, NoPress) /\ flags' = flags \ (c.busy \cup c.frees)
      BY <1>h, <2>2, <2>3, <2>7, HeldKept
    <2> QED
      BY <1>3, <2>6, <2>7, AnswerEffect
  <1>4. ASSUME NEW p \in Presses, Read(p) PROVE Held(f)'
    <2>1. /\ press[p] # NoPress /\ flags' = flags
          /\ Moves(p, Stand("asked", press[p].control, changes))
      BY <1>4, ReadEffect DEF NoPress
    <2>2. Stand("asked", press[p].control, changes).control = press[p].control
      BY StandFields
    <2> QED
      BY <1>h, <2>1, <2>2, HeldKept DEF Held, Holds
  <1>5. ASSUME NEW p \in Presses, Deliver(p) PROVE Held(f)'
    <2> DEFINE c == press[p].control
    <2>1. press[p] # NoPress /\ Moves(p, NoPress)
          /\ flags' = flags \ (c.busy \cup c.frees \cup Loader(c))
      BY <1>5, DeliverEffect DEF NoPress
    <2>2. f \notin c.frees /\ f \notin Loader(c)
      BY <1>c, <1>p, <2>1
    <2>3. Holds(p, f) <=> f \in c.busy
      BY <2>1 DEF Holds
    <2> QED
      BY <1>h, <2>1, <2>2, <2>3, HeldKept
  <1>6. ASSUME NEW p \in Presses, Fail(p) PROVE Held(f)'
    <2> DEFINE c == press[p].control
    <2>1. press[p] # NoPress /\ Moves(p, NoPress)
          /\ ((f \in flags /\ f \notin flags') => f \in c.busy \cup c.frees \cup Loader(c))
      BY <1>6, FailEffect
    <2>2. f \notin c.frees /\ f \notin Loader(c)
      BY <1>c, <1>p, <2>1
    <2>3. Holds(p, f) <=> f \in c.busy
      BY <2>1 DEF Holds
    <2> QED
      BY <1>h, <2>1, <2>2, <2>3, HeldKept
  <1>7. ASSUME (\E c \in This.controls : OpenDialog(c)) \/ (\E d \in DOMAIN This.dialogs : LeaveDialog(d))
        PROVE  Held(f)'
    BY <1>7, <1>h, <1>s, DialogEffect DEF Held, Holds
  <1>8. ASSUME NEW p \in Presses, SignOut(p) PROVE Held(f)'
    BY <1>8, <1>s, SignOutEffect
  <1>9. CASE UNCHANGED screenVars
    BY <1>9, <1>h DEF screenVars, Held, Holds
  <1> QED
    BY <1>s, <1>1, <1>2, <1>3, <1>4, <1>5, <1>6, <1>7, <1>8, <1>9 DEF ScreensNext

(* A form is sent once on every page whose forms are guarded, whatever     *)
(* else is on it and however many presses are under way.                   *)
THEOREM FormsSentOnce ==
    ASSUME \A n \in DOMAIN ScreenTable \ Overlapping : FormsGuarded(ScreenTable[n])
    PROVE  ScreensSpec => []OneSubmission
  <1>1. ScreensBase /\ FlagsHeld => OneSubmission
    <2> SUFFICES ASSUME ScreensBase, FlagsHeld, screen \notin Overlapping,
                        NEW p \in Presses, NEW q \in Presses, p # q, Unanswered(p), Unanswered(q),
                        press[p].control.sends = "change", press[q].control.sends = "change",
                        NEW f \in press[p].control.busy \cap press[q].control.busy
                 PROVE  FALSE
      BY DEF OneSubmission
    <2>1. press[p] # NoPress /\ press[q] # NoPress
      BY DEF Unanswered, NoPress
    <2>2. screen # "login" /\ press[p].control \in This.controls /\ press[q].control \in This.controls
      BY <2>1, TypeFacts DEF ScreensBase, AnswersAwaited
    <2>3. FormsGuarded(This)
      BY <2>2, ThisPage DEF ScreensBase, This
    <2>4. Guarded(This, f) /\ f \in Flags
      BY <2>2, <2>3, ControlFields DEF FormsGuarded, ScreensBase
    <2>5. Held(f)
      BY <2>2, <2>4 DEF FlagsHeld
    <2> QED
      BY <2>1, <2>5 DEF Held, Holds
  <1> QED
    BY <1>1, BaseInit, BaseNext, FlagsHeldInit, FlagsHeldNext, PTL DEF ScreensSpec

-----------------------------------------------------------------------------
(* Whoever waits for an answer that closes a dialog has it open. *)
DialogsOpen ==
    screen # "login" /\ DialogsGuarded(This) =>
        /\ reused = {}
        /\ \A p \in Presses : Unanswered(p) => press[p].control.closes \subseteq opened

LEMMA DialogsOpenInit == ScreensInit => DialogsOpen
  <1> SUFFICES ASSUME ScreensInit PROVE DialogsOpen
    OBVIOUS
  <1>1. PICK mount \in Presses :
           press = [p \in Presses |-> IF p = mount /\ This.first # "none"
                                      THEN Stand("asking", FirstLoad(This), -1) ELSE NoPress]
    BY DEF ScreensInit
  <1>2. Stand("asking", FirstLoad(This), -1).step = "asking" /\ NoPress.step = "none"
    BY StandFields DEF NoPress
  <1>3. \A p \in Presses : ~Unanswered(p)
    BY <1>1, <1>2 DEF Unanswered
  <1> QED
    BY <1>3 DEF DialogsOpen, ScreensInit

(* The flag that keeps a dialog: nobody else who closes it gets past it. *)
LEMMA DialogKeeper ==
    ASSUME ScreensBase, FlagsHeld, screen # "login", DialogsGuarded(This), NEW p \in Presses,
           Unanswered(p), NEW d \in press[p].control.closes
    PROVE  \E f \in Flags :
              /\ f \in flags /\ f \in This.dialogs[d]
              /\ \A e \in This.controls :
                    d \in e.closes => (f \in e.off /\ (e.sends # "nothing" => f \in e.busy))
              /\ \A q \in Presses : Holds(q, f) => q = p
  <1>1. press[p].control \in This.controls /\ press[p].control.sends # "nothing" /\ press[p] # NoPress
    BY DEF ScreensBase, AnswersAwaited, Unanswered, NoPress
  <1>2. PICK f \in press[p].control.busy \cap This.dialogs[d] :
           /\ Guarded(This, f)
           /\ \A e \in This.controls :
                 d \in e.closes => (f \in e.off /\ (e.sends # "nothing" => f \in e.busy))
    BY <1>1 DEF DialogsGuarded
  <1>3. f \in Flags
    BY <1>1, <1>2, ControlFields DEF ScreensBase
  <1>4. Held(f) /\ Holds(p, f)
    BY <1>1, <1>2, <1>3 DEF FlagsHeld, Holds
  <1> QED
    BY <1>2, <1>3, <1>4 DEF Held

(* The presses waiting afterwards, p apart, waited before. *)
LEMMA OthersWait ==
    ASSUME ScreensBase, NEW p \in Presses, NEW r, Moves(p, r), NEW q \in Presses, q # p,
           Unanswered(q)'
    PROVE  Unanswered(q) /\ press'[q] = press[q]
  <1>1. Stand("old", press[q].control, press[q].seen).step = "old"
    BY StandFields
  <1> QED
    BY <1>1 DEF Moves, Unanswered

LEMMA TurnKeeps ==
    ASSUME NEW closes, NEW shows, Turn(closes, shows), reused = {},
           \A q \in Presses : Unanswered(q) => press[q].control.closes \subseteq opened
    PROVE  reused' = {}
  BY DEF Turn, Unanswered

LEMMA DialogsOpenNext ==
    ScreensBase /\ FlagsHeld /\ DialogsOpen /\ [ScreensNext]_screenVars => DialogsOpen'
  <1> SUFFICES ASSUME ScreensBase, FlagsHeld, DialogsOpen, [ScreensNext]_screenVars,
                      screen' # "login", DialogsGuarded(This)'
               PROVE  /\ reused' = {}
                      /\ \A q \in Presses : Unanswered(q)' => press'[q].control.closes \subseteq opened'
    BY DEF DialogsOpen
  <1>s. screen # "login" /\ screen' = screen
    BY DEF ScreensNext, screenVars, PressControl, OpenDialog, LeaveDialog, Serve, Answer, Read,
           Deliver, Fail, SignOut, ScreensBase, ScreensTypeOK
  <1>g. DialogsGuarded(This)
    BY <1>s DEF This
  <1>h. /\ reused = {}
        /\ \A q \in Presses : Unanswered(q) => press[q].control.closes \subseteq opened
    BY <1>s, <1>g DEF DialogsOpen
  <1> DEFINE Goal == /\ reused' = {}
                     /\ \A q \in Presses : Unanswered(q)' => press'[q].control.closes \subseteq opened'
  <1>o. ASSUME NEW p \in Presses, NEW r, Moves(p, r), reused' = {}, opened \subseteq opened',
               r.step \in {"sent", "done"} => r.control.closes \subseteq opened'
        PROVE  Goal
    <2>1. ASSUME NEW q \in Presses, Unanswered(q)' PROVE press'[q].control.closes \subseteq opened'
      <3>1. CASE q = p
        BY <1>o, <2>1, <3>1 DEF Moves, Unanswered
      <3>2. CASE q # p
        BY <1>h, <1>o, <2>1, <3>2, OthersWait
      <3> QED
        BY <3>1, <3>2
    <2> QED
      BY <1>o, <2>1
  <1>1. ASSUME NEW p \in Presses, NEW c \in This.controls, PressControl(p, c) PROVE Goal
    <2>1. /\ Turn({}, c.opens) /\ opened \subseteq opened' /\ Reachable(c)
      BY <1>1, <1>s, PressEffect DEF Turn
    <2>2. reused' = {}
      BY <1>h, <2>1, TurnKeeps
    <2>3. PICK step \in {"sent", "asking"} :
             Moves(p, Stand(step, c, -1)) /\ (step = "sent" => c.sends # "nothing")
      BY <1>1, <1>s, PressEffect
    <2>4. Stand(step, c, -1).step = step /\ Stand(step, c, -1).control = c
      BY StandFields
    <2>5. c.sends # "nothing" => c.closes \subseteq opened
      BY <1>g, <2>1 DEF DialogsGuarded, Reachable
    <2> HIDE DEF Goal
    <2> QED
      BY <1>o, <2>1, <2>2, <2>3, <2>4, <2>5
  <1>2. ASSUME NEW p \in Presses, Serve(p) PROVE Goal
    <2>1. /\ press[p].step = "sent" /\ opened' = opened /\ reused' = reused
          /\ Moves(p, Stand("done", press[p].control, press[p].seen))
      BY <1>2, ServeEffect
    <2>2. Stand("done", press[p].control, press[p].seen).control = press[p].control
      BY StandFields
    <2>3. press[p].control.closes \subseteq opened
      BY <1>h, <2>1 DEF Unanswered
    <2> HIDE DEF Goal
    <2> QED
      BY <1>h, <1>o, <2>1, <2>2, <2>3
  <1>3. ASSUME NEW p \in Presses, Answer(p) PROVE Goal
    <2> DEFINE c == press[p].control
    <2>1. /\ press[p].step = "done" /\ opened' = (opened \ c.closes) \cup c.shows
          /\ reused' = reused \ {p}
      BY <1>3, AnswerEffect
    <2>2. PICK r \in {Stand("asking", c, -1), NoPress} : Moves(p, r)
      BY <1>3, AnswerEffect
    <2>3. r.step \notin {"sent", "done"}
      <3>1. Stand("asking", c, -1).step = "asking" /\ NoPress.step = "none"
        BY StandFields DEF NoPress
      <3> QED
        BY <3>1
    <2>4. c \in This.controls /\ c.sends # "nothing" /\ press[p] # NoPress
      BY <1>s, <2>1 DEF ScreensBase, AnswersAwaited, Unanswered, NoPress
    <2>5. ASSUME NEW q \in Presses, Unanswered(q)' PROVE press'[q].control.closes \subseteq opened'
      <3>1. q # p
        BY <2>2, <2>3, <2>5 DEF Moves, Unanswered
      <3>2. Unanswered(q) /\ press'[q] = press[q]
        BY <2>2, <2>5, <3>1, OthersWait
      <3>3. ASSUME NEW d \in press[q].control.closes PROVE d \in opened'
        <4>1. PICK f \in Flags :
                 /\ \A e \in This.controls :
                       d \in e.closes => (f \in e.off /\ (e.sends # "nothing" => f \in e.busy))
                 /\ \A o \in Presses : Holds(o, f) => o = q
          BY <1>s, <1>g, <3>2, <3>3, DialogKeeper
        <4>2. d \notin c.closes
          BY <2>4, <3>1, <4>1 DEF Holds
        <4>3. d \in opened
          BY <1>h, <3>2, <3>3
        <4> QED
          BY <2>1, <4>2, <4>3
      <3> QED
        BY <3>2, <3>3
    <2> QED
      BY <1>h, <2>1, <2>5
  <1>4. ASSUME NEW p \in Presses, Read(p) PROVE Goal
    <2>1. /\ opened' = opened /\ reused' = reused
          /\ Moves(p, Stand("asked", press[p].control, changes))
      BY <1>4, ReadEffect
    <2>2. Stand("asked", press[p].control, changes).step = "asked"
      BY StandFields
    <2> HIDE DEF Goal
    <2> QED
      BY <1>h, <1>o, <2>1, <2>2
  <1>5. ASSUME NEW p \in Presses, Deliver(p) PROVE Goal
    <2>1. Turn({}, press[p].control.later) /\ Moves(p, NoPress)
      BY <1>5, DeliverEffect
    <2>2. reused' = {} /\ opened \subseteq opened'
      BY <1>h, <2>1, TurnKeeps DEF Turn
    <2>3. NoPress.step = "none"
      BY DEF NoPress
    <2> HIDE DEF Goal
    <2> QED
      BY <1>o, <2>1, <2>2, <2>3
  <1>6. ASSUME NEW p \in Presses, Fail(p) PROVE Goal
    <2>1. opened' = opened /\ reused' = reused \ {p} /\ Moves(p, NoPress)
      BY <1>6, FailEffect
    <2>2. NoPress.step = "none"
      BY DEF NoPress
    <2> HIDE DEF Goal
    <2> QED
      BY <1>h, <1>o, <2>1, <2>2
  <1>7. ASSUME NEW c \in This.controls, OpenDialog(c) PROVE Goal
    <2>1. /\ press' = press /\ Reachable(c) /\ Turn(c.closes, c.opens)
          /\ opened' = (opened \ c.closes) \cup c.opens
      BY <1>7 DEF OpenDialog, Turn
    <2>2. reused' = {}
      BY <1>h, <2>1, TurnKeeps
    <2>3. ASSUME NEW q \in Presses, Unanswered(q), NEW d \in press[q].control.closes
          PROVE  d \in opened'
      <3>1. PICK f \in Flags :
               /\ f \in flags
               /\ \A e \in This.controls :
                     d \in e.closes => (f \in e.off /\ (e.sends # "nothing" => f \in e.busy))
        BY <1>s, <1>g, <2>3, DialogKeeper
      <3>2. d \notin c.closes
        BY <2>1, <3>1 DEF Reachable
      <3> QED
        BY <1>h, <2>1, <2>3, <3>2
    <2> QED
      BY <2>1, <2>2, <2>3 DEF Unanswered
  <1>8. ASSUME NEW d \in DOMAIN This.dialogs, LeaveDialog(d) PROVE Goal
    <2>1. /\ press' = press /\ reused' = reused /\ opened' = opened \ {d}
          /\ This.dialogs[d] \cap flags = {}
      BY <1>8 DEF LeaveDialog
    <2>2. ASSUME NEW q \in Presses, Unanswered(q) PROVE d \notin press[q].control.closes
      BY <1>s, <1>g, <2>1, <2>2, DialogKeeper
    <2> QED
      BY <1>h, <2>1, <2>2 DEF Unanswered
  <1>9. ASSUME NEW p \in Presses, SignOut(p) PROVE Goal
    BY <1>9, <1>s, SignOutEffect
  <1>10. CASE UNCHANGED screenVars
    BY <1>10, <1>h DEF screenVars, Unanswered
  <1> QED
    BY <1>1, <1>2, <1>3, <1>4, <1>5, <1>6, <1>7, <1>8, <1>9, <1>10 DEF ScreensNext

LoggedOut == screen = "login" => reused = {}

LEMMA LoggedOutNext == ScreensBase /\ LoggedOut /\ [ScreensNext]_screenVars => LoggedOut'
  <1> SUFFICES ASSUME ScreensBase, LoggedOut, [ScreensNext]_screenVars, screen' = "login"
               PROVE  reused' = {}
    BY DEF LoggedOut
  <1>1. CASE screen = "login"
    <2>1. \A p \in Presses : press[p].step = "none"
      BY <1>1, TypeFacts
    <2>2. ~ScreensNext
      BY <1>1, <2>1, FailEffect, TypeFacts DEF ScreensNext, Serve, Answer, Read, Deliver, SignOut
    <2> QED
      BY <1>1, <2>2 DEF LoggedOut, screenVars
  <1>2. CASE screen # "login"
    <2>1. PICK p \in Presses : SignOut(p)
      BY <1>2 DEF ScreensNext, screenVars, PressControl, OpenDialog, LeaveDialog, Serve, Answer,
             Read, Deliver, Fail
    <2> QED
      BY <2>1, SignOutEffect
  <1> QED
    BY <1>1, <1>2

(* No submission closes a dialog that was opened anew, on every page whose *)
(* dialogs are guarded.                                                    *)
THEOREM DialogsAreKept ==
    ASSUME \A n \in DOMAIN ScreenTable \ Reopening : DialogsGuarded(ScreenTable[n])
    PROVE  ScreensSpec => []DialogsKept
  <1>1. ScreensBase /\ DialogsOpen /\ LoggedOut => DialogsKept
    <2> SUFFICES ASSUME ScreensBase, DialogsOpen, LoggedOut, screen \notin Reopening
                 PROVE  reused = {}
      BY DEF DialogsKept
    <2>1. screen # "login" => DialogsGuarded(This)
      BY ThisPage DEF ScreensBase, This
    <2> QED
      BY <2>1 DEF DialogsOpen, LoggedOut
  <1>2. ScreensInit => LoggedOut
    BY DEF ScreensInit, LoggedOut
  <1> QED
    BY <1>1, <1>2, BaseInit, BaseNext, FlagsHeldInit, FlagsHeldNext, DialogsOpenInit,
       DialogsOpenNext, LoggedOutNext, PTL DEF ScreensSpec

-----------------------------------------------------------------------------
(* The list: one question at a time, and its answer is not older than what *)
(* is shown.                                                               *)
Asks(p) == press[p].step \in {"asking", "asked"}

ListsInOrder ==
    screen # "login" /\ ListOrdered(This) =>
        /\ shown <= changes
        /\ \A p, q \in Presses : (Asks(p) /\ Asks(q)) => p = q
        /\ \A p \in Presses : press[p].step = "asked" => (shown <= press[p].seen /\ press[p].seen <= changes)
        /\ \A p \in Presses : This.order # "latest" => ~Asks(p)

LEMMA ListsInit == ScreensInit => ListsInOrder
  <1> SUFFICES ASSUME ScreensInit, ListOrdered(This) PROVE ListsInOrder
    BY DEF ListsInOrder
  <1>1. PICK mount \in Presses :
           press = [p \in Presses |-> IF p = mount /\ This.first # "none"
                                      THEN Stand("asking", FirstLoad(This), -1) ELSE NoPress]
    BY DEF ScreensInit
  <1>2. Stand("asking", FirstLoad(This), -1).step = "asking" /\ NoPress.step = "none"
    BY StandFields DEF NoPress
  <1>3. \A p \in Presses : /\ press[p].step # "asked"
                           /\ Asks(p) => (p = mount /\ This.first # "none")
    BY <1>1, <1>2 DEF Asks
  <1>4. shown <= changes
    BY DEF ScreensInit
  <1>5. \A p \in Presses : This.order # "latest" => ~Asks(p)
    BY <1>3 DEF ListOrdered
  <1>6. \A p, q \in Presses : (Asks(p) /\ Asks(q)) => p = q
    BY <1>3
  <1>7. \A p \in Presses : press[p].step = "asked" => (shown <= press[p].seen /\ press[p].seen <= changes)
    BY <1>3
  <1> QED
    BY <1>4, <1>5, <1>6, <1>7 DEF ListsInOrder

(* A step that asks nothing, and shows nothing new. *)
LEMMA ListKept ==
    ASSUME ScreensBase, screen # "login", screen' = screen, ListOrdered(This), ListsInOrder,
           NEW p \in Presses, NEW r, Moves(p, r), shown' = shown,
           changes' \in 0..MaxChanges, changes <= changes',
           r.step \in {"asking", "asked"} => Asks(p),
           r.step = "asked" => (shown <= r.seen /\ r.seen <= changes')
    PROVE  ListsInOrder'
  <1>1. This' = This
    BY DEF This
  <1>2. ASSUME NEW q \in Presses, q # p, Asks(q)'
        PROVE  Asks(q) /\ press'[q] = press[q]
    <2>1. Stand("old", press[q].control, press[q].seen).step = "old"
      BY StandFields
    <2> QED
      BY <1>2, <2>1 DEF Moves, Asks
  <1>3. Asks(p)' => Asks(p)
    BY DEF Moves, Asks
  <1>4. \A q \in Presses : press'[q].step = "asked" => (shown <= press'[q].seen /\ press'[q].seen <= changes')
    <2> SUFFICES ASSUME NEW q \in Presses, press'[q].step = "asked"
                 PROVE  shown <= press'[q].seen /\ press'[q].seen <= changes'
      OBVIOUS
    <2>1. CASE q = p
      BY <2>1 DEF Moves
    <2>2. CASE q # p
      <3>1. press'[q] = press[q] /\ press[q] # NoPress
        BY <1>2, <2>2 DEF Asks, NoPress
      <3>2. press[q].seen \in Versions /\ changes \in 0..MaxChanges /\ MaxChanges \in Nat
        BY <3>1, TypeFacts DEF Standing
      <3>3. shown <= press[q].seen /\ press[q].seen <= changes
        BY <3>1 DEF ListsInOrder
      <3> QED
        BY <3>1, <3>2, <3>3 DEF Versions
    <2> QED
      BY <2>1, <2>2
  <1>5. shown <= changes'
    <2>1. shown <= changes
      BY DEF ListsInOrder
    <2> QED
      BY <2>1, TypeFacts DEF Versions
  <1>6. \A q, o \in Presses : (Asks(q)' /\ Asks(o)') => q = o
    BY <1>2, <1>3 DEF ListsInOrder
  <1>7. \A q \in Presses : This.order # "latest" => ~Asks(q)'
    BY <1>2, <1>3 DEF ListsInOrder
  <1> QED
    BY <1>1, <1>4, <1>5, <1>6, <1>7 DEF ListsInOrder

(* A new question makes the others old. *)
LEMMA ListAsked ==
    ASSUME ScreensBase, screen # "login", screen' = screen, ListOrdered(This), ListsInOrder,
           NEW p \in Presses, NEW c \in This.controls, c.loads # "no",
           press' = [Outdated EXCEPT ![p] = Stand("asking", c, -1)],
           UNCHANGED <<shown, changes>>
    PROVE  ListsInOrder'
  <1>1. This' = This
    BY DEF This
  <1>2. This.order = "latest"
    BY DEF ListOrdered
  <1>3. ASSUME NEW q \in Presses, q # p PROVE ~Asks(q)' /\ press'[q].step # "asked"
    <2>1. press'[q] = Outdated[q]
      BY <1>3 DEF Outdated
    <2>2. CASE Asks(q)
      <3>1. press[q] = Stand(press[q].step, press[q].control, press[q].seen)
        BY <2>2, TypeFacts DEF Asks, Standing, NoPress
      <3>2. press'[q] = Stand("old", press[q].control, press[q].seen)
        BY <1>2, <2>1, <2>2, <3>1, StandingMoves DEF Outdated, Asks
      <3> QED
        BY <3>2, StandFields DEF Asks
    <2>3. CASE ~Asks(q)
      BY <2>1, <2>3 DEF Outdated, Asks
    <2> QED
      BY <2>2, <2>3
  <1>4. press'[p].step = "asking"
    <2>1. p \in DOMAIN Outdated
      BY DEF Outdated
    <2> QED
      BY <2>1, StandFields
  <1> QED
    BY <1>1, <1>2, <1>3, <1>4 DEF ListsInOrder

LEMMA ListsNext ==
    ScreensBase /\ ListsInOrder /\ [ScreensNext]_screenVars =>
        /\ ListsInOrder'
        /\ (screen' # "login" /\ ListOrdered(This)') => shown' >= shown
  <1> SUFFICES ASSUME ScreensBase, ListsInOrder, [ScreensNext]_screenVars,
                      screen' # "login", ListOrdered(This)'
               PROVE  ListsInOrder' /\ shown' >= shown
    BY DEF ListsInOrder
  <1>s. screen # "login" /\ screen' = screen
    BY DEF ScreensNext, screenVars, PressControl, OpenDialog, LeaveDialog, Serve, Answer, Read,
           Deliver, Fail, SignOut, ScreensBase, ScreensTypeOK
  <1>g. ListOrdered(This) /\ This' = This
    BY <1>s DEF This
  <1>t. changes \in 0..MaxChanges /\ shown \in Int /\ changes \in Int /\ shown >= shown
        /\ changes <= changes
    BY TypeFacts DEF Versions
  <1>n. NoPress.step = "none"
    BY DEF NoPress
  <1>1. ASSUME NEW p \in Presses, NEW c \in This.controls, PressControl(p, c)
        PROVE  ListsInOrder' /\ shown' >= shown
    <2>1. UNCHANGED <<screen, changes, shown>>
      BY <1>1, <1>s, PressEffect
    <2>2. CASE c.loads # "no" /\ press' = [Outdated EXCEPT ![p] = Stand("asking", c, -1)]
      BY <1>s, <1>g, <1>t, <2>1, <2>2, ListAsked
    <2>3. CASE Moves(p, Stand("sent", c, -1))
      <3>1. Stand("sent", c, -1).step = "sent"
        BY StandFields
      <3> QED
        BY <1>s, <1>g, <1>t, <2>1, <2>3, <3>1, ListKept
    <2> QED
      BY <1>1, <1>s, <2>2, <2>3, PressEffect
  <1>2. ASSUME NEW p \in Presses, Serve(p) PROVE ListsInOrder' /\ shown' >= shown
    <2>1. Stand("done", press[p].control, press[p].seen).step = "done"
      BY StandFields
    <2> QED
      BY <1>2, <1>s, <1>g, <1>t, <2>1, ServeEffect, ListKept
  <1>3. ASSUME NEW p \in Presses, Answer(p) PROVE ListsInOrder' /\ shown' >= shown
    <2> DEFINE c == press[p].control
    <2>1. press[p].step = "done" /\ UNCHANGED <<screen, changes, shown>>
      BY <1>3, AnswerEffect
    <2>2. c \in This.controls
      BY <1>s, <2>1 DEF ScreensBase, AnswersAwaited, Unanswered
    <2>3. CASE c.loads # "no" /\ press' = [Outdated EXCEPT ![p] = Stand("asking", c, -1)]
      <3> HIDE DEF c
      <3> QED
        BY <1>s, <1>g, <1>t, <2>1, <2>2, <2>3, ListAsked
    <2>4. CASE Moves(p, NoPress)
      BY <1>s, <1>g, <1>t, <1>n, <2>1, <2>4, ListKept
    <2> QED
      BY <1>3, <2>3, <2>4, AnswerEffect
  <1>4. ASSUME NEW p \in Presses, Read(p) PROVE ListsInOrder' /\ shown' >= shown
    <2>1. /\ Stand("asked", press[p].control, changes).step = "asked"
          /\ Stand("asked", press[p].control, changes).seen = changes
      BY StandFields
    <2>2. Asks(p) /\ UNCHANGED <<screen, changes, shown>>
          /\ Moves(p, Stand("asked", press[p].control, changes))
      BY <1>4, ReadEffect DEF Asks
    <2>3. shown <= changes
      BY <1>s, <1>g DEF ListsInOrder
    <2> QED
      BY <1>s, <1>g, <1>t, <2>1, <2>2, <2>3, ListKept
  <1>5. ASSUME NEW p \in Presses, Deliver(p) PROVE ListsInOrder' /\ shown' >= shown
    <2>1. /\ press[p].step = "asked" /\ shown' = press[p].seen /\ Moves(p, NoPress)
          /\ press' = [press EXCEPT ![p] = NoPress] /\ UNCHANGED <<screen, changes>>
      BY <1>5, DeliverEffect
    <2>2. shown <= press[p].seen /\ press[p].seen <= changes /\ This.order = "latest"
      BY <1>s, <1>g, <2>1 DEF ListsInOrder, Asks
    <2>3. \A q \in Presses : ~Asks(q)' /\ press'[q].step # "asked"
      <3> SUFFICES ASSUME NEW q \in Presses PROVE press'[q].step \notin {"asking", "asked"}
        BY DEF Asks
      <3>1. CASE q = p
        BY <1>n, <2>1, <3>1 DEF Moves
      <3>2. CASE q # p
        <4>1. ~Asks(q)
          BY <1>s, <1>g, <2>1, <3>2 DEF ListsInOrder, Asks
        <4> QED
          BY <2>1, <3>2, <4>1 DEF Asks
      <3> QED
        BY <3>1, <3>2
    <2>4. ListsInOrder'
      BY <1>g, <2>1, <2>2, <2>3 DEF ListsInOrder
    <2>5. press[p].seen \in Int
      <3>1. press[p] # NoPress
        BY <1>n, <2>1
      <3> QED
        BY <3>1, TypeFacts DEF Standing, Versions
    <2> QED
      BY <1>t, <2>1, <2>2, <2>4, <2>5
  <1>6. ASSUME NEW p \in Presses, Fail(p) PROVE ListsInOrder' /\ shown' >= shown
    BY <1>6, <1>s, <1>g, <1>t, <1>n, FailEffect, ListKept
  <1>7. ASSUME (\E c \in This.controls : OpenDialog(c)) \/ (\E d \in DOMAIN This.dialogs : LeaveDialog(d))
        PROVE  ListsInOrder' /\ shown' >= shown
    BY <1>7, <1>s, <1>g, <1>t, DialogEffect DEF ListsInOrder, Asks
  <1>8. ASSUME NEW p \in Presses, SignOut(p) PROVE ListsInOrder' /\ shown' >= shown
    BY <1>8, <1>s, SignOutEffect
  <1>9. CASE UNCHANGED screenVars
    BY <1>9, <1>g, <1>t DEF screenVars, ListsInOrder, Asks
  <1> QED
    BY <1>s, <1>1, <1>2, <1>3, <1>4, <1>5, <1>6, <1>7, <1>8, <1>9 DEF ScreensNext

(* The list never goes back to an earlier state of the server on any page  *)
(* whose lists are ordered, however late its answers come.                 *)
THEOREM ListsNeverGoBack ==
    ASSUME \A n \in DOMAIN ScreenTable \ Unordered : ListOrdered(ScreenTable[n])
    PROVE  ScreensSpec => NeverOlder
  <1>1. ScreensBase /\ ListsInOrder /\ [ScreensNext]_screenVars
            => [screen' \notin Unordered => shown' >= shown]_screenVars
    <2> SUFFICES ASSUME ScreensBase, ListsInOrder, ScreensNext, screen' \notin Unordered
                 PROVE  shown' >= shown
      BY DEF screenVars
    <2>1. ScreensBase'
      BY BaseNext
    <2>2. CASE screen' = "login"
      <3>1. UNCHANGED shown
        <4>1. CASE screen = "login"
          <5>1. \A p \in Presses : press[p].step = "none"
            BY <4>1, TypeFacts
          <5> QED
            BY <4>1, <5>1, FailEffect
               DEF ScreensNext, Serve, Answer, Read, Deliver, SignOut
        <4>2. CASE screen # "login"
          BY <2>2, <4>2 DEF ScreensNext, PressControl, OpenDialog, LeaveDialog, Serve, Answer,
             Read, Deliver, Fail, SignOut
        <4> QED
          BY <4>1, <4>2
      <3> QED
        BY <3>1, TypeFacts DEF Versions
    <2>3. CASE screen' # "login"
      <3>1. screen' \in DOMAIN ScreenTable
        BY <2>1, <2>3 DEF ScreensBase, ScreensTypeOK
      <3>2. ListOrdered(This)'
        BY <3>1 DEF This
      <3> QED
        BY <2>3, <3>2, ListsNext
    <2> QED
      BY <2>2, <2>3
  <1>2. ScreensBase /\ ListsInOrder /\ [ScreensNext]_screenVars => ListsInOrder'
    BY ListsNext
  <1> QED
    BY <1>1, <1>2, BaseInit, BaseNext, ListsInit, PTL DEF ScreensSpec, NeverOlder

-----------------------------------------------------------------------------
(* What keeps a flag set: the press that set it, and loading the list.     *)
Bears(r, f) ==
    /\ r # NoPress
    /\ f \in r.control.busy \/ (r.step \in {"asking", "asked"} /\ f \in Loader(r.control))

FlagsBorne == \A f \in flags : \E p \in Presses : Bears(press[p], f)

(* The page does not stay disabled: without a press under way no flag is   *)
(* set, and with it no button disabled and no dialog held open.            *)
NothingStaysDisabled == (\A p \in Presses : press[p] = NoPress) => flags = {}

(* Where a load that is outdated leaves its flags to the next, the next    *)
(* sets them too.                                                          *)
LoadsAlike(s) ==
    s.order = "latest" => (s.loader = {} \/ \A c \in s.controls : c.loads # "quietly")

(* One press moves; what it bore before it bears still, or clears.         *)
LEMMA BorneAlone ==
    ASSUME FlagsBorne, screen' = screen, NEW p \in Presses,
           \A q \in Presses \ {p} : press'[q] = press[q],
           \A f \in flags' : (f \in flags /\ ~ Bears(press[p], f)) \/ Bears(press'[p], f)
    PROVE  FlagsBorne'
  <1> SUFFICES ASSUME NEW f \in flags' PROVE \E q \in Presses : Bears(press'[q], f)
    BY DEF FlagsBorne, Bears, Loader, This
  <1>1. CASE Bears(press'[p], f)
    BY <1>1
  <1>2. CASE f \in flags /\ ~ Bears(press[p], f)
    <2>1. PICK q \in Presses : Bears(press[q], f)
      BY <1>2 DEF FlagsBorne
    <2> QED
      BY <1>2, <2>1
  <1> QED
    BY <1>1, <1>2

(* A press comes to loading the list; the loads under way may be outdated. *)
LEMMA BorneLoading ==
    ASSUME ScreensBase, FlagsBorne, screen # "login", screen' = screen, LoadsAlike(This),
           NEW p \in Presses, NEW c \in This.controls \cup {FirstLoad(This)}, c.loads # "no",
           press' = [Outdated EXCEPT ![p] = Stand("asking", c, -1)],
           flags' \subseteq flags \cup Loader(c) \cup c.busy,
           \A f \in flags : Bears(press[p], f) => f \in c.busy
    PROVE  FlagsBorne'
  <1> SUFFICES ASSUME NEW f \in flags' PROVE \E q \in Presses : Bears(press'[q], f)
    BY DEF FlagsBorne, Bears, Loader, This
  <1>1. press'[p] = Stand("asking", c, -1) /\ \A q \in Presses \ {p} : press'[q] = Outdated[q]
    BY DEF Outdated
  <1>2. /\ press'[p] # NoPress /\ press'[p].control = c /\ press'[p].step = "asking"
    BY <1>1, StandFields
  <1>3. CASE f \in Loader(c) \cup c.busy
    BY <1>2, <1>3 DEF Bears
  <1>4. CASE f \notin Loader(c) \cup c.busy
    <2>1. PICK q \in Presses : Bears(press[q], f)
      BY <1>4 DEF FlagsBorne
    <2>2. q # p /\ f \in flags
      BY <1>4, <2>1
    <2>3. CASE Outdated[q] = press[q]
      BY <1>1, <2>1, <2>2, <2>3
    <2>4. CASE Outdated[q] # press[q]
      <3>1. This.order = "latest" /\ Outdated[q] = Stand("old", press[q].control, press[q].seen)
        BY <2>4, OutdatedFields DEF Outdated
      <3>2. c.loads = "yes" \/ This.loader = {}
        BY <3>1, ControlFields, FirstLoadFields DEF LoadsAlike, ScreensBase
      <3>3. f \notin Loader(press[q].control)
        BY <1>4, <3>2 DEF Loader
      <3>4. f \in press[q].control.busy
        BY <2>1, <3>3 DEF Bears
      <3>5. Outdated[q] # NoPress /\ Outdated[q].control = press[q].control
        BY <3>1, StandFields
      <3> QED
        BY <1>1, <2>2, <3>4, <3>5 DEF Bears
    <2> QED
      BY <2>3, <2>4
  <1> QED
    BY <1>3, <1>4

LEMMA FlagsBorneInit == ScreensInit => FlagsBorne
  <1> SUFFICES ASSUME ScreensInit PROVE FlagsBorne
    OBVIOUS
  <1>1. CASE This.first = "none"
    BY <1>1 DEF ScreensInit, FlagsBorne
  <1>2. CASE This.first # "none"
    <2>1. PICK p \in Presses : press[p] = Stand("asking", FirstLoad(This), -1)
      BY <1>2 DEF ScreensInit
    <2>2. flags = This.mount
      BY <1>2 DEF ScreensInit
    <2>3. press[p] # NoPress /\ press[p].control.busy = This.mount
      BY <2>1, StandFields, FirstLoadFields
    <2> QED
      BY <2>2, <2>3 DEF FlagsBorne, Bears
  <1> QED
    BY <1>1, <1>2

LEMMA FlagsBorneNext ==
    ASSUME ScreensBase, FlagsBorne, [ScreensNext]_screenVars,
           screen # "login" => LoadsAlike(This)
    PROVE  FlagsBorne'
  <1>p. ASSUME NEW p \in Presses, press[p] # NoPress
        PROVE  /\ screen # "login" /\ LoadsAlike(This)
               /\ press[p].control \in This.controls \cup {FirstLoad(This)}
    BY <1>p, TypeFacts
  <1>a. ASSUME NEW p \in Presses, NEW r, press' = [press EXCEPT ![p] = r]
        PROVE  press'[p] = r /\ \A q \in Presses \ {p} : press'[q] = press[q]
    BY <1>a DEF ScreensBase, Settled
  <1>n. \A f : ~ Bears(NoPress, f)
    BY DEF Bears
  <1>1. ASSUME screen # "login", NEW p \in Presses, NEW c \in This.controls, PressControl(p, c)
        PROVE  FlagsBorne'
    <2>1. press[p] = NoPress /\ screen' = screen
      BY <1>1, PressEffect
    <2>2. CASE /\ c.sends = "nothing" /\ c.loads # "no"
               /\ flags' = flags \cup Loader(c) \cup c.busy
               /\ press' = [Outdated EXCEPT ![p] = Stand("asking", c, -1)]
      BY <1>1, <1>n, <2>1, <2>2, BorneLoading
    <2>3. CASE /\ flags' = (flags \ c.frees) \cup c.busy
               /\ press' = [press EXCEPT ![p] = Stand("sent", c, -1)]
      <3>1. press'[p] = Stand("sent", c, -1) /\ \A q \in Presses \ {p} : press'[q] = press[q]
        BY <1>a, <2>3
      <3>2. press'[p] # NoPress /\ press'[p].control = c
        BY <3>1, StandFields
      <3>3. \A f \in c.busy : Bears(press'[p], f)
        BY <3>2 DEF Bears
      <3> QED
        BY <1>n, <2>1, <2>3, <3>1, <3>3, BorneAlone
    <2> QED
      BY <1>1, <2>2, <2>3, PressEffect
  <1>2. ASSUME NEW p \in Presses, Serve(p) PROVE FlagsBorne'
    <2>1. /\ press[p].step = "sent" /\ UNCHANGED <<screen, flags>>
          /\ press'[p] = Stand("done", press[p].control, press[p].seen)
      BY <1>2, ServeEffect DEF Moves
    <2>2. \A q \in Presses \ {p} : press'[q] = press[q]
      BY <1>2 DEF Serve, ScreensBase, Settled
    <2>3. press'[p] # NoPress /\ press'[p].control = press[p].control
      BY <2>1, StandFields
    <2>4. \A f : Bears(press[p], f) => Bears(press'[p], f)
      BY <2>1, <2>3 DEF Bears
    <2> QED
      BY <2>1, <2>2, <2>4, BorneAlone
  <1>3. ASSUME NEW p \in Presses, Answer(p) PROVE FlagsBorne'
    <2> DEFINE c == press[p].control
    <2>1. press[p].step = "done" /\ press[p] # NoPress /\ screen' = screen
      BY <1>3, AnswerEffect DEF NoPress
    <2>2. /\ screen # "login" /\ LoadsAlike(This)
          /\ c \in This.controls \cup {FirstLoad(This)}
      BY <1>p, <2>1
    <2>3. \A f : Bears(press[p], f) => f \in c.busy
      BY <2>1 DEF Bears
    <2>4. CASE /\ c.loads # "no"
               /\ flags' = flags \cup Loader(c) \cup IF c.sends = "nothing" THEN c.busy ELSE {}
               /\ press' = [Outdated EXCEPT ![p] = Stand("asking", c, -1)]
      <3>1. flags' \subseteq flags \cup Loader(c) \cup c.busy
        BY <2>4
      <3> HIDE DEF c
      <3> QED
        BY <2>1, <2>2, <2>3, <2>4, <3>1, BorneLoading
    <2>5. CASE flags' = flags \ (c.busy \cup c.frees) /\ press' = [press EXCEPT ![p] = NoPress]
      <3>1. press'[p] = NoPress /\ \A q \in Presses \ {p} : press'[q] = press[q]
        BY <1>a, <2>5
      <3> QED
        BY <2>1, <2>3, <2>5, <3>1, BorneAlone
    <2> QED
      BY <1>3, <2>4, <2>5, AnswerEffect
  <1>4. ASSUME NEW p \in Presses, Read(p) PROVE FlagsBorne'
    <2>1. /\ press[p].step = "asking" /\ UNCHANGED <<screen, flags>>
          /\ press' = [press EXCEPT ![p] = Stand("asked", press[p].control, changes)]
      BY <1>4, ReadEffect
    <2>2. /\ press'[p] = Stand("asked", press[p].control, changes)
          /\ \A q \in Presses \ {p} : press'[q] = press[q]
      BY <1>a, <2>1
    <2>3. press'[p] # NoPress /\ press'[p].control = press[p].control /\ press'[p].step = "asked"
      BY <2>2, StandFields
    <2>4. \A f : Bears(press[p], f) => Bears(press'[p], f)
      BY <2>3, <2>1 DEF Bears
    <2> QED
      BY <2>1, <2>2, <2>4, BorneAlone
  <1>5. ASSUME NEW p \in Presses, Deliver(p) PROVE FlagsBorne'
    <2> DEFINE c == press[p].control
    <2>1. /\ screen' = screen /\ press' = [press EXCEPT ![p] = NoPress]
          /\ flags' = flags \ (c.busy \cup c.frees \cup Loader(c))
      BY <1>5, DeliverEffect
    <2>2. press'[p] = NoPress /\ \A q \in Presses \ {p} : press'[q] = press[q]
      BY <1>a, <2>1
    <2>3. \A f \in flags' : f \in flags /\ ~ Bears(press[p], f)
      BY <2>1 DEF Bears
    <2> QED
      BY <2>1, <2>2, <2>3, BorneAlone
  <1>6. ASSUME NEW p \in Presses, Fail(p) PROVE FlagsBorne'
    <2>1. screen' = screen /\ press' = [press EXCEPT ![p] = NoPress]
      BY <1>6, FailEffect
    <2>2. press'[p] = NoPress /\ \A q \in Presses \ {p} : press'[q] = press[q]
      BY <1>a, <2>1
    <2>3. \A f \in flags' : f \in flags /\ ~ Bears(press[p], f)
      BY <1>6 DEF Fail, Finish, Bears
    <2> QED
      BY <2>1, <2>2, <2>3, BorneAlone
  <1>7. ASSUME NEW p \in Presses, SignOut(p) PROVE FlagsBorne'
    BY <1>7 DEF SignOut, FlagsBorne
  <1>8. ASSUME screen # "login",
               (\E c \in This.controls : OpenDialog(c)) \/ (\E d \in DOMAIN This.dialogs : LeaveDialog(d))
        PROVE  FlagsBorne'
    BY <1>8, DialogEffect DEF FlagsBorne, Bears, Loader, This
  <1>9. CASE UNCHANGED screenVars
    BY <1>9 DEF screenVars, FlagsBorne, Bears, Loader, This
  <1> QED
    BY <1>1, <1>2, <1>3, <1>4, <1>5, <1>6, <1>7, <1>8, <1>9 DEF ScreensNext

(* On any page whose loads are alike: when every press has been answered,  *)
(* has failed or has been given up, all buttons work again, however the    *)
(* presses overlapped.                                                     *)
THEOREM FlagsAreCleared ==
    ASSUME \A n \in DOMAIN ScreenTable : LoadsAlike(ScreenTable[n])
    PROVE  ScreensSpec => []NothingStaysDisabled
  <1>1. ScreensBase /\ FlagsBorne /\ [ScreensNext]_screenVars => FlagsBorne'
    <2>1. ScreensBase /\ screen # "login" => LoadsAlike(This)
      BY ThisPage DEF This, ScreensBase
    <2> QED
      BY <2>1, FlagsBorneNext
  <1>2. FlagsBorne => NothingStaysDisabled
    BY DEF FlagsBorne, NothingStaysDisabled, Bears
  <1> QED
    BY <1>1, <1>2, BaseInit, BaseNext, FlagsBorneInit, PTL DEF ScreensSpec

-----------------------------------------------------------------------------
(* The pages of the application keep the conditions.  A control is         *)
(* disciplined if it waits for the guards it sets, with a change sets      *)
(* nothing else, leaves the flags of others alone, and closes its own form *)
(* only, if any, with "saving" set.                                        *)
Disciplined(c, guards, forms) ==
    /\ c.frees = {}
    /\ \A f \in guards : f \in c.busy => f \in c.off
    /\ c.sends = "change" => c.busy \subseteq guards
    /\ \/ c.closes = {}
       \/ /\ c.closes = {c.at} /\ c.at \in forms /\ c.sends # "nothing"
          /\ "saving" \in c.busy /\ "saving" \in c.off

DisciplinedPage(s, guards, forms) ==
    /\ guards \cap (s.mount \cup s.loader) = {}
    /\ "page" \notin forms /\ ("saving" \in guards \/ forms = {})
    /\ \A d \in forms : "saving" \in s.dialogs[d]
    /\ \A c \in s.controls : Disciplined(c, guards, forms)

LEMMA DisciplinedForms ==
    ASSUME NEW s, NEW guards, NEW forms, DisciplinedPage(s, guards, forms)
    PROVE  FormsGuarded(s) /\ DialogsGuarded(s)
  <1>1. \A f \in guards : Guarded(s, f)
    BY DEF DisciplinedPage, Disciplined, Guarded
  <1>2. FormsGuarded(s)
    BY <1>1 DEF DisciplinedPage, Disciplined, FormsGuarded
  <1>3. DialogsGuarded(s)
    <2> SUFFICES ASSUME NEW c \in s.controls, NEW d \in c.closes
                 PROVE  /\ c.at = d /\ d # "page"
                        /\ "saving" \in c.busy \cap s.dialogs[d]
                        /\ \A e \in s.controls :
                              d \in e.closes => ("saving" \in e.off /\ "saving" \in e.busy)
                        /\ Guarded(s, "saving")
      BY DEF DialogsGuarded
    <2>1. c.closes = {c.at} /\ c.at \in forms /\ "saving" \in c.busy
      BY DEF DisciplinedPage, Disciplined
    <2>2. "page" \notin forms /\ "saving" \in guards /\ "saving" \in s.dialogs[c.at]
      BY <2>1 DEF DisciplinedPage
    <2>3. ASSUME NEW e \in s.controls, d \in e.closes PROVE "saving" \in e.off /\ "saving" \in e.busy
      BY <2>3 DEF DisciplinedPage, Disciplined
    <2> QED
      BY <1>1, <2>1, <2>2, <2>3
  <1> QED
    BY <1>2, <1>3

(* What the operators that build controls give. *)
LEMMA SubmitDisciplined ==
    ASSUME NEW at, NEW off, NEW busy, NEW guards, NEW forms, busy \subseteq guards, busy \subseteq off,
           at = "page" \/ (at \in forms /\ "saving" \in busy)
    PROVE  Disciplined(Submit(at, off, busy), guards, forms)
  BY DEF Disciplined, Submit

LEMMA SendDisciplined ==
    ASSUME NEW at, NEW off, NEW busy, NEW guards, NEW forms, busy \subseteq guards, busy \subseteq off
    PROVE  Disciplined(Send(at, off, busy), guards, forms)
  BY DEF Disciplined, Send, Submit

LEMMA LoadDisciplined ==
    ASSUME NEW off, NEW busy, NEW guards, NEW forms, busy \cap guards = {}
    PROVE  Disciplined(Load(off, busy), guards, forms)
  BY DEF Disciplined, Load, Submit

LEMMA AskDisciplined ==
    ASSUME NEW at, NEW off, NEW busy, NEW shows, NEW guards, NEW forms, busy \subseteq off
    PROVE  Disciplined(Ask(at, off, busy, shows), guards, forms)
  BY DEF Disciplined, Ask, Send, Submit

LEMMA OpenDisciplined ==
    ASSUME NEW off, NEW dialog, NEW guards, NEW forms
    PROVE  Disciplined(Open("page", off, dialog), guards, forms)
  BY DEF Disciplined, Open, Submit

(* The pages with one form, and those without. *)
LEMMA SettingsDisciplined == DisciplinedPage(SettingsPage, {"saving"}, {"form"})
  <1> DEFINE s == SettingsPage
  <1>1. ASSUME NEW c \in s.controls PROVE Disciplined(c, {"saving"}, {"form"})
    <2>1. CASE c = OpenCurrentCreate
      BY <2>1, OpenDisciplined DEF OpenCurrentCreate
    <2>2. CASE c = SubmitForm
      BY <2>2, SubmitDisciplined DEF SubmitForm, SettingsDialog
    <2>3. CASE c = Load(SettingsToolbar.refresh, {})
      BY <2>3, LoadDisciplined
    <2>4. CASE c \in OpenEdit
      BY <2>4, OpenDisciplined DEF OpenEdit
    <2>5. CASE c \in RemoveSettingsItem
      <3>1. PICK rows \in {AcademyRows, BranchRows, SportRows, ProgramRows} :
               c = Submit("page", rows.remove, {"saving"})
        BY <2>5 DEF RemoveSettingsItem
      <3>2. rows.remove = {"saving", "loading"}
        BY DEF AcademyRows, BranchRows, SportRows, ProgramRows
      <3> QED
        BY <3>1, <3>2, SubmitDisciplined
    <2> QED
      BY <2>1, <2>2, <2>3, <2>4, <2>5 DEF SettingsPage
  <1>2. s.mount = {"loading"} /\ s.loader = {"loading"} /\ s.dialogs.form = {"saving"}
    BY DEF SettingsPage, LoadSettings, SettingsDialog
  <1> QED
    BY <1>1, <1>2 DEF DisciplinedPage

LEMMA AttendanceDisciplined == DisciplinedPage(AttendancePage, {"saving"}, {"session"})
  <1> DEFINE s == AttendancePage
  <1>1. ASSUME NEW c \in s.controls PROVE Disciplined(c, {"saving"}, {"session"})
    <2>1. CASE c \in OpenSession
      BY <2>1, OpenDisciplined DEF OpenSession
    <2>2. CASE c = SubmitSession
      BY <2>2, SubmitDisciplined DEF SubmitSession, SessionDialog
    <2>3. CASE c \in {Load(AttendanceToolbar.refresh, {}), Load(AttendanceToolbar.filter, {})}
      BY <2>3, LoadDisciplined
    <2>4. CASE c = OpenRoster
      BY <2>4, AskDisciplined DEF OpenRoster, SessionRows
    <2>5. CASE c = SaveAttendance
      BY <2>5 DEF Disciplined, SaveAttendance, Submit, RosterDialog
    <2>6. CASE c = ChangeSessionStatus
      BY <2>6, SubmitDisciplined DEF ChangeSessionStatus, SessionRows
    <2>7. CASE c = RemoveSession
      BY <2>7, SubmitDisciplined DEF RemoveSession, SessionRows
    <2>8. CASE c = OpenTraineeStats
      BY <2>8 DEF Disciplined, OpenTraineeStats, Ask, Send, Submit, RosterDialog
    <2> QED
      BY <2>1, <2>2, <2>3, <2>4, <2>5, <2>6, <2>7, <2>8 DEF AttendancePage
  <1>2. s.mount = {"loading"} /\ s.loader = {"loading"} /\ s.dialogs.session = {"saving"}
    BY DEF AttendancePage, LoadSessions, SessionDialog
  <1> QED
    BY <1>1, <1>2 DEF DisciplinedPage

LEMMA TraineesDisciplined == DisciplinedPage(TraineesPage, {"saving"}, {"trainee"})
  <1> DEFINE s == TraineesPage
  <1>1. ASSUME NEW c \in s.controls PROVE Disciplined(c, {"saving"}, {"trainee"})
    <2>1. CASE c \in OpenTrainee
      BY <2>1, OpenDisciplined DEF OpenTrainee
    <2>2. CASE c = HandleSubmit
      BY <2>2, SubmitDisciplined DEF HandleSubmit, TraineeDialog
    <2>3. CASE c = HandleDelete
      BY <2>3, SubmitDisciplined DEF HandleDelete
    <2>4. CASE c \in {Load(TraineesToolbar.refresh, {}), Load(TraineesToolbar.search, {})}
      BY <2>4, LoadDisciplined
    <2> QED
      BY <2>1, <2>2, <2>3, <2>4 DEF TraineesPage
  <1>2. s.mount = {"loading"} /\ s.loader = {"loading"} /\ s.dialogs.trainee = {"saving"}
    BY DEF TraineesPage, LoadTrainees, TraineeDialog
  <1> QED
    BY <1>1, <1>2 DEF DisciplinedPage

LEMMA GroupsDisciplined == DisciplinedPage(GroupsPage, {"saving"}, {"group"})
  <1> DEFINE s == GroupsPage
  <1>1. ASSUME NEW c \in s.controls PROVE Disciplined(c, {"saving"}, {"group"})
    <2>1. CASE c \in OpenGroup \cup {OpenSchedules}
      BY <2>1, OpenDisciplined DEF OpenGroup, OpenSchedules
    <2>2. CASE c = SubmitGroup
      BY <2>2, SubmitDisciplined DEF SubmitGroup, GroupDialog
    <2>3. CASE c = RemoveGroup
      BY <2>3, SubmitDisciplined DEF RemoveGroup
    <2>4. CASE c = AddGroupSchedule
      BY <2>4 DEF Disciplined, AddGroupSchedule, Submit, SchedulesDialog
    <2>5. CASE c = RemoveGroupSchedule
      BY <2>5 DEF Disciplined, RemoveGroupSchedule, Submit, SchedulesDialog
    <2>6. CASE c \in {Load(GroupsToolbar.refresh, {}), Load(GroupsToolbar.filter, {})}
      BY <2>6, LoadDisciplined
    <2> QED
      BY <2>1, <2>2, <2>3, <2>4, <2>5, <2>6 DEF GroupsPage
  <1>2. s.mount = {"loading"} /\ s.loader = {"loading"} /\ s.dialogs.group = {"saving"}
    BY DEF GroupsPage, LoadGroups, GroupDialog
  <1> QED
    BY <1>1, <1>2 DEF DisciplinedPage

LEMMA UsersDisciplined == DisciplinedPage(UsersPage, {"saving"}, {"user"})
  <1> DEFINE s == UsersPage
  <1>1. ASSUME NEW c \in s.controls PROVE Disciplined(c, {"saving"}, {"user"})
    <2>1. CASE c = OpenCreateUser
      BY <2>1, OpenDisciplined DEF OpenCreateUser
    <2>2. CASE c = SubmitUser
      BY <2>2, SubmitDisciplined DEF SubmitUser, UserDialog
    <2>3. CASE c = OpenUser
      BY <2>3, AskDisciplined DEF OpenUser, UserRows
    <2>4. CASE c = Load(UsersToolbar.refresh, {})
      BY <2>4, LoadDisciplined
    <2> QED
      BY <2>1, <2>2, <2>3, <2>4 DEF UsersPage
  <1>2. s.mount = {"loading"} /\ s.loader = {"loading"} /\ s.dialogs.user = {"saving"}
    BY DEF UsersPage, LoadUsers, UserDialog
  <1> QED
    BY <1>1, <1>2 DEF DisciplinedPage

LEMMA LinksDisciplined == DisciplinedPage(LinksPage, {"saving"}, {"link"})
  <1> DEFINE s == LinksPage
  <1>1. ASSUME NEW c \in s.controls PROVE Disciplined(c, {"saving"}, {"link"})
    <2>1. CASE c = OpenLink
      BY <2>1, OpenDisciplined DEF OpenLink
    <2>2. CASE c = SubmitLink
      BY <2>2, SubmitDisciplined DEF SubmitLink, LinkDialog
    <2>3. CASE c \in {ToggleActive, MakePrimary, PressRemoveLink}
      BY <2>3, SubmitDisciplined DEF ToggleActive, MakePrimary, PressRemoveLink, LinkRows
    <2>4. CASE c \in {ApproveSelectedTrainee, RejectSelectedTrainee}
      BY <2>4, SubmitDisciplined DEF ApproveSelectedTrainee, RejectSelectedTrainee, LinksHeader
    <2>5. CASE c \in ResendInvitation
      <3>1. PICK off \in {LinksHeader.resend, LinkRows.resend} : c = Submit("page", off, {"saving"})
        BY <2>5 DEF ResendInvitation
      <3>2. off = {"saving"}
        BY DEF LinksHeader, LinkRows
      <3> QED
        BY <3>1, <3>2, SubmitDisciplined
    <2>6. CASE c = Load(LinksToolbar.refresh, {})
      BY <2>6, LoadDisciplined
    <2> QED
      BY <2>1, <2>2, <2>3, <2>4, <2>5, <2>6 DEF LinksPage
  <1>2. s.mount = {} /\ s.loader = {} /\ s.dialogs.link = {"saving"}
    BY DEF LinksPage, LinkDialog
  <1> QED
    BY <1>1, <1>2 DEF DisciplinedPage

LEMMA QueriedDisciplined ==
    ASSUME NEW controls, NEW guards, \A c \in controls : Disciplined(c, guards, {})
    PROVE  DisciplinedPage(QueriedPage(controls), guards, {})
  BY DEF DisciplinedPage, QueriedPage

LEMMA GalleryDisciplined == DisciplinedPage(GalleryPage, {"saving", "deleting"}, {})
  <1>1. \A c \in {UploadItem, DeleteItem} : Disciplined(c, {"saving", "deleting"}, {})
    BY SubmitDisciplined DEF UploadItem, DeleteItem, GalleryForm, GalleryList
  <1> QED
    BY <1>1, QueriedDisciplined DEF GalleryPage

LEMMA NotificationsDisciplined == DisciplinedPage(NotificationsPage, {"saving", "deleting"}, {})
  <1>1. \A c \in {CreateNotification, DeleteNotification} : Disciplined(c, {"saving", "deleting"}, {})
    BY SubmitDisciplined DEF CreateNotification, DeleteNotification, NotificationForm, NotificationHistory
  <1> QED
    BY <1>1, QueriedDisciplined DEF NotificationsPage

LEMMA RankingsDisciplined == DisciplinedPage(RankingsPage, {"saving", "deleting"}, {})
  <1>1. \A c \in {SaveRanking, DeleteRanking} : Disciplined(c, {"saving", "deleting"}, {})
    BY SubmitDisciplined DEF SaveRanking, DeleteRanking, RankingRows
  <1> QED
    BY <1>1, QueriedDisciplined DEF RankingsPage

LEMMA ReadersDisciplined ==
    DisciplinedPage(DashboardPage, {}, {}) /\ DisciplinedPage(ReportsPage, {}, {})
  <1>1. Disciplined(RefreshAll, {}, {}) /\ Disciplined(RefreshReports, {}, {})
    BY LoadDisciplined DEF RefreshAll, RefreshReports
  <1> QED
    BY <1>1, QueriedDisciplined DEF DashboardPage, ReportsPage

LEMMA ClientDisciplined ==
    /\ DisciplinedPage(ClientFeedbackPage, {"saving"}, {})
    /\ DisciplinedPage(ClientMessagesPage, {}, {})
  <1>1. \A c \in {SubmitRequest, Load(FeedbackHistory.refresh, {})} : Disciplined(c, {"saving"}, {})
    BY SubmitDisciplined, LoadDisciplined DEF SubmitRequest, FeedbackForm
  <1>2. \A c \in {MarkRead, RefetchMessages} : Disciplined(c, {}, {})
    BY SubmitDisciplined, LoadDisciplined DEF MarkRead, RefetchMessages
  <1> QED
    BY <1>1, <1>2 DEF DisciplinedPage, ClientFeedbackPage, ClientMessagesPage, LoadFeedback

LEMMA EntryDisciplined ==
    \A c \in {Login, PlatformLogin, ForgotPassword, ResetPasswordForm} :
        DisciplinedPage(EntryPage(c), {"saving", "loading"}, {})
  <1> SUFFICES ASSUME NEW c \in {Login, PlatformLogin, ForgotPassword, ResetPasswordForm}
               PROVE  Disciplined(c, {"saving", "loading"}, {})
    BY DEF DisciplinedPage, EntryPage
  <1> QED
    BY SendDisciplined DEF Login, PlatformLogin, ForgotPassword, ResetPasswordForm

(* These two have no dialogs. *)
LEMMA DialoglessGuarded == DialogsGuarded(RequestsPage) /\ DialogsGuarded(OperationsPage)
  <1>1. ASSUME NEW c \in RequestsPage.controls PROVE c.closes = {}
    BY DEF RequestsPage, HandleResolve, Load, Submit
  <1>2. ASSUME NEW c \in OperationsPage.controls PROVE c.closes = {}
    BY DEF OperationsPage, PressUserStatus, PressCreateTicket, PressTicketStatus, PressSaveSetting,
           Load, Submit
  <1> QED
    BY <1>1, <1>2 DEF DialogsGuarded

GuardedPages == DOMAIN Pages \ OverlappingPages
KeepingPages == DOMAIN Pages \ ReopeningPages
OrderedPages == DOMAIN Pages \ UnorderedPages

LEMMA PageNames ==
    /\ GuardedPages = {"settings", "attendance", "trainees", "groups", "users", "links", "gallery",
                       "notifications", "rankings", "dashboard", "reports", "feedback", "messages",
                       "entry", "console", "forgotten", "reset"}
    /\ KeepingPages = GuardedPages \cup {"requests", "operations"}
    /\ OrderedPages = {"trainees", "links", "gallery", "notifications", "rankings", "dashboard",
                       "reports", "messages", "entry", "console", "forgotten", "reset"}
  BY DEF GuardedPages, KeepingPages, OrderedPages, Pages, OverlappingPages, ReopeningPages,
         UnorderedPages

LEMMA PagesDisciplined ==
    ASSUME NEW n \in GuardedPages
    PROVE  FormsGuarded(Pages[n]) /\ DialogsGuarded(Pages[n])
  <1>1. \E guards, forms : DisciplinedPage(Pages[n], guards, forms)
    <2>1. CASE n \in {"settings", "attendance", "trainees", "groups"}
      BY <2>1, SettingsDisciplined, AttendanceDisciplined, TraineesDisciplined, GroupsDisciplined
         DEF Pages
    <2>2. CASE n \in {"users", "links", "gallery", "notifications"}
      BY <2>2, UsersDisciplined, LinksDisciplined, GalleryDisciplined, NotificationsDisciplined
         DEF Pages
    <2>3. CASE n \in {"rankings", "dashboard", "reports", "feedback", "messages"}
      BY <2>3, RankingsDisciplined, ReadersDisciplined, ClientDisciplined DEF Pages
    <2>4. CASE n \in {"entry", "console", "forgotten", "reset"}
      BY <2>4, EntryDisciplined DEF Pages
    <2> QED
      BY <2>1, <2>2, <2>3, <2>4, PageNames
  <1> QED
    BY <1>1, DisciplinedForms

LEMMA PagesKeepDialogs ==
    ASSUME NEW n \in KeepingPages
    PROVE  DialogsGuarded(Pages[n])
  <1>1. CASE n \in GuardedPages
    BY <1>1, PagesDisciplined
  <1>2. CASE n \in {"requests", "operations"}
    BY <1>2, DialoglessGuarded DEF Pages
  <1> QED
    BY <1>1, <1>2, PageNames

LEMMA PagesOrdered ==
    ASSUME NEW n \in OrderedPages
    PROVE  ListOrdered(Pages[n])
  <1>1. CASE n \in {"trainees", "links"}
    BY <1>1 DEF Pages, ListOrdered, TraineesPage, LoadTrainees, LinksPage, PortalQuery
  <1>2. CASE n \in {"gallery", "notifications", "rankings", "dashboard", "reports"}
    <2>1. \A controls : ListOrdered(QueriedPage(controls))
      BY DEF ListOrdered, QueriedPage, GalleryQuery
    <2> QED
      BY <1>2, <2>1 DEF Pages, GalleryPage, NotificationsPage, RankingsPage, DashboardPage, ReportsPage
  <1>3. CASE n = "messages"
    BY <1>3 DEF Pages, ListOrdered, ClientMessagesPage, ClientQuery
  <1>4. CASE n \in {"entry", "console", "forgotten", "reset"}
    <2>1. \A c \in {Login, PlatformLogin, ForgotPassword, ResetPasswordForm} : c.loads = "no"
      BY DEF Login, PlatformLogin, ForgotPassword, ResetPasswordForm, Send, Submit
    <2>2. \A c : EntryPage(c).first = "none" /\ EntryPage(c).controls = {c}
      BY DEF EntryPage
    <2>3. \A c \in {Login, PlatformLogin, ForgotPassword, ResetPasswordForm} : ListOrdered(EntryPage(c))
      BY <2>1, <2>2 DEF ListOrdered
    <2> QED
      BY <1>4, <2>3 DEF Pages
  <1> QED
    BY <1>1, <1>2, <1>3, <1>4, PageNames

LEMMA PagesLoadAlike ==
    ASSUME NEW n \in DOMAIN Pages
    PROVE  LoadsAlike(Pages[n])
  <1>1. CASE n = "trainees"
    <2>1. \A c \in TraineesPage.controls : c.loads # "quietly"
      <3>1. \A at, off, busy, dialog :
               /\ Submit(at, off, busy).loads = "yes" /\ Load(off, busy).loads = "yes"
               /\ Open(at, off, dialog).loads = "no"
        BY DEF Open, Load, Submit
      <3>2. HandleSubmit.loads = "yes" /\ HandleDelete.loads = "yes"
        BY <3>1 DEF HandleSubmit, HandleDelete
      <3>3. \A c \in OpenTrainee : c.loads = "no"
        BY <3>1 DEF OpenTrainee
      <3> QED
        BY <3>1, <3>2, <3>3 DEF TraineesPage
    <2> QED
      BY <1>1, <2>1 DEF Pages, LoadsAlike
  <1>2. CASE n \in {"links", "messages"}
    BY <1>2 DEF Pages, LoadsAlike, LinksPage, ClientMessagesPage
  <1>3. CASE n \in {"gallery", "notifications", "rankings", "dashboard", "reports"}
    <2>1. \A controls : LoadsAlike(QueriedPage(controls))
      BY DEF LoadsAlike, QueriedPage
    <2> QED
      BY <1>3, <2>1 DEF Pages, GalleryPage, NotificationsPage, RankingsPage, DashboardPage, ReportsPage
  <1>4. CASE n \in {"entry", "console", "forgotten", "reset"}
    <2>1. \A c : LoadsAlike(EntryPage(c))
      BY DEF LoadsAlike, EntryPage
    <2> QED
      BY <1>4, <2>1 DEF Pages
  <1>5. CASE n \in UnorderedPages
    <2>1. CASE n \in {"billing", "settings", "attendance", "groups", "users"}
      BY <2>1 DEF Pages, LoadsAlike, BillingPage, SettingsPage, AttendancePage, GroupsPage, UsersPage
    <2>2. CASE n \in {"requests", "platform", "academies", "operations", "feedback"}
      BY <2>2 DEF Pages, LoadsAlike, RequestsPage, PlatformPage, AcademiesPage, OperationsPage,
                  ClientFeedbackPage
    <2> QED
      BY <1>5, <2>1, <2>2 DEF UnorderedPages
  <1>6. DOMAIN Pages = OrderedPages \cup UnorderedPages
    BY DEF OrderedPages, Pages, UnorderedPages
  <1> QED
    BY <1>1, <1>2, <1>3, <1>4, <1>5, <1>6, PageNames

-----------------------------------------------------------------------------
(* On the pages of the application, but for the five of OverlappingPages,  *)
(* no form is under way twice.                                             *)
THEOREM ClientFormsSentOnce ==
    ASSUME ScreenTable = Pages, OverlappingPages \subseteq Overlapping
    PROVE  ScreensSpec => []OneSubmission
  <1>1. \A n \in DOMAIN ScreenTable \ Overlapping : FormsGuarded(ScreenTable[n])
    BY PagesDisciplined DEF GuardedPages
  <1> QED
    BY <1>1, FormsSentOnce

(* But for the three of ReopeningPages, no answer closes a dialog that was *)
(* opened anew.                                                            *)
THEOREM ClientDialogsAreKept ==
    ASSUME ScreenTable = Pages, ReopeningPages \subseteq Reopening
    PROVE  ScreensSpec => []DialogsKept
  <1>1. \A n \in DOMAIN ScreenTable \ Reopening : DialogsGuarded(ScreenTable[n])
    BY PagesKeepDialogs DEF KeepingPages
  <1> QED
    BY <1>1, DialogsAreKept

(* But for the ten of UnorderedPages, no list goes back to an older state. *)
THEOREM ClientListsNeverGoBack ==
    ASSUME ScreenTable = Pages, UnorderedPages \subseteq Unordered
    PROVE  ScreensSpec => NeverOlder
  <1>1. \A n \in DOMAIN ScreenTable \ Unordered : ListOrdered(ScreenTable[n])
    BY PagesOrdered DEF OrderedPages
  <1> QED
    BY <1>1, ListsNeverGoBack

(* No page of the application stays disabled.                              *)
THEOREM ClientNeverStaysDisabled ==
    ASSUME ScreenTable = Pages
    PROVE  ScreensSpec => []NothingStaysDisabled
  <1>1. \A n \in DOMAIN ScreenTable : LoadsAlike(ScreenTable[n])
    BY PagesLoadAlike
  <1> QED
    BY <1>1, FlagsAreCleared
=============================================================================
