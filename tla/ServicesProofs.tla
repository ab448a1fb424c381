--------------------------- MODULE ServicesProofs ---------------------------
(***************************************************************************)
(* Proofs about the services that share no state: Notices,                 *)
(* PlatformSettings, Rankings, Catalogue, Tenants, Provisioning, Feedback, *)
(* Media and PortalLinks.  Each part has its own inductive invariant,      *)
(* XInv: the types, the property and what the requests under way know of   *)
(* the rows.                                                               *)
(***************************************************************************)
EXTENDS Notices, PlatformSettings, Rankings, Catalogue, Tenants, Provisioning, Feedback, Media,
        PortalLinks, TLAPS

-----------------------------------------------------------------------------
(* Persistence: the two forms of save agree; undisturbed, it writes the    *)
(* entity, and what others have written meanwhile survives exactly in the  *)
(* columns in which the entity is as it was read.                          *)
THEOREM SavesAgree ==
    ASSUME NEW Columns, NEW Cells,
           NEW entity \in [Columns -> Cells], NEW base \in [Columns -> Cells],
           NEW current \in [Columns -> Cells], "kept" \notin Cells
    PROVE  /\ Updated(current, Differing(entity, base)) = Written(entity, base, current)
           /\ current = base => Written(entity, base, current) = entity
           /\ \A column \in Columns : current[column] # entity[column] =>
                 (Written(entity, base, current)[column] = current[column]
                     <=> entity[column] = base[column])
  <1>1. DOMAIN current = Columns /\ DOMAIN base = Columns
    OBVIOUS
  <1>2. \A column \in Columns :
           /\ Differing(entity, base)[column] =
                 IF entity[column] = base[column] THEN "kept" ELSE entity[column]
           /\ entity[column] # "kept"
    BY DEF Differing
  <1>3. Updated(current, Differing(entity, base)) = Written(entity, base, current)
    <2>1. \A column \in Columns :
             (IF Differing(entity, base)[column] = "kept" THEN current[column]
              ELSE Differing(entity, base)[column])
             = IF entity[column] = base[column] THEN current[column] ELSE entity[column]
      BY <1>2
    <2> QED
      BY <1>1, <2>1 DEF Updated, Written
  <1>4. current = base => Written(entity, base, current) = entity
    BY <1>1 DEF Written
  <1> QED
    BY <1>1, <1>3, <1>4 DEF Written

-----------------------------------------------------------------------------
(* Notices: whoever was answered has a row. *)
NoticesInv == NoticesTypeOK /\ (\A p \in told : rows[p[1]][p[2]] > 0)

LEMMA NoticesInvInit == NoticesInit => NoticesInv
  BY DEF NoticesInit, NoticesInv, NoticesTypeOK, Marking, NoMarking

LEMMA MarkingType ==
    ASSUME NEW m \in Marking, m.step # "idle"
    PROVE  m.note \in Notes /\ m.reader \in Readers
  BY DEF Marking, NoMarking

LEMMA NoticesInvNext == NoticesInv /\ [NoticesNext]_noticeVars => NoticesInv'
  <1> SUFFICES ASSUME NoticesInv, [NoticesNext]_noticeVars PROVE NoticesInv'
    OBVIOUS
  <1> USE DEF NoticesInv, NoticesTypeOK
  <1>0. NoMarking \in Marking
    BY DEF Marking
  <1>1. ASSUME NEW n \in Notes, NEW audience \in Audience, SendNotice(n, audience)
        PROVE  NoticesInv'
    BY <1>1 DEF SendNotice
  <1>2. ASSUME NEW n \in Notes, RemoveNotice(n) PROVE NoticesInv'
    BY <1>2 DEF RemoveNotice
  <1>3. ASSUME NEW n \in Notes, NEW d \in Devices, NEW u \in Readers, MarkAsRead(d, n, u)
        PROVE  NoticesInv'
    <2>1. [step |-> "look", note |-> n, reader |-> u] \in Marking
      BY DEF Marking
    <2> QED
      BY <1>3, <2>1 DEF MarkAsRead
  <1>4. ASSUME NEW d \in Devices, LookForRow(d) PROVE NoticesInv'
    <2> DEFINE m == marking[d]
    <2>1. m \in Marking /\ m.step = "look"
      BY <1>4 DEF LookForRow
    <2>2. m.note \in Notes /\ m.reader \in Readers
      BY <2>1, MarkingType
    <2>3. CASE IsRead(m.note, m.reader)
      <3>1. /\ marking' = [marking EXCEPT ![d] = NoMarking]
            /\ told' = told \cup {<<m.note, m.reader>>}
            /\ UNCHANGED <<note, branchOf, rows>>
        BY <1>4, <2>3 DEF LookForRow
      <3> QED
        BY <1>0, <2>2, <2>3, <3>1 DEF IsRead
    <2>4. CASE ~IsRead(m.note, m.reader)
      <3>1. marking' = [marking EXCEPT ![d].step = "insert"] /\ UNCHANGED <<note, branchOf, rows, told>>
        BY <1>4, <2>4 DEF LookForRow
      <3>2. [m EXCEPT !.step = "insert"] \in Marking
        BY <2>1 DEF Marking, NoMarking
      <3> QED
        BY <3>1, <3>2
    <2> QED
      BY <2>3, <2>4
  <1>5. ASSUME NEW d \in Devices, InsertRow(d) PROVE NoticesInv'
    <2> DEFINE m == marking[d]
    <2>1. m \in Marking /\ m.step = "insert"
      BY <1>5 DEF InsertRow
    <2>2. m.note \in Notes /\ m.reader \in Readers
      BY <2>1, MarkingType
    <2>3. /\ rows' = [rows EXCEPT ![m.note][m.reader] = 1]
          /\ told' = told \cup {<<m.note, m.reader>>}
          /\ marking' = [marking EXCEPT ![d] = NoMarking]
          /\ UNCHANGED <<note, branchOf>>
      BY <1>5 DEF InsertRow
    <2> HIDE DEF m
    <2>4. rows' \in [Notes -> [Readers -> 0..1]] /\ rows'[m.note][m.reader] = 1
          /\ \A n \in Notes, u \in Readers : rows'[n][u] = rows[n][u] \/ rows'[n][u] = 1
      BY <2>2, <2>3
    <2> QED
      BY <1>0, <2>2, <2>3, <2>4
  <1>6. ASSUME NEW d \in Devices, FailMarking(d) PROVE NoticesInv'
    BY <1>0, <1>6 DEF FailMarking
  <1>7. CASE UNCHANGED noticeVars
    BY <1>7 DEF noticeVars
  <1> QED
    BY <1>1, <1>2, <1>3, <1>4, <1>5, <1>6, <1>7 DEF NoticesNext

LEMMA NoticesInvMeans == NoticesInv => NoticesTypeOK /\ MessagesOnce
  BY DEF NoticesInv, NoticesTypeOK, MessagesOnce, Listed, IsRead

(* A reader's list has each message once, and as read from the first       *)
(* answer on (markAsRead, findMyNotifications).                            *)
THEOREM MessagesAreListedOnce == NoticesSpec => [](NoticesTypeOK /\ MessagesOnce)
  BY NoticesInvInit, NoticesInvNext, NoticesInvMeans, PTL DEF NoticesSpec

-----------------------------------------------------------------------------
(* PlatformSettings: no invariant but the types. *)
LEMMA SettingsTypeInit == SettingsInit => SettingsTypeOK
  BY DEF SettingsInit, SettingsTypeOK, SettingValue, Boot, NotBooted, Setter, NoSetter

LEMMA SetterType ==
    ASSUME NEW s \in Setter
    PROVE  /\ s.step \in {"insert", "save"} => s.key \in Keys /\ s.value \in Values
           /\ s.step = "write" => /\ s.key \in Keys /\ s.entity \in [value : Values]
                                  /\ s.base \in [value : SettingValue]
  BY DEF Setter, NoSetter

LEMMA SettingsStep ==
    ASSUME SettingsTypeOK, [SettingsNext]_settingVars
    PROVE  /\ SettingsTypeOK'
           /\ \A k \in Keys : setting[k] \in Values => setting'[k] \in Values
  <1> USE DEF SettingsTypeOK
  <1>0. NoSetter \in Setter /\ NotBooted \in Boot
    BY DEF Setter, Boot, NotBooted
  <1>1. ASSUME NEW i \in Instances, InsertDefault(i)
        PROVE  /\ SettingsTypeOK'
               /\ \A k \in Keys : setting[k] \in Values => setting'[k] \in Values
    <2> DEFINE k == boot[i].insert
    <2>1. k \in Keys /\ boot[i] \in Boot
      BY <1>1 DEF InsertDefault, Boot
    <2>2. [boot[i] EXCEPT !.insert = "nothing"] \in Boot
      BY <2>1 DEF Boot
    <2> QED
      BY <1>1, <2>1, <2>2, SettingsAssumption DEF InsertDefault, SettingValue
  <1>2. ASSUME NEW i \in Instances, StartAnew(i)
        PROVE  SettingsTypeOK' /\ setting' = setting
    BY <1>0, <1>2 DEF StartAnew
  <1>3. ASSUME NEW i \in Instances, NEW k \in Keys, LookForDefault(i, k)
        PROVE  SettingsTypeOK' /\ setting' = setting
    BY <1>3 DEF LookForDefault, Boot
  <1>4. ASSUME NEW a \in PlatformAdmins, InsertSetting(a)
        PROVE  /\ SettingsTypeOK'
               /\ \A k \in Keys : setting[k] \in Values => setting'[k] \in Values
    <2>1. setter[a].key \in Keys /\ setter[a].value \in Values
      BY <1>4, SetterType DEF InsertSetting
    <2> QED
      BY <1>0, <1>4, <2>1 DEF InsertSetting, SettingValue
  <1>5. ASSUME NEW a \in PlatformAdmins, SelectSetting(a)
        PROVE  SettingsTypeOK' /\ setting' = setting
    <2>1. setter[a].key \in Keys /\ setter[a].value \in Values
      BY <1>5, SetterType DEF SelectSetting
    <2>2. [step |-> "write", key |-> setter[a].key, entity |-> [value |-> setter[a].value],
           base |-> [value |-> setting[setter[a].key]]] \in Setter
      BY <2>1 DEF Setter
    <2> QED
      BY <1>5, <2>2 DEF SelectSetting
  <1>6. ASSUME NEW a \in PlatformAdmins, WriteSetting(a)
        PROVE  /\ SettingsTypeOK'
               /\ \A k \in Keys : setting[k] \in Values => setting'[k] \in Values
    <2> DEFINE s == setter[a]
    <2> DEFINE new == Written(s.entity, s.base, [value |-> setting[s.key]]).value
    <2>1. s.key \in Keys /\ s.entity.value \in Values /\ s.step = "write"
      BY <1>6, SetterType DEF WriteSetting
    <2>2. new \in {setting[s.key], s.entity.value}
      BY DEF Written
    <2>3. setting' = [setting EXCEPT ![s.key] = new] /\ setter' = [setter EXCEPT ![a] = NoSetter]
          /\ boot' = boot
      BY <1>6 DEF WriteSetting
    <2> HIDE DEF new, s
    <2>4. new \in SettingValue /\ (setting[s.key] \in Values => new \in Values)
      BY <2>1, <2>2 DEF SettingValue
    <2> QED
      BY <1>0, <2>1, <2>3, <2>4
  <1>7. ASSUME NEW a \in PlatformAdmins, FailSetting(a)
        PROVE  SettingsTypeOK' /\ setting' = setting
    BY <1>0, <1>7 DEF FailSetting
  <1>8. ASSUME NEW a \in PlatformAdmins, NEW k \in Keys, NEW value \in Values,
               FindSetting(a, k, value)
        PROVE  SettingsTypeOK' /\ setting' = setting
    <2>1. [step |-> IF setting[k] = "none" THEN "insert" ELSE "save", key |-> k, value |-> value]
             \in Setter
      BY DEF Setter
    <2> QED
      BY <1>8, <2>1 DEF FindSetting
  <1>9. CASE UNCHANGED settingVars
    BY <1>9 DEF settingVars
  <1> QED
    BY <1>1, <1>2, <1>3, <1>4, <1>5, <1>6, <1>7, <1>8, <1>9 DEF SettingsNext

(* What an administrator has set outlives every start (onModuleInit).      *)
THEOREM SettingsAreKept == SettingsSpec => []SettingsTypeOK /\ SettingsOutliveBoots
  <1>1. SettingsTypeOK /\ [SettingsNext]_settingVars => SettingsTypeOK'
    BY SettingsStep
  <1>2. SettingsTypeOK /\ [SettingsNext]_settingVars =>
            [\A k \in Keys : setting[k] \in Values => setting'[k] \in Values]_settingVars
    BY SettingsStep
  <1> QED
    BY SettingsTypeInit, <1>1, <1>2, PTL DEF SettingsSpec, SettingsOutliveBoots

-----------------------------------------------------------------------------
(* Rankings *)
RankingsInv == RankingsTypeOK /\ ScoreRowFound

LEMMA RankingsInvInit == RankingsInit => RankingsInv
  <1> SUFFICES ASSUME RankingsInit PROVE RankingsInv
    OBVIOUS
  <1>1. (CHOOSE p \in Points : TRUE) \in Points
    BY RankingsAssumption
  <1> QED
    BY <1>1 DEF RankingsInit, RankingsInv, RankingsTypeOK, ScoreRowFound, ScoreRow, Scoring,
       NoScoring

LEMMA ScoringType ==
    ASSUME NEW s \in Scoring
    PROVE  /\ s.step # "idle" => s.trainee \in Ranked
           /\ s.step \in {"find", "insert", "save"} => s.points \in Points
           /\ s.step = "write" => s.entity \in ScoreRow /\ s.base \in ScoreRow
           /\ s.step = "idle" <=> s = NoScoring
  BY DEF Scoring, NoScoring

(* A change of a row: whoever else stands between find and insert for this *)
(* row is disturbed.                                                       *)
LEMMA ChangeKeeps ==
    ASSUME RankingsInv, NEW q \in Scorers, NEW t \in Ranked, NEW row \in ScoreRow,
           Change(q, t, row), Idle(q)
    PROVE  RankingsInv'
  <1>1. RankingsTypeOK'
    BY DEF RankingsInv, RankingsTypeOK, Change, Idle, Scoring, NoScoring
  <1>2. ASSUME NEW p \in Scorers \ disturbed', scoring'[p].step = "insert"
        PROVE  score'[scoring'[p].trainee].state = "none"
    <2>1. p # q
      BY <1>2 DEF Idle, RankingsInv, RankingsTypeOK, NoScoring
    <2>2. scoring'[p] = scoring[p] /\ scoring[p] \in Scoring
      BY <2>1 DEF Idle, RankingsInv, RankingsTypeOK
    <2>3. scoring[p] # NoScoring /\ scoring[p].trainee \in Ranked
      BY <1>2, <2>2, ScoringType DEF NoScoring
    <2>4. p \notin disturbed /\ scoring[p].trainee # t
      BY <1>2, <2>1, <2>3 DEF Change
    <2>5. score'[scoring[p].trainee] = score[scoring[p].trainee]
      BY <2>3, <2>4 DEF Change, RankingsInv, RankingsTypeOK
    <2> QED
      BY <1>2, <2>2, <2>4, <2>5 DEF RankingsInv, ScoreRowFound
  <1> QED
    BY <1>1, <1>2 DEF RankingsInv, ScoreRowFound

(* A request goes on, and no row changes. *)
LEMMA MoveKeeps ==
    ASSUME RankingsInv, NEW q \in Scorers, NEW s \in Scoring,
           s.step = "insert" => score[s.trainee].state = "none",
           scoring' = [scoring EXCEPT ![q] = s], score' = score,
           disturbed' \subseteq disturbed, disturbed \subseteq disturbed' \cup {q}
    PROVE  RankingsInv'
  <1>1. RankingsTypeOK'
    BY DEF RankingsInv, RankingsTypeOK
  <1> QED
    BY <1>1 DEF RankingsInv, ScoreRowFound, RankingsTypeOK

LEMMA RankingsInvNext == RankingsInv /\ [RankingsNext]_rankingVars => RankingsInv'
  <1> SUFFICES ASSUME RankingsInv, [RankingsNext]_rankingVars PROVE RankingsInv'
    OBVIOUS
  <1>0. NoScoring \in Scoring /\ NoScoring.step = "idle"
    BY DEF Scoring, NoScoring
  <1>t. /\ score \in [Ranked -> ScoreRow] /\ scoring \in [Scorers -> Scoring]
    BY DEF RankingsInv, RankingsTypeOK
  <1>1. ASSUME NEW q \in Scorers, NEW t \in Ranked, FindForRemoval(q, t) PROVE RankingsInv'
    <2>1. [step |-> "remove", trainee |-> t] \in Scoring
      BY DEF Scoring
    <2> QED
      BY <1>1, <2>1, MoveKeeps DEF FindForRemoval
  <1>2. ASSUME NEW q \in Scorers, NEW t \in Ranked, NEW points \in Points, SetPoints(q, t, points)
        PROVE  RankingsInv'
    <2>1. [step |-> "find", trainee |-> t, points |-> points] \in Scoring
      BY DEF Scoring
    <2> QED
      BY <1>2, <2>1, MoveKeeps DEF SetPoints
  <1>3. ASSUME NEW q \in Scorers, FindScore(q) PROVE RankingsInv'
    <2> DEFINE s == [scoring[q] EXCEPT !.step =
                        IF Found(score[scoring[q].trainee]) THEN "save" ELSE "insert"]
    <2>1. scoring[q] \in Scoring /\ scoring[q].step = "find"
      BY <1>3, <1>t DEF FindScore
    <2>2. s \in Scoring /\ s.trainee = scoring[q].trainee
      BY <2>1 DEF Scoring, NoScoring
    <2>3. s.step = "insert" => score[s.trainee].state = "none"
      BY <2>1, <2>2 DEF Found, Scoring, NoScoring
    <2>4. scoring' = [scoring EXCEPT ![q] = s] /\ UNCHANGED <<score, disturbed>>
      BY <1>3 DEF FindScore
    <2> HIDE DEF s
    <2> QED
      BY <2>2, <2>3, <2>4, MoveKeeps
  <1>4. ASSUME NEW q \in Scorers, InsertScore(q) PROVE RankingsInv'
    <2>1. scoring[q] \in Scoring /\ scoring[q].step = "insert"
      BY <1>4, <1>t DEF InsertScore
    <2>2. /\ scoring[q].trainee \in Ranked
          /\ [state |-> "live", points |-> scoring[q].points] \in ScoreRow
      BY <2>1, ScoringType DEF ScoreRow
    <2> QED
      BY <1>4, <2>2, ChangeKeeps DEF InsertScore
  <1>5. ASSUME NEW q \in Scorers, SelectScore(q) PROVE RankingsInv'
    <2>1. scoring[q] \in Scoring /\ scoring[q].step = "save"
      BY <1>5, <1>t DEF SelectScore
    <2>2. scoring[q].trainee \in Ranked /\ scoring[q].points \in Points
      BY <2>1, ScoringType
    <2> DEFINE s == [step |-> "write", trainee |-> scoring[q].trainee,
                     base |-> score[scoring[q].trainee],
                     entity |-> [state |-> "live", points |-> scoring[q].points]]
    <2>3. s \in Scoring
      BY <1>t, <2>2 DEF Scoring, ScoreRow
    <2>4. scoring' = [scoring EXCEPT ![q] = s] /\ UNCHANGED <<score, disturbed>>
      BY <1>5 DEF SelectScore
    <2> QED
      BY <2>3, <2>4, MoveKeeps
  <1>6. ASSUME NEW q \in Scorers, WriteScore(q) PROVE RankingsInv'
    <2>1. scoring[q] \in Scoring /\ scoring[q].step = "write"
      BY <1>6, <1>t DEF WriteScore
    <2>2. /\ scoring[q].trainee \in Ranked
          /\ scoring[q].entity \in ScoreRow /\ scoring[q].base \in ScoreRow
      BY <2>1, ScoringType
    <2>3. Written(scoring[q].entity, scoring[q].base, score[scoring[q].trainee]) \in ScoreRow
      BY <1>t, <2>2 DEF Written, ScoreRow
    <2> QED
      BY <1>6, <2>2, <2>3, ChangeKeeps DEF WriteScore
  <1>7. ASSUME NEW q \in Scorers, RemoveScore(q) PROVE RankingsInv'
    <2>1. scoring[q] \in Scoring /\ scoring[q].step = "remove"
      BY <1>7, <1>t DEF RemoveScore
    <2>2. scoring[q].trainee \in Ranked
      BY <2>1, ScoringType
    <2>3. [score[scoring[q].trainee] EXCEPT !.state = "removed"] \in ScoreRow
      BY <1>t, <2>2 DEF ScoreRow
    <2> QED
      BY <1>7, <2>2, <2>3, ChangeKeeps DEF RemoveScore
  <1>8. ASSUME NEW q \in Scorers, FailScoring(q) PROVE RankingsInv'
    BY <1>0, <1>8, MoveKeeps DEF FailScoring, Idle
  <1>9. CASE UNCHANGED rankingVars
    BY <1>9 DEF rankingVars, RankingsInv, RankingsTypeOK, ScoreRowFound
  <1> QED
    BY <1>1, <1>2, <1>3, <1>4, <1>5, <1>6, <1>7, <1>8, <1>9 DEF RankingsNext

(* Only a request that another one has overtaken is refused by the index   *)
(* when it sets points (rankings update).                                  *)
THEOREM ScoreRowsAreFound == RankingsSpec => [](RankingsTypeOK /\ ScoreRowFound)
  BY RankingsInvInit, RankingsInvNext, PTL DEF RankingsSpec, RankingsInv

-----------------------------------------------------------------------------
(* Tenants: a request that no other one has raced still finds its address  *)
(* free when it writes.                                                    *)
StillFree ==
    \A q \in Registrars :
        (registrar[q].step # "idle" /\ registrar[q].raced = "no" /\ registrar[q].address # NoAddress)
            => ~InUse(registrar[q].address, registrar[q].academy)

UpdatesExisting ==
    \A q \in Registrars : registrar[q].step = "update" => Exists(registrar[q].academy)

TenantsInv == TenantsTypeOK /\ AddressesApart /\ StillFree /\ UpdatesExisting

LEMMA TenantsInvInit == TenantsInit => TenantsInv
  BY DEF TenantsInit, TenantsInv, TenantsTypeOK, AddressesApart, StillFree, UpdatesExisting, Exists,
     AcademyRow, Registrar, NoRegistrar

LEMMA RegistrarType ==
    ASSUME NEW r \in Registrar
    PROVE  /\ r.step \in {"idle", "create", "update"}
           /\ r.step # "idle" => /\ r.academy \in Academies
                                 /\ r.address \in Addresses \cup {NoAddress}
                                 /\ r.raced \in {"yes", "no"}
                                 /\ [r EXCEPT !.raced = "yes"] \in Registrar
                                 /\ [r EXCEPT !.raced = "yes"].step = r.step
                                 /\ [r EXCEPT !.raced = "yes"].academy = r.academy
                                 /\ [r EXCEPT !.raced = "yes"].raced = "yes"
  BY DEF Registrar, NoRegistrar

(* What a write makes of the other requests. *)
LEMMA NoticedKeeps ==
    ASSUME registrar \in [Registrars -> Registrar], NEW a, NEW address, NEW q,
           NEW p \in Registrars, NEW r, r = Noticed(a, address, q)[p]
    PROVE  /\ r \in Registrar
           /\ r.step = registrar[p].step
           /\ r.step # "idle" => r.academy = registrar[p].academy
           /\ (r.step # "idle" /\ r.raced = "no") =>
                 /\ r = registrar[p]
                 /\ p = q \/ r.address # address \/ r.academy = a
  <1>2. registrar[p] \in Registrar
    OBVIOUS
  <1>3. CASE /\ p # q /\ registrar[p].step \in {"create", "update"}
             /\ registrar[p].address = address /\ registrar[p].academy # a
    <2>1. r = [registrar[p] EXCEPT !.raced = "yes"]
      BY <1>3 DEF Noticed
    <2>2. registrar[p].step # "idle"
      BY <1>3
    <2>3. r.raced = "yes" /\ r \in Registrar /\ r.step = registrar[p].step
          /\ r.academy = registrar[p].academy
      BY <1>2, <2>1, <2>2, RegistrarType
    <2> QED
      BY <2>3
  <1>4. CASE ~(/\ p # q /\ registrar[p].step \in {"create", "update"}
               /\ registrar[p].address = address /\ registrar[p].academy # a)
    <2>1. r = registrar[p]
      BY <1>4 DEF Noticed
    <2>2. registrar[p].step \in {"idle", "create", "update"}
      BY <1>2, RegistrarType
    <2> QED
      BY <1>2, <1>4, <2>1, <2>2
  <1> QED
    BY <1>3, <1>4

(* One academy gets a row, with this address, and the others are told. *)
LEMMA AddressWritten ==
    ASSUME TenantsInv, NEW a \in Academies, NEW row \in AcademyRow, NEW q,
           row.state # "none",
           academy' = [academy EXCEPT ![a] = row],
           \/ row.address = academy[a].address /\ Exists(a)
              /\ (\A p \in Registrars \ {q} : registrar'[p] = Noticed(a, NoAddress, q)[p])
           \/ /\ \A p \in Registrars \ {q} : registrar'[p] = Noticed(a, row.address, q)[p]
              /\ a \in unchecked' \/ row.address = NoAddress \/ ~InUse(row.address, a),
           registrar' \in [Registrars -> Registrar],
           \A p \in Registrars : p = q => registrar'[p] = NoRegistrar,
           unchecked' \in SUBSET Academies, unchecked \subseteq unchecked'
    PROVE  TenantsInv'
  <1> USE DEF TenantsInv
  <1>t. /\ academy \in [Academies -> AcademyRow] /\ registrar \in [Registrars -> Registrar]
        /\ academy' \in [Academies -> AcademyRow]
        /\ academy'[a] = row /\ \A b \in Academies \ {a} : academy'[b] = academy[b]
    BY DEF TenantsTypeOK
  <1>1. TenantsTypeOK'
    BY <1>t DEF TenantsTypeOK
  <1>2. AddressesApart'
    BY <1>t DEF AddressesApart, Exists, InUse
  <1>3. ASSUME NEW p \in Registrars, registrar'[p].step # "idle"
        PROVE  /\ registrar'[p].step = registrar[p].step
               /\ registrar'[p].academy = registrar[p].academy
               /\ registrar'[p].raced = "no" =>
                     /\ registrar'[p] = registrar[p]
                     /\ \/ row.address = academy[a].address /\ Exists(a)
                        \/ registrar[p].address # row.address
                        \/ registrar[p].academy = a
               /\ registrar[p].academy \in Academies
    <2>1. p # q
      BY <1>3 DEF NoRegistrar
    <2>2. PICK address : registrar'[p] = Noticed(a, address, q)[p]
                         /\ ((row.address = academy[a].address /\ Exists(a)) \/ address = row.address)
      BY <2>1
    <2>3. registrar'[p].step = registrar[p].step /\ registrar'[p].academy = registrar[p].academy
      BY <1>3, <1>t, <2>2, NoticedKeeps
    <2>4. registrar'[p].raced = "no" =>
             /\ registrar'[p] = registrar[p]
             /\ registrar[p].address # address \/ registrar[p].academy = a
      BY <1>3, <1>t, <2>1, <2>2, NoticedKeeps
    <2>5. registrar[p].academy \in Academies
      BY <1>3, <1>t, <2>3, RegistrarType
    <2> QED
      BY <2>2, <2>3, <2>4, <2>5
  <1>4. StillFree'
    <2> SUFFICES ASSUME NEW p \in Registrars, registrar'[p].step # "idle",
                        registrar'[p].raced = "no", registrar'[p].address # NoAddress,
                        NEW b \in Academies \ {registrar'[p].academy}, Exists(b)',
                        academy'[b].address = registrar'[p].address
                 PROVE  FALSE
      BY DEF StillFree, InUse
    <2>1. ~InUse(registrar[p].address, registrar[p].academy)
      BY <1>3 DEF StillFree
    <2>2. b = a
      BY <1>3, <1>t, <2>1 DEF InUse, Exists
    <2>3. row.address = academy[a].address /\ Exists(a)
      BY <1>3, <1>t, <2>2
    <2> QED
      BY <1>3, <1>t, <2>1, <2>2, <2>3 DEF InUse
  <1>5. UpdatesExisting'
    BY <1>3, <1>t DEF UpdatesExisting, Exists
  <1> QED
    BY <1>1, <1>2, <1>4, <1>5

LEMMA TenantsInvNext == TenantsInv /\ [TenantsNext]_tenantVars => TenantsInv'
  <1> SUFFICES ASSUME TenantsInv, [TenantsNext]_tenantVars PROVE TenantsInv'
    OBVIOUS
  <1>0. NoRegistrar \in Registrar /\ NoRegistrar.step = "idle"
    BY DEF Registrar, NoRegistrar
  <1>t. /\ academy \in [Academies -> AcademyRow] /\ registrar \in [Registrars -> Registrar]
        /\ unchecked \in SUBSET Academies
    BY DEF TenantsInv, TenantsTypeOK
  <1>n. \A a, address, q : Noticed(a, address, q) \in [Registrars -> Registrar]
    <2> SUFFICES ASSUME NEW a, NEW address, NEW q
                 PROVE  Noticed(a, address, q) \in [Registrars -> Registrar]
      OBVIOUS
    <2>1. \A p \in Registrars : Noticed(a, address, q)[p] \in Registrar
      BY <1>t, NoticedKeeps
    <2> QED
      BY <2>1 DEF Noticed
  <1>1. ASSUME NEW a \in Academies, NEW address \in Addresses \cup {NoAddress},
               SaveAcademy(a, address)
        PROVE  TenantsInv'
    <2> DEFINE row == [[academy[a] EXCEPT !.state = "live"] EXCEPT !.address = address]
    <2>1. row \in AcademyRow /\ row.state = "live" /\ row.address = address
      BY <1>t DEF AcademyRow
    <2>2. academy' = [academy EXCEPT ![a] = row]
      BY <1>1, <1>t DEF SaveAcademy
    <2>3. registrar' = Noticed(a, address, "none") /\ unchecked' = unchecked \cup {a}
      BY <1>1 DEF SaveAcademy
    <2>4. /\ \A p \in Registrars \ {"none"} : registrar'[p] = Noticed(a, row.address, "none")[p]
          /\ \A p \in Registrars : p = "none" => registrar'[p] = NoRegistrar
          /\ registrar' \in [Registrars -> Registrar]
      BY <1>n, <2>1, <2>3, TenantsAssumption
    <2>5. unchecked' \in SUBSET Academies /\ unchecked \subseteq unchecked' /\ a \in unchecked'
          /\ row.state # "none"
      BY <1>t, <2>1, <2>3
    <2> HIDE DEF row
    <2> QED
      BY <2>1, <2>2, <2>4, <2>5, AddressWritten
  <1>2. ASSUME NEW a \in Academies, NEW address \in Addresses \cup {NoAddress},
               NEW q \in Registrars, NEW step \in {"create", "update"},
               CheckAcademy(q, step, a, address)
        PROVE  TenantsInv'
    <2> DEFINE o == [step |-> step, academy |-> a, address |-> address, raced |-> "no"]
    <2>1. o \in Registrar /\ registrar' = [registrar EXCEPT ![q] = o] /\ UNCHANGED <<academy, unchecked>>
      BY <1>2 DEF CheckAcademy, Registrar
    <2>2. (address # NoAddress => ~InUse(address, a)) /\ (step = "update" => Exists(a))
      BY <1>2 DEF CheckAcademy
    <2>3. \A p \in Registrars : registrar'[p] = IF p = q THEN o ELSE registrar[p]
      BY <1>t, <2>1
    <2>4. TenantsTypeOK' /\ AddressesApart'
      BY <1>t, <2>1 DEF TenantsInv, TenantsTypeOK, AddressesApart, Exists
    <2>5. StillFree' /\ UpdatesExisting'
      BY <2>1, <2>2, <2>3 DEF TenantsInv, StillFree, UpdatesExisting, Exists, InUse
    <2> QED
      BY <2>4, <2>5 DEF TenantsInv
  <1>3. ASSUME NEW a \in Academies, RemoveAcademy(a) PROVE TenantsInv'
    <2>1. \A b \in Academies : (Exists(b)' <=> Exists(b)) /\ academy'[b].address = academy[b].address
      BY <1>3, <1>t DEF RemoveAcademy, Exists, AcademyRow
    <2>2. TenantsTypeOK' /\ UNCHANGED <<registrar, unchecked>>
      BY <1>3, <1>t DEF RemoveAcademy, TenantsTypeOK, AcademyRow
    <2>3. \A q \in Registrars : registrar[q].step # "idle" => registrar[q].academy \in Academies
      BY <1>t, RegistrarType
    <2> QED
      BY <2>1, <2>2, <2>3 DEF TenantsInv, AddressesApart, StillFree, UpdatesExisting, InUse
  <1>4. ASSUME NEW q \in Registrars, CreateAcademy(q) PROVE TenantsInv'
    <2> DEFINE o == registrar[q]
               row == [state |-> "live", address |-> o.address]
    <2>1. o \in Registrar /\ o.step = "create"
      BY <1>4, <1>t DEF CreateAcademy
    <2>2. o.academy \in Academies /\ row \in AcademyRow /\ o.raced \in {"yes", "no"}
      BY <2>1, RegistrarType DEF AcademyRow
    <2>3. /\ academy' = [academy EXCEPT ![o.academy] = row]
          /\ unchecked' = IF o.raced = "yes" THEN unchecked \cup {o.academy} ELSE unchecked
          /\ registrar' = [Noticed(o.academy, row.address, q) EXCEPT ![q] = NoRegistrar]
      BY <1>4 DEF CreateAcademy
    <2>4. row.address = NoAddress \/ o.raced = "yes" \/ ~InUse(row.address, o.academy)
      BY <2>1, <2>2 DEF TenantsInv, StillFree
    <2>5. registrar' \in [Registrars -> Registrar] /\ registrar'[q] = NoRegistrar
          /\ \A p \in Registrars \ {q} : registrar'[p] = Noticed(o.academy, row.address, q)[p]
      BY <1>0, <1>n, <2>3
    <2>6. row.state # "none"
      OBVIOUS
    <2> HIDE DEF row, o
    <2> QED
      BY <1>t, <2>2, <2>3, <2>4, <2>5, <2>6, AddressWritten, ZenonT(60)
  <1>5. ASSUME NEW q \in Registrars, UpdateAcademy(q) PROVE TenantsInv'
    <2> DEFINE o == registrar[q]
               row == [academy[o.academy] EXCEPT !.address =
                          IF o.address = NoAddress THEN academy[o.academy].address ELSE o.address]
    <2>1. o \in Registrar /\ o.step = "update"
      BY <1>5, <1>t DEF UpdateAcademy
    <2>2. /\ o.academy \in Academies /\ o.raced \in {"yes", "no"}
          /\ o.address \in Addresses \cup {NoAddress}
      BY <2>1, RegistrarType
    <2>3. row \in AcademyRow /\ row.state = academy[o.academy].state
          /\ row.address = IF o.address = NoAddress THEN academy[o.academy].address ELSE o.address
      BY <1>t, <2>2 DEF AcademyRow
    <2>4. Exists(o.academy)
      BY <2>1 DEF TenantsInv, UpdatesExisting
    <2>5. /\ academy' = [academy EXCEPT ![o.academy] = row]
          /\ unchecked' = IF o.raced = "yes" THEN unchecked \cup {o.academy} ELSE unchecked
          /\ registrar' = [Noticed(o.academy, o.address, q) EXCEPT ![q] = NoRegistrar]
      BY <1>5, <1>t, <2>2 DEF UpdateAcademy
    <2>6. o.address = NoAddress \/ o.raced = "yes" \/ ~InUse(o.address, o.academy)
      BY <2>1, <2>2 DEF TenantsInv, StillFree
    <2>7. registrar' \in [Registrars -> Registrar] /\ registrar'[q] = NoRegistrar
          /\ \A p \in Registrars \ {q} : registrar'[p] = Noticed(o.academy, o.address, q)[p]
      BY <1>0, <1>n, <2>5
    <2>8. row.state # "none"
      BY <2>3, <2>4 DEF Exists
    <2> HIDE DEF row, o
    <2>u. /\ unchecked' \in SUBSET Academies /\ unchecked \subseteq unchecked'
          /\ o.raced = "yes" => o.academy \in unchecked'
          /\ \A p \in Registrars : p = q => registrar'[p] = NoRegistrar
          /\ academy' = [academy EXCEPT ![o.academy] = row]
      BY <1>t, <2>2, <2>5, <2>7
    <2>9. CASE o.address = NoAddress
      <3>1. /\ row.address = academy[o.academy].address
            /\ \A p \in Registrars \ {q} : registrar'[p] = Noticed(o.academy, NoAddress, q)[p]
        BY <2>3, <2>7, <2>9
      <3> QED
        BY <2>2, <2>3, <2>4, <2>7, <2>8, <2>u, <3>1, AddressWritten, ZenonT(60)
    <2>10. CASE o.address # NoAddress
      <3>1. /\ row.address = o.address
            /\ \A p \in Registrars \ {q} : registrar'[p] = Noticed(o.academy, row.address, q)[p]
            /\ o.academy \in unchecked' \/ row.address = NoAddress \/ ~InUse(row.address, o.academy)
        BY <2>3, <2>6, <2>7, <2>10, <2>u
      <3>2. TenantsInv /\ registrar' \in [Registrars -> Registrar]
        BY <2>7
      <3> HIDE DEF InUse, Exists, TenantsInv
      <3> QED
        BY <2>2, <2>3, <2>7, <2>8, <2>u, <3>1, AddressWritten, ZenonT(60)
    <2> QED
      BY <2>9, <2>10
  <1>6. ASSUME NEW q \in Registrars, GiveUpAcademy(q) PROVE TenantsInv'
    <2>1. registrar' = [registrar EXCEPT ![q] = NoRegistrar] /\ UNCHANGED <<academy, unchecked>>
      BY <1>6 DEF GiveUpAcademy
    <2>2. TenantsTypeOK'
      BY <1>0, <1>t, <2>1 DEF TenantsTypeOK
    <2>3. \A p \in Registrars : registrar'[p] = IF p = q THEN NoRegistrar ELSE registrar[p]
      BY <1>t, <2>1
    <2> QED
      BY <1>0, <2>1, <2>2, <2>3
         DEF TenantsInv, AddressesApart, StillFree, UpdatesExisting, Exists, InUse
  <1>7. CASE UNCHANGED tenantVars
    BY <1>7 DEF tenantVars, TenantsInv, TenantsTypeOK, AddressesApart, StillFree, UpdatesExisting,
       Exists, InUse
  <1> QED
    BY <1>1, <1>2, <1>3, <1>4, <1>5, <1>6, <1>7 DEF TenantsNext

(* Academies share an address only after a write that did not look or that *)
(* another one raced (createAcademy, updateAcademy).                       *)
THEOREM TenantsApart == TenantsSpec => [](TenantsTypeOK /\ AddressesApart)
  BY TenantsInvInit, TenantsInvNext, PTL DEF TenantsSpec, TenantsInv

-----------------------------------------------------------------------------
(* Provisioning: the branch createManager has read stays a branch of the   *)
(* academy.                                                                *)
OfficeRead ==
    \A q \in Operators :
        (operator[q].step = "manager" /\ operator[q].office # "new")
            => operator[q].office \in OfficesOf(operator[q].academy)

ProvisioningInv == ProvisioningTypeOK /\ AccountsComplete /\ OfficeRead

LEMMA ProvisioningInvInit == ProvisioningInit => ProvisioningInv
  BY DEF ProvisioningInit, ProvisioningInv, ProvisioningTypeOK, AccountsComplete, OfficeRead,
     OfficeRow, Membership, Operator, NoOperator

LEMMA OperatorType ==
    ASSUME NEW o \in Operator, o.step = "manager"
    PROVE  o.academy \in Tenant /\ o.user \in Staff /\ o.office \in Offices \cup {"new"}
  BY DEF Operator, NoOperator

LEMMA OfficeRowType ==
    ASSUME NEW r \in OfficeRow
    PROVE  /\ [r EXCEPT !.state = "removed"].state = "removed" \/ r.state = "none"
           /\ r.state # "none" => /\ [r EXCEPT !.state = "removed"] \in OfficeRow
                                  /\ [r EXCEPT !.state = "removed"].academy = r.academy
                                  /\ [r EXCEPT !.state = "removed"].state = "removed"
                                  /\ r.academy \in Tenant
  BY DEF OfficeRow, NoOffice

(* A new row, or a removed one, takes no branch from any academy. *)
LEMMA OfficeWritten ==
    ASSUME ProvisioningTypeOK, NEW b \in Offices, NEW row \in OfficeRow,
           office' = [office EXCEPT ![b] = row],
           \/ office[b].state = "none"
           \/ row.state # "none" /\ row.academy = office[b].academy
    PROVE  /\ office' \in [Offices -> OfficeRow] /\ office'[b] = row
           /\ \A a : OfficesOf(a) \subseteq OfficesOf(a)'
  BY DEF ProvisioningTypeOK, OfficesOf

LEMMA OfficesKeep ==
    ASSUME ProvisioningInv, office' \in [Offices -> OfficeRow],
           \A a : OfficesOf(a) \subseteq OfficesOf(a)', UNCHANGED <<staff, membership, operator>>
    PROVE  ProvisioningInv'
  BY DEF ProvisioningInv, ProvisioningTypeOK, AccountsComplete, OfficeRead

(* Somebody gets an account and a membership. *)
LEMMA AccountWritten ==
    ASSUME ProvisioningInv, office' \in [Offices -> OfficeRow],
           \A a : OfficesOf(a) \subseteq OfficesOf(a)',
           NEW u \in Staff, NEW a \in Tenant \cup {Nobody}, NEW b \in Offices \cup {Nobody},
           a # Nobody /\ b # Nobody => b \in OfficesOf(a)',
           staff' = staff \cup {u},
           membership' = [membership EXCEPT ![u] = MemberOf(a, b)]
    PROVE  AccountsComplete' /\ staff' \subseteq Staff /\ membership' \in [Staff -> Membership]
  <1> DEFINE row == MemberOf(a, b)
  <1>1. row \in Membership /\ row # NoMembership /\ row.academy = a /\ row.office = b
    <2>1. row.state # NoMembership.state
      BY DEF NoMembership, MemberOf
    <2> QED
      BY <2>1 DEF Membership, MemberOf
  <1> HIDE DEF row
  <1>2. membership' = [membership EXCEPT ![u] = row]
    BY DEF row
  <1> QED
    BY <1>1, <1>2 DEF ProvisioningInv, ProvisioningTypeOK, AccountsComplete

LEMMA OperatorIdle ==
    ASSUME ProvisioningInv, NEW q \in Operators, operator' = [operator EXCEPT ![q] = NoOperator],
           \A a : OfficesOf(a) \subseteq OfficesOf(a)'
    PROVE  operator' \in [Operators -> Operator] /\ OfficeRead'
  <1>1. NoOperator \in Operator /\ NoOperator.step = "idle"
    BY DEF Operator, NoOperator
  <1> QED
    BY <1>1 DEF ProvisioningInv, ProvisioningTypeOK, OfficeRead

LEMMA ProvisioningInvNext == ProvisioningInv /\ [ProvisioningNext]_provisioningVars => ProvisioningInv'
  <1> SUFFICES ASSUME ProvisioningInv, [ProvisioningNext]_provisioningVars PROVE ProvisioningInv'
    OBVIOUS
  <1>t. /\ ProvisioningTypeOK /\ office \in [Offices -> OfficeRow]
        /\ operator \in [Operators -> Operator] /\ staff \subseteq Staff
    BY DEF ProvisioningInv, ProvisioningTypeOK
  <1>1. ASSUME NEW b \in Offices, NEW a \in Tenant, CreateBranch(b, a) \/ EnsureMainBranch(b, a)
        PROVE  ProvisioningInv'
    <2>1. PICK main \in {"yes", "no"} :
             /\ office' = [office EXCEPT ![b] = [state |-> "live", academy |-> a, main |-> main]]
             /\ office[b].state = "none" /\ UNCHANGED <<staff, membership, operator>>
      BY <1>1 DEF CreateBranch, EnsureMainBranch
    <2>2. [state |-> "live", academy |-> a, main |-> main] \in OfficeRow
      BY DEF OfficeRow
    <2> QED
      BY <1>t, <2>1, <2>2, OfficeWritten, OfficesKeep
  <1>2. ASSUME NEW b \in Offices, RemoveBranch(b) PROVE ProvisioningInv'
    <2> DEFINE row == [office[b] EXCEPT !.state = "removed"]
    <2>1. office' = [office EXCEPT ![b] = row] /\ office[b].state # "none"
          /\ UNCHANGED <<staff, membership, operator>>
      BY <1>2 DEF RemoveBranch
    <2>2. row \in OfficeRow /\ row.state # "none" /\ row.academy = office[b].academy
      BY <1>t, <2>1, OfficeRowType
    <2> HIDE DEF row
    <2> QED
      BY <1>t, <2>1, <2>2, OfficeWritten, OfficesKeep
  <1>3. ASSUME NEW u \in Staff, NEW a \in Tenant \cup {Nobody}, NEW b \in Offices \cup {Nobody},
               CreateUser(u, a, b)
        PROVE  ProvisioningInv'
    <2>1. /\ staff' = staff \cup {u} /\ office' = office /\ operator' = operator
          /\ membership' = [membership EXCEPT ![u] = MemberOf(a, b)]
          /\ b # Nobody => office[b].state = "live" /\ a \in {Nobody, office[b].academy}
      BY <1>3 DEF CreateUser
    <2>4. a # Nobody /\ b # Nobody => b \in OfficesOf(a)
      BY <2>1 DEF OfficesOf
    <2>2. \A x : OfficesOf(x)' = OfficesOf(x)
      BY <2>1 DEF OfficesOf
    <2>3. AccountsComplete' /\ staff' \subseteq Staff /\ membership' \in [Staff -> Membership]
      BY <1>t, <2>1, <2>2, <2>4, AccountWritten
    <2> QED
      BY <1>t, <2>1, <2>2, <2>3 DEF ProvisioningInv, ProvisioningTypeOK, OfficeRead
  <1>4. ASSUME NEW u \in Staff, NEW a \in Tenant, NEW q \in Operators, ReadForManager(q, a, u)
        PROVE  ProvisioningInv'
    <2>1. PICK b \in IF OfficesOf(a) = {} THEN {"new"} ELSE OfficesOf(a) :
             operator' = [operator EXCEPT ![q] = [step |-> "manager", academy |-> a, user |-> u,
                                                  office |-> b]]
      BY <1>4 DEF ReadForManager
    <2> DEFINE o == [step |-> "manager", academy |-> a, user |-> u, office |-> b]
    <2>2. UNCHANGED <<office, staff, membership>>
      BY <1>4 DEF ReadForManager
    <2>3. o \in Operator /\ (b # "new" => b \in OfficesOf(a))
      BY <2>1 DEF Operator, OfficesOf
    <2>4. \A p \in Operators : operator'[p] = IF p = q THEN o ELSE operator[p]
      BY <1>t, <2>1
    <2>5. ProvisioningTypeOK'
      BY <1>t, <2>1, <2>2, <2>3 DEF ProvisioningTypeOK
    <2>6. OfficeRead'
      BY <2>2, <2>3, <2>4 DEF ProvisioningInv, OfficeRead, OfficesOf
    <2> QED
      BY <2>2, <2>5, <2>6 DEF ProvisioningInv, AccountsComplete, OfficesOf
  <1>5. ASSUME NEW q \in Operators, NEW b \in Offices, InsertManager(q, b) PROVE ProvisioningInv'
    <2> DEFINE o == operator[q]
    <2>1. /\ o.academy \in Tenant /\ o.user \in Staff /\ o.office \in Offices \cup {"new"}
          /\ o.step = "manager"
      BY <1>5, <1>t, OperatorType DEF InsertManager
    <2>2. /\ staff' = staff \cup {o.user}
          /\ membership' = [membership EXCEPT ![o.user] = MemberOf(o.academy, b)]
          /\ operator' = [operator EXCEPT ![q] = NoOperator]
      BY <1>5 DEF InsertManager
    <2>c. PICK c \in Tenant : c = o.academy
      BY <2>1
    <2>3. /\ office' \in [Offices -> OfficeRow]
          /\ \A a : OfficesOf(a) \subseteq OfficesOf(a)'
          /\ b \in OfficesOf(c)'
      <3>1. CASE o.office = "new"
        <4> DEFINE row == [state |-> "live", academy |-> c, main |-> "yes"]
        <4>1. office[b].state = "none" /\ office' = [office EXCEPT ![b] = row]
          BY <1>5, <2>c, <3>1 DEF InsertManager
        <4>2. row \in OfficeRow /\ row.state = "live" /\ row.academy = c
          BY DEF OfficeRow
        <4> HIDE DEF row
        <4>3. /\ office' \in [Offices -> OfficeRow] /\ office'[b] = row
              /\ \A a : OfficesOf(a) \subseteq OfficesOf(a)'
          BY <1>t, <4>1, <4>2, OfficeWritten
        <4>4. b \in OfficesOf(c)'
          BY <4>2, <4>3 DEF OfficesOf
        <4> QED
          BY <4>3, <4>4
      <3>2. CASE o.office # "new"
        <4>1. b = o.office /\ office' = office
          BY <1>5, <3>2 DEF InsertManager
        <4>2. b \in OfficesOf(c)
          BY <2>1, <2>c, <3>2, <4>1 DEF ProvisioningInv, OfficeRead
        <4>3. \A x : OfficesOf(x)' = OfficesOf(x)
          BY <4>1 DEF OfficesOf
        <4> QED
          BY <1>t, <4>1, <4>2, <4>3
      <3> QED
        BY <3>1, <3>2
    <2>4. AccountsComplete' /\ staff' \subseteq Staff /\ membership' \in [Staff -> Membership]
      <3>1. membership' = [membership EXCEPT ![o.user] = MemberOf(c, b)]
        BY <2>2, <2>c
      <3>2. c # Nobody /\ b # Nobody => b \in OfficesOf(c)'
        BY <2>3
      <3> HIDE DEF o
      <3> QED
        BY <2>1, <2>2, <2>3, <3>1, <3>2, AccountWritten
    <2>5. operator' \in [Operators -> Operator] /\ OfficeRead'
      BY <2>2, <2>3, OperatorIdle
    <2> QED
      BY <2>3, <2>4, <2>5 DEF ProvisioningInv, ProvisioningTypeOK
  <1>6. ASSUME NEW q \in Operators, GiveUp(q) PROVE ProvisioningInv'
    <2>1. operator' = [operator EXCEPT ![q] = NoOperator] /\ UNCHANGED <<office, staff, membership>>
      BY <1>6 DEF GiveUp
    <2>2. \A x : OfficesOf(x)' = OfficesOf(x)
      BY <2>1 DEF OfficesOf
    <2>3. operator' \in [Operators -> Operator] /\ OfficeRead'
      BY <2>1, <2>2, OperatorIdle
    <2> QED
      BY <2>1, <2>2, <2>3 DEF ProvisioningInv, ProvisioningTypeOK, AccountsComplete
  <1>7. CASE UNCHANGED provisioningVars
    BY <1>7 DEF provisioningVars, ProvisioningInv, ProvisioningTypeOK, AccountsComplete, OfficeRead,
       OfficesOf
  <1> QED
    BY <1>1, <1>2, <1>3, <1>4, <1>5, <1>6, <1>7 DEF ProvisioningNext

(* Every account has a membership, and one of an academy names a branch of *)
(* it or none (createManager, users.create).                               *)
THEOREM NoHalfAccounts == ProvisioningSpec => [](ProvisioningTypeOK /\ AccountsComplete)
  BY ProvisioningInvInit, ProvisioningInvNext, PTL DEF ProvisioningSpec, ProvisioningInv

-----------------------------------------------------------------------------
(* Catalogue: an update writes ages that it has found in order. *)
RowsInOrder ==
    \A q \in Curators :
        curator[q].step \in {"edit", "write"} =>
            ValidateAgeRange(curator[q].row.least, curator[q].row.most)

CatalogueInv == CatalogueTypeOK /\ AgesInOrder /\ RowsInOrder

LEMMA CatalogueInvInit == CatalogueInit => CatalogueInv
  BY CatalogueAssumption
     DEF CatalogueInit, CatalogueInv, CatalogueTypeOK, AgesInOrder, RowsInOrder, ValidateAgeRange,
         EntryRow, Ages, Absent, Curator, NoCurator

LEMMA CuratorType ==
    ASSUME NEW c \in Curator
    PROVE  /\ c.step \in {"edit", "write"} => c.entry \in Entries /\ c.row \in EntryRow
           /\ c.step = "write" => c.base \in EntryRow
  BY DEF Curator, NoCurator

LEMMA WrittenEntry ==
    ASSUME NEW row \in EntryRow, NEW base \in EntryRow, NEW current \in EntryRow
    PROVE  /\ Written(row, base, current) \in EntryRow
           /\ current = base => /\ Written(row, base, current).least = row.least
                                /\ Written(row, base, current).most = row.most
  BY DEF Written, EntryRow

(* A request moves to c, and the rows of everything else stay. *)
LEMMA CuratorMoves ==
    ASSUME CatalogueInv, NEW q \in Curators, NEW c \in Curator,
           c.step \in {"edit", "write"} => ValidateAgeRange(c.row.least, c.row.most),
           curator' = [curator EXCEPT ![q] = c]
    PROVE  curator' \in [Curators -> Curator] /\ RowsInOrder'
  BY DEF CatalogueInv, CatalogueTypeOK, RowsInOrder

LEMMA CatalogueInvNext == CatalogueInv /\ [CatalogueNext]_catalogueVars => CatalogueInv'
  <1> SUFFICES ASSUME CatalogueInv, [CatalogueNext]_catalogueVars PROVE CatalogueInv'
    OBVIOUS
  <1>0. NoCurator \in Curator /\ NoCurator.step = "idle"
    BY DEF Curator, NoCurator
  <1>t. /\ entry \in [Entries -> EntryRow] /\ curator \in [Curators -> Curator]
        /\ slot \in [Slots -> {"none", "live", "removed"}] /\ crossed \subseteq Entries
    BY DEF CatalogueInv, CatalogueTypeOK
  <1>a. ASSUME UNCHANGED <<entry, crossed>> PROVE AgesInOrder'
    BY <1>a DEF CatalogueInv, AgesInOrder
  <1>c. ASSUME UNCHANGED curator PROVE RowsInOrder'
    BY <1>c DEF CatalogueInv, RowsInOrder
  <1>1. ASSUME NEW e \in Entries, NEW least \in Ages, NEW most \in Ages,
               CreateEntry(e, least, most)
        PROVE  CatalogueInv'
    <2>1. [state |-> "live", least |-> least, most |-> most] \in EntryRow
      BY DEF EntryRow
    <2> QED
      BY <1>1, <1>c, <1>t, <2>1 DEF CatalogueInv, CatalogueTypeOK, AgesInOrder, CreateEntry
  <1>2. ASSUME NEW e \in Entries, NEW least \in Ages, NEW most \in Ages, NEW q \in Curators,
               ReadEntry(q, e, least, most)
        PROVE  CatalogueInv'
    <2> DEFINE row == [state |-> "live", least |-> IF least = 0 THEN entry[e].least ELSE least,
                       most |-> IF most = 0 THEN entry[e].most ELSE most]
               c == [step |-> "edit", entry |-> e, row |-> row]
    <2>1. row \in EntryRow /\ ValidateAgeRange(row.least, row.most)
      BY <1>2, <1>t DEF ReadEntry, EntryRow
    <2> HIDE DEF row
    <2>2. c \in Curator /\ c.step = "edit" /\ c.row = row
      BY <2>1 DEF Curator
    <2>3. curator' = [curator EXCEPT ![q] = c] /\ UNCHANGED <<entry, slot, crossed>>
      BY <1>2 DEF ReadEntry, row
    <2> HIDE DEF c
    <2>4. curator' \in [Curators -> Curator] /\ RowsInOrder'
      BY <2>1, <2>2, <2>3, CuratorMoves
    <2> QED
      BY <1>a, <1>t, <2>3, <2>4 DEF CatalogueInv, CatalogueTypeOK
  <1>3. ASSUME NEW e \in Entries, RemoveEntry(e) PROVE CatalogueInv'
    <2>1. /\ [entry[e] EXCEPT !.state = "removed"] \in EntryRow
          /\ [entry[e] EXCEPT !.state = "removed"].least = entry[e].least
          /\ [entry[e] EXCEPT !.state = "removed"].most = entry[e].most
      BY <1>t DEF EntryRow
    <2> QED
      BY <1>3, <1>c, <1>t, <2>1 DEF CatalogueInv, CatalogueTypeOK, AgesInOrder, RemoveEntry
  <1>4. ASSUME NEW s \in Slots, AddSchedule(s) \/ RemoveSchedule(s) PROVE CatalogueInv'
    BY <1>4, <1>a, <1>c, <1>t DEF CatalogueInv, CatalogueTypeOK, AddSchedule, RemoveSchedule
  <1>5. ASSUME NEW q \in Curators, SelectEntry(q) PROVE CatalogueInv'
    <2> DEFINE o == curator[q]
               c == [step |-> "write", entry |-> o.entry, row |-> o.row, base |-> entry[o.entry]]
    <2>1. o \in Curator /\ o.step = "edit"
      BY <1>5, <1>t DEF SelectEntry
    <2>2. /\ o.entry \in Entries /\ o.row \in EntryRow
          /\ ValidateAgeRange(o.row.least, o.row.most)
      BY <2>1, CuratorType DEF CatalogueInv, RowsInOrder
    <2>3. curator' = [curator EXCEPT ![q] = c] /\ UNCHANGED <<entry, slot, crossed>>
      BY <1>5 DEF SelectEntry
    <2> HIDE DEF o
    <2>4. c \in Curator /\ c.row = o.row
      BY <1>t, <2>2 DEF Curator
    <2> HIDE DEF c
    <2>5. curator' \in [Curators -> Curator] /\ RowsInOrder'
      BY <2>2, <2>3, <2>4, CuratorMoves
    <2> QED
      BY <1>a, <1>t, <2>3, <2>5 DEF CatalogueInv, CatalogueTypeOK
  <1>6. ASSUME NEW q \in Curators, WriteEntry(q) PROVE CatalogueInv'
    <2> DEFINE c == curator[q]
               new == Written(c.row, c.base, entry[c.entry])
    <2>1. c \in Curator /\ c.step = "write"
      BY <1>6, <1>t DEF WriteEntry
    <2>2. /\ c.entry \in Entries /\ c.row \in EntryRow /\ c.base \in EntryRow
          /\ ValidateAgeRange(c.row.least, c.row.most)
      BY <2>1, CuratorType DEF CatalogueInv, RowsInOrder
    <2>3. /\ entry' = [entry EXCEPT ![c.entry] = new]
          /\ crossed' = IF entry[c.entry] # c.base THEN crossed \cup {c.entry} ELSE crossed
          /\ curator' = [curator EXCEPT ![q] = NoCurator] /\ slot' = slot
      BY <1>6 DEF WriteEntry
    <2>4. /\ new \in EntryRow
          /\ entry[c.entry] = c.base => new.least = c.row.least /\ new.most = c.row.most
      BY <1>t, <2>2, WrittenEntry
    <2>5. curator' \in [Curators -> Curator] /\ RowsInOrder'
      BY <1>0, <2>3, CuratorMoves
    <2> HIDE DEF c, new
    <2>6. AgesInOrder'
      BY <1>t, <2>2, <2>3, <2>4 DEF CatalogueInv, AgesInOrder
    <2> QED
      BY <1>t, <2>2, <2>3, <2>4, <2>5, <2>6 DEF CatalogueInv, CatalogueTypeOK
  <1>7. ASSUME NEW q \in Curators, ReadGroup(q) \/ SaveGroup(q) \/ DropCurator(q)
        PROVE  CatalogueInv'
    <2>1. PICK c \in Curator : /\ c.step \in {"idle", "group"}
                               /\ curator' = [curator EXCEPT ![q] = c]
                               /\ UNCHANGED <<entry, slot, crossed>>
      <3>1. [step |-> "group", known |-> {s \in Slots : slot[s] = "live"}] \in Curator
        BY DEF Curator
      <3> QED
        BY <1>0, <1>7, <3>1 DEF ReadGroup, SaveGroup, DropCurator
    <2>2. curator' \in [Curators -> Curator] /\ RowsInOrder'
      BY <2>1, CuratorMoves
    <2> QED
      BY <1>a, <1>t, <2>1, <2>2 DEF CatalogueInv, CatalogueTypeOK
  <1>8. CASE UNCHANGED catalogueVars
    BY <1>8 DEF catalogueVars, CatalogueInv, CatalogueTypeOK, AgesInOrder, RowsInOrder
  <1> QED
    BY <1>1, <1>2, <1>3, <1>4, <1>5, <1>6, <1>7, <1>8 DEF CatalogueNext

(* The ages of a sport or a program stay in order whatever updates         *)
(* overlap, but for a row changed between the two statements of one save   *)
(* (update).                                                               *)
THEOREM AgesStayInOrder == CatalogueSpec => [](CatalogueTypeOK /\ AgesInOrder)
  BY CatalogueInvInit, CatalogueInvNext, PTL DEF CatalogueSpec, CatalogueInv

-----------------------------------------------------------------------------
(* Feedback: what a request knows of its message, its attachment and its   *)
(* task, and that a message is submitted once.                             *)
Submits == {"find", "create", "row", "event"}

ClerkKnows(c) ==
    /\ c.step \in {"find", "create", "row"} =>
          /\ message[c.message].status = "none"
          /\ c.file = "yes" <=> c.message \in attached
    /\ c.step = "event" => message[c.message].status # "none"
    /\ c.step \in {"row", "resolve", "close"} => deskTask[c.task] # "none"
    /\ c.step \in {"resolve", "close"} =>
          message[c.message].status # "none" /\ message[c.message].task = c.task

ClerksKnow == \A q \in Clerks : ClerkKnows(clerk[q])

SubmittedOnce ==
    \A p, q \in Clerks :
        (clerk[p].step \in Submits /\ clerk[q].step \in Submits
            /\ clerk[p].message = clerk[q].message) => p = q

TasksExist ==
    \A m \in Messages : message[m].status # "none" => deskTask[message[m].task] # "none"

FeedbackInv ==
    /\ FeedbackTypeOK /\ ClerksKnow /\ SubmittedOnce /\ TasksExist
    /\ AttachmentsMatch /\ ResolvedClosesTask

LEMMA FeedbackInvInit == FeedbackInit => FeedbackInv
  BY DEF FeedbackInit, FeedbackInv, FeedbackTypeOK, ClerksKnow, ClerkKnows, SubmittedOnce, Submits,
     TasksExist, AttachmentsMatch, ResolvedClosesTask, Message, NoMessage, Clerk, NoClerk

LEMMA ClerkType ==
    ASSUME NEW c \in Clerk
    PROVE  /\ c.step \in {"idle", "find", "create", "row", "event", "resolve", "close"}
           /\ c.step # "idle" => c.message \in Messages
           /\ c.step \in Submits => c.file \in {"yes", "no"}
           /\ c.step \in {"row", "resolve", "close"} => c.task \in MessageTasks
  BY DEF Clerk, NoClerk, Submits

LEMMA ClerkNext ==
    ASSUME NEW c \in Clerk
    PROVE  /\ c.step = "find" => /\ [c EXCEPT !.step = "create"] \in Clerk
                                 /\ [c EXCEPT !.step = "create"].step = "create"
                                 /\ [c EXCEPT !.step = "create"].message = c.message
                                 /\ [c EXCEPT !.step = "create"].file = c.file
           /\ c.step = "resolve" => /\ [c EXCEPT !.step = "close"] \in Clerk
                                    /\ [c EXCEPT !.step = "close"].step = "close"
                                    /\ [c EXCEPT !.step = "close"].message = c.message
                                    /\ [c EXCEPT !.step = "close"].task = c.task
  BY DEF Clerk, NoClerk

LEMMA MessageType ==
    ASSUME NEW m \in Message
    PROVE  /\ m.status \in {"none", "OPEN", "RESOLVED"}
           /\ m.status # "none" =>
                 /\ m.task \in MessageTasks /\ m.file \in {"yes", "no"}
                 /\ [m EXCEPT !.status = "RESOLVED"] \in Message
                 /\ [m EXCEPT !.status = "RESOLVED"].status = "RESOLVED"
                 /\ [m EXCEPT !.status = "RESOLVED"].task = m.task
                 /\ [m EXCEPT !.status = "RESOLVED"].file = m.file
  BY DEF Message, NoMessage

LEMMA FeedbackTypes ==
    ASSUME FeedbackInv
    PROVE  /\ message \in [Messages -> Message] /\ clerk \in [Clerks -> Clerk]
           /\ deskTask \in [MessageTasks -> {"none", "open", "closed"}]
           /\ attached \subseteq Messages /\ reopened \subseteq MessageTasks /\ cut \subseteq Messages
  BY DEF FeedbackInv, FeedbackTypeOK

(* A request goes on with its own message, or ends, and no message and no  *)
(* attachment changes.                                                     *)
LEMMA ClerkGoesOn ==
    ASSUME FeedbackInv, NEW q \in Clerks, NEW c \in Clerk,
           clerk' = [clerk EXCEPT ![q] = c], UNCHANGED <<message, attached, reopened>>,
           deskTask' \in [MessageTasks -> {"none", "open", "closed"}],
           \A k \in MessageTasks : deskTask[k] # "none" => deskTask'[k] # "none",
           cut \subseteq cut', cut' \subseteq Messages,
           c.step \in Submits => clerk[q].step \in Submits /\ c.message = clerk[q].message,
           ClerkKnows(c)',
           clerk[q].step \in Submits =>
              \/ c.step \in Submits
              \/ clerk[q].message \in cut' \/ message[clerk[q].message].status # "none"
    PROVE  FeedbackTypeOK' /\ ClerksKnow' /\ SubmittedOnce' /\ TasksExist' /\ AttachmentsMatch'
  <1>t. /\ message \in [Messages -> Message] /\ clerk \in [Clerks -> Clerk]
        /\ deskTask \in [MessageTasks -> {"none", "open", "closed"}]
        /\ attached \subseteq Messages /\ reopened \subseteq MessageTasks /\ cut \subseteq Messages
    BY FeedbackTypes
  <1>1. FeedbackTypeOK'
    BY <1>t DEF FeedbackTypeOK
  <1>2. \A p \in Clerks : clerk'[p] = IF p = q THEN c ELSE clerk[p]
    BY <1>t
  <1>3. ClerksKnow'
    <2>1. ASSUME NEW p \in Clerks, p # q PROVE ClerkKnows(clerk[p])'
      <3>1. ClerkKnows(clerk[p]) /\ clerk'[p] = clerk[p] /\ clerk[p] \in Clerk
        BY <1>2, <1>t, <2>1 DEF FeedbackInv, ClerksKnow
      <3> QED
        BY <3>1, ClerkType DEF ClerkKnows
    <2>2. ClerkKnows(clerk[q])'
      BY <1>2 DEF ClerkKnows
    <2> QED
      BY <2>1, <2>2 DEF ClerksKnow
  <1>4. SubmittedOnce'
    BY <1>2 DEF FeedbackInv, SubmittedOnce
  <1>5. TasksExist'
    <2>1. \A m \in Messages : message[m].status # "none" => message[m].task \in MessageTasks
      BY <1>t, MessageType
    <2> QED
      BY <2>1 DEF FeedbackInv, TasksExist
  <1>6. AttachmentsMatch'
    <2>1. \A m \in Messages : Submitting(m) =>
             Submitting(m)' \/ m \in cut' \/ message[m].status # "none"
      BY <1>2 DEF Submitting, Submits
    <2> QED
      BY <2>1 DEF FeedbackInv, AttachmentsMatch
  <1> QED
    BY <1>1, <1>3, <1>4, <1>5, <1>6

(* Whoever is closing a task goes on doing so. *)
LEMMA ClosersStay ==
    ASSUME FeedbackInv, NEW q \in Clerks, NEW c, clerk' = [clerk EXCEPT ![q] = c],
           clerk[q].step # "close", message' = message,
           \A m \in Messages : (message[m].status = "RESOLVED" /\ deskTask'[message[m].task] = "open")
               => deskTask[message[m].task] = "open",
           reopened' = reopened, cut \subseteq cut'
    PROVE  ResolvedClosesTask'
  <1>1. \A p \in Clerks : p # q => clerk'[p] = clerk[p]
    BY FeedbackTypes
  <1> QED
    BY <1>1 DEF FeedbackInv, ResolvedClosesTask

LEMMA FindTaskKeeps ==
    ASSUME FeedbackInv, NEW q \in Clerks, FindTask(q)
    PROVE  FeedbackInv'
  <1> DEFINE c == clerk[q]
  <1>1. c \in Clerk /\ c.step = "find" /\ ClerkKnows(c)
    BY FeedbackTypes DEF FindTask, FeedbackInv, ClerksKnow
  <1>2. c.message \in Messages /\ c.file \in {"yes", "no"}
    BY <1>1, ClerkType DEF Submits
  <1>3. UNCHANGED <<message, deskTask, attached, reopened, cut>>
    BY DEF FindTask
  <1>4. PICK d \in Clerk : /\ d.step \in {"create", "row"} /\ d.message = c.message /\ d.file = c.file
                           /\ d.step = "row" => deskTask[d.task] # "none"
                           /\ clerk' = [clerk EXCEPT ![q] = d]
    <2>1. CASE OpenTasks = {}
      <3>1. clerk' = [clerk EXCEPT ![q] = [c EXCEPT !.step = "create"]]
        BY <2>1 DEF FindTask
      <3> HIDE DEF c
      <3> QED
        BY <1>1, <3>1, ClerkNext
    <2>2. CASE OpenTasks # {}
      <3>1. PICK k \in OpenTasks :
               clerk' = [clerk EXCEPT ![q] = [step |-> "row", message |-> c.message,
                                              file |-> c.file, task |-> k]]
        BY <2>2 DEF FindTask
      <3>2. [step |-> "row", message |-> c.message, file |-> c.file, task |-> k] \in Clerk
        BY <1>2 DEF Clerk, OpenTasks
      <3>3. deskTask[k] = "open"
        BY DEF OpenTasks
      <3> HIDE DEF c
      <3> QED
        BY <3>1, <3>2, <3>3
    <2> QED
      BY <2>1, <2>2
  <1>5. ClerkKnows(d)'
    BY <1>1, <1>3, <1>4 DEF ClerkKnows
  <1>6. FeedbackTypeOK' /\ ClerksKnow' /\ SubmittedOnce' /\ TasksExist' /\ AttachmentsMatch'
    BY <1>1, <1>3, <1>4, <1>5, ClerkGoesOn, FeedbackTypes DEF Submits
  <1>7. ResolvedClosesTask'
    BY <1>1, <1>3, <1>4, ClosersStay
  <1> QED
    BY <1>6, <1>7 DEF FeedbackInv

LEMMA InsertTaskKeeps ==
    ASSUME FeedbackInv, NEW q \in Clerks, NEW k \in MessageTasks, InsertTask(q, k)
    PROVE  FeedbackInv'
  <1> DEFINE c == clerk[q]
             d == [step |-> "row", message |-> c.message, file |-> c.file, task |-> k]
  <1>1. c \in Clerk /\ c.step = "create" /\ ClerkKnows(c)
    BY FeedbackTypes DEF InsertTask, FeedbackInv, ClerksKnow
  <1>2. c.message \in Messages /\ c.file \in {"yes", "no"}
    BY <1>1, ClerkType DEF Submits
  <1>3. /\ UNCHANGED <<message, attached, reopened, cut>> /\ deskTask[k] = "none"
        /\ deskTask' = [deskTask EXCEPT ![k] = "open"]
        /\ clerk' = [clerk EXCEPT ![q] = d]
    BY DEF InsertTask
  <1>4. d \in Clerk /\ d.step = "row" /\ d.message = c.message /\ d.file = c.file /\ d.task = k
    BY <1>2 DEF Clerk
  <1>5. /\ deskTask' \in [MessageTasks -> {"none", "open", "closed"}]
        /\ deskTask'[k] = "open"
        /\ \A j \in MessageTasks : j # k => deskTask'[j] = deskTask[j]
    BY <1>3, FeedbackTypes
  <1>8. PICK e \in Clerk : e = d
    BY <1>4
  <1> HIDE DEF c, d
  <1>6. FeedbackTypeOK' /\ ClerksKnow' /\ SubmittedOnce' /\ TasksExist' /\ AttachmentsMatch'
    <2>1. ClerkKnows(e)'
      BY <1>1, <1>3, <1>4, <1>5, <1>8 DEF ClerkKnows
    <2>2. clerk[q].step \in Submits /\ e.step \in Submits /\ e.message = clerk[q].message
      BY <1>1, <1>4, <1>8 DEF Submits, c
    <2> QED
      BY <1>3, <1>5, <1>8, <2>1, <2>2, ClerkGoesOn, FeedbackTypes
  <1>7. ResolvedClosesTask'
    <2>1. \A m \in Messages : message[m].status = "RESOLVED" => message[m].task # k
      BY <1>3 DEF FeedbackInv, TasksExist
    <2>2. \A m \in Messages : message[m].status = "RESOLVED" => message[m].task \in MessageTasks
      BY FeedbackTypes, MessageType
    <2>3. \A m \in Messages :
             (message[m].status = "RESOLVED" /\ deskTask'[message[m].task] = "open")
                 => deskTask[message[m].task] = "open"
      BY <1>5, <2>1, <2>2
    <2>4. clerk[q].step # "close"
      BY <1>1 DEF c
    <2> QED
      BY <1>3, <2>3, <2>4, ClosersStay
  <1> QED
    BY <1>6, <1>7 DEF FeedbackInv

(* A request ends: its event is inserted, or the server stops. *)
LEMMA EndKeeps ==
    ASSUME FeedbackInv, NEW q \in Clerks, InsertEvent(q) \/ CrashSubmission(q)
    PROVE  FeedbackInv'
  <1>1. /\ clerk[q] \in Clerk /\ clerk[q].step \in Submits /\ ClerkKnows(clerk[q])
        /\ clerk' = [clerk EXCEPT ![q] = NoClerk]
        /\ UNCHANGED <<message, deskTask, attached, reopened>>
        /\ \/ cut' = cut /\ clerk[q].step = "event"
           \/ cut' = cut \cup {clerk[q].message}
    BY FeedbackTypes DEF InsertEvent, CrashSubmission, FeedbackInv, ClerksKnow, Submits
  <1>2. NoClerk \in Clerk /\ NoClerk.step = "idle"
    BY DEF Clerk, NoClerk
  <1>3. ClerkKnows(NoClerk)'
    BY <1>2 DEF ClerkKnows
  <1>4. clerk[q].message \in Messages
    BY <1>1, ClerkType DEF Submits
  <1>5. clerk[q].message \in cut' \/ message[clerk[q].message].status # "none"
    BY <1>1 DEF ClerkKnows
  <1>6. FeedbackTypeOK' /\ ClerksKnow' /\ SubmittedOnce' /\ TasksExist' /\ AttachmentsMatch'
    <2>1. cut \subseteq cut' /\ cut' \subseteq Messages /\ NoClerk.step \notin Submits
      BY <1>1, <1>2, <1>4, FeedbackTypes DEF Submits
    <2> QED
      BY <1>1, <1>2, <1>3, <1>5, <2>1, ClerkGoesOn, FeedbackTypes
  <1>7. ResolvedClosesTask'
    BY <1>1, <1>2, ClosersStay DEF Submits
  <1> QED
    BY <1>6, <1>7 DEF FeedbackInv

LEMMA ReadMessageKeeps ==
    ASSUME FeedbackInv, NEW q \in Clerks, NEW m \in Messages, ResolveFeedback(q, m)
    PROVE  FeedbackInv'
  <1> DEFINE d == [step |-> "resolve", message |-> m, task |-> message[m].task]
  <1>1. /\ clerk[q].step = "idle" /\ message[m].status # "none" /\ clerk' = [clerk EXCEPT ![q] = d]
        /\ UNCHANGED <<message, deskTask, attached, reopened, cut>>
    BY DEF ResolveFeedback
  <1>2. message[m].task \in MessageTasks
    BY <1>1, FeedbackTypes, MessageType
  <1>4. d \in Clerk /\ d.step = "resolve" /\ d.message = m /\ d.task = message[m].task
    BY <1>2 DEF Clerk
  <1> HIDE DEF d
  <1>3. PICK e \in Clerk : /\ e = d /\ e.step = "resolve" /\ e.message = m
                           /\ e.task = message[m].task
    BY <1>4
  <1>5. ClerkKnows(e)'
    BY <1>1, <1>3 DEF ClerkKnows, FeedbackInv, TasksExist
  <1>6. FeedbackTypeOK' /\ ClerksKnow' /\ SubmittedOnce' /\ TasksExist' /\ AttachmentsMatch'
    BY <1>1, <1>3, <1>5, ClerkGoesOn, FeedbackTypes DEF Submits
  <1>7. ResolvedClosesTask'
    BY <1>1, <1>3, ClosersStay
  <1> QED
    BY <1>6, <1>7 DEF FeedbackInv

LEMMA CloseTaskKeeps ==
    ASSUME FeedbackInv, NEW q \in Clerks, CloseTask(q) \/ FailResolving(q)
    PROVE  FeedbackInv'
  <1> DEFINE c == clerk[q]
  <1>1. /\ c \in Clerk /\ c.step \in {"resolve", "close"} /\ ClerkKnows(c)
        /\ clerk' = [clerk EXCEPT ![q] = NoClerk]
        /\ UNCHANGED <<message, attached, reopened>>
        /\ \/ /\ cut' = cut /\ deskTask' = [deskTask EXCEPT ![c.task] = "closed"]
           \/ /\ deskTask' = deskTask
              /\ cut' = IF c.step = "close" THEN cut \cup {c.message} ELSE cut
    BY FeedbackTypes DEF CloseTask, FailResolving, FeedbackInv, ClerksKnow
  <1>2. NoClerk \in Clerk /\ NoClerk.step = "idle"
    BY DEF Clerk, NoClerk
  <1>3. ClerkKnows(NoClerk)'
    BY <1>2 DEF ClerkKnows
  <1>4. c.message \in Messages /\ c.task \in MessageTasks
    BY <1>1, ClerkType
  <1> HIDE DEF c
  <1>5. /\ deskTask' \in [MessageTasks -> {"none", "open", "closed"}]
        /\ \A k \in MessageTasks : \/ deskTask'[k] = deskTask[k]
                                   \/ deskTask'[k] = "closed"
        /\ cut' # cut \/ c.step = "resolve" \/ deskTask'[c.task] = "closed" \/ c.message \in cut'
    BY <1>1, <1>4, FeedbackTypes
  <1>6. FeedbackTypeOK' /\ ClerksKnow' /\ SubmittedOnce' /\ TasksExist' /\ AttachmentsMatch'
    <2>1. cut \subseteq cut' /\ cut' \subseteq Messages /\ NoClerk.step \notin Submits
      BY <1>1, <1>2, <1>4, FeedbackTypes DEF Submits
    <2>2. clerk[q].step \notin Submits
      BY <1>1 DEF c, Submits
    <2>3. \A k \in MessageTasks : deskTask[k] # "none" => deskTask'[k] # "none"
      BY <1>5
    <2> QED
      BY <1>1, <1>2, <1>3, <1>5, <2>1, <2>2, <2>3, ClerkGoesOn
  <1>7. ResolvedClosesTask'
    <2> SUFFICES ASSUME NEW m \in Messages, message[m].status = "RESOLVED",
                        deskTask'[message[m].task] = "open", m \notin cut',
                        message[m].task \notin reopened
                 PROVE  \E p \in Clerks : clerk'[p].step = "close" /\ clerk'[p].message = m
      BY <1>1 DEF ResolvedClosesTask
    <2>1. message[m].task \in MessageTasks
      BY FeedbackTypes, MessageType
    <2>2. deskTask[message[m].task] = "open" /\ m \notin cut
      BY <1>1, <1>5, <2>1
    <2>3. PICK p \in Clerks : clerk[p].step = "close" /\ clerk[p].message = m
      BY <2>2 DEF FeedbackInv, ResolvedClosesTask
    <2>4. p # q
      <3> SUFFICES ASSUME p = q PROVE FALSE
        OBVIOUS
      <3>1. c.step = "close" /\ c.message = m
        BY <2>3 DEF c
      <3>2. c.task = message[m].task
        BY <1>1, <3>1 DEF ClerkKnows
      <3>3. CASE deskTask' = [deskTask EXCEPT ![c.task] = "closed"]
        BY <1>4, <3>2, <3>3, FeedbackTypes
      <3>4. CASE cut' = cut \cup {c.message}
        BY <3>1, <3>4
      <3> QED
        BY <1>1, <3>1, <3>3, <3>4
    <2> QED
      BY <1>1, <2>3, <2>4, FeedbackTypes
  <1> QED
    BY <1>6, <1>7 DEF FeedbackInv

LEMMA SubmitKeeps ==
    ASSUME FeedbackInv, NEW q \in Clerks, NEW m \in Messages, NEW file \in {"yes", "no"},
           SubmitFeedback(q, m, file)
    PROVE  FeedbackInv'
  <1> DEFINE d == [step |-> "find", message |-> m, file |-> file]
  <1>1. /\ clerk[q].step = "idle" /\ message[m].status = "none" /\ m \notin attached \cup cut
        /\ ~Submitting(m) /\ clerk' = [clerk EXCEPT ![q] = d]
        /\ attached' = IF file = "yes" THEN attached \cup {m} ELSE attached
        /\ UNCHANGED <<message, deskTask, reopened, cut>>
    BY DEF SubmitFeedback
  <1>2. d \in Clerk /\ d.step = "find" /\ d.message = m /\ d.file = file
    BY DEF Clerk
  <1> HIDE DEF d
  <1>3. PICK e \in Clerk : e = d
    BY <1>2
  <1>4. \A p \in Clerks : clerk'[p] = IF p = q THEN e ELSE clerk[p]
    BY <1>1, <1>3, FeedbackTypes
  <1>5. FeedbackTypeOK'
    BY <1>1, <1>2, FeedbackTypes DEF FeedbackTypeOK
  <1>6. ClerksKnow'
    <2>1. ClerkKnows(e)'
      BY <1>1, <1>2, <1>3 DEF ClerkKnows
    <2>2. ASSUME NEW p \in Clerks, p # q PROVE ClerkKnows(clerk[p])'
      <3>1. ClerkKnows(clerk[p]) /\ clerk[p] \in Clerk /\ clerk'[p] = clerk[p]
        BY <1>4, <2>2, FeedbackTypes DEF FeedbackInv, ClerksKnow
      <3>2. clerk[p].step \in Submits => clerk[p].message # m
        BY <1>1 DEF Submitting, Submits
      <3> QED
        BY <1>1, <3>1, <3>2 DEF ClerkKnows, Submits
    <2>3. ClerkKnows(clerk[q])'
      BY <1>4, <2>1 DEF ClerkKnows
    <2> QED
      BY <2>2, <2>3 DEF ClerksKnow
  <1>7. SubmittedOnce'
    <2>1. \A p \in Clerks : clerk[p].step \in Submits => clerk[p].message # m
      BY <1>1 DEF Submitting, Submits
    <2> QED
      BY <1>2, <1>3, <1>4, <2>1 DEF FeedbackInv, SubmittedOnce
  <1>8. TasksExist'
    BY <1>1 DEF FeedbackInv, TasksExist
  <1>9. AttachmentsMatch'
    <2>1. \A n \in Messages : Submitting(n) => Submitting(n)'
      BY <1>1, <1>4 DEF Submitting
    <2>2. Submitting(m)'
      BY <1>2, <1>3, <1>4 DEF Submitting
    <2> QED
      BY <1>1, <2>1, <2>2 DEF FeedbackInv, AttachmentsMatch
  <1>10. ResolvedClosesTask'
    BY <1>1, ClosersStay
  <1> QED
    BY <1>5, <1>6, <1>7, <1>8, <1>9, <1>10 DEF FeedbackInv

LEMMA InsertFeedbackKeeps ==
    ASSUME FeedbackInv, NEW q \in Clerks, InsertFeedback(q)
    PROVE  FeedbackInv'
  <1> DEFINE c == clerk[q]
             d == [step |-> "event", message |-> c.message, file |-> c.file]
             row == [status |-> "OPEN", task |-> c.task, file |-> c.file]
  <1>1. /\ c.step = "row" /\ c \in Clerk /\ ClerkKnows(c)
        /\ message' = [message EXCEPT ![c.message] = row]
        /\ clerk' = [clerk EXCEPT ![q] = d]
        /\ UNCHANGED <<deskTask, attached, reopened, cut>>
    BY FeedbackTypes DEF InsertFeedback, FeedbackInv, ClerksKnow
  <1>2. c.message \in Messages /\ c.file \in {"yes", "no"} /\ c.task \in MessageTasks
    BY <1>1, ClerkType DEF Submits
  <1>3. /\ d \in Clerk /\ d.step = "event" /\ d.message = c.message /\ d.file = c.file
        /\ row \in Message /\ row.status = "OPEN" /\ row.task = c.task /\ row.file = c.file
    BY <1>2 DEF Clerk, Message
  <1>4. PICK e \in Clerk, r \in Message, m \in Messages : e = d /\ r = row /\ m = c.message
    BY <1>2, <1>3
  <1>5. /\ message[m].status = "none" /\ (c.file = "yes" <=> m \in attached)
        /\ deskTask[c.task] # "none" /\ c.step \in Submits
    BY <1>1, <1>4 DEF ClerkKnows, Submits
  <1>p. c = clerk[q]
    OBVIOUS
  <1> HIDE DEF c, d, row
  <1>6. /\ \A p \in Clerks : clerk'[p] = IF p = q THEN e ELSE clerk[p]
        /\ \A n \in Messages : message'[n] = IF n = m THEN r ELSE message[n]
    BY <1>1, <1>4, FeedbackTypes
  <1>7. FeedbackTypeOK'
    BY <1>1, <1>3, FeedbackTypes DEF FeedbackTypeOK
  <1>8. ClerksKnow'
    <2>1. ClerkKnows(clerk[q])'
      BY <1>3, <1>4, <1>6 DEF ClerkKnows
    <2>2. ASSUME NEW p \in Clerks, p # q PROVE ClerkKnows(clerk[p])'
      <3>1. /\ ClerkKnows(clerk[p]) /\ clerk[p] \in Clerk /\ clerk'[p] = clerk[p]
            /\ clerk[p].step # "idle" => clerk[p].message \in Messages
        BY <1>6, <2>2, FeedbackTypes, ClerkType DEF FeedbackInv, ClerksKnow
      <3>2. clerk[p].step \in Submits => clerk[p].message # m
        BY <1>4, <1>5, <1>p, <2>2 DEF FeedbackInv, SubmittedOnce
      <3>3. clerk[p].step \in {"resolve", "close"} => clerk[p].message # m
        BY <1>5, <3>1 DEF ClerkKnows
      <3>4. CASE clerk[p].step \in Submits \cup {"resolve", "close"}
        <4>1. message'[clerk[p].message] = message[clerk[p].message]
          BY <1>6, <3>1, <3>2, <3>3, <3>4 DEF Submits
        <4> QED
          BY <1>1, <3>1, <4>1 DEF ClerkKnows
      <3>5. CASE clerk[p].step \notin Submits \cup {"resolve", "close"}
        BY <3>1, <3>5 DEF ClerkKnows, Submits
      <3> QED
        BY <3>4, <3>5
    <2> QED
      BY <2>1, <2>2 DEF ClerksKnow
  <1>9. SubmittedOnce'
    BY <1>3, <1>4, <1>5, <1>6, <1>p DEF FeedbackInv, SubmittedOnce
  <1>10. TasksExist'
    BY <1>1, <1>3, <1>4, <1>5, <1>6 DEF FeedbackInv, TasksExist
  <1>11. AttachmentsMatch'
    <2>1. \A n \in Messages : Submitting(n) => Submitting(n)'
      BY <1>3, <1>4, <1>6, <1>p DEF Submitting
    <2> QED
      BY <1>1, <1>3, <1>4, <1>5, <1>6, <2>1 DEF FeedbackInv, AttachmentsMatch
  <1>12. ResolvedClosesTask'
    <2>1. \A p \in Clerks : clerk[p].step = "close" => p # q
      BY <1>1, <1>p
    <2>2. message'[m].status # "RESOLVED"
      BY <1>3, <1>4, <1>6
    <2> QED
      BY <1>1, <1>6, <2>1, <2>2 DEF FeedbackInv, ResolvedClosesTask
  <1> QED
    BY <1>7, <1>8, <1>9, <1>10, <1>11, <1>12 DEF FeedbackInv

LEMMA FailSubmissionKeeps ==
    ASSUME FeedbackInv, NEW q \in Clerks, FailSubmission(q)
    PROVE  FeedbackInv'
  <1> DEFINE c == clerk[q]
  <1>1. /\ c.step \in Submits /\ c \in Clerk /\ ClerkKnows(c)
        /\ attached' = attached \ {c.message}
        /\ cut' = IF c.step = "event" THEN cut \cup {c.message} ELSE cut
        /\ clerk' = [clerk EXCEPT ![q] = NoClerk]
        /\ UNCHANGED <<message, deskTask, reopened>>
    BY FeedbackTypes DEF FailSubmission, FeedbackInv, ClerksKnow, Submits
  <1>2. c.message \in Messages
    BY <1>1, ClerkType DEF Submits
  <1>3. NoClerk \in Clerk /\ NoClerk.step = "idle"
    BY DEF Clerk, NoClerk
  <1>4. \A p \in Clerks : clerk'[p] = IF p = q THEN NoClerk ELSE clerk[p]
    BY <1>1, FeedbackTypes
  <1>p. c = clerk[q]
    OBVIOUS
  <1> HIDE DEF c
  <1>5. FeedbackTypeOK'
    BY <1>1, <1>2, <1>3, FeedbackTypes DEF FeedbackTypeOK
  <1>6. ClerksKnow'
    <2>1. ClerkKnows(clerk[q])'
      BY <1>3, <1>4 DEF ClerkKnows
    <2>2. ASSUME NEW p \in Clerks, p # q PROVE ClerkKnows(clerk[p])'
      <3>1. ClerkKnows(clerk[p]) /\ clerk'[p] = clerk[p]
        BY <1>4, <2>2 DEF FeedbackInv, ClerksKnow
      <3>2. clerk[p].step \in Submits => clerk[p].message # c.message
        BY <1>1, <1>p, <2>2 DEF FeedbackInv, SubmittedOnce
      <3> QED
        BY <1>1, <3>1, <3>2 DEF ClerkKnows, Submits
    <2> QED
      BY <2>1, <2>2 DEF ClerksKnow
  <1>7. SubmittedOnce'
    BY <1>3, <1>4 DEF FeedbackInv, SubmittedOnce, Submits
  <1>8. TasksExist'
    BY <1>1 DEF FeedbackInv, TasksExist
  <1>9. AttachmentsMatch'
    <2>1. \A n \in Messages : (Submitting(n) /\ n # c.message) => Submitting(n)'
      BY <1>4, <1>p DEF Submitting
    <2>2. c.step = "event" \/ message[c.message].status = "none"
      BY <1>1 DEF ClerkKnows, Submits
    <2> QED
      BY <1>1, <2>1, <2>2 DEF FeedbackInv, AttachmentsMatch
  <1>10. ResolvedClosesTask'
    <2>1. clerk[q].step # "close" /\ cut \subseteq cut'
      BY <1>1, <1>p DEF Submits
    <2> QED
      BY <1>1, <2>1, ClosersStay
  <1> QED
    BY <1>5, <1>6, <1>7, <1>8, <1>9, <1>10 DEF FeedbackInv

LEMMA MarkResolvedKeeps ==
    ASSUME FeedbackInv, NEW q \in Clerks, MarkResolved(q)
    PROVE  FeedbackInv'
  <1> DEFINE c == clerk[q]
             d == [c EXCEPT !.step = "close"]
             row == [message[c.message] EXCEPT !.status = "RESOLVED"]
  <1>1. /\ c.step = "resolve" /\ c \in Clerk /\ ClerkKnows(c)
        /\ message' = [message EXCEPT ![c.message] = row]
        /\ clerk' = [clerk EXCEPT ![q] = d]
        /\ UNCHANGED <<deskTask, attached, reopened, cut>>
    BY FeedbackTypes DEF MarkResolved, FeedbackInv, ClerksKnow
  <1>2. /\ c.message \in Messages /\ c.task \in MessageTasks
        /\ message[c.message].status # "none" /\ message[c.message].task = c.task
        /\ deskTask[c.task] # "none"
    BY <1>1, ClerkType DEF ClerkKnows
  <1>p. c = clerk[q]
    OBVIOUS
  <1>3. /\ d \in Clerk /\ d.step = "close" /\ d.message = c.message /\ d.task = c.task
        /\ row \in Message /\ row.status = "RESOLVED" /\ row.task = c.task
        /\ row.file = message[c.message].file
    <2>1. message[c.message] \in Message
      BY <1>2, FeedbackTypes
    <2> HIDE DEF c
    <2> QED
      BY <1>1, <1>2, <2>1, ClerkNext, MessageType
  <1>4. PICK e \in Clerk, r \in Message, m \in Messages : e = d /\ r = row /\ m = c.message
    BY <1>2, <1>3
  <1> HIDE DEF c, d, row
  <1>6. /\ \A p \in Clerks : clerk'[p] = IF p = q THEN e ELSE clerk[p]
        /\ \A n \in Messages : message'[n] = IF n = m THEN r ELSE message[n]
    BY <1>1, <1>4, FeedbackTypes
  <1>s. /\ \A n \in Messages : message'[n].status # "none" <=> message[n].status # "none"
        /\ \A n \in Messages : message[n].status # "none" =>
              /\ message'[n].task = message[n].task
              /\ message'[n].file = message[n].file
    BY <1>2, <1>3, <1>4, <1>6
  <1>7. FeedbackTypeOK'
    BY <1>1, <1>3, FeedbackTypes DEF FeedbackTypeOK
  <1>8. ClerksKnow'
    <2>1. ClerkKnows(clerk[q])'
      BY <1>1, <1>2, <1>3, <1>4, <1>6 DEF ClerkKnows
    <2>2. ASSUME NEW p \in Clerks, p # q PROVE ClerkKnows(clerk[p])'
      <3>1. /\ ClerkKnows(clerk[p]) /\ clerk[p] \in Clerk /\ clerk'[p] = clerk[p]
            /\ clerk[p].step # "idle" => clerk[p].message \in Messages
        BY <1>6, <2>2, FeedbackTypes, ClerkType DEF FeedbackInv, ClerksKnow
      <3> QED
        BY <1>1, <1>s, <3>1 DEF ClerkKnows
    <2> QED
      BY <2>1, <2>2 DEF ClerksKnow
  <1>9. SubmittedOnce'
    BY <1>3, <1>4, <1>6 DEF FeedbackInv, SubmittedOnce, Submits
  <1>10. TasksExist'
    BY <1>1, <1>s DEF FeedbackInv, TasksExist
  <1>11. AttachmentsMatch'
    <2>1. \A n \in Messages : Submitting(n) => Submitting(n)'
      BY <1>1, <1>6, <1>p DEF Submitting
    <2> QED
      BY <1>1, <1>s, <2>1 DEF FeedbackInv, AttachmentsMatch
  <1>12. ResolvedClosesTask'
    <2>1. clerk'[q].step = "close" /\ clerk'[q].message = m
      BY <1>3, <1>4, <1>6
    <2>2. \A p \in Clerks : clerk[p].step = "close" => clerk'[p] = clerk[p]
      BY <1>1, <1>6, <1>p
    <2> QED
      BY <1>1, <1>6, <2>1, <2>2 DEF FeedbackInv, ResolvedClosesTask
  <1> QED
    BY <1>7, <1>8, <1>9, <1>10, <1>11, <1>12 DEF FeedbackInv

LEMMA SetTaskStatusKeeps ==
    ASSUME FeedbackInv, NEW k \in MessageTasks, NEW status \in {"open", "closed"},
           SetTaskStatus(k, status)
    PROVE  FeedbackInv'
  <1>1. /\ deskTask[k] # "none" /\ deskTask' = [deskTask EXCEPT ![k] = status]
        /\ reopened' = IF status = "open" THEN reopened \cup {k} ELSE reopened
        /\ UNCHANGED <<message, attached, clerk, cut>>
    BY DEF SetTaskStatus
  <1>2. /\ deskTask' \in [MessageTasks -> {"none", "open", "closed"}]
        /\ \A j \in MessageTasks : deskTask'[j] = IF j = k THEN status ELSE deskTask[j]
    BY <1>1, FeedbackTypes
  <1>3. FeedbackTypeOK' /\ SubmittedOnce'
    BY <1>1, <1>2, FeedbackTypes DEF FeedbackInv, FeedbackTypeOK, SubmittedOnce
  <1>4. ClerksKnow'
    <2>1. ASSUME NEW p \in Clerks PROVE ClerkKnows(clerk[p])'
      BY <1>1, <1>2, FeedbackTypes, ClerkType DEF FeedbackInv, ClerksKnow, ClerkKnows
    <2> QED
      BY <2>1 DEF ClerksKnow
  <1>5. \A m \in Messages : message[m].status # "none" => message[m].task \in MessageTasks
    BY FeedbackTypes, MessageType
  <1>6. TasksExist' /\ ResolvedClosesTask'
    BY <1>1, <1>2, <1>5 DEF FeedbackInv, TasksExist, ResolvedClosesTask
  <1>7. AttachmentsMatch'
    BY <1>1 DEF FeedbackInv, AttachmentsMatch, Submitting
  <1> QED
    BY <1>3, <1>4, <1>6, <1>7 DEF FeedbackInv

LEMMA FeedbackInvNext == FeedbackInv /\ [FeedbackNext]_feedbackVars => FeedbackInv'
  <1> SUFFICES ASSUME FeedbackInv, [FeedbackNext]_feedbackVars PROVE FeedbackInv'
    OBVIOUS
  <1>1. CASE FeedbackNext
    BY <1>1, SubmitKeeps, InsertTaskKeeps, ReadMessageKeeps, FindTaskKeeps, InsertFeedbackKeeps,
       EndKeeps, FailSubmissionKeeps, MarkResolvedKeeps, CloseTaskKeeps, SetTaskStatusKeeps
       DEF FeedbackNext
  <1>2. CASE UNCHANGED feedbackVars
    BY <1>2 DEF feedbackVars, FeedbackInv, FeedbackTypeOK, ClerksKnow, ClerkKnows, SubmittedOnce,
       TasksExist, AttachmentsMatch, ResolvedClosesTask, Submitting
  <1> QED
    BY <1>1, <1>2

(* Messages and attachments stay together, but for a request cut off in    *)
(* between, and whoever resolves a message closes its task                 *)
(* (submitFeedbackWithImage, resolveFeedback).                             *)
THEOREM MessagesAreAnswered ==
    FeedbackSpec => [](FeedbackTypeOK /\ AttachmentsMatch /\ ResolvedClosesTask)
  BY FeedbackInvInit, FeedbackInvNext, PTL DEF FeedbackSpec, FeedbackInv

-----------------------------------------------------------------------------
(* Media: what a request knows of the row and the file of its item, and    *)
(* that an item is stored by one request.                                  *)
EditorKnows(e) ==
    /\ e.step = "save" => item[e.item] = "none" /\ e.item \in stored
    /\ e.step = "undo" => item[e.item] = "none" \/ e.item \in unsure
    /\ e.step = "delete" => item[e.item] # "none"
    /\ e.step = "unlink" => item[e.item] = "removed"

EditorsKnow == \A q \in Editors : EditorKnows(editor[q])

StoredOnce ==
    \A p, q \in Editors :
        (editor[p].step \in {"save", "undo"} /\ editor[q].step \in {"save", "undo"}
            /\ editor[p].item = editor[q].item) => p = q

MediaInv == MediaTypeOK /\ EditorsKnow /\ StoredOnce /\ FilesMatchItems /\ PartFits

LEMMA MediaInvInit == MediaInit => MediaInv
  BY MediaAssumption
     DEF MediaInit, MediaInv, MediaTypeOK, EditorsKnow, EditorKnows, StoredOnce, FilesMatchItems,
         PartFits, Editor, NoEditor, Reply, NoReply, Size

LEMMA EditorType ==
    ASSUME NEW e \in Editor
    PROVE  /\ e.step \in {"idle", "save", "undo", "delete", "unlink", "send"}
           /\ e.step # "idle" => e.item \in Items
  BY DEF Editor, NoEditor

LEMMA MediaTypes ==
    ASSUME MediaInv
    PROVE  /\ item \in [Items -> {"none", "live", "removed"}] /\ stored \subseteq Items
           /\ size \in [Items -> Size] /\ editor \in [Editors -> Editor] /\ unsure \subseteq Items
           /\ \A q \in Editors : editor[q].step # "idle" => editor[q].item \in Items
  BY EditorType DEF MediaInv, MediaTypeOK

(* The next place of a request. *)
LEMMA EditorGoes ==
    ASSUME MediaInv, NEW q \in Editors, NEW e \in Editor, editor' = [editor EXCEPT ![q] = e]
    PROVE  /\ editor' \in [Editors -> Editor]
           /\ \A p \in Editors : editor'[p] = IF p = q THEN e ELSE editor[p]
  BY MediaTypes

LEMMA GoesTo ==
    ASSUME NEW q \in Editors, NEW i \in Items,
           NEW step \in {"save", "undo", "delete", "unlink", "send"}, Goes(q, step, i)
    PROVE  \E e \in Editor : e.step = step /\ e.item = i /\ editor' = [editor EXCEPT ![q] = e]
  <1>1. [step |-> step, item |-> i] \in Editor
    BY DEF Editor
  <1> QED
    BY <1>1 DEF Goes

LEMMA StopsAt ==
    ASSUME NEW q \in Editors, Stops(q)
    PROVE  \E e \in Editor : e.step = "idle" /\ editor' = [editor EXCEPT ![q] = e]
  <1>1. NoEditor \in Editor /\ NoEditor.step = "idle"
    BY DEF Editor, NoEditor
  <1> QED
    BY <1>1 DEF Stops

(* A request moves, and neither a row nor a file changes. *)
LEMMA EditorMoves ==
    ASSUME MediaInv, NEW q \in Editors, NEW e \in Editor,
           editor' = [editor EXCEPT ![q] = e],
           UNCHANGED <<item, stored, size, picture, uploaded>>,
           reply' \in Reply, PartFits', unsure \subseteq unsure', unsure' \subseteq Items,
           EditorKnows(e)',
           e.step \in {"save", "undo"} =>
              editor[q].step \in {"save", "undo"} /\ e.item = editor[q].item,
           editor[q].step \in {"save", "undo", "unlink"} =>
              \/ e.step \in {"save", "undo", "unlink"} /\ e.item = editor[q].item
              \/ editor[q].item \in unsure'
    PROVE  MediaInv'
  <1>1. /\ editor' \in [Editors -> Editor]
        /\ \A p \in Editors : editor'[p] = IF p = q THEN e ELSE editor[p]
    BY EditorGoes
  <1>2. MediaTypeOK'
    BY <1>1 DEF MediaInv, MediaTypeOK
  <1>3. EditorsKnow'
    BY <1>1 DEF MediaInv, EditorsKnow, EditorKnows
  <1>4. StoredOnce'
    BY <1>1 DEF MediaInv, StoredOnce
  <1>5. FilesMatchItems'
    BY <1>1 DEF MediaInv, FilesMatchItems, Busy
  <1> QED
    BY <1>2, <1>3, <1>4, <1>5 DEF MediaInv

(* The row of an item is written by the request that stores or removes it. *)
LEMMA ItemWritten ==
    ASSUME MediaInv, NEW q \in Editors, NEW e \in Editor, NEW i \in Items,
           NEW state \in {"live", "removed"},
           editor' = [editor EXCEPT ![q] = e], i = editor[q].item,
           item' = [item EXCEPT ![i] = state],
           UNCHANGED <<stored, size, picture, uploaded, reply>>,
           unsure \subseteq unsure', unsure' \subseteq Items,
           \/ /\ editor[q].step = "save" /\ state = "live"
              /\ e.step = "idle" \/ (e.step = "undo" /\ e.item = i /\ i \in unsure')
           \/ editor[q].step = "delete" /\ state = "removed" /\ e.step = "unlink" /\ e.item = i
    PROVE  MediaInv'
  <1>1. /\ editor' \in [Editors -> Editor]
        /\ \A p \in Editors : editor'[p] = IF p = q THEN e ELSE editor[p]
    BY EditorGoes
  <1>t. /\ item \in [Items -> {"none", "live", "removed"}]
        /\ \A j \in Items : item'[j] = IF j = i THEN state ELSE item[j]
        /\ \A p \in Editors : editor[p].step # "idle" => editor[p].item \in Items
    BY MediaTypes
  <1>2. MediaTypeOK'
    BY <1>1, <1>t DEF MediaInv, MediaTypeOK
  <1>k. EditorKnows(editor[q])
    BY DEF MediaInv, EditorsKnow
  <1>3. EditorsKnow'
    <2>1. EditorKnows(editor[q])'
      BY <1>1, <1>t DEF EditorKnows
    <2>2. ASSUME NEW p \in Editors, p # q PROVE EditorKnows(editor[p])'
      <3>1. EditorKnows(editor[p]) /\ editor'[p] = editor[p]
        BY <1>1, <2>2 DEF MediaInv, EditorsKnow
      <3>2. (editor[q].step = "save" /\ editor[p].step \in {"save", "undo"}) => editor[p].item # i
        BY <2>2 DEF MediaInv, StoredOnce
      <3>3. editor[q].step = "save" => item[i] = "none"
        BY <1>k DEF EditorKnows
      <3>4. editor[q].step = "delete" => item[i] # "none"
        BY <1>k DEF EditorKnows
      <3> QED
        BY <1>t, <3>1, <3>2, <3>3, <3>4 DEF EditorKnows
    <2> QED
      BY <2>1, <2>2 DEF EditorsKnow
  <1>4. StoredOnce'
    BY <1>1 DEF MediaInv, StoredOnce
  <1>5. FilesMatchItems'
    <2>1. \A j \in Items : (j # i /\ Busy(j, {"save", "undo", "unlink"})) =>
                               Busy(j, {"save", "undo", "unlink"})'
      BY <1>1 DEF Busy
    <2>2. state = "live" => i \in stored
      BY <1>k DEF EditorKnows
    <2>3. state = "live" \/ Busy(i, {"save", "undo", "unlink"})'
      BY <1>1 DEF Busy
    <2> QED
      BY <1>t, <2>1, <2>2, <2>3 DEF MediaInv, FilesMatchItems
  <1>6. PartFits'
    BY DEF MediaInv, PartFits
  <1> QED
    BY <1>2, <1>3, <1>4, <1>5, <1>6 DEF MediaInv

(* Range requests: what is sent lies in the file. *)
LEMMA PartInFile ==
    ASSUME NEW from \in Size \cup {-1}, NEW to \in Size \cup {-1}, NEW bytes \in Size,
           NEW r, r = Part(from, to, bytes)
    PROVE  /\ r \in Reply
           /\ r.code = "part" => (0 <= r.from /\ r.from <= r.to /\ r.to < r.size)
  BY MediaAssumption DEF Part, Least, Reply, Size

LEMMA StoreFileKeeps ==
    ASSUME MediaInv, NEW q \in Editors, NEW i \in Items, NEW bytes \in Size,
           StoreFile(q, i, bytes)
    PROVE  MediaInv'
  <1>1. /\ editor[q].step = "idle" /\ item[i] = "none" /\ i \notin stored \cup unsure
        /\ ~Busy(i, {"save", "undo"}) /\ stored' = stored \cup {i}
        /\ size' = [size EXCEPT ![i] = bytes] /\ Goes(q, "save", i)
        /\ UNCHANGED <<item, picture, uploaded, reply, unsure>>
    BY DEF StoreFile
  <1>2. PICK e \in Editor : e.step = "save" /\ e.item = i /\ editor' = [editor EXCEPT ![q] = e]
    BY <1>1, GoesTo
  <1>3. /\ editor' \in [Editors -> Editor]
        /\ \A p \in Editors : editor'[p] = IF p = q THEN e ELSE editor[p]
    BY <1>2, EditorGoes
  <1>4. MediaTypeOK' /\ PartFits'
    BY <1>1, <1>3 DEF MediaInv, MediaTypeOK, PartFits
  <1>5. EditorsKnow'
    BY <1>1, <1>2, <1>3 DEF MediaInv, EditorsKnow, EditorKnows
  <1>6. StoredOnce'
    BY <1>1, <1>2, <1>3 DEF MediaInv, StoredOnce, Busy
  <1>7. FilesMatchItems'
    <2>1. \A j \in Items : Busy(j, {"save", "undo", "unlink"}) => Busy(j, {"save", "undo", "unlink"})'
      BY <1>1, <1>3 DEF Busy
    <2>2. Busy(i, {"save", "undo", "unlink"})'
      BY <1>2, <1>3 DEF Busy
    <2> QED
      BY <1>1, <2>1, <2>2 DEF MediaInv, FilesMatchItems
  <1> QED
    BY <1>4, <1>5, <1>6, <1>7 DEF MediaInv

LEMMA DeleteStoredFileKeeps ==
    ASSUME MediaInv, NEW q \in Editors, DeleteStoredFile(q)
    PROVE  MediaInv'
  <1> DEFINE i == editor[q].item
  <1>1. /\ editor[q].step \in {"undo", "unlink"} /\ stored' = stored \ {i} /\ Stops(q)
        /\ UNCHANGED <<item, size, picture, uploaded, reply, unsure>>
    BY DEF DeleteStoredFile
  <1>2. PICK e \in Editor : e.step = "idle" /\ editor' = [editor EXCEPT ![q] = e]
    BY <1>1, StopsAt
  <1>3. /\ editor' \in [Editors -> Editor]
        /\ \A p \in Editors : editor'[p] = IF p = q THEN e ELSE editor[p]
    BY <1>2, EditorGoes
  <1>4. i \in Items /\ (item[i] # "live" \/ i \in unsure)
        /\ (item[i] = "removed" \/ editor[q].step = "undo")
    BY <1>1, MediaTypes DEF MediaInv, EditorsKnow, EditorKnows
  <1>5. MediaTypeOK' /\ PartFits'
    BY <1>1, <1>3 DEF MediaInv, MediaTypeOK, PartFits
  <1>6. EditorsKnow'
    <2>1. \A p \in Editors : (p # q /\ editor[p].step = "save") => editor[p].item # i
      BY <1>1, <1>4 DEF MediaInv, EditorsKnow, EditorKnows, StoredOnce
    <2> HIDE DEF i
    <2> QED
      BY <1>1, <1>2, <1>3, <2>1 DEF MediaInv, EditorsKnow, EditorKnows
  <1>7. StoredOnce'
    BY <1>2, <1>3 DEF MediaInv, StoredOnce
  <1>8. FilesMatchItems'
    <2>1. \A j \in Items : (j # i /\ Busy(j, {"save", "undo", "unlink"})) =>
                               Busy(j, {"save", "undo", "unlink"})'
      BY <1>3 DEF Busy
    <2> HIDE DEF i
    <2> QED
      BY <1>1, <1>4, <2>1 DEF MediaInv, FilesMatchItems
  <1> QED
    BY <1>5, <1>6, <1>7, <1>8 DEF MediaInv

LEMMA MediaInvNext == MediaInv /\ [MediaNext]_mediaVars => MediaInv'
  <1> SUFFICES ASSUME MediaInv, [MediaNext]_mediaVars PROVE MediaInv'
    OBVIOUS
  <1>t. /\ unsure \subseteq Items /\ reply \in Reply /\ size \in [Items -> Size] /\ PartFits
        /\ \A q \in Editors : EditorKnows(editor[q])
        /\ \A q \in Editors : editor[q].step # "idle" => editor[q].item \in Items
    BY MediaTypes DEF MediaInv, MediaTypeOK, EditorsKnow
  <1>p. UNCHANGED reply => PartFits'
    BY <1>t DEF PartFits
  <1>1. ASSUME NEW q \in Editors, NEW i \in Items, NEW step \in {"delete", "send"},
               FindItem(q, i, step)
        PROVE  MediaInv'
    <2>1. /\ editor[q].step = "idle" /\ item[i] = "live" /\ Goes(q, step, i)
          /\ UNCHANGED <<item, stored, size, picture, uploaded, reply, unsure>>
      BY <1>1 DEF FindItem
    <2>2. PICK e \in Editor : e.step = step /\ e.item = i /\ editor' = [editor EXCEPT ![q] = e]
      BY <2>1, GoesTo
    <2>3. EditorKnows(e)'
      BY <2>1, <2>2 DEF EditorKnows
    <2>4. e.step \notin {"save", "undo"} /\ editor[q].step \notin {"save", "undo", "unlink"}
      BY <2>1, <2>2
    <2> QED
      BY <1>t, <1>p, <2>1, <2>2, <2>3, <2>4, EditorMoves
  <1>2. ASSUME NEW q \in Editors, NEW from \in Size \cup {-1}, NEW to \in Size \cup {-1},
               StreamFile(q, from, to)
        PROVE  MediaInv'
    <2>1. /\ editor[q].step = "send" /\ editor[q].item \in Items /\ Stops(q)
          /\ reply' = Part(from, to, size[editor[q].item])
          /\ UNCHANGED <<item, stored, size, picture, uploaded, unsure>>
      BY <1>2, <1>t DEF StreamFile
    <2>2. PICK e \in Editor : e.step = "idle" /\ editor' = [editor EXCEPT ![q] = e]
      BY <2>1, StopsAt
    <2>3. reply' \in Reply /\ PartFits'
      <3>1. size[editor[q].item] \in Size
        BY <1>t, <2>1
      <3> QED
        BY <2>1, <3>1, PartInFile DEF PartFits
    <2>4. EditorKnows(e)' /\ editor[q].step \notin {"save", "undo", "unlink"}
      BY <2>1, <2>2 DEF EditorKnows
    <2> QED
      BY <1>t, <2>1, <2>2, <2>3, <2>4, EditorMoves
  <1>3. ASSUME NEW q \in Editors, StreamWhole(q) PROVE MediaInv'
    <2>1. /\ editor[q].step = "send" /\ editor[q].item \in Items /\ Stops(q)
          /\ reply' = [code |-> "whole", from |-> 0, to |-> size[editor[q].item] - 1,
                       size |-> size[editor[q].item]]
          /\ UNCHANGED <<item, stored, size, picture, uploaded, unsure>>
      BY <1>3, <1>t DEF StreamWhole
    <2>2. PICK e \in Editor : e.step = "idle" /\ editor' = [editor EXCEPT ![q] = e]
      BY <2>1, StopsAt
    <2>3. reply' \in Reply /\ PartFits'
      <3>1. size[editor[q].item] \in Size
        BY <1>t, <2>1
      <3> QED
        BY <2>1, <3>1, MediaAssumption DEF PartFits, Reply, Size
    <2>4. EditorKnows(e)' /\ editor[q].step \notin {"save", "undo", "unlink"}
      BY <2>1, <2>2 DEF EditorKnows
    <2> QED
      BY <1>t, <2>1, <2>2, <2>3, <2>4, EditorMoves
  <1>4. ASSUME NEW q \in Editors, SaveItem(q) PROVE MediaInv'
    <2>1. /\ editor[q].step = "save" /\ editor[q].item \in Items /\ Stops(q)
          /\ item' = [item EXCEPT ![editor[q].item] = "live"]
          /\ UNCHANGED <<stored, size, picture, uploaded, reply, unsure>>
      BY <1>4, <1>t DEF SaveItem
    <2>2. PICK e \in Editor : e.step = "idle" /\ editor' = [editor EXCEPT ![q] = e]
      BY <2>1, StopsAt
    <2> QED
      BY <1>t, <2>1, <2>2, ItemWritten
  <1>5. ASSUME NEW q \in Editors, SaveFails(q) PROVE MediaInv'
    <2>1. /\ editor[q].step = "save" /\ editor[q].item \in Items
          /\ Goes(q, "undo", editor[q].item)
          /\ UNCHANGED <<item, stored, size, picture, uploaded, reply, unsure>>
      BY <1>5, <1>t DEF SaveFails
    <2>2. PICK e \in Editor : /\ e.step = "undo" /\ e.item = editor[q].item
                              /\ editor' = [editor EXCEPT ![q] = e]
      BY <2>1, GoesTo
    <2>3. EditorKnows(e)'
      BY <1>t, <2>1, <2>2 DEF EditorKnows
    <2> QED
      BY <1>t, <1>p, <2>1, <2>2, <2>3, EditorMoves
  <1>6. ASSUME NEW q \in Editors, SaveAnswerLost(q) PROVE MediaInv'
    <2>1. /\ editor[q].step = "save" /\ editor[q].item \in Items
          /\ Goes(q, "undo", editor[q].item) /\ unsure' = unsure \cup {editor[q].item}
          /\ item' = [item EXCEPT ![editor[q].item] = "live"]
          /\ UNCHANGED <<stored, size, picture, uploaded, reply>>
      BY <1>6, <1>t DEF SaveAnswerLost
    <2>2. PICK e \in Editor : /\ e.step = "undo" /\ e.item = editor[q].item
                              /\ editor' = [editor EXCEPT ![q] = e]
      BY <2>1, GoesTo
    <2>3. /\ unsure \subseteq unsure' /\ unsure' \subseteq Items /\ editor[q].item \in unsure'
      BY <1>t, <2>1
    <2> QED
      BY <2>1, <2>2, <2>3, ItemWritten
  <1>7. ASSUME NEW q \in Editors, RemoveItem(q) PROVE MediaInv'
    <2>1. /\ editor[q].step = "delete" /\ editor[q].item \in Items
          /\ Goes(q, "unlink", editor[q].item)
          /\ item' = [item EXCEPT ![editor[q].item] = "removed"]
          /\ UNCHANGED <<stored, size, picture, uploaded, reply, unsure>>
      BY <1>7, <1>t DEF RemoveItem
    <2>2. PICK e \in Editor : /\ e.step = "unlink" /\ e.item = editor[q].item
                              /\ editor' = [editor EXCEPT ![q] = e]
      BY <2>1, GoesTo
    <2> QED
      BY <1>t, <2>1, <2>2, ItemWritten
  <1>8. ASSUME NEW q \in Editors, DeleteFails(q) \/ MediaCrash(q) PROVE MediaInv'
    <2>1. /\ editor[q].step # "idle" /\ editor[q].item \in Items /\ Stops(q)
          /\ unsure' \in {unsure, unsure \cup {editor[q].item}}
          /\ editor[q].step \in {"save", "undo", "unlink"} => editor[q].item \in unsure'
          /\ UNCHANGED <<item, stored, size, picture, uploaded, reply>>
      BY <1>8, <1>t DEF DeleteFails, MediaCrash
    <2>2. PICK e \in Editor : e.step = "idle" /\ editor' = [editor EXCEPT ![q] = e]
      BY <2>1, StopsAt
    <2>3. unsure \subseteq unsure' /\ unsure' \subseteq Items /\ EditorKnows(e)'
      BY <1>t, <2>1, <2>2 DEF EditorKnows
    <2> QED
      BY <1>t, <1>p, <2>1, <2>2, <2>3, EditorMoves
  <1>9. ASSUME NEW p \in Pictures, UploadPicture(p) \/ (\E h \in Holders : NamePicture(h, p))
        PROVE  MediaInv'
    <2>1. UNCHANGED <<item, stored, size, editor, reply, unsure>>
      BY <1>9 DEF UploadPicture, NamePicture
    <2>2. MediaTypeOK'
      BY <1>9, <2>1 DEF MediaInv, MediaTypeOK, UploadPicture, NamePicture
    <2> QED
      BY <1>p, <2>1, <2>2
         DEF MediaInv, EditorsKnow, EditorKnows, StoredOnce, FilesMatchItems, Busy
  <1>10. CASE UNCHANGED mediaVars
    BY <1>10 DEF mediaVars, MediaInv, MediaTypeOK, EditorsKnow, EditorKnows, StoredOnce,
       FilesMatchItems, Busy, PartFits
  <1> QED
    BY <1>1, <1>2, <1>3, <1>4, <1>5, <1>6, <1>7, <1>8, <1>9, <1>10, StoreFileKeeps,
       DeleteStoredFileKeeps DEF MediaNext

(* Rows and files of the gallery match whatever requests overlap, but for  *)
(* one cut off or refused by the store; a part that is served lies in the  *)
(* file (create, remove, streamFile).                                      *)
THEOREM GalleryMatchesStore == MediaSpec => [](MediaTypeOK /\ FilesMatchItems /\ PartFits)
  BY MediaInvInit, MediaInvNext, PTL DEF MediaSpec, MediaInv

-----------------------------------------------------------------------------
(* PortalLinks: LinkFitsAccount is carried by what a running updateLink    *)
(* holds (EditsFit): the role it was checked against is still one of the   *)
(* user's, and the row it is about to write exists, so that what the       *)
(* UPDATE leaves alone fits already.                                       *)
FitsSome(roleSet, relationship) ==
    /\ roleSet \cap ClientRole # {}
    /\ \E role \in roleSet : Fits(role, relationship)

EditFits(e, theRoles, table) ==
    /\ e.step = "save" =>
          /\ e.role \in theRoles[e.user] /\ e.read.state = "live"
          /\ table[e.user][e.trainee].state # "none"
    /\ e.step = "write" =>
          /\ table[e.user][e.trainee].state # "none"
          /\ e.update.relationship # "kept" => FitsSome(theRoles[e.user], e.update.relationship)

EditsFit == \A q \in LinkEditors : EditFits(linkEdit[q], roles, link)

LinksInv == LinksTypeOK /\ LinkFitsAccount /\ EditsFit

-----------------------------------------------------------------------------
LEMMA SaveEdit ==
    ASSUME NEW e \in LinkEdit, e.step = "save"
    PROVE  /\ e.user \in PortalUsers /\ e.trainee \in PortalTrainees
           /\ e.read \in LinkRow /\ e.role \in PortalRole
  BY DEF LinkEdit, NoLinkEdit

LEMMA WriteEdit ==
    ASSUME NEW e \in LinkEdit, e.step = "write"
    PROVE  e.user \in PortalUsers /\ e.trainee \in PortalTrainees /\ e.update \in LinkUpdate
  BY DEF LinkEdit, NoLinkEdit

LEMMA IdleEdit == NoLinkEdit \in LinkEdit /\ NoLinkEdit.step = "idle"
  BY DEF LinkEdit, NoLinkEdit

LEMMA ClearedType ==
    ASSUME NEW row \in [PortalTrainees -> LinkRow], NEW primary
    PROVE  /\ Cleared(row, primary) \in [PortalTrainees -> LinkRow]
           /\ \A t \in PortalTrainees :
                 /\ Cleared(row, primary)[t].state = row[t].state
                 /\ Cleared(row, primary)[t].relationship = row[t].relationship
                 /\ primary = "no" => Cleared(row, primary)[t] = row[t]
  BY DEF Cleared, LinkRow, Flag

(* The table with the saved link, and what clearing the flags leaves.      *)
LEMMA SavedType ==
    ASSUME LinksTypeOK, NEW u \in PortalUsers, NEW t \in PortalTrainees,
           NEW relationship \in Relationships, NEW primary \in Flag, NEW clear \in Flag
    PROVE  LET table == Saved(u, t, relationship, primary, clear)
           IN  /\ table \in [PortalUsers -> [PortalTrainees -> LinkRow]]
               /\ table[u][t] = [state |-> "live", relationship |-> relationship,
                                 primary |-> primary]
               /\ \A v \in PortalUsers, s \in PortalTrainees :
                     <<v, s>> # <<u, t>> =>
                        /\ table[v][s].state = link[v][s].state
                        /\ table[v][s].relationship = link[v][s].relationship
                        /\ (v # u \/ clear = "no") => table[v][s] = link[v][s]
  <1> DEFINE new == [state |-> "live", relationship |-> relationship, primary |-> primary]
  <1> DEFINE row == Cleared(link[u], clear)
  <1>1. link[u] \in [PortalTrainees -> LinkRow]
    BY DEF LinksTypeOK
  <1>2. /\ row \in [PortalTrainees -> LinkRow]
        /\ \A s \in PortalTrainees :
              /\ row[s].state = link[u][s].state
              /\ row[s].relationship = link[u][s].relationship
              /\ clear = "no" => row[s] = link[u][s]
    BY <1>1, ClearedType
  <1>3. new \in LinkRow
    BY DEF LinkRow
  <1>4. Saved(u, t, relationship, primary, clear) = [link EXCEPT ![u] = [row EXCEPT ![t] = new]]
    BY DEF Saved
  <1> HIDE DEF row, new
  <1>5. [row EXCEPT ![t] = new] \in [PortalTrainees -> LinkRow]
    BY <1>2, <1>3
  <1>6. link \in [PortalUsers -> [PortalTrainees -> LinkRow]]
    BY DEF LinksTypeOK
  <1>7. [row EXCEPT ![t] = new][t] = new
    BY <1>2
  <1>8. \A s \in PortalTrainees : s # t => [row EXCEPT ![t] = new][s] = row[s]
    BY <1>2
  <1> DEFINE put == [row EXCEPT ![t] = new]
  <1> HIDE DEF put
  <1>9. /\ [link EXCEPT ![u] = put] \in [PortalUsers -> [PortalTrainees -> LinkRow]]
        /\ [link EXCEPT ![u] = put][u] = put
        /\ \A v \in PortalUsers : v # u => [link EXCEPT ![u] = put][v] = link[v]
    BY <1>5, <1>6 DEF put
  <1> QED
    BY <1>2, <1>4, <1>7, <1>8, <1>9 DEF put, new

(* What a step must show: the user keeps the roles, no row vanishes, and   *)
(* each row and each running update that changes fits.                     *)
LEMMA Fitting ==
    ASSUME LinksInv, LinksTypeOK',
           \A u \in PortalUsers : roles[u] \subseteq roles'[u],
           \A u \in PortalUsers, t \in PortalTrainees :
              /\ link[u][t].state # "none" => link'[u][t].state # "none"
              /\ \/ link'[u][t].state = "none"
                 \/ /\ link[u][t].state # "none"
                    /\ link'[u][t].relationship = link[u][t].relationship
                 \/ FitsSome(roles'[u], link'[u][t].relationship),
           \A q \in LinkEditors :
              linkEdit'[q] = linkEdit[q] \/ EditFits(linkEdit'[q], roles', link')
    PROVE  LinksInv'
  <1>1. LinkFitsAccount'
    <2> SUFFICES ASSUME NEW u \in PortalUsers, NEW t \in PortalTrainees,
                        link'[u][t].state # "none"
                 PROVE  FitsSome(roles'[u], link'[u][t].relationship)
      BY DEF LinkFitsAccount, FitsSome
    <2>1. CASE FitsSome(roles'[u], link'[u][t].relationship)
      BY <2>1
    <2>2. CASE link[u][t].state # "none" /\ link'[u][t].relationship = link[u][t].relationship
      <3>1. FitsSome(roles[u], link[u][t].relationship)
        BY <2>2 DEF LinksInv, LinkFitsAccount, FitsSome
      <3> QED
        BY <2>2, <3>1 DEF FitsSome
    <2> QED
      BY <2>1, <2>2
  <1>2. EditsFit'
    <2> SUFFICES ASSUME NEW q \in LinkEditors, linkEdit'[q] = linkEdit[q]
                 PROVE  EditFits(linkEdit'[q], roles', link')
      BY DEF EditsFit
    <2>1. EditFits(linkEdit[q], roles, link) /\ linkEdit[q] \in LinkEdit
      BY DEF LinksInv, EditsFit, LinksTypeOK
    <2>2. CASE linkEdit[q].step = "save"
      BY <2>1, <2>2, SaveEdit DEF EditFits
    <2>3. CASE linkEdit[q].step = "write"
      BY <2>1, <2>3, WriteEdit DEF EditFits, FitsSome
    <2> QED
      BY <2>2, <2>3 DEF EditFits
  <1> QED
    BY <1>1, <1>2 DEF LinksInv

-----------------------------------------------------------------------------
LEMMA LinksInvInit == LinksInit => LinksInv
  <1> SUFFICES ASSUME LinksInit PROVE LinksInv
    OBVIOUS
  <1>1. LinksTypeOK
    BY IdleEdit DEF LinksInit, LinksTypeOK, LinkRow, Relationships, Flag, PortalRole
  <1>2. LinkFitsAccount /\ EditsFit
    BY IdleEdit DEF LinksInit, LinkFitsAccount, EditsFit, EditFits
  <1> QED
    BY <1>1, <1>2 DEF LinksInv

LEMMA CreateAccountStep ==
    ASSUME LinksInv, NEW u \in PortalUsers, NEW role \in PortalRole, CreateAccount(u, role)
    PROVE  LinksInv'
  <1>1. LinksTypeOK'
    BY DEF LinksInv, CreateAccount, LinksTypeOK
  <1>2. \A v \in PortalUsers : roles[v] \subseteq roles'[v]
    BY DEF LinksInv, CreateAccount, LinksTypeOK
  <1> QED
    BY <1>1, <1>2, Fitting DEF CreateAccount

LEMMA CreateTraineeAccountLinkStep ==
    ASSUME LinksInv, NEW u \in PortalUsers, NEW t \in PortalTrainees, CreateTraineeAccountLink(u, t)
    PROVE  LinksInv'
  <1>0. LinksTypeOK
    BY DEF LinksInv
  <1>1. /\ link' = Saved(u, t, "SELF", "yes", "no") /\ linkEdit' = linkEdit
        /\ roles[u] = {} /\ roles' = [roles EXCEPT ![u] = {"TRAINEE"}]
    BY DEF CreateTraineeAccountLink
  <1>2. roles' \in [PortalUsers -> SUBSET PortalRole] /\ roles'[u] = {"TRAINEE"}
        /\ \A v \in PortalUsers : roles[v] \subseteq roles'[v]
    BY <1>0, <1>1 DEF LinksTypeOK, PortalRole, ClientRole
  <1>3. "SELF" \in Relationships /\ "yes" \in Flag /\ "no" \in Flag
    BY DEF Relationships, Flag
  <1>4. /\ link' \in [PortalUsers -> [PortalTrainees -> LinkRow]]
        /\ link'[u][t] = [state |-> "live", relationship |-> "SELF", primary |-> "yes"]
        /\ \A v \in PortalUsers, s \in PortalTrainees :
              <<v, s>> # <<u, t>> => link'[v][s].state = link[v][s].state
                                     /\ link'[v][s].relationship = link[v][s].relationship
    BY <1>0, <1>1, <1>3, SavedType
  <1>5. LinksTypeOK'
    BY <1>0, <1>1, <1>2, <1>4 DEF LinksTypeOK
  <1>6. FitsSome(roles'[u], "SELF")
    BY <1>2 DEF FitsSome, Fits, ClientRole
  <1>7. \A v \in PortalUsers, s \in PortalTrainees :
              /\ link[v][s].state # "none" => link'[v][s].state # "none"
              /\ \/ link'[v][s].state = "none"
                 \/ /\ link[v][s].state # "none"
                    /\ link'[v][s].relationship = link[v][s].relationship
                 \/ FitsSome(roles'[v], link'[v][s].relationship)
    BY <1>4, <1>6
  <1> QED
    BY <1>1, <1>2, <1>5, <1>7, Fitting

LEMMA CreateLinkStep ==
    ASSUME LinksInv, NEW u \in PortalUsers, NEW t \in PortalTrainees,
           NEW relationship \in Relationships, NEW primary \in Flag,
           CreateLink(u, t, relationship, primary)
    PROVE  LinksInv'
  <1>0. LinksTypeOK
    BY DEF LinksInv
  <1>1. /\ link' = Saved(u, t, relationship, primary, primary)
        /\ linkEdit' = linkEdit /\ roles' = roles
        /\ FitsSome(roles[u], relationship)
    BY DEF CreateLink, Linkable, FitsSome
  <1>2. /\ link' \in [PortalUsers -> [PortalTrainees -> LinkRow]]
        /\ link'[u][t] = [state |-> "live", relationship |-> relationship, primary |-> primary]
        /\ \A v \in PortalUsers, s \in PortalTrainees :
              <<v, s>> # <<u, t>> => link'[v][s].state = link[v][s].state
                                     /\ link'[v][s].relationship = link[v][s].relationship
    BY <1>0, <1>1, SavedType
  <1>3. LinksTypeOK'
    BY <1>0, <1>1, <1>2 DEF LinksTypeOK
  <1>4. \A v \in PortalUsers, s \in PortalTrainees :
              /\ link[v][s].state # "none" => link'[v][s].state # "none"
              /\ \/ link'[v][s].state = "none"
                 \/ /\ link[v][s].state # "none"
                    /\ link'[v][s].relationship = link[v][s].relationship
                 \/ FitsSome(roles'[v], link'[v][s].relationship)
    BY <1>1, <1>2
  <1> QED
    BY <1>1, <1>3, <1>4, Fitting

LEMMA ReadLinkStep ==
    ASSUME LinksInv, NEW q \in LinkEditors, NEW u \in PortalUsers, NEW t \in PortalTrainees,
           ReadLink(q, u, t)
    PROVE  LinksInv'
  <1>0. LinksTypeOK
    BY DEF LinksInv
  <1>1. PICK role \in roles[u] :
            linkEdit' = [linkEdit EXCEPT ![q] = [step |-> "save", user |-> u, trainee |-> t,
                                                 read |-> link[u][t], role |-> role]]
    BY DEF ReadLink
  <1>2. /\ role \in PortalRole /\ link[u][t] \in LinkRow /\ link[u][t].state = "live"
        /\ roles' = roles /\ link' = link
    BY <1>0 DEF ReadLink, LinksTypeOK, Live
  <1> DEFINE e == [step |-> "save", user |-> u, trainee |-> t, read |-> link[u][t], role |-> role]
  <1>3. e \in LinkEdit
    BY <1>2 DEF LinkEdit
  <1>4. EditFits(e, roles, link)
    BY <1>2 DEF EditFits
  <1>5. /\ linkEdit' \in [LinkEditors -> LinkEdit] /\ linkEdit'[q] = e
        /\ \A p \in LinkEditors : p # q => linkEdit'[p] = linkEdit[p]
    BY <1>0, <1>1, <1>3 DEF LinksTypeOK
  <1> HIDE DEF e
  <1>6. LinksTypeOK'
    BY <1>0, <1>2, <1>5 DEF LinksTypeOK
  <1>7. \A p \in LinkEditors : linkEdit'[p] = linkEdit[p] \/ EditFits(linkEdit'[p], roles', link')
    BY <1>2, <1>4, <1>5
  <1> QED
    BY <1>2, <1>6, <1>7, Fitting

(* The request is done. *)
LEMMA Done ==
    ASSUME LinksTypeOK, NEW q \in LinkEditors,
           linkEdit' = [linkEdit EXCEPT ![q] = NoLinkEdit]
    PROVE  /\ linkEdit' \in [LinkEditors -> LinkEdit]
           /\ \A p \in LinkEditors :
                 linkEdit'[p] = linkEdit[p] \/ EditFits(linkEdit'[p], roles', link')
  BY IdleEdit DEF LinksTypeOK, EditFits

LEMMA SaveAsPrimaryStep ==
    ASSUME LinksInv, NEW q \in LinkEditors, NEW relationship \in Relationships,
           SaveAsPrimary(q, relationship)
    PROVE  LinksInv'
  <1>0. LinksTypeOK
    BY DEF LinksInv
  <1> DEFINE e == linkEdit[q]
  <1>1. /\ e \in LinkEdit /\ e.step = "save" /\ Fits(e.role, relationship)
        /\ link' = Saved(e.user, e.trainee, relationship, "yes", "yes")
        /\ linkEdit' = [linkEdit EXCEPT ![q] = NoLinkEdit] /\ roles' = roles
    BY <1>0 DEF SaveAsPrimary, LinksTypeOK
  <1>2. e.user \in PortalUsers /\ e.trainee \in PortalTrainees
    BY <1>1, SaveEdit
  <1>3. EditFits(e, roles, link)
    BY DEF LinksInv, EditsFit
  <1>4. FitsSome(roles[e.user], relationship)
    BY <1>1, <1>2, <1>3 DEF EditFits, FitsSome, LinksInv, LinkFitsAccount
  <1> HIDE DEF e
  <1>5. "yes" \in Flag
    BY DEF Flag
  <1>6. /\ link' \in [PortalUsers -> [PortalTrainees -> LinkRow]]
        /\ link'[e.user][e.trainee] =
              [state |-> "live", relationship |-> relationship, primary |-> "yes"]
        /\ \A v \in PortalUsers, s \in PortalTrainees :
              <<v, s>> # <<e.user, e.trainee>> =>
                  link'[v][s].state = link[v][s].state
                  /\ link'[v][s].relationship = link[v][s].relationship
    BY <1>0, <1>1, <1>2, <1>5, SavedType
  <1>7. LinksTypeOK'
    BY <1>0, <1>1, <1>6, Done DEF LinksTypeOK
  <1>8. \A v \in PortalUsers, s \in PortalTrainees :
              /\ link[v][s].state # "none" => link'[v][s].state # "none"
              /\ \/ link'[v][s].state = "none"
                 \/ /\ link[v][s].state # "none"
                    /\ link'[v][s].relationship = link[v][s].relationship
                 \/ FitsSome(roles'[v], link'[v][s].relationship)
    BY <1>1, <1>4, <1>6
  <1>9. \A p \in LinkEditors : linkEdit'[p] = linkEdit[p] \/ EditFits(linkEdit'[p], roles', link')
    BY <1>0, <1>1, Done
  <1> QED
    BY <1>1, <1>7, <1>8, <1>9, Fitting

LEMMA DifferingType ==
    ASSUME NEW entity \in LinkRow, entity.state = "live", NEW base \in LinkRow
    PROVE  /\ Differing(entity, base) \in LinkUpdate
           /\ Differing(entity, base).relationship \in {"kept", entity.relationship}
  BY DEF Differing, LinkRow, LinkUpdate, Relationships, Flag

LEMMA SelectLinkStep ==
    ASSUME LinksInv, NEW q \in LinkEditors, NEW relationship \in Relationships,
           NEW asked \in {"no", "none"}, SelectLink(q, relationship, asked)
    PROVE  LinksInv'
  <1>0. LinksTypeOK
    BY DEF LinksInv
  <1> DEFINE e == linkEdit[q]
  <1> DEFINE entity == Merged(e, relationship, IF asked = "none" THEN e.read.primary ELSE asked)
  <1> DEFINE w == [step |-> "write", user |-> e.user, trainee |-> e.trainee,
                   update |-> Differing(entity, link[e.user][e.trainee])]
  <1>1. /\ e \in LinkEdit /\ e.step = "save" /\ Fits(e.role, relationship)
        /\ linkEdit' = [linkEdit EXCEPT ![q] = w] /\ roles' = roles /\ link' = link
    BY <1>0 DEF SelectLink, LinksTypeOK
  <1>2. e.user \in PortalUsers /\ e.trainee \in PortalTrainees /\ e.read \in LinkRow
    BY <1>1, SaveEdit
  <1>3. EditFits(e, roles, link)
    BY DEF LinksInv, EditsFit
  <1>4. /\ FitsSome(roles[e.user], relationship)
        /\ link[e.user][e.trainee].state # "none"
    BY <1>1, <1>2, <1>3 DEF EditFits, FitsSome, LinksInv, LinkFitsAccount
  <1>5. e.read.state = "live"
    BY <1>1, <1>3 DEF EditFits
  <1>6. /\ entity \in LinkRow /\ entity.state = "live"
        /\ entity.relationship = relationship
    BY <1>2, <1>5 DEF Merged, LinkRow, Flag
  <1>7. link[e.user][e.trainee] \in LinkRow
    BY <1>0, <1>2 DEF LinksTypeOK
  <1>8. /\ Differing(entity, link[e.user][e.trainee]) \in LinkUpdate
        /\ Differing(entity, link[e.user][e.trainee]).relationship \in {"kept", relationship}
    BY <1>6, <1>7, DifferingType
  <1>9. w \in LinkEdit
    BY <1>2, <1>8 DEF LinkEdit
  <1>10. EditFits(w, roles, link)
    BY <1>4, <1>8 DEF EditFits
  <1>11. /\ linkEdit' \in [LinkEditors -> LinkEdit] /\ linkEdit'[q] = w
         /\ \A p \in LinkEditors : p # q => linkEdit'[p] = linkEdit[p]
    BY <1>0, <1>1, <1>9 DEF LinksTypeOK
  <1> HIDE DEF w, e, entity
  <1>12. LinksTypeOK'
    BY <1>0, <1>1, <1>11 DEF LinksTypeOK
  <1>13. \A p \in LinkEditors : linkEdit'[p] = linkEdit[p] \/ EditFits(linkEdit'[p], roles', link')
    BY <1>1, <1>10, <1>11
  <1> QED
    BY <1>1, <1>12, <1>13, Fitting

LEMMA UpdatedType ==
    ASSUME NEW current \in LinkRow, NEW update \in LinkUpdate
    PROVE  /\ Updated(current, update) \in LinkRow
           /\ current.state # "none" => Updated(current, update).state # "none"
           /\ Updated(current, update).relationship =
                 IF update.relationship = "kept" THEN current.relationship
                 ELSE update.relationship
  BY DEF Updated, LinkRow, LinkUpdate, Relationships, Flag

LEMMA WriteLinkStep ==
    ASSUME LinksInv, NEW q \in LinkEditors, WriteLink(q)
    PROVE  LinksInv'
  <1>0. LinksTypeOK
    BY DEF LinksInv
  <1> DEFINE e == linkEdit[q]
  <1> DEFINE row == Updated(link[e.user][e.trainee], e.update)
  <1>1. /\ e \in LinkEdit /\ e.step = "write"
        /\ link' = [link EXCEPT ![e.user][e.trainee] = row]
        /\ linkEdit' = [linkEdit EXCEPT ![q] = NoLinkEdit] /\ roles' = roles
    BY <1>0 DEF WriteLink, LinksTypeOK
  <1>2. e.user \in PortalUsers /\ e.trainee \in PortalTrainees /\ e.update \in LinkUpdate
    BY <1>1, WriteEdit
  <1>3. EditFits(e, roles, link)
    BY DEF LinksInv, EditsFit
  <1>4. /\ link[e.user][e.trainee].state # "none"
        /\ e.update.relationship # "kept" => FitsSome(roles[e.user], e.update.relationship)
    BY <1>1, <1>3 DEF EditFits
  <1>5. link[e.user][e.trainee] \in LinkRow
    BY <1>0, <1>2 DEF LinksTypeOK
  <1>6. /\ row \in LinkRow /\ row.state # "none"
        /\ row.relationship = IF e.update.relationship = "kept"
                              THEN link[e.user][e.trainee].relationship
                              ELSE e.update.relationship
    BY <1>2, <1>4, <1>5, UpdatedType
  <1> HIDE DEF row, e
  <1>7. /\ link' \in [PortalUsers -> [PortalTrainees -> LinkRow]]
        /\ link'[e.user][e.trainee] = row
        /\ \A v \in PortalUsers, s \in PortalTrainees :
              <<v, s>> # <<e.user, e.trainee>> => link'[v][s] = link[v][s]
    BY <1>0, <1>1, <1>2, <1>6 DEF LinksTypeOK
  <1>8. LinksTypeOK'
    BY <1>0, <1>1, <1>7, Done DEF LinksTypeOK
  <1>9. \A v \in PortalUsers, s \in PortalTrainees :
              /\ link[v][s].state # "none" => link'[v][s].state # "none"
              /\ \/ link'[v][s].state = "none"
                 \/ /\ link[v][s].state # "none"
                    /\ link'[v][s].relationship = link[v][s].relationship
                 \/ FitsSome(roles'[v], link'[v][s].relationship)
    BY <1>1, <1>4, <1>6, <1>7
  <1>10. \A p \in LinkEditors : linkEdit'[p] = linkEdit[p] \/ EditFits(linkEdit'[p], roles', link')
    BY <1>0, <1>1, Done
  <1> QED
    BY <1>1, <1>8, <1>9, <1>10, Fitting

LEMMA RefuseLinkStep ==
    ASSUME LinksInv, NEW q \in LinkEditors, RefuseLink(q)
    PROVE  LinksInv'
  <1>0. LinksTypeOK
    BY DEF LinksInv
  <1>1. /\ linkEdit' = [linkEdit EXCEPT ![q] = NoLinkEdit]
        /\ roles' = roles /\ link' = link
    BY DEF RefuseLink
  <1>2. LinksTypeOK'
    BY <1>0, <1>1, Done DEF LinksTypeOK
  <1>3. \A p \in LinkEditors : linkEdit'[p] = linkEdit[p] \/ EditFits(linkEdit'[p], roles', link')
    BY <1>0, <1>1, Done
  <1> QED
    BY <1>1, <1>2, <1>3, Fitting

LEMMA RemoveLinkStep ==
    ASSUME LinksInv, NEW u \in PortalUsers, NEW t \in PortalTrainees, RemoveLink(u, t)
    PROVE  LinksInv'
  <1>0. LinksTypeOK
    BY DEF LinksInv
  <1>1. /\ link' = [link EXCEPT ![u][t].state = "removed"]
        /\ roles' = roles /\ linkEdit' = linkEdit /\ link[u][t].state = "live"
    BY DEF RemoveLink, Live
  <1>2. /\ link' \in [PortalUsers -> [PortalTrainees -> LinkRow]]
        /\ link'[u][t] = [link[u][t] EXCEPT !.state = "removed"]
        /\ \A v \in PortalUsers, s \in PortalTrainees :
              <<v, s>> # <<u, t>> => link'[v][s] = link[v][s]
    <2> DEFINE row == [link[u][t] EXCEPT !.state = "removed"]
    <2>1. link[u][t] \in LinkRow /\ link \in [PortalUsers -> [PortalTrainees -> LinkRow]]
      BY <1>0 DEF LinksTypeOK
    <2>2. row \in LinkRow
      BY <2>1 DEF LinkRow
    <2>3. link' = [link EXCEPT ![u][t] = row]
      BY <1>1
    <2> HIDE DEF row
    <2>4. /\ link' \in [PortalUsers -> [PortalTrainees -> LinkRow]]
          /\ link'[u][t] = row
          /\ \A v \in PortalUsers, s \in PortalTrainees :
                <<v, s>> # <<u, t>> => link'[v][s] = link[v][s]
      BY <2>1, <2>2, <2>3
    <2> QED
      BY <2>4 DEF row
  <1>3. LinksTypeOK'
    BY <1>0, <1>1, <1>2 DEF LinksTypeOK
  <1>4. \A v \in PortalUsers, s \in PortalTrainees :
              /\ link[v][s].state # "none" => link'[v][s].state # "none"
              /\ \/ link'[v][s].state = "none"
                 \/ /\ link[v][s].state # "none"
                    /\ link'[v][s].relationship = link[v][s].relationship
                 \/ FitsSome(roles'[v], link'[v][s].relationship)
    <2>1. link[u][t] \in LinkRow
      BY <1>0 DEF LinksTypeOK
    <2>2. /\ link'[u][t].state # "none" /\ link[u][t].state # "none"
          /\ link'[u][t].relationship = link[u][t].relationship
      BY <1>1, <1>2, <2>1 DEF LinkRow
    <2> QED
      BY <1>2, <2>2
  <1> QED
    BY <1>1, <1>3, <1>4, Fitting

(* What an approval makes of the row of user v and trainee s. *)
Approved(u, t, v, s) ==
    LET l == link[v][s]
    IN  CASE v = u /\ s = t ->
               [state |-> "live", primary |-> "yes",
                relationship |-> IF l.state = "none" THEN "SELF" ELSE l.relationship]
          [] v # u /\ s = t /\ IsSelf(l) -> [l EXCEPT !.state = "removed"]
          [] OTHER -> l

LEMMA ApprovedRow ==
    ASSUME LinksTypeOK, NEW u, NEW t, NEW v \in PortalUsers, NEW s \in PortalTrainees
    PROVE  /\ Approved(u, t, v, s) \in LinkRow
           /\ link[v][s].state # "none" =>
                 /\ Approved(u, t, v, s).state # "none"
                 /\ Approved(u, t, v, s).relationship = link[v][s].relationship
           /\ Approved(u, t, v, s).state # "none" =>
                 link[v][s].state # "none" \/ (v = u /\ Approved(u, t, v, s).relationship = "SELF")
  <1>1. link[v][s] \in LinkRow
    BY DEF LinksTypeOK
  <1>2. CASE v = u /\ s = t
    <2>1. Approved(u, t, v, s) = [state |-> "live", primary |-> "yes",
                  relationship |-> IF link[v][s].state = "none" THEN "SELF"
                                   ELSE link[v][s].relationship]
      BY <1>2 DEF Approved
    <2> QED
      BY <1>1, <1>2, <2>1 DEF LinkRow, Relationships, Flag
  <1>3. CASE v # u /\ s = t /\ IsSelf(link[v][s])
    <2>1. Approved(u, t, v, s) = [link[v][s] EXCEPT !.state = "removed"]
      BY <1>3 DEF Approved
    <2> QED
      BY <1>1, <1>3, <2>1 DEF LinkRow, IsSelf, Live
  <1>4. CASE ~(v = u /\ s = t) /\ ~(v # u /\ s = t /\ IsSelf(link[v][s]))
    <2>1. Approved(u, t, v, s) = link[v][s]
      BY <1>4 DEF Approved
    <2> QED
      BY <1>1, <2>1
  <1> QED
    BY <1>2, <1>3, <1>4

LEMMA ApproveLinkStep ==
    ASSUME LinksInv, NEW u \in PortalUsers, NEW t \in PortalTrainees, ApproveLink(u, t)
    PROVE  LinksInv'
  <1>0. LinksTypeOK
    BY DEF LinksInv
  <1>1. /\ roles' = [roles EXCEPT ![u] = @ \cup {"TRAINEE"}]
        /\ link' = [v \in PortalUsers |-> [s \in PortalTrainees |-> Approved(u, t, v, s)]]
        /\ linkEdit' = linkEdit
    BY DEF ApproveLink, Approved
  <1>2. /\ roles' \in [PortalUsers -> SUBSET PortalRole] /\ "TRAINEE" \in roles'[u]
        /\ \A v \in PortalUsers : roles[v] \subseteq roles'[v]
    BY <1>0, <1>1 DEF LinksTypeOK, PortalRole, ClientRole
  <1>3. \A v \in PortalUsers, s \in PortalTrainees : link'[v][s] = Approved(u, t, v, s)
    BY <1>1
  <1>4. link' \in [PortalUsers -> [PortalTrainees -> LinkRow]]
    BY <1>0, <1>1, ApprovedRow
  <1>5. LinksTypeOK'
    BY <1>0, <1>1, <1>2, <1>4 DEF LinksTypeOK
  <1>6. FitsSome(roles'[u], "SELF")
    BY <1>2 DEF FitsSome, Fits, ClientRole
  <1>7. ASSUME NEW v \in PortalUsers, NEW s \in PortalTrainees
        PROVE  /\ link[v][s].state # "none" => link'[v][s].state # "none"
               /\ \/ link'[v][s].state = "none"
                  \/ /\ link[v][s].state # "none"
                     /\ link'[v][s].relationship = link[v][s].relationship
                  \/ FitsSome(roles'[v], link'[v][s].relationship)
    BY <1>0, <1>3, <1>6, ApprovedRow
  <1> QED
    BY <1>1, <1>2, <1>5, <1>7, Fitting

LEMMA LinksInvNext == LinksInv /\ [LinksNext]_linkVars => LinksInv'
  <1> SUFFICES ASSUME LinksInv, [LinksNext]_linkVars PROVE LinksInv'
    OBVIOUS
  <1>1. ASSUME NEW u \in PortalUsers, NEW role \in PortalRole, CreateAccount(u, role)
        PROVE  LinksInv'
    BY <1>1, CreateAccountStep
  <1>2. ASSUME NEW u \in PortalUsers, NEW t \in PortalTrainees,
               \/ CreateTraineeAccountLink(u, t)
               \/ \E relationship \in Relationships, primary \in Flag :
                     CreateLink(u, t, relationship, primary)
               \/ RemoveLink(u, t)
               \/ ApproveLink(u, t)
               \/ \E q \in LinkEditors : ReadLink(q, u, t)
        PROVE  LinksInv'
    BY <1>2, CreateTraineeAccountLinkStep, CreateLinkStep, RemoveLinkStep, ApproveLinkStep,
       ReadLinkStep
  <1>3. ASSUME NEW q \in LinkEditors,
               \/ \E relationship \in Relationships :
                     \/ SaveAsPrimary(q, relationship)
                     \/ \E asked \in {"no", "none"} : SelectLink(q, relationship, asked)
               \/ WriteLink(q)
               \/ RefuseLink(q)
        PROVE  LinksInv'
    BY <1>3, SaveAsPrimaryStep, SelectLinkStep, WriteLinkStep, RefuseLinkStep
  <1>4. CASE UNCHANGED linkVars
    BY <1>4 DEF linkVars, LinksInv, LinksTypeOK, LinkFitsAccount, EditsFit, EditFits, FitsSome
  <1> QED
    BY <1>1, <1>2, <1>3, <1>4 DEF LinksNext

(* PortalLinks keeps its types. *)
THEOREM LinksTypeCorrect == LinksSpec => []LinksTypeOK
  BY LinksInvInit, LinksInvNext, PTL DEF LinksSpec, LinksInv

(* Whoever is linked has a client's account, a trainee's as the trainee    *)
(* and a parent's as a parent, unless it is the staff's too (createLink,   *)
(* updateLink and approve).                                                *)
THEOREM LinksFitAccounts == LinksSpec => []LinkFitsAccount
  BY LinksInvInit, LinksInvNext, PTL DEF LinksSpec, LinksInv

-----------------------------------------------------------------------------
(* What PrimarySurvives says of one link in one step. *)
Survives(u, t) ==
    (IsPrimary(link[u][t]) /\ ~IsPrimary(link'[u][t])) =>
        \/ \E s \in PortalTrainees : IsPrimary(link'[u][s])
        \/ link'[u][t].state = "removed"
        \/ \E q \in LinkEditors :
              /\ linkEdit[q].step = "write" /\ linkEdit'[q].step = "idle"
              /\ linkEdit[q].user = u /\ linkEdit[q].trainee = t

(* A save that clears the flags puts the new one in the same step; one     *)
(* that does not leaves the flags as they are.                             *)
LEMMA SavedSurvives ==
    ASSUME LinksTypeOK, NEW u \in PortalUsers, NEW t \in PortalTrainees,
           NEW relationship \in Relationships, NEW primary \in Flag, NEW clear \in Flag,
           primary = "yes" \/ (clear = "no" /\ link[u][t].state = "none"),
           link' = Saved(u, t, relationship, primary, clear)
    PROVE  \A v \in PortalUsers, s \in PortalTrainees : Survives(v, s)
  <1>1. /\ link'[u][t] = [state |-> "live", relationship |-> relationship, primary |-> primary]
        /\ \A v \in PortalUsers, s \in PortalTrainees :
              (<<v, s>> # <<u, t>> /\ (v # u \/ clear = "no")) => link'[v][s] = link[v][s]
    BY SavedType
  <1>2. CASE primary = "yes"
    <2>1. IsPrimary(link'[u][t])
      BY <1>1, <1>2 DEF IsPrimary, Live
    <2> QED
      BY <1>1, <2>1 DEF Survives
  <1>3. CASE clear = "no" /\ link[u][t].state = "none"
    BY <1>1, <1>3 DEF Survives, IsPrimary, Live
  <1> QED
    BY <1>2, <1>3

LEMMA WriteSurvives ==
    ASSUME LinksTypeOK, NEW q \in LinkEditors, WriteLink(q)
    PROVE  \A v \in PortalUsers, s \in PortalTrainees : Survives(v, s)
  <1> DEFINE e == linkEdit[q]
  <1>1. /\ e \in LinkEdit /\ e.step = "write" /\ linkEdit'[q] = NoLinkEdit
        /\ link' = [link EXCEPT ![e.user][e.trainee] = Updated(@, e.update)]
    BY DEF WriteLink, LinksTypeOK
  <1>2. e.user \in PortalUsers /\ e.trainee \in PortalTrainees
    BY <1>1, WriteEdit
  <1>3. linkEdit'[q].step = "idle"
    BY <1>1, IdleEdit
  <1>4. \A v \in PortalUsers, s \in PortalTrainees :
            (v # e.user \/ s # e.trainee) => link'[v][s] = link[v][s]
    BY <1>1, <1>2 DEF LinksTypeOK
  <1> QED
    BY <1>1, <1>3, <1>4 DEF Survives

LEMMA RemoveSurvives ==
    ASSUME LinksTypeOK, NEW u \in PortalUsers, NEW t \in PortalTrainees, RemoveLink(u, t)
    PROVE  \A v \in PortalUsers, s \in PortalTrainees : Survives(v, s)
  <1>1. /\ link'[u][t].state = "removed"
        /\ \A v \in PortalUsers, s \in PortalTrainees :
              (v # u \/ s # t) => link'[v][s] = link[v][s]
    BY DEF RemoveLink, LinksTypeOK, LinkRow
  <1> QED
    BY <1>1 DEF Survives

LEMMA ApproveSurvives ==
    ASSUME LinksTypeOK, NEW u \in PortalUsers, NEW t \in PortalTrainees, ApproveLink(u, t)
    PROVE  \A v \in PortalUsers, s \in PortalTrainees : Survives(v, s)
  <1> TAKE v \in PortalUsers, s \in PortalTrainees
  <1>1. link'[v][s] = Approved(u, t, v, s) /\ link[v][s] \in LinkRow
    BY DEF ApproveLink, Approved, LinksTypeOK
  <1>2. \/ Approved(u, t, v, s).state = "live" /\ Approved(u, t, v, s).primary = "yes"
        \/ Approved(u, t, v, s).state = "removed"
        \/ Approved(u, t, v, s) = link[v][s]
    <2>1. CASE v = u /\ s = t
      BY <2>1 DEF Approved
    <2>2. CASE v # u /\ s = t /\ IsSelf(link[v][s])
      BY <1>1, <2>2 DEF Approved, LinkRow
    <2>3. CASE ~(v = u /\ s = t) /\ ~(v # u /\ s = t /\ IsSelf(link[v][s]))
      BY <2>3 DEF Approved
    <2> QED
      BY <2>1, <2>2, <2>3
  <1> QED
    BY <1>1, <1>2 DEF Survives, IsPrimary, Live

LEMMA StepSurvives ==
    ASSUME LinksTypeOK, [LinksNext]_linkVars
    PROVE  \A v \in PortalUsers, s \in PortalTrainees : Survives(v, s)
  <1>1. CASE link' = link
    BY <1>1 DEF Survives
  <1>2. ASSUME NEW u \in PortalUsers, NEW t \in PortalTrainees, CreateTraineeAccountLink(u, t)
        PROVE  \A v \in PortalUsers, s \in PortalTrainees : Survives(v, s)
    BY <1>2, SavedSurvives DEF CreateTraineeAccountLink, Relationships, Flag
  <1>3. ASSUME NEW u \in PortalUsers, NEW t \in PortalTrainees,
               NEW relationship \in Relationships, NEW primary \in Flag,
               CreateLink(u, t, relationship, primary)
        PROVE  \A v \in PortalUsers, s \in PortalTrainees : Survives(v, s)
    <2>1. link[u][t].state = "none" /\ link' = Saved(u, t, relationship, primary, primary)
      BY <1>3 DEF CreateLink
    <2>2. primary = "yes" \/ primary = "no"
      BY DEF Flag
    <2> QED
      BY <2>1, <2>2, SavedSurvives
  <1>4. ASSUME NEW q \in LinkEditors, NEW relationship \in Relationships,
               SaveAsPrimary(q, relationship)
        PROVE  \A v \in PortalUsers, s \in PortalTrainees : Survives(v, s)
    <2> DEFINE e == linkEdit[q]
    <2>1. /\ e \in LinkEdit /\ e.step = "save"
          /\ link' = Saved(e.user, e.trainee, relationship, "yes", "yes")
      BY <1>4 DEF SaveAsPrimary, LinksTypeOK
    <2>2. e.user \in PortalUsers /\ e.trainee \in PortalTrainees
      BY <2>1, SaveEdit
    <2>3. "yes" \in Flag
      BY DEF Flag
    <2> QED
      BY <2>1, <2>2, <2>3, SavedSurvives
  <1>5. ASSUME NEW q \in LinkEditors, NEW relationship, NEW asked,
               SelectLink(q, relationship, asked)
        PROVE  link' = link
    BY <1>5 DEF SelectLink
  <1>6. ASSUME NEW q \in LinkEditors, NEW u, NEW t, ReadLink(q, u, t) PROVE link' = link
    BY <1>6 DEF ReadLink
  <1>7. ASSUME NEW q \in LinkEditors, RefuseLink(q) PROVE link' = link
    BY <1>7 DEF RefuseLink
  <1>8. ASSUME NEW u, NEW role, CreateAccount(u, role) PROVE link' = link
    BY <1>8 DEF CreateAccount
  <1>9. CASE UNCHANGED linkVars
    BY <1>1, <1>9 DEF linkVars
  <1> QED
    BY <1>1, <1>2, <1>3, <1>4, <1>5, <1>6, <1>7, <1>8, <1>9, WriteSurvives, RemoveSurvives,
       ApproveSurvives DEF LinksNext

(* A link stops being primary only for another, by its own update or when  *)
(* it is removed (createLink and updateLink).                              *)
THEOREM PrimaryLinksSurvive == LinksSpec => PrimarySurvives
  <1>1. LinksTypeOK /\ [LinksNext]_linkVars =>
            [\A u \in PortalUsers, t \in PortalTrainees : Survives(u, t)]_linkVars
    BY StepSurvives
  <1>2. [\A u \in PortalUsers, t \in PortalTrainees : Survives(u, t)]_linkVars =>
            [\A u \in PortalUsers, t \in PortalTrainees :
                (IsPrimary(link[u][t]) /\ ~IsPrimary(link'[u][t])) =>
                    \/ \E s \in PortalTrainees : IsPrimary(link'[u][s])
                    \/ link'[u][t].state = "removed"
                    \/ \E q \in LinkEditors :
                          /\ linkEdit[q].step = "write" /\ linkEdit'[q].step = "idle"
                          /\ linkEdit[q].user = u /\ linkEdit[q].trainee = t]_linkVars
    BY DEF Survives
  <1> QED
    BY <1>1, <1>2, LinksTypeCorrect, PTL DEF LinksSpec, PrimarySurvives
=============================================================================
