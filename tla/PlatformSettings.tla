-------------------------- MODULE PlatformSettings --------------------------
(***************************************************************************)
(* The platform's settings (backend/src/super-admin-management).  Each     *)
(* instance of the backend inserts the settings that are missing when it   *)
(* starts; an administrator changes a setting or adds one.  Both look for  *)
(* the key and then save, and the key is unique: the second insert fails,  *)
(* with it the request or the start, which is begun again.                 *)
(*                                                                         *)
(* Left out: categories, visibility, the audit of each change, which is    *)
(* written by a statement of its own afterwards; tickets and users.        *)
(***************************************************************************)
EXTENDS Persistence

CONSTANTS
    Keys,           \* those of the default settings, started in any order
    Instances,
    PlatformAdmins, \* requests of updateSetting that may run at the same time
    Values          \* what an administrator sets

ASSUME SettingsAssumption ==
    /\ Values \cap {"none", "default"} = {}
    /\ "nothing" \notin Keys

VARIABLES
    setting,    \* the value of each key, "none" without a row
    boot,       \* the keys each start has not looked at, and the one it is to insert
    setter      \* where each updateSetting stands

settingVars == <<setting, boot, setter>>

SettingValue == {"none", "default"} \cup Values
Boot == [left : SUBSET Keys, insert : Keys \cup {"nothing"}]
NoSetter == [step |-> "idle"]
Setter ==
    {NoSetter}
    \cup [step : {"insert", "save"}, key : Keys, value : Values]
    \cup [step : {"write"}, key : Keys, entity : [value : Values], base : [value : SettingValue]]

NotBooted == [left |-> Keys, insert |-> "nothing"]

SettingsInit ==
    /\ setting = [k \in Keys |-> "none"]
    /\ boot = [i \in Instances |-> NotBooted]
    /\ setter = [a \in PlatformAdmins |-> NoSetter]

(* onModuleInit *)
LookForDefault(i, k) ==
    /\ boot[i].insert = "nothing" /\ k \in boot[i].left
    /\ boot' = [boot EXCEPT ![i] = [left |-> @.left \ {k},
                                   insert |-> IF setting[k] = "none" THEN k ELSE "nothing"]]
    /\ UNCHANGED <<setting, setter>>

(* Slip: the default is written over whatever row there is by now. *)
UpsertDefault(i) ==
    LET k == boot[i].insert
    IN  /\ k # "nothing"
        /\ setting' = [setting EXCEPT ![k] = "default"]
        /\ boot' = [boot EXCEPT ![i].insert = "nothing"]
        /\ UNCHANGED setter

(* A save without an id inserts: the key is unique. *)
InsertDefault(i) ==
    LET k == boot[i].insert
    IN  /\ k # "nothing" /\ setting[k] = "none"
        /\ setting' = [setting EXCEPT ![k] = "default"]
        /\ boot' = [boot EXCEPT ![i].insert = "nothing"]
        /\ UNCHANGED setter

(* A refused insert, an error or a stop: the instance starts anew. *)
StartAnew(i) ==
    /\ boot' = [boot EXCEPT ![i] = NotBooted]
    /\ UNCHANGED <<setting, setter>>

(* updateSetting; an instance serves requests once it has started. *)
FindSetting(a, k, value) ==
    /\ setter[a] = NoSetter
    /\ \E i \in Instances : boot[i] = [left |-> {}, insert |-> "nothing"]
    /\ setter' = [setter EXCEPT ![a] =
          [step |-> IF setting[k] = "none" THEN "insert" ELSE "save", key |-> k, value |-> value]]
    /\ UNCHANGED <<setting, boot>>

InsertSetting(a) ==
    LET s == setter[a]
    IN  /\ s.step = "insert" /\ setting[s.key] = "none"
        /\ setting' = [setting EXCEPT ![s.key] = s.value]
        /\ setter' = [setter EXCEPT ![a] = NoSetter]
        /\ UNCHANGED boot

SelectSetting(a) ==
    LET s == setter[a]
    IN  /\ s.step = "save"
        /\ setter' = [setter EXCEPT ![a] = [step |-> "write", key |-> s.key,
              entity |-> [value |-> s.value], base |-> [value |-> setting[s.key]]]]
        /\ UNCHANGED <<setting, boot>>

WriteSetting(a) ==
    LET s == setter[a]
    IN  /\ s.step = "write"
        /\ setting' = [setting EXCEPT
              ![s.key] = Written(s.entity, s.base, [value |-> setting[s.key]]).value]
        /\ setter' = [setter EXCEPT ![a] = NoSetter]
        /\ UNCHANGED boot

FailSetting(a) ==
    /\ setter[a] # NoSetter
    /\ setter' = [setter EXCEPT ![a] = NoSetter]
    /\ UNCHANGED <<setting, boot>>

SettingsNext ==
    \/ \E i \in Instances :
        InsertDefault(i) \/ StartAnew(i) \/ \E k \in Keys : LookForDefault(i, k)
    \/ \E a \in PlatformAdmins :
        \/ InsertSetting(a) \/ SelectSetting(a) \/ WriteSetting(a) \/ FailSetting(a)
        \/ \E k \in Keys, value \in Values : FindSetting(a, k, value)

SettingsSpec == SettingsInit /\ [][SettingsNext]_settingVars

-----------------------------------------------------------------------------
SettingsTypeOK ==
    /\ setting \in [Keys -> SettingValue]
    /\ boot \in [Instances -> Boot]
    /\ setter \in [PlatformAdmins -> Setter]

(* What an administrator has set outlives every start, also one that found *)
(* the key missing before and inserts its default after                    *)
(* (super-admin-management.service.ts, onModuleInit).                      *)
SettingsOutliveBoots ==
    [][\A k \in Keys : setting[k] \in Values => setting'[k] \in Values]_settingVars
=============================================================================
