----------------------------- MODULE Catalogue -----------------------------
(***************************************************************************)
(* Sports, training programs and the weekly slots of training groups       *)
(* (backend/src/sports, training-programs, training-groups).               *)
(*                                                                         *)
(* update loads a row, checks the ages the row would have, merges and      *)
(* saves; save compares with the row once more and writes the columns that *)
(* differ.  A row removed meanwhile comes back when the two readings are   *)
(* on either side of the removal.  A training group is saved with the      *)
(* slots it was loaded with; slots that have come since look removed to    *)
(* save, which would set their group_id to NULL: the column refuses.       *)
(*                                                                         *)
(* Left out: names, levels and the other columns no rule relates; the code *)
(* in a row, which a unique constraint keeps apart; branch, program and    *)
(* coach of a group, which only refuse a request.  Roster has the group's  *)
(* capacity.                                                               *)
(***************************************************************************)
EXTENDS Integers, Persistence

CONSTANTS
    Entries,        \* sports and training programs
    Slots,          \* day and start time of the group's week
    Curators,       \* requests that may run at the same time
    MaxAge          \* bound: ages are 1..MaxAge, 0 stands for none

(* An age is a natural number. *)
ASSUME CatalogueAssumption == MaxAge \in Nat

VARIABLES
    entry,      \* the sports and training_programs rows
    slot,       \* the training_group_schedules row of each slot
    curator,    \* where each request stands
    crossed     \* history: rows written by an update while it was under way in another

catalogueVars == <<entry, slot, curator, crossed>>

Ages == 0..MaxAge
EntryRow == [state : {"none", "live", "removed"}, least : Ages, most : Ages]
Absent == [state |-> "none", least |-> 0, most |-> 0]

NoCurator == [step |-> "idle"]
Curator ==
    {NoCurator}
    \cup [step : {"edit"}, entry : Entries, row : EntryRow]
    \cup [step : {"write"}, entry : Entries, row : EntryRow, base : EntryRow]
    \cup [step : {"group"}, known : SUBSET Slots]

CatalogueInit ==
    /\ entry = [e \in Entries |-> Absent]
    /\ slot = [s \in Slots |-> "none"]
    /\ curator = [q \in Curators |-> NoCurator]
    /\ crossed = {}

-----------------------------------------------------------------------------
(* validateAgeRange *)
ValidateAgeRange(least, most) == (least # 0 /\ most # 0) => least <= most

(* create: INSERT; a code is never used twice. *)
CreateEntry(e, least, most) ==
    /\ entry[e].state = "none"
    /\ ValidateAgeRange(least, most)
    /\ entry' = [entry EXCEPT ![e] = [state |-> "live", least |-> least, most |-> most]]
    /\ UNCHANGED <<slot, curator, crossed>>

(* Slip: the ages asked for are compared with each other only. *)
ReadEntryLoosely(q, e, least, most) ==
    /\ curator[q].step = "idle"
    /\ entry[e].state = "live"
    /\ ValidateAgeRange(least, most)
    /\ curator' = [curator EXCEPT ![q] = [step |-> "edit", entry |-> e, row |->
            [state |-> "live", least |-> IF least = 0 THEN entry[e].least ELSE least,
             most |-> IF most = 0 THEN entry[e].most ELSE most]]]
    /\ UNCHANGED <<entry, slot, crossed>>

(* update: the row is found; an age the dto lacks (0) is the row's. *)
ReadEntry(q, e, least, most) ==
    LET row == [state |-> "live", least |-> IF least = 0 THEN entry[e].least ELSE least,
                most |-> IF most = 0 THEN entry[e].most ELSE most]
    IN  /\ curator[q].step = "idle"
        /\ entry[e].state = "live"
        /\ ValidateAgeRange(row.least, row.most)
        /\ curator' = [curator EXCEPT ![q] = [step |-> "edit", entry |-> e, row |-> row]]
        /\ UNCHANGED <<entry, slot, crossed>>

(* save: SELECT ... *)
SelectEntry(q) ==
    LET c == curator[q]
    IN  /\ c.step = "edit"
        /\ curator' = [curator EXCEPT ![q] = [step |-> "write", entry |-> c.entry, row |-> c.row,
                                              base |-> entry[c.entry]]]
        /\ UNCHANGED <<entry, slot, crossed>>

(* ... UPDATE. *)
WriteEntry(q) ==
    LET c == curator[q]
    IN  /\ c.step = "write"
        /\ entry' = [entry EXCEPT ![c.entry] = Written(c.row, c.base, @)]
        /\ crossed' = IF entry[c.entry] # c.base THEN crossed \cup {c.entry} ELSE crossed
        /\ curator' = [curator EXCEPT ![q] = NoCurator]
        /\ UNCHANGED slot

(* remove: softRemove *)
RemoveEntry(e) ==
    /\ entry[e].state = "live"
    /\ entry' = [entry EXCEPT ![e].state = "removed"]
    /\ UNCHANGED <<slot, curator, crossed>>

-----------------------------------------------------------------------------
(* addSchedule; also create with slots.  The constraint on day and time    *)
(* counts removed rows: a slot given up cannot be added again.             *)
AddSchedule(s) ==
    /\ slot[s] = "none"
    /\ slot' = [slot EXCEPT ![s] = "live"]
    /\ UNCHANGED <<entry, curator, crossed>>

RemoveSchedule(s) ==
    /\ slot[s] = "live"
    /\ slot' = [slot EXCEPT ![s] = "removed"]
    /\ UNCHANGED <<entry, curator, crossed>>

(* update of the group: it is loaded with its slots ... *)
ReadGroup(q) ==
    /\ curator[q].step = "idle"
    /\ curator' = [curator EXCEPT ![q] = [step |-> "group",
                                          known |-> {s \in Slots : slot[s] = "live"}]]
    /\ UNCHANGED <<entry, slot, crossed>>

(* ... and saved with them. *)
SaveGroup(q) ==
    /\ curator[q].step = "group"
    /\ \A s \in Slots : slot[s] = "live" => s \in curator[q].known
    /\ curator' = [curator EXCEPT ![q] = NoCurator]
    /\ UNCHANGED <<entry, slot, crossed>>

(* A refusal, a conflict, a database error or a crash. *)
DropCurator(q) ==
    /\ curator[q].step # "idle"
    /\ curator' = [curator EXCEPT ![q] = NoCurator]
    /\ UNCHANGED <<entry, slot, crossed>>

CatalogueNext ==
    \/ \E e \in Entries, least, most \in Ages :
        \/ CreateEntry(e, least, most)
        \/ \E q \in Curators : ReadEntry(q, e, least, most)
    \/ \E e \in Entries : RemoveEntry(e)
    \/ \E s \in Slots : AddSchedule(s) \/ RemoveSchedule(s)
    \/ \E q \in Curators :
        SelectEntry(q) \/ WriteEntry(q) \/ ReadGroup(q) \/ SaveGroup(q) \/ DropCurator(q)

CatalogueSpec == CatalogueInit /\ [][CatalogueNext]_catalogueVars

-----------------------------------------------------------------------------
CatalogueTypeOK ==
    /\ entry \in [Entries -> EntryRow]
    /\ slot \in [Slots -> {"none", "live", "removed"}]
    /\ curator \in [Curators -> Curator]
    /\ crossed \subseteq Entries

(* "minimumAge cannot be greater than maximumAge": the check looks at ages *)
(* of which each may come from another reading; they stay in order         *)
(* nevertheless, whatever updates overlap and whatever removed row comes   *)
(* back, as long as no row changes between the SELECT and the UPDATE of    *)
(* one save (sports and training programs, update).                        *)
AgesInOrder ==
    \A e \in Entries \ crossed : ValidateAgeRange(entry[e].least, entry[e].most)
=============================================================================
