---------------------------- MODULE Persistence ----------------------------
(* What Repository.save of TypeORM does to a row that is already there. *)

(* save selects the row, compares it with the entity and updates the       *)
(* columns that differ: between the two statements, outside of any lock,   *)
(* others may write the row.  base is the row as selected, current the row *)
(* when the UPDATE comes.                                                  *)
Written(entity, base, current) ==
    [column \in DOMAIN current |->
        IF entity[column] = base[column] THEN current[column] ELSE entity[column]]

(* The same in two steps, for columns that hold strings: what is to be     *)
(* written, as decided after the SELECT, and the UPDATE.                   *)
Differing(entity, base) ==
    [column \in DOMAIN base |->
        IF entity[column] = base[column] THEN "kept" ELSE entity[column]]

Updated(current, update) ==
    [column \in DOMAIN current |->
        IF update[column] = "kept" THEN current[column] ELSE update[column]]
=============================================================================
