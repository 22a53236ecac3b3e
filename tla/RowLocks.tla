------------------------------ MODULE RowLocks ------------------------------
(***************************************************************************)
(* Row locks of PostgreSQL, as the plpgsql functions take them: a lock is  *)
(* the row and its mode, and is held until its transaction ends.           *)
(***************************************************************************)
EXTENDS Naturals, Sequences

(* select ... for update; also the row an insert is about to add to a      *)
(* unique index.                                                           *)
Update(row) == <<row, "for update">>

(* An update that leaves the key alone.                                    *)
NoKey(row) == <<row, "no key update">>

(* A foreign key locks the row it points at.                               *)
KeyShare(row) == <<row, "key share">>

(* A foreign key that may be null.                                         *)
KeyShareIf(there, row) == IF there THEN <<KeyShare(row)>> ELSE <<>>

(* Two locks that two transactions cannot hold together.                   *)
Conflict(a, b) ==
  /\ a[1] = b[1]
  /\ \/ "for update" \in {a[2], b[2]}
     \/ a[2] = "no key update" /\ b[2] = "no key update"

(* The first n locks of a sequence.                                        *)
FirstLocks(seq, n) == {seq[i] : i \in DOMAIN seq \cap 1..n}

=============================================================================
