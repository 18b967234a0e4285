--------------------------- MODULE MCSourceChanges ---------------------------
(* A small instance of SourceChanges: an edit and a deletion of one record,  *)
(* and two additions of the record that the edit makes of its own.           *)
EXTENDS SourceChanges, TLC

CONSTANTS edit, delete, add1, add2, i1, i2, old, new

Actions == edit :> "edit" @@ delete :> "delete" @@ add1 :> "add" @@ add2 :> "add"
Targets == [r \in Requests |-> i1]
NewValues == [r \in Requests |-> new]

\* The record exists when the users come; two of them do.
MCInit == Init /\ source = (i1 :> old @@ i2 :> None) /\ Cardinality(users) = 2
Symmetry == Permutations(Workers) \cup Permutations({add1, add2})

\* Either a user browses, or others write the catalogue too.
MCNext == Next /\ (outside' = 0 \/ browser'.page = "closed")
MCSpec == MCInit /\ [][MCNext]_vars
=============================================================================
