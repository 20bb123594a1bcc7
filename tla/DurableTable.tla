----------------------------- MODULE DurableTable -----------------------------
(* What a table promises about its file: rows are added, a save that succeeds *)
(* keeps the rows it has seen for good, and only a restart loses rows, never  *)
(* saved ones.                                                                *)
CONSTANT Row

VARIABLES rows,          \* what a search would find
          saved          \* what no crash may take away

vars == <<rows, saved>>

TypeOK == rows \subseteq Row /\ saved \subseteq Row

Init == rows = {} /\ saved = {}

Insert(r) == r \notin rows /\ rows' = rows \cup {r} /\ UNCHANGED saved

Save == /\ saved' \in {s \in SUBSET rows : saved \subseteq s}
        /\ UNCHANGED rows

Restart == /\ rows' \in {s \in SUBSET rows : saved \subseteq s}
           /\ UNCHANGED saved

Next == (\E r \in Row : Insert(r)) \/ Save \/ Restart

Spec == Init /\ [][Next]_vars
=============================================================================
