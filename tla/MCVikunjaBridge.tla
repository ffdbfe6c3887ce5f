-------------------------- MODULE MCVikunjaBridge --------------------------
(* Small instances of VikunjaBridge. *)
EXTENDS VikunjaBridge

CONSTANTS t1, t2

AllColumns == OptionalColumns
NarrowBoard == {"in_progress", "done"}
NoParents == [t \in Tasks |-> {}]
Chain == [t \in Tasks |-> IF t = t2 THEN {t1} ELSE {}]

=============================================================================
