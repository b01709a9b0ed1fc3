--------------------------- MODULE MCNbdTransmission ---------------------------
(* An instance of NbdTransmission for TLC.                                  *)
EXTENDS NbdTransmission

CONSTANTS w, f, r, s

(* A write, a write with FUA, a read and a flush ...                        *)
Kinds == [q \in Requests |-> IF q = r THEN "read" ELSE IF q = s THEN "flush" ELSE "write"]

(* ... of which two fill the budget.                                        *)
Lengths == [q \in Requests |-> IF q = s THEN 0 ELSE IF q = f THEN 2 ELSE 1]
=============================================================================
