--------------------------- MODULE MCSnapshotSync ---------------------------
(* The constants of the SnapshotSync runs. *)
EXTENDS SnapshotSync, TLC

CONSTANTS p1, p2, a, b

TwoGroups == {{a}, {b}}
OneGroup  == {{a}}
Symmetric == Permutations({p1, p2}) \cup Permutations({a, b})
=============================================================================
