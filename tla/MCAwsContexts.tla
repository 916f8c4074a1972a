---------------------------- MODULE MCAwsContexts ----------------------------
(* The constants of the AwsContexts runs: two principals of one account and *)
(* one of another.                                                          *)
EXTENDS AwsContexts

CONSTANTS q1, q2, x, y, z, l1, l2

Accounts == [p \in {x, y, z} |-> IF p = z THEN "other" ELSE "home"]

(* x and y are alike until the profile changes, so it begins as x or as z. *)
ContextsInit == Init /\ profile # y
ContextsSpec == ContextsInit /\ [][Next]_vars /\ Fairness
=============================================================================
