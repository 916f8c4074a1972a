--------------------------- MODULE MCSecretStore ---------------------------
(* The constants of the SecretStore runs: who runs and which commands. *)
EXTENDS SecretStore, TLC

CONSTANTS p1, p2, f1, f2, v1, v2

All == {"init", "set", "rename", "import", "rotate", "undo", "rm", "purge", "restore", "list",
        "empty", "meta", "use", "verify"}
ExpiresOnly == {"none", "expires"}
AllOptions  == {"none", "expires", "verify"}

(* Commands that never mean to forget a value. *)
Keeping == {"init", "import", "rotate", "undo", "rm", "list"}

(* Everything but set, which may leave the expiry of the value it replaces. *)
Sequential == All \ {"set"}

Symmetric == Permutations({p1, p2})
=============================================================================
