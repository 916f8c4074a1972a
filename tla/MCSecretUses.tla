---------------------------- MODULE MCSecretUses ----------------------------
(***************************************************************************)
(* SecretStore under each way of using it, chosen at the start: what one   *)
(* may do is a restriction of Next.                                        *)
(*   "any"         two processes, every command, one field                 *)
(*   "keeping"     two processes, only commands that never mean to forget  *)
(*                 a value, two fields that share one trash                *)
(*   "sequential"  one command at a time, which runs to its end            *)
(***************************************************************************)
EXTENDS MCSecretStore

VARIABLE use

Using(commands, F, bound) ==
  /\ begun' <= bound
  /\ \A p \in Procs : proc'[p].todo # <<>> =>
       /\ proc'[p].req.cmd \in commands
       /\ proc'[p].req.fields \subseteq F /\ proc'[p].req.to \in F \cup {None}

(* A command that runs to its end. *)
RunsOn(p) ==
  \/ Begin(p) \/ ReadStore(p) \/ ReadMeta(p) \/ ReadTrash(p) \/ RereadTrash(p)
  \/ WriteTrash(p) \/ WriteStore(p) \/ UpdateMeta(p)
  \/ DropCopy(p) /\ trash' # trash

UseInit == Init /\ use \in {"any", "keeping", "sequential"}
UseNext ==
  /\ UNCHANGED use
  /\ \/ use = "any" /\ Next /\ Using(All, {f1}, MaxCommands - 1)
     \/ /\ use = "keeping" /\ Next /\ Using(Keeping, Fields, MaxCommands - 1)
        /\ \A p \in Procs : proc'[p].req.option # "verify"
     \/ use = "sequential"
        /\ \/ \E p \in Procs : RunsOn(p) /\ \A q \in Procs \ {p} : proc[q].todo = <<>>
           \/ WeekPasses
        /\ Using(Sequential, Fields, MaxCommands)
UseSpec == UseInit /\ [][UseNext]_<<vars, use>>

(* Commands that promise to keep what they replace do so: a value taken    *)
(* out of the store is in the trash before that and stays for its week     *)
(* (moveSecretsToTrash, sec_trash.go:111), and when one command runs at a  *)
(* time what it purges does not come back (purgeFromTrash, sec_trash.go:70). *)
TrashKeepsAndForgets ==
  [][/\ use = "keeping" => KeepsReplacedValue /\ KeepsTrashForAWeek
     /\ use = "sequential" => PurgesForGood]_vars

(* Between commands that run one at a time to their end the three files    *)
(* agree: the sidecar describes only fields of the store, an expiry is     *)
(* that of the value in the store, and --undo can be undone from the       *)
(* trash (sec_meta.go:529, sec_lifecycle.go:505).                          *)
AloneFilesAgree ==
  use = "sequential" => SidecarAligned /\ ExpiryOfCurrentValue /\ UndoCanBeUndone
=============================================================================
