--------------------------- MODULE TerraformClean ---------------------------
(***************************************************************************)
(* `bb tfx clean` (tfx.go): list the Terraform artifacts below a           *)
(* directory, ask, and remove them one by one, while others write there.   *)
(* What is at a path is the number of the file or directory made there.    *)
(***************************************************************************)
EXTENDS Naturals, FiniteSets

CONSTANTS
    CleanTargets,  \* number of artifact paths, in the order of their names
    MaxCleanFiles  \* bound: files ever made there

ASSUME CleanAssumption ==
    CleanTargets \in Nat /\ MaxCleanFiles \in Nat /\ CleanTargets <= MaxCleanFiles

VARIABLES
    clPaths,    \* what is at each path: a file's number, 0 (nothing) or a symlink
    clMade,     \* files made so far
    clStep,     \* what clean is doing
    clListed,   \* the listed paths, and the file each one was
    clAt,       \* the path at hand
    clFresh,    \* the listed paths that were the listed file since the answer
    clRemoved,  \* removals by clean: the path, and whether it was in clFresh
    clReported  \* what it says in the end: how many it removed, or that it stopped

cleanVars == <<clPaths, clMade, clStep, clListed, clAt, clFresh, clRemoved, clReported>>

CleanPaths   == 1..CleanTargets
CleanSymlink == MaxCleanFiles + 1
CleanUnsaid  == [end |-> "none", count |-> 0]

CleanTypeOK ==
    /\ clPaths \in [CleanPaths -> 0..CleanSymlink] /\ clMade \in 0..MaxCleanFiles
    /\ clStep \in {"start", "confirm", "observe", "remove", "done"}
    /\ clListed \in [CleanPaths -> 0..MaxCleanFiles] /\ clAt \in 1..(CleanTargets + 1)
    /\ clFresh \in SUBSET CleanPaths
    /\ clRemoved \in SUBSET [path : CleanPaths, fresh : BOOLEAN]
    /\ clReported \in [end : {"none", "cancelled", "stopped", "removed"},
                       count : 0..CleanTargets]

CleanInit ==
    /\ \E present \in SUBSET CleanPaths :
          clPaths = [p \in CleanPaths |-> IF p \in present THEN p ELSE 0]
    /\ clMade = CleanTargets
    /\ clStep = "start" /\ clListed = [p \in CleanPaths |-> 0] /\ clAt = 1
    /\ clFresh = {} /\ clRemoved = {} /\ clReported = CleanUnsaid

\* The listed paths that are, after a step, the listed file, once answered.
CleanFreshAfter(step, listed) ==
    IF step \in {"observe", "remove"}
    THEN clFresh \cup {p \in CleanPaths : listed[p] # 0 /\ clPaths'[p] = listed[p]}
    ELSE clFresh

-----------------------------------------------------------------------------

CleanEnd(end, count) == clStep' = "done" /\ clReported' = [end |-> end, count |-> count]
ListedPaths(listed) == {p \in CleanPaths : listed[p] # 0}
\* The next listed path after q.
CleanNextAt(listed, q) ==
    IF \E p \in ListedPaths(listed) : p > q
    THEN CHOOSE p \in ListedPaths(listed) :
            p > q /\ \A r \in ListedPaths(listed) : r > q => p <= r
    ELSE CleanTargets + 1

\* The walk: a symlink in the place of an artifact refuses everything; nothing
\* there says so and ends.  With --yes nobody is asked.
CleanList(yes) ==
    /\ clStep = "start" /\ UNCHANGED <<clPaths, clMade, clRemoved>>
    /\ \/ /\ \E p \in CleanPaths : clPaths[p] = CleanSymlink
          /\ CleanEnd("stopped", 0) /\ UNCHANGED <<clListed, clAt, clFresh>>
       \/ /\ \A p \in CleanPaths : clPaths[p] # CleanSymlink
          /\ clListed' = clPaths /\ clAt' = CleanNextAt(clPaths, 0)
          /\ IF ListedPaths(clPaths) = {} THEN CleanEnd("removed", 0) /\ UNCHANGED clFresh
             ELSE /\ clStep' = (IF yes THEN "observe" ELSE "confirm")
                  /\ clReported' = CleanUnsaid /\ clFresh' = CleanFreshAfter(clStep', clPaths)

CleanAnswer(yes) ==
    /\ clStep = "confirm" /\ UNCHANGED <<clPaths, clMade, clListed, clAt, clRemoved>>
    /\ IF yes THEN clStep' = "observe" /\ clReported' = CleanUnsaid ELSE CleanEnd("cancelled", 0)
    /\ clFresh' = CleanFreshAfter(clStep', clListed)

\* A bug of SameFile: only a path that became a symlink is refused.
SameFile_NoSymlink(p) == clPaths[p] # CleanSymlink

\* Lstat, and os.SameFile with what was listed.
SameFile(p) == clPaths[p] = clListed[p]

CleanObserve ==
    /\ clStep = "observe" /\ UNCHANGED <<clPaths, clMade, clListed, clAt, clRemoved>>
    /\ IF clPaths[clAt] # 0 /\ SameFile(clAt)
       THEN clStep' = "remove" /\ clReported' = CleanUnsaid ELSE CleanEnd("stopped", 0)
    /\ clFresh' = CleanFreshAfter(clStep', clListed)

\* A bug of RemoveGoesOn: a failed removal is passed over.
RemoveGoesOn_Always(failed) == TRUE

\* RemoveAll fails, or the next target follows.
RemoveGoesOn(failed) == ~failed

CleanRemove(failed) ==
    /\ clStep = "remove" /\ UNCHANGED <<clMade, clListed>>
    /\ clPaths' = IF failed THEN clPaths ELSE [clPaths EXCEPT ![clAt] = 0]
    /\ clRemoved' = IF failed THEN clRemoved
                    ELSE clRemoved \cup {[path |-> clAt, fresh |-> clAt \in clFresh]}
    /\ clAt' = CleanNextAt(clListed, clAt)
    /\ IF ~RemoveGoesOn(failed) THEN CleanEnd("stopped", 0)
       ELSE IF clAt' > CleanTargets THEN CleanEnd("removed", Cardinality(ListedPaths(clListed)))
       ELSE clStep' = "observe" /\ clReported' = CleanUnsaid
    /\ clFresh' = CleanFreshAfter(clStep', clListed)

\* Somebody else makes, replaces or removes what is at a path.
CleanDisturbed(p) ==
    /\ clStep # "done"
    /\ \/ clMade < MaxCleanFiles /\ clMade' = clMade + 1
          /\ clPaths' = [clPaths EXCEPT ![p] = clMade']
       \/ /\ clPaths[p] # CleanSymlink /\ UNCHANGED clMade
          /\ clPaths' = [clPaths EXCEPT ![p] = CleanSymlink]
       \/ clPaths[p] # 0 /\ UNCHANGED clMade /\ clPaths' = [clPaths EXCEPT ![p] = 0]
    /\ UNCHANGED <<clStep, clListed, clAt, clRemoved, clReported>>
    /\ clFresh' = CleanFreshAfter(clStep, clListed)

CleanNext ==
    \/ \E yes \in BOOLEAN : CleanList(yes) \/ CleanAnswer(yes) \/ CleanRemove(yes)
    \/ CleanObserve
    \/ \E p \in CleanPaths : CleanDisturbed(p)

CleanSpec == CleanInit /\ [][CleanNext]_cleanVars

-----------------------------------------------------------------------------
(* Properties *)

\* Clean removes what is at a path only if, at some moment after the answer, it
\* was the very file the person saw in the list (the Lstat and SameFile before each
\* RemoveAll, tfx.go:1344): a plan written since then stays.
OnlyListedFilesRemoved == \A r \in clRemoved : r.fresh

\* It says "Removed n" only if it has removed each of the n that it listed; stopped
\* half way, by a failure or a change, it says so, and the rest is left.
RemovedReportIsTrue ==
    clReported.end = "removed" =>
        /\ {r.path : r \in clRemoved} = ListedPaths(clListed)
        /\ clReported.count = Cardinality(ListedPaths(clListed))

=============================================================================
