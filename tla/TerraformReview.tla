-------------------------- MODULE TerraformReview --------------------------
(***************************************************************************)
(* `bb tfx review` (tfx.go): plan each Terraform root and say whether what *)
(* the plan changes is expected by the rules, needs a review, or failed.   *)
(*                                                                         *)
(* A name is a sequence of the parts its dots separate; a path through an  *)
(* attribute is a sequence of names, and a value the map from the paths of *)
(* its scalars to them.  The code writes a path as one dotted string, which *)
(* is here the sequence of all the parts.                                  *)
(***************************************************************************)
EXTENDS Naturals, Sequences, SequencesExt

CONSTANTS
    ReviewRoots,    \* number of Terraform roots
    ReviewChanges,  \* bound: changed resources of a plan
    ReviewPaths,    \* paths of the scalars of resources
    ReviewRules     \* what .tf-review.json may say

ASSUME ReviewAssumption ==
    /\ ReviewRoots \in Nat \ {0} /\ ReviewChanges \in Nat

VARIABLES
    rvRoot,      \* the root at hand
    rvStep,      \* the step at hand
    rvRules,     \* the rules of the root
    rvSeen,      \* resources of the plan classified so far
    rvChanged, rvReviews,  \* classifyTFXPlan's `changed`, and whether it has reviews
    rvStatus,    \* what was printed for each root
    rvNeed,      \* needAttention
    rvTruth      \* what should be printed for the root, by the meaning of its plan

reviewVars == <<rvRoot, rvStep, rvRules, rvSeen, rvChanged, rvReviews, rvStatus,
                rvNeed, rvTruth>>

ReviewSteps    == {"init", "plan", "show", "rules", "classify", "done", "aborted"}
ReviewStatuses == {"none", "ERROR", "NOCHANGE", "EXPECTED", "REVIEW"}
ReviewActions  == {{"no-op"}, {"read"}, {"update"}, {"create"}, {"delete", "create"}}
ReviewScalars  == {"null", "x", "y"}

ReviewTypeOK ==
    /\ rvRoot \in 1..ReviewRoots /\ rvStep \in ReviewSteps
    /\ rvRules \in ReviewRules /\ rvSeen \in 0..ReviewChanges
    /\ rvChanged \in BOOLEAN /\ rvReviews \in BOOLEAN /\ rvNeed \in BOOLEAN
    /\ rvStatus \in [1..ReviewRoots -> ReviewStatuses]
    /\ rvTruth \in [1..ReviewRoots -> ReviewStatuses]

ReviewInit ==
    /\ rvRoot = 1 /\ rvStep = "init" /\ rvRules \in ReviewRules
    /\ rvSeen = 0 /\ rvChanged = FALSE /\ rvReviews = FALSE /\ rvNeed = FALSE
    /\ rvStatus = [r \in 1..ReviewRoots |-> "none"]
    /\ rvTruth = [r \in 1..ReviewRoots |-> "none"]

-----------------------------------------------------------------------------
(* Paths *)

\* What scalarPaths makes of a path, and the path valueAtPath reads in it.
Dotted(path)    == FlattenSeq(path)
UndottedPath(d) == [i \in DOMAIN d |-> <<d[i]>>]

ScalarPaths(value) == {Dotted(path) : path \in DOMAIN value}

\* What is at or below a path; nothing there and a null are the same nil.
ValueAtPath(value, dotted) ==
    LET path  == UndottedPath(dotted)
        below == {q \in DOMAIN value : IsPrefix(path, q)}
    IN  IF below = {path} /\ value[path] = "null" THEN <<>> ELSE [q \in below |-> value[q]]

\* A bug of ChangedPaths: only the paths the resource already has.
ChangedPaths_Before(before, after) ==
    {d \in ScalarPaths(before) : ValueAtPath(before, d) # ValueAtPath(after, d)}

\* tfxChangedPaths
ChangedPaths(before, after) ==
    {d \in ScalarPaths(before) \cup ScalarPaths(after) :
        ValueAtPath(before, d) # ValueAtPath(after, d)}

PathAllowed(dotted, rules) ==
    \E allowed \in rules.paths :
        IF rules.match = "prefix" THEN IsPrefix(allowed, dotted)
        ELSE /\ Len(dotted) >= Len(allowed)
             /\ \A i \in DOMAIN allowed : allowed[i] \in {"*", dotted[i]}

\* tfxUnchanged and tfxNeedsReview
Unchanged(actions) == actions \in {{"no-op"}, {"read"}}
NeedsReview(actions, differences, rules) ==
    \/ ~ actions \subseteq rules.actions
    \/ actions = {"update"} /\ \E d \in differences : ~PathAllowed(d, rules)

\* By the meaning of the plan: a scalar that is another one afterwards, its path
\* taken name by name.
ScalarAt(value, path) == IF path \in DOMAIN value THEN value[path] ELSE "null"
NameAllowed(path, rules) ==
    /\ \A i \in DOMAIN path : Len(path[i]) = 1
    /\ PathAllowed(Dotted(path), rules)
TouchesOther(before, after, rules) ==
    \E path \in ReviewPaths :
        ScalarAt(before, path) # ScalarAt(after, path) /\ ~NameAllowed(path, rules)
OutsideRules(actions, before, after, rules) ==
    \/ ~ actions \subseteq rules.actions
    \/ actions = {"update"} /\ TouchesOther(before, after, rules)

-----------------------------------------------------------------------------
(* Actions *)

ReviewGoto(step) == rvStep' = step
ReviewRest == UNCHANGED <<rvRules, rvSeen, rvChanged, rvReviews>>

\* The next root, or the end.
NextRoot ==
    IF rvRoot = ReviewRoots
    THEN rvStep' = "done" /\ UNCHANGED <<rvRoot, rvRules, rvSeen, rvChanged, rvReviews>>
    ELSE /\ rvStep' = "init" /\ rvRoot' = rvRoot + 1 /\ rvRules' \in ReviewRules
         /\ rvSeen' = 0 /\ rvChanged' = FALSE /\ rvReviews' = FALSE

\* A bug of RootFails: the failure is only printed.
RootFails_Printed ==
    /\ rvStep \in {"init", "plan", "show", "classify"}
    /\ rvStatus' = [rvStatus EXCEPT ![rvRoot] = "ERROR"]
    /\ rvTruth' = [rvTruth EXCEPT ![rvRoot] = "ERROR"]
    /\ rvNeed' = rvNeed
    /\ NextRoot

\* terraform init, plan (exit 2, there are changes, is no failure), show or the
\* parsing of the plan fails: the other roots go on.
RootFails ==
    /\ rvStep \in {"init", "plan", "show", "classify"}
    /\ rvStatus' = [rvStatus EXCEPT ![rvRoot] = "ERROR"]
    /\ rvTruth' = [rvTruth EXCEPT ![rvRoot] = "ERROR"]
    /\ rvNeed' = TRUE
    /\ NextRoot

RootGoes ==
    /\ rvStep \in {"init", "plan", "show", "rules"}
    /\ ReviewGoto(CASE rvStep = "init" -> "plan" [] rvStep = "plan" -> "show"
                    [] rvStep = "show" -> "rules" [] rvStep = "rules" -> "classify")
    /\ ReviewRest /\ UNCHANGED <<rvRoot, rvStatus, rvNeed, rvTruth>>

\* No backend.tf, an unwritable state directory, rules that do not parse: the
\* whole review ends with that error.
ReviewAborts ==
    /\ rvStep \in {"init", "rules"} /\ ReviewGoto("aborted")
    /\ ReviewRest /\ UNCHANGED <<rvRoot, rvStatus, rvNeed, rvTruth>>

\* One entry of resource_changes.
ClassifyChange(actions, before, after) ==
    /\ rvStep = "classify" /\ rvSeen < ReviewChanges /\ rvSeen' = rvSeen + 1
    /\ rvChanged' = (rvChanged \/ ~Unchanged(actions))
    /\ rvReviews' = (\/ rvReviews
                     \/ /\ ~Unchanged(actions)
                        /\ NeedsReview(actions, ChangedPaths(before, after), rvRules))
    /\ rvTruth' = [rvTruth EXCEPT ![rvRoot] =
                     IF Unchanged(actions) THEN @
                     ELSE IF OutsideRules(actions, before, after, rvRules) THEN "REVIEW"
                     ELSE IF @ = "none" THEN "EXPECTED" ELSE @]
    /\ UNCHANGED <<rvRoot, rvStep, rvRules, rvStatus, rvNeed>>

ClassifyEnds ==
    /\ rvStep = "classify"
    /\ LET status == IF ~rvChanged THEN "NOCHANGE"
                     ELSE IF rvReviews THEN "REVIEW" ELSE "EXPECTED"
       IN  /\ rvStatus' = [rvStatus EXCEPT ![rvRoot] = status]
           /\ rvNeed' = (rvNeed \/ status = "REVIEW")
    /\ rvTruth' = [rvTruth EXCEPT ![rvRoot] = IF @ = "none" THEN "NOCHANGE" ELSE @]
    /\ NextRoot

ReviewValues == UNION {[paths -> ReviewScalars] : paths \in SUBSET ReviewPaths}

ReviewNext ==
    \/ RootFails \/ RootGoes \/ ReviewAborts \/ ClassifyEnds
    \/ \E actions \in ReviewActions, before, after \in ReviewValues :
          ClassifyChange(actions, before, after)

ReviewSpec == ReviewInit /\ [][ReviewNext]_reviewVars

-----------------------------------------------------------------------------
(* Properties *)

\* Names without a dot in them: the one string the code makes of a path then means
\* what the path does.
PlainPath(path) ==
    Len(path) \in Nat /\ path = [i \in 1..Len(path) |-> <<path[i][1]>>]
UndottedPaths(paths) == \A path \in paths : PlainPath(path)

\* And no scalar of one value is where another has a tree.
PlainPaths(paths) ==
    /\ UndottedPaths(paths)
    /\ \A path, other \in paths : IsPrefix(path, other) => path = other

\* What is printed for a root is what its plan means under its rules ("a pure
\* update is reported when it touches a path outside the allow list", tfx.go:960),
\* whatever failed in the roots before it.
RootsTruthfullyClassified ==
    \A r \in 1..ReviewRoots : rvStatus[r] # "none" => rvStatus[r] = rvTruth[r]

\* The exit code of a finished review asks for attention exactly when some root
\* failed or needs a review.
AttentionIsAsked ==
    rvStep = "done" => (rvNeed <=> \E r \in 1..ReviewRoots : rvTruth[r] \in {"ERROR", "REVIEW"})

\* The half of the two that also holds when a scalar becomes a tree, which the code
\* may report twice: no failure and no change outside the rules is printed as
\* anything less, and a finished review that met one asks for attention.
NoReviewIsMissed ==
    /\ \A r \in 1..ReviewRoots :
          rvStatus[r] # "none" /\ rvTruth[r] \in {"ERROR", "REVIEW"} => rvStatus[r] = rvTruth[r]
    /\ rvStep = "done" /\ (\E r \in 1..ReviewRoots : rvTruth[r] \in {"ERROR", "REVIEW"}) => rvNeed

=============================================================================
