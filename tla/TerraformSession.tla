-------------------------- MODULE TerraformSession --------------------------
(***************************************************************************)
(* `bb tfx session`, `apply`, `destroy`, `state mv|rm` and `end` (tfx.go,  *)
(* confirm.go): processes that share one session file, the plan files of a *)
(* directory, and a Terraform state that others change as well.            *)
(*                                                                         *)
(* A process reads, asks and acts in separate steps; between them the      *)
(* other processes run, time passes, and the caller's AWS identity may     *)
(* become another one.  A plan is the number of the planning that wrote it.*)
(***************************************************************************)
EXTENDS Naturals

CONSTANTS
    TerraformProcs,      \* processes of bb tfx
    TerraformAccounts,   \* accounts of the caller's identity
    TerraformAddresses,  \* addresses in Terraform's state
    MaxTerraformTime,    \* bound: the clock
    MaxTerraformPlans,   \* bound: plannings
    NoTerraform          \* no session, no plan, no command

ASSUME TerraformAssumption ==
    /\ TerraformAccounts # {}
    /\ MaxTerraformTime \in Nat /\ MaxTerraformPlans \in Nat
    /\ NoTerraform \notin 1..MaxTerraformPlans /\ NoTerraform \notin {"session", "apply", "destroy", "mv", "rm"}
    /\ NoTerraform \notin [expires : 0..(MaxTerraformTime + 1), account : TerraformAccounts,
                           scope : {"apply", "destroy"}]

VARIABLES
    tfClock, tfIdentity,  \* the time, and the account AWS says the caller is
    tfSession,            \* the session file
    tfPlans,              \* the file of each kind of plan
    tfPlanned,            \* plannings so far
    tfState,              \* the addresses in Terraform's state
    tfOps,                \* what each process is doing
    tfRun                 \* the mutation the last step ran Terraform for

terraformVars == <<tfClock, tfIdentity, tfSession, tfPlans, tfPlanned, tfState,
                   tfOps, tfRun>>

TfScopes   == {"apply", "destroy"}
TfSessions == [expires : 0..(MaxTerraformTime + 1), account : TerraformAccounts, scope : TfScopes]
TfPlanIds  == 1..MaxTerraformPlans
TfCommands == {"session", "apply", "destroy", "mv", "rm"}

\* `copy` is the private snapshot of the plan, `shown` the one whose hash the
\* person was asked about.  `held` and `same` record whether, since the answer,
\* the session the command began with was in force, and its account current.
TfOps == [cmd : TfCommands \cup {NoTerraform},
          pc : {"idle", "identify", "plan", "copy", "list", "digits", "confirm",
                "reread", "reidentify", "relist", "run"},
          session : TfSessions \cup {NoTerraform}, account : TerraformAccounts \cup {NoTerraform},
          scope : TfScopes, copy : TfPlanIds \cup {NoTerraform},
          shown : TfPlanIds \cup {NoTerraform},
          targets : SUBSET TerraformAddresses, into : TerraformAddresses \cup {NoTerraform},
          held : BOOLEAN, same : BOOLEAN, seen : BOOLEAN]

TfIdle == [cmd |-> NoTerraform, pc |-> "idle", session |-> NoTerraform, account |-> NoTerraform,
           scope |-> "apply", copy |-> NoTerraform, shown |-> NoTerraform,
           targets |-> {}, into |-> NoTerraform, held |-> FALSE, same |-> FALSE, seen |-> FALSE]

TfRuns == [cmd : TfCommands, plan : TfPlanIds \cup {NoTerraform},
           shown : TfPlanIds \cup {NoTerraform}, scope : TfScopes,
           held : BOOLEAN, same : BOOLEAN, seen : BOOLEAN]

TerraformTypeOK ==
    /\ tfClock \in 0..MaxTerraformTime /\ tfIdentity \in TerraformAccounts
    /\ tfSession \in TfSessions \cup {NoTerraform}
    /\ tfPlans \in [TfScopes -> TfPlanIds \cup {NoTerraform}]
    /\ tfPlanned \in 0..MaxTerraformPlans
    /\ tfState \in SUBSET TerraformAddresses
    /\ tfOps \in [TerraformProcs -> TfOps]
    /\ tfRun \in TfRuns \cup {NoTerraform}

TerraformInit ==
    /\ tfClock = 0 /\ tfIdentity \in TerraformAccounts
    /\ tfSession = NoTerraform /\ tfPlans = [s \in TfScopes |-> NoTerraform]
    /\ tfPlanned = 0 /\ tfState \in SUBSET TerraformAddresses
    /\ tfOps = [p \in TerraformProcs |-> TfIdle]
    /\ tfRun = NoTerraform

-----------------------------------------------------------------------------
(* What the records of the properties say *)

TfInForce(s, time) == s # NoTerraform /\ time < s.expires

\* Since the answer: at it (`fresh`), or at any later step.
TfWitness(o, session, identity, state, time) ==
    [o EXCEPT !.held = @ \/ (session = o.session /\ TfInForce(session, time)),
              !.same = @ \/ (o.session # NoTerraform /\ identity = o.session.account),
              !.seen = @ \/ (o.targets \subseteq state /\ o.into \notin state)]
TfAnswered(o) == o.pc \in {"reread", "reidentify", "relist", "run"}

\* The other processes' records after a step that changes what they look at.
TfWitnessed(ops) ==
    [p \in TerraformProcs |->
        IF TfAnswered(ops[p])
        THEN TfWitness(ops[p], tfSession', tfIdentity', tfState', tfClock')
        ELSE ops[p]]

TfSet(p, o) == tfOps' = TfWitnessed([tfOps EXCEPT ![p] = o])
TfGoto(p, pc) == TfSet(p, [tfOps[p] EXCEPT !.pc = pc])
TfAt(p, cmds, pc) == tfOps[p].cmd \in cmds /\ tfOps[p].pc = pc
TfEnd(p) == TfSet(p, TfIdle)
TfFiles == <<tfSession, tfPlans, tfPlanned>>
TfWorld == <<tfClock, tfIdentity, tfState>>
TfQuiet == tfRun' = NoTerraform /\ UNCHANGED <<TfFiles, TfWorld>>

-----------------------------------------------------------------------------
(* session and end *)

\* tfxSession asks AWS who the caller is, then for the account's last digits.
SessionIdentify(p, scope) ==
    /\ TfQuiet
    /\ tfOps[p] = TfIdle
    /\ TfSet(p, [TfIdle EXCEPT !.cmd = "session", !.pc = "digits", !.scope = scope,
                               !.account = tfIdentity])

\* Wrong digits create nothing; the right ones replace the file in one rename,
\* with the time the answer came and the account it was asked about.
SessionAnswer(p) ==
    /\ tfRun' = NoTerraform /\ UNCHANGED <<tfPlans, tfPlanned, TfWorld>>
    /\ TfAt(p, {"session"}, "digits")
    /\ \/ tfSession' = tfSession
       \/ \E expires \in (tfClock + 1)..(MaxTerraformTime + 1) :
             tfSession' = [expires |-> expires, account |-> tfOps[p].account,
                           scope |-> tfOps[p].scope]
    /\ TfEnd(p)

\* tfxEnd
SessionEnd ==
    /\ tfRun' = NoTerraform /\ UNCHANGED <<tfPlans, tfPlanned, TfWorld>>
    /\ tfSession # NoTerraform /\ tfSession' = NoTerraform
    /\ tfOps' = TfWitnessed(tfOps)

-----------------------------------------------------------------------------
(* apply and destroy *)

\* requireTFXSession
TfAllows(cmd) ==
    /\ TfInForce(tfSession, tfClock)
    /\ cmd = "destroy" => tfSession.scope = "destroy"

MutateRead(p, cmd) ==
    /\ TfQuiet
    /\ tfOps[p] = TfIdle /\ cmd \in {"apply", "destroy"} /\ TfAllows(cmd)
    /\ TfSet(p, [TfIdle EXCEPT !.cmd = cmd, !.pc = "identify", !.session = tfSession,
                               !.scope = IF cmd = "apply" THEN "apply" ELSE "destroy"])

MutateIdentify(p) ==
    /\ TfQuiet
    /\ TfAt(p, {"apply", "destroy"}, "identify")
    /\ IF tfIdentity # tfOps[p].session.account THEN TfEnd(p)
       ELSE TfGoto(p, IF tfOps[p].cmd = "apply" THEN "copy" ELSE "plan")

\* terraform plan -destroy -out writes the file of destroy plans, or fails.
DestroyPlan(p) ==
    /\ tfRun' = NoTerraform /\ UNCHANGED <<tfSession, TfWorld>>
    /\ TfAt(p, {"destroy"}, "plan")
    /\ \/ TfEnd(p) /\ UNCHANGED <<tfPlans, tfPlanned>>
       \/ /\ tfPlanned < MaxTerraformPlans /\ tfPlanned' = tfPlanned + 1
          /\ tfPlans' = [tfPlans EXCEPT !["destroy"] = tfPlanned']
          /\ TfGoto(p, "copy")

\* snapshotTFXPlan copies the open file, and its hash is shown for the answer.
PlanCopy(p) ==
    /\ TfQuiet
    /\ TfAt(p, {"apply", "destroy"}, "copy")
    /\ LET plan == tfPlans[tfOps[p].scope]
       IN  IF plan = NoTerraform THEN TfEnd(p)
           ELSE TfSet(p, [tfOps[p] EXCEPT !.pc = "confirm", !.copy = plan, !.shown = plan])

\* confirmAction: y, or enter with the other button selected; everything else
\* cancels.
AfterYes(cmd) == IF cmd \in {"mv", "rm"} THEN "relist" ELSE "reread"
ConfirmAnswer(p, yes) ==
    /\ TfQuiet
    /\ tfOps[p].pc = "confirm"
    /\ IF yes THEN TfGoto(p, AfterYes(tfOps[p].cmd)) ELSE TfEnd(p)

\* revalidateTFXMutation reads the session again ...
\* A bug of MutateReread: only the expiry is looked at again.
SessionStill_Unexpired(o) == TfAllows(o.cmd)

SessionStill(o) == TfAllows(o.cmd) /\ tfSession = o.session
MutateReread(p) ==
    /\ TfQuiet
    /\ TfAt(p, {"apply", "destroy"}, "reread")
    /\ IF SessionStill(tfOps[p]) THEN TfGoto(p, "reidentify") ELSE TfEnd(p)

\* ... and then asks AWS again.
AccountStill(o) == tfIdentity = o.session.account
MutateReidentify(p) ==
    /\ TfQuiet
    /\ TfAt(p, {"apply", "destroy"}, "reidentify")
    /\ IF AccountStill(tfOps[p]) THEN TfGoto(p, "run") ELSE TfEnd(p)

\* A bug of MutateRun: Terraform is given the file the person named.
PlanArgument_File(o) == tfPlans[o.scope]

\* What Terraform is given to apply.
PlanArgument(o) == o.copy

\* terraform apply, whether it succeeds or not; the private copy goes with it.
MutateRun(p) ==
    /\ UNCHANGED <<TfFiles, tfClock, tfIdentity>>
    /\ TfAt(p, {"apply", "destroy"}, "run")
    /\ tfRun' = [cmd |-> tfOps[p].cmd, plan |-> PlanArgument(tfOps[p]),
                 shown |-> tfOps[p].shown, scope |-> tfOps[p].session.scope,
                 held |-> tfOps[p].held, same |-> tfOps[p].same, seen |-> tfOps[p].seen]
    /\ \E state \in SUBSET TerraformAddresses : tfState' = state
    /\ TfEnd(p)

-----------------------------------------------------------------------------
(* state mv and rm *)

\* tfxStateMutate lists the state: every target must be there, and what mv
\* moves to must not.  With --yes nobody is asked.
TfMovable(o) == o.targets \subseteq tfState /\ o.into \notin tfState

StateList(p, cmd, targets, into, yes) ==
    LET o == [TfIdle EXCEPT !.cmd = cmd, !.targets = targets, !.into = into,
                            !.pc = IF yes THEN "relist" ELSE "confirm"]
    IN  /\ TfQuiet
        /\ tfOps[p] = TfIdle /\ targets # {}
        /\ \/ cmd = "mv" /\ into # NoTerraform /\ \E a \in targets : targets = {a}
           \/ cmd = "rm" /\ into = NoTerraform
        /\ TfMovable(o)
        /\ TfSet(p, o)

\* A bug of StateRelist: only a move looks again.
StateRelist_MoveOnly(p) ==
    /\ TfQuiet
    /\ TfAt(p, {"mv", "rm"}, "relist")
    /\ IF tfOps[p].cmd = "mv" => TfMovable(tfOps[p]) THEN TfGoto(p, "run") ELSE TfEnd(p)

StateRelist(p) ==
    /\ TfQuiet
    /\ TfAt(p, {"mv", "rm"}, "relist")
    /\ IF TfMovable(tfOps[p]) THEN TfGoto(p, "run") ELSE TfEnd(p)

\* Terraform itself refuses a move or a removal that is no longer possible.
StateRun(p) ==
    /\ UNCHANGED <<TfFiles, tfClock, tfIdentity>>
    /\ TfAt(p, {"mv", "rm"}, "run")
    /\ tfRun' = [cmd |-> tfOps[p].cmd, plan |-> NoTerraform, shown |-> NoTerraform,
                 scope |-> "apply", held |-> tfOps[p].held, same |-> tfOps[p].same,
                 seen |-> tfOps[p].seen]
    /\ tfState' = IF TfMovable(tfOps[p])
                  THEN (tfState \ tfOps[p].targets)
                       \cup (IF tfOps[p].cmd = "mv" THEN {tfOps[p].into} ELSE {})
                  ELSE tfState
    /\ TfEnd(p)

-----------------------------------------------------------------------------
(* Everything else *)

\* tfxPlan: bb owns -out and refuses -destroy, so its plans are of one kind.
TerraformPlan ==
    /\ tfRun' = NoTerraform /\ UNCHANGED <<tfSession, TfWorld>>
    /\ tfPlanned < MaxTerraformPlans /\ tfPlanned' = tfPlanned + 1
    /\ tfPlans' = [tfPlans EXCEPT !["apply"] = tfPlanned']
    /\ tfOps' = TfWitnessed(tfOps)

TerraformTick ==
    /\ tfRun' = NoTerraform /\ UNCHANGED <<tfIdentity, tfState, TfFiles>>
    /\ tfClock < MaxTerraformTime /\ tfClock' = tfClock + 1
    /\ tfOps' = TfWitnessed(tfOps)

\* The caller's credentials become another account's; somebody else's Terraform
\* changes the state.
IdentityChanges ==
    /\ tfRun' = NoTerraform /\ UNCHANGED <<tfClock, tfState, TfFiles>>
    /\ \E account \in TerraformAccounts \ {tfIdentity} : tfIdentity' = account
    /\ tfOps' = TfWitnessed(tfOps)

StateChanges ==
    /\ tfRun' = NoTerraform /\ UNCHANGED <<tfClock, tfIdentity, TfFiles>>
    /\ \E state \in (SUBSET TerraformAddresses) \ {tfState} : tfState' = state
    /\ tfOps' = TfWitnessed(tfOps)

\* An interrupt, a failure of terraform, aws or the disk: the process stops
\* (a killed one leaves its private copy of the plan behind).
ProcessStops(p) ==
    /\ tfRun' = NoTerraform /\ UNCHANGED <<TfFiles, TfWorld>>
    /\ tfOps[p] # TfIdle
    /\ TfEnd(p)

TerraformNext ==
    \/ \E p \in TerraformProcs :
          \/ \E scope \in TfScopes : SessionIdentify(p, scope)
          \/ SessionAnswer(p)
          \/ \E cmd \in {"apply", "destroy"} : MutateRead(p, cmd)
          \/ MutateIdentify(p) \/ DestroyPlan(p) \/ PlanCopy(p)
          \/ ConfirmAnswer(p, TRUE) \/ ConfirmAnswer(p, FALSE)
          \/ MutateReread(p) \/ MutateReidentify(p) \/ MutateRun(p)
          \/ \E cmd \in {"mv", "rm"}, targets \in SUBSET TerraformAddresses,
                into \in TerraformAddresses \cup {NoTerraform}, yes \in BOOLEAN :
                StateList(p, cmd, targets, into, yes)
          \/ StateRelist(p) \/ StateRun(p)
          \/ ProcessStops(p)
    \/ SessionEnd \/ TerraformPlan \/ TerraformTick \/ IdentityChanges \/ StateChanges

-----------------------------------------------------------------------------
(* Properties *)

\* The bytes Terraform applies are the ones whose hash the person answered about:
\* snapshotTFXPlan's private copy (tfx.go:420), although another planning may
\* have replaced the file meanwhile.
AppliedPlanWasShown ==
    tfRun # NoTerraform /\ tfRun.cmd \in {"apply", "destroy"} => tfRun.plan = tfRun.shown

\* Terraform applies only if, at some moment after the person answered, the very
\* session the command began with was in force and, at some moment after it, AWS
\* still said the session's account; destroying takes a destroy session
\* (revalidateTFXMutation, tfx.go:378).  An answer given after the session was
\* ended, had expired or was replaced does nothing.
AnswerWasAuthorised ==
    tfRun # NoTerraform /\ tfRun.cmd \in {"apply", "destroy"} =>
        /\ tfRun.held /\ tfRun.same
        /\ tfRun.cmd = "destroy" => tfRun.scope = "destroy"

\* terraform state mv and rm run only if all their targets were in the state, and
\* the destination was not, at some moment after the answer ("preventing a stale
\* list from authorising a change", tfx.go:753).
StaleListNeverAuthorises ==
    tfRun # NoTerraform /\ tfRun.cmd \in {"mv", "rm"} => tfRun.seen

TerraformSpec == TerraformInit /\ [][TerraformNext]_terraformVars

=============================================================================
