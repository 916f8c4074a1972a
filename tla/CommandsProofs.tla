--------------------------- MODULE CommandsProofs ---------------------------
(***************************************************************************)
(* What bb's other commands promise, for any number of processes, plans,   *)
(* files, rules, requests, presets and projects: the Terraform workflow,   *)
(* clean, the projects and their tmux sessions, the list of commands the   *)
(* MCP server may run, that server, the registry of MCP servers, the       *)
(* presets, the browser's list and the selector.                           *)
(*                                                                         *)
(* Each has an invariant of its own over its own state.  A command that    *)
(* asks a person keeps what it showed, and the invariant says what has     *)
(* stayed so since the answer; the steps of others (another process, the   *)
(* operator, tmux, the person's shell) keep it.  The last section puts the *)
(* invariants together: a step of one command leaves the others' state.    *)
(***************************************************************************)
EXTENDS MCCommands, FiniteSetTheorems, SequenceTheorems, WellFoundedInduction, TLAPS

-----------------------------------------------------------------------------
(* The Terraform workflow *)

(* What a process knows and has been told: the copy is the plan that was shown;  *)
(* apply and destroy run with a session of their scope that was in force, and an *)
(* account that was its own, since the answer; a change of the state with a list *)
(* that was right since then.                                                    *)
TfSound(o) ==
  /\ o \in TfOps /\ o.copy = o.shown
  /\ o.cmd \in {"apply", "destroy"} =>
       /\ o.session \in TfSessions
       /\ o.cmd = "destroy" => o.session.scope = "destroy"
       /\ o.pc \in {"reidentify", "run"} => o.held
       /\ o.pc = "run" => o.same
  /\ o.cmd \in {"mv", "rm"} /\ o.pc = "run" => o.seen
  /\ o.cmd = "session" => o.account \in TerraformAccounts
  /\ o.cmd = "mv" => o.into \in TerraformAddresses

TfRunSound == AppliedPlanWasShown /\ AnswerWasAuthorised /\ StaleListNeverAuthorises

TfInv ==
  /\ TerraformTypeOK /\ TfRunSound
  /\ \A p \in TerraformProcs : TfSound(tfOps[p])

LEMMA TfWitnessFields ==
  ASSUME NEW o \in TfOps, NEW session, NEW identity, NEW state, NEW time,
         NEW w, w = TfWitness(o, session, identity, state, time)
  PROVE  /\ w \in TfOps
         /\ w.cmd = o.cmd /\ w.pc = o.pc /\ w.session = o.session /\ w.copy = o.copy
         /\ w.shown = o.shown
         /\ w.account = o.account /\ w.into = o.into
         /\ w.held <=> o.held \/ (session = o.session /\ TfInForce(session, time))
         /\ w.same <=> o.same \/ (o.session # NoTerraform /\ identity = o.session.account)
         /\ w.seen <=> o.seen \/ (o.targets \subseteq state /\ o.into \notin state)
<1> DEFINE h == o.held \/ (session = o.session /\ TfInForce(session, time))
           a == o.same \/ (o.session # NoTerraform /\ identity = o.session.account)
           l == o.seen \/ (o.targets \subseteq state /\ o.into \notin state)
<1>1. h \in BOOLEAN /\ a \in BOOLEAN /\ l \in BOOLEAN
  BY Zenon DEF TfOps
<1>2. w = [o EXCEPT !.held = h, !.same = a, !.seen = l]
  BY Zenon DEF TfWitness
<1> HIDE DEF h, a, l
<1>3. /\ w \in TfOps
      /\ w.cmd = o.cmd /\ w.pc = o.pc /\ w.session = o.session /\ w.copy = o.copy /\ w.shown = o.shown
      /\ w.account = o.account /\ w.into = o.into
      /\ w.held = h /\ w.same = a /\ w.seen = l
  <2>1. /\ w.cmd = o.cmd /\ w.pc = o.pc /\ w.session = o.session /\ w.copy = o.copy /\ w.shown = o.shown
        /\ w.account = o.account /\ w.into = o.into
    BY <1>2 DEF TfOps
  <2>2. w.held = h /\ w.same = a /\ w.seen = l
    BY <1>2 DEF TfOps
  <2>3. w \in TfOps
    BY <1>1, <1>2 DEF TfOps
  <2> QED BY <2>1, <2>2, <2>3
<1>4. (w.held <=> h) /\ (w.same <=> a) /\ (w.seen <=> l)
  BY <1>3, Zenon
<1> QED BY <1>3, <1>4, Zenon DEF h, a, l

LEMMA TfWitnessSound ==
  ASSUME NEW o, TfSound(o), NEW session, NEW identity, NEW state, NEW time
  PROVE  TfSound(TfWitness(o, session, identity, state, time))
<1>1. o \in TfOps
  BY DEF TfSound
<1>2. PICK w : w = TfWitness(o, session, identity, state, time)
  OBVIOUS
<1>3. /\ w \in TfOps
      /\ w.cmd = o.cmd /\ w.pc = o.pc /\ w.session = o.session /\ w.copy = o.copy /\ w.shown = o.shown
      /\ w.account = o.account /\ w.into = o.into
  BY <1>1, <1>2, TfWitnessFields
<1>4. (o.held => w.held) /\ (o.same => w.same) /\ (o.seen => w.seen)
  <2>1. /\ w.held <=> o.held \/ (session = o.session /\ TfInForce(session, time))
        /\ w.same <=> o.same \/ (o.session # NoTerraform /\ identity = o.session.account)
        /\ w.seen <=> o.seen \/ (o.targets \subseteq state /\ o.into \notin state)
    BY <1>1, <1>2, TfWitnessFields
  <2> QED BY <2>1, Zenon
<1>5. TfSound(w)
  BY <1>3, <1>4, Zenon DEF TfSound
<1> QED BY <1>2, <1>5

(* A step of one process: the others are told of what it changes. *)
LEMMA TfOthersSound ==
  ASSUME NEW ops, DOMAIN ops = TerraformProcs, tfOps' = TfWitnessed(ops),
         \A q \in TerraformProcs :
            TfSound(IF TfAnswered(ops[q])
                    THEN TfWitness(ops[q], tfSession', tfIdentity', tfState', tfClock') ELSE ops[q])
  PROVE  tfOps' \in [TerraformProcs -> TfOps] /\ \A q \in TerraformProcs : TfSound(tfOps'[q])
<1>1. tfOps' = [q \in TerraformProcs |->
                  IF TfAnswered(ops[q])
                  THEN TfWitness(ops[q], tfSession', tfIdentity', tfState', tfClock') ELSE ops[q]]
  BY Zenon DEF TfWitnessed
<1>2. \A q \in TerraformProcs : TfSound(tfOps'[q])
  BY <1>1, Zenon
<1>3. \A q \in TerraformProcs : tfOps'[q] \in TfOps
  BY <1>2 DEF TfSound
<1> QED BY <1>1, <1>2, <1>3

LEMMA TfToldSound ==
  ASSUME TfInv, tfOps' = TfWitnessed(tfOps)
  PROVE  tfOps' \in [TerraformProcs -> TfOps] /\ \A q \in TerraformProcs : TfSound(tfOps'[q])
<1>1. ASSUME NEW q \in TerraformProcs
      PROVE  TfSound(IF TfAnswered(tfOps[q])
                     THEN TfWitness(tfOps[q], tfSession', tfIdentity', tfState', tfClock') ELSE tfOps[q])
  <2>1. TfSound(tfOps[q])
    BY DEF TfInv
  <2> QED BY <2>1, TfWitnessSound
<1>2. DOMAIN tfOps = TerraformProcs
  BY DEF TfInv, TerraformTypeOK
<1> QED BY <1>1, <1>2, TfOthersSound

LEMMA TfSetSound ==
  ASSUME TfInv, NEW p \in TerraformProcs, NEW o, TfSet(p, o),
         TfSound(IF TfAnswered(o) THEN TfWitness(o, tfSession', tfIdentity', tfState', tfClock') ELSE o)
  PROVE  tfOps' \in [TerraformProcs -> TfOps] /\ \A q \in TerraformProcs : TfSound(tfOps'[q])
<1> DEFINE ops == [tfOps EXCEPT ![p] = o]
<1>1. DOMAIN ops = TerraformProcs /\ ops[p] = o /\ \A q \in TerraformProcs : q # p => ops[q] = tfOps[q]
  BY DEF TfInv, TerraformTypeOK
<1>2. tfOps' = TfWitnessed(ops)
  BY DEF TfSet
<1> HIDE DEF ops
<1>3. ASSUME NEW q \in TerraformProcs
      PROVE  TfSound(IF TfAnswered(ops[q])
                     THEN TfWitness(ops[q], tfSession', tfIdentity', tfState', tfClock') ELSE ops[q])
  <2>1. TfSound(tfOps[q])
    BY DEF TfInv
  <2>2. CASE q = p
    BY <1>1, <2>2
  <2>3. CASE q # p
    <3>1. ops[q] = tfOps[q]
      BY <1>1, <2>3
    <3> QED BY <2>1, <3>1, TfWitnessSound
  <2> QED BY <2>2, <2>3
<1> QED BY <1>1, <1>2, <1>3, TfOthersSound

(* What the process itself is, when it is sound before it is told. *)
LEMMA TfGoes ==
  ASSUME TfInv, NEW p \in TerraformProcs, NEW o, TfSet(p, o), TfSound(o)
  PROVE  tfOps' \in [TerraformProcs -> TfOps] /\ \A q \in TerraformProcs : TfSound(tfOps'[q])
<1>1. TfSound(IF TfAnswered(o) THEN TfWitness(o, tfSession', tfIdentity', tfState', tfClock') ELSE o)
  BY TfWitnessSound
<1> QED BY <1>1, TfSetSound

LEMMA TfIdleSound == TfSound(TfIdle)
BY TerraformAssumption DEF TfSound, TfIdle, TfOps, TfScopes

LEMMA TfEnds ==
  ASSUME TfInv, NEW p \in TerraformProcs, TfEnd(p)
  PROVE  tfOps' \in [TerraformProcs -> TfOps] /\ \A q \in TerraformProcs : TfSound(tfOps'[q])
BY TfGoes, TfIdleSound DEF TfEnd

(* A step in which Terraform is not run changes files and world in their types. *)
LEMMA TfQuietKeeps ==
  ASSUME TfInv, tfRun' = NoTerraform,
         tfClock' \in 0..MaxTerraformTime, tfIdentity' \in TerraformAccounts,
         tfSession' \in TfSessions \cup {NoTerraform},
         tfPlans' \in [TfScopes -> TfPlanIds \cup {NoTerraform}], tfPlanned' \in 0..MaxTerraformPlans,
         tfState' \in SUBSET TerraformAddresses,
         tfOps' \in [TerraformProcs -> TfOps], \A q \in TerraformProcs : TfSound(tfOps'[q])
  PROVE  TfInv'
<1>1. TerraformTypeOK'
  BY DEF TerraformTypeOK
<1>2. TfRunSound'
  BY DEF TfRunSound, AppliedPlanWasShown, AnswerWasAuthorised, StaleListNeverAuthorises
<1> QED BY <1>1, <1>2 DEF TfInv

LEMMA TfStill ==
  ASSUME TfInv, TfQuiet, tfOps' \in [TerraformProcs -> TfOps], \A q \in TerraformProcs : TfSound(tfOps'[q])
  PROVE  TfInv'
<1>1. /\ tfRun' = NoTerraform
      /\ tfClock' \in 0..MaxTerraformTime /\ tfIdentity' \in TerraformAccounts
      /\ tfSession' \in TfSessions \cup {NoTerraform}
      /\ tfPlans' \in [TfScopes -> TfPlanIds \cup {NoTerraform}] /\ tfPlanned' \in 0..MaxTerraformPlans
      /\ tfState' \in SUBSET TerraformAddresses
  BY DEF TfQuiet, TfFiles, TfWorld, TfInv, TerraformTypeOK
<1> QED BY <1>1, TfQuietKeeps

LEMMA SessionKeeps ==
  ASSUME TfInv, \/ \E p \in TerraformProcs : SessionAnswer(p) \/ \E scope \in TfScopes : SessionIdentify(p, scope)
                \/ SessionEnd
  PROVE  TfInv'
<1>1. ASSUME NEW p \in TerraformProcs, NEW scope \in TfScopes, SessionIdentify(p, scope) PROVE TfInv'
  <2> DEFINE o == [TfIdle EXCEPT !.cmd = "session", !.pc = "digits", !.scope = scope, !.account = tfIdentity]
  <2>1. tfIdentity \in TerraformAccounts
    BY DEF TfInv, TerraformTypeOK
  <2>2. TfSound(o)
    BY <2>1, TfIdleSound DEF TfSound, TfIdle, TfOps, TfCommands
  <2>3. TfSet(p, o) /\ TfQuiet
    BY <1>1 DEF SessionIdentify
  <2> HIDE DEF o
  <2> QED BY <2>2, <2>3, TfGoes, TfStill
<1>2. ASSUME NEW p \in TerraformProcs, SessionAnswer(p) PROVE TfInv'
  <2>1. /\ TfAt(p, {"session"}, "digits") /\ TfEnd(p) /\ tfRun' = NoTerraform
        /\ UNCHANGED <<tfPlans, tfPlanned, tfClock, tfIdentity, tfState>>
        /\ \/ tfSession' = tfSession
           \/ \E expires \in (tfClock + 1)..(MaxTerraformTime + 1) :
                tfSession' = [expires |-> expires, account |-> tfOps[p].account, scope |-> tfOps[p].scope]
    BY <1>2 DEF SessionAnswer, TfWorld
  <2>2. tfSession' \in TfSessions \cup {NoTerraform}
    <3>1. tfOps[p].account \in TerraformAccounts /\ tfOps[p].scope \in TfScopes
      BY <2>1 DEF TfInv, TfSound, TfAt, TfOps
    <3>2. tfSession \in TfSessions \cup {NoTerraform} /\ tfClock \in Nat /\ MaxTerraformTime \in Nat
      BY TerraformAssumption DEF TfInv, TerraformTypeOK
    <3> QED BY <2>1, <3>1, <3>2 DEF TfSessions
  <2>3. TerraformTypeOK
    BY DEF TfInv
  <2> QED BY <2>1, <2>2, <2>3, TfEnds, TfQuietKeeps DEF TerraformTypeOK
<1>3. CASE SessionEnd
  <2>1. /\ tfSession' = NoTerraform /\ tfOps' = TfWitnessed(tfOps) /\ tfRun' = NoTerraform
        /\ UNCHANGED <<tfPlans, tfPlanned, tfClock, tfIdentity, tfState>>
    BY <1>3 DEF SessionEnd, TfWorld
  <2>2. TerraformTypeOK
    BY DEF TfInv
  <2> QED BY <2>1, <2>2, TfToldSound, TfQuietKeeps DEF TerraformTypeOK
<1> QED BY <1>1, <1>2, <1>3

LEMMA MutateReadKeeps ==
  ASSUME TfInv, NEW p \in TerraformProcs, NEW cmd \in {"apply", "destroy"}, MutateRead(p, cmd) PROVE TfInv'
<1> DEFINE scope == IF cmd = "apply" THEN "apply" ELSE "destroy"
           o == [TfIdle EXCEPT !.cmd = cmd, !.pc = "identify", !.session = tfSession, !.scope = scope]
<1>1. tfSession \in TfSessions /\ (cmd = "destroy" => tfSession.scope = "destroy")
  BY DEF MutateRead, TfAllows, TfInForce, TfInv, TerraformTypeOK
<1>2. TfSet(p, o) /\ TfQuiet
  BY DEF MutateRead
<1>3. scope \in TfScopes
  BY DEF TfScopes
<1> HIDE DEF scope
<1>4. TfIdle \in TfOps /\ TfIdle.copy = TfIdle.shown
  BY TfIdleSound DEF TfSound
<1>5. /\ o \in TfOps /\ o.copy = o.shown /\ o.cmd = cmd /\ o.pc = "identify" /\ o.session = tfSession
  BY <1>1, <1>3, <1>4 DEF TfOps, TfCommands
<1> HIDE DEF o
<1>6. TfSound(o)
  BY <1>1, <1>5 DEF TfSound
<1> QED BY <1>2, <1>6, TfGoes, TfStill

(* A process that goes on to a step before which nothing is asked of it. *)
LEMMA TfGotoKeeps ==
  ASSUME TfInv, NEW p \in TerraformProcs,
         NEW pc \in {"identify", "plan", "copy", "list", "digits", "confirm", "reread", "relist"},
         TfGoto(p, pc)
  PROVE  tfOps' \in [TerraformProcs -> TfOps] /\ \A q \in TerraformProcs : TfSound(tfOps'[q])
<1> DEFINE o == [tfOps[p] EXCEPT !.pc = pc]
<1>1. TfSound(tfOps[p]) /\ tfOps[p] \in TfOps
  BY DEF TfInv, TfSound
<1>2. /\ o \in TfOps /\ o.copy = tfOps[p].copy /\ o.shown = tfOps[p].shown
      /\ o.account = tfOps[p].account /\ o.into = tfOps[p].into /\ o.cmd = tfOps[p].cmd
      /\ o.pc = pc /\ o.session = tfOps[p].session
  BY <1>1 DEF TfOps
<1>3. TfSet(p, o)
  BY DEF TfGoto
<1> HIDE DEF o
<1>4. TfSound(o)
  BY <1>1, <1>2 DEF TfSound
<1> QED BY <1>3, <1>4, TfGoes

LEMMA MutateIdentifyKeeps == ASSUME TfInv, NEW p \in TerraformProcs, MutateIdentify(p) PROVE TfInv'
<1>1. TfQuiet
  BY DEF MutateIdentify
<1>2. TfEnd(p) \/ TfGoto(p, "copy") \/ TfGoto(p, "plan")
  BY DEF MutateIdentify
<1> QED BY <1>1, <1>2, TfEnds, TfGotoKeeps, TfStill

LEMMA ConfirmAnswerKeeps ==
  ASSUME TfInv, NEW p \in TerraformProcs, NEW yes \in BOOLEAN, ConfirmAnswer(p, yes) PROVE TfInv'
<1>1. TfQuiet
  BY DEF ConfirmAnswer
<1>2. TfEnd(p) \/ TfGoto(p, "reread") \/ TfGoto(p, "relist")
  BY DEF ConfirmAnswer, AfterYes
<1> QED BY <1>1, <1>2, TfEnds, TfGotoKeeps, TfStill

(* A planning writes the next plan, in the place of the kind's last one. *)
LEMMA PlanType ==
  ASSUME TerraformTypeOK, tfPlanned < MaxTerraformPlans, NEW kind \in TfScopes
  PROVE  /\ tfPlanned + 1 \in 0..MaxTerraformPlans
         /\ [tfPlans EXCEPT ![kind] = tfPlanned + 1] \in [TfScopes -> TfPlanIds \cup {NoTerraform}]
<1>1. tfPlanned + 1 \in TfPlanIds /\ tfPlanned + 1 \in 0..MaxTerraformPlans
  BY TerraformAssumption DEF TerraformTypeOK, TfPlanIds
<1> QED BY <1>1 DEF TerraformTypeOK

LEMMA DestroyPlanKeeps == ASSUME TfInv, NEW p \in TerraformProcs, DestroyPlan(p) PROVE TfInv'
<1>1. /\ TerraformTypeOK /\ tfRun' = NoTerraform /\ UNCHANGED <<tfSession, tfClock, tfIdentity, tfState>>
  BY DEF TfInv, DestroyPlan, TfWorld
<1>2. CASE TfEnd(p) /\ UNCHANGED <<tfPlans, tfPlanned>>
  BY <1>1, <1>2, TfEnds, TfQuietKeeps DEF TerraformTypeOK
<1>3. CASE /\ tfPlanned < MaxTerraformPlans /\ tfPlanned' = tfPlanned + 1
           /\ tfPlans' = [tfPlans EXCEPT !["destroy"] = tfPlanned']
           /\ TfGoto(p, "copy")
  <2>1. tfPlanned' \in 0..MaxTerraformPlans /\ tfPlans' \in [TfScopes -> TfPlanIds \cup {NoTerraform}]
    BY <1>1, <1>3, PlanType DEF TfScopes
  <2>2. tfOps' \in [TerraformProcs -> TfOps] /\ \A q \in TerraformProcs : TfSound(tfOps'[q])
    BY <1>3, TfGotoKeeps
  <2> QED BY <1>1, <2>1, <2>2, TfQuietKeeps DEF TerraformTypeOK
<1> QED BY <1>2, <1>3 DEF DestroyPlan

LEMMA PlanCopyKeeps == ASSUME TfInv, NEW p \in TerraformProcs, PlanCopy(p) PROVE TfInv'
<1>1. TfSound(tfOps[p]) /\ tfOps[p] \in TfOps /\ TfQuiet /\ TerraformTypeOK
  BY DEF TfInv, TfSound, PlanCopy
<1> DEFINE plan == tfPlans[tfOps[p].scope]
           o == [tfOps[p] EXCEPT !.pc = "confirm", !.copy = plan, !.shown = plan]
<1>2. plan \in TfPlanIds \cup {NoTerraform}
  BY <1>1 DEF TfOps, TerraformTypeOK
<1>3. TfEnd(p) \/ TfSet(p, o)
  BY DEF PlanCopy
<1> HIDE DEF plan
<1>4. /\ o \in TfOps /\ o.copy = plan /\ o.shown = plan /\ o.cmd = tfOps[p].cmd
      /\ o.pc = "confirm" /\ o.session = tfOps[p].session
      /\ o.account = tfOps[p].account /\ o.into = tfOps[p].into
  BY <1>1, <1>2 DEF TfOps
<1> HIDE DEF o
<1>5. TfSound(o)
  BY <1>1, <1>4 DEF TfSound
<1> QED BY <1>1, <1>3, <1>5, TfEnds, TfGoes, TfStill

(* What is looked at after the answer is what the process is then told it was. *)
LEMMA MutateRereadKeeps == ASSUME TfInv, NEW p \in TerraformProcs, MutateReread(p) PROVE TfInv'
<1>1. /\ TfSound(tfOps[p]) /\ tfOps[p] \in TfOps /\ TfQuiet /\ TfAt(p, {"apply", "destroy"}, "reread")
  BY DEF TfInv, TfSound, MutateReread
<1> DEFINE o == [tfOps[p] EXCEPT !.pc = "reidentify"]
<1>2. CASE SessionStill(tfOps[p])
  <2>1. PICK w : w = TfWitness(o, tfSession', tfIdentity', tfState', tfClock')
    OBVIOUS
  <2>2. /\ o \in TfOps /\ o.copy = tfOps[p].copy /\ o.shown = tfOps[p].shown
        /\ o.account = tfOps[p].account /\ o.into = tfOps[p].into /\ o.cmd = tfOps[p].cmd
        /\ o.pc = "reidentify" /\ o.session = tfOps[p].session
    BY <1>1 DEF TfOps
  <2>3. TfSet(p, o)
    BY <1>2 DEF MutateReread, TfGoto
  <2> HIDE DEF o
  <2>4. tfSession' = o.session /\ TfInForce(tfSession', tfClock')
    BY <1>1, <1>2, <2>2 DEF SessionStill, TfAllows, TfQuiet, TfFiles, TfWorld, TfInForce
  <2>5. /\ w \in TfOps
        /\ w.cmd = o.cmd /\ w.pc = o.pc /\ w.session = o.session /\ w.copy = o.copy /\ w.shown = o.shown
        /\ w.account = o.account /\ w.into = o.into
        /\ w.held <=> o.held \/ (tfSession' = o.session /\ TfInForce(tfSession', tfClock'))
    BY <2>1, <2>2, TfWitnessFields
  <2>6. w.held
    BY <2>4, <2>5, Zenon
  <2>7. TfSound(w)
    BY <1>1, <2>2, <2>5, <2>6 DEF TfSound, TfAt
  <2>8. TfAnswered(o)
    BY <2>2 DEF TfAnswered
  <2> QED BY <1>1, <2>1, <2>3, <2>7, <2>8, TfSetSound, TfStill
<1>3. CASE ~SessionStill(tfOps[p])
  <2>1. TfEnd(p)
    BY <1>3 DEF MutateReread
  <2> QED BY <1>1, <2>1, TfEnds, TfStill
<1> QED BY <1>2, <1>3

LEMMA MutateReidentifyKeeps == ASSUME TfInv, NEW p \in TerraformProcs, MutateReidentify(p) PROVE TfInv'
<1>1. /\ TfSound(tfOps[p]) /\ tfOps[p] \in TfOps /\ TfQuiet /\ TfAt(p, {"apply", "destroy"}, "reidentify")
  BY DEF TfInv, TfSound, MutateReidentify
<1> DEFINE o == [tfOps[p] EXCEPT !.pc = "run"]
<1>2. CASE AccountStill(tfOps[p])
  <2>1. PICK w : w = TfWitness(o, tfSession', tfIdentity', tfState', tfClock')
    OBVIOUS
  <2>2. /\ o \in TfOps /\ o.copy = tfOps[p].copy /\ o.shown = tfOps[p].shown
        /\ o.account = tfOps[p].account /\ o.into = tfOps[p].into /\ o.cmd = tfOps[p].cmd
        /\ o.pc = "run" /\ o.session = tfOps[p].session /\ o.held = tfOps[p].held
    BY <1>1 DEF TfOps
  <2>3. TfSet(p, o)
    BY <1>2 DEF MutateReidentify, TfGoto
  <2> HIDE DEF o
  <2>4. tfOps[p].held /\ o.session # NoTerraform
    BY <1>1, <2>2, TerraformAssumption DEF TfSound, TfAt, TfSessions, TfScopes
  <2>5. tfIdentity' = o.session.account
    BY <1>1, <1>2, <2>2 DEF AccountStill, TfQuiet, TfWorld
  <2>6. /\ w \in TfOps
        /\ w.cmd = o.cmd /\ w.pc = o.pc /\ w.session = o.session /\ w.copy = o.copy /\ w.shown = o.shown
        /\ w.account = o.account /\ w.into = o.into
        /\ w.held <=> o.held \/ (tfSession' = o.session /\ TfInForce(tfSession', tfClock'))
        /\ w.same <=> o.same \/ (o.session # NoTerraform /\ tfIdentity' = o.session.account)
    BY <2>1, <2>2, TfWitnessFields
  <2>7. w.held /\ w.same
    BY <2>2, <2>4, <2>5, <2>6, Zenon
  <2>8. TfSound(w)
    BY <1>1, <2>2, <2>6, <2>7 DEF TfSound, TfAt
  <2>9. TfAnswered(o)
    BY <2>2 DEF TfAnswered
  <2> QED BY <1>1, <2>1, <2>3, <2>8, <2>9, TfSetSound, TfStill
<1>3. CASE ~AccountStill(tfOps[p])
  <2>1. TfEnd(p)
    BY <1>3 DEF MutateReidentify
  <2> QED BY <1>1, <2>1, TfEnds, TfStill
<1> QED BY <1>2, <1>3

LEMMA StateRelistKeeps == ASSUME TfInv, NEW p \in TerraformProcs, StateRelist(p) PROVE TfInv'
<1>1. /\ TfSound(tfOps[p]) /\ tfOps[p] \in TfOps /\ TfQuiet /\ TfAt(p, {"mv", "rm"}, "relist")
  BY DEF TfInv, TfSound, StateRelist
<1> DEFINE o == [tfOps[p] EXCEPT !.pc = "run"]
<1>2. CASE TfMovable(tfOps[p])
  <2>1. PICK w : w = TfWitness(o, tfSession', tfIdentity', tfState', tfClock')
    OBVIOUS
  <2>2. /\ o \in TfOps /\ o.copy = tfOps[p].copy /\ o.shown = tfOps[p].shown
        /\ o.account = tfOps[p].account /\ o.into = tfOps[p].into /\ o.cmd = tfOps[p].cmd
        /\ o.pc = "run" /\ o.targets = tfOps[p].targets /\ o.into = tfOps[p].into
    BY <1>1 DEF TfOps
  <2>3. TfSet(p, o)
    BY <1>2 DEF StateRelist, TfGoto
  <2> HIDE DEF o
  <2>4. o.targets \subseteq tfState' /\ o.into \notin tfState'
    BY <1>1, <1>2, <2>2 DEF TfMovable, TfQuiet, TfWorld
  <2>5. /\ w \in TfOps /\ w.cmd = o.cmd /\ w.pc = o.pc /\ w.copy = o.copy /\ w.shown = o.shown
        /\ w.account = o.account /\ w.into = o.into
        /\ w.seen <=> o.seen \/ (o.targets \subseteq tfState' /\ o.into \notin tfState')
    BY <2>1, <2>2, TfWitnessFields
  <2>6. w.seen
    BY <2>4, <2>5, Zenon
  <2>7. TfSound(w)
    BY <1>1, <2>2, <2>5, <2>6 DEF TfSound, TfAt
  <2>8. TfAnswered(o)
    BY <2>2 DEF TfAnswered
  <2> QED BY <1>1, <2>1, <2>3, <2>7, <2>8, TfSetSound, TfStill
<1>3. CASE ~TfMovable(tfOps[p])
  <2>1. TfEnd(p)
    BY <1>3 DEF StateRelist
  <2> QED BY <1>1, <2>1, TfEnds, TfStill
<1> QED BY <1>2, <1>3

LEMMA StateListKeeps ==
  ASSUME TfInv, NEW p \in TerraformProcs, NEW cmd \in {"mv", "rm"}, NEW targets \in SUBSET TerraformAddresses,
         NEW into \in TerraformAddresses \cup {NoTerraform}, NEW yes \in BOOLEAN,
         StateList(p, cmd, targets, into, yes)
  PROVE  TfInv'
<1> DEFINE pc == IF yes THEN "relist" ELSE "confirm"
           o == [TfIdle EXCEPT !.cmd = cmd, !.targets = targets, !.into = into, !.pc = pc]
<1>1. TfSet(p, o) /\ TfQuiet
  BY DEF StateList
<1>2. pc \in {"relist", "confirm"}
  OBVIOUS
<1> HIDE DEF pc
<1>3. TfIdle \in TfOps /\ TfIdle.copy = TfIdle.shown
  BY TfIdleSound DEF TfSound
<1>4. /\ o \in TfOps /\ o.copy = o.shown /\ o.cmd = cmd /\ o.pc = pc /\ o.into = into
  <2>1. cmd \in TfCommands
    BY DEF TfCommands
  <2> QED BY <1>2, <1>3, <2>1 DEF TfOps
<1>5. cmd = "mv" => into \in TerraformAddresses
  BY DEF StateList
<1> HIDE DEF o
<1>6. TfSound(o)
  BY <1>2, <1>4, <1>5 DEF TfSound
<1> QED BY <1>1, <1>6, TfGoes, TfStill

(* Terraform is run: what was recorded of the process is what the run says. *)
LEMMA RunKeeps == ASSUME TfInv, NEW p \in TerraformProcs, MutateRun(p) \/ StateRun(p) PROVE TfInv'
<1>1. TfSound(tfOps[p]) /\ tfOps[p] \in TfOps /\ TerraformTypeOK /\ TfEnd(p)
  BY DEF TfInv, TfSound, MutateRun, StateRun
<1>2. /\ UNCHANGED <<tfSession, tfPlans, tfPlanned, tfClock, tfIdentity>>
  BY DEF MutateRun, StateRun, TfFiles
<1>3. tfState' \in SUBSET TerraformAddresses
  <2>1. CASE MutateRun(p)
    BY <2>1 DEF MutateRun
  <2>2. CASE StateRun(p)
    <3>1. tfOps[p].cmd = "mv" => tfOps[p].into \in TerraformAddresses
      BY <1>1 DEF TfSound
    <3>2. tfState \in SUBSET TerraformAddresses
      BY <1>1 DEF TerraformTypeOK
    <3>3. tfState' = tfState \/ tfState' = (tfState \ tfOps[p].targets)
                                           \cup (IF tfOps[p].cmd = "mv" THEN {tfOps[p].into} ELSE {})
      BY <2>2 DEF StateRun
    <3> QED BY <3>1, <3>2, <3>3
  <2> QED BY <2>1, <2>2
<1>4. tfRun' \in TfRuns /\ TfRunSound'
  <2>1. CASE MutateRun(p)
    <3>1. /\ tfRun' = [cmd |-> tfOps[p].cmd, plan |-> tfOps[p].copy,
                       shown |-> tfOps[p].shown, scope |-> tfOps[p].session.scope,
                       held |-> tfOps[p].held, same |-> tfOps[p].same, seen |-> tfOps[p].seen]
          /\ tfOps[p].cmd \in {"apply", "destroy"} /\ tfOps[p].pc = "run"
      BY <2>1 DEF MutateRun, PlanArgument, TfAt
    <3>2. tfOps[p].held /\ tfOps[p].same /\ tfOps[p].session \in TfSessions
          /\ (tfOps[p].cmd = "destroy" => tfOps[p].session.scope = "destroy")
          /\ tfOps[p].copy = tfOps[p].shown
      BY <1>1, <3>1 DEF TfSound
    <3>3. tfRun' \in TfRuns
      BY <1>1, <3>1, <3>2 DEF TfRuns, TfOps, TfSessions, TfCommands
    <3>4. /\ tfRun'.plan = tfRun'.shown /\ tfRun'.held /\ tfRun'.same
          /\ tfRun'.cmd = "destroy" => tfRun'.scope = "destroy"
          /\ tfRun'.cmd \in {"apply", "destroy"}
      BY <3>1, <3>2
    <3> QED BY <3>3, <3>4 DEF TfRunSound, AppliedPlanWasShown, AnswerWasAuthorised, StaleListNeverAuthorises
  <2>2. CASE StateRun(p)
    <3>1. /\ tfRun' = [cmd |-> tfOps[p].cmd, plan |-> NoTerraform, shown |-> NoTerraform,
                       scope |-> "apply", held |-> tfOps[p].held, same |-> tfOps[p].same,
                       seen |-> tfOps[p].seen]
          /\ tfOps[p].cmd \in {"mv", "rm"} /\ tfOps[p].pc = "run"
      BY <2>2 DEF StateRun, TfAt
    <3>2. tfOps[p].seen
      BY <1>1, <3>1 DEF TfSound
    <3>3. tfRun' \in TfRuns
      BY <1>1, <3>1, <3>2 DEF TfRuns, TfOps, TfCommands, TfScopes
    <3>4. tfRun'.seen /\ tfRun'.cmd \notin {"apply", "destroy"}
      BY <3>1, <3>2
    <3> QED BY <3>3, <3>4 DEF TfRunSound, AppliedPlanWasShown, AnswerWasAuthorised, StaleListNeverAuthorises
  <2> QED BY <2>1, <2>2
<1>5. tfOps' \in [TerraformProcs -> TfOps] /\ \A q \in TerraformProcs : TfSound(tfOps'[q])
  BY <1>1, TfEnds
<1>6. TerraformTypeOK'
  BY <1>1, <1>2, <1>3, <1>4, <1>5 DEF TerraformTypeOK
<1> QED BY <1>4, <1>5, <1>6 DEF TfInv

LEMMA TerraformWorldKeeps ==
  ASSUME TfInv, TerraformPlan \/ TerraformTick \/ IdentityChanges \/ StateChanges PROVE TfInv'
<1>1. /\ TerraformTypeOK /\ tfRun' = NoTerraform /\ tfOps' = TfWitnessed(tfOps)
  BY DEF TfInv, TerraformPlan, TerraformTick, IdentityChanges, StateChanges
<1>2. tfOps' \in [TerraformProcs -> TfOps] /\ \A q \in TerraformProcs : TfSound(tfOps'[q])
  BY <1>1, TfToldSound
<1>3. CASE TerraformPlan
  <2>1. tfPlanned' \in 0..MaxTerraformPlans /\ tfPlans' \in [TfScopes -> TfPlanIds \cup {NoTerraform}]
    BY <1>1, <1>3, PlanType DEF TerraformPlan, TfScopes
  <2>2. UNCHANGED <<tfSession, tfClock, tfIdentity, tfState>>
    BY <1>3 DEF TerraformPlan, TfWorld
  <2> QED BY <1>1, <1>2, <2>1, <2>2, TfQuietKeeps DEF TerraformTypeOK
<1>4. CASE TerraformTick
  <2>1. tfClock' \in 0..MaxTerraformTime /\ UNCHANGED <<tfIdentity, tfState, tfSession, tfPlans, tfPlanned>>
    BY <1>1, <1>4, TerraformAssumption DEF TerraformTick, TerraformTypeOK, TfFiles
  <2> QED BY <1>1, <1>2, <2>1, TfQuietKeeps DEF TerraformTypeOK
<1>5. CASE IdentityChanges \/ StateChanges
  <2>1. /\ tfIdentity' \in TerraformAccounts /\ tfState' \in SUBSET TerraformAddresses
        /\ UNCHANGED <<tfClock, tfSession, tfPlans, tfPlanned>>
    BY <1>1, <1>5 DEF IdentityChanges, StateChanges, TerraformTypeOK, TfFiles
  <2> QED BY <1>1, <1>2, <2>1, TfQuietKeeps DEF TerraformTypeOK
<1> QED BY <1>3, <1>4, <1>5

LEMMA TerraformInitKeeps == TerraformInit => TfInv
<1> SUFFICES ASSUME TerraformInit PROVE TfInv
  OBVIOUS
<1>1. \A p \in TerraformProcs : TfSound(tfOps[p]) /\ tfOps[p] \in TfOps
  BY TfIdleSound DEF TerraformInit, TfSound
<1>2. TerraformTypeOK
  BY <1>1, TerraformAssumption DEF TerraformInit, TerraformTypeOK
<1>3. TfRunSound
  BY DEF TerraformInit, TfRunSound, AppliedPlanWasShown, AnswerWasAuthorised, StaleListNeverAuthorises
<1> QED BY <1>1, <1>2, <1>3 DEF TfInv

LEMMA TerraformNextKeeps == TfInv /\ [TerraformNext]_terraformVars => TfInv'
<1> SUFFICES ASSUME TfInv, [TerraformNext]_terraformVars PROVE TfInv'
  OBVIOUS
<1>1. CASE UNCHANGED terraformVars
  BY <1>1 DEF terraformVars, TfInv, TerraformTypeOK, TfRunSound, AppliedPlanWasShown,
              AnswerWasAuthorised, StaleListNeverAuthorises
<1>2. ASSUME NEW p \in TerraformProcs, ProcessStops(p) PROVE TfInv'
  <2>1. TfQuiet /\ TfEnd(p)
    BY <1>2 DEF ProcessStops, TfQuiet
  <2> QED BY <2>1, TfEnds, TfStill
<1> QED BY <1>1, <1>2, SessionKeeps, MutateReadKeeps, MutateIdentifyKeeps, DestroyPlanKeeps, PlanCopyKeeps,
           ConfirmAnswerKeeps, MutateRereadKeeps, MutateReidentifyKeeps, StateListKeeps, StateRelistKeeps,
           RunKeeps, TerraformWorldKeeps DEF TerraformNext

-----------------------------------------------------------------------------
(* Clean *)

(* While it works, clean has removed exactly the listed paths before the one at  *)
(* hand, and before it removes that one, it has been the listed file since the   *)
(* answer.                                                                       *)
ClInv ==
  /\ CleanTypeOK /\ OnlyListedFilesRemoved /\ RemovedReportIsTrue
  /\ clStep = "start" => clRemoved = {}
  /\ clStep \in {"confirm", "observe", "remove"} =>
       /\ clAt \in ListedPaths(clListed) /\ clReported = CleanUnsaid
       /\ {r.path : r \in clRemoved} = {p \in ListedPaths(clListed) : p < clAt}
  /\ clStep = "remove" => clAt \in clFresh

LEMMA FirstOf == ASSUME NEW A \in SUBSET Nat, A # {} PROVE \E a \in A : \A r \in A : a <= r
<1>1. PICK a \in A : \A r \in A : ~(<<r, a>> \in OpToRel(<, Nat))
  BY NatLessThanWellFounded, WFMin
<1>2. \A r \in A : ~(r < a)
  BY <1>1 DEF OpToRel
<1> QED BY <1>2

(* CleanNextAt is the first listed path after q, or just past all of them. *)
LEMMA CleanNextAtIs ==
  ASSUME NEW listed, NEW q \in Nat, NEW next, next = CleanNextAt(listed, q)
  PROVE  /\ next \in 1..(CleanTargets + 1)
         /\ next # CleanTargets + 1 => next \in ListedPaths(listed) /\ next > q
         /\ \A p \in ListedPaths(listed) : p < next <=> p <= q
<1> DEFINE L == ListedPaths(listed)
           A == {p \in L : p > q}
<1>0. CleanTargets \in Nat /\ L \subseteq CleanPaths /\ CleanPaths = 1..CleanTargets
  BY CleanAssumption DEF ListedPaths, CleanPaths
<1>1. CASE A # {}
  <2>1. A \in SUBSET Nat
    BY <1>0
  <2>2. PICK a \in A : \A r \in A : a <= r
    BY <1>1, <2>1, FirstOf
  <2>3. a \in L /\ a > q /\ \A r \in L : r > q => a <= r
    BY <2>2
  <2>4. next \in L /\ next > q /\ \A r \in L : r > q => next <= r
    <3>1. \E p \in L : p > q
      BY <2>3
    <3>2. next = CHOOSE p \in L : p > q /\ \A r \in L : r > q => p <= r
      BY <3>1 DEF CleanNextAt
    <3> HIDE DEF L
    <3>3. \E p \in L : p > q /\ \A r \in L : r > q => p <= r
      BY <2>3
    <3> QED BY <3>2, <3>3
  <2> HIDE DEF A
  <2>5. next \in 1..CleanTargets
    BY <1>0, <2>4
  <2>6. next \in 1..(CleanTargets + 1)
    BY <1>0, <2>5
  <2>7. \A p \in L : p < next <=> p <= q
    <3> HIDE DEF L
    <3>1. TAKE p \in L
    <3>2. p \in Nat /\ next \in Nat
      BY <1>0, <2>5
    <3>3. p <= q => p < next
      BY <2>4, <3>2
    <3>4. p > q => next <= p
      BY <2>4
    <3> QED BY <3>2, <3>3, <3>4
  <2> QED BY <2>4, <2>6, <2>7
<1>2. CASE A = {}
  <2>1. \A p \in L : ~(p > q)
    BY <1>2
  <2>2. next = CleanTargets + 1
    BY <2>1 DEF CleanNextAt
  <2>3. \A p \in L : p \in 1..CleanTargets
    BY <1>0
  <2> HIDE DEF L, A
  <2>4. \A p \in L : p < next /\ p <= q
    BY <1>0, <2>1, <2>2, <2>3
  <2> QED BY <1>0, <2>2, <2>4 DEF L
<1> QED BY <1>1, <1>2

LEMMA CleanFreshAfterIs ==
  ASSUME NEW step, NEW listed, NEW fresh, fresh = CleanFreshAfter(step, listed), CleanTypeOK
  PROVE  /\ clFresh \subseteq fresh /\ fresh \in SUBSET CleanPaths
         /\ step \in {"observe", "remove"} =>
              \A p \in CleanPaths : listed[p] # 0 /\ clPaths'[p] = listed[p] => p \in fresh
BY DEF CleanFreshAfter, CleanTypeOK

LEMMA CleanListKeeps == ASSUME ClInv, NEW yes \in BOOLEAN, CleanList(yes) PROVE ClInv'
<1> DEFINE L == ListedPaths(clListed')
<1>1. /\ CleanTypeOK /\ clRemoved = {} /\ clStep = "start" /\ UNCHANGED <<clPaths, clMade, clRemoved>>
  BY DEF ClInv, CleanList
<1>2. CASE /\ CleanEnd("stopped", 0) /\ UNCHANGED <<clListed, clAt, clFresh>>
  BY <1>1, <1>2, CleanAssumption DEF CleanEnd, ClInv, CleanTypeOK, OnlyListedFilesRemoved, RemovedReportIsTrue
<1>3. CASE /\ \A p \in CleanPaths : clPaths[p] # CleanSymlink
           /\ clListed' = clPaths /\ clAt' = CleanNextAt(clPaths, 0)
           /\ IF ListedPaths(clPaths) = {} THEN CleanEnd("removed", 0) /\ UNCHANGED clFresh
              ELSE /\ clStep' = (IF yes THEN "observe" ELSE "confirm")
                   /\ clReported' = CleanUnsaid /\ clFresh' = CleanFreshAfter(clStep', clPaths)
  <2>1. /\ clAt' \in 1..(CleanTargets + 1) /\ (clAt' # CleanTargets + 1 => clAt' \in L)
        /\ \A p \in L : p < clAt' <=> p <= 0
    BY <1>3, CleanNextAtIs
  <2>2. clListed' \in [CleanPaths -> 0..MaxCleanFiles]
    <3>1. \A p \in CleanPaths : clPaths[p] \in 0..(MaxCleanFiles + 1) /\ clPaths[p] # MaxCleanFiles + 1
      BY <1>1, <1>3 DEF CleanTypeOK, CleanSymlink
    <3>2. \A p \in CleanPaths : clPaths[p] \in 0..MaxCleanFiles
      BY <3>1, CleanAssumption
    <3> QED BY <1>1, <1>3, <3>2 DEF CleanTypeOK
  <2>3. L \subseteq 1..CleanTargets /\ CleanTargets \in Nat
    BY CleanAssumption DEF ListedPaths, CleanPaths
  <2>4. \A p \in L : ~(p < clAt')
    BY <2>1, <2>3
  <2>5. {r.path : r \in clRemoved'} = {}
    BY <1>1
  <2>6. CASE L = {}
    <3>1. clStep' = "done" /\ clReported' = [end |-> "removed", count |-> 0] /\ clFresh' = clFresh
      BY <1>3, <2>6 DEF CleanEnd
    <3>2. CleanTypeOK'
      BY <1>1, <2>1, <2>2, <2>3, <3>1 DEF CleanTypeOK
    <3>3. RemovedReportIsTrue'
      BY <2>5, <2>6, <3>1, FS_EmptySet DEF RemovedReportIsTrue
    <3> QED BY <1>1, <3>1, <3>2, <3>3 DEF ClInv, OnlyListedFilesRemoved
  <2>7. CASE L # {}
    <3>1. clStep' \in {"observe", "confirm"} /\ clReported' = CleanUnsaid
          /\ clFresh' = CleanFreshAfter(clStep', clPaths)
      BY <1>3, <2>7
    <3>2. clFresh' \in SUBSET CleanPaths
      BY <1>1, <3>1, CleanFreshAfterIs
    <3>3. CleanTypeOK'
      BY <1>1, <2>1, <2>2, <2>3, <3>1, <3>2 DEF CleanTypeOK, CleanUnsaid
    <3>4. RemovedReportIsTrue'
      BY <3>1 DEF RemovedReportIsTrue, CleanUnsaid
    <3>5. clAt' \in L
      <4>1. PICK p \in L : p \in 1..CleanTargets
        BY <2>3, <2>7
      <4> HIDE DEF L
      <4>2. p < CleanTargets + 1
        BY <2>3, <4>1
      <4> QED BY <2>1, <2>4, <4>1, <4>2
    <3>6. {p \in L : p < clAt'} = {}
      BY <2>4
    <3> QED BY <1>1, <2>5, <3>1, <3>3, <3>4, <3>5, <3>6 DEF ClInv, OnlyListedFilesRemoved
  <2> QED BY <2>6, <2>7
<1> QED BY <1>2, <1>3 DEF CleanList

LEMMA CleanAnswerKeeps == ASSUME ClInv, NEW yes \in BOOLEAN, CleanAnswer(yes) PROVE ClInv'
<1>1. /\ CleanTypeOK /\ clStep = "confirm" /\ UNCHANGED <<clPaths, clMade, clListed, clAt, clRemoved>>
      /\ clFresh' = CleanFreshAfter(clStep', clListed)
  BY DEF ClInv, CleanAnswer
<1>2. clFresh' \in SUBSET CleanPaths
  BY <1>1, CleanFreshAfterIs
<1>3. clStep' \in {"observe", "done"} /\ (clStep' = "observe" => clReported' = CleanUnsaid)
      /\ clReported' \in {CleanUnsaid, [end |-> "cancelled", count |-> 0]}
  BY DEF CleanAnswer, CleanEnd
<1>4. CleanTypeOK'
  BY <1>1, <1>2, <1>3, CleanAssumption DEF CleanTypeOK, CleanUnsaid
<1>5. RemovedReportIsTrue'
  BY <1>3 DEF RemovedReportIsTrue, CleanUnsaid
<1> QED BY <1>1, <1>3, <1>4, <1>5 DEF ClInv, OnlyListedFilesRemoved

LEMMA CleanObserveKeeps == ASSUME ClInv, CleanObserve PROVE ClInv'
<1>1. /\ CleanTypeOK /\ clStep = "observe" /\ UNCHANGED <<clPaths, clMade, clListed, clAt, clRemoved>>
      /\ clFresh' = CleanFreshAfter(clStep', clListed)
  BY DEF ClInv, CleanObserve
<1>2. clFresh' \in SUBSET CleanPaths
  BY <1>1, CleanFreshAfterIs
<1>3. clStep' \in {"remove", "done"} /\ (clStep' = "remove" => clReported' = CleanUnsaid)
      /\ clReported' \in {CleanUnsaid, [end |-> "stopped", count |-> 0]}
  BY DEF CleanObserve, CleanEnd
<1>4. CleanTypeOK'
  BY <1>1, <1>2, <1>3, CleanAssumption DEF CleanTypeOK, CleanUnsaid
<1>5. RemovedReportIsTrue'
  BY <1>3 DEF RemovedReportIsTrue, CleanUnsaid
<1>6. clStep' = "remove" => clAt' \in clFresh'
  <2>1. clAt \in CleanPaths
    BY <1>1 DEF ClInv, ListedPaths
  <2>2. clStep' = "remove" => clListed[clAt] # 0 /\ clPaths'[clAt] = clListed[clAt]
    BY <1>1 DEF CleanObserve, SameFile, CleanEnd
  <2> QED BY <1>1, <2>1, <2>2, CleanFreshAfterIs
<1> QED BY <1>1, <1>3, <1>4, <1>5, <1>6 DEF ClInv, OnlyListedFilesRemoved

LEMMA CleanRemoveKeeps == ASSUME ClInv, NEW failed \in BOOLEAN, CleanRemove(failed) PROVE ClInv'
<1> DEFINE L == ListedPaths(clListed)
<1>1. /\ CleanTypeOK /\ clStep = "remove" /\ UNCHANGED <<clMade, clListed>>
      /\ clFresh' = CleanFreshAfter(clStep', clListed) /\ clAt' = CleanNextAt(clListed, clAt)
      /\ clAt \in L /\ clAt \in clFresh /\ {r.path : r \in clRemoved} = {p \in L : p < clAt}
  BY DEF ClInv, CleanRemove
<1>2. clFresh' \in SUBSET CleanPaths
  BY <1>1, CleanFreshAfterIs
<1>3. clAt \in CleanPaths /\ clAt \in 1..CleanTargets /\ CleanTargets \in Nat /\ L \subseteq 1..CleanTargets
  BY <1>1, CleanAssumption DEF ListedPaths, CleanPaths
<1>4. /\ clAt' \in 1..(CleanTargets + 1)
      /\ clAt' # CleanTargets + 1 => clAt' \in L
      /\ \A p \in L : p < clAt' <=> p <= clAt
  BY <1>1, <1>3, CleanNextAtIs
<1>5. clPaths' \in [CleanPaths -> 0..CleanSymlink]
  BY <1>1, CleanAssumption DEF CleanRemove, CleanTypeOK, CleanSymlink
<1>6. /\ clRemoved' \in SUBSET [path : CleanPaths, fresh : BOOLEAN]
      /\ OnlyListedFilesRemoved'
      /\ ~failed => {r.path : r \in clRemoved'} = {p \in L : p < clAt'}
  <2>1. [path |-> clAt, fresh |-> clAt \in clFresh] = [path |-> clAt, fresh |-> TRUE]
    BY <1>1
  <2>2. (clRemoved' = clRemoved /\ failed) \/ clRemoved' = clRemoved \cup {[path |-> clAt, fresh |-> TRUE]}
    BY <2>1 DEF CleanRemove
  <2>3. clRemoved' = clRemoved \cup {[path |-> clAt, fresh |-> TRUE]} =>
          {r.path : r \in clRemoved'} = {p \in L : p < clAt'}
    <3>1. SUFFICES ASSUME clRemoved' = clRemoved \cup {[path |-> clAt, fresh |-> TRUE]}
                   PROVE  {r.path : r \in clRemoved'} = {p \in L : p < clAt'}
      OBVIOUS
    <3>2. {r.path : r \in clRemoved'} = {r.path : r \in clRemoved} \cup {clAt}
      <4>1. [path |-> clAt, fresh |-> TRUE].path = clAt
        OBVIOUS
      <4> QED BY <3>1, <4>1, Zenon
    <3>3. \A p \in L : p < clAt' <=> p < clAt \/ p = clAt
      BY <1>3, <1>4
    <3> HIDE DEF L
    <3>4. {p \in L : p < clAt'} = {p \in L : p < clAt} \cup {clAt}
      BY <1>1, <3>3
    <3> QED BY <1>1, <3>2, <3>4
  <2>4. clRemoved \in SUBSET [path : CleanPaths, fresh : BOOLEAN] /\ \A r \in clRemoved : r.fresh
    BY <1>1 DEF ClInv, CleanTypeOK, OnlyListedFilesRemoved
  <2>5. [path |-> clAt, fresh |-> TRUE].fresh
    OBVIOUS
  <2>6. OnlyListedFilesRemoved'
    BY <2>2, <2>4, <2>5 DEF OnlyListedFilesRemoved
  <2>7. clRemoved' \in SUBSET [path : CleanPaths, fresh : BOOLEAN]
    <3>1. [path |-> clAt, fresh |-> TRUE] \in [path : CleanPaths, fresh : BOOLEAN]
      BY <1>3
    <3> QED BY <2>2, <2>4, <3>1, Zenon
  <2> QED BY <2>2, <2>3, <2>6, <2>7
<1>7. CASE failed
  <2>1. clStep' = "done" /\ clReported' = [end |-> "stopped", count |-> 0]
    BY <1>7 DEF CleanRemove, RemoveGoesOn, CleanEnd
  <2>2. CleanTypeOK'
    BY <1>1, <1>2, <1>3, <1>4, <1>5, <1>6, <2>1 DEF CleanTypeOK
  <2> QED BY <1>6, <2>1, <2>2 DEF ClInv, RemovedReportIsTrue
<1>8. CASE ~failed /\ clAt' > CleanTargets
  <2>1. clStep' = "done" /\ clReported' = [end |-> "removed", count |-> Cardinality(L)]
    BY <1>8 DEF CleanRemove, RemoveGoesOn, CleanEnd
  <2>2. Cardinality(L) \in 0..CleanTargets
    <3>1. IsFiniteSet(1..CleanTargets) /\ Cardinality(1..CleanTargets) = CleanTargets
      BY <1>3, FS_Interval
    <3> HIDE DEF L
    <3>2. IsFiniteSet(L) /\ Cardinality(L) <= Cardinality(1..CleanTargets)
      BY <1>3, <3>1, FS_Subset
    <3>3. Cardinality(L) \in Nat
      BY <3>2, FS_CardinalityType
    <3> QED BY <1>3, <3>1, <3>2, <3>3
  <2>3. CleanTypeOK'
    BY <1>1, <1>2, <1>3, <1>4, <1>5, <1>6, <2>1, <2>2 DEF CleanTypeOK
  <2>4. \A p \in L : p < clAt'
    BY <1>3, <1>4, <1>8
  <2> HIDE DEF L
  <2>5. {p \in L : p < clAt'} = L
    BY <2>4
  <2>6. RemovedReportIsTrue'
    <3>1. {r.path : r \in clRemoved'} = L /\ L = ListedPaths(clListed')
      BY <1>1, <1>6, <1>8, <2>5 DEF L
    <3>2. clReported'.count = Cardinality(L)
      BY <2>1
    <3> QED BY <3>1, <3>2 DEF RemovedReportIsTrue
  <2> QED BY <1>6, <2>1, <2>3, <2>6 DEF ClInv
<1>9. CASE ~failed /\ ~(clAt' > CleanTargets)
  <2>1. clStep' = "observe" /\ clReported' = CleanUnsaid
    BY <1>9 DEF CleanRemove, RemoveGoesOn
  <2>2. CleanTypeOK'
    BY <1>1, <1>2, <1>3, <1>4, <1>5, <1>6, <2>1 DEF CleanTypeOK, CleanUnsaid
  <2>3. clAt' \in L
    BY <1>3, <1>4, <1>9
  <2>4. L = ListedPaths(clListed')
    BY <1>1
  <2>5. RemovedReportIsTrue'
    BY <2>1 DEF RemovedReportIsTrue, CleanUnsaid
  <2> HIDE DEF L
  <2> QED BY <1>6, <1>9, <2>1, <2>2, <2>3, <2>4, <2>5 DEF ClInv
<1> QED BY <1>7, <1>8, <1>9

LEMMA CleanDisturbedKeeps == ASSUME ClInv, NEW p \in CleanPaths, CleanDisturbed(p) PROVE ClInv'
<1>1. /\ CleanTypeOK /\ UNCHANGED <<clStep, clListed, clAt, clRemoved, clReported>>
      /\ clFresh' = CleanFreshAfter(clStep, clListed)
  BY DEF ClInv, CleanDisturbed
<1>2. clFresh' \in SUBSET CleanPaths /\ clFresh \subseteq clFresh'
  BY <1>1, CleanFreshAfterIs
<1>3. clMade' \in 0..MaxCleanFiles /\ clPaths' \in [CleanPaths -> 0..CleanSymlink]
  BY <1>1, CleanAssumption DEF CleanDisturbed, CleanTypeOK, CleanSymlink
<1>4. CleanTypeOK'
  BY <1>1, <1>2, <1>3 DEF CleanTypeOK
<1> QED BY <1>1, <1>2, <1>4 DEF ClInv, OnlyListedFilesRemoved, RemovedReportIsTrue

LEMMA CleanInitKeeps == CleanInit => ClInv
<1> SUFFICES ASSUME CleanInit PROVE ClInv
  OBVIOUS
<1>1. CleanTargets \in Nat /\ MaxCleanFiles \in Nat /\ CleanTargets <= MaxCleanFiles
  BY CleanAssumption
<1>2. clPaths \in [CleanPaths -> 0..CleanSymlink]
  BY <1>1 DEF CleanInit, CleanPaths, CleanSymlink
<1>3. CleanTypeOK
  BY <1>1, <1>2 DEF CleanInit, CleanTypeOK, CleanUnsaid
<1> QED BY <1>3 DEF CleanInit, ClInv, OnlyListedFilesRemoved, RemovedReportIsTrue, CleanUnsaid

LEMMA CleanNextKeeps == ClInv /\ [CleanNext]_cleanVars => ClInv'
<1> SUFFICES ASSUME ClInv, [CleanNext]_cleanVars PROVE ClInv'
  OBVIOUS
<1>1. CASE UNCHANGED cleanVars
  BY <1>1 DEF cleanVars, ClInv, CleanTypeOK, OnlyListedFilesRemoved, RemovedReportIsTrue
<1> QED BY <1>1, CleanListKeeps, CleanAnswerKeeps, CleanRemoveKeeps, CleanObserveKeeps,
           CleanDisturbedKeeps DEF CleanNext

-----------------------------------------------------------------------------
(* Projects and their sessions *)

(* What a process that is about to act knows: the session to attach to or kill   *)
(* has been the one shown since the answer; opening has adopted a legacy session *)
(* or found none; the candidates of an import are of different directories.      *)
WsSound(o) ==
  /\ o \in WsOps
  /\ o.cmd \in {"attach", "kill"} /\ o.pc = "act" => o.held
  /\ o.cmd = "open" /\ o.pc \in {"again", "act"} => o.held
  /\ o.cmd \in {"open", "layout"} => o.name \in WsSessions
  /\ o.cmd = "import" => \A x, y \in o.shown : x.path = y.path => x = y

WsDoneSound == SessionActsWereAuthorised /\ ProjectsRemovedWereShown /\ LegacySessionAdopted

WsTmuxOK(tmux, born) ==
  /\ DOMAIN tmux \subseteq WsSessions /\ IsInjective(tmux)
  /\ \A n \in DOMAIN tmux : tmux[n] \in 1..born

WsInv ==
  /\ wsDirs \subseteq WsPaths /\ wsProjects \subseteq WsProjects /\ PathsRegisteredOnce
  /\ wsBorn \in 0..MaxWsSessions /\ WsTmuxOK(wsTmux, wsBorn)
  /\ wsOps \in [WsProcs -> WsOps] /\ \A p \in WsProcs : WsSound(wsOps[p])
  /\ wsDone \in WsDones \cup {NoWork} /\ WsDoneSound

LEMMA WsInvTypeOK == WsInv => WorkspaceTypeOK
BY DEF WsInv, WorkspaceTypeOK, WsTmuxOK

LEMMA WsWitnessFields ==
  ASSUME NEW o \in WsOps, NEW tmux, NEW w, w = WsWitness(o, tmux)
  PROVE  /\ w \in WsOps
         /\ w.cmd = o.cmd /\ w.pc = o.pc /\ w.name = o.name /\ w.shown = o.shown
         /\ w.held <=> \/ o.held
                       \/ o.cmd = "open" /\ (~WsLive(LegacyOf(o.project), tmux) \/ WsLive(o.name, tmux))
                       \/ /\ o.cmd # "open" /\ o.pc \in {"recheck", "act"}
                          /\ WsLive(o.name, tmux) /\ tmux[o.name] = o.id
<1> DEFINE h == \/ o.held
                \/ o.cmd = "open" /\ (~WsLive(LegacyOf(o.project), tmux) \/ WsLive(o.name, tmux))
                \/ /\ o.cmd # "open" /\ o.pc \in {"recheck", "act"}
                   /\ WsLive(o.name, tmux) /\ tmux[o.name] = o.id
<1>1. h \in BOOLEAN
  BY Zenon DEF WsOps
<1>2. w = [o EXCEPT !.held = h]
  BY Zenon DEF WsWitness
<1> HIDE DEF h
<1>3. /\ w \in WsOps
      /\ w.cmd = o.cmd /\ w.pc = o.pc /\ w.name = o.name /\ w.shown = o.shown /\ w.held = h
  BY <1>1, <1>2 DEF WsOps
<1>4. w.held <=> h
  BY <1>3, Zenon
<1> QED BY <1>3, <1>4, Zenon DEF h

LEMMA WsWitnessSound == ASSUME NEW o, WsSound(o), NEW tmux PROVE WsSound(WsWitness(o, tmux))
<1>1. o \in WsOps
  BY DEF WsSound
<1>2. PICK w : w = WsWitness(o, tmux)
  OBVIOUS
<1>3. /\ w \in WsOps /\ w.cmd = o.cmd /\ w.pc = o.pc /\ w.name = o.name /\ w.shown = o.shown
  BY <1>1, <1>2, WsWitnessFields
<1>4. o.held => w.held
  <2>1. w.held <=> \/ o.held
                   \/ o.cmd = "open" /\ (~WsLive(LegacyOf(o.project), tmux) \/ WsLive(o.name, tmux))
                   \/ /\ o.cmd # "open" /\ o.pc \in {"recheck", "act"}
                      /\ WsLive(o.name, tmux) /\ tmux[o.name] = o.id
    BY <1>1, <1>2, WsWitnessFields
  <2> QED BY <2>1, Zenon
<1>5. WsSound(w)
  BY <1>3, <1>4, Zenon DEF WsSound
<1> QED BY <1>2, <1>5

LEMMA WsSetSound ==
  ASSUME WsInv, NEW p \in WsProcs, NEW o, WsSet(p, o), WsSound(WsWitness(o, wsTmux'))
  PROVE  wsOps' \in [WsProcs -> WsOps] /\ \A q \in WsProcs : WsSound(wsOps'[q])
<1>1. wsOps' = [q \in WsProcs |-> WsWitness(IF q = p THEN o ELSE wsOps[q], wsTmux')]
  BY DEF WsSet
<1>2. ASSUME NEW q \in WsProcs PROVE WsSound(WsWitness(IF q = p THEN o ELSE wsOps[q], wsTmux'))
  <2>1. CASE q = p
    BY <2>1
  <2>2. CASE q # p
    <3>1. WsSound(wsOps[q])
      BY DEF WsInv
    <3>2. WsSound(WsWitness(wsOps[q], wsTmux'))
      BY <3>1, WsWitnessSound
    <3> QED BY <2>2, <3>2
  <2> QED BY <2>1, <2>2
<1>3. \A q \in WsProcs : WsSound(wsOps'[q])
  BY <1>1, <1>2, Zenon
<1>4. \A q \in WsProcs : wsOps'[q] \in WsOps
  BY <1>3 DEF WsSound
<1> QED BY <1>1, <1>3, <1>4

LEMMA WsGoes ==
  ASSUME WsInv, NEW p \in WsProcs, NEW o, WsSet(p, o), WsSound(o)
  PROVE  wsOps' \in [WsProcs -> WsOps] /\ \A q \in WsProcs : WsSound(wsOps'[q])
<1>1. WsSound(WsWitness(o, wsTmux'))
  BY WsWitnessSound
<1> QED BY <1>1, WsSetSound

LEMMA WsIdleSound == WsSound(WsIdle)
<1>1. WsIdle \in WsOps
  BY WorkspaceAssumption DEF WsIdle, WsOps
<1> QED BY <1>1 DEF WsSound, WsIdle

LEMMA WsEnds ==
  ASSUME WsInv, NEW p \in WsProcs, WsEnd(p)
  PROVE  wsOps' \in [WsProcs -> WsOps] /\ \A q \in WsProcs : WsSound(wsOps'[q])
BY WsGoes, WsIdleSound DEF WsEnd

(* A step to a place where nothing is known yet. *)
LEMMA WsGotoKeeps ==
  ASSUME WsInv, NEW p \in WsProcs, NEW pc \in {"recheck", "rename", "legacy"}, WsGoto(p, pc)
  PROVE  wsOps' \in [WsProcs -> WsOps] /\ \A q \in WsProcs : WsSound(wsOps'[q])
<1> DEFINE o == [wsOps[p] EXCEPT !.pc = pc]
<1>1. WsSound(wsOps[p]) /\ wsOps[p] \in WsOps
  BY DEF WsInv, WsSound
<1>2. /\ o \in WsOps /\ o.cmd = wsOps[p].cmd /\ o.pc = pc /\ o.name = wsOps[p].name
      /\ o.shown = wsOps[p].shown
  BY <1>1 DEF WsOps
<1>3. WsSet(p, o)
  BY DEF WsGoto
<1> HIDE DEF o
<1>4. WsSound(o)
  BY <1>1, <1>2 DEF WsSound
<1> QED BY <1>3, <1>4, WsGoes

(* Steps that do nothing that a person had confirmed. *)
LEMMA WsNothingDone ==
  ASSUME WsInv, wsDone' = NoWork,
         wsDirs' \subseteq WsPaths, wsProjects' \subseteq WsProjects, PathsRegisteredOnce',
         wsBorn' \in 0..MaxWsSessions, WsTmuxOK(wsTmux', wsBorn'),
         wsOps' \in [WsProcs -> WsOps], \A q \in WsProcs : WsSound(wsOps'[q])
  PROVE  WsInv'
<1>1. WsDoneSound'
  BY DEF WsDoneSound, SessionActsWereAuthorised, ProjectsRemovedWereShown, LegacySessionAdopted
<1> QED BY <1>1 DEF WsInv, WsTmuxOK

LEMMA WsStill ==
  ASSUME WsInv, WsQuiet, wsOps' \in [WsProcs -> WsOps], \A q \in WsProcs : WsSound(wsOps'[q])
  PROVE  WsInv'
<1>1. /\ wsDone' = NoWork /\ wsDirs' \subseteq WsPaths /\ wsProjects' \subseteq WsProjects
      /\ wsBorn' \in 0..MaxWsSessions
  BY DEF WsInv, WsQuiet, SameTmux, SameRegistry
<1>2. WsTmuxOK(wsTmux', wsBorn')
  BY DEF WsInv, WsQuiet, SameTmux
<1>3. PathsRegisteredOnce'
  BY DEF WsInv, WsQuiet, SameRegistry, PathsRegisteredOnce
<1> QED BY <1>1, <1>2, <1>3, WsNothingDone

-----------------------------------------------------------------------------
(* tmux *)

LEMMA CreatesKeeps ==
  ASSUME WsInv, NEW n \in WsSessions, Creates(n)
  PROVE  WsTmuxOK(wsTmux', wsBorn') /\ wsBorn' \in 0..MaxWsSessions /\ wsBorn' \in 1..MaxWsSessions
<1>1. /\ wsBorn \in Nat /\ MaxWsSessions \in Nat /\ wsBorn' = wsBorn + 1 /\ wsBorn < MaxWsSessions
      /\ wsTmux' = [m \in DOMAIN wsTmux \cup {n} |-> IF m = n THEN wsBorn' ELSE wsTmux[m]]
  BY WorkspaceAssumption DEF WsInv, Creates
<1>2. WsTmuxOK(wsTmux, wsBorn)
  BY DEF WsInv
<1>3. DOMAIN wsTmux' \subseteq WsSessions
  BY <1>1, <1>2 DEF WsTmuxOK
<1>4. ASSUME NEW m \in DOMAIN wsTmux' PROVE wsTmux'[m] \in 1..wsBorn' /\ (m # n => wsTmux'[m] # wsBorn')
  BY <1>1, <1>2 DEF WsTmuxOK
<1>5. IsInjective(wsTmux')
  <2>1. SUFFICES ASSUME NEW a \in DOMAIN wsTmux', NEW b \in DOMAIN wsTmux', wsTmux'[a] = wsTmux'[b]
                 PROVE  a = b
    BY DEF IsInjective
  <2>2. CASE a = n \/ b = n
    BY <1>1, <1>4, <2>1, <2>2
  <2>3. CASE a # n /\ b # n
    BY <1>1, <1>2, <2>1, <2>3 DEF WsTmuxOK, IsInjective
  <2> QED BY <2>2, <2>3
<1>6. WsTmuxOK(wsTmux', wsBorn')
  BY <1>3, <1>4, <1>5 DEF WsTmuxOK
<1>7. wsBorn' \in 1..MaxWsSessions
  BY <1>1
<1> QED BY <1>1, <1>6, <1>7

LEMMA WithoutKeeps ==
  ASSUME WsInv, NEW n, wsTmux' = Without(n), UNCHANGED wsBorn
  PROVE  WsTmuxOK(wsTmux', wsBorn')
<1>1. wsTmux' = [m \in DOMAIN wsTmux \ {n} |-> wsTmux[m]]
  BY DEF Without, Restrict
<1> QED BY <1>1 DEF WsInv, WsTmuxOK, IsInjective

LEMMA RenamesKeeps ==
  ASSUME WsInv, NEW old, NEW new, Renames(old, new), UNCHANGED wsBorn, DOMAIN wsTmux' \subseteq WsSessions
  PROVE  WsTmuxOK(wsTmux', wsBorn')
<1>1. /\ old \in DOMAIN wsTmux /\ new \notin DOMAIN wsTmux
      /\ wsTmux' = [n \in (DOMAIN wsTmux \ {old}) \cup {new} |-> IF n = new THEN wsTmux[old] ELSE wsTmux[n]]
  BY DEF Renames, WsLive
<1>2. WsTmuxOK(wsTmux, wsBorn)
  BY DEF WsInv
<1>3. \A n \in DOMAIN wsTmux' : wsTmux'[n] \in 1..wsBorn'
  BY <1>1, <1>2 DEF WsTmuxOK
<1>4. IsInjective(wsTmux')
  <2>1. SUFFICES ASSUME NEW a \in DOMAIN wsTmux', NEW b \in DOMAIN wsTmux', wsTmux'[a] = wsTmux'[b]
                 PROVE  a = b
    BY DEF IsInjective
  <2> DEFINE before(m) == IF m = new THEN old ELSE m
  <2>2. /\ before(a) \in DOMAIN wsTmux /\ before(b) \in DOMAIN wsTmux
        /\ wsTmux[before(a)] = wsTmux[before(b)]
    BY <1>1, <2>1
  <2> HIDE DEF before
  <2>3. before(a) = before(b)
    BY <1>2, <2>2 DEF WsTmuxOK, IsInjective
  <2> QED BY <1>1, <2>3 DEF before
<1> QED BY <1>3, <1>4 DEF WsTmuxOK

LEMMA AttachBeginKeeps ==
  ASSUME WsInv, NEW p \in WsProcs, NEW n \in WsSessions, NEW chosen \in BOOLEAN, AttachBegin(p, n, chosen)
  PROVE  WsInv'
<1> DEFINE pc == IF chosen THEN "ask" ELSE "recheck"
           id == IF chosen THEN wsTmux[n] ELSE 0
           o == [WsIdle EXCEPT !.cmd = "attach", !.pc = pc, !.name = n, !.id = id]
<1>1. WsSet(p, o) /\ WsQuiet
  BY DEF AttachBegin, WsBegin
<1>2. id \in 0..MaxWsSessions /\ pc \in {"ask", "recheck"}
  <2>1. chosen => n \in DOMAIN wsTmux
    BY DEF AttachBegin, WsLive
  <2> QED BY <2>1, WorkspaceAssumption DEF WsInv, WsTmuxOK
<1> HIDE DEF pc, id
<1>3. WsIdle \in WsOps
  BY WsIdleSound DEF WsSound
<1>4. o \in WsOps /\ o.cmd = "attach" /\ o.pc = pc
  BY <1>2, <1>3 DEF WsOps
<1> HIDE DEF o
<1>5. WsSound(o)
  BY <1>2, <1>4 DEF WsSound
<1> QED BY <1>1, <1>5, WsGoes, WsStill

LEMMA KillBeginKeeps == ASSUME WsInv, NEW p \in WsProcs, NEW n \in WsSessions, KillBegin(p, n) PROVE WsInv'
<1> DEFINE o == [WsIdle EXCEPT !.cmd = "kill", !.pc = "ask", !.name = n, !.id = wsTmux[n]]
<1>1. WsSet(p, o) /\ WsQuiet
  BY DEF KillBegin, WsBegin
<1>2. wsTmux[n] \in 0..MaxWsSessions
  BY WorkspaceAssumption DEF KillBegin, WsLive, WsInv, WsTmuxOK
<1>3. WsIdle \in WsOps
  BY WsIdleSound DEF WsSound
<1>4. o \in WsOps /\ o.cmd = "kill" /\ o.pc = "ask"
  BY <1>2, <1>3 DEF WsOps
<1> HIDE DEF o
<1>5. WsSound(o)
  BY <1>4 DEF WsSound
<1> QED BY <1>1, <1>5, WsGoes, WsStill

LEMMA WsAnswerKeeps == ASSUME WsInv, NEW p \in WsProcs, NEW yes \in BOOLEAN, WsAnswer(p, yes) PROVE WsInv'
<1>1. WsQuiet /\ (WsGoto(p, "recheck") \/ WsEnd(p))
  BY DEF WsAnswer
<1> QED BY <1>1, WsGotoKeeps, WsEnds, WsStill

(* The session of that name is the one shown, and tmux is not changed: so the *)
(* process is told that it was, since the answer.                             *)
LEMMA SessionRecheckKeeps == ASSUME WsInv, NEW p \in WsProcs, SessionRecheck(p) PROVE WsInv'
<1>1. /\ WsSound(wsOps[p]) /\ wsOps[p] \in WsOps /\ WsQuiet
      /\ wsOps[p].cmd \in {"attach", "kill"} /\ wsTmux' = wsTmux
  BY DEF WsInv, WsSound, SessionRecheck, WsAt, WsQuiet, SameTmux
<1>2. CASE SameSession(wsOps[p])
  <2> DEFINE id == IF wsOps[p].id = 0 THEN wsTmux[wsOps[p].name] ELSE wsOps[p].id
             o == [wsOps[p] EXCEPT !.pc = "act", !.id = id]
  <2>1. WsSet(p, o)
    BY <1>2 DEF SessionRecheck
  <2>2. /\ wsOps[p].name \in DOMAIN wsTmux /\ id = wsTmux[wsOps[p].name]
        /\ wsTmux[wsOps[p].name] \in 0..MaxWsSessions
    <3>1. wsOps[p].name \in DOMAIN wsTmux /\ wsOps[p].id \in {0, wsTmux[wsOps[p].name]}
      BY <1>2 DEF SameSession, WsLive
    <3> QED BY <3>1, WorkspaceAssumption DEF WsInv, WsTmuxOK
  <2> HIDE DEF id
  <2>3. /\ o \in WsOps /\ o.cmd = wsOps[p].cmd /\ o.pc = "act" /\ o.name = wsOps[p].name
        /\ o.shown = wsOps[p].shown /\ o.id = id
    BY <1>1, <2>2 DEF WsOps
  <2> HIDE DEF o
  <2>4. PICK w : w = WsWitness(o, wsTmux')
    OBVIOUS
  <2>5. /\ w \in WsOps /\ w.cmd = o.cmd /\ w.pc = o.pc
        /\ w.held <=> \/ o.held
                      \/ o.cmd = "open" /\ (~WsLive(LegacyOf(o.project), wsTmux') \/ WsLive(o.name, wsTmux'))
                      \/ /\ o.cmd # "open" /\ o.pc \in {"recheck", "act"}
                         /\ WsLive(o.name, wsTmux') /\ wsTmux'[o.name] = o.id
    BY <2>3, <2>4, WsWitnessFields
  <2>6. /\ o.cmd # "open" /\ o.pc \in {"recheck", "act"}
        /\ WsLive(o.name, wsTmux') /\ wsTmux'[o.name] = o.id
    BY <1>1, <2>2, <2>3 DEF WsLive
  <2>7. w.held
    BY <2>5, <2>6, Zenon
  <2>8. WsSound(w)
    BY <1>1, <2>3, <2>5, <2>7 DEF WsSound
  <2> QED BY <1>1, <2>1, <2>4, <2>8, WsSetSound, WsStill
<1>3. CASE ~SameSession(wsOps[p])
  <2>1. WsEnd(p)
    BY <1>3 DEF SessionRecheck
  <2> QED BY <1>1, <2>1, WsEnds, WsStill
<1> QED BY <1>2, <1>3

LEMMA SessionActKeeps == ASSUME WsInv, NEW p \in WsProcs, SessionAct(p) PROVE WsInv'
<1>1. /\ WsSound(wsOps[p]) /\ wsOps[p] \in WsOps /\ WsEnd(p) /\ SameRegistry /\ UNCHANGED wsBorn
      /\ wsOps[p].cmd \in {"attach", "kill"} /\ wsOps[p].pc = "act"
  BY DEF WsInv, WsSound, SessionAct, WsAt
<1>2. wsOps' \in [WsProcs -> WsOps] /\ \A q \in WsProcs : WsSound(wsOps'[q])
  BY <1>1, WsEnds
<1>3. /\ wsDirs' \subseteq WsPaths /\ wsProjects' \subseteq WsProjects
      /\ PathsRegisteredOnce' /\ wsBorn' \in 0..MaxWsSessions
  BY <1>1 DEF WsInv, SameRegistry, PathsRegisteredOnce
<1> DEFINE targets == TargetsOf(wsOps[p].name)
           n == CHOOSE n \in targets : TRUE
<1>4. CASE \E m \in targets : targets = {m}
  <2>1. /\ wsTmux' = IF wsOps[p].cmd = "kill" THEN Without(n) ELSE wsTmux
        /\ wsDone' = [cmd |-> wsOps[p].cmd, id |-> wsOps[p].id, got |-> {wsTmux[n]}, shown |-> {},
                      gone |-> {}, held |-> wsOps[p].held]
    BY <1>4 DEF SessionAct
  <2>2. n \in DOMAIN wsTmux
    BY <1>4 DEF TargetsOf, WsLive
  <2>3. wsTmux[n] \in 1..MaxWsSessions
    BY <2>2, WorkspaceAssumption DEF WsInv, WsTmuxOK
  <2> HIDE DEF n, targets
  <2>4. wsTmux' = wsTmux \/ wsTmux' = Without(n)
    BY <2>1
  <2>5. WsTmuxOK(wsTmux', wsBorn')
    BY <1>1, <2>4, WithoutKeeps DEF WsInv
  <2>6. wsDone' \in WsDones
    BY <1>1, <2>1, <2>3 DEF WsDones, WsOps
  <2>7. wsDone'.held /\ wsDone'.cmd \in {"attach", "kill"}
    BY <1>1, <2>1 DEF WsSound
  <2>8. WsDoneSound'
    BY <2>7 DEF WsDoneSound, SessionActsWereAuthorised, ProjectsRemovedWereShown, LegacySessionAdopted
  <2> QED BY <1>2, <1>3, <2>5, <2>6, <2>8 DEF WsInv, WsTmuxOK
<1>5. CASE ~\E m \in targets : targets = {m}
  <2>1. wsDone' = NoWork /\ UNCHANGED wsTmux
    BY <1>5 DEF SessionAct
  <2>2. WsTmuxOK(wsTmux', wsBorn')
    BY <1>1, <2>1 DEF WsInv
  <2> QED BY <1>2, <1>3, <2>1, <2>2, WsNothingDone
<1> QED BY <1>4, <1>5

LEMMA LayoutKeeps ==
  ASSUME WsInv, NEW p \in WsProcs, LayoutAct(p) \/ \E n \in WsSessions : LayoutBegin(p, n) PROVE WsInv'
<1>1. ASSUME NEW n \in WsSessions, LayoutBegin(p, n) PROVE WsInv'
  <2> DEFINE o == [WsIdle EXCEPT !.cmd = "layout", !.pc = "act", !.name = n]
  <2>1. WsSet(p, o) /\ WsQuiet
    BY <1>1 DEF LayoutBegin, WsBegin
  <2>2. WsIdle \in WsOps
    BY WsIdleSound DEF WsSound
  <2>3. o \in WsOps /\ o.cmd = "layout" /\ o.pc = "act" /\ o.name = n
    BY <2>2 DEF WsOps
  <2> HIDE DEF o
  <2>4. WsSound(o)
    BY <2>3 DEF WsSound
  <2> QED BY <2>1, <2>4, WsGoes, WsStill
<1>2. CASE LayoutAct(p)
  <2>1. /\ WsEnd(p) /\ SameRegistry /\ wsDone' = NoWork /\ wsOps[p].name \in WsSessions
    BY <1>2 DEF LayoutAct, WsAt, WsInv, WsSound
  <2>2. WsTmuxOK(wsTmux', wsBorn') /\ wsBorn' \in 0..MaxWsSessions
    <3>1. SameTmux \/ Creates(wsOps[p].name)
      BY <1>2 DEF LayoutAct
    <3> QED BY <2>1, <3>1, CreatesKeeps DEF SameTmux, WsInv
  <2>3. /\ wsDirs' \subseteq WsPaths /\ wsProjects' \subseteq WsProjects /\ PathsRegisteredOnce'
    BY <2>1 DEF WsInv, SameRegistry, PathsRegisteredOnce
  <2> QED BY <2>1, <2>2, <2>3, WsEnds, WsNothingDone
<1> QED BY <1>1, <1>2

LEMMA OpenBeginKeeps ==
  ASSUME WsInv, NEW p \in WsProcs, NEW x \in WsProjects, NEW inside \in BOOLEAN, OpenBegin(p, x, inside)
  PROVE  WsInv'
<1> DEFINE name == SessionOf(x)
           o == [WsIdle EXCEPT !.cmd = "open", !.pc = "has", !.project = x, !.name = name, !.inside = inside]
<1>1. WsSet(p, o) /\ WsQuiet /\ name \in WsSessions
  BY DEF OpenBegin, WsBegin
<1> HIDE DEF name
<1>2. WsIdle \in WsOps
  BY WsIdleSound DEF WsSound
<1>3. o \in WsOps /\ o.cmd = "open" /\ o.pc = "has" /\ o.name = name
  BY <1>1, <1>2 DEF WsOps
<1> HIDE DEF o
<1>4. WsSound(o)
  BY <1>1, <1>3 DEF WsSound
<1> QED BY <1>1, <1>4, WsGoes, WsStill

(* Opening goes on with what it found: where it is about to act, the session has *)
(* the new name, or there is none of the old one, when the step ends.            *)
LEMMA OpenGoes ==
  ASSUME WsInv, NEW p \in WsProcs, wsOps[p].cmd = "open",
         NEW exists \in BOOLEAN, NEW pc \in {"act", "again", "legacy", "rename"},
         WsSet(p, [wsOps[p] EXCEPT !.exists = exists, !.pc = pc]),
         pc \in {"act", "again"} =>
            wsOps[p].held \/ ~WsLive(LegacyOf(wsOps[p].project), wsTmux') \/ WsLive(wsOps[p].name, wsTmux')
  PROVE  wsOps' \in [WsProcs -> WsOps] /\ \A q \in WsProcs : WsSound(wsOps'[q])
<1> DEFINE o == [wsOps[p] EXCEPT !.exists = exists, !.pc = pc]
<1>1. WsSound(wsOps[p]) /\ wsOps[p] \in WsOps
  BY DEF WsInv, WsSound
<1>2. /\ o \in WsOps /\ o.cmd = "open" /\ o.pc = pc /\ o.name = wsOps[p].name
      /\ o.held = wsOps[p].held /\ o.project = wsOps[p].project
  BY <1>1 DEF WsOps
<1>3. WsSet(p, o)
  OBVIOUS
<1> HIDE DEF o
<1>4. PICK w : w = WsWitness(o, wsTmux')
  OBVIOUS
<1>5. /\ w \in WsOps /\ w.cmd = o.cmd /\ w.pc = o.pc /\ w.name = o.name
      /\ w.held <=> \/ o.held
                    \/ o.cmd = "open" /\ (~WsLive(LegacyOf(o.project), wsTmux') \/ WsLive(o.name, wsTmux'))
                    \/ /\ o.cmd # "open" /\ o.pc \in {"recheck", "act"}
                       /\ WsLive(o.name, wsTmux') /\ wsTmux'[o.name] = o.id
  BY <1>2, <1>4, WsWitnessFields
<1>6. pc \in {"act", "again"} => w.held
  BY <1>2, <1>5, Zenon
<1>7. w.name \in WsSessions
  BY <1>1, <1>2, <1>5 DEF WsSound
<1>8. WsSound(w)
  BY <1>2, <1>5, <1>6, <1>7 DEF WsSound
<1> QED BY <1>3, <1>4, <1>8, WsSetSound

LEMMA OpenHasKeeps == ASSUME WsInv, NEW p \in WsProcs, OpenHas(p) PROVE WsInv'
<1>1. WsQuiet /\ wsOps[p].cmd = "open" /\ wsTmux' = wsTmux
  BY DEF OpenHas, WsAt, WsQuiet, SameTmux
<1>2. PICK live : live = WsLive(wsOps[p].name, wsTmux)
  OBVIOUS
<1>3. live \in BOOLEAN /\ WsSet(p, [wsOps[p] EXCEPT !.exists = live, !.pc = IF live THEN "act" ELSE "legacy"])
  <2>1. live \in BOOLEAN
    BY <1>2 DEF WsLive
  <2>2. WsSet(p, [wsOps[p] EXCEPT !.exists = live, !.pc = IF live THEN "act" ELSE "legacy"])
    BY <1>2, Zenon DEF OpenHas
  <2> QED BY <2>1, <2>2
<1>4. live => WsLive(wsOps[p].name, wsTmux')
  BY <1>1, <1>2, Zenon
<1>5. CASE live
  <2>1. WsSet(p, [wsOps[p] EXCEPT !.exists = live, !.pc = "act"])
    BY <1>3, <1>5, Zenon
  <2> QED BY <1>1, <1>3, <1>4, <1>5, <2>1, OpenGoes, WsStill
<1>6. CASE ~live
  <2>1. WsSet(p, [wsOps[p] EXCEPT !.exists = live, !.pc = "legacy"])
    BY <1>3, <1>6, Zenon
  <2> QED BY <1>1, <1>3, <2>1, OpenGoes, WsStill
<1> QED BY <1>3, <1>5, <1>6

(* A step to act of one that found no legacy session. *)
LEMMA OpenLegacyKeeps == ASSUME WsInv, NEW p \in WsProcs, OpenLegacy(p) PROVE WsInv'
<1>1. WsQuiet /\ wsOps[p].cmd = "open" /\ wsTmux' = wsTmux /\ wsOps[p] \in WsOps
  BY DEF OpenLegacy, WsAt, WsQuiet, SameTmux, WsInv
<1>2. CASE WsLive(LegacyOf(wsOps[p].project), wsTmux)
  <2>1. WsGoto(p, "rename")
    BY <1>2 DEF OpenLegacy, AfterLegacy
  <2> QED BY <1>1, <2>1, WsGotoKeeps, WsStill
<1>3. CASE ~WsLive(LegacyOf(wsOps[p].project), wsTmux)
  <2>1. WsSet(p, [wsOps[p] EXCEPT !.pc = "act"])
    BY <1>3 DEF OpenLegacy, AfterLegacy, WsGoto
  <2>2. [wsOps[p] EXCEPT !.pc = "act"] = [wsOps[p] EXCEPT !.exists = wsOps[p].exists, !.pc = "act"]
        /\ wsOps[p].exists \in BOOLEAN
    BY <1>1 DEF WsOps
  <2>3. WsSet(p, [wsOps[p] EXCEPT !.exists = wsOps[p].exists, !.pc = "act"])
    BY <2>1, <2>2, Zenon
  <2> QED BY <1>1, <1>3, <2>2, <2>3, OpenGoes, WsStill
<1> QED BY <1>2, <1>3

LEMMA OpenRenameKeeps == ASSUME WsInv, NEW p \in WsProcs, OpenRename(p) PROVE WsInv'
<1>1. /\ wsOps[p].cmd = "open" /\ SameRegistry /\ wsDone' = NoWork /\ UNCHANGED wsBorn
      /\ wsOps[p].name \in WsSessions
  BY DEF OpenRename, WsAt, WsInv, WsSound
<1>2. /\ wsDirs' \subseteq WsPaths /\ wsProjects' \subseteq WsProjects /\ PathsRegisteredOnce'
      /\ wsBorn' \in 0..MaxWsSessions
  BY <1>1 DEF WsInv, SameRegistry, PathsRegisteredOnce
<1> DEFINE old == LegacyOf(wsOps[p].project)
           new == wsOps[p].name
<1>3. CASE WsLive(old, wsTmux) /\ ~WsLive(new, wsTmux)
  <2>1. Renames(old, new) /\ WsSet(p, [wsOps[p] EXCEPT !.exists = TRUE, !.pc = "act"])
    BY <1>3, Zenon DEF OpenRename
  <2> HIDE DEF old
  <2>2. DOMAIN wsTmux' \subseteq WsSessions /\ WsLive(new, wsTmux')
    BY <1>1, <2>1 DEF Renames, WsInv, WsTmuxOK, WsLive
  <2>3. WsTmuxOK(wsTmux', wsBorn')
    BY <1>1, <2>1, <2>2, RenamesKeeps
  <2>4. wsOps' \in [WsProcs -> WsOps] /\ \A q \in WsProcs : WsSound(wsOps'[q])
    BY <1>1, <2>1, <2>2, OpenGoes
  <2> QED BY <1>1, <1>2, <2>3, <2>4, WsNothingDone
<1>4. CASE ~(WsLive(old, wsTmux) /\ ~WsLive(new, wsTmux))
  <2>1. wsTmux' = wsTmux /\ WsSet(p, [wsOps[p] EXCEPT !.exists = FALSE, !.pc = "again"])
    BY <1>4, Zenon DEF OpenRename
  <2>2. WsTmuxOK(wsTmux', wsBorn')
    BY <1>1, <2>1 DEF WsInv
  <2>3. ~WsLive(LegacyOf(wsOps[p].project), wsTmux') \/ WsLive(wsOps[p].name, wsTmux')
    BY <1>4, <2>1, Zenon
  <2>4. wsOps' \in [WsProcs -> WsOps] /\ \A q \in WsProcs : WsSound(wsOps'[q])
    BY <1>1, <2>1, <2>3, OpenGoes
  <2> QED BY <1>1, <1>2, <2>2, <2>4, WsNothingDone
<1> QED BY <1>3, <1>4

LEMMA OpenAgainKeeps == ASSUME WsInv, NEW p \in WsProcs, OpenAgain(p) PROVE WsInv'
<1>1. WsQuiet /\ wsOps[p].cmd = "open" /\ wsOps[p].held
  BY DEF OpenAgain, WsAt, WsInv, WsSound
<1>2. PICK live : live = WsLive(wsOps[p].name, wsTmux)
  OBVIOUS
<1>3. live \in BOOLEAN /\ WsSet(p, [wsOps[p] EXCEPT !.exists = live, !.pc = "act"])
  <2>1. live \in BOOLEAN
    BY <1>2 DEF WsLive
  <2>2. WsSet(p, [wsOps[p] EXCEPT !.exists = live, !.pc = "act"])
    BY <1>2, Zenon DEF OpenAgain
  <2> QED BY <2>1, <2>2
<1> QED BY <1>1, <1>3, OpenGoes, WsStill

LEMMA OpenActKeeps == ASSUME WsInv, NEW p \in WsProcs, OpenAct(p) PROVE WsInv'
<1>1. /\ WsSound(wsOps[p]) /\ wsOps[p] \in WsOps /\ WsEnd(p) /\ SameRegistry
      /\ wsOps[p].cmd = "open" /\ wsOps[p].pc = "act"
  BY DEF WsInv, WsSound, OpenAct, WsAt
<1>2. /\ wsOps' \in [WsProcs -> WsOps] /\ \A q \in WsProcs : WsSound(wsOps'[q])
      /\ wsDirs' \subseteq WsPaths /\ wsProjects' \subseteq WsProjects /\ PathsRegisteredOnce'
  BY <1>1, WsEnds DEF WsInv, SameRegistry, PathsRegisteredOnce
<1>3. CASE SameTmux /\ wsDone' = NoWork
  <2>1. WsTmuxOK(wsTmux', wsBorn') /\ wsBorn' \in 0..MaxWsSessions
    BY <1>3 DEF SameTmux, WsInv
  <2> QED BY <1>2, <1>3, <2>1, WsNothingDone
<1>4. CASE /\ Creates(wsOps[p].name)
           /\ wsDone' = [cmd |-> "open", id |-> 0, got |-> {wsBorn'}, shown |-> {}, gone |-> {},
                         held |-> wsOps[p].held]
  <2>1. wsOps[p].held /\ wsOps[p].name \in WsSessions
    BY <1>1 DEF WsSound
  <2>2. WsTmuxOK(wsTmux', wsBorn') /\ wsBorn' \in 0..MaxWsSessions /\ wsBorn' \in 1..MaxWsSessions
    BY <1>4, <2>1, CreatesKeeps
  <2>3. wsDone' \in WsDones
    BY <1>1, <1>4, <2>2, WorkspaceAssumption DEF WsDones, WsOps
  <2>4. wsDone'.held /\ wsDone'.cmd = "open"
    BY <1>4, <2>1
  <2>5. WsDoneSound'
    BY <2>4 DEF WsDoneSound, SessionActsWereAuthorised, ProjectsRemovedWereShown, LegacySessionAdopted
  <2> QED BY <1>2, <2>2, <2>3, <2>5 DEF WsInv, WsTmuxOK
<1> QED BY <1>3, <1>4 DEF OpenAct

-----------------------------------------------------------------------------
(* The registry of projects *)

LEMMA ProjectAddKeeps ==
  ASSUME WsInv, NEW path \in WsPaths, NEW name \in WsNames, ProjectAdd(path, name) PROVE WsInv'
<1>1. /\ SameTmux /\ wsOps' = wsOps /\ wsDone' = NoWork /\ UNCHANGED wsDirs
      /\ wsProjects' = wsProjects \cup {[path |-> path, name |-> name]}
      /\ \A x \in wsProjects : x.path # path
  BY DEF ProjectAdd
<1>2. wsProjects' \subseteq WsProjects
  BY <1>1 DEF WsInv, WsProjects
<1>3. PathsRegisteredOnce'
  BY <1>1 DEF WsInv, PathsRegisteredOnce
<1> QED BY <1>1, <1>2, <1>3, WsNothingDone DEF WsInv, SameTmux

LEMMA ProjectRemoveKeeps == ASSUME WsInv, NEW ref \in WsRefs, ProjectRemove(ref) PROVE WsInv'
<1>1. /\ SameTmux /\ wsOps' = wsOps /\ wsDone' = NoWork /\ UNCHANGED wsDirs
      /\ wsProjects' \subseteq wsProjects
  BY DEF ProjectRemove
<1>2. PathsRegisteredOnce' /\ wsProjects' \subseteq WsProjects
  BY <1>1 DEF WsInv, PathsRegisteredOnce
<1> QED BY <1>1, <1>2, WsNothingDone DEF WsInv, SameTmux

LEMMA RemoveBeginKeeps == ASSUME WsInv, NEW p \in WsProcs, NEW ref \in WsRefs, RemoveBegin(p, ref) PROVE WsInv'
<1> DEFINE shown == Matching(ref)
           o == [WsIdle EXCEPT !.cmd = "remove", !.pc = "ask", !.ref = ref, !.shown = shown]
<1>1. WsSet(p, o) /\ WsQuiet
  BY DEF RemoveBegin, WsBegin
<1>2. shown \in SUBSET WsProjects
  BY DEF WsInv, Matching
<1> HIDE DEF shown
<1>3. WsIdle \in WsOps
  BY WsIdleSound DEF WsSound
<1>4. o \in WsOps /\ o.cmd = "remove" /\ o.pc = "ask"
  BY <1>2, <1>3 DEF WsOps
<1> HIDE DEF o
<1>5. WsSound(o)
  BY <1>4 DEF WsSound
<1> QED BY <1>1, <1>5, WsGoes, WsStill

LEMMA PruneBeginKeeps == ASSUME WsInv, NEW p \in WsProcs, PruneBegin(p) PROVE WsInv'
<1> DEFINE stale == {x \in wsProjects : x.path \notin wsDirs}
           o == [WsIdle EXCEPT !.cmd = "prune", !.pc = "ask", !.shown = stale]
<1>1. WsSet(p, o) /\ WsQuiet
  BY DEF PruneBegin, WsBegin
<1>2. stale \in SUBSET WsProjects
  BY DEF WsInv
<1> HIDE DEF stale
<1>3. WsIdle \in WsOps
  BY WsIdleSound DEF WsSound
<1>4. o \in WsOps /\ o.cmd = "prune" /\ o.pc = "ask"
  BY <1>2, <1>3 DEF WsOps
<1> HIDE DEF o
<1>5. WsSound(o)
  BY <1>4 DEF WsSound
<1> QED BY <1>1, <1>5, WsGoes, WsStill

(* What a confirmed removal takes was shown; what pruning takes is gone. *)
LEMMA RemovedByIs ==
  ASSUME NEW o, NEW gone, gone = RemovedBy(o)
  PROVE  /\ gone \subseteq wsProjects /\ PathsOf(gone) \subseteq PathsOf(o.shown)
         /\ o.cmd = "prune" => PathsOf(gone) \cap wsDirs = {}
<1>1. CASE o.cmd = "prune"
  <2>1. gone = {x \in wsProjects : x.path \in PathsOf(o.shown) \ wsDirs}
    BY <1>1 DEF RemovedBy
  <2>2. \A x \in gone : x \in wsProjects /\ x.path \in PathsOf(o.shown) /\ x.path \notin wsDirs
    BY <2>1
  <2>3. \A path \in PathsOf(gone) : \E x \in gone : path = x.path
    BY DEF PathsOf
  <2> HIDE DEF PathsOf
  <2> QED BY <2>2, <2>3
<1>2. CASE o.cmd # "prune"
  <2>1. gone = {x \in Matching(o.ref) : x.path \in PathsOf(o.shown) /\ Matching(o.ref) = {x}}
    BY <1>2 DEF RemovedBy
  <2>2. \A x \in gone : x \in wsProjects /\ x.path \in PathsOf(o.shown)
    BY <2>1 DEF Matching
  <2>3. \A path \in PathsOf(gone) : \E x \in gone : path = x.path
    BY DEF PathsOf
  <2> QED BY <1>2, <2>2, <2>3
<1> QED BY <1>1, <1>2

LEMMA RegistryActKeeps == ASSUME WsInv, NEW p \in WsProcs, RegistryAct(p) PROVE WsInv'
<1> DEFINE gone == RemovedBy(wsOps[p])
<1>1. /\ wsOps[p] \in WsOps /\ WsEnd(p) /\ SameTmux /\ UNCHANGED wsDirs
      /\ wsOps[p].cmd \in {"remove", "prune"}
      /\ wsProjects' = wsProjects \ gone
      /\ wsDone' = [cmd |-> wsOps[p].cmd, id |-> 0, got |-> {}, shown |-> wsOps[p].shown,
                    gone |-> gone, held |-> FALSE]
  BY DEF WsInv, RegistryAct, WsAt
<1>2. /\ gone \subseteq wsProjects /\ PathsOf(gone) \subseteq PathsOf(wsOps[p].shown)
      /\ wsOps[p].cmd = "prune" => PathsOf(gone) \cap wsDirs = {}
  BY RemovedByIs
<1> HIDE DEF gone
<1>3. wsDone' \in WsDones
  BY <1>1, <1>2, WorkspaceAssumption DEF WsDones, WsOps, WsInv
<1>4. WsDoneSound'
  <2>1. wsDone'.cmd = wsOps[p].cmd /\ wsDone'.gone = gone /\ wsDone'.shown = wsOps[p].shown
    BY <1>1
  <2>2. PathsOf(wsDone'.gone) = PathsOf(gone) /\ PathsOf(wsDone'.shown) = PathsOf(wsOps[p].shown)
    BY <2>1
  <2> QED BY <1>1, <1>2, <2>1, <2>2
          DEF WsDoneSound, SessionActsWereAuthorised, ProjectsRemovedWereShown, LegacySessionAdopted
<1>5. wsProjects' \subseteq WsProjects /\ PathsRegisteredOnce'
  BY <1>1 DEF WsInv, PathsRegisteredOnce
<1>6. wsOps' \in [WsProcs -> WsOps] /\ \A q \in WsProcs : WsSound(wsOps'[q])
  BY <1>1, WsEnds
<1> QED BY <1>1, <1>3, <1>4, <1>5, <1>6 DEF WsInv, SameTmux, WsTmuxOK

LEMMA ImportBeginKeeps ==
  ASSUME WsInv, NEW p \in WsProcs, NEW paths \in SUBSET WsPaths, ImportBegin(p, paths) PROVE WsInv'
<1> DEFINE found == {[path |-> d, name |-> WsBase[d]] : d \in paths}
           shown == {x \in found : \A y \in wsProjects : y.path # x.path /\ y.name # x.name}
           o == [WsIdle EXCEPT !.cmd = "import", !.pc = "act", !.shown = shown]
<1>1. WsSet(p, o) /\ WsQuiet
  BY DEF ImportBegin, WsBegin
<1>2. \A x \in found : x \in WsProjects /\ x.name = WsBase[x.path]
  BY WorkspaceAssumption DEF WsProjects
<1>3. \A x, y \in found : x.path = y.path => x = y
  <2> SUFFICES ASSUME NEW x \in found, NEW y \in found, x.path = y.path PROVE x = y
    OBVIOUS
  <2> QED BY <1>2 DEF WsProjects
<1>4. shown \in SUBSET WsProjects /\ \A x, y \in shown : x.path = y.path => x = y
  BY <1>2, <1>3
<1> HIDE DEF shown
<1>5. WsIdle \in WsOps
  BY WsIdleSound DEF WsSound
<1>6. o \in WsOps /\ o.cmd = "import" /\ o.pc = "act" /\ o.shown = shown
  BY <1>4, <1>5 DEF WsOps
<1> HIDE DEF o
<1>7. WsSound(o)
  BY <1>4, <1>6 DEF WsSound
<1> QED BY <1>1, <1>7, WsGoes, WsStill

LEMMA ImportActKeeps == ASSUME WsInv, NEW p \in WsProcs, ImportAct(p) PROVE WsInv'
<1> DEFINE shown == wsOps[p].shown
<1>1. /\ WsEnd(p) /\ SameTmux /\ wsDone' = NoWork /\ UNCHANGED wsDirs
      /\ wsProjects' \in {wsProjects, Imports(shown)}
      /\ shown \in SUBSET WsProjects /\ \A x, y \in shown : x.path = y.path => x = y
  BY DEF ImportAct, WsAt, WsInv, WsSound, WsOps
<1> HIDE DEF shown
<1>2. wsProjects' \subseteq WsProjects /\ PathsRegisteredOnce'
  <2>1. CASE wsProjects' = wsProjects
    BY <2>1 DEF WsInv, PathsRegisteredOnce
  <2>2. CASE wsProjects' = Imports(shown)
    <3>1. \A x \in wsProjects : x.path \in PathsOf(wsProjects)
      BY DEF PathsOf
    <3>2. \A x \in wsProjects' : x \in wsProjects \/ (x \in shown /\ x.path \notin PathsOf(wsProjects))
      BY <2>2 DEF Imports
    <3> QED BY <1>1, <3>1, <3>2 DEF WsInv, PathsRegisteredOnce
  <2> QED BY <1>1, <2>1, <2>2
<1>3. wsOps' \in [WsProcs -> WsOps] /\ \A q \in WsProcs : WsSound(wsOps'[q])
  BY <1>1, WsEnds
<1> QED BY <1>1, <1>2, <1>3, WsNothingDone DEF WsInv, SameTmux

LEMMA SessionsChangeKeeps == ASSUME WsInv, SessionsChange PROVE WsInv'
<1>1. /\ DOMAIN wsTmux' \subseteq WsSessions /\ SameRegistry /\ wsDone' = NoWork
      /\ wsOps' = [p \in WsProcs |-> WsWitness(wsOps[p], wsTmux')]
  BY DEF SessionsChange
<1>2. WsTmuxOK(wsTmux', wsBorn') /\ wsBorn' \in 0..MaxWsSessions
  <2>1. CASE \E n \in WsSessions : Creates(n)
    BY <2>1, CreatesKeeps
  <2>2. CASE \E n \in DOMAIN wsTmux : wsTmux' = Without(n) /\ UNCHANGED wsBorn
    BY <2>2, WithoutKeeps DEF WsInv
  <2>3. CASE \E x \in wsProjects : Renames(LegacyOf(x), SessionOf(x)) /\ UNCHANGED wsBorn
    BY <1>1, <2>3, RenamesKeeps DEF WsInv
  <2> QED BY <2>1, <2>2, <2>3 DEF SessionsChange
<1>3. \A q \in WsProcs : WsSound(wsOps'[q])
  <2>1. TAKE q \in WsProcs
  <2>2. WsSound(wsOps[q]) /\ wsOps'[q] = WsWitness(wsOps[q], wsTmux')
    BY <1>1 DEF WsInv
  <2> QED BY <2>2, WsWitnessSound
<1>4. wsOps' \in [WsProcs -> WsOps]
  <2>1. \A q \in WsProcs : wsOps'[q] \in WsOps
    BY <1>3 DEF WsSound
  <2> QED BY <1>1, <2>1
<1>5. /\ wsDirs' \subseteq WsPaths /\ wsProjects' \subseteq WsProjects /\ PathsRegisteredOnce'
  BY <1>1 DEF WsInv, SameRegistry, PathsRegisteredOnce
<1> QED BY <1>1, <1>2, <1>3, <1>4, <1>5, WsNothingDone

LEMMA DirectoryChangesKeeps == ASSUME WsInv, NEW path \in WsPaths, DirectoryChanges(path) PROVE WsInv'
<1>1. /\ SameTmux /\ wsOps' = wsOps /\ wsDone' = NoWork /\ UNCHANGED wsProjects /\ wsDirs' \subseteq WsPaths
  BY DEF DirectoryChanges, WsInv
<1> QED BY <1>1, WsNothingDone DEF WsInv, SameTmux, PathsRegisteredOnce

LEMMA WorkspaceInitKeeps == WorkspaceInit => WsInv
<1> SUFFICES ASSUME WorkspaceInit PROVE WsInv
  OBVIOUS
<1>1. \A p \in WsProcs : WsSound(wsOps[p]) /\ wsOps[p] \in WsOps
  BY WsIdleSound DEF WorkspaceInit, WsSound
<1>2. WsTmuxOK(wsTmux, wsBorn) /\ wsBorn \in 0..MaxWsSessions
  BY WorkspaceAssumption DEF WorkspaceInit, WsTmuxOK, IsInjective
<1>3. wsDirs \subseteq WsPaths /\ wsProjects \subseteq WsProjects /\ PathsRegisteredOnce
  BY DEF WorkspaceInit, PathsRegisteredOnce
<1>4. wsDone \in WsDones \cup {NoWork} /\ WsDoneSound
  BY DEF WorkspaceInit, WsDoneSound, SessionActsWereAuthorised, ProjectsRemovedWereShown, LegacySessionAdopted
<1>5. wsOps \in [WsProcs -> WsOps]
  BY <1>1 DEF WorkspaceInit
<1> QED BY <1>1, <1>2, <1>3, <1>4, <1>5 DEF WsInv

LEMMA WorkspaceNextKeeps == WsInv /\ [WorkspaceNext]_workspaceVars => WsInv'
<1> SUFFICES ASSUME WsInv, [WorkspaceNext]_workspaceVars PROVE WsInv'
  OBVIOUS
<1>1. CASE UNCHANGED workspaceVars
  BY <1>1 DEF workspaceVars, WsInv, WsTmuxOK, WsDoneSound, PathsRegisteredOnce, SessionActsWereAuthorised,
              ProjectsRemovedWereShown, LegacySessionAdopted
<1>2. ASSUME NEW p \in WsProcs, WsSteps(p) PROVE WsInv'
  BY <1>2, WsAnswerKeeps, SessionRecheckKeeps, SessionActKeeps, LayoutKeeps, OpenHasKeeps, OpenLegacyKeeps,
     OpenRenameKeeps, OpenAgainKeeps, OpenActKeeps, RegistryActKeeps, ImportActKeeps, PruneBeginKeeps,
     KillBeginKeeps, AttachBeginKeeps, OpenBeginKeeps, RemoveBeginKeeps, ImportBeginKeeps DEF WsSteps
<1> QED BY <1>1, <1>2, ProjectAddKeeps, ProjectRemoveKeeps, SessionsChangeKeeps, DirectoryChangesKeeps
        DEF WorkspaceNext

-----------------------------------------------------------------------------
(* The list of permitted commands *)

AlInv == AllowTypeOK /\ NoOverlaps(maRules)

(* Two sequences that begin a third: one begins the other. *)
LEMMA PrefixesCompare ==
  ASSUME NEW v \in Seq(STRING), NEW w \in Seq(STRING), NEW a \in Seq(STRING),
         IsPrefix(v, a), IsPrefix(w, a)
  PROVE  IsPrefix(v, w) \/ IsPrefix(w, v)
<1>1. /\ Len(v) \in Nat /\ Len(w) \in Nat /\ Len(v) <= Len(a) /\ Len(w) <= Len(a)
      /\ \A i \in 1..Len(v) : v[i] = a[i]
      /\ \A i \in 1..Len(w) : w[i] = a[i]
  <2>1. Len(v) <= Len(a) /\ SubSeq(v, 1, Len(v)) = SubSeq(a, 1, Len(v))
    BY DEF IsPrefix
  <2>2. Len(w) <= Len(a) /\ SubSeq(w, 1, Len(w)) = SubSeq(a, 1, Len(w))
    BY DEF IsPrefix
  <2>3. \A i \in 1..Len(v) : v[i] = a[i]
    <3>1. TAKE i \in 1..Len(v)
    <3>2. SubSeq(v, 1, Len(v))[i] = v[i] /\ SubSeq(a, 1, Len(v))[i] = a[i]
      BY <2>1
    <3> QED BY <2>1, <3>2
  <2>4. \A i \in 1..Len(w) : w[i] = a[i]
    <3>1. TAKE i \in 1..Len(w)
    <3>2. SubSeq(w, 1, Len(w))[i] = w[i] /\ SubSeq(a, 1, Len(w))[i] = a[i]
      BY <2>2
    <3> QED BY <2>2, <3>2
  <2> QED BY <2>1, <2>2, <2>3, <2>4
<1>2. ASSUME NEW x \in Seq(STRING), NEW y \in Seq(STRING), Len(x) <= Len(y), \A i \in 1..Len(x) : x[i] = y[i]
      PROVE  IsPrefix(x, y)
  <2>1. SubSeq(x, 1, Len(x)) = SubSeq(y, 1, Len(x))
    <3>1. /\ Len(SubSeq(x, 1, Len(x))) = Len(x) /\ Len(SubSeq(y, 1, Len(x))) = Len(x)
          /\ SubSeq(x, 1, Len(x)) \in Seq(STRING) /\ SubSeq(y, 1, Len(x)) \in Seq(STRING)
      BY <1>2
    <3>2. \A i \in 1..Len(x) : SubSeq(x, 1, Len(x))[i] = SubSeq(y, 1, Len(x))[i]
      BY <1>2
    <3> QED BY <3>1, <3>2
  <2> QED BY <1>2, <2>1 DEF IsPrefix
<1>3. CASE Len(v) <= Len(w)
  BY <1>1, <1>2, <1>3
<1>4. CASE Len(w) <= Len(v)
  BY <1>1, <1>2, <1>4
<1> QED BY <1>1, <1>3, <1>4

(* A rule that begins another binds to no less than what it covers: so a target  *)
(* that a rule refuses is refused by what is broader, and let through only by a  *)
(* narrower one.                                                                 *)
LEMMA ListedBindingsFollow == AlInv => ListedBindingsHold
<1> SUFFICES ASSUME AlInv, NEW w \in ListedRules, NEW argv \in McpArgvs, NEW tool \in McpTools,
                    NEW target \in McpTargets(tool),
                    ~PermitsTarget(maRules[w], tool, target), RulePermits(maRules, w, argv),
                    NEW v \in McpPrefixes, RulePermits(maRules, v, argv),
                    PermitsTarget(maRules[v], tool, target)
             PROVE  \E u \in ListedRules : u # w /\ IsPrefix(w, u) /\ RulePermits(maRules, u, argv)
  BY DEF ListedBindingsHold, Permits
<1>1. /\ w \in McpPrefixes /\ HasRule(maRules, w) /\ HasRule(maRules, v) /\ v \in ListedRules
      /\ IsPrefix(w, argv) /\ IsPrefix(v, argv) /\ v # w
  BY DEF ListedRules, RulePermits
<1>2. w \in Seq(STRING) /\ v \in Seq(STRING) /\ argv \in Seq(STRING)
  BY <1>1, McpAllowAssumption
<1>3. CASE IsPrefix(w, v)
  BY <1>1, <1>3
<1>4. CASE IsPrefix(v, w)
  <2>1. ~Masks(maRules[v], maRules[w])
    BY <1>1, <1>4 DEF AlInv, NoOverlaps
  <2>2. RuleBound(maRules[w])
    BY DEF PermitsTarget
  <2>3. /\ RuleBound(maRules[v])
        /\ maRules[v].services \subseteq maRules[w].services /\ maRules[v].presets \subseteq maRules[w].presets
    BY <2>1, <2>2 DEF Masks
  <2>4. target \in (IF tool = "wenv_exec" THEN maRules[v].presets ELSE maRules[v].services)
    BY <2>3 DEF PermitsTarget
  <2>5. PermitsTarget(maRules[w], tool, target)
    BY <2>3, <2>4 DEF PermitsTarget
  <2> QED BY <2>5
<1> QED BY <1>1, <1>2, <1>3, <1>4, PrefixesCompare

(* Fewer rules overlap no more. *)
LEMMA FewerOverlapNoMore ==
  ASSUME NEW before, NEW after, NoOverlaps(before), \A w \in McpPrefixes : after[w] \in {before[w], NoRule}
  PROVE  NoOverlaps(after)
<1>1. SUFFICES ASSUME NEW v \in McpPrefixes, NEW w \in McpPrefixes, HasRule(after, v), HasRule(after, w),
                      v # w, IsPrefix(v, w)
               PROVE  ~Masks(after[v], after[w])
  BY DEF NoOverlaps
<1>2. after[v] = before[v] /\ after[w] = before[w]
  BY <1>1 DEF HasRule
<1> QED BY <1>1, <1>2 DEF NoOverlaps, HasRule

LEMMA AllowAddKeeps ==
  ASSUME AlInv, NEW new, NEW binding \in McpBindings, AllowAdd(new, binding) PROVE AlInv'
<1> DEFINE merged(w) == [services |-> maRules[w].services \cup binding.services,
                         presets |-> maRules[w].presets \cup binding.presets,
                         deny |-> maRules[w].deny \/ binding.deny]
           rule(w) == IF w \notin new THEN maRules[w] ELSE IF ~HasRule(maRules, w) THEN binding ELSE merged(w)
<1>1. maRules' = [w \in McpPrefixes |-> rule(w)] /\ NoOverlaps(maRules') /\ UNCHANGED maScope
  BY DEF AllowAdd
<1>2. ASSUME NEW w \in McpPrefixes PROVE rule(w) \in McpBindings \cup {NoRule}
  <2>1. maRules[w] \in McpBindings \cup {NoRule}
    BY DEF AlInv, AllowTypeOK
  <2>2. HasRule(maRules, w) => merged(w) \in McpBindings
    <3>1. SUFFICES ASSUME maRules[w] \in McpBindings PROVE merged(w) \in McpBindings
      BY <2>1 DEF HasRule
    <3>2. (maRules[w].deny \/ binding.deny) \in BOOLEAN
      BY Zenon
    <3> QED BY <3>1, <3>2 DEF McpBindings
  <2> QED BY <2>1, <2>2
<1> HIDE DEF rule
<1> QED BY <1>1, <1>2 DEF AlInv, AllowTypeOK

LEMMA AllowRemoveKeeps == ASSUME AlInv, NEW dropped, AllowRemove(dropped) PROVE AlInv'
<1>1. /\ maRules' = [w \in McpPrefixes |-> IF w \in dropped THEN NoRule ELSE maRules[w]]
      /\ UNCHANGED maScope
  BY DEF AllowRemove
<1>2. NoOverlaps(maRules')
  BY <1>1, FewerOverlapNoMore DEF AlInv
<1> QED BY <1>1, <1>2 DEF AlInv, AllowTypeOK

(* What unbinding leaves of a rule: less of the same, or nothing. *)
LEMMA UnboundIs ==
  ASSUME NEW b \in McpBindings, NEW services, NEW presets, NEW rest, rest = Unbound(b, services, presets)
  PROVE  \/ rest = NoRule
         \/ /\ rest \in McpBindings /\ RuleBound(rest) /\ rest.deny = b.deny
            /\ rest.services \subseteq b.services /\ rest.presets \subseteq b.presets
<1> DEFINE r == [b EXCEPT !.services = b.services \ services, !.presets = b.presets \ presets]
<1>1. rest = NoRule \/ (rest = r /\ RuleBound(r))
  BY DEF Unbound
<1>2. /\ r \in McpBindings /\ r.deny = b.deny
      /\ r.services \subseteq b.services /\ r.presets \subseteq b.presets
  BY DEF McpBindings
<1> HIDE DEF r
<1> QED BY <1>1, <1>2

LEMMA AllowUnbindKeeps ==
  ASSUME AlInv, NEW matched, NEW services, NEW presets, AllowUnbind(matched, services, presets) PROVE AlInv'
<1> DEFINE changed == {w \in matched \cap ListedRules :
                         \/ maRules[w].services \cap services # {}
                         \/ maRules[w].presets \cap presets # {}}
<1>1. /\ maRules' = [w \in McpPrefixes |->
                       IF w \in changed THEN Unbound(maRules[w], services, presets) ELSE maRules[w]]
      /\ NoOverlaps(maRules') /\ UNCHANGED maScope
  BY DEF AllowUnbind
<1>2. ASSUME NEW w \in McpPrefixes
      PROVE  (IF w \in changed THEN Unbound(maRules[w], services, presets) ELSE maRules[w])
             \in McpBindings \cup {NoRule}
  <2>1. maRules[w] \in McpBindings \cup {NoRule}
    BY DEF AlInv, AllowTypeOK
  <2>2. w \in changed => maRules[w] \in McpBindings
    BY <2>1 DEF ListedRules, HasRule
  <2>3. CASE w \in changed
    <3>1. Unbound(maRules[w], services, presets) \in McpBindings \cup {NoRule}
      BY <2>2, <2>3, UnboundIs
    <3> QED BY <2>3, <3>1
  <2> QED BY <2>1, <2>3
<1> HIDE DEF changed
<1> QED BY <1>1, <1>2 DEF AlInv, AllowTypeOK

LEMMA ScopeKeeps ==
  ASSUME AlInv, NEW kind \in {"services", "presets"}, NEW name \in ScopeNames(kind),
         ScopeAdd(kind, name) \/ ScopeRemove(kind, name)
  PROVE  AlInv'
<1>1. /\ UNCHANGED maRules
      /\ \/ maScope' = [maScope EXCEPT ![kind] = maScope[kind] \cup {name}]
         \/ maScope' = [maScope EXCEPT ![kind] = maScope[kind] \ {name}]
  BY DEF ScopeAdd, ScopeRemove
<1>2. maScope \in [services : SUBSET McpServices, presets : SUBSET McpPresets]
  BY DEF AlInv, AllowTypeOK
<1>3. CASE kind = "services"
  <2>1. name \in McpServices
    BY <1>3 DEF ScopeNames
  <2>2. maScope' \in [services : SUBSET McpServices, presets : SUBSET McpPresets]
    BY <1>1, <1>2, <1>3, <2>1
  <2> QED BY <1>1, <2>2 DEF AlInv, AllowTypeOK, NoOverlaps, HasRule
<1>4. CASE kind = "presets"
  <2>1. name \in McpPresets
    BY <1>4 DEF ScopeNames
  <2>2. maScope' \in [services : SUBSET McpServices, presets : SUBSET McpPresets]
    BY <1>1, <1>2, <1>4, <2>1
  <2> QED BY <1>1, <2>2 DEF AlInv, AllowTypeOK, NoOverlaps, HasRule
<1> QED BY <1>3, <1>4

LEMMA AllowInitKeeps == AllowInit => AlInv
BY DEF AllowInit, AlInv, AllowTypeOK, NoOverlaps, HasRule

LEMMA AllowNextKeeps == ASSUME AlInv, AllowNext PROVE AlInv'
BY AllowAddKeeps, AllowRemoveKeeps, AllowUnbindKeeps, ScopeKeeps DEF AllowNext

(* Taking away: each rule is gone, or as it was, or bound to less of the same. *)
LEMMA TakingAwayNarrows ==
  ASSUME NEW before, NEW after, NEW scope,
         \A w \in McpPrefixes :
            \/ after[w] \in {before[w], NoRule}
            \/ /\ HasRule(before, w) /\ RuleBound(after[w]) /\ after[w].deny = before[w].deny
               /\ after[w].services \subseteq before[w].services
               /\ after[w].presets \subseteq before[w].presets
  PROVE  AllowedRuns(after, scope) \subseteq AllowedRuns(before, scope)
<1>1. ASSUME NEW tool, NEW target, NEW argv, Permits(after, tool, target, argv)
      PROVE  Permits(before, tool, target, argv)
  <2>1. PICK w \in McpPrefixes : RulePermits(after, w, argv) /\ PermitsTarget(after[w], tool, target)
    BY <1>1 DEF Permits
  <2>2. CASE after[w] = before[w]
    BY <2>1, <2>2 DEF Permits, RulePermits, HasRule
  <2>3. CASE /\ HasRule(before, w) /\ RuleBound(after[w]) /\ after[w].deny = before[w].deny
             /\ after[w].services \subseteq before[w].services
             /\ after[w].presets \subseteq before[w].presets
    <3>1. RulePermits(before, w, argv)
      BY <2>1, <2>3, Zenon DEF RulePermits
    <3>2. PermitsTarget(before[w], tool, target)
      BY <2>1, <2>3 DEF PermitsTarget
    <3> QED BY <3>1, <3>2 DEF Permits
  <2>4. after[w] # NoRule
    BY <2>1 DEF RulePermits, HasRule
  <2> QED BY <2>2, <2>3, <2>4
<1>2. \A tool, target, argv : Allowed(after, scope, tool, target, argv) => Allowed(before, scope, tool, target, argv)
  BY <1>1, Zenon DEF Allowed
<1> QED BY <1>2 DEF AllowedRuns

(* A step that revokes is a removal or an unbinding: adding what takes nothing   *)
(* away leaves the rules as they were.                                           *)
LEMMA RevokingNarrows ==
  ASSUME AlInv, AllowNext, Revokes(maRules, maRules'), maScope' = maScope
  PROVE  AllowedRuns(maRules', maScope') \subseteq AllowedRuns(maRules, maScope)
<1>0. AlInv'
  BY AllowNextKeeps
<1>1. ASSUME NEW new, NEW binding \in McpBindings, AllowAdd(new, binding) PROVE FALSE
  <2> DEFINE merged(w) == [services |-> maRules[w].services \cup binding.services,
                           presets |-> maRules[w].presets \cup binding.presets,
                           deny |-> maRules[w].deny \/ binding.deny]
  <2>1. maRules' = [w \in McpPrefixes |-> IF w \notin new THEN maRules[w]
                                          ELSE IF ~HasRule(maRules, w) THEN binding ELSE merged(w)]
    BY <1>1 DEF AllowAdd
  <2>2. ASSUME NEW w \in McpPrefixes PROVE maRules'[w] = maRules[w]
    <3>1. CASE w \notin new
      BY <2>1, <3>1
    <3>2. CASE w \in new /\ ~HasRule(maRules, w)
      <4>1. maRules'[w] = binding /\ maRules[w] = NoRule
        BY <2>1, <3>2 DEF HasRule
      <4>2. binding # NoRule
        BY McpAllowAssumption
      <4> QED BY <3>2, <4>1, <4>2 DEF Revokes
    <3>3. CASE w \in new /\ HasRule(maRules, w)
      <4>1. maRules'[w] = merged(w)
        BY <2>1, <3>3
      <4>2. maRules[w] \in McpBindings /\ maRules'[w] \in McpBindings \cup {NoRule}
        BY <1>0, <3>3 DEF HasRule, AlInv, AllowTypeOK
      <4>3. /\ maRules'[w].services = maRules[w].services \cup binding.services
            /\ maRules'[w].presets = maRules[w].presets \cup binding.presets
        BY <4>1
      <4>4. maRules'[w] # NoRule
        <5>1. (maRules[w].deny \/ binding.deny) \in BOOLEAN
          BY Zenon
        <5>2. merged(w) \in McpBindings
          BY <4>2, <5>1 DEF McpBindings
        <5> HIDE DEF merged
        <5> QED BY <4>1, <5>2, McpAllowAssumption
      <4>5. \/ maRules'[w] = maRules[w]
            \/ /\ maRules'[w].deny = maRules[w].deny
               /\ maRules'[w].services = maRules[w].services /\ maRules'[w].presets = maRules[w].presets
        <5>1. \/ maRules'[w] \in {maRules[w], NoRule}
              \/ /\ maRules'[w].deny = maRules[w].deny
                 /\ maRules'[w].services \subseteq maRules[w].services
                 /\ maRules'[w].presets \subseteq maRules[w].presets
          BY Zenon DEF Revokes
        <5> HIDE DEF merged
        <5> QED BY <4>3, <4>4, <5>1
      <4>6. maRules'[w] \in McpBindings
        BY <4>2, <4>4
      <4> HIDE DEF merged
      <4> QED BY <4>2, <4>5, <4>6 DEF McpBindings
    <3> QED BY <3>1, <3>2, <3>3
  <2>3. maRules' = maRules
    BY <1>0, <2>2 DEF AlInv, AllowTypeOK
  <2> QED BY <2>3 DEF Revokes
<1>2. ASSUME NEW dropped, AllowRemove(dropped)
      PROVE  AllowedRuns(maRules', maScope') \subseteq AllowedRuns(maRules, maScope)
  <2>1. \A w \in McpPrefixes : maRules'[w] \in {maRules[w], NoRule}
    BY <1>2 DEF AllowRemove
  <2> QED BY <2>1, TakingAwayNarrows
<1>3. ASSUME NEW matched, NEW services, NEW presets, AllowUnbind(matched, services, presets)
      PROVE  AllowedRuns(maRules', maScope') \subseteq AllowedRuns(maRules, maScope)
  <2>1. ASSUME NEW w \in McpPrefixes
        PROVE  \/ maRules'[w] \in {maRules[w], NoRule}
               \/ /\ HasRule(maRules, w) /\ RuleBound(maRules'[w]) /\ maRules'[w].deny = maRules[w].deny
                  /\ maRules'[w].services \subseteq maRules[w].services
                  /\ maRules'[w].presets \subseteq maRules[w].presets
    <3>1. \/ maRules'[w] = maRules[w]
          \/ maRules'[w] = Unbound(maRules[w], services, presets) /\ w \in ListedRules
      BY <1>3 DEF AllowUnbind
    <3>2. w \in ListedRules => HasRule(maRules, w) /\ maRules[w] \in McpBindings
      BY DEF ListedRules, HasRule, AlInv, AllowTypeOK
    <3> QED BY <3>1, <3>2, UnboundIs
  <2> QED BY <2>1, TakingAwayNarrows
<1>4. ASSUME NEW kind, NEW name, ScopeAdd(kind, name) \/ ScopeRemove(kind, name) PROVE FALSE
  BY <1>4 DEF ScopeAdd, ScopeRemove, Revokes
<1> QED BY <1>1, <1>2, <1>3, <1>4 DEF AllowNext

-----------------------------------------------------------------------------
(* The MCP server *)

SvWorking == {"resolve", "start", "running", "exited", "closed"}

(* One request is at hand at most, and it is the one whose answer is owed; every *)
(* use has had an answer, and its entry in the audit or is counted as lost.      *)
Recorded(uses, audit, lost) ==
  audit.runs + lost.runs = uses.runs /\ audit.refusals + lost.refusals = uses.refusals

SvInv ==
  /\ AlInv /\ ServerTypeOK
  /\ msPhase \in SvWorking => msPermitted /\ msRequest = "exec"
  /\ msPhase # "idle" => (msRequest = "exec" <=> msCall # NoCall)
  /\ msRead = msAnswered + (IF msPhase # "idle" /\ WantsAnswer(msRequest) THEN 1 ELSE 0)
  /\ Recorded(msUses, msAudit, msLost) /\ msUses.runs + msUses.refusals <= msAnswered

LEMMA SvAccounts == SvInv => RunsAccountedFor
<1> SUFFICES ASSUME SvInv PROVE RunsAccountedFor
  OBVIOUS
<1>1. msPhase = "idle" => msAnswered = msRead
  BY DEF SvInv, ServerTypeOK
<1>2. EveryRunAudited
  BY DEF SvInv, Recorded, EveryRunAudited
<1> QED BY <1>1, <1>2 DEF SvInv, SvWorking, RunsAccountedFor, RunsWerePermitted, AnsweredOnce

(* What a step knows of the permission it had, or is given now. *)
LEMMA StillIs ==
  ASSUME ServerTypeOK, StillPermitted
  PROVE  /\ msPermitted' \in BOOLEAN /\ (msPermitted => msPermitted')
         /\ CallAllowed(maRules', maScope', msCall') => msPermitted'
BY Zenon DEF StillPermitted, ServerTypeOK

(* A request ends with its answer: what is owed then is nothing. *)
LEMMA AnswerKeeps ==
  ASSUME SvInv, AlInv', Answer, msPhase # "idle", UNCHANGED msRead,
         msTimer' \in {"off", "armed", "fired"}, msTimedOut' \in BOOLEAN,
         NEW runs \in 0..1, NEW refusals \in 0..1,
         runs + refusals <= (IF WantsAnswer(msRequest) THEN 1 ELSE 0),
         msUses' = [runs |-> msUses.runs + runs, refusals |-> msUses.refusals + refusals],
         msAudit' \in [runs : Nat, refusals : Nat], msLost' \in [runs : Nat, refusals : Nat],
         Recorded(msUses', msAudit', msLost')
  PROVE  SvInv'
<1>1. /\ msRead \in 0..MaxMcpRequests /\ msAnswered \in 0..MaxMcpRequests /\ MaxMcpRequests \in Nat
      /\ msUses \in [runs : 0..MaxMcpRequests, refusals : 0..MaxMcpRequests]
      /\ msRead = msAnswered + (IF WantsAnswer(msRequest) THEN 1 ELSE 0)
      /\ msUses.runs + msUses.refusals <= msAnswered
  BY McpServerAssumption DEF SvInv, ServerTypeOK, Uses
<1>2. /\ msPhase' = "idle" /\ msRequest' = "none" /\ msCall' = NoCall /\ msPermitted' = FALSE
      /\ msAnswered' = msAnswered + (IF WantsAnswer(msRequest) THEN 1 ELSE 0)
  BY <1>1 DEF Answer
<1>3. msAnswered' = msRead' /\ msRead' \in 0..MaxMcpRequests /\ msAnswered' \in 0..MaxMcpRequests
  BY <1>1, <1>2
<1>4. PICK one \in 0..1 : one = (IF WantsAnswer(msRequest) THEN 1 ELSE 0)
  OBVIOUS
<1>5. /\ msUses.runs \in Nat /\ msUses.refusals \in Nat
      /\ msUses'.runs = msUses.runs + runs /\ msUses'.refusals = msUses.refusals + refusals
  BY <1>1
<1>6. msUses'.runs + msUses'.refusals <= msAnswered'
  BY <1>1, <1>2, <1>4, <1>5
<1>7. msUses'.runs \in 0..MaxMcpRequests /\ msUses'.refusals \in 0..MaxMcpRequests
  BY <1>1, <1>3, <1>5, <1>6
<1>8. /\ msAudit'.runs \in 0..MaxMcpRequests /\ msAudit'.refusals \in 0..MaxMcpRequests
      /\ msLost'.runs \in 0..MaxMcpRequests /\ msLost'.refusals \in 0..MaxMcpRequests
  BY <1>1, <1>7 DEF Recorded
<1>9. msUses' \in Uses /\ msAudit' \in Uses /\ msLost' \in Uses
  BY <1>5, <1>7, <1>8 DEF Uses
<1>10. ServerTypeOK'
  BY <1>2, <1>3, <1>9 DEF ServerTypeOK, McpRequests, Uses
<1> QED BY <1>2, <1>3, <1>6, <1>10 DEF SvInv, SvWorking

LEMMA CountedIs ==
  ASSUME NEW u \in [runs : Nat, refusals : Nat]
  PROVE  /\ Counted(u, "runs") = [runs |-> u.runs + 1, refusals |-> u.refusals + 0]
         /\ Counted(u, "refusals") = [runs |-> u.runs + 0, refusals |-> u.refusals + 1]
<1>1. u = [runs |-> u.runs, refusals |-> u.refusals] /\ u.runs + 0 = u.runs /\ u.refusals + 0 = u.refusals
  OBVIOUS
<1>2. DOMAIN u = {"runs", "refusals"}
  OBVIOUS
<1>3. Counted(u, "runs") = [runs |-> u.runs + 1, refusals |-> u.refusals]
  <2>1. PICK v : v = Counted(u, "runs")
    OBVIOUS
  <2>2. v = [u EXCEPT !.runs = u.runs + 1]
    BY <2>1, Zenon DEF Counted
  <2>3. v = [runs |-> u.runs + 1, refusals |-> u.refusals]
    BY <1>2, <2>2
  <2> QED BY <2>1, <2>3
<1>4. Counted(u, "refusals") = [runs |-> u.runs, refusals |-> u.refusals + 1]
  <2>1. PICK v : v = Counted(u, "refusals")
    OBVIOUS
  <2>2. v = [u EXCEPT !.refusals = u.refusals + 1]
    BY <2>1, Zenon DEF Counted
  <2>3. v = [runs |-> u.runs, refusals |-> u.refusals + 1]
    BY <1>2, <2>2
  <2> QED BY <2>1, <2>3
<1> QED BY <1>1, <1>3, <1>4

(* A use that is counted is in the audit, or counted as lost. *)
LEMMA UseRecorded ==
  ASSUME SvInv, NEW kind \in {"runs", "refusals"}, NEW written \in BOOLEAN,
         msUses' = Counted(msUses, kind), Appended(kind, written)
  PROVE  /\ msUses' = [runs     |-> msUses.runs + (IF kind = "runs" THEN 1 ELSE 0),
                       refusals |-> msUses.refusals + (IF kind = "refusals" THEN 1 ELSE 0)]
         /\ msAudit' \in [runs : Nat, refusals : Nat] /\ msLost' \in [runs : Nat, refusals : Nat]
         /\ Recorded(msUses', msAudit', msLost')
<1>1. /\ msUses \in [runs : Nat, refusals : Nat] /\ msAudit \in [runs : Nat, refusals : Nat]
      /\ msLost \in [runs : Nat, refusals : Nat] /\ Recorded(msUses, msAudit, msLost)
  BY McpServerAssumption DEF SvInv, ServerTypeOK, Uses
<1>2. /\ msUses' = Counted(msUses, kind)
      /\ msAudit' = IF written THEN Counted(msAudit, kind) ELSE msAudit
      /\ msLost' = IF written THEN msLost ELSE Counted(msLost, kind)
  BY DEF Appended
<1>3. PICK runs, refusals :
         /\ runs = (IF kind = "runs" THEN 1 ELSE 0) /\ refusals = (IF kind = "refusals" THEN 1 ELSE 0)
         /\ runs \in Nat /\ refusals \in Nat
  OBVIOUS
<1>4. ASSUME NEW u \in [runs : Nat, refusals : Nat]
      PROVE  Counted(u, kind) = [runs |-> u.runs + runs, refusals |-> u.refusals + refusals]
  <2>1. CASE kind = "runs"
    BY <1>3, <2>1, CountedIs
  <2>2. CASE kind = "refusals"
    BY <1>3, <2>2, CountedIs
  <2> QED BY <2>1, <2>2
<1>5. msUses' = [runs |-> msUses.runs + runs, refusals |-> msUses.refusals + refusals]
  BY <1>1, <1>2, <1>4
<1>6. CASE written
  <2>1. /\ msAudit' = [runs |-> msAudit.runs + runs, refusals |-> msAudit.refusals + refusals]
        /\ msLost' = msLost
    BY <1>1, <1>2, <1>4, <1>6
  <2> QED BY <1>1, <1>3, <1>5, <2>1 DEF Recorded
<1>7. CASE ~written
  <2>1. /\ msLost' = [runs |-> msLost.runs + runs, refusals |-> msLost.refusals + refusals]
        /\ msAudit' = msAudit
    BY <1>1, <1>2, <1>4, <1>7
  <2> QED BY <1>1, <1>3, <1>5, <2>1 DEF Recorded
<1> QED BY <1>6, <1>7

LEMMA ReadRequestKeeps ==
  ASSUME SvInv, NEW request \in McpRequests \ {"none"}, NEW call \in McpCallsMade \cup {NoCall},
         ReadRequest(request, call)
  PROVE  SvInv'
<1>1. /\ msPhase = "idle" /\ msRead < MaxMcpRequests /\ (request = "exec" <=> call # NoCall)
      /\ msPhase' = "request" /\ msRequest' = request /\ msCall' = call
      /\ msRead' = msRead + (IF WantsAnswer(request) THEN 1 ELSE 0)
      /\ msPermitted' = CallAllowed(maRules, maScope, call)
      /\ UNCHANGED allowVars /\ UNCHANGED <<msAnswered, msTimer, msTimedOut, msUses, msAudit, msLost>>
  BY DEF ReadRequest, ServerQuiet, Timing, Accounts
<1>2. msPermitted' \in BOOLEAN
  BY <1>1, Zenon DEF CallAllowed
<1>3. AlInv'
  BY <1>1 DEF SvInv, AlInv, AllowTypeOK, NoOverlaps, HasRule, allowVars
<1>4. ServerTypeOK
  BY DEF SvInv
<1>5. msRead' \in 0..MaxMcpRequests
  BY <1>1, <1>4, McpServerAssumption DEF ServerTypeOK
<1>6. ServerTypeOK'
  BY <1>1, <1>2, <1>4, <1>5 DEF ServerTypeOK
<1>7. msRead' = msAnswered' + (IF msPhase' # "idle" /\ WantsAnswer(msRequest') THEN 1 ELSE 0)
  BY <1>1, <1>4 DEF SvInv, ServerTypeOK
<1> QED BY <1>1, <1>3, <1>6, <1>7 DEF SvInv, SvWorking, Recorded

LEMMA AllowStays == ASSUME SvInv, ServerQuiet PROVE AlInv'
BY DEF SvInv, AlInv, AllowTypeOK, NoOverlaps, HasRule, ServerQuiet, allowVars

(* The request at hand ends without a run or a refusal. *)
LEMMA EndsUnrun ==
  ASSUME SvInv, msPhase # "idle", Answer, ServerQuiet,
         UNCHANGED <<msRead, msTimer, msTimedOut, msUses, msAudit, msLost>>
  PROVE  SvInv'
<1>1. /\ msTimer' \in {"off", "armed", "fired"} /\ msTimedOut' \in BOOLEAN
      /\ msUses \in [runs : Nat, refusals : Nat] /\ msAudit \in [runs : Nat, refusals : Nat]
      /\ msLost \in [runs : Nat, refusals : Nat]
  BY McpServerAssumption DEF SvInv, ServerTypeOK, Uses
<1>2. msUses' = [runs |-> msUses.runs + 0, refusals |-> msUses.refusals + 0]
  BY <1>1
<1>3. Recorded(msUses', msAudit', msLost')
  BY DEF SvInv
<1> QED BY <1>1, <1>2, <1>3, AllowStays, AnswerKeeps

(* A refused command, or one that ran, ends with its answer and what the audit keeps. *)
LEMMA UseEnds ==
  ASSUME SvInv, msPhase # "idle", msRequest = "exec", Answer, ServerQuiet, UNCHANGED msRead,
         msTimer' \in {"off", "armed", "fired"}, msTimedOut' \in BOOLEAN,
         NEW kind \in {"runs", "refusals"}, NEW written \in BOOLEAN,
         msUses' = Counted(msUses, kind), Appended(kind, written)
  PROVE  SvInv'
<1>1. PICK runs \in 0..1, refusals \in 0..1 :
        /\ runs = (IF kind = "runs" THEN 1 ELSE 0) /\ refusals = (IF kind = "refusals" THEN 1 ELSE 0)
  OBVIOUS
<1>2. runs + refusals <= (IF WantsAnswer(msRequest) THEN 1 ELSE 0)
  BY <1>1 DEF WantsAnswer
<1>3. /\ msUses' = [runs |-> msUses.runs + runs, refusals |-> msUses.refusals + refusals]
      /\ msAudit' \in [runs : Nat, refusals : Nat] /\ msLost' \in [runs : Nat, refusals : Nat]
      /\ Recorded(msUses', msAudit', msLost')
  BY <1>1, UseRecorded
<1> QED BY <1>2, <1>3, AllowStays, AnswerKeeps

LEMMA AuthorizeExecKeeps == ASSUME SvInv, AuthorizeExec PROVE SvInv'
<1>1. /\ msPhase = "request" /\ msRequest = "exec" /\ msCall # NoCall /\ ServerTypeOK
      /\ UNCHANGED <<msRead, msTimer, msTimedOut>> /\ ServerQuiet
  BY DEF AuthorizeExec, SvInv, Timing
<1>2. AlInv'
  BY <1>1, AllowStays
<1>3. CASE Authorizes(msCall)
  <2>1. /\ msPhase' = "resolve" /\ StillPermitted
        /\ UNCHANGED <<msRequest, msCall, msAnswered, msUses, msAudit, msLost>>
    BY <1>3 DEF AuthorizeExec, Accounts
  <2>2. CallAllowed(maRules', maScope', msCall')
    BY <1>1, <1>3, <2>1 DEF CallAllowed, Authorizes, ServerQuiet, allowVars
  <2>3. msPermitted' /\ msPermitted' \in BOOLEAN
    BY <1>1, <2>1, <2>2, StillIs
  <2>4. ServerTypeOK'
    BY <1>1, <2>1, <2>3 DEF ServerTypeOK
  <2> QED BY <1>1, <1>2, <2>1, <2>3, <2>4 DEF SvInv, Recorded
<1>4. CASE ~Authorizes(msCall)
  <2>1. Answer /\ msUses' = Counted(msUses, "refusals")
    BY <1>4 DEF AuthorizeExec
  <2>2. PICK written \in BOOLEAN : Appended("refusals", written)
    BY <1>4 DEF AuthorizeExec
  <2>3. msTimer' \in {"off", "armed", "fired"} /\ msTimedOut' \in BOOLEAN /\ msPhase # "idle"
    BY <1>1 DEF ServerTypeOK
  <2> QED BY <1>1, <2>1, <2>2, <2>3, UseEnds
<1> QED BY <1>3, <1>4

(* A run goes on: the request, its permission and the accounts are what they were. *)
LEMMA RunGoesOn ==
  ASSUME SvInv, msPhase \in SvWorking, msPhase' \in SvWorking, ServerKeeps, StillPermitted,
         msTimer' \in {"off", "armed", "fired"}, msTimedOut' \in BOOLEAN,
         UNCHANGED <<msAnswered, msUses, msAudit, msLost>>
  PROVE  SvInv'
<1>1. ServerTypeOK /\ AlInv' /\ UNCHANGED <<msRequest, msCall, msRead>> /\ msPermitted
  BY AllowStays DEF SvInv, ServerKeeps
<1>2. msPermitted' /\ msPermitted' \in BOOLEAN
  BY <1>1, StillIs
<1>3. ServerTypeOK'
  BY <1>1, <1>2 DEF ServerTypeOK, SvWorking
<1> QED BY <1>1, <1>2, <1>3 DEF SvInv, SvWorking, Recorded

LEMMA ChildKeeps ==
  ASSUME SvInv, ResolveExec \/ StartChild \/ ChildExits \/ OutputCloses \/ TimerFires PROVE SvInv'
<1>1. /\ msPhase \in SvWorking /\ msPhase' \in SvWorking /\ ServerKeeps /\ StillPermitted
      /\ UNCHANGED <<msAnswered, msUses, msAudit, msLost>>
  BY DEF ResolveExec, StartChild, ChildExits, OutputCloses, TimerFires, SvWorking, Accounts
<1>2. msTimer' \in {"off", "armed", "fired"} /\ msTimedOut' \in BOOLEAN
  BY DEF SvInv, ServerTypeOK, ResolveExec, StartChild, ChildExits, OutputCloses, TimerFires, Timing
<1> QED BY <1>1, <1>2, RunGoesOn

LEMMA ChildWaitedKeeps == ASSUME SvInv, ChildWaited PROVE SvInv'
<1>1. /\ msPhase # "idle" /\ msRequest = "exec" /\ UNCHANGED msRead /\ ServerQuiet /\ Answer
      /\ msTimer' = "off" /\ msTimedOut' = FALSE /\ msUses' = Counted(msUses, "runs")
  BY DEF ChildWaited, SvInv, SvWorking
<1>2. PICK waited \in BOOLEAN, written \in BOOLEAN : Appended("runs", waited /\ written)
  BY DEF ChildWaited, AuditRun
<1>3. (waited /\ written) \in BOOLEAN
  OBVIOUS
<1> QED BY <1>1, <1>2, <1>3, UseEnds

LEMMA OperatorKeeps == ASSUME SvInv, OperatorAllows PROVE SvInv'
<1>1. /\ UNCHANGED <<msPhase, msRequest, msCall, msRead, msAnswered, msTimer, msTimedOut>>
      /\ UNCHANGED <<msUses, msAudit, msLost>>
      /\ AllowNext /\ StillPermitted /\ ServerTypeOK /\ AlInv
  BY DEF OperatorAllows, SvInv, Timing, Accounts
<1>2. AlInv'
  BY <1>1, AllowNextKeeps
<1>3. msPermitted' \in BOOLEAN /\ (msPermitted => msPermitted')
  BY <1>1, StillIs
<1>4. ServerTypeOK'
  BY <1>1, <1>3 DEF ServerTypeOK
<1> QED BY <1>1, <1>2, <1>3, <1>4 DEF SvInv, Recorded

LEMMA ServerInitKeeps == AllowInit /\ ServerInit => SvInv
<1> SUFFICES ASSUME AllowInit, ServerInit PROVE SvInv
  OBVIOUS
<1>1. ServerTypeOK
  <2>1. 0 \in 0..MaxMcpRequests
    BY McpServerAssumption
  <2>2. msUses \in Uses /\ msAudit \in Uses /\ msLost \in Uses
    BY <2>1 DEF ServerInit, Uses
  <2> QED BY <2>1, <2>2 DEF ServerInit, ServerTypeOK, McpRequests
<1>2. Recorded(msUses, msAudit, msLost) /\ msUses.runs + msUses.refusals = 0
  BY DEF ServerInit, Recorded
<1> QED BY <1>1, <1>2, AllowInitKeeps DEF ServerInit, SvInv, SvWorking

LEMMA ServerNextKeeps == SvInv /\ [ServerNext]_<<allowVars, serverVars>> => SvInv'
<1> SUFFICES ASSUME SvInv, [ServerNext]_<<allowVars, serverVars>> PROVE SvInv'
  OBVIOUS
<1>1. CASE UNCHANGED <<allowVars, serverVars>>
  <2>1. AlInv'
    BY <1>1, AllowStays DEF ServerQuiet
  <2> QED BY <1>1, <2>1 DEF serverVars, SvInv, ServerTypeOK, Recorded
<1>2. CASE HandleRequest \/ ExecFails
  <2>1. /\ msPhase # "idle" /\ Answer /\ ServerQuiet
        /\ UNCHANGED <<msRead, msTimer, msTimedOut, msUses, msAudit, msLost>>
    BY <1>2 DEF HandleRequest, ExecFails, Timing, Accounts
  <2> QED BY <2>1, EndsUnrun
<1> QED BY <1>1, <1>2, ReadRequestKeeps, AuthorizeExecKeeps, ChildKeeps, ChildWaitedKeeps, OperatorKeeps
        DEF ServerNext

-----------------------------------------------------------------------------
(* Presets *)

Unplain(store) == \A n \in DOMAIN store : \A k \in DOMAIN store[n] \cap SecretKeys : store[n][k] # "plain"

(* Neither the file nor what any process is about to write has a plain secret. *)
WpInv ==
  /\ WenvTypeOK /\ NoPlainSecrets /\ PrintedAsShown
  /\ \A p \in WenvProcs : Unplain(wpOps[p].store)

(* A command that sets out to write leaves a variable in each preset that has one. *)
WpKeepsOne ==
  \A p \in WenvProcs :
     wpOps[p] = WenvIdle /\ wpOps'[p].pc \in {"ask", "write"} =>
        \A n \in DOMAIN wpFile \cap DOMAIN wpOps'[p].store :
           DOMAIN wpFile[n] # {} => DOMAIN wpOps'[p].store[n] # {}

(* Partial functions: what With, Less and Joined make of them. *)
PartsOf(U, V) == UNION {[S -> V] : S \in SUBSET U}

LEMMA PartIs ==
  ASSUME NEW U, NEW V, NEW f
  PROVE  f \in PartsOf(U, V) <=>
           /\ f = [x \in DOMAIN f |-> f[x]] /\ DOMAIN f \subseteq U
           /\ \A x \in DOMAIN f : f[x] \in V
<1>1. ASSUME f \in PartsOf(U, V)
      PROVE  /\ f = [x \in DOMAIN f |-> f[x]] /\ DOMAIN f \subseteq U
             /\ \A x \in DOMAIN f : f[x] \in V
  <2>1. PICK S \in SUBSET U : f \in [S -> V]
    BY <1>1 DEF PartsOf
  <2> QED BY <2>1
<1>2. ASSUME f = [x \in DOMAIN f |-> f[x]], DOMAIN f \subseteq U, \A x \in DOMAIN f : f[x] \in V
      PROVE  f \in PartsOf(U, V)
  <2>1. f \in [DOMAIN f -> V]
    BY <1>2
  <2> QED BY <1>2, <2>1 DEF PartsOf
<1> QED BY <1>1, <1>2

LEMMA WithIs ==
  ASSUME NEW U, NEW V, NEW f \in PartsOf(U, V), NEW x \in U, NEW v \in V, NEW g, g = With(f, x, v)
  PROVE  /\ g \in PartsOf(U, V) /\ DOMAIN g = DOMAIN f \cup {x}
         /\ g[x] = v /\ \A y \in DOMAIN f : y # x => g[y] = f[y]
<1>1. g = [y \in DOMAIN f \cup {x} |-> IF y = x THEN v ELSE f[y]]
  BY DEF With
<1>2. DOMAIN f \subseteq U /\ \A y \in DOMAIN f : f[y] \in V
  BY PartIs
<1>3. /\ DOMAIN g = DOMAIN f \cup {x} /\ g = [y \in DOMAIN g |-> g[y]]
      /\ g[x] = v /\ \A y \in DOMAIN f : y # x => g[y] = f[y]
  BY <1>1
<1>4. DOMAIN g \subseteq U /\ \A y \in DOMAIN g : g[y] \in V
  BY <1>2, <1>3
<1> QED BY <1>3, <1>4, PartIs

LEMMA LessIs ==
  ASSUME NEW U, NEW V, NEW f \in PartsOf(U, V), NEW x, NEW g, g = Less(f, x)
  PROVE  g \in PartsOf(U, V)
<1>1. g = [y \in DOMAIN f \ {x} |-> f[y]]
  BY DEF Less
<1>2. DOMAIN f \subseteq U /\ \A y \in DOMAIN f : f[y] \in V
  BY PartIs
<1>3. DOMAIN g = DOMAIN f \ {x} /\ g = [y \in DOMAIN g |-> g[y]] /\ \A y \in DOMAIN g : g[y] = f[y]
  BY <1>1
<1>4. DOMAIN g \subseteq U /\ \A y \in DOMAIN g : g[y] \in V
  BY <1>2, <1>3
<1> QED BY <1>3, <1>4, PartIs

LEMMA LessAt == ASSUME NEW f, NEW x, NEW g, g = Less(f, x), NEW y \in DOMAIN g PROVE g[y] = f[y]
BY DEF Less

LEMMA JoinedIs ==
  ASSUME NEW U, NEW V, NEW f, NEW h, NEW g, f \in PartsOf(U, V), h \in PartsOf(U, V), g = Joined(f, h)
  PROVE  g \in PartsOf(U, V)
<1>1. g = [y \in DOMAIN f \cup DOMAIN h |-> IF y \in DOMAIN h THEN h[y] ELSE f[y]]
  BY DEF Joined
<1>2. DOMAIN f \subseteq U /\ \A y \in DOMAIN f : f[y] \in V
  BY PartIs
<1>3. DOMAIN h \subseteq U /\ \A y \in DOMAIN h : h[y] \in V
  BY PartIs
<1>4. /\ DOMAIN g = DOMAIN f \cup DOMAIN h /\ g = [y \in DOMAIN g |-> g[y]]
      /\ \A y \in DOMAIN g : g[y] = IF y \in DOMAIN h THEN h[y] ELSE f[y]
  BY <1>1
<1>5. DOMAIN g \subseteq U /\ \A y \in DOMAIN g : g[y] \in V
  BY <1>2, <1>3, <1>4
<1> QED BY <1>4, <1>5, PartIs

LEMMA JoinedAt ==
  ASSUME NEW f, NEW h, NEW g, g = Joined(f, h), NEW y \in DOMAIN g
  PROVE  g[y] = IF y \in DOMAIN h THEN h[y] ELSE f[y]
BY DEF Joined

WpValues == {"plain", "reference"}

LEMMA StoresAreParts ==
  WenvPreset = PartsOf(WenvKeys, WpValues) /\ WenvStores = PartsOf(WenvNames, WenvPreset)
BY Zenon DEF WenvPreset, WenvStores, PartsOf, WpValues

LEMMA EmptyStore == NoStore \in WenvStores /\ NoStore \in WenvPreset /\ Unplain(NoStore) /\ DOMAIN NoStore = {}
<1>1. DOMAIN NoStore = {} /\ NoStore = [x \in DOMAIN NoStore |-> NoStore[x]]
  BY DEF NoStore
<1>2. NoStore \in PartsOf(WenvKeys, WpValues) /\ NoStore \in PartsOf(WenvNames, WenvPreset)
  BY <1>1, PartIs
<1> QED BY <1>1, <1>2, StoresAreParts DEF Unplain

-----------------------------------------------------------------------------
(* Every store a command sets out to write *)

(* One preset is set, to one without plain secrets. *)
LEMMA WithKeeps ==
  ASSUME NEW store \in WenvStores, Unplain(store), NEW name \in WenvNames, NEW vars \in WenvPreset,
         \A k \in DOMAIN vars \cap SecretKeys : vars[k] # "plain",
         NEW new, new = With(store, name, vars)
  PROVE  new \in WenvStores /\ Unplain(new)
<1>1. /\ new \in WenvStores /\ DOMAIN new = DOMAIN store \cup {name}
      /\ new[name] = vars /\ \A n \in DOMAIN store : n # name => new[n] = store[n]
  BY StoresAreParts, WithIs
<1>2. ASSUME NEW n \in DOMAIN new, NEW k \in DOMAIN new[n] \cap SecretKeys PROVE new[n][k] # "plain"
  <2>1. CASE n = name
    BY <1>1, <1>2, <2>1
  <2>2. CASE n # name
    BY <1>1, <1>2, <2>2 DEF Unplain
  <2> QED BY <2>1, <2>2
<1> QED BY <1>1, <1>2 DEF Unplain

LEMMA LessKeeps ==
  ASSUME NEW store \in WenvStores, Unplain(store), NEW name, NEW new, new = Less(store, name)
  PROVE  new \in WenvStores /\ Unplain(new)
<1>1. new \in WenvStores /\ DOMAIN new = DOMAIN store \ {name} /\ \A n \in DOMAIN new : new[n] = store[n]
  <2>1. store \in PartsOf(WenvNames, WenvPreset)
    BY StoresAreParts
  <2>2. new \in PartsOf(WenvNames, WenvPreset) => new \in WenvStores
    BY StoresAreParts
  <2>3. new \in PartsOf(WenvNames, WenvPreset)
    BY <2>1, LessIs
  <2>4. \A n \in DOMAIN new : new[n] = store[n]
    BY LessAt
  <2>5. DOMAIN new = DOMAIN store \ {name}
    BY DEF Less
  <2> QED BY <2>2, <2>3, <2>4, <2>5
<1> QED BY <1>1 DEF Unplain

LEMMA JoinedKeeps ==
  ASSUME NEW store, NEW more, NEW new, store \in WenvStores, Unplain(store),
         more \in WenvStores, Unplain(more), new = Joined(store, more)
  PROVE  new \in WenvStores /\ Unplain(new)
<1>1. /\ new \in WenvStores /\ DOMAIN new = DOMAIN store \cup DOMAIN more
      /\ \A n \in DOMAIN new : new[n] = IF n \in DOMAIN more THEN more[n] ELSE store[n]
  <2>1. store \in PartsOf(WenvNames, WenvPreset) /\ more \in PartsOf(WenvNames, WenvPreset)
    BY StoresAreParts
  <2>2. new \in PartsOf(WenvNames, WenvPreset) => new \in WenvStores
    BY StoresAreParts
  <2>3. new \in PartsOf(WenvNames, WenvPreset) /\ DOMAIN new = DOMAIN store \cup DOMAIN more
    <3>1. new \in PartsOf(WenvNames, WenvPreset)
      BY <2>1, JoinedIs
    <3>2. DOMAIN new = DOMAIN store \cup DOMAIN more
      BY DEF Joined
    <3> QED BY <3>1, <3>2
  <2>4. \A n \in DOMAIN new : new[n] = IF n \in DOMAIN more THEN more[n] ELSE store[n]
    BY JoinedAt
  <2> QED BY <2>2, <2>3, <2>4
<1>2. ASSUME NEW n \in DOMAIN new, NEW k \in DOMAIN new[n] \cap SecretKeys PROVE new[n][k] # "plain"
  <2>1. CASE n \in DOMAIN more
    BY <1>1, <1>2, <2>1 DEF Unplain
  <2>2. CASE n \notin DOMAIN more
    BY <1>1, <1>2, <2>2 DEF Unplain
  <2> QED BY <2>1, <2>2
<1> QED BY <1>1, <1>2 DEF Unplain

(* A preset of a store: a partial function without plain secrets. *)
LEMMA PresetOf ==
  ASSUME NEW store \in WenvStores, Unplain(store), NEW name \in DOMAIN store
  PROVE  /\ store[name] \in WenvPreset /\ name \in WenvNames
         /\ \A k \in DOMAIN store[name] \cap SecretKeys : store[name][k] # "plain"
<1>1. DOMAIN store \subseteq WenvNames /\ \A n \in DOMAIN store : store[n] \in WenvPreset
  BY StoresAreParts, PartIs
<1> QED BY <1>1 DEF Unplain

(* The commands, each with the store it sets out to write; none of them leaves a *)
(* preset that set something with nothing.                                       *)
LEMMA ChangesKeep ==
  ASSUME WpInv, NEW p \in WenvProcs, NEW asks \in BOOLEAN, NEW store, NEW presets,
         Changes(p, asks, store, presets), store \in WenvStores, Unplain(store), presets \in SUBSET WenvNames,
         \A n \in DOMAIN wpFile \cap DOMAIN store : DOMAIN wpFile[n] # {} => DOMAIN store[n] # {}
  PROVE  WpInv' /\ WpKeepsOne
<1> DEFINE pc == IF asks THEN "ask" ELSE "write"
           o == [pc |-> pc, store |-> store, presets |-> presets]
<1>1. /\ wpOps' = [wpOps EXCEPT ![p] = o] /\ wpPrinted' = NoOutput /\ UNCHANGED <<wpFile, wpSecrets, wpTerminal>>
  BY DEF Changes
<1>2. pc \in {"ask", "write"}
  OBVIOUS
<1> HIDE DEF pc
<1>3. o \in WenvOps /\ o.pc = pc /\ o.store = store
  BY <1>2 DEF WenvOps
<1> HIDE DEF o
<1>4. wpOps \in [WenvProcs -> WenvOps]
  BY DEF WpInv, WenvTypeOK
<1>5. /\ wpOps' \in [WenvProcs -> WenvOps] /\ wpOps'[p] = o
      /\ \A q \in WenvProcs : q # p => wpOps'[q] = wpOps[q]
  BY <1>1, <1>3, <1>4
<1>6. WenvTypeOK' /\ NoPlainSecrets' /\ PrintedAsShown'
  BY <1>1, <1>5 DEF WpInv, WenvTypeOK, NoPlainSecrets, PrintedAsShown, NoOutput
<1>7. ASSUME NEW q \in WenvProcs PROVE Unplain(wpOps'[q].store)
  <2>1. CASE q = p
    BY <1>3, <1>5, <2>1
  <2>2. CASE q # p
    BY <1>5, <2>2 DEF WpInv
  <2> QED BY <2>1, <2>2
<1>8. ASSUME NEW q \in WenvProcs, wpOps[q] = WenvIdle, wpOps'[q].pc \in {"ask", "write"},
             NEW n \in DOMAIN wpFile \cap DOMAIN wpOps'[q].store, DOMAIN wpFile[n] # {}
      PROVE  DOMAIN wpOps'[q].store[n] # {}
  <2>1. q = p
    BY <1>5, <1>8 DEF WenvIdle
  <2> QED BY <1>3, <1>5, <1>8, <2>1
<1> QED BY <1>6, <1>7, <1>8 DEF WpInv, WpKeepsOne

VarsOK(vars) == vars \in WenvPreset /\ \A k \in DOMAIN vars \cap SecretKeys : vars[k] # "plain"

LEMMA FileIs == ASSUME WpInv PROVE wpFile \in WenvStores /\ Unplain(wpFile)
BY DEF WpInv, WenvTypeOK, NoPlainSecrets, Unplain

LEMMA FilePreset == ASSUME WpInv, NEW name \in DOMAIN wpFile PROVE VarsOK(wpFile[name]) /\ name \in WenvNames
BY FileIs, PresetOf DEF VarsOK

(* A command that sets one preset of the file it read. *)
LEMMA SettingKeeps ==
  ASSUME WpInv, NEW p \in WenvProcs, NEW asks \in BOOLEAN, NEW presets \in SUBSET WenvNames,
         NEW name \in WenvNames, NEW vars, VarsOK(vars), DOMAIN vars # {},
         Changes(p, asks, With(wpFile, name, vars), presets)
  PROVE  WpInv' /\ WpKeepsOne
<1> DEFINE new == With(wpFile, name, vars)
<1>1. new \in WenvStores /\ Unplain(new)
  BY FileIs, WithKeeps DEF VarsOK
<1>2. /\ DOMAIN new = DOMAIN wpFile \cup {name}
      /\ \A n \in DOMAIN new : new[n] = IF n = name THEN vars ELSE wpFile[n]
  BY DEF With
<1>3. Changes(p, asks, new, presets)
  OBVIOUS
<1> HIDE DEF new
<1>4. ASSUME NEW n \in DOMAIN wpFile \cap DOMAIN new, DOMAIN wpFile[n] # {} PROVE DOMAIN new[n] # {}
  <2>1. CASE n = name
    BY <1>2, <2>1
  <2>2. CASE n # name
    BY <1>2, <1>4, <2>2
  <2> QED BY <2>1, <2>2
<1> QED BY <1>1, <1>3, <1>4, ChangesKeep

LEMMA SetPresetKeeps ==
  ASSUME WpInv, NEW p \in WenvProcs, NEW name \in WenvNames, NEW vars \in WenvPreset, SetPreset(p, name, vars)
  PROVE  WpInv' /\ WpKeepsOne
<1>1. vars # NoStore /\ VarsOK(vars) /\ Changes(p, FALSE, With(wpFile, name, vars), {name})
  BY DEF SetPreset, ValidPreset, VarsOK
<1>2. DOMAIN vars # {}
  <2>1. vars = [x \in DOMAIN vars |-> vars[x]]
    BY StoresAreParts, PartIs
  <2> QED BY <1>1, <2>1 DEF NoStore
<1>3. {name} \in SUBSET WenvNames
  OBVIOUS
<1> QED BY <1>1, <1>2, <1>3, SettingKeeps

(* A preset with one variable set to a value it may have. *)
LEMMA VariableSet ==
  ASSUME NEW vars, VarsOK(vars), NEW key \in WenvKeys, NEW value \in WpValues,
         ValidPreset([k \in {key} |-> value]), NEW new, new = With(vars, key, value)
  PROVE  VarsOK(new) /\ DOMAIN new # {}
<1>1. key \in SecretKeys => value = "reference"
  <2>1. SUFFICES ASSUME key \in SecretKeys PROVE value = "reference"
    OBVIOUS
  <2>2. [k \in {key} |-> value][key] = "reference"
    BY <2>1 DEF ValidPreset
  <2> QED BY <2>2
<1>2. vars \in PartsOf(WenvKeys, WpValues)
  BY StoresAreParts DEF VarsOK
<1>3. new \in WenvPreset
  BY <1>2, WithIs, StoresAreParts
<1>4. /\ DOMAIN new = DOMAIN vars \cup {key}
      /\ \A k \in DOMAIN new : new[k] = IF k = key THEN value ELSE vars[k]
  BY DEF With
<1>5. ASSUME NEW k \in DOMAIN new \cap SecretKeys PROVE new[k] # "plain"
  <2>1. CASE k = key
    BY <1>1, <1>4, <2>1
  <2>2. CASE k # key
    BY <1>4, <2>2 DEF VarsOK
  <2> QED BY <2>1, <2>2
<1> QED BY <1>3, <1>4, <1>5 DEF VarsOK

LEMMA VariableKeeps ==
  ASSUME WpInv, NEW p \in WenvProcs, NEW name \in WenvNames, NEW key \in WenvKeys, NEW value \in WpValues,
         AddVariable(p, name, key, value) \/ UpdateVariable(p, name, key, value)
  PROVE  WpInv' /\ WpKeepsOne
<1> DEFINE vars == With(wpFile[name], key, value)
<1>1. /\ ValidPreset([k \in {key} |-> value]) /\ name \in DOMAIN wpFile
      /\ Changes(p, FALSE, With(wpFile, name, vars), {name}) /\ {name} \in SUBSET WenvNames
  BY DEF AddVariable, UpdateVariable
<1>2. VarsOK(wpFile[name])
  BY <1>1, FilePreset
<1>3. VarsOK(vars) /\ DOMAIN vars # {}
  BY <1>1, <1>2, VariableSet
<1> HIDE DEF vars
<1> QED BY <1>1, <1>3, SettingKeeps

(* A preset that lost a variable, not its last. *)
LEMMA VariableGone ==
  ASSUME NEW vars, VarsOK(vars), NEW key, Removable(vars, key), NEW new, new = Less(vars, key)
  PROVE  VarsOK(new) /\ DOMAIN new # {}
<1>1. vars \in PartsOf(WenvKeys, WpValues)
  BY StoresAreParts DEF VarsOK
<1>2. new \in WenvPreset
  BY <1>1, LessIs, StoresAreParts
<1>3. DOMAIN new = DOMAIN vars \ {key} /\ \A k \in DOMAIN new : new[k] = vars[k]
  BY DEF Less
<1>4. DOMAIN new # {}
  <2>1. SUFFICES ASSUME DOMAIN vars \ {key} = {} PROVE FALSE
    BY <1>3
  <2>2. DOMAIN vars = {key}
    BY <2>1 DEF Removable
  <2>3. Cardinality({key}) = 1
    BY FS_Singleton
  <2>4. Cardinality(DOMAIN vars) = 1
    BY <2>2, <2>3, Zenon
  <2> QED BY <2>4 DEF Removable
<1> QED BY <1>2, <1>3, <1>4 DEF VarsOK

LEMMA RemoveVariableKeeps ==
  ASSUME WpInv, NEW p \in WenvProcs, NEW name \in WenvNames, NEW key, RemoveVariable(p, name, key)
  PROVE  WpInv' /\ WpKeepsOne
<1> DEFINE vars == Less(wpFile[name], key)
<1>1. /\ name \in DOMAIN wpFile /\ Removable(wpFile[name], key)
      /\ Changes(p, TRUE, With(wpFile, name, vars), {name}) /\ {name} \in SUBSET WenvNames
  BY DEF RemoveVariable
<1>2. VarsOK(wpFile[name])
  BY <1>1, FilePreset
<1>3. VarsOK(vars) /\ DOMAIN vars # {}
  BY <1>1, <1>2, VariableGone
<1> HIDE DEF vars
<1> QED BY <1>1, <1>3, SettingKeeps

LEMMA RenamePresetKeeps ==
  ASSUME WpInv, NEW p \in WenvProcs, NEW from \in WenvNames, NEW to \in WenvNames, RenamePreset(p, from, to)
  PROVE  WpInv' /\ WpKeepsOne
<1> DEFINE rest == Less(wpFile, from)
           new == With(rest, to, wpFile[from])
<1>1. /\ from \in DOMAIN wpFile /\ to \notin DOMAIN wpFile
      /\ Changes(p, TRUE, new, {from, to}) /\ {from, to} \in SUBSET WenvNames
  BY DEF RenamePreset
<1>2. rest \in WenvStores /\ Unplain(rest)
  BY FileIs, LessKeeps
<1>3. VarsOK(wpFile[from])
  BY <1>1, FilePreset
<1>4. DOMAIN rest = DOMAIN wpFile \ {from} /\ \A n \in DOMAIN rest : rest[n] = wpFile[n]
  BY DEF Less
<1> HIDE DEF rest
<1>5. new \in WenvStores /\ Unplain(new)
  BY <1>2, <1>3, WithKeeps DEF VarsOK
<1>6. /\ DOMAIN new = DOMAIN rest \cup {to}
      /\ \A n \in DOMAIN new : new[n] = IF n = to THEN wpFile[from] ELSE rest[n]
  BY DEF With
<1> HIDE DEF new
<1>7. \A n \in DOMAIN wpFile \cap DOMAIN new : new[n] = wpFile[n]
  BY <1>1, <1>4, <1>6
<1> QED BY <1>1, <1>5, <1>7, ChangesKeep

LEMMA RemovePresetKeeps ==
  ASSUME WpInv, NEW p \in WenvProcs, NEW name \in WenvNames, NEW yes \in BOOLEAN, RemovePreset(p, name, yes)
  PROVE  WpInv' /\ WpKeepsOne
<1> DEFINE new == Less(wpFile, name)
<1>1. Changes(p, ~yes, new, {name}) /\ {name} \in SUBSET WenvNames /\ (~yes) \in BOOLEAN
  BY DEF RemovePreset
<1>2. new \in WenvStores /\ Unplain(new)
  BY FileIs, LessKeeps
<1>3. \A n \in DOMAIN new : new[n] = wpFile[n]
  BY DEF Less
<1> HIDE DEF new
<1> QED BY <1>1, <1>2, <1>3, ChangesKeep

LEMMA ImportPresetsKeeps ==
  ASSUME WpInv, NEW p \in WenvProcs, NEW presets \in WenvStores, ImportPresets(p, presets)
  PROVE  WpInv' /\ WpKeepsOne
<1> DEFINE new == Joined(wpFile, presets)
<1>1. /\ \A n \in DOMAIN presets : ValidPreset(presets[n])
      /\ \A n \in DOMAIN wpFile \cap DOMAIN presets : wpFile[n] = presets[n]
      /\ Changes(p, FALSE, new, DOMAIN presets \ DOMAIN wpFile)
  BY DEF ImportPresets
<1>2. Unplain(presets)
  BY <1>1 DEF Unplain, ValidPreset
<1>3. DOMAIN presets \ DOMAIN wpFile \in SUBSET WenvNames
  <2>1. DOMAIN presets \subseteq WenvNames
    BY StoresAreParts, PartIs
  <2> QED BY <2>1
<1>4. new \in WenvStores /\ Unplain(new)
  BY <1>2, FileIs, JoinedKeeps
<1>5. \A n \in DOMAIN new : new[n] = IF n \in DOMAIN presets THEN presets[n] ELSE wpFile[n]
  BY JoinedAt
<1> HIDE DEF new
<1>6. \A n \in DOMAIN wpFile \cap DOMAIN new : new[n] = wpFile[n]
  BY <1>1, <1>5
<1> QED BY <1>1, <1>3, <1>4, <1>6, ChangesKeep

-----------------------------------------------------------------------------
(* Answers, writes and output *)

(* A step by which no command sets out to write anything. *)
LEMMA WpGoes ==
  ASSUME WpInv, NEW p \in WenvProcs, NEW o \in WenvOps, Unplain(o.store), wpOps' = [wpOps EXCEPT ![p] = o],
         wpOps[p] # WenvIdle \/ o.pc \notin {"ask", "write"},
         wpFile' \in WenvStores, Unplain(wpFile'), UNCHANGED <<wpSecrets, wpTerminal>>,
         wpPrinted'.preset \in SUBSET WenvNames, PrintedAsShown'
  PROVE  WpInv' /\ WpKeepsOne
<1>1. wpOps \in [WenvProcs -> WenvOps]
  BY DEF WpInv, WenvTypeOK
<1>2. /\ wpOps' \in [WenvProcs -> WenvOps] /\ wpOps'[p] = o
      /\ \A q \in WenvProcs : q # p => wpOps'[q] = wpOps[q]
  BY <1>1
<1>3. WenvTypeOK' /\ NoPlainSecrets'
  BY <1>2 DEF WpInv, WenvTypeOK, NoPlainSecrets, Unplain
<1>4. ASSUME NEW q \in WenvProcs PROVE Unplain(wpOps'[q].store)
  <2>1. CASE q = p
    BY <1>2, <2>1
  <2>2. CASE q # p
    BY <1>2, <2>2 DEF WpInv
  <2> QED BY <2>1, <2>2
<1>5. WpKeepsOne
  <2>1. SUFFICES ASSUME NEW q \in WenvProcs, wpOps[q] = WenvIdle, wpOps'[q].pc \in {"ask", "write"} PROVE FALSE
    BY DEF WpKeepsOne
  <2>2. CASE q = p
    BY <1>2, <2>1, <2>2
  <2>3. CASE q # p
    BY <1>2, <2>1, <2>3 DEF WenvIdle
  <2> QED BY <2>2, <2>3
<1> QED BY <1>3, <1>4, <1>5 DEF WpInv

LEMMA NothingPrinted == wpPrinted' = NoOutput => wpPrinted'.preset \in SUBSET WenvNames /\ PrintedAsShown'
BY DEF NoOutput, PrintedAsShown

LEMMA WenvIdleIs == WenvIdle \in WenvOps /\ Unplain(WenvIdle.store) /\ WenvIdle.pc = "idle"
BY EmptyStore DEF WenvIdle, WenvOps

LEMMA AnswersKeep ==
  ASSUME WpInv, NEW p \in WenvProcs, NEW yes \in BOOLEAN, Confirmed(p, yes) \/ ApplyConfirmed(p, yes) \/ WenvStops(p)
  PROVE  WpInv' /\ WpKeepsOne
<1>1. /\ wpPrinted' = NoOutput /\ UNCHANGED <<wpFile, wpSecrets, wpTerminal>>
      /\ wpOps[p] # WenvIdle /\ wpOps[p] \in WenvOps
  BY DEF Confirmed, ApplyConfirmed, WenvStops, WenvAt, WenvIdle, WpInv, WenvTypeOK
<1>2. PICK o : o \in {WenvIdle, [wpOps[p] EXCEPT !.pc = "write"], [wpOps[p] EXCEPT !.pc = "output"]}
                /\ wpOps' = [wpOps EXCEPT ![p] = o]
  <2>1. wpOps' = [wpOps EXCEPT ![p] = WenvIdle] \/ wpOps' = [wpOps EXCEPT ![p].pc = "write"]
        \/ wpOps' = [wpOps EXCEPT ![p].pc = "output"]
    BY DEF Confirmed, ApplyConfirmed, WenvStops, WenvEnd
  <2> QED BY <2>1
<1>3. o \in WenvOps /\ o.store \in {NoStore, wpOps[p].store}
  BY <1>1, <1>2, WenvIdleIs DEF WenvOps, WenvIdle
<1>4. Unplain(o.store)
  BY <1>3, EmptyStore DEF WpInv
<1>5. wpFile' \in WenvStores /\ Unplain(wpFile')
  BY <1>1, FileIs
<1> QED BY <1>1, <1>2, <1>3, <1>4, <1>5, NothingPrinted, WpGoes

LEMMA WritesKeeps == ASSUME WpInv, NEW p \in WenvProcs, Writes(p) PROVE WpInv' /\ WpKeepsOne
<1>1. /\ wpPrinted' = NoOutput /\ UNCHANGED <<wpSecrets, wpTerminal>> /\ wpFile' = wpOps[p].store
      /\ wpOps[p] # WenvIdle /\ wpOps[p] \in WenvOps /\ wpOps' = [wpOps EXCEPT ![p] = WenvIdle]
  BY DEF Writes, WenvAt, WenvIdle, WenvEnd, WpInv, WenvTypeOK
<1>2. wpFile' \in WenvStores /\ Unplain(wpFile')
  BY <1>1 DEF WenvOps, WpInv
<1> QED BY <1>1, <1>2, WenvIdleIs, NothingPrinted, WpGoes

LEMMA PreviewsKeeps ==
  ASSUME WpInv, NEW p \in WenvProcs, NEW name \in WenvNames, NEW yes \in BOOLEAN, Previews(p, name, yes)
  PROVE  WpInv' /\ WpKeepsOne
<1> DEFINE pc == IF yes THEN "output" ELSE "preview"
           o == [pc |-> pc, store |-> wpFile, presets |-> {name}]
<1>1. /\ wpPrinted' = NoOutput /\ UNCHANGED <<wpFile, wpSecrets, wpTerminal>> /\ wpOps' = [wpOps EXCEPT ![p] = o]
  BY DEF Previews
<1>2. pc \in {"output", "preview"}
  OBVIOUS
<1> HIDE DEF pc
<1>3. o \in WenvOps /\ o.pc = pc /\ o.store = wpFile
  BY <1>2, FileIs DEF WenvOps
<1> HIDE DEF o
<1>4. wpFile' \in WenvStores /\ Unplain(wpFile') /\ Unplain(o.store)
  BY <1>1, <1>3, FileIs
<1> QED BY <1>1, <1>2, <1>3, <1>4, NothingPrinted, WpGoes

(* What is printed is a preset of the store that was read before the preview. *)
LEMMA OutputsKeeps == ASSUME WpInv, NEW p \in WenvProcs, Outputs(p) PROVE WpInv' /\ WpKeepsOne
<1>1. /\ UNCHANGED <<wpFile, wpSecrets, wpTerminal>> /\ wpOps' = [wpOps EXCEPT ![p] = WenvIdle]
      /\ wpOps[p] \in WenvOps
  BY DEF Outputs, WenvEnd, WpInv, WenvTypeOK
<1>2. wpPrinted'.preset \in SUBSET WenvNames /\ PrintedAsShown'
  <2>1. PICK name \in wpOps[p].presets :
          wpPrinted' = IF MayPrint(Applied(p, name))
                       THEN [preset |-> {name}, vars |-> Applied(p, name), from |-> wpOps[p].store]
                       ELSE NoOutput
    BY DEF Outputs
  <2>2. CASE MayPrint(Applied(p, name))
    <3>1. wpPrinted' = [preset |-> {name}, vars |-> wpOps[p].store[name], from |-> wpOps[p].store]
      BY <2>1, <2>2 DEF Applied
    <3>2. UsesSecrets(wpOps[p].store[name]) => wpTerminal' /\ wpSecrets'
      BY <1>1, <2>2 DEF MayPrint, Applied
    <3>3. wpPrinted'.preset = {name} /\ wpPrinted'.vars = wpOps[p].store[name]
          /\ wpPrinted'.from = wpOps[p].store
      BY <3>1
    <3>4. name \in WenvNames
      BY <1>1, <2>1 DEF WenvOps
    <3>5. UsesSecrets(wpPrinted'.vars) => wpTerminal' /\ wpSecrets'
      BY <3>2, <3>3, Zenon
    <3>6. name \in wpPrinted'.preset /\ wpPrinted'.vars = wpPrinted'.from[name]
      BY <3>3
    <3> QED BY <3>3, <3>4, <3>5, <3>6 DEF PrintedAsShown
  <2>3. CASE ~MayPrint(Applied(p, name))
    BY <2>1, <2>3, NothingPrinted
  <2> QED BY <2>2, <2>3
<1>3. wpFile' \in WenvStores /\ Unplain(wpFile')
  BY <1>1, FileIs
<1> QED BY <1>1, <1>2, <1>3, WenvIdleIs, WpGoes

(* A step of somebody else. *)
LEMMA OthersKeep ==
  ASSUME WpInv, UNCHANGED wpOps, wpFile' \in WenvStores, Unplain(wpFile'), wpSecrets' \in BOOLEAN,
         wpTerminal' \in BOOLEAN, wpPrinted' = NoOutput
  PROVE  WpInv' /\ WpKeepsOne
<1>1. WpInv'
  BY NothingPrinted DEF WpInv, WenvTypeOK, NoPlainSecrets, Unplain
<1>2. WpKeepsOne
  BY DEF WpKeepsOne, WenvIdle
<1> QED BY <1>1, <1>2

LEMMA ServerSetsKeeps ==
  ASSUME WpInv, NEW name \in WenvNames, NEW vars \in WenvPreset, ServerSets(name, vars)
  PROVE  WpInv' /\ WpKeepsOne
<1> DEFINE old == IF name \in DOMAIN wpFile THEN wpFile[name] ELSE NoStore
           new == Joined(old, vars)
<1>1. /\ wpFile' = With(wpFile, name, new) /\ ValidPreset(vars)
      /\ wpPrinted' = NoOutput /\ UNCHANGED <<wpSecrets, wpTerminal, wpOps>>
  BY DEF ServerSets
<1>2. VarsOK(old)
  BY FilePreset, EmptyStore DEF VarsOK
<1> HIDE DEF old
<1>3. old \in PartsOf(WenvKeys, WpValues) /\ vars \in PartsOf(WenvKeys, WpValues)
  BY <1>2, StoresAreParts DEF VarsOK
<1>4. new \in WenvPreset
  BY <1>3, JoinedIs, StoresAreParts
<1>5. /\ DOMAIN new = DOMAIN old \cup DOMAIN vars
      /\ \A k \in DOMAIN new : new[k] = IF k \in DOMAIN vars THEN vars[k] ELSE old[k]
  BY DEF Joined
<1> HIDE DEF new
<1>6. \A k \in DOMAIN new \cap SecretKeys : new[k] # "plain"
  BY <1>1, <1>2, <1>5 DEF VarsOK, ValidPreset
<1>7. wpFile' \in WenvStores /\ Unplain(wpFile')
  BY <1>1, <1>4, <1>6, FileIs, WithKeeps
<1>8. wpSecrets' \in BOOLEAN /\ wpTerminal' \in BOOLEAN
  BY <1>1 DEF WpInv, WenvTypeOK
<1> QED BY <1>1, <1>7, <1>8, OthersKeep

LEMMA WenvInitKeeps == WenvInit => WpInv
<1> SUFFICES ASSUME WenvInit PROVE WpInv
  OBVIOUS
<1>1. WenvTypeOK
  BY EmptyStore, WenvIdleIs DEF WenvInit, WenvTypeOK, NoOutput
<1>2. \A p \in WenvProcs : Unplain(wpOps[p].store)
  BY WenvIdleIs DEF WenvInit
<1>3. NoPlainSecrets /\ PrintedAsShown
  BY EmptyStore DEF WenvInit, NoPlainSecrets, PrintedAsShown
<1> QED BY <1>1, <1>2, <1>3 DEF WpInv

LEMMA WenvNextKeeps == ASSUME WpInv, [WenvNext]_wenvVars PROVE WpInv' /\ WpKeepsOne
<1>1. CASE UNCHANGED wenvVars
  BY <1>1 DEF wenvVars, WpInv, WenvTypeOK, NoPlainSecrets, PrintedAsShown, WpKeepsOne, WenvIdle
<1>2. CASE ReferencesChange
  <2>1. /\ UNCHANGED wpOps /\ wpFile' \in WenvStores /\ Unplain(wpFile') /\ wpSecrets' \in BOOLEAN
        /\ wpTerminal' \in BOOLEAN /\ wpPrinted' = NoOutput
    BY <1>2, FileIs DEF ReferencesChange, WpInv, WenvTypeOK
  <2> QED BY <2>1, OthersKeep
<1>3. ASSUME NEW p \in WenvProcs, NEW name \in WenvNames, NEW key \in WenvKeys, NEW value \in {"plain", "reference"},
             AddVariable(p, name, key, value) \/ UpdateVariable(p, name, key, value)
      PROVE  WpInv' /\ WpKeepsOne
  BY <1>3, VariableKeeps DEF WpValues
<1>4. ASSUME NEW p \in WenvProcs, NEW yes \in BOOLEAN, Confirmed(p, yes) \/ ApplyConfirmed(p, yes)
      PROVE  WpInv' /\ WpKeepsOne
  BY <1>4, AnswersKeep
<1>5. ASSUME NEW p \in WenvProcs, WenvStops(p) PROVE WpInv' /\ WpKeepsOne
  BY <1>5, AnswersKeep
<1> QED BY <1>1, <1>2, <1>3, <1>4, <1>5, SetPresetKeeps, RemoveVariableKeeps, RenamePresetKeeps,
           RemovePresetKeeps, ImportPresetsKeeps, WritesKeeps, PreviewsKeeps, OutputsKeeps, ServerSetsKeeps
        DEF WenvNext

-----------------------------------------------------------------------------
(* The registry of MCP servers *)

(* The server registered, and the one an adoption is about, are valid; what a    *)
(* registered adoption, or one that may take its own back, refers to is there.   *)
(* A field that two of them refer to has been changed by bb sec: what is stored  *)
(* is not adopted again, so the second could store it only after a removal.      *)
Provided(s) == References(s) \subseteq mrFields \cup mrChanged
Apart(s, t) == References(s) \cap References(t) \subseteq mrChanged

RgOp(p) ==
  mrOps[p].cmd = "adopt" =>
     /\ mrOps[p].server \in ValidServers
     /\ TakesBack(mrOps[p]) =>
           /\ Provided(mrOps[p].server)
           /\ mrAdopted => Apart(mrServer, mrOps[p].server)
     /\ mrOps[p].pc \in {"ask", "store"} /\ mrOps[p].current =>
           References(mrOps[p].server) \cap mrFields = {}

RgApart(p, q) ==
  p # q /\ TakesBack(mrOps[p]) /\ TakesBack(mrOps[q]) => Apart(mrOps[p].server, mrOps[q].server)

RgInv ==
  /\ RegistryTypeOK
  /\ mrServer # NoServer => mrServer \in ValidServers
  /\ mrAdopted => mrServer # NoServer /\ Provided(mrServer)
  /\ \A p \in McpProcs : RgOp(p)
  /\ \A p, q \in McpProcs : RgApart(p, q)

RgKeeps ==
  /\ \A c \in Clients : mrClients[c] # "none" /\ mrClients'[c] = "none" =>
        \E p \in McpProcs : mrOps'[p].client = c /\ mrOps'[p].pc = "add"
  /\ \A p \in McpProcs : mrOps[p].pc = "takeout" /\ mrOps'[p] = McpIdle =>
        mrFields \ mrFields' \subseteq References(mrOps[p].server)

LEMMA McpIdleIs ==
  McpIdle \in McpOps /\ McpIdle.cmd = "idle" /\ McpIdle.pc = "idle" /\ ~TakesBack(McpIdle)
BY DEF McpIdle, McpOps, Clients, TakesBack

LEMMA EditIsValid ==
  ASSUME NEW s \in ValidServers, NEW t \in {"stdio", "http"},
         NEW e, e = Edited(s, {"transport"}, [s EXCEPT !.transport = t])
  PROVE  ValidServer(e)
<1> DEFINE o == [s EXCEPT !.transport = t]
           g == Given(s, {"transport"}, o)
<1>1. s \in McpServers /\ ValidServer(s)
  BY DEF ValidServers
<1>2. /\ DOMAIN g = {"transport", "secretEnv", "bearerEnv", "bearerSecret", "targets"}
      /\ g.transport = t /\ g.secretEnv = s.secretEnv /\ g.bearerEnv = s.bearerEnv
      /\ g.bearerSecret = s.bearerSecret /\ g.targets = s.targets
  BY <1>1 DEF McpServers, Given
<1>3. e = IF t = "stdio" THEN [g EXCEPT !.bearerEnv = FALSE, !.bearerSecret = FALSE]
          ELSE [g EXCEPT !.secretEnv = {}]
  BY <1>2, Zenon DEF Edited
<1> HIDE DEF g, o
<1>4. CASE t = "stdio"
  <2>1. e.transport = "stdio" /\ e.bearerEnv = FALSE /\ e.bearerSecret = FALSE /\ e.targets = s.targets
    BY <1>2, <1>3, <1>4
  <2> QED BY <1>1, <2>1, Zenon DEF ValidServer
<1>5. CASE t = "http"
  <2>1. /\ e.transport = "http" /\ e.secretEnv = {} /\ e.bearerEnv = s.bearerEnv
        /\ e.bearerSecret = s.bearerSecret /\ e.targets = s.targets
    BY <1>2, <1>3, <1>5
  <2> QED BY <1>1, <2>1, Zenon DEF ValidServer
<1> QED BY <1>4, <1>5

LEMMA EditedIsServer ==
  ASSUME NEW s \in McpServers, NEW option \in Options, NEW o \in McpServers,
         NEW e, e = Edited(s, {option}, o)
  PROVE  e \in McpServers
<1> DEFINE g == Given(s, {option}, o)
<1>1. g \in McpServers
  <2>1. g = [transport |-> IF option = "transport" THEN o.transport ELSE s.transport,
             secretEnv |-> IF option = "secretEnv" THEN o.secretEnv ELSE s.secretEnv,
             bearerEnv |-> IF option = "bearerEnv" THEN o.bearerEnv ELSE s.bearerEnv,
             bearerSecret |-> IF option = "bearerSecret" THEN o.bearerSecret ELSE s.bearerSecret,
             targets |-> IF option = "targets" THEN o.targets ELSE s.targets]
    BY DEF Given, McpServers
  <2> HIDE DEF g
  <2> QED BY <2>1 DEF McpServers
<1>2. \/ e = g
      \/ e = [g EXCEPT !.bearerEnv = FALSE, !.bearerSecret = FALSE]
      \/ e = [g EXCEPT !.secretEnv = {}]
  <2>1. CASE option # "transport"
    BY <2>1, Zenon DEF Edited
  <2>2. CASE option = "transport" /\ g.transport = "stdio"
    BY <2>2, Zenon DEF Edited
  <2>3. CASE option = "transport" /\ g.transport # "stdio"
    BY <2>3, Zenon DEF Edited
  <2> QED BY <2>1, <2>2, <2>3
<1> HIDE DEF g
<1> QED BY <1>1, <1>2 DEF McpServers

(* The registry is written, the secrets and the processes are as they were. *)
LEMMA WriteServerKeeps ==
  ASSUME RgInv, NEW s, s \in ValidServers \cup {NoServer}, WriteServer(s, FALSE),
         UNCHANGED <<mrFields, mrChanged, mrClients, mrOps>>
  PROVE  RgInv' /\ RgKeeps
<1>1. RgKeeps
  BY DEF RgKeeps
<1>2. RegistryTypeOK'
  BY DEF RgInv, RegistryTypeOK, WriteServer, ValidServers
<1>3. \A q \in McpProcs : RgOp(q)'
  BY DEF RgInv, WriteServer, RgOp, Provided, TakesBack
<1>4. \A q, o \in McpProcs : RgApart(q, o)'
  BY DEF RgInv, RgApart, Apart, TakesBack
<1> QED BY <1>1, <1>2, <1>3, <1>4 DEF RgInv, WriteServer

LEMMA RegistryWritesKeep ==
  ASSUME RgInv, NEW s \in McpSpecs, NEW option \in Options,
         AddServer(s) \/ PromptEdit(s) \/ EditServer(option, s) \/ RemoveServer
  PROVE  RgInv' /\ RgKeeps
<1>1. s \in McpServers
  BY McpRegistryAssumption
<1>2. CASE AddServer(s) \/ PromptEdit(s)
  <2>1. s \in ValidServers
    BY <1>1, <1>2 DEF AddServer, PromptEdit, ValidServers
  <2> QED BY <1>2, <2>1, WriteServerKeeps DEF AddServer, PromptEdit
<1>3. CASE EditServer(option, s)
  <2>1. PICK e : e = Edited(mrServer, {option}, s)
    OBVIOUS
  <2>2. ValidServer(e) /\ WriteServer(e, FALSE) /\ mrServer # NoServer
    BY <1>3, <2>1 DEF EditServer
  <2>3. mrServer \in McpServers
    BY <2>2 DEF RgInv, RegistryTypeOK
  <2>4. e \in ValidServers
    BY <1>1, <2>1, <2>2, <2>3, EditedIsServer DEF ValidServers
  <2> QED BY <1>3, <2>2, <2>4, WriteServerKeeps DEF EditServer
<1>4. CASE RemoveServer
  BY <1>4, WriteServerKeeps DEF RemoveServer
<1> QED BY <1>2, <1>3, <1>4

(* A process goes on, or comes to its end, and may change a client's file. *)
LEMMA RgOpMoves ==
  ASSUME RgInv, NEW p \in McpProcs, NEW op \in McpOps, mrOps' = [mrOps EXCEPT ![p] = op],
         op.cmd = "adopt" => op.server \in ValidServers,
         TakesBack(op) => TakesBack(mrOps[p]) /\ op.server = mrOps[p].server,
         op.cmd = "adopt" /\ op.pc \in {"ask", "store"} /\ op.current => References(op.server) \cap mrFields = {},
         UNCHANGED <<mrServer, mrAdopted, mrFields, mrChanged>>,
         mrClients' \in [Clients -> {"none", "literal", "bb"}],
         \A c \in Clients : mrClients[c] # "none" /\ mrClients'[c] = "none" => op.client = c /\ op.pc = "add"
  PROVE  RgInv' /\ RgKeeps
<1>0. mrOps \in [McpProcs -> McpOps]
  BY DEF RgInv, RegistryTypeOK
<1>1. mrOps' \in [McpProcs -> McpOps] /\ mrOps'[p] = op /\ \A q \in McpProcs : q # p => mrOps'[q] = mrOps[q]
  BY <1>0
<1>2. RegistryTypeOK'
  BY <1>1 DEF RgInv, RegistryTypeOK
<1>a. \A q \in McpProcs : TakesBack(mrOps'[q]) => TakesBack(mrOps[q]) /\ mrOps'[q].server = mrOps[q].server
  BY <1>1
<1>3. ASSUME NEW q \in McpProcs PROVE RgOp(q)'
  <2>1. RgOp(q)
    BY DEF RgInv
  <2>2. TakesBack(mrOps[q]) => mrOps[q].cmd = "adopt"
    BY DEF TakesBack
  <2>3. CASE q = p
    BY <1>1, <1>a, <2>1, <2>2, <2>3 DEF RgOp, Provided, Apart
  <2>4. CASE q # p
    BY <1>1, <2>1, <2>4 DEF RgOp, Provided, Apart, TakesBack
  <2> QED BY <2>3, <2>4
<1>4. RgKeeps
  BY <1>1 DEF RgKeeps
<1>5. \A q, o \in McpProcs : RgApart(q, o)'
  BY <1>a DEF RgInv, RgApart, Apart
<1> QED BY <1>2, <1>3, <1>4, <1>5 DEF RgInv, Provided

LEMMA SyncKeeps ==
  ASSUME RgInv, NEW p \in McpProcs,
         \/ \E client \in Clients : SyncReads(p, client)
         \/ SyncChecks(p) \/ SyncDrops(p) \/ SyncAdds(p)
  PROVE  RgInv' /\ RgKeeps
<1>0. mrOps \in [McpProcs -> McpOps] /\ mrOps[p] \in McpOps /\ mrClients \in [Clients -> {"none", "literal", "bb"}]
  BY DEF RgInv, RegistryTypeOK
<1>1. mrOps[p].cmd = "adopt" => mrOps[p].server \in ValidServers
  BY DEF RgInv, RgOp
<1>2. CASE \E client \in Clients : SyncReads(p, client)
  <2>1. PICK client \in Clients : SyncReads(p, client)
    BY <1>2
  <2> DEFINE op == [McpIdle EXCEPT !.cmd = "sync", !.pc = "check", !.client = client]
  <2>2. op \in McpOps /\ op.cmd = "sync" /\ ~TakesBack(op)
    BY DEF McpIdle, McpOps, Clients, TakesBack
  <2>3. mrOps' = [mrOps EXCEPT ![p] = op] /\ UNCHANGED <<mrServer, mrAdopted, mrFields, mrChanged, mrClients>>
    BY <2>1 DEF SyncReads, McpBegin
  <2> HIDE DEF op
  <2> QED BY <1>0, <2>2, <2>3, RgOpMoves
<1>3. ASSUME NEW pc \in {"drop", "add"}, McpGoto(p, pc),
             UNCHANGED <<mrServer, mrAdopted, mrFields, mrChanged>>,
             mrClients' \in [Clients -> {"none", "literal", "bb"}],
             \A c \in Clients : mrClients[c] # "none" /\ mrClients'[c] = "none"
                                  => mrOps[p].client = c /\ pc = "add"
      PROVE  RgInv' /\ RgKeeps
  <2> DEFINE op == [mrOps[p] EXCEPT !.pc = pc]
  <2>1. mrOps' = [mrOps EXCEPT ![p] = op]
    BY <1>0, <1>3 DEF McpGoto
  <2>2. op.client = mrOps[p].client /\ op.server = mrOps[p].server /\ op.cmd = mrOps[p].cmd /\ op.pc = pc
    BY <1>0 DEF McpOps
  <2>3. op \in McpOps /\ ~TakesBack(op)
    BY <1>0, <1>3, <2>2 DEF McpOps, TakesBack
  <2> HIDE DEF op
  <2> QED BY <1>1, <1>3, <2>1, <2>2, <2>3, RgOpMoves
<1>4. CASE SyncChecks(p)
  BY <1>0, <1>3, <1>4 DEF SyncChecks
<1>5. CASE SyncDrops(p)
  <2>1. mrClients' = [mrClients EXCEPT ![mrOps[p].client] = "none"]
    BY <1>5 DEF SyncDrops
  <2>2. mrOps[p].client \in Clients
    BY <1>0 DEF McpOps
  <2> QED BY <1>0, <1>3, <1>5, <2>1, <2>2 DEF SyncDrops
<1>6. CASE SyncAdds(p)
  <2>1. mrClients' = [mrClients EXCEPT ![mrOps[p].client] = "bb"] /\ mrOps' = [mrOps EXCEPT ![p] = McpIdle]
        /\ UNCHANGED <<mrServer, mrAdopted, mrFields, mrChanged>>
    BY <1>6 DEF SyncAdds, McpEnd
  <2>2. mrClients' \in [Clients -> {"none", "literal", "bb"}]
        /\ \A c \in Clients : mrClients[c] # "none" => mrClients'[c] # "none"
    BY <1>0, <2>1
  <2> QED BY <2>1, <2>2, McpIdleIs, RgOpMoves
<1> QED BY <1>2, <1>4, <1>5, <1>6

(* The secrets are written: nobody's reading of them is current any more. *)
LEMMA OutdatedOps ==
  ASSUME RgInv, NEW p \in McpProcs, NEW op \in McpOps, op.current = FALSE,
         mrOps' = [q \in McpProcs |-> IF q = p THEN op ELSE [mrOps[q] EXCEPT !.current = FALSE]]
  PROVE  /\ mrOps' \in [McpProcs -> McpOps] /\ mrOps'[p] = op
         /\ \A q \in McpProcs \ {p} :
               /\ mrOps'[q].cmd = mrOps[q].cmd /\ mrOps'[q].pc = mrOps[q].pc
               /\ mrOps'[q].server = mrOps[q].server
               /\ TakesBack(mrOps'[q]) <=> TakesBack(mrOps[q])
         /\ \A q \in McpProcs : mrOps'[q].current = FALSE
<1>0. mrOps \in [McpProcs -> McpOps]
  BY DEF RgInv, RegistryTypeOK
<1>1. ASSUME NEW q \in McpProcs, NEW o, o = [mrOps[q] EXCEPT !.current = FALSE]
      PROVE  /\ o \in McpOps /\ o.cmd = mrOps[q].cmd /\ o.pc = mrOps[q].pc /\ o.server = mrOps[q].server
             /\ o.current = FALSE
  BY <1>0, <1>1 DEF McpOps
<1>2. mrOps' \in [McpProcs -> McpOps]
  BY <1>1
<1>3. mrOps'[p] = op
  OBVIOUS
<1>4. ASSUME NEW q \in McpProcs \ {p}
      PROVE  /\ mrOps'[q].cmd = mrOps[q].cmd /\ mrOps'[q].pc = mrOps[q].pc
             /\ mrOps'[q].server = mrOps[q].server /\ mrOps'[q].current = FALSE
  <2>1. PICK o : o = [mrOps[q] EXCEPT !.current = FALSE]
    OBVIOUS
  <2> QED BY <1>1, <2>1
<1> QED BY <1>2, <1>3, <1>4 DEF TakesBack

(* They are written: what somebody refers to stays, or has been changed. *)
LEMMA RgFieldsChange ==
  ASSUME RgInv, NEW fields \in SUBSET McpFields, NEW changed \in SUBSET McpFields,
         mrFields' = fields, mrChanged' = changed,
         mrOps' \in [McpProcs -> McpOps],
         \A q \in McpProcs : mrOps'[q].cmd = "adopt" => mrOps'[q].server \in ValidServers,
         \A q \in McpProcs : mrOps'[q].current = TRUE => mrOps'[q].pc \notin {"ask", "store"},
         mrAdopted => Provided(mrServer)',
         \A q \in McpProcs : TakesBack(mrOps'[q]) =>
            Provided(mrOps[q].server)' /\ (mrAdopted => Apart(mrServer, mrOps[q].server)'),
         \A q, o \in McpProcs : RgApart(q, o)',
         \A q \in McpProcs : mrOps[q].pc = "takeout" /\ mrOps'[q] = McpIdle =>
            mrFields \ fields \subseteq References(mrOps[q].server),
         UNCHANGED <<mrServer, mrAdopted, mrClients>>
  PROVE  RgInv' /\ RgKeeps
<1>1. RegistryTypeOK'
  BY DEF RgInv, RegistryTypeOK
<1>2. \A q \in McpProcs : RgOp(q)'
  BY DEF RgOp
<1>3. RgKeeps
  BY DEF RgKeeps
<1> QED BY <1>1, <1>2, <1>3 DEF RgInv

LEMMA AdoptKeeps ==
  ASSUME RgInv, NEW p \in McpProcs,
         \/ \E client \in Clients : \E s \in AdoptedServers(client) : AdoptReads(p, client, s)
         \/ AdoptConfirmed(p) \/ AdoptRegisters(p) \/ AdoptUnstoreReads(p)
  PROVE  RgInv' /\ RgKeeps
<1>0. mrOps \in [McpProcs -> McpOps] /\ mrOps[p] \in McpOps /\ mrClients \in [Clients -> {"none", "literal", "bb"}]
  BY DEF RgInv, RegistryTypeOK
<1>1. mrOps[p].cmd = "adopt" => mrOps[p].server \in ValidServers
  BY DEF RgInv, RgOp
<1>2. CASE \E client \in Clients : \E s \in AdoptedServers(client) : AdoptReads(p, client, s)
  <2>1. PICK client \in Clients : \E s \in AdoptedServers(client) : AdoptReads(p, client, s)
    BY <1>2
  <2>a. PICK s \in AdoptedServers(client) : AdoptReads(p, client, s)
    BY <2>1
  <2> DEFINE op == [cmd |-> "adopt", pc |-> "ask", client |-> client, server |-> s, current |-> TRUE]
  <2>2. s \in ValidServers /\ s \in McpServers
    BY <2>a DEF AdoptedServers, ValidServers
  <2>3. op \in McpOps /\ op.pc = "ask" /\ op.server = s /\ ~TakesBack(op)
    BY <2>2 DEF McpOps, TakesBack
  <2>4. mrOps' = [mrOps EXCEPT ![p] = op] /\ UNCHANGED <<mrServer, mrAdopted, mrFields, mrChanged, mrClients>>
        /\ References(s) \cap mrFields = {}
    BY <2>a DEF AdoptReads, McpBegin
  <2> HIDE DEF op
  <2> QED BY <1>0, <2>2, <2>3, <2>4, RgOpMoves
<1>3. ASSUME NEW pc, NEW current \in BOOLEAN,
             \/ pc = "store" /\ mrOps[p].pc = "ask" /\ current = mrOps[p].current
             \/ pc \in {"unstore", "takeout"} /\ mrOps[p].pc \in {"register", "unstore"},
             mrOps[p].cmd = "adopt",
             mrOps' = [mrOps EXCEPT ![p] = [mrOps[p] EXCEPT !.pc = pc, !.current = current]],
             UNCHANGED <<mrServer, mrAdopted, mrFields, mrChanged, mrClients>>
      PROVE  RgInv' /\ RgKeeps
  <2> DEFINE op == [mrOps[p] EXCEPT !.pc = pc, !.current = current]
  <2>1. mrOps' = [mrOps EXCEPT ![p] = op]
    BY <1>3
  <2>2. op.server = mrOps[p].server /\ op.cmd = mrOps[p].cmd /\ op.pc = pc /\ op.current = current
    BY <1>0 DEF McpOps
  <2>3. op \in McpOps
    BY <1>0, <1>3 DEF McpOps
  <2> HIDE DEF op
  <2>4. TakesBack(op) => TakesBack(mrOps[p])
    BY <1>3, <2>2 DEF TakesBack
  <2>5. op.pc \in {"ask", "store"} /\ op.current => References(op.server) \cap mrFields = {}
    BY <1>3, <2>2 DEF RgInv, RgOp
  <2> QED BY <1>0, <1>1, <1>3, <2>1, <2>2, <2>3, <2>4, <2>5, RgOpMoves
<1>4. ASSUME NEW pc, McpGoto(p, pc)
      PROVE  /\ mrOps' = [mrOps EXCEPT ![p] = [mrOps[p] EXCEPT !.pc = pc, !.current = mrOps[p].current]]
             /\ mrOps[p].current \in BOOLEAN
  <2>1. [mrOps[p] EXCEPT !.pc = pc] = [mrOps[p] EXCEPT !.pc = pc, !.current = mrOps[p].current]
    BY <1>0 DEF McpOps
  <2> QED BY <1>0, <1>4, <2>1 DEF McpGoto, McpOps
<1>5. CASE AdoptConfirmed(p)
  BY <1>3, <1>4, <1>5 DEF AdoptConfirmed, AfterConfirm, McpAt
<1>6. CASE AdoptUnstoreReads(p)
  <2>1. mrOps' = [mrOps EXCEPT ![p] = [mrOps[p] EXCEPT !.pc = "takeout", !.current = TRUE]]
    BY <1>0, <1>6 DEF AdoptUnstoreReads
  <2> QED BY <1>3, <1>6, <2>1 DEF AdoptUnstoreReads, McpAt
<1>7. CASE AdoptRegisters(p) /\ McpGoto(p, "unstore") /\ UNCHANGED <<mrServer, mrAdopted>>
  BY <1>3, <1>4, <1>7 DEF AdoptRegisters, McpAt
<1>8. CASE AdoptRegisters(p) /\ mrServer = NoServer /\ WriteServer(mrOps[p].server, TRUE) /\ McpGoto(p, AfterRegister)
  <2> DEFINE op == [mrOps[p] EXCEPT !.pc = "check", !.current = mrOps[p].current]
  <2>1. mrOps' = [mrOps EXCEPT ![p] = op]
    BY <1>4, <1>8 DEF AfterRegister, AfterConfirm
  <2>2. op.server = mrOps[p].server /\ op.cmd = mrOps[p].cmd /\ op.pc = "check" /\ op \in McpOps
    BY <1>0 DEF McpOps
  <2> HIDE DEF op
  <2>3. mrOps' \in [McpProcs -> McpOps] /\ mrOps'[p] = op /\ \A q \in McpProcs : q # p => mrOps'[q] = mrOps[q]
    BY <1>0, <2>1, <2>2
  <2>a. TakesBack(mrOps[p]) /\ mrOps[p].server \in ValidServers
    BY <1>1, <1>8 DEF AdoptRegisters, McpAt, TakesBack
  <2>4. mrServer' = mrOps[p].server /\ mrAdopted' = TRUE /\ UNCHANGED <<mrFields, mrChanged, mrClients>>
        /\ Provided(mrServer)'
    BY <1>8, <2>a DEF AdoptRegisters, WriteServer, McpAt, RgInv, RgOp, Provided
  <2>5. RegistryTypeOK' /\ mrServer' # NoServer
    BY <2>a, <2>3, <2>4, McpRegistryAssumption DEF RgInv, RegistryTypeOK, ValidServers
  <2>b. ~TakesBack(mrOps'[p])
    BY <2>2, <2>3 DEF TakesBack
  <2>6. ASSUME NEW q \in McpProcs PROVE RgOp(q)'
    <3>1. CASE q = p
      BY <2>a, <2>b, <2>2, <2>3, <3>1 DEF RgOp
    <3>2. CASE q # p
      <4>1. mrOps'[q] = mrOps[q] /\ RgOp(q) /\ RgApart(p, q)
        BY <2>3, <3>2 DEF RgInv
      <4> QED BY <2>a, <2>4, <3>2, <4>1 DEF RgOp, RgApart, Provided, Apart, TakesBack
    <3> QED BY <3>1, <3>2
  <2>7. RgKeeps
    BY <2>4 DEF RgKeeps
  <2>8. \A q, o \in McpProcs : RgApart(q, o)'
    BY <2>b, <2>3, <2>4 DEF RgInv, RgApart, Apart
  <2> QED BY <2>a, <2>4, <2>5, <2>6, <2>7, <2>8 DEF RgInv
<1> QED BY <1>2, <1>5, <1>6, <1>7, <1>8 DEF AdoptRegisters

LEMMA ReferencesAreFields == ASSUME NEW s \in McpServers PROVE References(s) \subseteq McpFields
BY DEF References, McpFields, McpServers

LEMMA AdoptStoresKeeps == ASSUME RgInv, NEW p \in McpProcs, AdoptStores(p) PROVE RgInv' /\ RgKeeps
<1>0. mrOps \in [McpProcs -> McpOps] /\ mrOps[p] \in McpOps /\ mrClients \in [Clients -> {"none", "literal", "bb"}]
      /\ mrFields \in SUBSET McpFields /\ mrChanged \in SUBSET McpFields
  BY DEF RgInv, RegistryTypeOK
<1>1. mrOps[p].server \in ValidServers /\ mrOps[p].cmd = "adopt" /\ mrOps[p].pc = "store"
      /\ UNCHANGED <<mrServer, mrAdopted, mrClients>>
  BY DEF AdoptStores, McpAt, RgInv, RgOp
<1>2. CASE mrOps[p].current
  <2>1. PICK op, refs, fields, changed, held :
           /\ op = [mrOps[p] EXCEPT !.pc = "register", !.current = FALSE]
           /\ refs = References(mrOps[p].server) /\ held = StillHeld(p)
           /\ fields = mrFields \cup refs /\ changed = mrChanged \ (refs \ held)
    OBVIOUS
  <2>2. mrFields' = fields /\ mrChanged' = changed
        /\ mrOps' = [q \in McpProcs |-> IF q = p THEN op ELSE [mrOps[q] EXCEPT !.current = FALSE]]
    BY <1>2, <2>1 DEF AdoptStores, WriteFields, AfterStore, AfterConfirm
  <2>3. op.server = mrOps[p].server /\ op.cmd = "adopt" /\ op.pc = "register" /\ op.current = FALSE /\ op \in McpOps
    BY <1>0, <1>1, <2>1 DEF McpOps
  <2>4. /\ mrOps' \in [McpProcs -> McpOps] /\ mrOps'[p] = op
        /\ \A q \in McpProcs \ {p} :
               /\ mrOps'[q].cmd = mrOps[q].cmd /\ mrOps'[q].pc = mrOps[q].pc
               /\ mrOps'[q].server = mrOps[q].server
               /\ TakesBack(mrOps'[q]) <=> TakesBack(mrOps[q])
        /\ \A q \in McpProcs : mrOps'[q].current = FALSE
    BY <2>2, <2>3, OutdatedOps
  <2>5. refs \cap mrFields = {} /\ refs \subseteq McpFields
    BY <1>1, <1>2, <2>1, ReferencesAreFields DEF RgInv, RgOp, ValidServers
  <2>6. fields \in SUBSET McpFields /\ changed \in SUBSET McpFields /\ mrFields \ fields = {}
        /\ mrFields \cup mrChanged \subseteq fields \cup changed
    BY <1>0, <2>1, <2>5
  <2>7. ASSUME NEW q \in McpProcs \ {p}, TakesBack(mrOps[q])
        PROVE  References(mrOps[q].server) \subseteq held /\ Provided(mrOps[q].server) /\ RgOp(q)
    <3>1. References(mrOps[q].server) \subseteq held
      BY <2>1, <2>7, Zenon DEF StillHeld
    <3> QED BY <2>7, <3>1 DEF RgInv, RgOp, TakesBack
  <2>8. mrAdopted => References(mrServer) \subseteq held /\ Provided(mrServer)
    <3>1. mrAdopted => References(mrServer) \subseteq held
      BY <2>1, Zenon DEF StillHeld
    <3> QED BY <3>1 DEF RgInv
  <2>9. \A q \in McpProcs : TakesBack(mrOps'[q]) =>
           Provided(mrOps[q].server)' /\ (mrAdopted => Apart(mrServer, mrOps[q].server)')
    <3> SUFFICES ASSUME NEW q \in McpProcs, TakesBack(mrOps'[q])
                 PROVE  Provided(mrOps[q].server)' /\ (mrAdopted => Apart(mrServer, mrOps[q].server)')
      OBVIOUS
    <3>0. mrOps'[q].server = mrOps[q].server
      BY <2>3, <2>4
    <3>1. CASE q = p
      <4>1. mrOps'[q].server = mrOps[p].server /\ refs \subseteq fields
        BY <2>1, <3>0, <3>1
      <4> QED BY <1>1, <2>1, <2>2, <2>5, <2>8, <4>1 DEF Provided, Apart
    <3>2. CASE q # p
      <4>1. TakesBack(mrOps[q]) /\ mrOps[q].cmd = "adopt"
        BY <2>4, <3>2 DEF TakesBack
      <4>2. mrAdopted => Apart(mrServer, mrOps[q].server)
        BY <2>7, <3>2, <4>1 DEF RgOp
      <4> QED BY <1>1, <2>1, <2>2, <2>6, <2>7, <2>8, <3>0, <3>2, <4>1, <4>2 DEF Provided, Apart
    <3> QED BY <3>1, <3>2
  <2>10. \A q, o \in McpProcs : RgApart(q, o)'
    <3> SUFFICES ASSUME NEW q \in McpProcs, NEW o \in McpProcs, q # o, TakesBack(mrOps'[q]), TakesBack(mrOps'[o])
                 PROVE  Apart(mrOps[q].server, mrOps[o].server)'
      BY DEF RgApart
    <3>0. mrOps'[q].server = mrOps[q].server /\ mrOps'[o].server = mrOps[o].server
      BY <2>3, <2>4
    <3>1. CASE q = p
      <4>1. TakesBack(mrOps[o]) /\ o # p
        BY <2>4, <3>1
      <4> QED BY <2>1, <2>2, <2>5, <2>7, <3>0, <3>1, <4>1 DEF Provided, Apart
    <3>2. CASE o = p
      <4>1. TakesBack(mrOps[q]) /\ q # p
        BY <2>4, <3>2
      <4> QED BY <2>1, <2>2, <2>5, <2>7, <3>0, <3>2, <4>1 DEF Provided, Apart
    <3>3. CASE q # p /\ o # p
      <4>1. TakesBack(mrOps[q]) /\ TakesBack(mrOps[o]) /\ Apart(mrOps[q].server, mrOps[o].server)
        BY <2>4, <3>3 DEF RgInv, RgApart
      <4> QED BY <2>1, <2>2, <2>7, <3>0, <3>3, <4>1 DEF Apart
    <3> QED BY <3>1, <3>2, <3>3
  <2>11. mrAdopted => Provided(mrServer)'
    BY <1>1, <2>2, <2>6, <2>8 DEF Provided
  <2>12. \A q \in McpProcs : mrOps'[q].cmd = "adopt" => mrOps'[q].server \in ValidServers
    BY <1>1, <2>3, <2>4 DEF RgInv, RgOp
  <2> QED BY <1>1, <2>2, <2>4, <2>6, <2>9, <2>10, <2>11, <2>12, RgFieldsChange
<1>3. CASE ~mrOps[p].current
  <2>1. mrOps' = [mrOps EXCEPT ![p] = McpIdle] /\ UNCHANGED <<mrFields, mrChanged>>
    BY <1>3 DEF AdoptStores, McpEnd
  <2> QED BY <1>0, <1>1, <2>1, McpIdleIs, RgOpMoves
<1> QED BY <1>2, <1>3

(* An adoption takes its own back: what others need of it bb sec has changed. *)
LEMMA TakenOutKeeps == ASSUME RgInv, NEW p \in McpProcs, AdoptTakesOut(p) PROVE RgInv' /\ RgKeeps
<1>0. mrOps \in [McpProcs -> McpOps] /\ mrOps[p] \in McpOps /\ mrClients \in [Clients -> {"none", "literal", "bb"}]
      /\ mrFields \in SUBSET McpFields /\ mrChanged \in SUBSET McpFields
  BY DEF RgInv, RegistryTypeOK
<1>1. mrOps[p].server \in ValidServers /\ UNCHANGED <<mrServer, mrAdopted, mrChanged, mrClients>>
      /\ TakesBack(mrOps[p]) /\ mrOps[p].pc = "takeout" /\ RgOp(p)
  BY DEF AdoptTakesOut, McpAt, RgInv, RgOp, TakesBack
<1>2. CASE mrOps[p].current
  <2>1. PICK refs, fields, changed :
           refs = References(mrOps[p].server) /\ fields = mrFields \ refs /\ changed = mrChanged
    OBVIOUS
  <2>2. mrFields' = fields /\ mrChanged' = changed
        /\ mrOps' = [q \in McpProcs |-> IF q = p THEN McpIdle ELSE [mrOps[q] EXCEPT !.current = FALSE]]
    BY <1>1, <1>2, <2>1 DEF AdoptTakesOut, WriteFields, TakenOut
  <2>3. McpIdle.current = FALSE
    BY DEF McpIdle
  <2>4. /\ mrOps' \in [McpProcs -> McpOps] /\ mrOps'[p] = McpIdle
        /\ \A q \in McpProcs \ {p} :
               /\ mrOps'[q].cmd = mrOps[q].cmd /\ mrOps'[q].pc = mrOps[q].pc
               /\ mrOps'[q].server = mrOps[q].server
               /\ TakesBack(mrOps'[q]) <=> TakesBack(mrOps[q])
        /\ \A q \in McpProcs : mrOps'[q].current = FALSE
    BY <2>2, <2>3, McpIdleIs, OutdatedOps
  <2>5. fields \in SUBSET McpFields /\ changed \in SUBSET McpFields /\ mrFields \ fields \subseteq refs
    BY <1>0, <2>1
  <2>6. ASSUME NEW q \in McpProcs, TakesBack(mrOps'[q])
        PROVE  q # p /\ TakesBack(mrOps[q]) /\ RgOp(q) /\ RgApart(p, q) /\ mrOps[q].cmd = "adopt"
               /\ mrOps'[q].server = mrOps[q].server
    <3>1. q # p
      BY <2>4, <2>6, McpIdleIs
    <3> QED BY <2>4, <2>6, <3>1 DEF RgInv, TakesBack
  <2>7. \A q \in McpProcs : TakesBack(mrOps'[q]) =>
           Provided(mrOps[q].server)' /\ (mrAdopted => Apart(mrServer, mrOps[q].server)')
    BY <1>1, <2>1, <2>2, <2>6 DEF RgOp, RgApart, Provided, Apart
  <2>8. \A q, o \in McpProcs : RgApart(q, o)'
    <3> SUFFICES ASSUME NEW q \in McpProcs, NEW o \in McpProcs, q # o, TakesBack(mrOps'[q]), TakesBack(mrOps'[o])
                 PROVE  Apart(mrOps[q].server, mrOps[o].server)'
      BY DEF RgApart
    <3> QED BY <1>1, <2>6 DEF RgInv, RgApart, Apart
  <2>9. mrAdopted => Provided(mrServer)'
    <3>1. mrAdopted => Apart(mrServer, mrOps[p].server) /\ Provided(mrServer)
      BY <1>1 DEF RgInv, RgOp, TakesBack
    <3> QED BY <1>1, <2>1, <2>2, <3>1 DEF Provided, Apart
  <2>10. \A q \in McpProcs : mrOps'[q].cmd = "adopt" => mrOps'[q].server \in ValidServers
    BY <2>4, McpIdleIs DEF RgInv, RgOp
  <2>11. \A q \in McpProcs : mrOps[q].pc = "takeout" /\ mrOps'[q] = McpIdle =>
            mrFields \ fields \subseteq References(mrOps[q].server)
    BY <2>1, <2>4, <2>5, McpIdleIs
  <2> QED BY <1>1, <2>2, <2>4, <2>5, <2>7, <2>8, <2>9, <2>10, <2>11, RgFieldsChange
<1>3. CASE ~mrOps[p].current
  <2>1. mrOps' = [mrOps EXCEPT ![p] = McpIdle] /\ UNCHANGED <<mrFields, mrChanged>>
    BY <1>1, <1>3 DEF AdoptTakesOut, McpEnd
  <2> QED BY <1>0, <1>1, <2>1, McpIdleIs, RgOpMoves
<1> QED BY <1>2, <1>3

(* bb sec changes a field, which is noted. *)
LEMMA SecretChangesKeeps ==
  ASSUME RgInv, NEW f \in McpFields, NEW fields, fields = mrFields \cup {f} \/ fields = mrFields \ {f},
         SecretChanges(f, fields)
  PROVE  RgInv' /\ RgKeeps
<1>0. mrOps \in [McpProcs -> McpOps] /\ mrFields \in SUBSET McpFields /\ mrChanged \in SUBSET McpFields
  BY DEF RgInv, RegistryTypeOK
<1>1. PICK changed : changed = mrChanged \cup {f}
  OBVIOUS
<1>2. /\ mrFields' = fields /\ mrChanged' = changed
      /\ mrOps' = [q \in McpProcs |-> [mrOps[q] EXCEPT !.current = FALSE]]
      /\ UNCHANGED <<mrServer, mrAdopted, mrClients>>
  BY <1>1 DEF SecretChanges
<1>3. ASSUME NEW q \in McpProcs, NEW o, o = [mrOps[q] EXCEPT !.current = FALSE]
      PROVE  /\ o \in McpOps /\ o.cmd = mrOps[q].cmd /\ o.pc = mrOps[q].pc /\ o.server = mrOps[q].server
             /\ o.current = FALSE
  BY <1>0, <1>3 DEF McpOps
<1>4. mrOps' \in [McpProcs -> McpOps]
  BY <1>2, <1>3
<1>5. ASSUME NEW q \in McpProcs
      PROVE  /\ mrOps'[q].cmd = mrOps[q].cmd /\ mrOps'[q].pc = mrOps[q].pc
             /\ mrOps'[q].server = mrOps[q].server /\ mrOps'[q].current = FALSE
             /\ TakesBack(mrOps'[q]) <=> TakesBack(mrOps[q])
  <2>1. PICK o : o = [mrOps[q] EXCEPT !.current = FALSE]
    OBVIOUS
  <2> QED BY <1>2, <1>3, <2>1 DEF TakesBack
<1>6. fields \in SUBSET McpFields /\ changed \in SUBSET McpFields
      /\ mrFields \cup mrChanged \subseteq fields \cup changed /\ mrChanged \subseteq changed
  BY <1>0, <1>1
<1>7. \A q \in McpProcs : TakesBack(mrOps'[q]) =>
         Provided(mrOps[q].server)' /\ (mrAdopted => Apart(mrServer, mrOps[q].server)')
  <2> SUFFICES ASSUME NEW q \in McpProcs, TakesBack(mrOps'[q])
               PROVE  Provided(mrOps[q].server)' /\ (mrAdopted => Apart(mrServer, mrOps[q].server)')
    OBVIOUS
  <2>1. RgOp(q) /\ TakesBack(mrOps[q]) /\ mrOps[q].cmd = "adopt" /\ mrOps'[q].server = mrOps[q].server
    BY <1>5 DEF RgInv, TakesBack
  <2> QED BY <1>2, <1>6, <2>1 DEF RgOp, Provided, Apart
<1>8. \A q, o \in McpProcs : RgApart(q, o)'
  <2> SUFFICES ASSUME NEW q \in McpProcs, NEW o \in McpProcs, q # o, TakesBack(mrOps'[q]), TakesBack(mrOps'[o])
               PROVE  Apart(mrOps[q].server, mrOps[o].server)'
    BY DEF RgApart
  <2>1. Apart(mrOps[q].server, mrOps[o].server)
    BY <1>5 DEF RgInv, RgApart
  <2> QED BY <1>2, <1>5, <1>6, <2>1 DEF Apart
<1>9. mrAdopted => Provided(mrServer)'
  BY <1>2, <1>6 DEF RgInv, Provided
<1>10. \A q \in McpProcs : mrOps'[q].cmd = "adopt" => mrOps'[q].server \in ValidServers
  BY <1>5 DEF RgInv, RgOp
<1>11. \A q \in McpProcs : mrOps[q].pc = "takeout" /\ mrOps'[q] = McpIdle =>
          mrFields \ fields \subseteq References(mrOps[q].server)
  BY <1>5, McpIdleIs
<1> QED BY <1>2, <1>4, <1>5, <1>6, <1>7, <1>8, <1>9, <1>10, <1>11, RgFieldsChange

LEMMA RegistryStopsKeeps == ASSUME RgInv, NEW p \in McpProcs, RegistryStops(p) PROVE RgInv' /\ RgKeeps
<1>1. mrOps' = [mrOps EXCEPT ![p] = McpIdle] /\ UNCHANGED <<mrServer, mrAdopted, mrFields, mrChanged, mrClients>>
  BY DEF RegistryStops, McpEnd
<1> QED BY <1>1, McpIdleIs, RgOpMoves DEF RgInv, RegistryTypeOK

LEMMA RegistryInitKeeps == RegistryInit => RgInv
BY McpIdleIs DEF RegistryInit, RgInv, RegistryTypeOK, RgOp, RgApart

LEMMA RegistryNextKeeps == ASSUME RgInv, [RegistryNext]_registryVars PROVE RgInv' /\ RgKeeps
<1>1. CASE UNCHANGED registryVars
  <2>1. RgInv'
    BY <1>1 DEF registryVars, RgInv, RegistryTypeOK, RgOp, RgApart, Provided, Apart
  <2> QED BY <1>1, <2>1 DEF registryVars, RgKeeps
<1>2. ASSUME NEW s \in McpSpecs, AddServer(s) \/ PromptEdit(s) PROVE RgInv' /\ RgKeeps
  <2>1. "transport" \in Options
    BY DEF Options
  <2> QED BY <1>2, <2>1, RegistryWritesKeep
<1>3. CASE RemoveServer
  BY <1>3, WriteServerKeeps DEF RemoveServer
<1>4. ASSUME NEW f \in McpFields, SecretChanges(f, mrFields \cup {f}) \/ SecretChanges(f, mrFields \ {f})
      PROVE  RgInv' /\ RgKeeps
  <2>1. PICK more, less : more = mrFields \cup {f} /\ less = mrFields \ {f}
    OBVIOUS
  <2> QED BY <1>4, <2>1, SecretChangesKeeps
<1> QED BY <1>1, <1>2, <1>3, <1>4, RegistryWritesKeep, SyncKeeps, AdoptKeeps, AdoptStoresKeeps, TakenOutKeeps,
           RegistryStopsKeeps DEF RegistryNext

LEMMA RegistrySound == RgInv => TransportEditAccepted /\ AdoptedReferencesResolve
<1> SUFFICES ASSUME RgInv PROVE TransportEditAccepted /\ AdoptedReferencesResolve
  OBVIOUS
<1>1. ASSUME mrServer # NoServer, NEW t \in {"stdio", "http"}
      PROVE  ValidServer(Edited(mrServer, {"transport"}, [mrServer EXCEPT !.transport = t]))
  BY <1>1, EditIsValid DEF RgInv
<1> QED BY <1>1 DEF RgInv, Provided, TransportEditAccepted, AdoptedReferencesResolve

-----------------------------------------------------------------------------
(* The browser's list *)

BlInv == ListTypeOK /\ UnfilteredOpenSucceeds

BlKeeps ==
  blRows' = blRows /\ (blMatches' = blMatches \/ blFilter' # blFilter) /\ SelectedIsShown => SelectedIsShown'

LEMMA ListInitKeeps == ListInit => BlInv
<1> SUFFICES ASSUME ListInit PROVE BlInv
  OBVIOUS
<1>1. blFilter \in [active : BOOLEAN, value : BOOLEAN] /\ 0 \in 0..MaxListRows /\ 0 \in 0..0
  BY ListAssumption DEF ListInit
<1> QED BY <1>1 DEF ListInit, BlInv, ListTypeOK, UnfilteredOpenSucceeds

LEMMA ListNextKeeps == ASSUME BlInv, [ListNext]_listVars PROVE BlInv' /\ BlKeeps
<1>0. /\ MaxListRows \in Nat /\ blRows \in 0..MaxListRows /\ blMatches \in 0..blRows
      /\ blSelected \in 0..MaxListRows
  BY ListAssumption DEF BlInv, ListTypeOK
<1>1. CASE UNCHANGED listVars
  BY <1>1 DEF listVars, BlInv, ListTypeOK, UnfilteredOpenSucceeds, BlKeeps, SelectedIsShown
<1>2. ASSUME NEW delta \in {-MaxListRows, -1, 1, MaxListRows}, Move(delta) PROVE BlInv' /\ BlKeeps
  <2>1. delta \in Int
    BY <1>0
  <2>2. blSelected' \in 0..LastOf(blMatches)
    BY <1>0, <1>2, <2>1 DEF Move, Clamp, LastOf
  <2> QED BY <1>0, <1>2, <2>2 DEF Move, LastOf, BlInv, ListTypeOK, UnfilteredOpenSucceeds, BlKeeps, SelectedIsShown
<1>3. ASSUME NEW end \in BOOLEAN, MoveTo(end) PROVE BlInv' /\ BlKeeps
  BY <1>0, <1>3 DEF MoveTo, LastOf, BlInv, ListTypeOK, UnfilteredOpenSucceeds, BlKeeps, SelectedIsShown
<1>4. ASSUME NEW filter \in [active : BOOLEAN, value : BOOLEAN], NEW matches \in 0..MaxListRows,
             FilterChanges(filter, matches)
      PROVE  BlInv' /\ BlKeeps
  <2>1. ListTypeOK'
    BY <1>0, <1>4 DEF FilterChanges, BlInv, ListTypeOK
  <2>2. blFilter.value \/ filter.value => blSelected' = 0
    BY <1>4 DEF FilterChanges
  <2>3. ~blFilter.value /\ ~filter.value => blSelected' = blSelected /\ blMatches' = blRows /\ blMatches = blRows
    BY <1>4 DEF FilterChanges, BlInv, ListTypeOK
  <2> QED BY <1>0, <1>4, <2>1, <2>2, <2>3
          DEF FilterChanges, BlInv, UnfilteredOpenSucceeds, BlKeeps, SelectedIsShown
<1>5. CASE RefreshStarts \/ RefreshEnds
  BY <1>0, <1>5 DEF RefreshStarts, RefreshEnds, BlInv, ListTypeOK, UnfilteredOpenSucceeds, BlKeeps, SelectedIsShown
<1>6. ASSUME NEW rows \in 0..MaxListRows, NEW matches \in 0..MaxListRows, RowsArrive(rows, matches)
      PROVE  BlInv' /\ BlKeeps
  <2>1. blSelected' \in 0..LastOf(rows) /\ (blSelected < rows => blSelected' = blSelected)
    BY <1>0, <1>6 DEF RowsArrive, Corrected, LastOf
  <2>2. ListTypeOK'
    <3>1. blSelected' \in 0..MaxListRows
      BY <1>0, <1>6, <2>1 DEF LastOf
    <3>2. /\ blRows' = rows /\ blMatches' = matches /\ matches \in 0..rows /\ UNCHANGED <<blFilter, blCrashed>>
          /\ (~blFilter.value => matches = rows) /\ blRefreshing' = FALSE
      BY <1>6 DEF RowsArrive
    <3> QED BY <1>6, <3>1, <3>2, Zenon DEF BlInv, ListTypeOK
  <2>3. UnfilteredOpenSucceeds'
    BY <1>0, <1>6, <2>1 DEF RowsArrive, UnfilteredOpenSucceeds, LastOf
  <2>4. BlKeeps
    BY <1>0, <1>6, <2>1 DEF RowsArrive, BlKeeps, SelectedIsShown, LastOf
  <2> QED BY <2>2, <2>3, <2>4 DEF BlInv
<1>7. CASE OpenSelected
  <2>1. (blSelected >= blMatches) \in BOOLEAN
    OBVIOUS
  <2> QED BY <1>0, <1>7, <2>1 DEF OpenSelected, BlInv, ListTypeOK, UnfilteredOpenSucceeds, BlKeeps, SelectedIsShown
<1> QED BY <1>1, <1>2, <1>3, <1>4, <1>5, <1>6, <1>7 DEF ListNext

-----------------------------------------------------------------------------
(* The selector *)

WkLevels ==
  [at : DOMAIN WalkStages, query : BOOLEAN, matches : UNION {[1..n -> Nat] : n \in Nat},
   cursor : Nat, offset : Nat]

WkLevelOK(l) ==
  l \in WkLevels /\ l.matches \in Rankings(l.at) /\ (~l.query => l.matches = InOrder(l.at))

WkInSight(l, size) ==
  l.matches # <<>> =>
     l.cursor < Len(l.matches) /\ l.offset <= l.cursor /\ l.cursor < l.offset + PageOf(l, size)

(* The levels entered are those along the path, each with a value of the one before. *)
WkTrail(stack, path) ==
  /\ Len(stack) = Len(path) + 1
  /\ \A i \in 1..Len(stack) : stack[i].at = SubSeq(path, 1, i - 1)
  /\ \A i \in 1..Len(path) : ~WalkStages[stack[i].at].readOnly /\ path[i] \in ValuesAt(stack[i].at)

WkInv ==
  /\ svLine \in BOOLEAN /\ svSize \in Sizes
  /\ svStack \in Seq(WkLevels) /\ Len(svStack) > 0 /\ svPath \in Seq(Nat)
  /\ \A i \in 1..Len(svStack) : WkLevelOK(svStack[i]) /\ WkInSight(svStack[i], svSize)
  /\ svOutcome.end \in {"none", "chosen", "cancelled", "interrupted", "failed"}
  /\ svOutcome.end # "chosen" => WkTrail(svStack, svPath)
  /\ OutcomeIsAPath

WkKept(s, t) ==
  \A i \in DOMAIN s \cap DOMAIN t :
     i < Len(s) \/ Len(t) > Len(s) =>
        t[i].query = s[i].query /\ t[i].matches = s[i].matches /\ t[i].cursor = s[i].cursor

LEMMA StageIs ==
  ASSUME NEW path \in DOMAIN WalkStages
  PROVE  /\ path \in Seq(Nat) /\ WalkStages[path].count \in Nat
         /\ WalkStages[path].readOnly \in BOOLEAN /\ WalkStages[path].described \in BOOLEAN
BY WalkAssumption

LEMMA RankingIs ==
  ASSUME NEW path \in DOMAIN WalkStages, NEW m \in Rankings(path)
  PROVE  m \in UNION {[1..n -> Nat] : n \in Nat} /\ \E n \in Nat : m \in [1..n -> ValuesAt(path)]
<1>1. PICK n \in 0..WalkStages[path].count : m \in [1..n -> ValuesAt(path)]
  BY DEF Rankings, SeqOf
<1>2. n \in Nat /\ ValuesAt(path) \subseteq Nat
  BY <1>1, StageIs DEF ValuesAt
<1>3. m \in [1..n -> Nat]
  BY <1>1, <1>2
<1> QED BY <1>1, <1>2, <1>3

LEMMA InOrderIs == ASSUME NEW path \in DOMAIN WalkStages PROVE InOrder(path) \in Rankings(path)
<1>1. WalkStages[path].count \in Nat /\ WalkStages[path].count \in 0..WalkStages[path].count
  BY StageIs
<1>2. InOrder(path) \in [1..WalkStages[path].count -> ValuesAt(path)]
  BY DEF InOrder, ValuesAt
<1>3. IsInjective(InOrder(path))
  BY DEF InOrder, IsInjective
<1> QED BY <1>1, <1>2, <1>3 DEF Rankings, SeqOf

LEMMA PageIs == ASSUME NEW l, l.at \in DOMAIN WalkStages, NEW size \in Sizes PROVE PageOf(l, size) \in Nat \ {0}
<1>1. size.rows \in Nat \ {0} /\ size.wide \in BOOLEAN /\ WalkStages[l.at].described \in BOOLEAN
  BY WalkAssumption, StageIs DEF Sizes
<1> QED BY <1>1 DEF PageOf

LEMMA MatchesAreSeq ==
  ASSUME NEW l, WkLevelOK(l)
  PROVE  /\ l.at \in DOMAIN WalkStages /\ l.cursor \in Nat /\ l.offset \in Nat
         /\ Len(l.matches) \in Nat /\ DOMAIN l.matches = 1..Len(l.matches)
         /\ \A i \in 1..Len(l.matches) : l.matches[i] \in ValuesAt(l.at)
         /\ l.matches # <<>> => Len(l.matches) > 0
<1>1. l \in WkLevels /\ l.matches \in Rankings(l.at)
  BY DEF WkLevelOK
<1>2. l.at \in DOMAIN WalkStages /\ l.cursor \in Nat /\ l.offset \in Nat
  BY <1>1 DEF WkLevels
<1>3. PICK n \in Nat : l.matches \in [1..n -> ValuesAt(l.at)]
  BY <1>1, <1>2, RankingIs
<1>4. l.matches \in Seq(ValuesAt(l.at)) /\ Len(l.matches) = n
  BY <1>3
<1> QED BY <1>2, <1>3, <1>4

LEMMA EnsureVisibleIs ==
  ASSUME NEW l, WkLevelOK(l), NEW size \in Sizes, l.matches # <<>> => l.cursor < Len(l.matches),
         NEW e, e = EnsureVisible(l, size)
  PROVE  /\ WkLevelOK(e) /\ WkInSight(e, size)
         /\ e.at = l.at /\ e.query = l.query /\ e.matches = l.matches /\ e.cursor = l.cursor
<1> DEFINE page == PageOf(l, size)
           up   == AtMost(l.offset, l.cursor)
           down == IF l.cursor >= up + page THEN l.cursor - page + 1 ELSE up
           o    == AtMost(down, AtLeast(0, Len(l.matches) - page))
<1>1. e = [l EXCEPT !.offset = o]
  BY DEF EnsureVisible
<1>2. page \in Nat \ {0} /\ l.cursor \in Nat /\ l.offset \in Nat /\ Len(l.matches) \in Nat
  BY MatchesAreSeq, PageIs
<1>3. o \in Nat /\ (l.matches # <<>> => o <= l.cursor /\ l.cursor < o + page)
  <2> HIDE DEF page
  <2>1. up \in Nat /\ up <= l.cursor
    BY <1>2 DEF AtMost
  <2> HIDE DEF up
  <2>2. down \in Nat /\ down <= l.cursor /\ l.cursor < down + page
    BY <1>2, <2>1
  <2> HIDE DEF down
  <2> QED BY <1>2, <2>2 DEF AtMost, AtLeast
<1> HIDE DEF o, page
<1>4. l \in WkLevels
  BY DEF WkLevelOK
<1>5. e.at = l.at /\ e.query = l.query /\ e.matches = l.matches /\ e.cursor = l.cursor /\ e.offset = o
  BY <1>1, <1>4 DEF WkLevels
<1>6. e \in WkLevels
  BY <1>1, <1>3, <1>4 DEF WkLevels
<1>7. PageOf(e, size) = page
  BY <1>5, Zenon DEF PageOf, page
<1> QED BY <1>3, <1>5, <1>6, <1>7 DEF WkLevelOK, WkInSight

LEMMA NewLevelIs ==
  ASSUME NEW path \in DOMAIN WalkStages, NEW l, l = NewLevel(path)
  PROVE  /\ WkLevelOK(l) /\ l.at = path /\ l.query = FALSE /\ l.matches = InOrder(path) /\ l.cursor = 0 /\ l.offset = 0
         /\ l.matches # <<>> => l.cursor < Len(l.matches)
<1>1. l.at = path /\ l.query = FALSE /\ l.matches = InOrder(path) /\ l.cursor = 0 /\ l.offset = 0
  BY DEF NewLevel
<1>2. InOrder(path) \in Rankings(path) /\ InOrder(path) \in UNION {[1..n -> Nat] : n \in Nat}
  BY InOrderIs, RankingIs
<1>3. l \in WkLevels
  <2> HIDE DEF InOrder
  <2>1. 0 \in Nat /\ FALSE \in BOOLEAN
    OBVIOUS
  <2> QED BY <1>2, <2>1, Zenon DEF NewLevel, WkLevels
<1>4. WkLevelOK(l)
  BY <1>1, <1>2, <1>3 DEF WkLevelOK
<1> QED BY <1>1, <1>4, MatchesAreSeq

LEMMA LevelsAgree ==
  ASSUME NEW l, WkLevelOK(l), NEW cursor \in Nat, NEW e, e = [l EXCEPT !.cursor = cursor]
  PROVE  /\ WkLevelOK(e) /\ e.at = l.at /\ e.query = l.query /\ e.matches = l.matches /\ e.cursor = cursor
<1>1. l \in WkLevels
  BY DEF WkLevelOK
<1>2. e.at = l.at /\ e.query = l.query /\ e.matches = l.matches /\ e.cursor = cursor
  BY <1>1 DEF WkLevels
<1>3. e \in WkLevels
  BY <1>1 DEF WkLevels
<1> QED BY <1>2, <1>3 DEF WkLevelOK

LEMMA SearchedIs ==
  ASSUME NEW l, WkLevelOK(l), NEW query \in BOOLEAN, NEW matches \in Rankings(l.at),
         ~query => matches = InOrder(l.at), NEW size \in Sizes,
         NEW e, e = Searched(l, query, matches)
  PROVE  WkLevelOK(e) /\ WkInSight(e, size) /\ e.at = l.at
<1>1. l \in WkLevels /\ l.at \in DOMAIN WalkStages
  BY MatchesAreSeq DEF WkLevelOK
<1>2. matches \in UNION {[1..n -> Nat] : n \in Nat}
  BY <1>1, RankingIs
<1>3. e = [l EXCEPT !.query = query, !.matches = matches, !.cursor = 0, !.offset = 0]
  BY DEF Searched
<1>4. e.at = l.at /\ e.query = query /\ e.matches = matches /\ e.cursor = 0 /\ e.offset = 0
  BY <1>1, <1>3 DEF WkLevels
<1>5. e \in WkLevels
  <2> DEFINE M == UNION {[1..n -> Nat] : n \in Nat}
  <2>1. WkLevels = [at : DOMAIN WalkStages, query : BOOLEAN, matches : M, cursor : Nat, offset : Nat] /\ matches \in M
    BY <1>2 DEF WkLevels
  <2> HIDE DEF M
  <2>2. e = [at |-> l.at, query |-> query, matches |-> matches, cursor |-> 0, offset |-> 0]
    BY <1>1, <1>3, <2>1
  <2> QED BY <1>1, <2>1, <2>2
<1>6. WkLevelOK(e)
  BY <1>4, <1>5 DEF WkLevelOK
<1>7. PageOf(e, size) \in Nat \ {0}
  BY <1>1, <1>4, PageIs
<1> QED BY <1>4, <1>6, <1>7, MatchesAreSeq DEF WkInSight

LEMMA TrailStays ==
  ASSUME NEW path \in Seq(Nat), NEW stack, NEW other, WkTrail(stack, path), Len(other) = Len(stack),
         \A i \in 1..Len(stack) : other[i].at = stack[i].at
  PROVE  WkTrail(other, path)
<1>1. Len(path) \in Nat /\ Len(stack) = Len(path) + 1
  BY DEF WkTrail
<1>2. \A i \in 1..Len(path) : i \in 1..Len(stack)
  BY <1>1
<1>3. \A i \in 1..Len(path) : ~WalkStages[other[i].at].readOnly /\ path[i] \in ValuesAt(other[i].at)
  BY <1>2 DEF WkTrail
<1> QED BY <1>1, <1>3 DEF WkTrail

(* The level shown is replaced by one of the same choices. *)
LEMMA TopKeeps ==
  ASSUME WkInv, Screen, NEW e, WkLevelOK(e), WkInSight(e, svSize), e.at = Top.at, TopBecomes(e)
  PROVE  WkInv' /\ WkKept(svStack, svStack')
<1> DEFINE n == Len(svStack)
<1>1. n \in Nat \ {0} /\ svStack \in Seq(WkLevels) /\ e \in WkLevels /\ DOMAIN svStack = 1..n
  BY DEF WkInv, WkLevelOK
<1>2. svStack' = [svStack EXCEPT ![n] = e] /\ UNCHANGED <<svLine, svSize, svPath, svOutcome>>
  BY DEF TopBecomes
<1>3. svStack' \in Seq(WkLevels) /\ Len(svStack') = n
  BY <1>1, <1>2
<1>4. \A i \in 1..n : IF i = n THEN svStack'[i] = e ELSE svStack'[i] = svStack[i]
  BY <1>1, <1>2
<1>5. e.at = svStack[n].at
  BY DEF Top
<1>6. \A i \in 1..n : WkLevelOK(svStack'[i]) /\ WkInSight(svStack'[i], svSize) /\ svStack'[i].at = svStack[i].at
  BY <1>4, <1>5 DEF WkInv
<1>7. WkTrail(svStack, svPath) => WkTrail(svStack', svPath)
  BY <1>3, <1>6, TrailStays DEF WkInv
<1>8. WkInv'
  <2>1. \A i \in 1..Len(svStack') : WkLevelOK(svStack'[i]) /\ WkInSight(svStack'[i], svSize')
    BY <1>2, <1>3, <1>6
  <2>2. OutcomeIsAPath'
    BY <1>2 DEF WkInv, OutcomeIsAPath
  <2> QED BY <1>1, <1>2, <1>3, <1>7, <2>1, <2>2 DEF WkInv
<1>9. WkKept(svStack, svStack')
  <2>1. DOMAIN svStack = 1..n /\ DOMAIN svStack' = 1..n
    BY <1>1, <1>3
  <2>0. PICK m \in Nat : m = n
    BY <1>1
  <2>2. ASSUME NEW i \in 1..m, i < m \/ m > m PROVE i # m
    BY <2>2
  <2>3. ASSUME NEW i \in 1..m, i < m \/ m > m PROVE svStack'[i] = svStack[i]
    BY <1>4, <2>0, <2>2, <2>3
  <2> QED BY <1>3, <2>0, <2>1, <2>3 DEF WkKept
<1> QED BY <1>8, <1>9

LEMMA TopIs ==
  ASSUME WkInv
  PROVE  WkLevelOK(Top) /\ WkInSight(Top, svSize) /\ svSize \in Sizes /\ Top \in WkLevels
BY DEF WkInv, Top, WkLevelOK

LEMMA WkMoves ==
  ASSUME WkInv,
         \/ \E delta \in Int : WalkKey(delta)
         \/ WalkHome \/ WalkLast
  PROVE  WkInv' /\ WkKept(svStack, svStack')
<1>1. WkLevelOK(Top) /\ WkInSight(Top, svSize) /\ svSize \in Sizes
  BY TopIs
<1>2. /\ Top.cursor \in Nat /\ Len(Top.matches) \in Nat /\ (Top.matches # <<>> => Len(Top.matches) > 0)
      /\ (Top.matches # <<>> => Top.cursor < Len(Top.matches))
  BY <1>1, MatchesAreSeq DEF WkInSight
<1>3. ASSUME NEW cursor \in Nat, Top.matches # <<>> => cursor < Len(Top.matches), Screen,
             TopBecomes(EnsureVisible([Top EXCEPT !.cursor = cursor], svSize))
      PROVE  WkInv' /\ WkKept(svStack, svStack')
  <2>1. PICK l : l = [Top EXCEPT !.cursor = cursor]
    OBVIOUS
  <2>2. WkLevelOK(l) /\ l.at = Top.at /\ l.matches = Top.matches /\ l.cursor = cursor
    BY <1>1, <2>1, LevelsAgree
  <2>3. PICK e : e = EnsureVisible(l, svSize)
    OBVIOUS
  <2>4. WkLevelOK(e) /\ WkInSight(e, svSize) /\ e.at = Top.at
    BY <1>1, <1>3, <2>2, <2>3, EnsureVisibleIs
  <2>5. TopBecomes(e)
    BY <1>3, <2>1, <2>3
  <2> QED BY <1>3, <2>4, <2>5, TopKeeps
<1>4. ASSUME NEW delta \in Int, WalkKey(delta) PROVE WkInv' /\ WkKept(svStack, svStack')
  <2>1. Screen /\ TopBecomes(Moved(Top, delta, svSize))
    BY <1>4 DEF WalkKey
  <2>2. CASE Top.matches = <<>>
    <3>1. TopBecomes(Top)
      BY <2>1, <2>2 DEF Moved
    <3> QED BY <1>1, <2>1, <3>1, TopKeeps
  <2>3. CASE Top.matches # <<>>
    <3> DEFINE cursor == AtMost(AtLeast(0, Top.cursor + delta), Len(Top.matches) - 1)
    <3>1. cursor \in Nat /\ cursor < Len(Top.matches)
      <4>1. PICK a, n : a = Top.cursor + delta /\ n = Len(Top.matches)
        OBVIOUS
      <4>2. a \in Int /\ n \in Nat /\ n > 0
        BY <1>2, <2>3, <4>1
      <4> QED BY <4>1, <4>2 DEF AtMost, AtLeast
    <3>2. TopBecomes(EnsureVisible([Top EXCEPT !.cursor = cursor], svSize))
      BY <2>1, <2>3 DEF Moved
    <3> HIDE DEF cursor
    <3> QED BY <1>3, <2>1, <3>1, <3>2
  <2> QED BY <2>2, <2>3
<1>5. CASE WalkHome
  BY <1>2, <1>3, <1>5 DEF WalkHome
<1>6. CASE WalkLast
  <2>1. Screen /\ Top.matches # <<>> /\ TopBecomes(EnsureVisible([Top EXCEPT !.cursor = Len(Top.matches) - 1], svSize))
    BY <1>6 DEF WalkLast
  <2>2. PICK cursor : cursor = Len(Top.matches) - 1
    OBVIOUS
  <2>3. cursor \in Nat /\ cursor < Len(Top.matches)
    BY <1>2, <2>1, <2>2
  <2> QED BY <1>3, <2>1, <2>2, <2>3
<1> QED BY <1>4, <1>5, <1>6

LEMMA WkPages == ASSUME WkInv, NEW up \in BOOLEAN, WalkPage(up) PROVE \E delta \in Int : WalkKey(delta)
<1>1. PageOf(Top, svSize) \in Nat
  BY TopIs, MatchesAreSeq, PageIs
<1>2. PICK page : page = PageOf(Top, svSize)
  OBVIOUS
<1>3. WalkKey(-page) \/ WalkKey(page)
  BY <1>2, Zenon DEF WalkPage
<1>4. page \in Int /\ -page \in Int
  BY <1>1, <1>2
<1> QED BY <1>3, <1>4, Zenon

LEMMA WkTypes ==
  ASSUME WkInv, NEW query \in BOOLEAN, NEW matches \in Rankings(Top.at), WalkType(query, matches)
  PROVE  WkInv' /\ WkKept(svStack, svStack')
<1>1. PICK e : e = Searched(Top, query, matches)
  OBVIOUS
<1>2. Screen /\ (~query => matches = InOrder(Top.at)) /\ TopBecomes(e)
  BY <1>1 DEF WalkType
<1>3. WkLevelOK(e) /\ WkInSight(e, svSize) /\ e.at = Top.at
  BY <1>1, <1>2, TopIs, SearchedIs
<1> QED BY <1>2, <1>3, TopKeeps

LEMMA WkClears ==
  ASSUME WkInv, Screen, TopBecomes(Searched(Top, FALSE, InOrder(Top.at)))
  PROVE  WkInv' /\ WkKept(svStack, svStack')
<1>1. PICK e : e = Searched(Top, FALSE, InOrder(Top.at))
  OBVIOUS
<1>2. Top.at \in DOMAIN WalkStages /\ InOrder(Top.at) \in Rankings(Top.at)
  BY TopIs, MatchesAreSeq, InOrderIs
<1>3. WkLevelOK(e) /\ WkInSight(e, svSize) /\ e.at = Top.at
  BY <1>1, <1>2, TopIs, SearchedIs
<1> QED BY <1>1, <1>3, TopKeeps

LEMMA WkResizes ==
  ASSUME WkInv, NEW size \in Sizes, WalkResize(size)
  PROVE  WkInv' /\ WkKept(svStack, svStack')
<1> DEFINE n == Len(svStack)
<1>1. n \in Nat \ {0} /\ svStack \in Seq(WkLevels) /\ DOMAIN svStack = 1..n
  BY DEF WkInv
<1>2. svStack' = [i \in 1..n |-> EnsureVisible(svStack[i], size)] /\ svSize' = size
      /\ UNCHANGED <<svLine, svPath, svOutcome>>
  BY <1>1 DEF WalkResize, Resized
<1>3. ASSUME NEW i \in 1..n
      PROVE  /\ WkLevelOK(svStack'[i]) /\ WkInSight(svStack'[i], size)
             /\ svStack'[i].at = svStack[i].at /\ svStack'[i].query = svStack[i].query
             /\ svStack'[i].matches = svStack[i].matches /\ svStack'[i].cursor = svStack[i].cursor
  <2>1. WkLevelOK(svStack[i]) /\ (svStack[i].matches # <<>> => svStack[i].cursor < Len(svStack[i].matches))
    BY <1>3 DEF WkInv, WkInSight
  <2>2. PICK e : e = EnsureVisible(svStack[i], size)
    OBVIOUS
  <2>3. svStack'[i] = e
    BY <1>2, <2>2
  <2> QED BY <2>1, <2>2, <2>3, EnsureVisibleIs
<1>4. \A i \in 1..n : svStack'[i] \in WkLevels
  BY <1>3 DEF WkLevelOK
<1>5. svStack' \in Seq(WkLevels) /\ Len(svStack') = n /\ DOMAIN svStack' = 1..n
  <2>1. svStack' = [i \in 1..n |-> svStack'[i]]
    BY <1>2
  <2> QED BY <1>1, <1>4, <2>1
<1>6. WkTrail(svStack, svPath) => WkTrail(svStack', svPath)
  <2>1. \A i \in 1..n : svStack'[i].at = svStack[i].at
    BY <1>3
  <2> QED BY <1>5, <2>1, TrailStays DEF WkInv
<1>7. WkInv'
  <2>1. \A i \in 1..Len(svStack') : WkLevelOK(svStack'[i]) /\ WkInSight(svStack'[i], svSize')
    BY <1>2, <1>3, <1>5
  <2>2. OutcomeIsAPath'
    BY <1>2 DEF WkInv, OutcomeIsAPath
  <2> QED BY <1>1, <1>2, <1>5, <1>6, <2>1, <2>2 DEF WkInv
<1>8. WkKept(svStack, svStack')
  BY <1>1, <1>3, <1>5 DEF WkKept
<1> QED BY <1>7, <1>8

LEMMA PrefixIs ==
  ASSUME NEW S, NEW s \in Seq(S), NEW k \in Nat, k <= Len(s), NEW t, t = SubSeq(s, 1, k)
  PROVE  t \in Seq(S) /\ Len(t) = k /\ \A j \in 1..k : t[j] = s[j]
<1>1. \A j \in 1..k : s[j] \in S
  OBVIOUS
<1>2. /\ SubSeq(s, 1, k) \in Seq(S) /\ Len(SubSeq(s, 1, k)) = (IF 1 <= k THEN k - 1 + 1 ELSE 0)
      /\ \A j \in 1..(k - 1 + 1) : SubSeq(s, 1, k)[j] = s[1 + j - 1]
  BY <1>1, SubSeqProperties
<1> QED BY <1>2

LEMMA SamePrefix ==
  ASSUME NEW s \in Seq(Nat), NEW t \in Seq(Nat), NEW k \in Nat, k <= Len(s), k <= Len(t),
         \A j \in 1..k : s[j] = t[j]
  PROVE  SubSeq(s, 1, k) = SubSeq(t, 1, k)
<1>1. PICK a, b : a = SubSeq(s, 1, k) /\ b = SubSeq(t, 1, k)
  OBVIOUS
<1>2. a \in Seq(Nat) /\ Len(a) = k /\ (\A j \in 1..k : a[j] = s[j])
  BY <1>1, PrefixIs
<1>3. b \in Seq(Nat) /\ Len(b) = k /\ (\A j \in 1..k : b[j] = t[j])
  BY <1>1, PrefixIs
<1> QED BY <1>1, <1>2, <1>3, SeqEqual

(* Back from a level: the trail without its last step. *)
LEMMA TrailFront ==
  ASSUME NEW stack \in Seq(WkLevels), NEW path \in Seq(Nat), WkTrail(stack, path), Len(stack) > 1,
         NEW s, s = Front(stack), NEW q, q = Front(path)
  PROVE  /\ s \in Seq(WkLevels) /\ q \in Seq(Nat) /\ Len(s) > 0 /\ Len(s) = Len(stack) - 1
         /\ \A i \in 1..Len(s) : s[i] = stack[i]
         /\ WkTrail(s, q)
<1>0. PICK n \in Nat : n = Len(path)
  OBVIOUS
<1>1. Len(stack) = n + 1 /\ n > 0 /\ n - 1 \in Nat
  BY <1>0 DEF WkTrail
<1>2. s = SubSeq(stack, 1, n) /\ q = SubSeq(path, 1, n - 1)
  BY <1>0, <1>1 DEF Front
<1>4. s \in Seq(WkLevels) /\ Len(s) = n /\ \A i \in 1..n : s[i] = stack[i]
  BY <1>1, <1>2, PrefixIs
<1>5. PICK m \in Nat : m = n - 1
  BY <1>1
<1>6. q \in Seq(Nat) /\ Len(q) = n - 1 /\ \A i \in 1..(n - 1) : q[i] = path[i]
  <2>1. m <= Len(path) /\ q = SubSeq(path, 1, m)
    BY <1>0, <1>2, <1>5
  <2> QED BY <1>5, <2>1, PrefixIs
<1>7. ASSUME NEW i \in 1..n PROVE SubSeq(q, 1, i - 1) = SubSeq(path, 1, i - 1)
  <2>1. PICK k \in Nat : k = i - 1 /\ k <= n - 1
    OBVIOUS
  <2>2. k <= Len(q) /\ k <= Len(path) /\ \A j \in 1..k : q[j] = path[j]
    BY <1>0, <1>6, <2>1
  <2> QED BY <1>6, <2>1, <2>2, SamePrefix
<1>8. ASSUME NEW i \in 1..n PROVE s[i].at = SubSeq(q, 1, i - 1)
  <2>1. i \in 1..Len(stack) /\ s[i] = stack[i]
    BY <1>1, <1>4
  <2> QED BY <1>7, <2>1 DEF WkTrail
<1>9. \A i \in 1..(n - 1) : ~WalkStages[s[i].at].readOnly /\ q[i] \in ValuesAt(s[i].at)
  <2>1. ASSUME NEW i \in 1..(n - 1) PROVE i \in 1..Len(path) /\ s[i] = stack[i] /\ q[i] = path[i]
    <3>1. i \in 1..n
      OBVIOUS
    <3> QED BY <1>0, <1>4, <1>6, <3>1
  <2> QED BY <2>1 DEF WkTrail
<1> QED BY <1>1, <1>4, <1>6, <1>8, <1>9 DEF WkTrail

(* What a path grown by one value keeps of the levels that led to it. *)
WkGrown(stack, q) ==
  /\ q \in Seq(Nat)
  /\ \A i \in 1..Len(stack) : stack[i].at = SubSeq(q, 1, i - 1)
  /\ \A i \in 1..Len(q) : i \in 1..Len(stack) /\ ~WalkStages[stack[i].at].readOnly /\ q[i] \in ValuesAt(stack[i].at)
  /\ \A level \in WkLevels : level.at = q => WkTrail(Append(stack, level), q)

(* A value of the level shown: the trail goes on. *)
LEMMA TrailAppend ==
  ASSUME NEW stack \in Seq(WkLevels), NEW path \in Seq(Nat), WkTrail(stack, path),
         ~WalkStages[stack[Len(stack)].at].readOnly, NEW value \in Nat, value \in ValuesAt(stack[Len(stack)].at),
         NEW q, q = Append(path, value)
  PROVE  WkGrown(stack, q)
<1>0. PICK n \in Nat : n = Len(path)
  OBVIOUS
<1>1. Len(stack) = n + 1 /\ n + 1 \in Nat
  BY <1>0 DEF WkTrail
<1>2. q \in Seq(Nat) /\ Len(q) = n + 1 /\ q[n + 1] = value /\ \A i \in 1..n : q[i] = path[i]
  BY <1>0
<1>3. ASSUME NEW i \in 1..(n + 1) PROVE SubSeq(q, 1, i - 1) = SubSeq(path, 1, i - 1)
  <2>1. PICK k \in Nat : k = i - 1 /\ k <= n
    OBVIOUS
  <2>2. k <= Len(q) /\ k <= Len(path) /\ \A j \in 1..k : q[j] = path[j]
    BY <1>0, <1>2, <2>1
  <2> QED BY <1>2, <2>1, <2>2, SamePrefix
<1>4. \A i \in 1..(n + 1) : stack[i].at = SubSeq(q, 1, i - 1)
  BY <1>1, <1>3 DEF WkTrail
<1>5. ASSUME NEW i \in 1..(n + 1) PROVE ~WalkStages[stack[i].at].readOnly /\ q[i] \in ValuesAt(stack[i].at)
  <2>1. CASE i = n + 1
    BY <1>1, <1>2, <2>1
  <2>2. CASE i # n + 1
    <3>1. i \in 1..Len(path) /\ q[i] = path[i]
      BY <1>0, <1>2, <2>2
    <3> QED BY <3>1 DEF WkTrail
  <2> QED BY <2>1, <2>2
<1>6. ASSUME NEW level \in WkLevels, level.at = q PROVE WkTrail(Append(stack, level), q)
  <2>1. PICK t : t = Append(stack, level)
    OBVIOUS
  <2>2. Len(t) = n + 2 /\ t[n + 2] = level /\ \A i \in 1..(n + 1) : t[i] = stack[i]
    BY <1>1, <2>1
  <2>3. SubSeq(q, 1, Len(q)) = q
    BY <1>2, SubSeqFull
  <2>4. ASSUME NEW i \in 1..(n + 2) PROVE t[i].at = SubSeq(q, 1, i - 1)
    <3>1. CASE i = n + 2
      <4>1. i - 1 = Len(q)
        BY <1>2, <3>1
      <4> QED BY <1>6, <2>2, <2>3, <3>1, <4>1
    <3>2. CASE i # n + 2
      <4>1. i \in 1..(n + 1)
        BY <3>2
      <4> QED BY <1>4, <2>2, <4>1
    <3> QED BY <3>1, <3>2
  <2>5. Len(t) = Len(q) + 1
    BY <1>2, <2>2
  <2> QED BY <1>2, <1>5, <2>1, <2>2, <2>4, <2>5 DEF WkTrail
<1> QED BY <1>1, <1>2, <1>4, <1>5, <1>6 DEF WkGrown

LEMMA WkShownTrail == ASSUME WkInv, WalkShown PROVE WkTrail(svStack, svPath)
BY DEF WkInv, WalkShown, NoOutcome

LEMMA WkEnds ==
  ASSUME WkInv, WalkShown, NEW end \in {"cancelled", "interrupted", "failed"}, Ends(end, <<>>),
         UNCHANGED <<svLine, svSize, svStack, svPath>>
  PROVE  WkInv' /\ WkKept(svStack, svStack')
<1>1. svOutcome'.end = end
  BY DEF Ends
<1>2. OutcomeIsAPath'
  BY <1>1 DEF OutcomeIsAPath
<1> QED BY <1>1, <1>2, WkShownTrail DEF WkInv, WkKept

LEMMA WkBack == ASSUME WkInv, WalkShown, Back PROVE WkInv' /\ WkKept(svStack, svStack')
<1>1. CASE Len(svStack) = 1
  BY <1>1, WkEnds DEF Back
<1>2. CASE Len(svStack) # 1
  <2>0. svStack \in Seq(WkLevels) /\ Len(svStack) > 0 /\ svPath \in Seq(Nat)
    BY DEF WkInv
  <2>1. Len(svStack) \in Nat /\ Len(svStack) > 1
    <3>1. PICK n \in Nat : n = Len(svStack)
      BY <2>0
    <3>2. n # 1 /\ n > 0
      BY <1>2, <2>0, <3>1
    <3> QED BY <3>1, <3>2
  <2>2. PICK s, q : s = Front(svStack) /\ q = Front(svPath)
    OBVIOUS
  <2>3. svStack' = s /\ svPath' = q /\ UNCHANGED <<svLine, svSize, svOutcome>>
    BY <1>2, <2>2 DEF Back, PathLeft
  <2>4. /\ s \in Seq(WkLevels) /\ q \in Seq(Nat) /\ Len(s) > 0 /\ Len(s) = Len(svStack) - 1
        /\ \A i \in 1..Len(s) : s[i] = svStack[i]
        /\ WkTrail(s, q)
    BY <2>0, <2>1, <2>2, WkShownTrail, TrailFront
  <2>5. \A i \in 1..Len(s) : i \in 1..Len(svStack) /\ WkLevelOK(s[i]) /\ WkInSight(s[i], svSize)
    BY <2>0, <2>1, <2>4 DEF WkInv
  <2>6. OutcomeIsAPath'
    BY <2>3 DEF WkInv, OutcomeIsAPath
  <2>7. WkInv'
    BY <2>3, <2>4, <2>5, <2>6 DEF WkInv
  <2>8. WkKept(svStack, svStack')
    <3>1. DOMAIN s = 1..Len(s)
      BY <2>4
    <3> QED BY <2>3, <2>4, <3>1 DEF WkKept
  <2> QED BY <2>7, <2>8
<1> QED BY <1>1, <1>2

LEMMA WkChosen ==
  ASSUME WkInv, WalkShown, ~ReadOnly, NEW value \in ValuesAt(Top.at), Chosen(value)
  PROVE  WkInv' /\ WkKept(svStack, svStack')
<1>0. PICK n \in Nat : n = Len(svStack) /\ n > 0
  BY DEF WkInv
<1>1. svStack \in Seq(WkLevels) /\ svPath \in Seq(Nat) /\ WkTrail(svStack, svPath)
  BY WkShownTrail DEF WkInv
<1>2. Top.at \in DOMAIN WalkStages /\ svSize \in Sizes
  BY TopIs, MatchesAreSeq
<1>3. value \in Nat /\ ~WalkStages[svStack[Len(svStack)].at].readOnly /\ value \in ValuesAt(svStack[Len(svStack)].at)
  BY <1>2, StageIs DEF ValuesAt, ReadOnly, Top
<1>4. PICK q : q = Append(svPath, value)
  OBVIOUS
<1>5. /\ q \in Seq(Nat)
      /\ \A i \in 1..Len(svStack) : svStack[i].at = SubSeq(q, 1, i - 1)
      /\ \A i \in 1..Len(q) : /\ i \in 1..Len(svStack) /\ ~WalkStages[svStack[i].at].readOnly
                              /\ q[i] \in ValuesAt(svStack[i].at)
      /\ \A level \in WkLevels : level.at = q => WkTrail(Append(svStack, level), q)
  <2>1. WkGrown(svStack, q)
    BY <1>1, <1>3, <1>4, TrailAppend
  <2> QED BY <2>1 DEF WkGrown
<1>6. svPath' = q /\ UNCHANGED <<svLine, svSize>>
  BY <1>4 DEF Chosen
<1>7. CASE q \in DOMAIN WalkStages /\ WalkStages[q].count > 0
  <2>1. PICK l : l = NewLevel(q)
    OBVIOUS
  <2>2. PICK e : e = EnsureVisible(l, svSize)
    OBVIOUS
  <2>3. PICK t : t = Append(svStack, e)
    OBVIOUS
  <2>4. svStack' = t /\ UNCHANGED svOutcome
    BY <1>6, <1>7, <2>1, <2>2, <2>3 DEF Chosen
  <2>5. WkLevelOK(e) /\ WkInSight(e, svSize) /\ e.at = q
    <3>1. WkLevelOK(l) /\ l.at = q /\ (l.matches # <<>> => l.cursor < Len(l.matches))
      BY <1>7, <2>1, NewLevelIs
    <3> QED BY <1>2, <2>2, <3>1, EnsureVisibleIs
  <2>6. e \in WkLevels
    BY <2>5 DEF WkLevelOK
  <2>7. WkTrail(t, q)
    BY <1>5, <2>3, <2>5, <2>6
  <2>8. t \in Seq(WkLevels) /\ Len(t) = n + 1 /\ t[n + 1] = e /\ (\A i \in 1..n : t[i] = svStack[i]) /\ DOMAIN t = 1..(n + 1)
    BY <1>0, <1>1, <2>3, <2>6
  <2>9. ASSUME NEW i \in 1..(n + 1) PROVE WkLevelOK(t[i]) /\ WkInSight(t[i], svSize)
    <3>1. CASE i = n + 1
      BY <2>5, <2>8, <3>1
    <3>2. CASE i # n + 1
      <4>1. i \in 1..n
        BY <3>2
      <4> QED BY <1>0, <2>8, <4>1 DEF WkInv
    <3> QED BY <3>1, <3>2
  <2>10. OutcomeIsAPath'
    BY <2>4 DEF WkInv, OutcomeIsAPath
  <2>11. WkInv'
    BY <1>0, <1>5, <1>6, <2>4, <2>7, <2>8, <2>9, <2>10 DEF WkInv
  <2>12. WkKept(svStack, svStack')
    <3>1. DOMAIN svStack = 1..n
      BY <1>0, <1>1
    <3> QED BY <2>4, <2>8, <3>1 DEF WkKept
  <2> QED BY <2>11, <2>12
<1>8. CASE ~(q \in DOMAIN WalkStages /\ WalkStages[q].count > 0)
  <2>1. UNCHANGED svStack /\ Ends("chosen", q)
    BY <1>6, <1>8 DEF Chosen
  <2>2. svOutcome'.end = "chosen" /\ svOutcome'.path = q
    BY <2>1 DEF Ends
  <2>3. q \notin DOMAIN WalkStages \/ WalkStages[q].count = 0
    BY <1>8, StageIs
  <2>4. ASSUME NEW i \in DOMAIN q, NEW at, at = SubSeq(q, 1, i - 1)
        PROVE  at \in DOMAIN WalkStages /\ ~WalkStages[at].readOnly /\ q[i] \in ValuesAt(at)
    <3>1. i \in 1..Len(q) /\ i \in 1..Len(svStack)
      BY <1>5
    <3>2. at = svStack[i].at
      BY <1>5, <2>4, <3>1
    <3>3. at \in DOMAIN WalkStages
      BY <3>1, <3>2, MatchesAreSeq DEF WkInv
    <3> QED BY <1>5, <3>1, <3>2, <3>3
  <2>5. OutcomeIsAPath'
    BY <2>2, <2>3, <2>4 DEF OutcomeIsAPath
  <2>6. WkInv'
    BY <1>5, <1>6, <2>1, <2>2, <2>5 DEF WkInv
  <2> QED BY <2>1, <2>6 DEF WkKept
<1> QED BY <1>7, <1>8

LEMMA WkEnters == ASSUME WkInv, WalkEnter PROVE WkInv' /\ WkKept(svStack, svStack')
<1>1. Screen /\ ~ReadOnly /\ Top.matches # <<>> /\ Chosen(Top.matches[Top.cursor + 1])
  BY DEF WalkEnter
<1>2. WkLevelOK(Top) /\ WkInSight(Top, svSize)
  BY TopIs
<1>3. /\ Top.cursor \in Nat /\ Len(Top.matches) \in Nat /\ Top.cursor < Len(Top.matches)
      /\ \A i \in 1..Len(Top.matches) : Top.matches[i] \in ValuesAt(Top.at)
  BY <1>1, <1>2, MatchesAreSeq DEF WkInSight
<1>4. PICK value : value = Top.matches[Top.cursor + 1]
  OBVIOUS
<1>5. value \in ValuesAt(Top.at)
  BY <1>3, <1>4
<1> QED BY <1>1, <1>4, <1>5, WkChosen DEF Screen

LEMMA WalkInitKeeps == WalkInit => WkInv
<1> SUFFICES ASSUME WalkInit PROVE WkInv
  OBVIOUS
<1>1. PICK l : l = NewLevel(<<>>)
  OBVIOUS
<1>2. <<>> \in DOMAIN WalkStages /\ <<>> \in Seq(Nat) /\ svSize \in Sizes
  BY WalkAssumption DEF WalkInit
<1>3. WkLevelOK(l) /\ l.at = <<>> /\ l.cursor = 0 /\ l.offset = 0 /\ (l.matches # <<>> => l.cursor < Len(l.matches))
  BY <1>1, <1>2, NewLevelIs
<1>4. PageOf(l, svSize) \in Nat \ {0}
  BY <1>2, <1>3, PageIs
<1>5. WkInSight(l, svSize)
  BY <1>3, <1>4 DEF WkInSight
<1>6. svStack = <<l>> /\ svPath = <<>> /\ svOutcome.end = "none" /\ svLine \in BOOLEAN
  BY <1>1 DEF WalkInit, NoOutcome
<1>7. svStack \in Seq(WkLevels) /\ Len(svStack) = 1 /\ svStack[1] = l
  BY <1>3, <1>6 DEF WkLevelOK
<1>8. WkTrail(svStack, svPath)
  <2>1. SubSeq(<<>>, 1, 0) = <<>>
    BY SubSeqEmpty
  <2>2. ASSUME NEW i \in 1..1 PROVE svStack[i].at = SubSeq(<<>>, 1, i - 1)
    <3>1. i = 1 /\ i - 1 = 0
      OBVIOUS
    <3>2. svStack[i].at = <<>>
      BY <1>3, <1>7, <3>1
    <3> QED BY <2>1, <3>1, <3>2
  <2>3. Len(svStack) = Len(<<>>) + 1 /\ 1..Len(<<>>) = {}
    BY <1>7
  <2> QED BY <1>6, <1>7, <2>2, <2>3 DEF WkTrail
<1>9. OutcomeIsAPath
  BY <1>6 DEF OutcomeIsAPath
<1> QED BY <1>2, <1>3, <1>5, <1>6, <1>7, <1>8, <1>9 DEF WkInv

LEMMA WalkNextKeeps == ASSUME WkInv, [WalkNext]_walkVars PROVE WkInv' /\ WkKept(svStack, svStack')
<1>1. CASE UNCHANGED walkVars
  <2>1. OutcomeIsAPath'
    BY <1>1 DEF walkVars, WkInv, OutcomeIsAPath
  <2> QED BY <1>1, <2>1 DEF walkVars, WkInv, WkKept
<1>2. ASSUME NEW delta \in {-1, 1}, WalkKey(delta) PROVE WkInv' /\ WkKept(svStack, svStack')
  BY <1>2, WkMoves
<1>3. ASSUME NEW up \in BOOLEAN, WalkPage(up) PROVE WkInv' /\ WkKept(svStack, svStack')
  BY <1>3, WkPages, WkMoves
<1>4. CASE WalkHome \/ WalkLast
  BY <1>4, WkMoves
<1>5. CASE WalkEscape
  <2>1. Screen /\ (TopBecomes(Searched(Top, FALSE, InOrder(Top.at))) \/ Back)
    BY <1>5 DEF WalkEscape
  <2> QED BY <2>1, WkClears, WkBack DEF Screen
<1>6. CASE WalkInterrupt
  BY <1>6, WkEnds DEF WalkInterrupt, Screen
<1>7. CASE WalkAnswer
  <2>1. CASE Back
    BY <1>7, <2>1, WkBack DEF WalkAnswer
  <2>2. CASE ~ReadOnly /\ \E value \in ValuesAt(Top.at) : Chosen(value)
    BY <1>7, <2>2, WkChosen DEF WalkAnswer
  <2>3. CASE Ends("failed", <<>>) /\ UNCHANGED <<svLine, svSize, svStack, svPath>>
    BY <1>7, <2>3, WkEnds DEF WalkAnswer
  <2> QED BY <1>7, <2>1, <2>2, <2>3 DEF WalkAnswer
<1> QED BY <1>1, <1>2, <1>3, <1>4, <1>5, <1>6, <1>7, WkTypes, WkResizes, WkEnters DEF WalkNext

LEMMA WalkSound == WkInv => WalkTypeOK /\ OutcomeIsAPath /\ CursorInSight
<1> SUFFICES ASSUME WkInv PROVE WalkTypeOK /\ OutcomeIsAPath /\ CursorInSight
  OBVIOUS
<1>1. DOMAIN svStack = 1..Len(svStack)
  BY DEF WkInv
<1>2. CursorInSight
  BY <1>1 DEF WkInv, WkInSight, CursorInSight
<1>3. svOutcome.end # "chosen" => svPath \in DOMAIN WalkStages
  <2> SUFFICES ASSUME svOutcome.end # "chosen" PROVE svPath \in DOMAIN WalkStages
    OBVIOUS
  <2>1. PICK n \in Nat : n = Len(svStack) /\ n = Len(svPath) + 1 /\ svPath \in Seq(Nat)
    BY DEF WkInv, WkTrail
  <2>2. svStack[n].at = SubSeq(svPath, 1, n - 1)
    BY <2>1 DEF WkInv, WkTrail
  <2>3. n - 1 = Len(svPath)
    BY <2>1
  <2>4. svStack[n].at = svPath
    BY <2>1, <2>2, <2>3, SubSeqFull
  <2>5. WkLevelOK(svStack[n])
    BY <2>1 DEF WkInv
  <2> QED BY <2>4, <2>5, MatchesAreSeq
<1>4. \A i \in DOMAIN svStack : LET l == svStack[i] IN
         /\ l.at \in DOMAIN WalkStages /\ l.matches \in Rankings(l.at)
         /\ l.query \in BOOLEAN /\ l.cursor \in Nat /\ l.offset \in Nat
         /\ ~l.query => l.matches = InOrder(l.at)
  BY <1>1, Zenon DEF WkInv, WkLevelOK, WkLevels
<1> QED BY <1>2, <1>3, <1>4 DEF WkInv, WalkTypeOK

-----------------------------------------------------------------------------
(* The review's types *)

LEMMA NextRootTypes ==
  ASSUME ReviewTypeOK, NextRoot, rvStatus' \in [1..ReviewRoots -> ReviewStatuses],
         rvTruth' \in [1..ReviewRoots -> ReviewStatuses], rvNeed' \in BOOLEAN
  PROVE  ReviewTypeOK'
<1>1. CASE rvRoot = ReviewRoots
  BY <1>1, Zenon DEF NextRoot, ReviewTypeOK, ReviewSteps
<1>2. CASE rvRoot # ReviewRoots
  <2>1. rvRoot + 1 \in 1..ReviewRoots /\ 0 \in 0..ReviewChanges
    BY <1>2, ReviewAssumption DEF ReviewTypeOK
  <2>2. /\ rvStep' = "init" /\ rvRoot' = rvRoot + 1 /\ rvRules' \in ReviewRules
        /\ rvSeen' = 0 /\ rvChanged' = FALSE /\ rvReviews' = FALSE
    BY <1>2 DEF NextRoot
  <2> QED BY <2>1, <2>2, Zenon DEF ReviewTypeOK, ReviewSteps
<1> QED BY <1>1, <1>2

LEMMA ReviewInitKeeps == ReviewInit => ReviewTypeOK
<1> SUFFICES ASSUME ReviewInit PROVE ReviewTypeOK
  OBVIOUS
<1>1. 1 \in 1..ReviewRoots /\ 0 \in 0..ReviewChanges
  BY ReviewAssumption
<1> QED BY <1>1, Zenon DEF ReviewInit, ReviewTypeOK, ReviewSteps, ReviewStatuses

LEMMA ReviewNextKeeps == ReviewTypeOK /\ [ReviewNext]_reviewVars => ReviewTypeOK'
<1> SUFFICES ASSUME ReviewTypeOK, [ReviewNext]_reviewVars PROVE ReviewTypeOK'
  OBVIOUS
<1>1. CASE UNCHANGED reviewVars
  BY <1>1, Zenon DEF reviewVars, ReviewTypeOK
<1>2. CASE RootFails
  <2>1. /\ rvStatus' \in [1..ReviewRoots -> ReviewStatuses] /\ rvTruth' \in [1..ReviewRoots -> ReviewStatuses]
        /\ rvNeed' \in BOOLEAN
    BY <1>2, Zenon DEF RootFails, ReviewTypeOK, ReviewStatuses
  <2> QED BY <1>2, <2>1, NextRootTypes DEF RootFails
<1>3. CASE RootGoes
  <2>1. rvStep' \in {"plan", "show", "rules", "classify"}
    BY <1>3 DEF RootGoes, ReviewGoto
  <2>2. rvStep' \in ReviewSteps
    BY <2>1 DEF ReviewSteps
  <2> QED BY <1>3, <2>2, Zenon DEF RootGoes, ReviewRest, ReviewTypeOK
<1>4. CASE ReviewAborts
  BY <1>4, Zenon DEF ReviewAborts, ReviewGoto, ReviewRest, ReviewTypeOK, ReviewSteps
<1>5. CASE ClassifyEnds
  <2>1. PICK status \in ReviewStatuses :
          /\ rvStatus' = [rvStatus EXCEPT ![rvRoot] = status]
          /\ rvNeed' = (rvNeed \/ status = "REVIEW")
    <3>1. (IF ~rvChanged THEN "NOCHANGE" ELSE IF rvReviews THEN "REVIEW" ELSE "EXPECTED") \in ReviewStatuses
      BY DEF ReviewStatuses
    <3> QED BY <1>5, <3>1 DEF ClassifyEnds
  <2>2. rvStatus' \in [1..ReviewRoots -> ReviewStatuses] /\ rvNeed' \in BOOLEAN
    BY <2>1, Zenon DEF ReviewTypeOK
  <2>3. rvTruth' \in [1..ReviewRoots -> ReviewStatuses]
    <3>1. PICK truth \in ReviewStatuses : rvTruth' = [rvTruth EXCEPT ![rvRoot] = truth]
      <4>1. rvTruth[rvRoot] \in ReviewStatuses
        BY DEF ReviewTypeOK
      <4>2. (IF rvTruth[rvRoot] = "none" THEN "NOCHANGE" ELSE rvTruth[rvRoot]) \in ReviewStatuses
        BY <4>1 DEF ReviewStatuses
      <4> QED BY <1>5, <4>2 DEF ClassifyEnds
    <3> QED BY <3>1 DEF ReviewTypeOK
  <2> QED BY <1>5, <2>2, <2>3, NextRootTypes DEF ClassifyEnds
<1>6. ASSUME NEW actions \in ReviewActions, NEW before \in ReviewValues, NEW after \in ReviewValues,
             ClassifyChange(actions, before, after)
      PROVE  ReviewTypeOK'
  <2>1. rvSeen' \in 0..ReviewChanges
    <3>1. rvSeen < ReviewChanges /\ rvSeen' = rvSeen + 1
      BY <1>6, Zenon DEF ClassifyChange
    <3> QED BY <3>1, ReviewAssumption DEF ReviewTypeOK
  <2>2. rvChanged' \in BOOLEAN /\ rvReviews' \in BOOLEAN
    BY <1>6, Zenon DEF ClassifyChange, ReviewTypeOK
  <2>3. rvTruth' \in [1..ReviewRoots -> ReviewStatuses]
    <3>1. PICK outside : outside = OutsideRules(actions, before, after, rvRules)
      OBVIOUS
    <3>2. PICK same : same = Unchanged(actions)
      OBVIOUS
    <3>3. PICK was : was = rvTruth[rvRoot]
      OBVIOUS
    <3>4. rvTruth' = [rvTruth EXCEPT ![rvRoot] =
                        IF same THEN was ELSE IF outside THEN "REVIEW" ELSE IF was = "none" THEN "EXPECTED" ELSE was]
      BY <1>6, <3>1, <3>2, <3>3, Zenon DEF ClassifyChange
    <3>5. was \in ReviewStatuses
      BY <3>3 DEF ReviewTypeOK
    <3>6. (IF same THEN was ELSE IF outside THEN "REVIEW" ELSE IF was = "none" THEN "EXPECTED" ELSE was)
            \in ReviewStatuses
      BY <3>5, Zenon DEF ReviewStatuses
    <3> QED BY <3>4, <3>6, Zenon DEF ReviewTypeOK
  <2> QED BY <1>6, <2>1, <2>2, <2>3, Zenon DEF ClassifyChange, ReviewTypeOK
<1> QED BY <1>1, <1>2, <1>3, <1>4, <1>5, <1>6 DEF ReviewNext

-----------------------------------------------------------------------------
(* What the review says *)

(* The string of a plain path holds its names one by one. *)
LEMMA DottedIs ==
  ASSUME NEW path, PlainPath(path)
  PROVE  Dotted(path) = [i \in 1..Len(path) |-> path[i][1]]
<1> DEFINE n == Len(path)
           part(i) == path[i][1]
           upto(i) == [j \in 1..i |-> part(j)]
           Grows(f) == f = [i \in 1..n |-> IF i = 1 THEN path[i] ELSE f[i - 1] \o path[i]]
           built == [i \in 1..n |-> upto(i)]
           flat == CHOOSE f : Grows(f)
<1>1. n \in Nat /\ path = [i \in 1..n |-> <<part(i)>>]
  BY DEF PlainPath
<1>2. CASE n = 0
  <2>1. Dotted(path) = path
    BY <1>2 DEF Dotted, FlattenSeq
  <2>2. path = [i \in 1..n |-> part(i)]
    BY <1>1, <1>2
  <2> QED BY <2>1, <2>2
<1>3. CASE n # 0
  <2>1. Dotted(path) = flat[n]
    BY <1>3 DEF Dotted, FlattenSeq
  <2>2. \A i \in 1..n : upto(i) = IF i = 1 THEN path[i] ELSE upto(i - 1) \o path[i]
    <3> TAKE i \in 1..n
    <3>1. CASE i = 1
      <4>1. 1 \in 1..n /\ path[1] = <<part(1)>>
        BY <1>1, <3>1
      <4>2. upto(1) = <<part(1)>>
        <5> HIDE DEF part
        <5> QED OBVIOUS
      <4> HIDE DEF upto
      <4> QED BY <3>1, <4>1, <4>2
    <3>2. CASE i # 1
      <4>1. i - 1 \in Nat /\ i \in Nat /\ i - 1 + 1 = i
        BY <1>1, <3>2
      <4>2. path[i] = <<part(i)>>
        BY <1>1
      <4>3. upto(i - 1) \o <<part(i)>> = upto(i)
        <5>1. upto(i - 1) \in Seq({part(j) : j \in 1..i}) /\ Len(upto(i - 1)) = i - 1
          BY <4>1
        <5> HIDE DEF part
        <5> QED BY <4>1, <5>1
      <4> HIDE DEF upto
      <4> QED BY <3>2, <4>2, <4>3
    <3> QED BY <3>1, <3>2
  <2>3. Grows(built)
    <3>1. \A i \in 1..n : i # 1 => i - 1 \in 1..n
      BY <1>1
    <3> HIDE DEF upto
    <3>2. \A i \in 1..n : i # 1 => built[i - 1] = upto(i - 1)
      BY <3>1
    <3>3. \A i \in 1..n : upto(i) = IF i = 1 THEN path[i] ELSE built[i - 1] \o path[i]
      <4> HIDE DEF built
      <4> QED BY <2>2, <3>2
    <3> HIDE DEF n
    <3> QED BY <3>3
  <2>4. Grows(flat)
    <3> HIDE DEF Grows, built
    <3> QED BY <2>3
  <2>5. \A i \in 1..n : flat[i] = upto(i)
    <3> DEFINE Wrong == {i \in 1..n : flat[i] # upto(i)}
    <3> SUFFICES ASSUME Wrong # {} PROVE FALSE
      OBVIOUS
    <3>1. Wrong \in SUBSET Nat
      BY <1>1
    <3>2. PICK i \in Wrong : \A r \in Wrong : i <= r
      <4> HIDE DEF Wrong
      <4> QED BY <3>1, FirstOf
    <3>3. i \in 1..n /\ flat[i] # upto(i)
      BY <3>2
    <3>4. \A k \in 1..n : flat[k] = IF k = 1 THEN path[k] ELSE flat[k - 1] \o path[k]
      <4> HIDE DEF flat
      <4> QED BY <2>4
    <3>5. \A k \in 1..n : upto(k) = IF k = 1 THEN path[k] ELSE upto(k - 1) \o path[k]
      BY <2>2
    <3> HIDE DEF flat, upto
    <3>6. CASE i = 1
      BY <3>3, <3>4, <3>5, <3>6
    <3>7. CASE i # 1
      <4>1. i - 1 \in 1..n /\ ~(i <= i - 1)
        BY <1>1, <3>3, <3>7
      <4>2. flat[i - 1] = upto(i - 1)
        BY <3>2, <4>1
      <4> QED BY <3>3, <3>4, <3>5, <3>7, <4>2
    <3> QED BY <3>6, <3>7
  <2>6. n \in 1..n
    BY <1>1, <1>3
  <2> QED BY <2>1, <2>5, <2>6
<1> QED BY <1>2, <1>3

LEMMA UndottedIs == ASSUME NEW path, PlainPath(path) PROVE UndottedPath(Dotted(path)) = path
<1> DEFINE d == [i \in 1..Len(path) |-> path[i][1]]
<1>1. Dotted(path) = d /\ DOMAIN d = 1..Len(path)
  BY DottedIs
<1>2. UndottedPath(d) = [i \in 1..Len(path) |-> <<path[i][1]>>]
  BY DEF UndottedPath
<1> QED BY <1>1, <1>2 DEF PlainPath

(* Where the paths are plain, the strings that the code compares the values at are *)
(* those of the scalars that differ.                                               *)
LEMMA ValueAtIs ==
  ASSUME PlainPaths(ReviewPaths), NEW path \in ReviewPaths, NEW value \in ReviewValues
  PROVE  /\ ScalarAt(value, path) = "null" => ValueAtPath(value, Dotted(path)) = <<>>
         /\ ScalarAt(value, path) # "null" =>
              ValueAtPath(value, Dotted(path)) = [q \in {path} |-> ScalarAt(value, path)]
<1> DEFINE below == {q \in DOMAIN value : IsPrefix(path, q)}
<1>0. PlainPath(path)
  BY DEF PlainPaths, UndottedPaths
<1>1. DOMAIN value \subseteq ReviewPaths
  BY DEF ReviewValues
<1>2. IsPrefix(path, path)
  BY <1>0 DEF PlainPath, IsPrefix
<1>3. below = IF path \in DOMAIN value THEN {path} ELSE {}
  BY <1>1, <1>2 DEF PlainPaths
<1>4. ValueAtPath(value, Dotted(path)) =
        IF below = {path} /\ value[path] = "null" THEN <<>> ELSE [q \in below |-> value[q]]
  BY <1>0, UndottedIs DEF ValueAtPath
<1> HIDE DEF below
<1>5. CASE path \in DOMAIN value
  <2>1. below = {path} /\ ScalarAt(value, path) = value[path]
    BY <1>3, <1>5 DEF ScalarAt
  <2>2. [q \in below |-> value[q]] = [q \in {path} |-> ScalarAt(value, path)]
    BY <2>1
  <2> QED BY <1>4, <2>1, <2>2
<1>6. CASE path \notin DOMAIN value
  <2>1. below = {} /\ ScalarAt(value, path) = "null"
    BY <1>3, <1>6 DEF ScalarAt
  <2>2. [q \in below |-> value[q]] = <<>>
    BY <2>1
  <2>3. below # {path}
    BY <2>1
  <2> QED BY <1>4, <2>1, <2>2, <2>3
<1> QED BY <1>5, <1>6

LEMMA DiffersIs ==
  ASSUME PlainPaths(ReviewPaths), NEW path \in ReviewPaths,
         NEW before \in ReviewValues, NEW after \in ReviewValues
  PROVE  ValueAtPath(before, Dotted(path)) = ValueAtPath(after, Dotted(path))
           <=> ScalarAt(before, path) = ScalarAt(after, path)
<1>1. \A x, y : /\ <<>> # [q \in {path} |-> x]
                /\ [q \in {path} |-> x] = [q \in {path} |-> y] => x = y
  <2> TAKE x, y
  <2>1. [q \in {path} |-> x][path] = x /\ [q \in {path} |-> y][path] = y
    OBVIOUS
  <2>2. DOMAIN [q \in {path} |-> x] = {path} /\ DOMAIN <<>> = {}
    OBVIOUS
  <2>3. <<>> # [q \in {path} |-> x]
    <3> DEFINE f == [q \in {path} |-> x]
    <3>1. path \in DOMAIN f
      BY <2>2
    <3> HIDE DEF f
    <3> QED BY <2>2, <3>1
  <2> QED BY <2>1, <2>3
<1> DEFINE b == ScalarAt(before, path)
           a == ScalarAt(after, path)
           vb == ValueAtPath(before, Dotted(path))
           va == ValueAtPath(after, Dotted(path))
<1>2. /\ b = "null" => vb = <<>>
      /\ b # "null" => vb = [q \in {path} |-> b]
  BY ValueAtIs
<1>3. /\ a = "null" => va = <<>>
      /\ a # "null" => va = [q \in {path} |-> a]
  BY ValueAtIs
<1> HIDE DEF a, b, va, vb
<1>4. va = vb <=> b = a
  <2>1. CASE b = "null" /\ a = "null"
    BY <1>2, <1>3, <2>1
  <2>2. CASE b = "null" /\ a # "null"
    BY <1>1, <1>2, <1>3, <2>2
  <2>3. CASE b # "null" /\ a = "null"
    BY <1>1, <1>2, <1>3, <2>3
  <2>4. CASE b # "null" /\ a # "null"
    BY <1>1, <1>2, <1>3, <2>4
  <2> QED BY <2>1, <2>2, <2>3, <2>4
<1> QED BY <1>4 DEF a, b, va, vb

(* So an update needs a review by the code's comparison exactly if, by its meaning, *)
(* it touches something outside the rules.                                          *)
LEMMA ReviewedIsOutside ==
  ASSUME PlainPaths(ReviewPaths), NEW actions, NEW rules,
         NEW before \in ReviewValues, NEW after \in ReviewValues
  PROVE  NeedsReview(actions, ChangedPaths(before, after), rules)
           <=> OutsideRules(actions, before, after, rules)
<1>1. DOMAIN before \subseteq ReviewPaths /\ DOMAIN after \subseteq ReviewPaths
  BY DEF ReviewValues
<1>2. \A path \in ReviewPaths : NameAllowed(path, rules) <=> PathAllowed(Dotted(path), rules)
  <2> TAKE path \in ReviewPaths
  <2>1. \A i \in DOMAIN path : Len(path[i]) = 1
    BY DEF PlainPaths, UndottedPaths, PlainPath
  <2> QED BY <2>1 DEF NameAllowed
<1>3. ASSUME NEW d \in ChangedPaths(before, after), ~PathAllowed(d, rules)
      PROVE  TouchesOther(before, after, rules)
  <2>1. PICK path \in DOMAIN before \cup DOMAIN after : d = Dotted(path)
    BY DEF ChangedPaths, ScalarPaths
  <2>2. path \in ReviewPaths /\ ValueAtPath(before, d) # ValueAtPath(after, d)
    BY <1>1 DEF ChangedPaths
  <2>3. ScalarAt(before, path) # ScalarAt(after, path) /\ ~NameAllowed(path, rules)
    BY <1>2, <1>3, <2>1, <2>2, DiffersIs
  <2> QED BY <2>2, <2>3 DEF TouchesOther
<1>4. ASSUME NEW path \in ReviewPaths, ScalarAt(before, path) # ScalarAt(after, path),
             ~NameAllowed(path, rules)
      PROVE  \E d \in ChangedPaths(before, after) : ~PathAllowed(d, rules)
  <2>1. path \in DOMAIN before \cup DOMAIN after
    BY <1>4 DEF ScalarAt
  <2>2. Dotted(path) \in ScalarPaths(before) \cup ScalarPaths(after)
    BY <2>1 DEF ScalarPaths
  <2>3. ValueAtPath(before, Dotted(path)) # ValueAtPath(after, Dotted(path))
    BY <1>4, DiffersIs
  <2>4. Dotted(path) \in ChangedPaths(before, after)
    BY <2>2, <2>3 DEF ChangedPaths
  <2> QED BY <1>2, <1>4, <2>4
<1>5. (\E d \in ChangedPaths(before, after) : ~PathAllowed(d, rules))
        <=> TouchesOther(before, after, rules)
  BY <1>3, <1>4 DEF TouchesOther
<1> QED BY <1>5, Zenon DEF NeedsReview, OutsideRules

(* The roots whose review is over: what was printed for them is their plan's     *)
(* meaning.  The one at hand has nothing printed, and what the entries seen so   *)
(* far mean is what the code has noted; nothing is said or known of the others.  *)
RvOver(r) == r < rvRoot \/ rvStep = "done"
RvVerdict == IF ~rvChanged THEN "none" ELSE IF rvReviews THEN "REVIEW" ELSE "EXPECTED"
RvBad == {"ERROR", "REVIEW"}

RvInv ==
  /\ ReviewTypeOK
  /\ rvReviews => rvChanged
  /\ rvStep = "done" => rvRoot = ReviewRoots
  /\ \A r \in 1..ReviewRoots :
       IF RvOver(r) THEN rvStatus[r] = rvTruth[r] /\ rvStatus[r] # "none" ELSE rvStatus[r] = "none"
  /\ rvStep # "done" =>
       /\ rvTruth[rvRoot] = RvVerdict
       /\ \A r \in 1..ReviewRoots : r > rvRoot => rvTruth[r] = "none"
  /\ rvNeed <=> \E r \in 1..ReviewRoots : rvStatus[r] \in RvBad

LEMMA RvInitKeeps == ReviewInit => RvInv
<1> SUFFICES ASSUME ReviewInit PROVE RvInv
  OBVIOUS
<1>1. ReviewTypeOK
  BY ReviewInitKeeps
<1>2. \A r \in 1..ReviewRoots : ~(r < 1)
  BY ReviewAssumption
<1>3. 1 \in 1..ReviewRoots
  BY ReviewAssumption
<1> QED BY <1>1, <1>2, <1>3 DEF ReviewInit, RvInv, RvOver, RvVerdict, RvBad

(* The review of a root ends, with what was printed what its plan means.         *)
LEMMA RootEndsKeeps ==
  ASSUME RvInv, rvStep # "done", ReviewTypeOK', NextRoot,
         NEW status \in ReviewStatuses \ {"none"},
         rvStatus' = [rvStatus EXCEPT ![rvRoot] = status],
         rvTruth' = [rvTruth EXCEPT ![rvRoot] = status],
         rvNeed' = (rvNeed \/ status \in RvBad)
  PROVE  RvInv'
<1>1. /\ rvRoot \in 1..ReviewRoots /\ ReviewRoots \in Nat \ {0}
      /\ rvStatus \in [1..ReviewRoots -> ReviewStatuses] /\ rvTruth \in [1..ReviewRoots -> ReviewStatuses]
  BY ReviewAssumption DEF RvInv, ReviewTypeOK
<1>2. /\ rvStatus'[rvRoot] = status /\ rvTruth'[rvRoot] = status
      /\ \A r \in 1..ReviewRoots : r # rvRoot => rvStatus'[r] = rvStatus[r] /\ rvTruth'[r] = rvTruth[r]
  BY <1>1
<1>3. rvStatus[rvRoot] = "none"
  <2>1. ~RvOver(rvRoot)
    BY <1>1 DEF RvOver
  <2> QED BY <1>1, <2>1 DEF RvInv
<1>4. rvNeed' <=> \E r \in 1..ReviewRoots : rvStatus'[r] \in RvBad
  <2>1. "none" \notin RvBad
    BY DEF RvBad
  <2>2. rvNeed <=> \E r \in 1..ReviewRoots : rvStatus[r] \in RvBad
    BY DEF RvInv
  <2> QED BY <1>1, <1>2, <1>3, <2>1, <2>2
<1>5. \A r \in 1..ReviewRoots : r < rvRoot => rvStatus[r] = rvTruth[r] /\ rvStatus[r] # "none"
  BY DEF RvInv, RvOver
<1>6. \A r \in 1..ReviewRoots : r > rvRoot => rvStatus[r] = "none" /\ rvTruth[r] = "none"
  <2> TAKE r \in 1..ReviewRoots
  <2> HAVE r > rvRoot
  <2>1. ~RvOver(r)
    BY <1>1 DEF RvOver
  <2> QED BY <2>1 DEF RvInv
<1>7. CASE rvRoot = ReviewRoots
  <2>1. rvStep' = "done" /\ rvRoot' = rvRoot /\ UNCHANGED <<rvChanged, rvReviews>>
    BY <1>7 DEF NextRoot
  <2>2. \A r \in 1..ReviewRoots : r = rvRoot \/ r < rvRoot
    BY <1>1, <1>7
  <2>3. \A r \in 1..ReviewRoots : rvStatus'[r] = rvTruth'[r] /\ rvStatus'[r] # "none"
    BY <1>1, <1>2, <1>5, <2>2
  <2> QED BY <1>4, <1>7, <2>1, <2>3 DEF RvInv, RvOver
<1>8. CASE rvRoot # ReviewRoots
  <2>1. rvStep' = "init" /\ rvRoot' = rvRoot + 1 /\ rvChanged' = FALSE /\ rvReviews' = FALSE
    BY <1>8 DEF NextRoot
  <2>2. RvVerdict' = "none"
    BY <2>1 DEF RvVerdict
  <2>3. rvRoot + 1 \in 1..ReviewRoots /\ rvRoot + 1 > rvRoot
    BY <1>1, <1>8
  <2>4. rvTruth'[rvRoot'] = "none"
    BY <1>1, <1>2, <1>6, <2>1, <2>3
  <2>5. \A r \in 1..ReviewRoots : r > rvRoot' => rvTruth'[r] = "none"
    BY <1>1, <1>2, <1>6, <2>1
  <2>6. \A r \in 1..ReviewRoots :
          IF r < rvRoot' THEN rvStatus'[r] = rvTruth'[r] /\ rvStatus'[r] # "none" ELSE rvStatus'[r] = "none"
    <3> TAKE r \in 1..ReviewRoots
    <3>1. CASE r < rvRoot
      BY <1>1, <1>2, <1>5, <2>1, <3>1
    <3>2. CASE r = rvRoot
      BY <1>1, <1>2, <2>1, <3>2
    <3>3. CASE r > rvRoot
      BY <1>1, <1>2, <1>6, <2>1, <3>3
    <3> QED BY <1>1, <3>1, <3>2, <3>3
  <2> QED BY <1>4, <2>1, <2>2, <2>4, <2>5, <2>6 DEF RvInv, RvOver
<1> QED BY <1>7, <1>8

(* A step of the root at hand that only goes on.                                 *)
LEMMA RvGoes ==
  ASSUME RvInv, ReviewTypeOK', rvStep # "done", rvStep' # "done", rvReviews' => rvChanged', UNCHANGED <<rvRoot, rvStatus, rvNeed>>,
         \A r \in 1..ReviewRoots : r # rvRoot => rvTruth'[r] = rvTruth[r],
         rvTruth'[rvRoot] = RvVerdict'
  PROVE  RvInv'
<1>1. rvRoot \in 1..ReviewRoots /\ ReviewRoots \in Nat
  BY ReviewAssumption DEF RvInv, ReviewTypeOK
<1>2. \A r \in 1..ReviewRoots : RvOver(r)' <=> RvOver(r)
  BY DEF RvOver
<1>3. \A r \in 1..ReviewRoots : RvOver(r) => r # rvRoot
  BY <1>1 DEF RvOver
<1>4. \A r \in 1..ReviewRoots :
        IF RvOver(r)' THEN rvStatus'[r] = rvTruth'[r] /\ rvStatus'[r] # "none" ELSE rvStatus'[r] = "none"
  BY <1>2, <1>3 DEF RvInv
<1>5. \A r \in 1..ReviewRoots : r > rvRoot' => rvTruth'[r] = "none"
  BY <1>1 DEF RvInv
<1> QED BY <1>4, <1>5 DEF RvInv

LEMMA ClassifyKeeps ==
  ASSUME PlainPaths(ReviewPaths), RvInv, ReviewTypeOK', NEW actions,
         NEW before \in ReviewValues, NEW after \in ReviewValues, ClassifyChange(actions, before, after)
  PROVE  RvInv'
<1> DEFINE outside == OutsideRules(actions, before, after, rvRules)
           still == Unchanged(actions)
<1>1. /\ rvStep = "classify" /\ UNCHANGED <<rvRoot, rvStep, rvRules, rvStatus, rvNeed>>
      /\ rvChanged' = (rvChanged \/ ~still) /\ rvReviews' = (rvReviews \/ (~still /\ outside))
  BY ReviewedIsOutside, Zenon DEF ClassifyChange
<1>2. rvTruth' = [rvTruth EXCEPT ![rvRoot] =
                   IF still THEN @ ELSE IF outside THEN "REVIEW" ELSE IF @ = "none" THEN "EXPECTED" ELSE @]
  BY Zenon DEF ClassifyChange
<1>3. /\ rvRoot \in 1..ReviewRoots /\ rvTruth \in [1..ReviewRoots -> ReviewStatuses]
      /\ rvTruth[rvRoot] = RvVerdict /\ rvChanged \in BOOLEAN /\ rvReviews \in BOOLEAN
      /\ rvReviews => rvChanged
  BY <1>1 DEF RvInv, ReviewTypeOK
<1> HIDE DEF outside, still
<1>4. \A r \in 1..ReviewRoots : r # rvRoot => rvTruth'[r] = rvTruth[r]
  BY <1>2, <1>3
<1>5. rvTruth'[rvRoot] = IF still THEN RvVerdict ELSE IF outside THEN "REVIEW"
                         ELSE IF RvVerdict = "none" THEN "EXPECTED" ELSE RvVerdict
  BY <1>2, <1>3
<1>6. rvTruth'[rvRoot] = RvVerdict'
  <2>1. CASE still
    BY <1>1, <1>3, <1>5, <2>1 DEF RvVerdict
  <2>2. CASE ~still /\ outside
    BY <1>1, <1>3, <1>5, <2>2 DEF RvVerdict
  <2>3. CASE ~still /\ ~outside
    BY <1>1, <1>3, <1>5, <2>3 DEF RvVerdict
  <2> QED BY <2>1, <2>2, <2>3
<1>7. rvReviews' => rvChanged'
  BY <1>1, <1>3
<1> QED BY <1>1, <1>4, <1>6, <1>7, RvGoes

LEMMA RvNextKeeps ==
  ASSUME PlainPaths(ReviewPaths), RvInv, [ReviewNext]_reviewVars
  PROVE  RvInv'
<1>0. ReviewTypeOK /\ ReviewTypeOK'
  BY ReviewNextKeeps DEF RvInv
<1>1. CASE UNCHANGED reviewVars
  BY <1>0, <1>1 DEF reviewVars, RvInv, RvOver, RvVerdict
<1>2. CASE RootFails
  <2>1. rvStep # "done" /\ rvNeed' = (rvNeed \/ "ERROR" \in RvBad) /\ "ERROR" \in ReviewStatuses \ {"none"}
    BY <1>2 DEF RootFails, RvBad, ReviewStatuses
  <2> QED BY <1>0, <1>2, <2>1, RootEndsKeeps DEF RootFails
<1>3. CASE RootGoes \/ ReviewAborts
  <2>1. /\ rvStep # "done" /\ rvStep' # "done"
        /\ UNCHANGED <<rvRoot, rvStatus, rvNeed, rvTruth, rvChanged, rvReviews>>
    BY <1>3 DEF RootGoes, ReviewAborts, ReviewGoto, ReviewRest
  <2>2. rvTruth'[rvRoot] = RvVerdict' /\ (rvReviews' => rvChanged')
    BY <2>1 DEF RvInv, RvVerdict
  <2> QED BY <1>0, <2>1, <2>2, RvGoes
<1>4. CASE ClassifyEnds
  <2> DEFINE status == IF ~rvChanged THEN "NOCHANGE" ELSE IF rvReviews THEN "REVIEW" ELSE "EXPECTED"
  <2>1. /\ rvStep # "done" /\ NextRoot /\ rvStatus' = [rvStatus EXCEPT ![rvRoot] = status]
        /\ rvNeed' = (rvNeed \/ status = "REVIEW")
    BY <1>4 DEF ClassifyEnds
  <2>2. rvTruth' = [rvTruth EXCEPT ![rvRoot] = IF rvTruth[rvRoot] = "none" THEN "NOCHANGE" ELSE rvTruth[rvRoot]]
    BY <1>4, Zenon DEF ClassifyEnds
  <2>3. rvTruth[rvRoot] = RvVerdict
    BY <2>1 DEF RvInv
  <2>4. (IF rvTruth[rvRoot] = "none" THEN "NOCHANGE" ELSE rvTruth[rvRoot]) = status
    BY <2>3 DEF RvVerdict
  <2>5. status \in ReviewStatuses \ {"none"} /\ (status = "REVIEW" <=> status \in RvBad)
    BY DEF ReviewStatuses, RvBad
  <2> HIDE DEF status
  <2> QED BY <1>0, <2>1, <2>2, <2>4, <2>5, RootEndsKeeps
<1> QED BY <1>0, <1>1, <1>2, <1>3, <1>4, ClassifyKeeps DEF ReviewNext

LEMMA RvSound == RvInv => RootsTruthfullyClassified /\ AttentionIsAsked
<1> SUFFICES ASSUME RvInv PROVE RootsTruthfullyClassified /\ AttentionIsAsked
  OBVIOUS
<1>1. RootsTruthfullyClassified
  BY DEF RvInv, RootsTruthfullyClassified
<1>2. rvStep = "done" => \A r \in 1..ReviewRoots : rvStatus[r] = rvTruth[r]
  BY DEF RvInv, RvOver
<1>3. AttentionIsAsked
  BY <1>2 DEF AttentionIsAsked, RvInv, RvBad
<1> QED BY <1>1, <1>3

(* Also where a value has a scalar and the other a tree, a scalar that differs is  *)
(* found at its own string: what is below it is another map.                       *)
LEMMA OutsideIsReviewed ==
  ASSUME UndottedPaths(ReviewPaths), NEW actions, NEW rules,
         NEW before \in ReviewValues, NEW after \in ReviewValues,
         OutsideRules(actions, before, after, rules)
  PROVE  NeedsReview(actions, ChangedPaths(before, after), rules)
<1>1. CASE ~ actions \subseteq rules.actions
  BY <1>1 DEF NeedsReview
<1>2. ASSUME actions = {"update"}, NEW path \in ReviewPaths,
             ScalarAt(before, path) # ScalarAt(after, path), ~NameAllowed(path, rules)
      PROVE  \E d \in ChangedPaths(before, after) : ~PathAllowed(d, rules)
  <2> DEFINE d == Dotted(path)
             Below(value) == {q \in DOMAIN value : IsPrefix(path, q)}
             Null(value) == Below(value) = {path} /\ value[path] = "null"
  <2>1. PlainPath(path)
    BY DEF UndottedPaths
  <2>2. IsPrefix(path, path)
    BY <2>1 DEF PlainPath, IsPrefix
  <2>3. \A i \in DOMAIN path : Len(path[i]) = 1
    BY <2>1 DEF PlainPath
  <2>4. ~PathAllowed(d, rules)
    BY <1>2, <2>3 DEF NameAllowed
  <2>5. path \in DOMAIN before \cup DOMAIN after
    BY <1>2 DEF ScalarAt
  <2>6. d \in ScalarPaths(before) \cup ScalarPaths(after)
    BY <2>5 DEF ScalarPaths
  <2>7. \A value : ValueAtPath(value, d) = IF Null(value) THEN <<>> ELSE [q \in Below(value) |-> value[q]]
    BY <2>1, UndottedIs DEF ValueAtPath
  <2> HIDE DEF d
  <2>8. ASSUME NEW value, NEW f, f = ValueAtPath(value, d)
        PROVE  ScalarAt(value, path) = IF path \in DOMAIN f THEN f[path] ELSE "null"
    <3>1. path \in Below(value) <=> path \in DOMAIN value
      BY <2>2
    <3> HIDE DEF Below
    <3>2. CASE Null(value)
      <4>1. f = <<>> /\ path \in Below(value) /\ value[path] = "null"
        BY <2>7, <2>8, <3>2
      <4>2. path \notin DOMAIN f
        BY <4>1
      <4> QED BY <3>1, <4>1, <4>2 DEF ScalarAt
    <3>3. CASE ~Null(value)
      <4>1. f = [q \in Below(value) |-> value[q]]
        BY <2>7, <2>8, <3>3
      <4> QED BY <3>1, <4>1 DEF ScalarAt
    <3> QED BY <3>2, <3>3
  <2>9. ValueAtPath(before, d) # ValueAtPath(after, d)
    BY <1>2, <2>8
  <2> QED BY <2>4, <2>6, <2>9 DEF ChangedPaths
<1> QED BY <1>1, <1>2 DEF OutsideRules, TouchesOther, NeedsReview

(* What needs a person is printed once its root is over, and noted before.         *)
MsInv ==
  /\ ReviewTypeOK
  /\ rvReviews => rvChanged
  /\ \A r \in 1..ReviewRoots :
       /\ ~RvOver(r) => rvStatus[r] = "none"
       /\ rvTruth[r] \in RvBad =>
            IF RvOver(r) THEN rvStatus[r] = rvTruth[r] /\ rvNeed
            ELSE r = rvRoot /\ rvTruth[r] = "REVIEW" /\ rvReviews

LEMMA MsInitKeeps == ReviewInit => MsInv
<1> SUFFICES ASSUME ReviewInit PROVE MsInv
  OBVIOUS
<1>1. ReviewTypeOK
  BY ReviewInitKeeps
<1> QED BY <1>1 DEF ReviewInit, MsInv, RvBad

LEMMA MsRootEnds ==
  ASSUME MsInv, rvStep # "done", ReviewTypeOK', NextRoot,
         NEW status \in ReviewStatuses \ {"none"}, NEW truth \in ReviewStatuses,
         rvStatus' = [rvStatus EXCEPT ![rvRoot] = status],
         rvTruth' = [rvTruth EXCEPT ![rvRoot] = truth],
         rvNeed' = (rvNeed \/ status \in RvBad), truth \in RvBad => status = truth
  PROVE  MsInv'
<1>1. /\ rvRoot \in 1..ReviewRoots /\ ReviewRoots \in Nat \ {0}
      /\ rvStatus \in [1..ReviewRoots -> ReviewStatuses] /\ rvTruth \in [1..ReviewRoots -> ReviewStatuses]
  BY ReviewAssumption DEF MsInv, ReviewTypeOK
<1>2. /\ rvStatus'[rvRoot] = status /\ rvTruth'[rvRoot] = truth
      /\ \A r \in 1..ReviewRoots : r # rvRoot => rvStatus'[r] = rvStatus[r] /\ rvTruth'[r] = rvTruth[r]
  BY <1>1
<1>3. rvReviews' => rvChanged'
  BY DEF NextRoot, MsInv
<1>4. \A r \in 1..ReviewRoots : r # rvRoot =>
        /\ rvTruth'[r] \in RvBad => RvOver(r) /\ rvStatus'[r] = rvTruth'[r] /\ rvNeed'
        /\ ~RvOver(r) => rvStatus'[r] = "none"
  BY <1>2 DEF MsInv
<1>5. \A r \in 1..ReviewRoots : RvOver(r)' <=> RvOver(r) \/ r = rvRoot
  <2>1. CASE rvRoot = ReviewRoots
    <3>1. rvStep' = "done" /\ \A r \in 1..ReviewRoots : r < rvRoot \/ r = rvRoot
      BY <1>1, <2>1 DEF NextRoot
    <3> QED BY <3>1 DEF RvOver
  <2>2. CASE rvRoot # ReviewRoots
    <3>1. rvStep' = "init" /\ rvRoot' = rvRoot + 1
      BY <2>2 DEF NextRoot
    <3>2. \A r \in 1..ReviewRoots : r < rvRoot + 1 <=> r < rvRoot \/ r = rvRoot
      BY <1>1
    <3> QED BY <3>1, <3>2 DEF RvOver
  <2> QED BY <2>1, <2>2
<1>6. \A r \in 1..ReviewRoots :
        /\ ~RvOver(r)' => rvStatus'[r] = "none"
        /\ rvTruth'[r] \in RvBad => RvOver(r)' /\ rvStatus'[r] = rvTruth'[r] /\ rvNeed'
  <2> TAKE r \in 1..ReviewRoots
  <2>1. CASE r = rvRoot
    BY <1>2, <1>5, <2>1
  <2>2. CASE r # rvRoot
    BY <1>4, <1>5, <2>2
  <2> QED BY <2>1, <2>2
<1> QED BY <1>3, <1>6 DEF MsInv

LEMMA MsGoes ==
  ASSUME MsInv, ReviewTypeOK', rvStep # "done", rvStep' # "done", rvReviews' => rvChanged',
         UNCHANGED <<rvRoot, rvStatus, rvNeed>>,
         \A r \in 1..ReviewRoots : r # rvRoot => rvTruth'[r] = rvTruth[r],
         rvTruth'[rvRoot] \in RvBad => rvTruth'[rvRoot] = "REVIEW" /\ rvReviews'
  PROVE  MsInv'
<1>1. rvRoot \in 1..ReviewRoots /\ ReviewRoots \in Nat
  BY ReviewAssumption DEF MsInv, ReviewTypeOK
<1>2. \A r \in 1..ReviewRoots : (RvOver(r)' <=> RvOver(r)) /\ (RvOver(r) => r # rvRoot)
  BY <1>1 DEF RvOver
<1>3. \A r \in 1..ReviewRoots :
        /\ ~RvOver(r)' => rvStatus'[r] = "none"
        /\ rvTruth'[r] \in RvBad =>
             IF RvOver(r)' THEN rvStatus'[r] = rvTruth'[r] /\ rvNeed'
             ELSE r = rvRoot' /\ rvTruth'[r] = "REVIEW" /\ rvReviews'
  <2> TAKE r \in 1..ReviewRoots
  <2>1. CASE r = rvRoot
    BY <1>2, <2>1 DEF MsInv
  <2>2. CASE r # rvRoot
    BY <1>2, <2>2 DEF MsInv
  <2> QED BY <2>1, <2>2
<1> QED BY <1>3 DEF MsInv

LEMMA MsNextKeeps ==
  ASSUME UndottedPaths(ReviewPaths), MsInv, [ReviewNext]_reviewVars
  PROVE  MsInv'
<1>0. ReviewTypeOK /\ ReviewTypeOK'
  BY ReviewNextKeeps DEF MsInv
<1>1. CASE UNCHANGED reviewVars
  BY <1>0, <1>1 DEF reviewVars, MsInv, RvOver
<1>2. CASE RootFails
  <2>1. rvStep # "done" /\ rvNeed' = (rvNeed \/ "ERROR" \in RvBad) /\ "ERROR" \in ReviewStatuses \ {"none"}
    BY <1>2 DEF RootFails, RvBad, ReviewStatuses
  <2> QED BY <1>0, <1>2, <2>1, MsRootEnds DEF RootFails
<1>3. rvStep # "done" => /\ rvRoot \in 1..ReviewRoots /\ (rvReviews => rvChanged)
                         /\ rvTruth[rvRoot] \in RvBad => rvTruth[rvRoot] = "REVIEW" /\ rvReviews
  <2> HAVE rvStep # "done"
  <2>1. rvRoot \in 1..ReviewRoots /\ ~RvOver(rvRoot)
    BY <1>0 DEF ReviewTypeOK, RvOver
  <2> QED BY <2>1 DEF MsInv
<1>4. CASE RootGoes \/ ReviewAborts
  <2>1. /\ rvStep # "done" /\ rvStep' # "done"
        /\ UNCHANGED <<rvRoot, rvStatus, rvNeed, rvTruth, rvChanged, rvReviews>>
    BY <1>4 DEF RootGoes, ReviewAborts, ReviewGoto, ReviewRest
  <2> QED BY <1>0, <1>3, <2>1, MsGoes
<1>5. CASE ClassifyEnds
  <2> DEFINE status == IF ~rvChanged THEN "NOCHANGE" ELSE IF rvReviews THEN "REVIEW" ELSE "EXPECTED"
             truth == IF rvTruth[rvRoot] = "none" THEN "NOCHANGE" ELSE rvTruth[rvRoot]
  <2>1. /\ rvStep # "done" /\ NextRoot /\ rvStatus' = [rvStatus EXCEPT ![rvRoot] = status]
        /\ rvNeed' = (rvNeed \/ status = "REVIEW")
    BY <1>5 DEF ClassifyEnds
  <2>2. rvTruth' = [rvTruth EXCEPT ![rvRoot] = truth]
    BY <1>5, Zenon DEF ClassifyEnds
  <2>3. truth \in RvBad => status = truth
    BY <1>3, <2>1 DEF RvBad
  <2>4. truth \in ReviewStatuses
    BY <1>0, <1>3, <2>1 DEF ReviewTypeOK, ReviewStatuses
  <2>5. status \in ReviewStatuses \ {"none"} /\ (status = "REVIEW" <=> status \in RvBad)
    BY DEF ReviewStatuses, RvBad
  <2> HIDE DEF status, truth
  <2> QED BY <1>0, <2>1, <2>2, <2>3, <2>4, <2>5, MsRootEnds
<1>6. ASSUME NEW actions \in ReviewActions, NEW before \in ReviewValues, NEW after \in ReviewValues,
             ClassifyChange(actions, before, after)
      PROVE  MsInv'
  <2> DEFINE outside == OutsideRules(actions, before, after, rvRules)
             still == Unchanged(actions)
             reported == NeedsReview(actions, ChangedPaths(before, after), rvRules)
  <2>1. /\ rvStep # "done" /\ UNCHANGED <<rvRoot, rvStep, rvStatus, rvNeed>>
        /\ rvChanged' = (rvChanged \/ ~still) /\ rvReviews' = (rvReviews \/ (~still /\ reported))
    BY <1>6, Zenon DEF ClassifyChange
  <2>2. rvTruth' = [rvTruth EXCEPT ![rvRoot] =
                     IF still THEN @ ELSE IF outside THEN "REVIEW" ELSE IF @ = "none" THEN "EXPECTED" ELSE @]
    BY <1>6, Zenon DEF ClassifyChange
  <2>3. outside => reported
    BY OutsideIsReviewed
  <2>4. rvTruth \in [1..ReviewRoots -> ReviewStatuses] /\ rvRoot \in 1..ReviewRoots
    BY <1>0 DEF ReviewTypeOK
  <2> HIDE DEF outside, still, reported
  <2>5. \A r \in 1..ReviewRoots : r # rvRoot => rvTruth'[r] = rvTruth[r]
    BY <2>2, <2>4
  <2>6. rvTruth'[rvRoot] = IF still THEN rvTruth[rvRoot] ELSE IF outside THEN "REVIEW"
                           ELSE IF rvTruth[rvRoot] = "none" THEN "EXPECTED" ELSE rvTruth[rvRoot]
    BY <2>2, <2>4
  <2>7. rvTruth'[rvRoot] \in RvBad => rvTruth'[rvRoot] = "REVIEW" /\ rvReviews'
    BY <1>3, <2>1, <2>3, <2>6 DEF RvBad
  <2>8. rvReviews' => rvChanged'
    BY <1>3, <2>1
  <2> QED BY <1>0, <2>1, <2>5, <2>7, <2>8, MsGoes
<1> QED BY <1>1, <1>2, <1>4, <1>5, <1>6 DEF ReviewNext

LEMMA MsSound == MsInv => NoReviewIsMissed
<1> SUFFICES ASSUME MsInv PROVE NoReviewIsMissed
  OBVIOUS
<1>1. ASSUME NEW r \in 1..ReviewRoots, rvStatus[r] # "none", rvTruth[r] \in {"ERROR", "REVIEW"}
      PROVE  rvStatus[r] = rvTruth[r]
  BY <1>1 DEF MsInv, RvBad
<1>2. ASSUME rvStep = "done", NEW r \in 1..ReviewRoots, rvTruth[r] \in {"ERROR", "REVIEW"}
      PROVE  rvNeed
  BY <1>2 DEF MsInv, RvBad, RvOver
<1> QED BY <1>1, <1>2 DEF NoReviewIsMissed

-----------------------------------------------------------------------------
(* The commands together *)

CommandsInv ==
  TfInv /\ ReviewTypeOK /\ ClInv /\ WsInv /\ SvInv /\ RgInv /\ WpInv /\ BlInv /\ WkInv

(* What a step does to each part. *)
CommandsKeep == WpKeepsOne /\ RgKeeps /\ BlKeeps /\ WkKept(svStack, svStack')

(* A step of the server changes the list only as an operator of bb mcp allow does. *)
LEMMA ServerAllows == ServerNext => AllowNext \/ UNCHANGED allowVars
<1> SUFFICES ASSUME ServerNext PROVE AllowNext \/ UNCHANGED allowVars
  OBVIOUS
<1>1. CASE OperatorAllows
  BY <1>1 DEF OperatorAllows
<1>2. ASSUME NEW request, NEW call, ReadRequest(request, call) PROVE ServerQuiet
  BY <1>2, Zenon DEF ReadRequest
<1>3. HandleRequest \/ ExecFails \/ ChildWaited => ServerQuiet
  BY Zenon DEF HandleRequest, ExecFails, ChildWaited
<1>4. AuthorizeExec => ServerQuiet
  BY Zenon DEF AuthorizeExec
<1>5. ResolveExec \/ StartChild \/ ChildExits \/ OutputCloses \/ TimerFires => ServerQuiet
  BY Zenon DEF ResolveExec, StartChild, ChildExits, OutputCloses, TimerFires, ServerKeeps
<1> QED BY <1>1, <1>2, <1>3, <1>4, <1>5 DEF ServerNext, ServerQuiet

LEMMA CommandsInitKeeps == CommandsInit => CommandsInv
BY TerraformInitKeeps, ReviewInitKeeps, CleanInitKeeps, WorkspaceInitKeeps, ServerInitKeeps,
   RegistryInitKeeps, WenvInitKeeps, ListInitKeeps, WalkInitKeeps
   DEF CommandsInit, CommandsInv

(* Each module's state makes a step of its own, or none. *)
LEMMA CommandsStepIs ==
  ASSUME [CommandsNext]_commandsVars
  PROVE  /\ [TerraformNext]_terraformVars /\ [ReviewNext]_reviewVars /\ [CleanNext]_cleanVars
         /\ [WorkspaceNext]_workspaceVars /\ [ServerNext]_<<allowVars, serverVars>>
         /\ [RegistryNext]_registryVars /\ [WenvNext]_wenvVars /\ [ListNext]_listVars /\ [WalkNext]_walkVars
<1>1. CASE UNCHANGED commandsVars
  BY <1>1 DEF commandsVars
<1>2. CASE CommandsNext
  BY <1>2, Zenon DEF CommandsNext, Keeps
<1> QED BY <1>1, <1>2

LEMMA CommandsNextKeeps == CommandsInv /\ [CommandsNext]_commandsVars => CommandsInv' /\ CommandsKeep
BY CommandsStepIs, TerraformNextKeeps, ReviewNextKeeps, CleanNextKeeps, WorkspaceNextKeeps, ServerNextKeeps,
   RegistryNextKeeps, WenvNextKeeps, ListNextKeeps, WalkNextKeeps
   DEF CommandsInv, CommandsKeep

LEMMA CommandsInvariant == CommandsSpec => []CommandsInv
BY CommandsInitKeeps, CommandsNextKeeps, PTL DEF CommandsSpec

(* What bb does after a question is what the person was asked about: the plan    *)
(* whose hash was shown, with the session and the account it was shown under;    *)
(* addresses and files that are still the listed ones; the preset, the session   *)
(* and the projects on the screen (tfx.go:378, 420, 753, 1344, wenv.go:271,      *)
(* tm.go:395, 440).                                                              *)
THEOREM ConfirmedOnlyIsDone == CommandsSpec => []ConfirmedIsWhatIsDone
<1>1. CommandsInv => ConfirmedIsWhatIsDone
  BY DEF CommandsInv, ConfirmedIsWhatIsDone, TfInv, TfRunSound, ClInv, WpInv, WsInv, WsDoneSound
<1> QED BY <1>1, CommandsInvariant, PTL

(* Every command the MCP server runs was permitted at some moment since its      *)
(* request was read, and every request is answered once, also after a time-out.  *)
(* The audit has an entry of every run and refusal but those whose entry could   *)
(* not be written, and runs whose Wait gave no exit status (mcp_serve.go:1254,   *)
(* 1318, 1342, 1432).                                                            *)
THEOREM EveryRunAccountedFor == CommandsSpec => []RunsAccountedFor
<1>1. CommandsInv => RunsAccountedFor
  BY SvAccounts DEF CommandsInv
<1> QED BY <1>1, CommandsInvariant, PTL

(* The list of permitted commands means what it lists, whatever is added, merged *)
(* and unbound, and taking away never lets more run (mcp_serve.go:176, 542).     *)
THEOREM AllowListSound == CommandsSpec => AllowListHolds
<1>1. CommandsInv => ListedBindingsHold
  BY ListedBindingsFollow DEF CommandsInv, SvInv
<1>2. CommandsInv /\ [CommandsNext]_commandsVars
        => [Revokes(maRules, maRules') /\ maScope' = maScope
            => AllowedRuns(maRules', maScope') \subseteq AllowedRuns(maRules, maScope)]_allowVars
  <2> SUFFICES ASSUME CommandsInv, [CommandsNext]_commandsVars,
                      Revokes(maRules, maRules'), maScope' = maScope, ~UNCHANGED allowVars
               PROVE  AllowedRuns(maRules', maScope') \subseteq AllowedRuns(maRules, maScope)
    BY Zenon
  <2>1. AlInv
    BY DEF CommandsInv, SvInv
  <2>2. ServerNext
    BY CommandsStepIs
  <2> QED BY <2>1, <2>2, ServerAllows, RevokingNarrows
<1> QED BY <1>1, <1>2, CommandsInvariant, PTL DEF CommandsSpec, AllowListHolds, RevokingNeverWidens

(* No secret is ever in the presets' file in plain, no change of a variable      *)
(* leaves a preset without one; a directory is registered once, and opening a    *)
(* project carries its old session over (wenv.go:205, 639, app.go:249,           *)
(* sessionizer.go:129, tm.go:208).                                               *)
THEOREM PresetsAndProjectsSound == CommandsSpec => PresetsAndProjectsHold
<1>1. CommandsInv => NoPlainSecrets /\ ProjectsHold
  BY DEF CommandsInv, WpInv, ProjectsHold, WsInv, WsDoneSound
<1>2. CommandsInv /\ [CommandsNext]_commandsVars => [WpKeepsOne]_wenvVars
  BY CommandsNextKeeps DEF CommandsKeep
<1> QED BY <1>1, <1>2, CommandsInvariant, PTL
        DEF CommandsSpec, PresetsAndProjectsHold, PresetsHold, OneVariableStays, WpKeepsOne

(* An edit of a registered server's transport is accepted, what an adopted       *)
(* server refers to is there unless bb sec changed it while it was referred to,  *)
(* a client loses its registration only to get the new one, and taking an        *)
(* adoption back takes its own fields (mcp.go:434, 580, mcp_adopt.go:534, 547).  *)
THEOREM RegistrySafe == CommandsSpec => RegistryHolds
<1>1. CommandsInv => TransportEditAccepted /\ AdoptedReferencesResolve
  BY RegistrySound DEF CommandsInv
<1>2. CommandsInv /\ [CommandsNext]_commandsVars =>
        /\ [\A c \in Clients : mrClients[c] # "none" /\ mrClients'[c] = "none" =>
              \E p \in McpProcs : mrOps'[p].client = c /\ mrOps'[p].pc = "add"]_registryVars
        /\ [\A p \in McpProcs : mrOps[p].pc = "takeout" /\ mrOps'[p] = McpIdle =>
              mrFields \ mrFields' \subseteq References(mrOps[p].server)]_registryVars
  BY CommandsNextKeeps, Zenon DEF CommandsKeep, RgKeeps
<1> QED BY <1>1, <1>2, CommandsInvariant, PTL
        DEF CommandsSpec, RegistryHolds, RegistrationKept, RollbackTakesItsOwn

(* In the browser's list and in the selector the row that enter takes is one of  *)
(* the list and stays shown while keys move it; a walk comes out where it led,   *)
(* and a level gone back to is as it was left (view.go:487, select.go:407, 566). *)
THEOREM SelectionsSound == CommandsSpec => SelectionsHold
<1>1. CommandsInv => UnfilteredOpenSucceeds /\ OutcomeIsAPath /\ CursorInSight
  BY WalkSound DEF CommandsInv, BlInv
<1>2. CommandsInv /\ [CommandsNext]_commandsVars =>
        /\ [blRows' = blRows /\ (blMatches' = blMatches \/ blFilter' # blFilter) /\ SelectedIsShown
              => SelectedIsShown']_listVars
        /\ [\A i \in DOMAIN svStack \cap DOMAIN svStack' :
               i < Len(svStack) \/ Len(svStack') > Len(svStack) =>
                  /\ svStack'[i].query = svStack[i].query /\ svStack'[i].matches = svStack[i].matches
                  /\ svStack'[i].cursor = svStack[i].cursor]_walkVars
  BY CommandsNextKeeps, Zenon DEF CommandsKeep, BlKeeps, WkKept
<1> QED BY <1>1, <1>2, CommandsInvariant, PTL
        DEF CommandsSpec, SelectionsHold, SelectionHolds, KeysKeepSelectionShown, WalkHolds, LevelsKept

(* Every command's state keeps its types, also when another one runs.            *)
THEOREM CommandsTypes == CommandsSpec => []CommandsTypeOK
<1>1. CommandsInv => CommandsTypeOK
  BY WsInvTypeOK, WalkSound
     DEF CommandsInv, CommandsTypeOK, TfInv, ClInv, SvInv, AlInv, RgInv, WpInv, BlInv
<1> QED BY <1>1, CommandsInvariant, PTL

(* For names without dots, what review prints for each root is what the root's   *)
(* plan means under its rules, whatever failed in the roots before it, and its   *)
(* exit code asks for attention exactly if a root failed or needs a review;      *)
(* clean says that it removed what it listed only if it did (tfx.go:960, 1141,   *)
(* 1347).                                                                        *)
THEOREM ReviewAndCleanReportTruly ==
  ASSUME PlainPaths(ReviewPaths)
  PROVE  CommandsSpec => []ReportsAreTrue
<1>1. CommandsInit => RvInv
  BY RvInitKeeps DEF CommandsInit
<1>2. RvInv /\ [CommandsNext]_commandsVars => RvInv'
  BY CommandsStepIs, RvNextKeeps
<1>3. RvInv /\ CommandsInv => ReportsAreTrue
  BY RvSound DEF CommandsInv, ClInv, ReportsAreTrue
<1> QED BY <1>1, <1>2, <1>3, CommandsInvariant, PTL DEF CommandsSpec

(* A scalar may also become a tree, or a tree a scalar: review then reports more   *)
(* than changed, but it never misses a root that failed or that its rules do not   *)
(* cover, and its exit code never hides one (tfx.go:944, 1141).                    *)
THEOREM ReviewMissesNothing ==
  ASSUME UndottedPaths(ReviewPaths)
  PROVE  CommandsSpec => []NoReviewIsMissed
<1>1. CommandsInit => MsInv
  BY MsInitKeeps DEF CommandsInit
<1>2. MsInv /\ [CommandsNext]_commandsVars => MsInv'
  BY CommandsStepIs, MsNextKeeps
<1> QED BY <1>1, <1>2, MsSound, PTL DEF CommandsSpec
=============================================================================
