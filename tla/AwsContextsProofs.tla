------------------------- MODULE AwsContextsProofs -------------------------
(***************************************************************************)
(* What holds of the contexts of the AWS browser for any number of         *)
(* queries, principals, pages and renewals: resolutions of a context are   *)
(* one at a time, the gate of a runtime is held by the query inside a      *)
(* read, a page was read with the credentials its key names, and a query   *)
(* is told that its context has changed only when it has.                  *)
(***************************************************************************)
EXTENDS AwsContexts, TLAPS

Verifying == {"verify", "verified"}
(* Steps of a query that nobody else uses the runtime of. *)
Using == Gated \cup Verifying

Jobs == [step : Steps, stage : Stages, runtime : Runtimes \cup {None}, key : Identities,
         expected : Identities, by : Identities, attempt : {1, 2}, next : {"bind", "reject"},
         read : Nat, pages : SUBSET Identities, cancelled : BOOLEAN]

Built == [gen : Nat, principal : Principals \cup {None}, valid : BOOLEAN, fetching : BOOLEAN,
          identity : Identities, changed : BOOLEAN, gate : Queries \cup {None}]

Entries == [state : {"absent", "resolving", "ready"}, runtime : Runtimes \cup {None}, gen : Nat]

(* An identity that a runtime has now, or had before a renewal. *)
Had(identity, run) ==
  /\ identity.gen <= run.gen
  /\ identity.gen = run.gen => identity.principal = run.principal

RunInv(run) == ~(run.valid /\ run.fetching) /\ Had(run.identity, run)

(* Where a query is tells its stage and whether it has a runtime. *)
Placed(q, job) ==
  /\ job.step \in {"idle", "identify", "fence"} => job.stage = "subscribe"
  /\ job.step \in {"match", "acquire"} \cup Gated => job.stage = "execute"
  /\ job.step \in {"identify", "match", "acquire"} \cup Using => job.runtime \in Runtimes
  /\ job.step \in Verifying => job.runtime = <<q, job.stage>>

(* The gate is held by the query inside a read of the runtime. *)
Holds(q, job, rt) ==
  \A r \in Runtimes : rt[r].gate = q <=> job.step \in Gated /\ r = job.runtime

(* An identity is read from an answer while its credentials stay; a page *)
(* may come with newer credentials than expected.                        *)
Answered(job, rt) ==
  /\ job.step = "returned" => /\ Had(job.by, rt[job.runtime])
                              /\ job.expected.gen <= job.by.gen
  /\ job.step \in {"verified", "confirmed"} =>
       /\ job.by = Identity(rt[job.runtime].principal, rt[job.runtime].gen)
       /\ ~rt[job.runtime].fetching

(* A call is made while the identity is that of the key. *)
CalledUnderKey(job, rt) ==
  job.step \in {"call", "returned"} =>
    job.expected = job.key /\ rt[job.runtime].identity = job.key

Kept(job) == /\ job.pages \subseteq {job.key}
             /\ job.stage = "subscribe" => job.pages = {}

JobInv(q, job, rt) ==
  Placed(q, job) /\ Holds(q, job, rt) /\ Answered(job, rt) /\ CalledUnderKey(job, rt) /\ Kept(job)

(* A resolution is under way exactly when the registry says so. *)
Resolutions ==
  /\ OneResolution
  /\ entry.state = "resolving" <=> \E q \in Queries : query[q].step \in Resolving

(* A runtime whose resolution has not ended, or has not begun, *)
Hidden(job, stage) ==
  \/ job.stage = "subscribe" /\ stage = "execute"
  \/ job.stage = stage /\ job.step \in {"idle", "lookup"} \cup Resolving

(* is known to nobody but the query that resolves it. *)
Private == \A q \in Queries, stage \in Stages : Hidden(query[q], stage) =>
  /\ entry.runtime # <<q, stage>>
  /\ \A p \in Queries \ {q} : query[p].runtime # <<q, stage>>

IInv ==
  /\ entry \in Entries
  /\ entry.state = "ready" => entry.runtime \in Runtimes
  /\ runtime \in [Runtimes -> Built] /\ query \in [Queries -> Jobs] /\ profile \in Principals
  /\ \A r \in Runtimes : RunInv(runtime[r])
  /\ \A q \in Queries : JobInv(q, query[q], runtime)
  /\ Resolutions
  /\ Private

-----------------------------------------------------------------------------
(* How steps keep the invariant *)

LEMMA Constants == /\ None \notin Queries /\ None \notin Runtimes
                   /\ NoIdentity \in Identities /\ NoIdentity.gen = 0 /\ NoIdentity.principal = None
BY ContextsAssumption DEF NoIdentity, Identity, Identities

LEMMA InitIInv == Init => IInv
<1> SUFFICES ASSUME Init PROVE IInv
  OBVIOUS
<1>1. Fresh \in Jobs /\ Fresh.step = "idle" /\ Fresh.stage = "subscribe" /\ Fresh.pages = {}
      /\ Fresh.runtime = None
  BY Constants DEF Fresh, Jobs, Steps, Stages
<1>2. Unbuilt \in Built /\ RunInv(Unbuilt) /\ Unbuilt.gate = None
  BY Constants DEF Unbuilt, Built, RunInv, Had
<1>3. NoEntry \in Entries /\ NoEntry.state = "absent" /\ NoEntry.runtime = None
  BY DEF NoEntry, Entries
<1>4. /\ entry = NoEntry /\ \A r \in Runtimes : runtime[r] = Unbuilt
      /\ \A q \in Queries : query[q] = Fresh
      /\ runtime \in [Runtimes -> Built] /\ query \in [Queries -> Jobs] /\ profile \in Principals
  BY <1>1, <1>2 DEF Init
<1>5. \A q \in Queries : JobInv(q, query[q], runtime)
  BY <1>1, <1>2, <1>4, Constants
     DEF JobInv, Placed, Holds, Answered, CalledUnderKey, Kept, Using, Verifying, Gated
<1>6. Resolutions
  BY <1>1, <1>3, <1>4 DEF Resolutions, OneResolution, Resolving
<1>7. Private
  <2>1. \A q \in Queries, stage \in Stages : <<q, stage>> # None
    BY Constants DEF Runtimes
  <2> QED BY <2>1, <1>1, <1>3, <1>4 DEF Private
<1> QED BY <1>2, <1>3, <1>4, <1>5, <1>6, <1>7 DEF IInv

(* Two queries that use a runtime do not use the same one. *)
LEMMA Alone ==
  ASSUME IInv, NEW p \in Queries, NEW q \in Queries, p # q,
         query[p].step \in Using, query[q].step \in Using
  PROVE  query[p].runtime # query[q].runtime
<1>1. /\ query[p].runtime \in Runtimes /\ query[q].runtime \in Runtimes
      /\ query[p] \in Jobs /\ query[q] \in Jobs
  BY DEF IInv, JobInv, Placed
<1>2. CASE query[p].step \in Gated /\ query[q].step \in Gated
  BY <1>1, <1>2 DEF IInv, JobInv, Holds
<1>3. ASSUME NEW a \in Queries, NEW b \in Queries, a # b, query[a].step \in Verifying
      PROVE  query[b].runtime # query[a].runtime
  <2>1. query[a].runtime = <<a, query[a].stage>> /\ query[a].stage \in Stages
    BY <1>3 DEF IInv, JobInv, Placed, Jobs
  <2>2. Hidden(query[a], query[a].stage)
    BY <1>3 DEF Hidden, Verifying, Resolving
  <2> QED BY <1>3, <2>1, <2>2 DEF IInv, Private
<1> QED BY <1>2, <1>3 DEF Using

(* A step of q that leaves alone the runtimes others use, and their gates. *)
LEMMA Move ==
  ASSUME IInv, NEW q \in Queries, NEW job \in Jobs,
         query' = [query EXCEPT ![q] = job], profile' \in Principals,
         entry' \in Entries, entry'.state = "ready" => entry'.runtime \in Runtimes,
         runtime' \in [Runtimes -> Built], \A r \in Runtimes : RunInv(runtime'[r]),
         JobInv(q, job, runtime'),
         \A p \in Queries \ {q} :
           /\ query[p].step \in Using => runtime'[query[p].runtime] = runtime[query[p].runtime]
           /\ \A r \in Runtimes : runtime'[r].gate = p <=> runtime[r].gate = p,
         Resolutions', Private'
  PROVE  IInv'
<1>1. query' \in [Queries -> Jobs] /\ query'[q] = job /\ \A p \in Queries \ {q} : query'[p] = query[p]
  BY DEF IInv
<1>2. ASSUME NEW p \in Queries, p # q PROVE JobInv(p, query[p], runtime')
  <2>1. JobInv(p, query[p], runtime)
    BY DEF IInv
  <2> QED BY <1>2, <2>1
          DEF JobInv, Holds, Answered, CalledUnderKey, Using, Verifying, Gated
<1>3. \A p \in Queries : JobInv(p, query'[p], runtime')
  BY <1>1, <1>2
<1> QED BY <1>1, <1>3 DEF IInv

(* The query goes on with its resolution, or has none before and after. *)
LEMMA SameResolution ==
  ASSUME IInv, NEW q \in Queries, NEW job \in Jobs, query' = [query EXCEPT ![q] = job],
         job.step \in Resolving <=> query[q].step \in Resolving,
         entry'.state = "resolving" <=> entry.state = "resolving"
  PROVE  Resolutions'
BY DEF IInv, Resolutions, OneResolution

LEMMA EndResolution ==
  ASSUME IInv, NEW q \in Queries, NEW job \in Jobs, query' = [query EXCEPT ![q] = job],
         query[q].step \in Resolving, job.step \notin Resolving, entry'.state # "resolving"
  PROVE  Resolutions'
BY DEF IInv, Resolutions, OneResolution

(* Nobody gets to know a hidden runtime. *)
LEMMA StillPrivate ==
  ASSUME IInv, NEW q \in Queries, NEW job \in Jobs, query' = [query EXCEPT ![q] = job],
         entry'.runtime \in {entry.runtime, None},
         job.runtime \in {query[q].runtime, entry.runtime},
         \A stage \in Stages : Hidden(job, stage) => Hidden(query[q], stage)
  PROVE  Private'
<1> SUFFICES ASSUME NEW a \in Queries, NEW stage \in Stages, Hidden(query'[a], stage)
             PROVE  /\ entry'.runtime # <<a, stage>>
                    /\ \A p \in Queries \ {a} : query'[p].runtime # <<a, stage>>
  BY DEF Private
<1>1. Hidden(query[a], stage)
  BY DEF IInv
<1>2. /\ entry.runtime # <<a, stage>>
      /\ \A p \in Queries \ {a} : query[p].runtime # <<a, stage>>
  BY <1>1 DEF IInv, Private
<1>3. None # <<a, stage>>
  BY Constants DEF Runtimes
<1> QED BY <1>2, <1>3 DEF IInv

(* A step of q that changes nothing but the query itself. *)
LEMMA Quiet ==
  ASSUME IInv, NEW q \in Queries, NEW job \in Jobs, query' = [query EXCEPT ![q] = job],
         UNCHANGED <<entry, runtime, profile>>,
         JobInv(q, job, runtime),
         job.step \in Resolving <=> query[q].step \in Resolving,
         job.runtime \in {query[q].runtime, entry.runtime},
         \A stage \in Stages : Hidden(job, stage) => Hidden(query[q], stage)
  PROVE  IInv'
<1>1. Resolutions'
  BY SameResolution
<1>2. Private'
  BY StillPrivate
<1> QED BY <1>1, <1>2, Move DEF IInv

-----------------------------------------------------------------------------
(* Steps that change nothing but the query *)

LEMMA BeginKeeps == ASSUME IInv, NEW q \in Queries, Begin(q) PROVE IInv'
<1> DEFINE job == [query[q] EXCEPT !.step = "lookup"]
<1>1. /\ job \in Jobs /\ job.step = "lookup" /\ job.stage = query[q].stage
      /\ job.runtime = query[q].runtime /\ job.pages = query[q].pages /\ job.key = query[q].key
      /\ query[q].step = "idle"
  BY DEF Begin, IInv, Jobs, Steps
<1>2. query' = [query EXCEPT ![q] = job] /\ UNCHANGED <<entry, runtime, profile>>
  BY DEF Begin, Go, env
<1>3. JobInv(q, query[q], runtime)
  BY DEF IInv
<1> HIDE DEF job
<1>4. JobInv(q, job, runtime)
  BY <1>1, <1>3 DEF JobInv, Placed, Holds, Answered, CalledUnderKey, Kept, Using, Verifying, Gated
<1>5. \A stage \in Stages : Hidden(job, stage) => Hidden(query[q], stage)
  BY <1>1 DEF Hidden
<1> QED BY <1>1, <1>2, <1>4, <1>5, Quiet DEF Resolving

LEMMA TakeRuntimeKeeps == ASSUME IInv, NEW q \in Queries, TakeRuntime(q) PROVE IInv'
<1> DEFINE next == IF query[q].stage = "subscribe" THEN "identify" ELSE "match"
           job == [query[q] EXCEPT !.runtime = entry.runtime, !.step = next]
<1>1. /\ job \in Jobs /\ job.step = next /\ job.stage = query[q].stage
      /\ job.runtime = entry.runtime /\ job.pages = query[q].pages /\ job.key = query[q].key
      /\ query[q].step = "lookup" /\ entry.runtime \in Runtimes /\ query[q].stage \in Stages
  BY DEF TakeRuntime, Current, IInv, Jobs, Steps
<1>2. query' = [query EXCEPT ![q] = job] /\ UNCHANGED <<entry, runtime, profile>>
  BY DEF TakeRuntime, IInv, env
<1>3. JobInv(q, query[q], runtime)
  BY DEF IInv
<1> HIDE DEF job
<1>4. JobInv(q, job, runtime)
  BY <1>1, <1>3
     DEF JobInv, Placed, Holds, Answered, CalledUnderKey, Kept, Using, Verifying, Gated, Stages
<1>5. \A stage \in Stages : Hidden(job, stage) => Hidden(query[q], stage)
  BY <1>1 DEF Hidden, Resolving
<1> QED BY <1>1, <1>2, <1>4, <1>5, Quiet DEF Resolving

LEMMA IdentifyKeeps == ASSUME IInv, NEW q \in Queries, Identify(q) PROVE IInv'
<1> DEFINE job == [query[q] EXCEPT !.key = runtime[Own(q)].identity, !.step = "fence"]
<1>1. query[q].step = "identify" /\ JobInv(q, query[q], runtime)
  BY DEF Identify, IInv
<1>2. Own(q) \in Runtimes /\ query[q].stage = "subscribe" /\ query[q].pages = {}
  BY <1>1 DEF JobInv, Placed, Kept, Own
<1>3. runtime[Own(q)].identity \in Identities
  BY <1>2 DEF IInv, Built
<1>4. /\ job \in Jobs /\ job.step = "fence" /\ job.stage = query[q].stage
      /\ job.runtime = query[q].runtime /\ job.pages = {}
  <2>1. query[q] \in Jobs
    BY DEF IInv
  <2> QED BY <1>2, <1>3, <2>1 DEF Jobs, Steps
<1>5. query' = [query EXCEPT ![q] = job] /\ UNCHANGED <<entry, runtime, profile>>
  BY DEF Identify, IInv, env
<1> HIDE DEF job
<1>6. JobInv(q, job, runtime)
  BY <1>1, <1>2, <1>4
     DEF JobInv, Placed, Holds, Answered, CalledUnderKey, Kept, Using, Verifying, Gated
<1>7. \A stage \in Stages : Hidden(job, stage) => Hidden(query[q], stage)
  BY <1>4 DEF Hidden, Resolving
<1> QED BY <1>1, <1>4, <1>5, <1>6, <1>7, Quiet DEF Resolving

LEMMA FenceKeeps == ASSUME IInv, NEW q \in Queries, Fence(q) PROVE IInv'
<1> DEFINE late == [query[q] EXCEPT !.step = "rejected"]
           ours == [query[q] EXCEPT !.stage = "execute", !.step = "lookup"]
<1>1. query[q].step = "fence" /\ JobInv(q, query[q], runtime)
  BY DEF Fence, IInv
<1>2. query[q].stage = "subscribe"
  BY <1>1 DEF JobInv, Placed
<1>3. PICK job : job \in {late, ours} /\ query' = [query EXCEPT ![q] = job]
  BY DEF Fence, Go, IInv
<1>4. /\ job \in Jobs /\ job.runtime = query[q].runtime
      /\ job.pages = query[q].pages /\ job.key = query[q].key
      /\ \/ job.step = "rejected" /\ job.stage = "subscribe"
         \/ job.step = "lookup" /\ job.stage = "execute"
  BY <1>2, <1>3 DEF IInv, Jobs, Steps, Stages, Over
<1>5. UNCHANGED <<entry, runtime, profile>>
  BY DEF Fence, env
<1>6. JobInv(q, job, runtime)
  BY <1>1, <1>2, <1>4
     DEF JobInv, Placed, Holds, Answered, CalledUnderKey, Kept, Using, Verifying, Gated
<1>7. \A stage \in Stages : Hidden(job, stage) => Hidden(query[q], stage)
  BY <1>2, <1>4 DEF Hidden, Resolving
<1> QED BY <1>1, <1>3, <1>4, <1>5, <1>6, <1>7, Quiet DEF Resolving

LEMMA MatchKeeps == ASSUME IInv, NEW q \in Queries, Match(q) PROVE IInv'
<1> DEFINE next == IF runtime[Own(q)].identity = query[q].key THEN "acquire" ELSE "fail"
           job == [query[q] EXCEPT !.step = next]
<1>1. query[q].step = "match" /\ JobInv(q, query[q], runtime)
  BY DEF Match, IInv
<1>2. next \in {"acquire", "fail"}
  OBVIOUS
<1>3. query' = [query EXCEPT ![q] = job] /\ UNCHANGED <<entry, runtime, profile>>
  BY DEF Match, Go, env
<1> HIDE DEF next
<1>4. /\ job \in Jobs /\ job.step = next /\ job.stage = query[q].stage
      /\ job.runtime = query[q].runtime /\ job.pages = query[q].pages /\ job.key = query[q].key
  <2>1. query[q] \in Jobs
    BY DEF IInv
  <2> QED BY <1>2, <2>1 DEF Jobs, Steps
<1> HIDE DEF job
<1>5. JobInv(q, job, runtime)
  BY <1>1, <1>2, <1>4
     DEF JobInv, Placed, Holds, Answered, CalledUnderKey, Kept, Using, Verifying, Gated
<1>6. \A stage \in Stages : Hidden(job, stage) => Hidden(query[q], stage)
  BY <1>2, <1>4 DEF Hidden, Resolving
<1> QED BY <1>1, <1>2, <1>3, <1>4, <1>5, <1>6, Quiet DEF Resolving

LEMMA CancelKeeps == ASSUME IInv, NEW q \in Queries, Cancel(q) PROVE IInv'
<1> DEFINE job == [query[q] EXCEPT !.cancelled = TRUE]
<1>1. /\ job \in Jobs /\ job.step = query[q].step /\ job.stage = query[q].stage
      /\ job.runtime = query[q].runtime /\ job.pages = query[q].pages /\ job.key = query[q].key
      /\ job.expected = query[q].expected /\ job.by = query[q].by
  BY DEF IInv, Jobs
<1>2. query' = [query EXCEPT ![q] = job] /\ UNCHANGED <<entry, runtime, profile>>
  BY DEF Cancel, env
<1>3. JobInv(q, query[q], runtime)
  BY DEF IInv
<1> HIDE DEF job
<1>4. JobInv(q, job, runtime)
  BY <1>1, <1>3 DEF JobInv, Placed, Holds, Answered, CalledUnderKey, Kept
<1>5. \A stage \in Stages : Hidden(job, stage) => Hidden(query[q], stage)
  BY <1>1 DEF Hidden
<1> QED BY <1>1, <1>2, <1>4, <1>5, Quiet

(* AWS, or the cache, answers with the credentials the runtime has now. *)
LEMMA AnswerKeeps == ASSUME IInv, NEW q \in Queries, Answer(q) PROVE IInv'
<1> DEFINE run == runtime[Own(q)]
           step == AfterCall[query[q].step]
           next == IF query[q].step = "renew" THEN "bind" ELSE query[q].next
           by == Identity(run.principal, run.gen)
           job == [query[q] EXCEPT !.by = by, !.next = next, !.step = step]
<1>1. query[q].step \in Calls /\ JobInv(q, query[q], runtime) /\ run.valid
  BY DEF Answer, IInv
<1>2. Own(q) \in Runtimes
  BY <1>1 DEF JobInv, Placed, Calls, Using, Verifying, Gated, Own
<1>3. run \in Built /\ RunInv(run)
  BY <1>2 DEF IInv
<1>4. by \in Identities /\ by.gen = run.gen /\ by.principal = run.principal /\ ~run.fetching
      /\ run.gen \in Nat
  BY <1>1, <1>3 DEF Identity, Identities, Built, RunInv
<1>5. /\ query[q].step = "verify" => step = "verified"
      /\ query[q].step = "call" => step = "returned"
      /\ query[q].step = "renew" => step = "confirm"
      /\ query[q].step = "confirm" => step = "confirmed"
  BY DEF AfterCall
<1>6. next \in {"bind", "reject"}
  BY DEF IInv, Jobs
<1>7. query' = [query EXCEPT ![q] = job] /\ UNCHANGED <<entry, runtime, profile>>
  BY DEF Answer, env
<1>8. by = Identity(run.principal, run.gen) /\ run = runtime[query[q].runtime]
  BY DEF Own
<1> HIDE DEF step, next, by, run
<1>9. /\ job \in Jobs /\ job.step = step /\ job.stage = query[q].stage /\ job.by = by
      /\ job.runtime = query[q].runtime /\ job.pages = query[q].pages /\ job.key = query[q].key
      /\ job.expected = query[q].expected
  <2>1. step \in Steps
    BY <1>1, <1>5 DEF Steps, Resolving, Gated, Calls
  <2>2. query[q] \in Jobs
    BY DEF IInv
  <2> QED BY <1>4, <1>6, <2>1, <2>2 DEF Jobs
<1> HIDE DEF job
<1>10. Placed(q, job) /\ Holds(q, job, runtime) /\ Kept(job)
  BY <1>1, <1>5, <1>9 DEF JobInv, Placed, Holds, Kept, Using, Verifying, Gated, Calls
<1>11. CalledUnderKey(job, runtime)
  BY <1>1, <1>5, <1>9 DEF JobInv, CalledUnderKey, Calls
<1>12. Answered(job, runtime)
  <2>1. CASE query[q].step = "call"
    <3>1. query[q].expected = run.identity
      BY <1>1, <1>8, <2>1 DEF JobInv, CalledUnderKey
    <3>2. run.identity.gen <= run.gen
      BY <1>3 DEF RunInv, Had
    <3> QED BY <1>4, <1>5, <1>8, <1>9, <2>1, <3>1, <3>2 DEF Answered, Had
  <2>2. CASE query[q].step # "call"
    BY <1>1, <1>4, <1>5, <1>8, <1>9, <2>2 DEF Answered, Calls
  <2> QED BY <2>1, <2>2
<1>13. JobInv(q, job, runtime)
  BY <1>10, <1>11, <1>12 DEF JobInv
<1>14. \A stage \in Stages : Hidden(job, stage) => Hidden(query[q], stage)
  BY <1>1, <1>5, <1>9 DEF Hidden, Resolving, Calls
<1> QED BY <1>1, <1>5, <1>7, <1>9, <1>13, <1>14, Quiet DEF Resolving, Calls

(* revalidate asks for the caller. *)
LEMMA RevalidateKeeps ==
  ASSUME IInv, NEW q \in Queries, NEW next \in {"bind", "reject"}, NEW attempt \in {1, 2},
         query[q].step \in Gated, Revalidate(q, next, attempt), UNCHANGED <<entry, profile>>
  PROVE  IInv'
<1> DEFINE job == [query[q] EXCEPT !.expected = runtime[Own(q)].identity, !.next = next,
                                   !.attempt = attempt, !.step = "confirm"]
<1>1. JobInv(q, query[q], runtime)
  BY DEF IInv
<1>2. Own(q) \in Runtimes
  BY <1>1 DEF JobInv, Placed, Using, Own
<1>3. runtime[Own(q)].identity \in Identities
  BY <1>2 DEF IInv, Built
<1>4. /\ job \in Jobs /\ job.step = "confirm" /\ job.stage = query[q].stage
      /\ job.runtime = query[q].runtime /\ job.pages = query[q].pages /\ job.key = query[q].key
  <2>1. query[q] \in Jobs
    BY DEF IInv
  <2>2. "confirm" \in Steps
    BY DEF Steps, Gated
  <2>3. job \in Jobs
    BY <1>3, <2>1, <2>2 DEF Jobs
  <2>4. /\ job.step = "confirm" /\ job.stage = query[q].stage
        /\ job.runtime = query[q].runtime /\ job.pages = query[q].pages /\ job.key = query[q].key
    BY <2>1 DEF Jobs
  <2> QED BY <2>3, <2>4
<1>5. query' = [query EXCEPT ![q] = job] /\ UNCHANGED <<entry, runtime, profile>>
  BY DEF Revalidate
<1> HIDE DEF job
<1>6. JobInv(q, job, runtime)
  BY <1>1, <1>4
     DEF JobInv, Placed, Holds, Answered, CalledUnderKey, Kept, Using, Verifying, Gated
<1>7. \A stage \in Stages : Hidden(job, stage) => Hidden(query[q], stage)
  BY <1>4 DEF Hidden, Resolving
<1> QED BY <1>4, <1>5, <1>6, <1>7, Quiet DEF Resolving, Gated

-----------------------------------------------------------------------------
(* Reads *)

(* A step of q that also changes the runtime it uses. *)
LEMMA MoveRuntime ==
  ASSUME IInv, NEW q \in Queries, query[q].step \in Using, NEW job \in Jobs, NEW run \in Built,
         query' = [query EXCEPT ![q] = job], runtime' = [runtime EXCEPT ![Own(q)] = run],
         UNCHANGED <<entry, profile>>, RunInv(run),
         \/ run.gate = runtime[Own(q)].gate
         \/ query[q].step \in Gated /\ run.gate \in {q, None},
         JobInv(q, job, runtime'), job.runtime = query[q].runtime,
         job.step \in Resolving <=> query[q].step \in Resolving,
         \A stage \in Stages : Hidden(job, stage) => Hidden(query[q], stage)
  PROVE  IInv'
<1>1. Own(q) \in Runtimes
  BY DEF IInv, JobInv, Placed, Own
<1>2. runtime' \in [Runtimes -> Built] /\ \A r \in Runtimes : RunInv(runtime'[r])
  BY <1>1 DEF IInv
<1>3. ASSUME NEW p \in Queries, p # q, query[p].step \in Using
      PROVE  runtime'[query[p].runtime] = runtime[query[p].runtime]
  <2>1. query[p].runtime # query[q].runtime /\ query[p].runtime \in Runtimes
    BY <1>3, Alone DEF IInv, JobInv, Placed
  <2> QED BY <2>1 DEF IInv, Own
<1>4. ASSUME NEW p \in Queries, p # q, NEW r \in Runtimes
      PROVE  runtime'[r].gate = p <=> runtime[r].gate = p
  <2>1. CASE r = Own(q) /\ run.gate # runtime[r].gate
    <3>1. runtime[r].gate = q
      BY <2>1, <1>1 DEF IInv, JobInv, Holds, Own
    <3>2. run.gate # p
      BY <1>4, <2>1, Constants
    <3> QED BY <1>1, <1>4, <2>1, <3>1, <3>2 DEF IInv
  <2>2. CASE ~(r = Own(q) /\ run.gate # runtime[r].gate)
    BY <1>1, <2>2 DEF IInv
  <2> QED BY <2>1, <2>2
<1>5. Resolutions'
  BY SameResolution
<1>6. Private'
  BY StillPrivate
<1>7. /\ entry' \in Entries /\ profile' \in Principals
      /\ entry'.state = "ready" => entry'.runtime \in Runtimes
  BY DEF IInv
<1> QED BY <1>2, <1>3, <1>4, <1>5, <1>6, <1>7, Move

LEMMA FreedIs ==
  ASSUME IInv, NEW q \in Queries, query[q].step \in Gated
  PROVE  Freed(q) = [runtime EXCEPT ![Own(q)] = [@ EXCEPT !.gate = None]]
<1>1. runtime \in [Runtimes -> Built] /\ Own(q) \in Runtimes
  BY DEF IInv, JobInv, Placed, Using, Own
<1>2. \A r \in Runtimes : runtime[r].gate = q <=> r = Own(q)
  BY DEF IInv, JobInv, Holds, Own
<1> QED BY <1>1, <1>2 DEF Freed

(* A query leaves its read and lets the gate go. *)
LEMMA ReleaseKeeps ==
  ASSUME IInv, NEW q \in Queries, query[q].step \in Gated, NEW job \in Jobs,
         query' = [query EXCEPT ![q] = job], runtime' = Freed(q), UNCHANGED <<entry, profile>>,
         job.step \in {"fail", "failed", "answered", "acquire"}, job.stage = query[q].stage,
         job.runtime = query[q].runtime, job.key = query[q].key, job.pages \subseteq {job.key}
  PROVE  IInv'
<1> DEFINE run == [runtime[Own(q)] EXCEPT !.gate = None]
<1>1. JobInv(q, query[q], runtime) /\ query[q].stage = "execute"
  BY DEF IInv, JobInv, Placed
<1>2. Own(q) \in Runtimes /\ runtime[Own(q)] \in Built /\ RunInv(runtime[Own(q)])
  BY <1>1 DEF IInv, JobInv, Placed, Using, Own
<1>3. /\ run \in Built /\ run.gate = None /\ run.valid = runtime[Own(q)].valid
      /\ run.fetching = runtime[Own(q)].fetching /\ run.gen = runtime[Own(q)].gen
      /\ run.identity = runtime[Own(q)].identity /\ run.principal = runtime[Own(q)].principal
  BY <1>2 DEF Built
<1>4. RunInv(run)
  BY <1>2, <1>3 DEF RunInv, Had
<1>5. runtime' = [runtime EXCEPT ![Own(q)] = run]
  BY FreedIs
<1> HIDE DEF run
<1>6. \A r \in Runtimes : runtime'[r].gate # q
  BY <1>1, <1>2, <1>3, <1>5, Constants DEF IInv, JobInv, Holds, Own
<1>7. JobInv(q, job, runtime')
  BY <1>1, <1>2, <1>6
     DEF JobInv, Placed, Holds, Answered, CalledUnderKey, Kept, Using, Verifying, Gated, Own
<1>8. \A stage \in Stages : Hidden(job, stage) => Hidden(query[q], stage)
  BY <1>1 DEF Hidden, Resolving
<1>9. job.step \notin Resolving /\ query[q].step \notin Resolving
  BY DEF Resolving, Gated
<1> QED BY <1>3, <1>4, <1>5, <1>7, <1>8, <1>9, MoveRuntime DEF Using

LEMMA LeaveIs ==
  ASSUME NEW job \in Jobs, NEW step \in Steps
  PROVE  /\ Leave(job, step) \in Jobs /\ Leave(job, step).step = step
         /\ Leave(job, step).stage = job.stage /\ Leave(job, step).runtime = job.runtime
         /\ Leave(job, step).key = job.key /\ Leave(job, step).pages = job.pages
         /\ Leave(job, step).read = job.read
BY Constants DEF Leave, Jobs

LEMMA ContextChangedKeeps ==
  ASSUME IInv, NEW q \in Queries, query[q].step \in Gated, ContextChanged(q),
         UNCHANGED <<entry, profile>>
  PROVE  IInv'
<1> DEFINE job == Leave(query[q], "fail")
<1>1. /\ job \in Jobs /\ job.step = "fail" /\ job.stage = query[q].stage
      /\ job.runtime = query[q].runtime /\ job.key = query[q].key /\ job.pages = query[q].pages
  BY LeaveIs DEF IInv, Steps
<1>2. query' = [query EXCEPT ![q] = job] /\ runtime' = Freed(q)
  BY DEF ContextChanged
<1>3. query[q].pages \subseteq {query[q].key}
  BY DEF IInv, JobInv, Kept
<1> HIDE DEF job
<1> QED BY <1>1, <1>2, <1>3, ReleaseKeeps

LEMMA AcquireKeeps == ASSUME IInv, NEW q \in Queries, Acquire(q) PROVE IInv'
<1> DEFINE job == [query[q] EXCEPT !.attempt = 1, !.step = "ensure"]
           run == [runtime[Own(q)] EXCEPT !.gate = q]
<1>1. /\ job \in Jobs /\ job.step = "ensure" /\ job.stage = query[q].stage
      /\ job.runtime = query[q].runtime /\ job.pages = query[q].pages /\ job.key = query[q].key
      /\ query[q].step = "acquire"
  BY DEF Acquire, IInv, Jobs, Steps, Gated
<1>2. JobInv(q, query[q], runtime) /\ Own(q) \in Runtimes
  BY <1>1 DEF IInv, JobInv, Placed, Own
<1>3. query' = [query EXCEPT ![q] = job] /\ runtime' = [runtime EXCEPT ![Own(q)] = run]
  BY DEF Acquire, IInv
<1>4. runtime[Own(q)] \in Built /\ RunInv(runtime[Own(q)]) /\ runtime[Own(q)].gate = None
  BY <1>2 DEF IInv, Acquire
<1>5. /\ run \in Built /\ run.gate = q /\ run.valid = runtime[Own(q)].valid
      /\ run.fetching = runtime[Own(q)].fetching /\ run.gen = runtime[Own(q)].gen
      /\ run.identity = runtime[Own(q)].identity /\ run.principal = runtime[Own(q)].principal
  BY <1>4 DEF Built
<1>6. RunInv(run)
  BY <1>4, <1>5 DEF RunInv, Had
<1> HIDE DEF job, run
<1>7. runtime' \in [Runtimes -> Built] /\ \A r \in Runtimes : RunInv(runtime'[r])
  BY <1>2, <1>3, <1>5, <1>6 DEF IInv
<1>8. JobInv(q, job, runtime')
  <2>1. \A r \in Runtimes : runtime'[r].gate = q <=> r = job.runtime
    BY <1>1, <1>2, <1>3, <1>5 DEF IInv, JobInv, Holds, Gated, Own
  <2> QED BY <1>1, <1>2, <2>1
          DEF JobInv, Placed, Holds, Answered, CalledUnderKey, Kept, Using, Verifying, Gated
<1>9. ASSUME NEW p \in Queries, p # q
      PROVE  /\ query[p].step \in Using => runtime'[query[p].runtime] = runtime[query[p].runtime]
             /\ \A r \in Runtimes : runtime'[r].gate = p <=> runtime[r].gate = p
  <2>1. \A r \in Runtimes : runtime'[r].gate = p <=> runtime[r].gate = p
    BY <1>2, <1>3, <1>4, <1>5, <1>9, Constants DEF IInv
  <2>2. CASE query[p].step \in Gated
    <3>1. query[p].runtime \in Runtimes /\ runtime[query[p].runtime].gate = p
      BY <2>2 DEF IInv, JobInv, Placed, Holds, Using
    <3> QED BY <1>2, <1>3, <1>4, <2>1, <3>1, Constants DEF IInv
  <2>3. CASE query[p].step \in Verifying
    <3>1. query[p].runtime = <<p, query[p].stage>> /\ query[p].stage \in Stages
      BY <2>3 DEF IInv, JobInv, Placed, Jobs
    <3>2. Hidden(query[p], query[p].stage)
      BY <2>3 DEF Hidden, Verifying, Resolving
    <3>3. query[p].runtime # query[q].runtime /\ query[p].runtime \in Runtimes
      BY <1>9, <3>1, <3>2 DEF IInv, Private, Runtimes
    <3> QED BY <1>3, <2>1, <3>3 DEF IInv, Own
  <2> QED BY <2>1, <2>2, <2>3 DEF Using
<1>10. UNCHANGED <<entry, profile>> /\ entry' \in Entries /\ profile' \in Principals
       /\ (entry'.state = "ready" => entry'.runtime \in Runtimes)
  BY DEF Acquire, env, IInv
<1>11. Resolutions'
  BY <1>1, <1>3, <1>10, SameResolution DEF Resolving
<1>12. Private'
  BY <1>1, <1>3, <1>10, StillPrivate DEF Hidden, Resolving
<1> QED BY <1>1, <1>3, <1>7, <1>8, <1>9, <1>10, <1>11, <1>12, Move

LEMMA EnsureKeeps == ASSUME IInv, NEW q \in Queries, Ensure(q) PROVE IInv'
<1>1. query[q].step = "ensure" /\ query[q].step \in Gated /\ UNCHANGED <<entry, profile>>
  BY DEF Ensure, Gated, env
<1>2. CASE ContextChanged(q)
  BY <1>1, <1>2, ContextChangedKeeps
<1>3. CASE Revalidate(q, "bind", 1)
  BY <1>1, <1>3, RevalidateKeeps
<1>4. CASE Go(q, "bind") /\ UNCHANGED runtime
  <2> DEFINE job == [query[q] EXCEPT !.step = "bind"]
  <2>1. /\ job \in Jobs /\ job.step = "bind" /\ job.stage = query[q].stage
        /\ job.runtime = query[q].runtime /\ job.pages = query[q].pages /\ job.key = query[q].key
    <3>1. query[q] \in Jobs
      BY DEF IInv
    <3>2. "bind" \in Steps
      BY DEF Steps, Gated
    <3>3. job \in Jobs
      BY <3>1, <3>2 DEF Jobs
    <3>4. /\ job.step = "bind" /\ job.stage = query[q].stage
          /\ job.runtime = query[q].runtime /\ job.pages = query[q].pages /\ job.key = query[q].key
      BY <3>1 DEF Jobs
    <3> QED BY <3>3, <3>4
  <2>2. query' = [query EXCEPT ![q] = job] /\ JobInv(q, query[q], runtime)
    BY <1>4 DEF Go, IInv
  <2> HIDE DEF job
  <2>3. JobInv(q, job, runtime)
    BY <1>1, <2>1, <2>2
       DEF JobInv, Placed, Holds, Answered, CalledUnderKey, Kept, Using, Verifying, Gated
  <2>4. \A stage \in Stages : Hidden(job, stage) => Hidden(query[q], stage)
    BY <2>1 DEF Hidden, Resolving
  <2> QED BY <1>1, <1>4, <2>1, <2>2, <2>3, <2>4, Quiet DEF Resolving
<1> QED BY <1>2, <1>3, <1>4 DEF Ensure

LEMMA BindKeeps == ASSUME IInv, NEW q \in Queries, Bind(q) PROVE IInv'
<1>1. query[q].step = "bind" /\ query[q].step \in Gated /\ UNCHANGED <<entry, profile>>
  BY DEF Bind, Gated, env
<1>2. CASE ContextChanged(q)
  BY <1>1, <1>2, ContextChangedKeeps
<1>3. CASE ~ContextChanged(q)
  <2> DEFINE identity == runtime[Own(q)].identity
             job == [query[q] EXCEPT !.expected = identity, !.step = "call"]
  <2>1. JobInv(q, query[q], runtime) /\ Own(q) \in Runtimes
    BY <1>1 DEF IInv, JobInv, Placed, Using, Own
  <2>2. identity \in Identities
    BY <2>1 DEF IInv, Built
  <2>3. query' = [query EXCEPT ![q] = job] /\ UNCHANGED runtime /\ query[q].key = identity
    BY <1>3 DEF Bind, Bound, IInv
  <2>4. identity = runtime[query[q].runtime].identity
    BY DEF Own
  <2> HIDE DEF identity
  <2>5. /\ job \in Jobs /\ job.step = "call" /\ job.stage = query[q].stage /\ job.expected = identity
        /\ job.runtime = query[q].runtime /\ job.pages = query[q].pages /\ job.key = query[q].key
    <3>1. query[q] \in Jobs
      BY DEF IInv
    <3>2. "call" \in Steps
      BY DEF Steps, Gated
    <3>3. job \in Jobs
      BY <2>2, <3>1, <3>2 DEF Jobs
    <3>4. /\ job.step = "call" /\ job.stage = query[q].stage /\ job.expected = identity
          /\ job.runtime = query[q].runtime /\ job.pages = query[q].pages /\ job.key = query[q].key
      BY <3>1 DEF Jobs
    <3> QED BY <3>3, <3>4
  <2> HIDE DEF job
  <2>6. JobInv(q, job, runtime)
    BY <1>1, <2>1, <2>3, <2>4, <2>5
       DEF JobInv, Placed, Holds, Answered, CalledUnderKey, Kept, Using, Verifying, Gated
  <2>7. \A stage \in Stages : Hidden(job, stage) => Hidden(query[q], stage)
    BY <2>5 DEF Hidden, Resolving
  <2> QED BY <1>1, <2>3, <2>5, <2>6, <2>7, Quiet DEF Resolving
<1> QED BY <1>2, <1>3

(* The page is kept: no renewal since the call was made, so it was signed *)
(* with the credentials of the key.                                       *)
LEMMA ReturnedKeeps == ASSUME IInv, NEW q \in Queries, Returned(q) PROVE IInv'
<1>1. query[q].step = "returned" /\ query[q].step \in Gated /\ UNCHANGED <<entry, profile>>
  BY DEF Returned, Gated, env
<1>2. CASE ~Stable(q)
  <2>1. PICK next \in {"bind", "reject"} : Revalidate(q, next, 2)
    BY <1>2 DEF Returned
  <2> QED BY <1>1, <2>1, RevalidateKeeps
<1>3. CASE Stable(q)
  <2> DEFINE next == IF query[q].read + 1 = MaxPages THEN "answered" ELSE "acquire"
             left == Leave(query[q], next)
             job  == [left EXCEPT !.read = @ + 1, !.pages = @ \cup {query[q].by}]
             run  == runtime[Own(q)]
  <2>1. JobInv(q, query[q], runtime) /\ query[q] \in Jobs /\ Own(q) \in Runtimes
    BY <1>1 DEF IInv, JobInv, Placed, Using, Own
  <2>2. run \in Built /\ RunInv(run)
    BY <2>1 DEF IInv
  <2>3. query[q].by = query[q].key
    <3>1. /\ query[q].expected = query[q].key /\ run.identity = query[q].key
          /\ Had(query[q].by, run) /\ query[q].expected.gen <= query[q].by.gen
          /\ run.gen = query[q].expected.gen
      BY <1>1, <1>3, <2>1 DEF JobInv, CalledUnderKey, Answered, Stable, Own
    <3>2. query[q].by \in Identities /\ query[q].key \in Identities /\ run.gen \in Nat
      BY <2>1, <2>2 DEF Jobs, Built
    <3> HIDE DEF run
    <3>3. query[q].by.gen = query[q].key.gen
      BY <3>1, <3>2 DEF Had, Identities
    <3>4. query[q].by.principal = query[q].key.principal
      BY <2>2, <3>1, <3>3 DEF Had, RunInv
    <3> QED BY <3>2, <3>3, <3>4 DEF Identities
  <2>4. next \in {"answered", "acquire"} /\ next \in Steps
    BY DEF Steps, Over
  <2>5. runtime' = Freed(q) /\ query' = [query EXCEPT ![q] = job]
    BY <1>3 DEF Returned
  <2> HIDE DEF next
  <2>6. /\ left \in Jobs /\ left.step = next /\ left.stage = query[q].stage
        /\ left.runtime = query[q].runtime /\ left.key = query[q].key
        /\ left.pages = query[q].pages /\ left.read = query[q].read
    BY <2>1, <2>4, LeaveIs
  <2> HIDE DEF left
  <2>7. /\ job \in Jobs /\ job.step = next /\ job.stage = query[q].stage
        /\ job.runtime = query[q].runtime /\ job.key = query[q].key
        /\ job.pages = query[q].pages \cup {query[q].by}
    <3>1. left.read + 1 \in Nat /\ left.pages \cup {query[q].by} \in SUBSET Identities
      BY <2>1, <2>6 DEF Jobs
    <3>2. [left EXCEPT !.read = left.read + 1] \in Jobs
      BY <2>6, <3>1 DEF Jobs
    <3> QED BY <2>6, <3>1, <3>2 DEF Jobs
  <2>8. job.pages \subseteq {job.key}
    BY <2>1, <2>3, <2>7 DEF JobInv, Kept
  <2> HIDE DEF job
  <2> QED BY <1>1, <2>4, <2>5, <2>7, <2>8, ReleaseKeeps
<1> QED BY <1>2, <1>3

(* The caller is who AWS said it is: no retrieval is under way. *)
LEMMA ConfirmedKeeps == ASSUME IInv, NEW q \in Queries, Confirmed(q) PROVE IInv'
<1> DEFINE old    == runtime[Own(q)]
           actual == Identity(query[q].by.principal, old.gen)
           same   == Account[actual.principal] = Account[query[q].expected.principal]
           again  == same /\ query[q].next = "bind"
           ident  == IF same THEN actual ELSE old.identity
           changed == old.changed \/ ~same
           gate   == IF again THEN q ELSE None
           run    == [old EXCEPT !.identity = ident, !.changed = changed, !.gate = gate]
           job    == IF again THEN [query[q] EXCEPT !.step = "bind"] ELSE Leave(query[q], "fail")
<1>1. query[q].step = "confirmed" /\ UNCHANGED <<entry, profile>>
  BY DEF Confirmed, env
<1>2. JobInv(q, query[q], runtime) /\ query[q] \in Jobs /\ Own(q) \in Runtimes
  BY <1>1 DEF IInv, JobInv, Placed, Using, Gated, Own
<1>3. old \in Built /\ RunInv(old)
  BY <1>2 DEF IInv
<1>4. runtime' = [runtime EXCEPT ![Own(q)] = run]
  BY DEF Confirmed, IInv
<1>5. query' = [query EXCEPT ![q] = job]
  BY DEF Confirmed, IInv
<1>6. /\ actual \in Identities /\ actual.gen = old.gen /\ actual.principal = old.principal
  <2>1. query[q].by = Identity(old.principal, old.gen)
    BY <1>1, <1>2 DEF JobInv, Answered, Own
  <2> QED BY <1>3, <2>1 DEF Identity, Identities, Built
<1>7. ident \in Identities /\ (ident = actual \/ ident = old.identity)
  BY <1>3, <1>6 DEF Built
<1>8. changed \in BOOLEAN /\ gate \in {q, None} /\ (again <=> gate = q)
  BY Constants
<1>9. [query[q] EXCEPT !.step = "bind"] \in Jobs /\ Leave(query[q], "fail") \in Jobs
  BY <1>2, LeaveIs DEF Jobs, Steps, Gated
<1>10. /\ job \in Jobs /\ job.step = (IF gate = q THEN "bind" ELSE "fail")
       /\ job.stage = query[q].stage /\ job.runtime = query[q].runtime
       /\ job.key = query[q].key /\ job.pages = query[q].pages
  <2>1. /\ Leave(query[q], "fail").step = "fail"
        /\ Leave(query[q], "fail").stage = query[q].stage
        /\ Leave(query[q], "fail").runtime = query[q].runtime
        /\ Leave(query[q], "fail").key = query[q].key
        /\ Leave(query[q], "fail").pages = query[q].pages
    BY <1>2, LeaveIs DEF Steps
  <2>2. /\ [query[q] EXCEPT !.step = "bind"].step = "bind"
        /\ [query[q] EXCEPT !.step = "bind"].stage = query[q].stage
        /\ [query[q] EXCEPT !.step = "bind"].runtime = query[q].runtime
        /\ [query[q] EXCEPT !.step = "bind"].key = query[q].key
        /\ [query[q] EXCEPT !.step = "bind"].pages = query[q].pages
    BY <1>2 DEF Jobs
  <2> HIDE DEF again, gate
  <2> QED BY <1>8, <1>9, <2>1, <2>2
<1> HIDE DEF job, actual, same, again, ident, changed, gate
<1>11. /\ run \in Built /\ run.identity = ident /\ run.gate = gate
       /\ run.gen = old.gen /\ run.principal = old.principal
       /\ run.valid = old.valid /\ run.fetching = old.fetching
  BY <1>3, <1>7, <1>8, Constants DEF Built
<1>12. RunInv(run)
  BY <1>3, <1>6, <1>7, <1>11 DEF RunInv, Had, Built
<1> HIDE DEF run
<1>13. \A r \in Runtimes : runtime'[r].gate = q <=> gate = q /\ r = Own(q)
  BY <1>1, <1>2, <1>4, <1>11 DEF IInv, JobInv, Holds, Own
<1>14. JobInv(q, job, runtime')
  BY <1>1, <1>2, <1>10, <1>13
     DEF JobInv, Placed, Holds, Answered, CalledUnderKey, Kept, Using, Verifying, Gated, Own
<1>15. query[q].step \in Using /\ query[q].step \in Gated
  BY <1>1 DEF Using, Gated
<1>16. \A stage \in Stages : Hidden(job, stage) => Hidden(query[q], stage)
  BY <1>10 DEF Hidden, Resolving
<1>17. job.step \notin Resolving /\ query[q].step \notin Resolving
  BY <1>1, <1>10 DEF Resolving
<1> QED BY <1>1, <1>4, <1>5, <1>8, <1>10, <1>11, <1>12, <1>14, <1>15, <1>16, <1>17, MoveRuntime

LEMMA ExpiredTokenKeeps == ASSUME IInv, NEW q \in Queries, ExpiredToken(q) PROVE IInv'
<1> DEFINE old  == runtime[Own(q)]
           run  == [old EXCEPT !.valid = FALSE]
           next == IF query[q].step = "verify" THEN "verify" ELSE "renew"
           job  == [query[q] EXCEPT !.attempt = 2, !.step = next]
<1>1. query[q].step \in {"verify", "call"} /\ UNCHANGED <<entry, profile>>
  BY DEF ExpiredToken
<1>2. JobInv(q, query[q], runtime) /\ query[q] \in Jobs /\ Own(q) \in Runtimes
  BY <1>1 DEF IInv, JobInv, Placed, Using, Verifying, Gated, Own
<1>3. old \in Built /\ RunInv(old)
  BY <1>2 DEF IInv
<1>4. runtime' = [runtime EXCEPT ![Own(q)] = run] /\ query' = [query EXCEPT ![q] = job]
  BY DEF ExpiredToken, IInv
<1>5. /\ run \in Built /\ run.identity = old.identity /\ run.gate = old.gate
      /\ run.gen = old.gen /\ run.principal = old.principal /\ ~run.valid
  BY <1>3 DEF Built
<1>6. RunInv(run)
  BY <1>3, <1>5 DEF RunInv, Had
<1>7. /\ query[q].step = "verify" => next = "verify"
      /\ query[q].step = "call" => next = "renew"
  OBVIOUS
<1> HIDE DEF run, next
<1>8. /\ job \in Jobs /\ job.step = next /\ job.stage = query[q].stage
      /\ job.runtime = query[q].runtime /\ job.key = query[q].key /\ job.pages = query[q].pages
  <2>1. next \in Steps
    BY <1>1, <1>7 DEF Steps, Resolving, Gated
  <2> QED BY <1>2, <2>1 DEF Jobs
<1> HIDE DEF job
<1>9. \A r \in Runtimes : runtime'[r].gate = runtime[r].gate
  BY <1>2, <1>4, <1>5 DEF IInv
<1>10. JobInv(q, job, runtime')
  BY <1>1, <1>2, <1>7, <1>8, <1>9
     DEF JobInv, Placed, Holds, Answered, CalledUnderKey, Kept, Using, Verifying, Gated
<1>11. query[q].step \in Using
  BY <1>1 DEF Using, Verifying, Gated
<1>12. \A stage \in Stages : Hidden(job, stage) => Hidden(query[q], stage)
  BY <1>1, <1>7, <1>8 DEF Hidden, Resolving
<1>13. job.step \in Resolving <=> query[q].step \in Resolving
  BY <1>1, <1>7, <1>8 DEF Resolving
<1> QED BY <1>1, <1>4, <1>5, <1>6, <1>8, <1>10, <1>11, <1>12, <1>13, MoveRuntime

-----------------------------------------------------------------------------
(* Resolutions *)

(* A step of q that leaves alone what others can use: it changes a runtime *)
(* only while that is hidden from them.                                    *)
LEMMA MoveHidden ==
  ASSUME IInv, NEW q \in Queries, NEW stage \in Stages, Hidden(query[q], stage),
         NEW job \in Jobs, NEW run \in Built, RunInv(run), run.gate = runtime[<<q, stage>>].gate,
         query' = [query EXCEPT ![q] = job], runtime' = [runtime EXCEPT ![<<q, stage>>] = run],
         entry' \in Entries, entry'.state = "ready" => entry'.runtime \in Runtimes,
         UNCHANGED profile, JobInv(q, job, runtime'), Resolutions', Private'
  PROVE  IInv'
<1>1. <<q, stage>> \in Runtimes
  BY DEF Runtimes
<1>2. runtime' \in [Runtimes -> Built] /\ \A r \in Runtimes : RunInv(runtime'[r])
  BY <1>1 DEF IInv
<1>3. ASSUME NEW p \in Queries, p # q
      PROVE  /\ query[p].step \in Using => runtime'[query[p].runtime] = runtime[query[p].runtime]
             /\ \A r \in Runtimes : runtime'[r].gate = p <=> runtime[r].gate = p
  <2>1. query[p].runtime # <<q, stage>>
    BY <1>3 DEF IInv, Private
  <2>2. query[p].step \in Using => query[p].runtime \in Runtimes
    BY DEF IInv, JobInv, Placed
  <2> QED BY <1>1, <2>1, <2>2 DEF IInv
<1>4. profile' \in Principals
  BY DEF IInv
<1> QED BY <1>2, <1>3, <1>4, Move

LEMMA StartResolutionKeeps == ASSUME IInv, NEW q \in Queries, StartResolution(q) PROVE IInv'
<1> DEFINE job == [query[q] EXCEPT !.step = "build"]
<1>1. /\ job \in Jobs /\ job.step = "build" /\ job.stage = query[q].stage
      /\ job.runtime = query[q].runtime /\ job.pages = query[q].pages /\ job.key = query[q].key
      /\ query[q].step = "lookup"
  BY DEF StartResolution, IInv, Jobs, Steps, Resolving
<1>2. query' = [query EXCEPT ![q] = job] /\ UNCHANGED <<runtime, profile>>
  BY DEF StartResolution, env
<1>3. entry' \in Entries /\ entry'.state = "resolving" /\ entry'.runtime = None
  BY Constants DEF StartResolution, NoEntry, Entries
<1>4. entry.state # "resolving" /\ JobInv(q, query[q], runtime)
  BY DEF StartResolution, Blocked, IInv
<1> HIDE DEF job
<1>5. JobInv(q, job, runtime)
  BY <1>1, <1>4 DEF JobInv, Placed, Holds, Answered, CalledUnderKey, Kept, Using, Verifying, Gated
<1>6. Resolutions'
  <2>1. \A p \in Queries : query[p].step \notin Resolving
    BY <1>4 DEF IInv, Resolutions
  <2> QED BY <1>1, <1>2, <1>3, <2>1 DEF IInv, Resolutions, OneResolution, Resolving
<1>7. Private'
  BY <1>1, <1>2, <1>3, StillPrivate DEF Hidden, Resolving
<1> QED BY <1>1, <1>2, <1>3, <1>5, <1>6, <1>7, Move DEF IInv

LEMMA BuildKeeps == ASSUME IInv, NEW q \in Queries, Build(q) PROVE IInv'
<1> DEFINE own == <<q, query[q].stage>>
           job == [query[q] EXCEPT !.runtime = own, !.attempt = 1, !.step = "verify"]
<1>1. query[q] \in Jobs /\ query[q].stage \in Stages /\ own \in Runtimes /\ query[q].step = "build"
  BY DEF Build, IInv, Jobs, Runtimes
<1>2. /\ job \in Jobs /\ job.step = "verify" /\ job.stage = query[q].stage
      /\ job.runtime = own /\ job.pages = query[q].pages /\ job.key = query[q].key
  BY <1>1 DEF Jobs, Steps, Resolving
<1>3. query' = [query EXCEPT ![q] = job] /\ UNCHANGED <<entry, runtime, profile>>
  BY DEF Build, IInv, env
<1>4. JobInv(q, query[q], runtime)
  BY DEF IInv
<1> HIDE DEF job
<1>5. JobInv(q, job, runtime)
  BY <1>1, <1>2, <1>4
     DEF JobInv, Placed, Holds, Answered, CalledUnderKey, Kept, Using, Verifying, Gated
<1>6. Resolutions'
  BY <1>1, <1>2, <1>3, SameResolution DEF Resolving
<1>7. Private'
  <2> SUFFICES ASSUME NEW a \in Queries, NEW stage \in Stages, Hidden(query'[a], stage)
               PROVE  /\ entry.runtime # <<a, stage>>
                      /\ \A p \in Queries \ {a} : query'[p].runtime # <<a, stage>>
    BY <1>3 DEF Private
  <2>1. Hidden(query[a], stage)
    BY <1>1, <1>2, <1>3 DEF IInv, Hidden, Resolving
  <2> QED BY <1>1, <1>2, <1>3, <2>1 DEF IInv, Private
<1> QED BY <1>2, <1>3, <1>5, <1>6, <1>7, Move DEF IInv

LEMMA MemoizeKeeps == ASSUME IInv, NEW q \in Queries, Memoize(q) PROVE IInv'
<1> DEFINE r    == Own(q)
           old  == runtime[r]
           id   == Identity(query[q].by.principal, old.gen)
           run  == [old EXCEPT !.identity = id]
           next == IF query[q].stage = "subscribe" THEN "identify" ELSE "match"
           job  == Leave(query[q], next)
<1>1. query[q].step = "verified" /\ UNCHANGED profile
  BY DEF Memoize, env
<1>2. JobInv(q, query[q], runtime) /\ query[q] \in Jobs /\ query[q].stage \in Stages
  BY DEF IInv, Jobs
<1>3. r \in Runtimes /\ r = <<q, query[q].stage>>
  BY <1>1, <1>2 DEF JobInv, Placed, Using, Verifying, Own
<1>4. old \in Built /\ RunInv(old)
  BY <1>3 DEF IInv
<1>5. id \in Identities /\ id.gen = old.gen /\ id.principal = old.principal
  <2>1. query[q].by = Identity(old.principal, old.gen)
    BY <1>1, <1>2 DEF JobInv, Answered, Own
  <2> QED BY <1>4, <2>1 DEF Identity, Identities, Built
<1>6. runtime' = [runtime EXCEPT ![r] = run] /\ query' = [query EXCEPT ![q] = job]
  BY DEF Memoize, IInv
<1>7. entry' \in Entries /\ entry'.state = "ready" /\ entry'.runtime = r
  BY <1>3, <1>4 DEF Memoize, MemoizedGen, Entries, Built
<1>8. next \in {"identify", "match"} /\ next \in Steps /\ (query[q].stage = "subscribe" <=> next = "identify")
  BY DEF Steps
<1> HIDE DEF next, id
<1>9. /\ job \in Jobs /\ job.step = next /\ job.stage = query[q].stage
      /\ job.runtime = query[q].runtime /\ job.key = query[q].key /\ job.pages = query[q].pages
  BY <1>2, <1>8, LeaveIs
<1>10. /\ run \in Built /\ run.identity = id /\ run.gate = old.gate /\ run.gen = old.gen
       /\ run.principal = old.principal /\ run.valid = old.valid /\ run.fetching = old.fetching
  BY <1>4, <1>5 DEF Built
<1>11. RunInv(run)
  BY <1>4, <1>5, <1>10 DEF RunInv, Had, Built
<1> HIDE DEF job, run
<1>12. \A s \in Runtimes : runtime'[s].gate = runtime[s].gate
  BY <1>3, <1>6, <1>10 DEF IInv
<1>13. JobInv(q, job, runtime')
  BY <1>1, <1>2, <1>3, <1>8, <1>9, <1>12
     DEF JobInv, Placed, Holds, Answered, CalledUnderKey, Kept, Using, Verifying, Gated, Stages, Own
<1>14. Resolutions'
  BY <1>1, <1>6, <1>7, <1>8, <1>9, EndResolution DEF Resolving
<1>15. Private'
  <2> SUFFICES ASSUME NEW a \in Queries, NEW stage \in Stages, Hidden(query'[a], stage)
               PROVE  /\ r # <<a, stage>>
                      /\ \A p \in Queries \ {a} : query'[p].runtime # <<a, stage>>
    BY <1>7 DEF Private
  <2>1. Hidden(query[a], stage) /\ (a = q => stage # query[q].stage)
    BY <1>6, <1>8, <1>9 DEF IInv, Hidden, Resolving
  <2> QED BY <1>3, <1>6, <1>9, <2>1 DEF IInv, Private
<1>16. Hidden(query[q], query[q].stage)
  BY <1>1 DEF Hidden, Resolving
<1> HIDE DEF old, r
<1> QED BY <1>1, <1>2, <1>3, <1>6, <1>7, <1>9, <1>10, <1>11, <1>13, <1>14, <1>15, <1>16, MoveHidden
        DEF old

LEMMA FailKeeps == ASSUME IInv, NEW q \in Queries, Fail(q) PROVE IInv'
<1> DEFINE job == [query[q] EXCEPT !.step = "changed"]
<1>1. /\ job \in Jobs /\ job.step = "changed" /\ job.stage = query[q].stage
      /\ job.runtime = query[q].runtime /\ job.pages = query[q].pages /\ job.key = query[q].key
      /\ query[q].step = "fail"
  BY DEF Fail, IInv, Jobs, Steps, Over
<1>2. query' = [query EXCEPT ![q] = job] /\ UNCHANGED <<runtime, profile>>
  BY DEF Fail, Go, env
<1>3. /\ entry' \in Entries /\ entry'.runtime \in {entry.runtime, None}
      /\ entry'.state = "ready" => entry'.runtime \in Runtimes
      /\ entry'.state = "resolving" <=> entry.state = "resolving"
  BY DEF Fail, Invalidated, NoEntry, Entries, IInv
<1>4. JobInv(q, query[q], runtime)
  BY DEF IInv
<1> HIDE DEF job
<1>5. JobInv(q, job, runtime)
  BY <1>1, <1>4 DEF JobInv, Placed, Holds, Answered, CalledUnderKey, Kept, Using, Verifying, Gated
<1>6. Resolutions'
  BY <1>1, <1>2, <1>3, SameResolution DEF Resolving
<1>7. Private'
  BY <1>1, <1>2, <1>3, StillPrivate DEF Hidden, Resolving
<1> QED BY <1>1, <1>2, <1>3, <1>5, <1>6, <1>7, Move DEF IInv

(* A failed resolution, a failed read, or a wait given up. *)
LEMMA AbortKeeps ==
  ASSUME IInv, NEW q \in Queries, Abort(q),
         query[q].step \in Resolving \cup Gated \cup {"lookup", "acquire"}
  PROVE  IInv'
<1> DEFINE job == Leave(query[q], "failed")
<1>1. /\ job \in Jobs /\ job.step = "failed" /\ job.stage = query[q].stage
      /\ job.runtime = query[q].runtime /\ job.key = query[q].key /\ job.pages = query[q].pages
  BY LeaveIs DEF IInv, Steps, Over
<1>2. query' = [query EXCEPT ![q] = job] /\ UNCHANGED profile
  BY DEF Abort, env
<1>3. JobInv(q, query[q], runtime) /\ query[q].stage \in Stages
  BY DEF IInv, Jobs
<1> HIDE DEF job
<1>4. \A stage \in Stages : Hidden(job, stage) => Hidden(query[q], stage)
  BY <1>1 DEF Hidden, Resolving
<1>5. CASE query[q].step \in Resolving
  <2> DEFINE stage == query[q].stage
  <2>1. runtime' = [runtime EXCEPT ![<<q, stage>>] = Unbuilt] /\ entry' = NoEntry
    BY <1>5 DEF Abort, Forgotten
  <2>2. /\ entry' \in Entries /\ entry'.state = "absent" /\ entry'.runtime = None
    BY <2>1 DEF NoEntry, Entries
  <2>3. Hidden(query[q], stage)
    BY <1>5 DEF Hidden
  <2>4. /\ Unbuilt \in Built /\ RunInv(Unbuilt) /\ Unbuilt.gate = None
    BY Constants DEF Unbuilt, Built, RunInv, Had
  <2>5. <<q, stage>> \in Runtimes
    BY <1>3 DEF Runtimes
  <2>6. runtime[<<q, stage>>].gate = None
    <3>1. ASSUME NEW p \in Queries, runtime[<<q, stage>>].gate = p PROVE FALSE
      <4>1. query[p].step \in Gated /\ query[p].runtime = <<q, stage>>
        BY <2>5, <3>1 DEF IInv, JobInv, Holds
      <4>2. p # q
        BY <1>5, <4>1 DEF Gated, Resolving
      <4> QED BY <1>3, <2>3, <4>1, <4>2 DEF IInv, Private
    <3> QED BY <2>5, <3>1 DEF IInv, Built
  <2>7. \A r \in Runtimes : runtime'[r].gate # q
    BY <1>3, <1>5, <2>1, <2>4, <2>5, Constants DEF IInv, JobInv, Holds, Gated, Resolving
  <2>8. JobInv(q, job, runtime')
    BY <1>1, <1>3, <2>7
       DEF JobInv, Placed, Holds, Answered, CalledUnderKey, Kept, Using, Verifying, Gated
  <2>9. Resolutions'
    BY <1>1, <1>2, <1>5, <2>2, EndResolution DEF Resolving
  <2>10. Private'
    BY <1>1, <1>2, <1>4, <2>2, StillPrivate
  <2> HIDE DEF stage
  <2> QED BY <1>1, <1>2, <1>3, <2>1, <2>2, <2>3, <2>4, <2>6, <2>8, <2>9, <2>10, MoveHidden DEF stage
<1>6. CASE query[q].step \in Gated
  <2>1. runtime' = Freed(q) /\ UNCHANGED entry
    BY <1>6 DEF Abort, Forgotten, Gated, Resolving
  <2> QED BY <1>1, <1>2, <1>3, <1>6, <2>1, ReleaseKeeps DEF JobInv, Kept
<1>7. CASE query[q].step \in {"lookup", "acquire"}
  <2>1. \A r \in Runtimes : runtime[r].gate # q
    BY <1>3, <1>7 DEF JobInv, Holds, Gated
  <2>2. UNCHANGED <<entry, runtime>>
    BY <1>7, <2>1 DEF Abort, Forgotten, Freed, Resolving, IInv
  <2>3. JobInv(q, job, runtime)
    BY <1>1, <1>3, <2>1
       DEF JobInv, Placed, Holds, Answered, CalledUnderKey, Kept, Using, Verifying, Gated
  <2> QED BY <1>1, <1>2, <1>4, <1>7, <2>2, <2>3, Quiet DEF Resolving
<1> QED BY <1>5, <1>6, <1>7

-----------------------------------------------------------------------------
(* Credentials *)

(* A runtime's credentials change, while nobody has just read an answer. *)
LEMMA Renewal ==
  ASSUME IInv, NEW r \in Runtimes, NEW run \in Built, RunInv(run),
         runtime' = [runtime EXCEPT ![r] = run], UNCHANGED <<entry, query>>, profile' \in Principals,
         run.gate = runtime[r].gate, run.identity = runtime[r].identity,
         \A identity \in Identities : Had(identity, runtime[r]) => Had(identity, run),
         \A q \in Queries : query[q].step \in {"verified", "confirmed"} /\ query[q].runtime = r
            => run.gen = runtime[r].gen /\ run.principal = runtime[r].principal /\ ~run.fetching
  PROVE  IInv'
<1>1. /\ runtime' \in [Runtimes -> Built] /\ runtime'[r] = run
      /\ \A s \in Runtimes : s # r => runtime'[s] = runtime[s]
  BY DEF IInv
<1>2. \A s \in Runtimes : RunInv(runtime'[s])
  BY <1>1 DEF IInv
<1>3. \A s \in Runtimes : /\ runtime'[s].gate = runtime[s].gate
                          /\ runtime'[s].identity = runtime[s].identity
  BY <1>1
<1>4. ASSUME NEW q \in Queries PROVE JobInv(q, query[q], runtime')
  <2>1. JobInv(q, query[q], runtime) /\ query[q] \in Jobs
    BY DEF IInv
  <2>2. query[q].by \in Identities
    BY <2>1 DEF Jobs
  <2>3. query[q].step \in Using => query[q].runtime \in Runtimes
    BY <2>1 DEF JobInv, Placed
  <2>4. Holds(q, query[q], runtime') /\ CalledUnderKey(query[q], runtime')
    BY <1>3, <2>1, <2>3 DEF JobInv, Holds, CalledUnderKey, Using, Gated
  <2>5. Answered(query[q], runtime')
    BY <1>1, <2>1, <2>2, <2>3 DEF JobInv, Answered, Using, Verifying, Gated
  <2> QED BY <2>1, <2>4, <2>5 DEF JobInv
<1>5. Resolutions' /\ Private'
  BY DEF IInv, Resolutions, OneResolution, Private
<1> QED BY <1>1, <1>2, <1>4, <1>5 DEF IInv

LEMMA NeedCredentialsKeeps == ASSUME IInv, NEW q \in Queries, NeedCredentials(q) PROVE IInv'
<1> DEFINE r   == Own(q)
           old == runtime[r]
           run == [old EXCEPT !.fetching = TRUE]
<1>1. query[q].step \in Calls /\ query[q].step \in Using
  BY DEF NeedCredentials, Calls, Using, Verifying, Gated
<1>2. r \in Runtimes
  BY <1>1 DEF IInv, JobInv, Placed, Own
<1>3. old \in Built /\ RunInv(old) /\ ~old.valid
  BY <1>2 DEF IInv, NeedCredentials
<1>4. /\ run \in Built /\ run.identity = old.identity /\ run.gate = old.gate /\ run.gen = old.gen
      /\ run.principal = old.principal /\ run.valid = old.valid
  BY <1>3 DEF Built
<1>5. /\ RunInv(run)
      /\ \A identity \in Identities : Had(identity, old) => Had(identity, run)
  BY <1>3, <1>4 DEF RunInv, Had
<1>6. /\ runtime' = [runtime EXCEPT ![r] = run] /\ UNCHANGED <<entry, query>>
      /\ profile' \in Principals
  BY DEF NeedCredentials, IInv, env
<1> HIDE DEF run
<1>7. \A p \in Queries : query[p].step \in {"verified", "confirmed"} => query[p].runtime # r
  <2> SUFFICES ASSUME NEW p \in Queries, query[p].step \in {"verified", "confirmed"}
               PROVE  query[p].runtime # r
    OBVIOUS
  <2>1. p # q /\ query[p].step \in Using
    BY <1>1 DEF Calls, Using, Verifying, Gated
  <2> QED BY <1>1, <2>1, Alone DEF Own
<1> HIDE DEF r, old
<1> QED BY <1>2, <1>4, <1>5, <1>6, <1>7, Renewal DEF old

LEMMA RetrievedKeeps == ASSUME IInv, NEW r \in Runtimes, Retrieved(r) PROVE IInv'
<1> DEFINE old == runtime[r]
           run == [old EXCEPT !.fetching = FALSE, !.valid = TRUE, !.gen = @ + 1, !.principal = profile]
<1>1. old \in Built /\ RunInv(old) /\ old.fetching /\ profile \in Principals
  BY DEF IInv, Retrieved
<1>2. /\ run \in Built /\ run.identity = old.identity /\ run.gate = old.gate
      /\ run.gen = old.gen + 1 /\ run.gen \in Nat /\ old.gen \in Nat /\ ~run.fetching
      /\ old.identity \in Identities
  <2>1. old.gen \in Nat /\ old.gen + 1 \in Nat /\ old.identity \in Identities
    BY <1>1 DEF Built
  <2> DEFINE got == [old EXCEPT !.fetching = FALSE, !.valid = TRUE]
  <2>2. /\ got \in Built /\ got.identity = old.identity /\ got.gate = old.gate
        /\ got.gen = old.gen /\ ~got.fetching
    BY <1>1 DEF Built
  <2>3. run = [got EXCEPT !.gen = old.gen + 1, !.principal = profile]
    BY <2>2
  <2> HIDE DEF got, run
  <2> QED BY <1>1, <2>1, <2>2, <2>3 DEF Built
<1>3. \A identity \in Identities : Had(identity, old) => Had(identity, run)
  BY <1>2 DEF Had, Identities
<1>4. RunInv(run)
  BY <1>1, <1>2, <1>3 DEF RunInv
<1>5. /\ runtime' = [runtime EXCEPT ![r] = run] /\ UNCHANGED <<entry, query>>
      /\ profile' \in Principals
  BY DEF Retrieved, IInv, env
<1> HIDE DEF run
<1>6. \A q \in Queries : query[q].step \in {"verified", "confirmed"} => query[q].runtime # r
  BY <1>1 DEF IInv, JobInv, Answered
<1> HIDE DEF old
<1> QED BY <1>2, <1>3, <1>4, <1>5, <1>6, Renewal DEF old

LEMMA ExpireKeeps == ASSUME IInv, NEW r \in Runtimes, Expire(r) PROVE IInv'
<1> DEFINE old == runtime[r]
           run == [old EXCEPT !.valid = FALSE]
<1>1. old \in Built /\ RunInv(old) /\ old.valid
  BY DEF IInv, Expire
<1>2. /\ run \in Built /\ run.identity = old.identity /\ run.gate = old.gate /\ run.gen = old.gen
      /\ run.principal = old.principal /\ ~run.valid /\ run.fetching = old.fetching
  BY <1>1 DEF Built
<1>3. /\ RunInv(run) /\ ~run.fetching
      /\ \A identity \in Identities : Had(identity, old) => Had(identity, run)
  BY <1>1, <1>2 DEF RunInv, Had, Built
<1>4. /\ runtime' = [runtime EXCEPT ![r] = run] /\ UNCHANGED <<entry, query>>
      /\ profile' \in Principals
  BY DEF Expire, IInv
<1> HIDE DEF run, old
<1> QED BY <1>2, <1>3, <1>4, Renewal DEF old

LEMMA Still ==
  ASSUME IInv, UNCHANGED <<entry, runtime, query>>, profile' \in Principals
  PROVE  IInv'
BY DEF IInv, Resolutions, OneResolution, Private

-----------------------------------------------------------------------------
(* The theorems *)

LEMMA StepKeeps == IInv /\ [Next]_vars => IInv'
<1> SUFFICES ASSUME IInv, [Next]_vars PROVE IInv'
  OBVIOUS
<1>1. ASSUME NEW q \in Queries, Step(q) PROVE IInv'
  BY <1>1, TakeRuntimeKeeps, StartResolutionKeeps, BuildKeeps, MemoizeKeeps, IdentifyKeeps,
     FenceKeeps, MatchKeeps, FailKeeps, AcquireKeeps, EnsureKeeps, BindKeeps, ReturnedKeeps,
     ConfirmedKeeps
     DEF Step
<1>2. ASSUME NEW q \in Queries, CallFails(q) \/ GiveUp(q) PROVE IInv'
  <2>1. Abort(q) /\ query[q].step \in Resolving \cup Gated \cup {"lookup", "acquire"}
    BY <1>2 DEF CallFails, GiveUp, Calls, Gated, Resolving
  <2> QED BY <2>1, AbortKeeps
<1>3. ASSUME NEW principal \in Principals, Switch(principal) PROVE IInv'
  BY <1>3, Still DEF Switch
<1>4. CASE UNCHANGED vars
  BY <1>4, Still DEF vars, env, IInv
<1>5. CASE Next
  BY <1>1, <1>2, <1>3, <1>5, BeginKeeps, NeedCredentialsKeeps, AnswerKeeps, ExpiredTokenKeeps,
     CancelKeeps, RetrievedKeeps, ExpireKeeps
     DEF Next
<1> QED BY <1>4, <1>5

LEMMA Invariance == Spec => []IInv
BY InitIInv, StepKeeps, PTL DEF Spec

(* Types; a gate is held by the query that is in a read of the runtime, and *)
(* the registry says "resolving" exactly while a query resolves: no gate or *)
(* entry is left behind by an error, a renewal or a cancellation            *)
(* (guardedRead's deferred release, ContextRegistry.Resolve).               *)
THEOREM TypeCorrect == Spec => []TypeOK
<1>1. IInv => TypeOK
  <2> SUFFICES ASSUME IInv PROVE TypeOK
    OBVIOUS
  <2>1. ASSUME NEW q \in Queries
        PROVE  /\ query[q].step \in Steps /\ query[q].key \in Identities
               /\ query[q].step \in Gated <=> \E r \in Runtimes : runtime[r].gate = q
    <3>1. query[q].step \in Steps /\ query[q].key \in Identities
      BY DEF IInv, Jobs
    <3>2. query[q].step \in Gated => query[q].runtime \in Runtimes
      BY DEF IInv, JobInv, Placed, Using
    <3> QED BY <3>1, <3>2 DEF IInv, JobInv, Holds
  <2>2. /\ entry.state \in {"absent", "resolving", "ready"} /\ entry.gen \in Nat
        /\ entry.runtime \in Runtimes \cup {None}
    BY DEF IInv, Entries
  <2>3. \A r \in Runtimes : runtime[r].identity \in Identities /\ runtime[r].gen \in Nat
    BY DEF IInv, Built
  <2> QED BY <2>1, <2>2, <2>3 DEF TypeOK, IInv, Resolutions
<1> QED BY <1>1, Invariance, PTL

(* However many queries resolve a context at once, one of them exports      *)
(* credentials for it and the others wait (ContextRegistry.Resolve).        *)
THEOREM ResolutionsCoalesced == Spec => []OneResolution
<1>1. IInv => OneResolution
  BY DEF IInv, Resolutions
<1> QED BY <1>1, Invariance, PTL

(* Every page that was kept was read with the credentials its query's key   *)
(* names, whatever was renewed in between and by whom (guardedRead).        *)
THEOREM PagesReadUnderKey == Spec => []PagesMatchKey
<1>1. IInv => PagesMatchKey
  BY DEF IInv, JobInv, Kept, PagesMatchKey
<1> QED BY <1>1, Invariance, PTL

-----------------------------------------------------------------------------
(* Changed contexts *)

(* Only a runtime in the registry's hands is named by its entry, and a query  *)
(* that is told of a change had a runtime, which the entry no longer names.   *)
Dropped ==
  /\ entry.state # "ready" => entry.runtime = None
  /\ \A q \in Queries : query[q].step \in {"fail", "changed"} => query[q].runtime \in Runtimes
  /\ ChangedRuntimeDropped

(* Credentials were retrieved since the runtime was verified. *)
Moved(run) == run.identity.gen < run.gen

(* A runtime is marked as changed for credentials it retrieved later. *)
Marked(run) == run.changed => Moved(run)

(* A read goes on in a runtime that is not marked; it asks AWS who it is   *)
(* only when credentials were retrieved, and gives up whatever the answer  *)
(* only when it had read under its key.                                    *)
Reads(job, rt) ==
  /\ job.step \in Gated \ {"ensure"} => ~rt[job.runtime].changed
  /\ job.step = "renew" => (rt[job.runtime].valid => Moved(rt[job.runtime]))
  /\ job.step \in {"confirm", "confirmed"} =>
       /\ Moved(rt[job.runtime])
       /\ job.next = "reject" => job.key = rt[job.runtime].identity

(* A runtime nobody has read from is not marked. *)
HiddenUnmarked ==
  \A q \in Queries, stage \in Stages : Hidden(query[q], stage) => ~runtime[<<q, stage>>].changed

CInv ==
  /\ IInv /\ Dropped /\ HiddenUnmarked
  /\ \A r \in Runtimes : Marked(runtime[r])
  /\ \A q \in Queries : Reads(query[q], runtime)

(* What a step of q, or of a runtime, leaves of the runtimes. *)
Alike(run, new) ==
  new.gen = run.gen /\ new.valid = run.valid /\ new.changed = run.changed /\ new.identity = run.identity

LEMMA InitCInv == Init => CInv
<1> SUFFICES ASSUME Init PROVE CInv
  OBVIOUS
<1>1. IInv
  BY InitIInv
<1>2. /\ entry.state = "absent" /\ entry.runtime = None
      /\ \A q \in Queries : query[q].step = "idle"
      /\ \A r \in Runtimes : ~runtime[r].changed
  BY DEF Init, NoEntry, Fresh, Unbuilt
<1>3. Dropped
  BY <1>2 DEF Dropped, ChangedRuntimeDropped
<1>4. HiddenUnmarked
  BY <1>2 DEF HiddenUnmarked, Runtimes
<1>5. \A r \in Runtimes : Marked(runtime[r])
  BY <1>2 DEF Marked
<1>6. \A q \in Queries : Reads(query[q], runtime)
  BY <1>2 DEF Reads, Gated
<1> QED BY <1>1, <1>3, <1>4, <1>5, <1>6 DEF CInv

-----------------------------------------------------------------------------
(* The entry and what it no longer names *)

LEMMA StillDropped ==
  ASSUME IInv, Dropped, NEW q \in Queries, NEW job \in Jobs, query' = [query EXCEPT ![q] = job],
         entry'.runtime \in {entry.runtime, None}, entry'.state # "ready" => entry'.runtime = None,
         job.step \in {"fail", "changed"} => job.runtime \in Runtimes,
         job.step = "changed" => entry'.runtime # job.runtime
  PROVE  Dropped'
<1>1. query'[q] = job /\ \A p \in Queries \ {q} : query'[p] = query[p]
  BY DEF IInv
<1>2. ASSUME NEW p \in Queries
      PROVE  /\ query'[p].step \in {"fail", "changed"} => query'[p].runtime \in Runtimes
             /\ query'[p].step = "changed" => entry'.runtime # query'[p].runtime
  <2>1. CASE p = q
    BY <1>1, <2>1
  <2>2. CASE p # q
    BY <1>1, <2>2, Constants DEF Dropped, ChangedRuntimeDropped
  <2> QED BY <2>1, <2>2
<1> QED BY <1>2 DEF Dropped, ChangedRuntimeDropped

(* The steps that leave the entry alone, and do not tell of a change. *)
LEMMA SameEntry ==
  ASSUME IInv, Dropped, NEW q \in Queries, NEW job \in Jobs, query' = [query EXCEPT ![q] = job],
         UNCHANGED entry, job.step # "changed", job.step = "fail" => job.runtime \in Runtimes
  PROVE  Dropped'
BY StillDropped DEF Dropped

LEMMA NoQuery ==
  ASSUME Dropped, UNCHANGED <<entry, query>> PROVE Dropped'
BY DEF Dropped, ChangedRuntimeDropped

-----------------------------------------------------------------------------
(* What each step keeps of them *)

CGoes ==
  /\ Dropped' /\ HiddenUnmarked'
  /\ \A r \in Runtimes : Marked(runtime'[r])
  /\ \A q \in Queries : Reads(query'[q], runtime')

(* A query outside a read, or at its start. *)
LEMMA ReadsNothing ==
  ASSUME NEW job, NEW rt, job.step \notin Gated \ {"ensure"} PROVE Reads(job, rt)
BY DEF Reads, Gated

LEMMA ReadsAlike ==
  ASSUME NEW job, NEW rt, NEW new, Reads(job, rt), Alike(rt[job.runtime], new[job.runtime])
  PROVE  Reads(job, new)
BY DEF Reads, Alike, Moved

LEMMA RuntimeRead ==
  ASSUME IInv, NEW q \in Queries, query[q].step \in Gated
  PROVE  query[q].runtime \in Runtimes
BY DEF IInv, JobInv, Placed, Using

(* A step of q that leaves alone what others read from. *)
LEMMA ReadGoes ==
  ASSUME CInv, NEW q \in Queries, NEW job \in Jobs, query' = [query EXCEPT ![q] = job], Dropped',
         \A stage \in Stages : Hidden(job, stage) => Hidden(query[q], stage),
         \A r \in Runtimes : Marked(runtime'[r]),
         \A p \in Queries, stage \in Stages :
           Hidden(query[p], stage) /\ (p = q => Hidden(job, stage)) => ~runtime'[<<p, stage>>].changed,
         \A p \in Queries \ {q} : query[p].step \in Gated =>
           Alike(runtime[query[p].runtime], runtime'[query[p].runtime]),
         Reads(job, runtime')
  PROVE  CGoes
<1>1. query'[q] = job /\ \A p \in Queries \ {q} : query'[p] = query[p]
  BY DEF CInv, IInv
<1>2. HiddenUnmarked'
  BY <1>1 DEF HiddenUnmarked
<1>3. ASSUME NEW p \in Queries PROVE Reads(query'[p], runtime')
  <2>1. CASE p = q
    BY <1>1, <2>1
  <2>2. CASE p # q /\ query[p].step \in Gated
    BY <1>1, <2>2, ReadsAlike DEF CInv
  <2>3. CASE p # q /\ query[p].step \notin Gated
    BY <1>1, <2>3, ReadsNothing
  <2> QED BY <2>1, <2>2, <2>3
<1> QED BY <1>2, <1>3 DEF CGoes

(* A step of q that leaves the entry alone, and of the runtimes only the gates. *)
LEMMA QuietGoes ==
  ASSUME CInv, NEW q \in Queries, NEW job \in Jobs, query' = [query EXCEPT ![q] = job],
         UNCHANGED entry, \A r \in Runtimes : Alike(runtime[r], runtime'[r]),
         job.step # "changed", job.step = "fail" => job.runtime \in Runtimes,
         \A stage \in Stages : Hidden(job, stage) => Hidden(query[q], stage),
         job.step \in Gated => job.runtime \in Runtimes, Reads(job, runtime)
  PROVE  CGoes
<1>0. Reads(job, runtime')
  <2>1. CASE job.step \in Gated
    BY <2>1, ReadsAlike
  <2>2. CASE job.step \notin Gated
    BY <2>2, ReadsNothing
  <2> QED BY <2>1, <2>2
<1>1. Dropped'
  BY SameEntry DEF CInv
<1>2. \A r \in Runtimes : Marked(runtime'[r])
  BY DEF CInv, Marked, Moved, Alike
<1>3. \A p \in Queries, stage \in Stages : Hidden(query[p], stage) => ~runtime'[<<p, stage>>].changed
  BY DEF CInv, HiddenUnmarked, Alike, Runtimes
<1>4. \A p \in Queries : query[p].step \in Gated =>
        Alike(runtime[query[p].runtime], runtime'[query[p].runtime])
  BY RuntimeRead DEF CInv
<1> QED BY <1>0, <1>1, <1>2, <1>3, <1>4, ReadGoes

LEMMA AlikeSelf == ASSUME UNCHANGED runtime PROVE \A r \in Runtimes : Alike(runtime[r], runtime'[r])
BY DEF Alike

LEMMA AlikeFreed ==
  ASSUME IInv, NEW q \in Queries, runtime' = Freed(q)
  PROVE  \A r \in Runtimes : Alike(runtime[r], runtime'[r])
<1> SUFFICES ASSUME NEW r \in Runtimes PROVE Alike(runtime[r], runtime'[r])
  OBVIOUS
<1>1. PICK run \in Built : run = runtime[r]
  BY DEF IInv
<1>2. PICK free : free = [run EXCEPT !.gate = None]
  OBVIOUS
<1>3. free.gen = run.gen /\ free.valid = run.valid /\ free.changed = run.changed /\ free.identity = run.identity
  BY <1>2 DEF Built
<1>4. runtime'[r] = free \/ runtime'[r] = run
  BY <1>1, <1>2 DEF Freed
<1> QED BY <1>1, <1>3, <1>4 DEF Alike

LEMMA JobIs == ASSUME IInv, NEW q \in Queries PROVE query[q] \in Jobs /\ query[q].stage \in Stages
BY DEF IInv, Jobs

(* A query goes to another step, and nothing else. *)
LEMMA GoIs ==
  ASSUME IInv, NEW q \in Queries, NEW step \in Steps, NEW job, job = [query[q] EXCEPT !.step = step]
  PROVE  job \in Jobs /\ job.step = step /\ job.stage = query[q].stage /\ job.runtime = query[q].runtime
         /\ job.key = query[q].key
BY JobIs DEF Jobs


LEMMA BeginGoes == ASSUME CInv, NEW q \in Queries, Begin(q) PROVE CGoes
<1>1. PICK job : job = [query[q] EXCEPT !.step = "lookup"]
  OBVIOUS
<1>2. IInv /\ query[q].step = "idle"
  BY DEF CInv, Begin
<1>3. job \in Jobs /\ job.step = "lookup" /\ job.stage = query[q].stage
  BY <1>1, <1>2, GoIs DEF Steps
<1>4. query' = [query EXCEPT ![q] = job] /\ UNCHANGED <<entry, runtime>>
  BY <1>1 DEF Begin, Go
<1>5. Reads(job, runtime) /\ job.step \notin Gated
  BY <1>3, ReadsNothing DEF Gated
<1>6. \A stage \in Stages : Hidden(job, stage) => Hidden(query[q], stage)
  BY <1>2, <1>3 DEF Hidden
<1> QED BY <1>3, <1>4, <1>5, <1>6, AlikeSelf, QuietGoes

LEMMA TakeRuntimeGoes == ASSUME CInv, NEW q \in Queries, TakeRuntime(q) PROVE CGoes
<1>1. PICK next : next = IF query[q].stage = "subscribe" THEN "identify" ELSE "match"
  OBVIOUS
<1>2. PICK job : job = [query[q] EXCEPT !.runtime = entry.runtime, !.step = next]
  OBVIOUS
<1>3. IInv /\ query[q] \in Jobs /\ query[q].step = "lookup" /\ entry.runtime \in Runtimes
  BY JobIs DEF CInv, TakeRuntime, Current, IInv
<1>4. next \in Steps /\ next \in {"identify", "match"}
  BY <1>1 DEF Steps
<1>5. job \in Jobs /\ job.step = next /\ job.stage = query[q].stage
  BY <1>2, <1>3, <1>4 DEF Jobs
<1>6. query' = [query EXCEPT ![q] = job] /\ UNCHANGED <<entry, runtime>>
  BY <1>1, <1>2 DEF TakeRuntime
<1>7. Reads(job, runtime) /\ job.step \notin Gated
  BY <1>4, <1>5, ReadsNothing DEF Gated
<1>8. \A stage \in Stages : Hidden(job, stage) => Hidden(query[q], stage)
  BY <1>4, <1>5 DEF Hidden, Resolving
<1> QED BY <1>4, <1>5, <1>6, <1>7, <1>8, AlikeSelf, QuietGoes

LEMMA IdentifyGoes == ASSUME CInv, NEW q \in Queries, Identify(q) PROVE CGoes
<1>1. PICK id : id = runtime[Own(q)].identity
  OBVIOUS
<1>2. PICK job : job = [query[q] EXCEPT !.key = id, !.step = "fence"]
  OBVIOUS
<1>3. IInv /\ query[q] \in Jobs /\ query[q].step = "identify" /\ Own(q) = query[q].runtime
  BY JobIs DEF CInv, Identify, Own
<1>4. Own(q) \in Runtimes /\ id \in Identities
  BY <1>1, <1>3 DEF IInv, JobInv, Placed, Built
<1>5. job \in Jobs /\ job.step = "fence" /\ job.stage = query[q].stage
  BY <1>2, <1>3, <1>4 DEF Jobs, Steps
<1>6. query' = [query EXCEPT ![q] = job] /\ UNCHANGED <<entry, runtime>>
  BY <1>1, <1>2 DEF Identify
<1>7. Reads(job, runtime) /\ job.step \notin Gated
  BY <1>5, ReadsNothing DEF Gated
<1>8. \A stage \in Stages : Hidden(job, stage) => Hidden(query[q], stage)
  BY <1>5 DEF Hidden, Resolving
<1> QED BY <1>5, <1>6, <1>7, <1>8, AlikeSelf, QuietGoes

LEMMA FenceGoes == ASSUME CInv, NEW q \in Queries, Fence(q) PROVE CGoes
<1>0. IInv /\ query[q] \in Jobs /\ query[q].step = "fence" /\ query[q].stage = "subscribe"
  BY JobIs DEF CInv, Fence, IInv, JobInv, Placed
<1>1. PICK job : /\ query' = [query EXCEPT ![q] = job] /\ UNCHANGED <<entry, runtime>>
                 /\ \/ job = [query[q] EXCEPT !.step = "rejected"]
                    \/ job = [query[q] EXCEPT !.stage = "execute", !.step = "lookup"]
  <2>1. UNCHANGED <<entry, runtime>>
    BY DEF Fence
  <2>2. CASE query' = [query EXCEPT ![q].step = "rejected"]
    BY <2>1, <2>2
  <2>3. CASE query' = [query EXCEPT ![q].stage = "execute", ![q].step = "lookup"]
    <3>1. query \in [Queries -> Jobs]
      BY <1>0 DEF IInv
    <3>2. query' = [query EXCEPT ![q] = [query[q] EXCEPT !.stage = "execute", !.step = "lookup"]]
      BY <2>3, <3>1
    <3> QED BY <2>1, <3>2
  <2> QED BY <2>2, <2>3 DEF Fence, Go
<1>2. /\ job \in Jobs
      /\ \/ job.step = "rejected" /\ job.stage = "subscribe"
         \/ job.step = "lookup" /\ job.stage = "execute"
  BY <1>0, <1>1 DEF Jobs, Steps, Over, Stages
<1>3. Reads(job, runtime) /\ job.step \notin Gated
  BY <1>2, ReadsNothing DEF Gated
<1>4. \A stage \in Stages : Hidden(job, stage) => Hidden(query[q], stage)
  BY <1>0, <1>2 DEF Hidden, Resolving
<1> QED BY <1>1, <1>2, <1>3, <1>4, AlikeSelf, QuietGoes

LEMMA MatchGoes == ASSUME CInv, NEW q \in Queries, Match(q) PROVE CGoes
<1>1. IInv /\ query[q] \in Jobs /\ query[q].step = "match" /\ query[q].runtime \in Runtimes
  BY JobIs DEF CInv, Match, IInv, JobInv, Placed
<1>2. PICK next : next = IF runtime[Own(q)].identity = query[q].key THEN "acquire" ELSE "fail"
  OBVIOUS
<1>3. PICK job : job = [query[q] EXCEPT !.step = next]
  OBVIOUS
<1>4. next \in Steps /\ next \in {"acquire", "fail"}
  BY <1>2 DEF Steps
<1>5. job \in Jobs /\ job.step = next /\ job.stage = query[q].stage /\ job.runtime = query[q].runtime
  BY <1>1, <1>3, <1>4, GoIs
<1>6. query' = [query EXCEPT ![q] = job] /\ UNCHANGED <<entry, runtime>>
  BY <1>2, <1>3 DEF Match, Go
<1>7. Reads(job, runtime) /\ job.step \notin Gated
  BY <1>4, <1>5, ReadsNothing DEF Gated
<1>8. \A stage \in Stages : Hidden(job, stage) => Hidden(query[q], stage)
  BY <1>4, <1>5 DEF Hidden, Resolving
<1> QED BY <1>1, <1>4, <1>5, <1>6, <1>7, <1>8, AlikeSelf, QuietGoes

LEMMA CancelGoes == ASSUME CInv, NEW q \in Queries, Cancel(q) PROVE CGoes
<1>1. PICK job : job = [query[q] EXCEPT !.cancelled = TRUE]
  OBVIOUS
<1>2. IInv /\ query[q] \in Jobs /\ query[q].step \notin Over /\ Dropped
  BY JobIs DEF CInv, Cancel
<1>3. /\ job \in Jobs /\ job.step = query[q].step /\ job.stage = query[q].stage
      /\ job.runtime = query[q].runtime /\ job.key = query[q].key /\ job.next = query[q].next
  BY <1>1, <1>2 DEF Jobs
<1>4. query' = [query EXCEPT ![q] = job] /\ UNCHANGED <<entry, runtime>>
  BY <1>1 DEF Cancel
<1>5. Reads(job, runtime)
  BY <1>3 DEF CInv, Reads
<1>6. \A stage \in Stages : Hidden(job, stage) => Hidden(query[q], stage)
  BY <1>3 DEF Hidden
<1>7. /\ job.step # "changed" /\ (job.step = "fail" => job.runtime \in Runtimes)
      /\ job.step \in Gated => job.runtime \in Runtimes
  BY <1>2, <1>3, RuntimeRead DEF Over, Dropped
<1> QED BY <1>3, <1>4, <1>5, <1>6, <1>7, AlikeSelf, QuietGoes

LEMMA ReadHasRuntime ==
  ASSUME IInv, NEW q \in Queries, query[q].step \in Gated \cup {"match", "acquire"}
  PROVE  /\ Own(q) \in Runtimes /\ Own(q) = query[q].runtime /\ query[q].stage = "execute"
         /\ runtime[Own(q)] \in Built /\ RunInv(runtime[Own(q)])
BY DEF IInv, JobInv, Placed, Using, Own

LEMMA AcquireGoes == ASSUME CInv, NEW q \in Queries, Acquire(q) PROVE CGoes
<1>1. PICK job : job = [query[q] EXCEPT !.attempt = 1, !.step = "ensure"]
  OBVIOUS
<1>2. IInv /\ query[q] \in Jobs /\ query[q].step = "acquire"
  BY JobIs DEF CInv, Acquire
<1>3. job \in Jobs /\ job.step = "ensure" /\ job.stage = query[q].stage /\ job.runtime = query[q].runtime
  BY <1>1, <1>2 DEF Jobs, Steps, Gated
<1>4. query' = [query EXCEPT ![q] = job] /\ UNCHANGED entry
  BY <1>1 DEF Acquire
<1>5. ASSUME NEW r \in Runtimes PROVE Alike(runtime[r], runtime'[r])
  <2>1. PICK run \in Built : run = runtime[r]
    BY <1>2 DEF IInv
  <2>2. PICK held : held = [run EXCEPT !.gate = q]
    OBVIOUS
  <2>3. held.gen = run.gen /\ held.valid = run.valid /\ held.changed = run.changed /\ held.identity = run.identity
    BY <2>2 DEF Built
  <2>4. runtime'[r] = held \/ runtime'[r] = run
    <3>1. runtime' = [runtime EXCEPT ![Own(q)] = [@ EXCEPT !.gate = q]]
      BY DEF Acquire
    <3> QED BY <1>2, <2>1, <2>2, <3>1 DEF IInv
  <2> QED BY <2>1, <2>3, <2>4 DEF Alike
<1>6. Reads(job, runtime) /\ job.runtime \in Runtimes
  BY <1>2, <1>3, ReadsNothing, ReadHasRuntime
<1>7. \A stage \in Stages : Hidden(job, stage) => Hidden(query[q], stage)
  BY <1>3 DEF Hidden, Resolving
<1> QED BY <1>3, <1>4, <1>5, <1>6, <1>7, QuietGoes

LEMMA ContextChangedGoes ==
  ASSUME CInv, NEW q \in Queries, query[q].step \in Gated, ContextChanged(q), UNCHANGED entry
  PROVE  CGoes
<1>1. IInv /\ query[q] \in Jobs /\ query[q].runtime \in Runtimes
  BY JobIs, ReadHasRuntime DEF CInv
<1>2. PICK job : job = Leave(query[q], "fail")
  OBVIOUS
<1>3. job \in Jobs /\ job.step = "fail" /\ job.stage = query[q].stage /\ job.runtime = query[q].runtime
  BY <1>1, <1>2, LeaveIs DEF Steps
<1>4. query' = [query EXCEPT ![q] = job] /\ runtime' = Freed(q)
  BY <1>2 DEF ContextChanged
<1>5. Reads(job, runtime) /\ job.step \notin Gated
  BY <1>3, ReadsNothing DEF Gated
<1>6. \A stage \in Stages : Hidden(job, stage) => Hidden(query[q], stage)
  <2>1. query[q].stage = "execute"
    BY <1>1, ReadHasRuntime
  <2> QED BY <1>3, <2>1 DEF Hidden, Resolving
<1> QED BY <1>1, <1>3, <1>4, <1>5, <1>6, AlikeFreed, QuietGoes

(* AWS is asked who the caller is after credentials were retrieved. *)
LEMMA RevalidateGoes ==
  ASSUME CInv, NEW q \in Queries, NEW next \in {"bind", "reject"}, NEW attempt \in {1, 2},
         query[q].step \in Gated, Revalidate(q, next, attempt), UNCHANGED entry,
         ~runtime[Own(q)].changed, Moved(runtime[Own(q)]),
         next = "reject" => query[q].key = runtime[Own(q)].identity
  PROVE  CGoes
<1>1. IInv /\ query[q] \in Jobs /\ Own(q) \in Runtimes /\ Own(q) = query[q].runtime
  BY JobIs, ReadHasRuntime DEF CInv
<1>2. PICK id \in Identities : id = runtime[Own(q)].identity
  BY <1>1 DEF IInv, Built
<1>3. PICK job : job = [query[q] EXCEPT !.expected = id, !.next = next, !.attempt = attempt, !.step = "confirm"]
  OBVIOUS
<1>4. /\ job \in Jobs /\ job.step = "confirm" /\ job.stage = query[q].stage /\ job.next = next
      /\ job.runtime = Own(q) /\ job.key = query[q].key
  BY <1>1, <1>3 DEF Jobs, Steps, Gated
<1>5. query' = [query EXCEPT ![q] = job] /\ UNCHANGED runtime
  BY <1>2, <1>3 DEF Revalidate
<1>6. Reads(job, runtime)
  BY <1>4 DEF Reads
<1>7. \A stage \in Stages : Hidden(job, stage) => Hidden(query[q], stage)
  BY <1>4 DEF Hidden, Resolving
<1> QED BY <1>1, <1>4, <1>5, <1>6, <1>7, AlikeSelf, QuietGoes

LEMMA MovedIs ==
  ASSUME NEW run \in Built, RunInv(run), run.gen # run.identity.gen PROVE Moved(run)
<1>1. run.gen \in Nat /\ run.identity.gen \in Nat /\ run.identity.gen <= run.gen
  BY DEF Built, Identities, RunInv, Had
<1> QED BY <1>1 DEF Moved

LEMMA EnsureGoes == ASSUME CInv, NEW q \in Queries, Ensure(q) PROVE CGoes
<1>1. /\ IInv /\ query[q] \in Jobs /\ query[q].step = "ensure" /\ query[q].step \in Gated /\ UNCHANGED entry
      /\ Own(q) \in Runtimes /\ Own(q) = query[q].runtime
      /\ runtime[Own(q)] \in Built /\ RunInv(runtime[Own(q)])
  BY JobIs, ReadHasRuntime DEF CInv, Ensure, Gated
<1>2. CASE runtime[Own(q)].changed
  BY <1>1, <1>2, ContextChangedGoes DEF Ensure
<1>3. CASE ~runtime[Own(q)].changed /\ runtime[Own(q)].gen # runtime[Own(q)].identity.gen
  <2>1. Revalidate(q, "bind", 1)
    BY <1>3 DEF Ensure
  <2> QED BY <1>1, <1>3, <2>1, MovedIs, RevalidateGoes
<1>4. CASE ~runtime[Own(q)].changed /\ runtime[Own(q)].gen = runtime[Own(q)].identity.gen
  <2>1. Go(q, "bind") /\ UNCHANGED runtime
    BY <1>4 DEF Ensure
  <2>2. PICK job : job = [query[q] EXCEPT !.step = "bind"]
    OBVIOUS
  <2>3. job \in Jobs /\ job.step = "bind" /\ job.stage = query[q].stage /\ job.runtime = Own(q)
    BY <1>1, <2>2, GoIs DEF Steps, Gated
  <2>4. query' = [query EXCEPT ![q] = job]
    BY <2>1, <2>2 DEF Go
  <2>5. Reads(job, runtime)
    BY <1>4, <2>3 DEF Reads
  <2>6. \A stage \in Stages : Hidden(job, stage) => Hidden(query[q], stage)
    BY <2>3 DEF Hidden, Resolving
  <2> QED BY <1>1, <2>1, <2>3, <2>4, <2>5, <2>6, AlikeSelf, QuietGoes
<1> QED BY <1>2, <1>3, <1>4

LEMMA BindGoes == ASSUME CInv, NEW q \in Queries, Bind(q) PROVE CGoes
<1>1. /\ IInv /\ query[q] \in Jobs /\ query[q].step = "bind" /\ query[q].step \in Gated /\ UNCHANGED entry
      /\ Own(q) \in Runtimes /\ Own(q) = query[q].runtime /\ Reads(query[q], runtime)
  BY JobIs, ReadHasRuntime DEF CInv, Bind, Gated
<1>2. PICK id : id = runtime[Own(q)].identity
  OBVIOUS
<1>3. CASE query[q].key # id
  BY <1>1, <1>2, <1>3, ContextChangedGoes DEF Bind, Bound
<1>4. CASE query[q].key = id
  <2>1. PICK job : job = [query[q] EXCEPT !.expected = id, !.step = "call"]
    OBVIOUS
  <2>2. id \in Identities
    BY <1>1, <1>2 DEF IInv, Built
  <2>3. job \in Jobs /\ job.step = "call" /\ job.stage = query[q].stage /\ job.runtime = query[q].runtime
    BY <1>1, <2>1, <2>2 DEF Jobs, Steps, Gated
  <2>4. query' = [query EXCEPT ![q] = job] /\ UNCHANGED runtime
    BY <1>2, <1>4, <2>1 DEF Bind, Bound
  <2>5. Reads(job, runtime)
    BY <1>1, <2>3 DEF Reads
  <2>6. \A stage \in Stages : Hidden(job, stage) => Hidden(query[q], stage)
    BY <2>3 DEF Hidden, Resolving
  <2> QED BY <1>1, <2>3, <2>4, <2>5, <2>6, AlikeSelf, QuietGoes
<1> QED BY <1>3, <1>4

LEMMA ReturnedGoes == ASSUME CInv, NEW q \in Queries, Returned(q) PROVE CGoes
<1>1. /\ IInv /\ query[q] \in Jobs /\ query[q].step = "returned" /\ query[q].step \in Gated /\ UNCHANGED entry
      /\ Own(q) \in Runtimes /\ Own(q) = query[q].runtime /\ query[q].stage = "execute"
      /\ runtime[Own(q)] \in Built /\ RunInv(runtime[Own(q)]) /\ ~runtime[Own(q)].changed
  BY JobIs, ReadHasRuntime DEF CInv, Returned, Gated, Reads
<1>2. CASE ~Stable(q)
  <2>1. PICK next \in {"bind", "reject"} : Revalidate(q, next, 2)
    BY <1>2 DEF Returned
  <2>2. query[q].expected = query[q].key /\ query[q].key = runtime[Own(q)].identity
    BY <1>1 DEF IInv, JobInv, CalledUnderKey
  <2>3. Moved(runtime[Own(q)])
    BY <1>1, <1>2, <2>2, MovedIs DEF Stable
  <2> QED BY <1>1, <2>1, <2>2, <2>3, RevalidateGoes
<1>3. CASE Stable(q)
  <2>1. PICK next \in {"answered", "acquire"} : next = IF query[q].read + 1 = MaxPages THEN "answered" ELSE "acquire"
    OBVIOUS
  <2>2. PICK left : left = Leave(query[q], next)
    OBVIOUS
  <2>3. next \in Steps
    BY <2>1 DEF Steps, Over
  <2>4. /\ left \in Jobs /\ left.step = next /\ left.runtime = Own(q) /\ left.stage = query[q].stage
        /\ left.read \in Nat /\ left.pages \in SUBSET Identities
    BY <1>1, <2>2, <2>3, LeaveIs DEF Jobs
  <2>5. PICK by \in Identities : by = query[q].by
    BY <1>1 DEF Jobs
  <2>6. PICK job : job = [left EXCEPT !.read = left.read + 1, !.pages = left.pages \cup {by}]
    OBVIOUS
  <2>7. job \in Jobs /\ job.step = next /\ job.runtime = Own(q) /\ job.stage = query[q].stage
    <3>1. left.read + 1 \in Nat /\ left.pages \cup {by} \in SUBSET Identities
      BY <2>4
    <3>2. PICK n, s : n = left.read + 1 /\ s = left.pages \cup {by}
      OBVIOUS
    <3> QED BY <2>4, <2>6, <3>1, <3>2 DEF Jobs
  <2>8. query' = [query EXCEPT ![q] = job] /\ runtime' = Freed(q)
    BY <1>3, <2>1, <2>2, <2>5, <2>6 DEF Returned
  <2>9. Reads(job, runtime) /\ job.step \notin Gated
    BY <2>1, <2>7, ReadsNothing DEF Gated
  <2>10. \A stage \in Stages : Hidden(job, stage) => Hidden(query[q], stage)
    BY <1>1, <2>1, <2>7 DEF Hidden, Resolving
  <2> QED BY <1>1, <2>1, <2>7, <2>8, <2>9, <2>10, AlikeFreed, QuietGoes
<1> QED BY <1>2, <1>3

(* Others read from other runtimes than q. *)
LEMMA OthersRead ==
  ASSUME IInv, NEW q \in Queries, query[q].step \in Using, NEW p \in Queries, p # q, query[p].step \in Gated
  PROVE  query[p].runtime \in Runtimes /\ query[p].runtime # Own(q)
BY RuntimeRead, Alone DEF Using, Own

(* Nobody reads from a hidden runtime. *)
LEMMA HiddenUnread ==
  ASSUME IInv, NEW q \in Queries, query[q].step \in Gated, NEW p \in Queries, NEW stage \in Stages,
         Hidden(query[p], stage)
  PROVE  query[q].runtime # <<p, stage>>
<1>1. CASE p = q
  <2>1. query[q].stage = "execute" /\ query[q].step \notin {"idle", "lookup"} \cup Resolving
    BY DEF IInv, JobInv, Placed, Gated, Resolving
  <2> QED BY <1>1, <2>1 DEF Hidden
<1>2. CASE p # q
  BY <1>2 DEF IInv, Private
<1> QED BY <1>1, <1>2

(* A runtime is marked when AWS says that its credentials are another     *)
(* account's; only then, or at the end of the read, the read gives it up. *)
LEMMA ConfirmedRun ==
  ASSUME CInv, NEW q \in Queries, Confirmed(q)
  PROVE  \E run, job :
           /\ runtime' = [runtime EXCEPT ![Own(q)] = run] /\ query' = [query EXCEPT ![q] = job]
           /\ run.gen = runtime[Own(q)].gen
           /\ \/ run.identity = runtime[Own(q)].identity /\ run.changed
              \/ run.identity.gen = run.gen /\ ~run.changed
           /\ job \in Jobs /\ job.stage = query[q].stage /\ job.runtime = Own(q) /\ job.key = query[q].key
           /\ \/ job.step = "bind" /\ ~run.changed
              \/ job.step = "fail" /\ (run.changed \/ query[q].next = "reject")
<1> DEFINE old    == runtime[Own(q)]
           actual == Identity(query[q].by.principal, old.gen)
           same   == Account[actual.principal] = Account[query[q].expected.principal]
           again  == same /\ query[q].next = "bind"
<1>1. query[q].step = "confirmed" /\ query[q].step \in Gated /\ IInv /\ query[q] \in Jobs
  BY JobIs DEF Confirmed, CInv, Gated
<1>2. Own(q) = query[q].runtime /\ old \in Built /\ ~old.changed
  BY <1>1, ReadHasRuntime DEF CInv, Reads
<1>3. PICK ident : ident = IF same THEN actual ELSE old.identity
  OBVIOUS
<1>4. PICK changed \in BOOLEAN : changed = (old.changed \/ ~same)
  OBVIOUS
<1>5. PICK gate : gate = IF again THEN q ELSE None
  OBVIOUS
<1>6. PICK run : run = [old EXCEPT !.identity = ident, !.changed = changed, !.gate = gate]
  OBVIOUS
<1>7. runtime' = [runtime EXCEPT ![Own(q)] = run]
  BY <1>3, <1>4, <1>5, <1>6 DEF Confirmed
<1>8. run.gen = old.gen /\ run.identity = ident /\ run.changed = changed
  BY <1>2, <1>6 DEF Built
<1>9. PICK job : job = IF again THEN [query[q] EXCEPT !.step = "bind"] ELSE Leave(query[q], "fail")
  OBVIOUS
<1>10. query' = [query EXCEPT ![q] = job]
  BY <1>9 DEF Confirmed
<1>11. actual.gen = old.gen
  BY DEF Identity
<1> HIDE DEF actual, same, old
<1>12. \/ job.step = "bind" /\ again
       \/ job.step = "fail" /\ ~again
  <2>1. again => job.step = "bind"
    BY <1>1, <1>9, GoIs DEF Steps, Gated
  <2>2. ~again => job.step = "fail"
    BY <1>1, <1>9, LeaveIs DEF Steps
  <2> QED BY <2>1, <2>2
<1>13. job \in Jobs /\ job.stage = query[q].stage /\ job.runtime = Own(q) /\ job.key = query[q].key
  <2>1. CASE again
    BY <1>1, <1>2, <1>9, <2>1, GoIs DEF Steps, Gated
  <2>2. CASE ~again
    BY <1>1, <1>2, <1>9, <2>2, LeaveIs DEF Steps
  <2> QED BY <2>1, <2>2
<1>14. query[q].next \in {"bind", "reject"}
  BY <1>1 DEF Jobs
<1>15. /\ same => run.identity.gen = run.gen /\ ~run.changed
       /\ ~same => run.identity = old.identity /\ run.changed
  BY <1>2, <1>3, <1>4, <1>8, <1>11
<1>16. \/ job.step = "bind" /\ ~run.changed
       \/ job.step = "fail" /\ (run.changed \/ query[q].next = "reject")
  BY <1>12, <1>14, <1>15
<1> QED BY <1>7, <1>8, <1>10, <1>13, <1>15, <1>16 DEF old

LEMMA ConfirmedGoes == ASSUME CInv, NEW q \in Queries, Confirmed(q) PROVE CGoes
<1>1. PICK run, job :
        /\ runtime' = [runtime EXCEPT ![Own(q)] = run] /\ query' = [query EXCEPT ![q] = job]
        /\ run.gen = runtime[Own(q)].gen
        /\ \/ run.identity = runtime[Own(q)].identity /\ run.changed
           \/ run.identity.gen = run.gen /\ ~run.changed
        /\ job \in Jobs /\ job.stage = query[q].stage /\ job.runtime = Own(q) /\ job.key = query[q].key
        /\ \/ job.step = "bind" /\ ~run.changed
           \/ job.step = "fail" /\ (run.changed \/ query[q].next = "reject")
  BY ConfirmedRun
<1>2. /\ IInv /\ query[q].step = "confirmed" /\ query[q].step \in Gated \cap Using /\ UNCHANGED entry
      /\ Own(q) \in Runtimes /\ Own(q) = query[q].runtime /\ Moved(runtime[Own(q)])
  BY ReadHasRuntime DEF Confirmed, CInv, Gated, Using, Reads
<1>3. runtime'[Own(q)] = run /\ \A s \in Runtimes \ {Own(q)} : runtime'[s] = runtime[s]
  BY <1>1, <1>2 DEF IInv
<1>4. \A r \in Runtimes : Marked(runtime'[r])
  BY <1>1, <1>2, <1>3 DEF CInv, Marked, Moved
<1>5. Reads(job, runtime')
  BY <1>1, <1>3 DEF Reads, Gated
<1>6. Dropped'
  BY <1>1, <1>2, SameEntry DEF CInv
<1>7. \A stage \in Stages : Hidden(job, stage) => Hidden(query[q], stage)
  BY <1>1 DEF Hidden, Resolving
<1>8. \A p \in Queries \ {q} : query[p].step \in Gated =>
        Alike(runtime[query[p].runtime], runtime'[query[p].runtime])
  BY <1>2, <1>3, OthersRead DEF Alike
<1>9. \A p \in Queries, stage \in Stages : Hidden(query[p], stage) => ~runtime'[<<p, stage>>].changed
  BY <1>2, <1>3, HiddenUnread DEF CInv, HiddenUnmarked, Runtimes
<1> QED BY <1>1, <1>4, <1>5, <1>6, <1>7, <1>8, <1>9, ReadGoes

LEMMA FailGoes == ASSUME CInv, NEW q \in Queries, Fail(q) PROVE CGoes
<1>1. IInv /\ Dropped /\ query[q] \in Jobs /\ query[q].step = "fail" /\ UNCHANGED runtime
  BY JobIs DEF CInv, Fail
<1>2. PICK job : job = [query[q] EXCEPT !.step = "changed"]
  OBVIOUS
<1>3. query' = [query EXCEPT ![q] = job]
  BY <1>2 DEF Fail, Go
<1>4. /\ job \in Jobs /\ job.step = "changed" /\ job.stage = query[q].stage
      /\ job.runtime = query[q].runtime /\ job.runtime \in Runtimes
  BY <1>1, <1>2, GoIs DEF Steps, Over, Dropped
<1>5. entry'.runtime = None
  BY <1>1 DEF Fail, Invalidated, NoEntry, Dropped
<1>6. Dropped'
  BY <1>1, <1>3, <1>4, <1>5, Constants, StillDropped
<1>7. Reads(job, runtime')
  BY <1>4, ReadsNothing DEF Gated
<1>8. \A stage \in Stages : Hidden(job, stage) => Hidden(query[q], stage)
  BY <1>4 DEF Hidden, Resolving
<1> QED BY <1>1, <1>3, <1>4, <1>6, <1>7, <1>8, ReadGoes DEF CInv, HiddenUnmarked, Alike

LEMMA StartResolutionGoes == ASSUME CInv, NEW q \in Queries, StartResolution(q) PROVE CGoes
<1>1. IInv /\ Dropped /\ query[q] \in Jobs /\ query[q].step = "lookup" /\ UNCHANGED runtime
  BY JobIs DEF CInv, StartResolution
<1>2. PICK job : job = [query[q] EXCEPT !.step = "build"]
  OBVIOUS
<1>3. query' = [query EXCEPT ![q] = job]
  BY <1>2 DEF StartResolution
<1>4. job \in Jobs /\ job.step = "build" /\ job.stage = query[q].stage
  BY <1>1, <1>2, GoIs DEF Steps, Resolving
<1>5. entry'.runtime = None
  BY DEF StartResolution, NoEntry
<1>6. Dropped'
  BY <1>1, <1>3, <1>4, <1>5, StillDropped
<1>7. Reads(job, runtime')
  BY <1>4, ReadsNothing DEF Gated
<1>8. \A stage \in Stages : Hidden(job, stage) => Hidden(query[q], stage)
  BY <1>1, <1>4 DEF Hidden, Resolving
<1> QED BY <1>1, <1>3, <1>4, <1>6, <1>7, <1>8, ReadGoes DEF CInv, HiddenUnmarked, Alike

LEMMA BuildGoes == ASSUME CInv, NEW q \in Queries, Build(q) PROVE CGoes
<1>1. IInv /\ query[q] \in Jobs /\ query[q].stage \in Stages /\ query[q].step = "build"
  BY JobIs DEF CInv, Build
<1>2. PICK r : r = <<q, query[q].stage>>
  OBVIOUS
<1>3. r \in Runtimes
  BY <1>1, <1>2 DEF Runtimes
<1>4. PICK job : job = [query[q] EXCEPT !.runtime = r, !.attempt = 1, !.step = "verify"]
  OBVIOUS
<1>5. job \in Jobs /\ job.step = "verify" /\ job.stage = query[q].stage
  BY <1>1, <1>3, <1>4 DEF Jobs, Steps, Resolving
<1>6. query' = [query EXCEPT ![q] = job] /\ UNCHANGED <<entry, runtime>>
  BY <1>2, <1>4 DEF Build
<1>7. Reads(job, runtime) /\ job.step \notin Gated
  BY <1>5, ReadsNothing DEF Gated
<1>8. \A stage \in Stages : Hidden(job, stage) => Hidden(query[q], stage)
  BY <1>1, <1>5 DEF Hidden, Resolving
<1> QED BY <1>5, <1>6, <1>7, <1>8, AlikeSelf, QuietGoes

(* The runtime the resolution leaves in the entry is nobody else's, and has *)
(* not been marked.                                                         *)
LEMMA MemoizeGoes == ASSUME CInv, NEW q \in Queries, Memoize(q) PROVE CGoes
<1>1. /\ IInv /\ Dropped /\ query[q] \in Jobs /\ query[q].stage \in Stages /\ query[q].step = "verified"
      /\ Own(q) = query[q].runtime /\ query[q].step \in Using
  BY JobIs DEF CInv, Memoize, Own, Using, Verifying
<1>2. PICK r \in Runtimes : r = Own(q) /\ r = <<q, query[q].stage>>
  BY <1>1 DEF IInv, JobInv, Placed, Using, Verifying
<1>3. PICK old \in Built : old = runtime[r]
  BY DEF IInv, CInv
<1>4. PICK id : id = Identity(query[q].by.principal, old.gen)
  OBVIOUS
<1>5. PICK run : run = [old EXCEPT !.identity = id]
  OBVIOUS
<1>6. ~old.changed
  <2>1. Hidden(query[q], query[q].stage)
    BY <1>1 DEF Hidden, Resolving
  <2> QED BY <1>1, <1>2, <1>3, <2>1 DEF CInv, HiddenUnmarked
<1>7. ~run.changed
  BY <1>5, <1>6 DEF Built
<1>8. PICK next \in {"identify", "match"} :
        next = (IF query[q].stage = "subscribe" THEN "identify" ELSE "match")
  OBVIOUS
<1>9. PICK job : job = Leave(query[q], next)
  OBVIOUS
<1>10. next \in Steps
  BY DEF Steps
<1>11. job \in Jobs /\ job.step = next /\ job.stage = query[q].stage /\ job.runtime = r
  BY <1>1, <1>2, <1>9, <1>10, LeaveIs
<1>12. /\ runtime'[r] = run /\ \A s \in Runtimes \ {r} : runtime'[s] = runtime[s]
       /\ query' = [query EXCEPT ![q] = job]
       /\ query'[q] = job /\ \A p \in Queries \ {q} : query'[p] = query[p]
       /\ entry'.state = "ready" /\ entry'.runtime = r
  BY <1>1, <1>2, <1>3, <1>4, <1>5, <1>8, <1>9 DEF Memoize, IInv
<1>13. ASSUME NEW p \in Queries
       PROVE  /\ query'[p].step \in {"fail", "changed"} => query'[p].runtime \in Runtimes
              /\ query'[p].step = "changed" => entry'.runtime # query'[p].runtime
  <2>1. CASE p = q
    BY <1>11, <1>12, <2>1
  <2>2. CASE p # q
    <3>1. Hidden(query[q], query[q].stage)
      BY <1>1 DEF Hidden, Resolving
    <3>2. query[p].runtime # r
      BY <1>1, <1>2, <2>2, <3>1 DEF IInv, Private
    <3> QED BY <1>1, <1>12, <2>2, <3>2 DEF Dropped
  <2> QED BY <2>1, <2>2
<1>14. Dropped'
  BY <1>12, <1>13 DEF Dropped, ChangedRuntimeDropped
<1>15. \A s \in Runtimes : Marked(runtime'[s]) /\ (runtime'[s].changed => runtime[s].changed)
  BY <1>7, <1>12 DEF CInv, Marked
<1>16. \A p \in Queries, stage \in Stages : Hidden(query[p], stage) => ~runtime'[<<p, stage>>].changed
  BY <1>15 DEF CInv, HiddenUnmarked, Runtimes
<1>17. \A p \in Queries \ {q} : query[p].step \in Gated =>
         Alike(runtime[query[p].runtime], runtime'[query[p].runtime])
  BY <1>1, <1>2, <1>12, OthersRead DEF Alike
<1>18. Reads(job, runtime')
  BY <1>11, ReadsNothing DEF Gated
<1>19. \A stage \in Stages : Hidden(job, stage) => Hidden(query[q], stage)
  BY <1>1, <1>11 DEF Hidden, Resolving
<1> QED BY <1>11, <1>12, <1>14, <1>15, <1>16, <1>17, <1>18, <1>19, ReadGoes

-----------------------------------------------------------------------------
(* Credentials and calls, and what fails *)

LEMMA AnswerGoes == ASSUME CInv, NEW q \in Queries, Answer(q) PROVE CGoes
<1>1. /\ IInv /\ query[q] \in Jobs /\ query[q].step \in Calls /\ Own(q) = query[q].runtime
      /\ UNCHANGED <<entry, runtime>> /\ Reads(query[q], runtime)
  BY JobIs DEF CInv, Answer, Own
<1>2. Own(q) \in Runtimes
  BY <1>1 DEF IInv, JobInv, Placed, Calls, Using, Verifying, Gated
<1>3. PICK run \in Built : run = runtime[Own(q)] /\ run.valid
  BY <1>1, <1>2 DEF IInv, Answer
<1>4. PICK by \in Identities : by = Identity(run.principal, run.gen)
  BY <1>3 DEF Identity, Identities, Built
<1>5. PICK step \in Steps : /\ step = AfterCall[query[q].step]
                            /\ query[q].step = "verify" => step = "verified"
                            /\ query[q].step = "call" => step = "returned"
                            /\ query[q].step = "renew" => step = "confirm"
                            /\ query[q].step = "confirm" => step = "confirmed"
  BY <1>1 DEF AfterCall, Calls, Steps, Gated, Resolving
<1>6. PICK next \in {"bind", "reject"} : next = (IF query[q].step = "renew" THEN "bind" ELSE query[q].next)
  BY <1>1 DEF Jobs
<1>7. PICK job : job = [query[q] EXCEPT !.by = by, !.next = next, !.step = step]
  OBVIOUS
<1>8. /\ job \in Jobs /\ job.step = step /\ job.stage = query[q].stage /\ job.runtime = Own(q)
      /\ job.key = query[q].key /\ job.next = next
  BY <1>1, <1>7 DEF Jobs
<1>9. query' = [query EXCEPT ![q] = job]
  BY <1>3, <1>4, <1>5, <1>6, <1>7 DEF Answer
<1>10. Reads(job, runtime)
  BY <1>1, <1>3, <1>5, <1>6, <1>8 DEF Reads, Calls, Gated
<1>11. \A stage \in Stages : Hidden(job, stage) => Hidden(query[q], stage)
  BY <1>1, <1>5, <1>8 DEF Hidden, Resolving, Calls
<1>12. job.step \notin {"fail", "changed"}
  BY <1>1, <1>5, <1>8 DEF Calls
<1> QED BY <1>1, <1>2, <1>8, <1>9, <1>10, <1>11, <1>12, AlikeSelf, QuietGoes

(* A runtime's credentials change: no read has to ask less than before. *)
LEMMA RuntimeGoes ==
  ASSUME CInv, UNCHANGED <<entry, query>>, NEW r \in Runtimes,
         \A s \in Runtimes \ {r} : runtime'[s] = runtime[s],
         runtime'[r].identity = runtime[r].identity, runtime'[r].changed = runtime[r].changed,
         Moved(runtime[r]) => Moved(runtime'[r]),
         runtime'[r].valid => (runtime[r].valid /\ runtime'[r].gen = runtime[r].gen) \/ Moved(runtime'[r])
  PROVE  CGoes
<1>1. IInv /\ Dropped
  BY DEF CInv
<1>2. Dropped'
  BY <1>1, NoQuery
<1>3. \A s \in Runtimes : Marked(runtime'[s]) /\ runtime'[s].changed = runtime[s].changed
  BY DEF CInv, Marked
<1>4. HiddenUnmarked'
  BY <1>3 DEF CInv, HiddenUnmarked, Hidden, Runtimes
<1>5. ASSUME NEW p \in Queries PROVE Reads(query[p], runtime')
  <2>1. CASE query[p].step \in Gated
    <3>1. query[p].runtime \in Runtimes /\ Reads(query[p], runtime)
      BY <1>1, <2>1, RuntimeRead DEF CInv
    <3> QED BY <3>1 DEF Reads, Moved
  <2>2. CASE query[p].step \notin Gated
    BY <2>2, ReadsNothing
  <2> QED BY <2>1, <2>2
<1> QED BY <1>2, <1>3, <1>4, <1>5 DEF CGoes

LEMMA NeedCredentialsGoes == ASSUME CInv, NEW q \in Queries, NeedCredentials(q) PROVE CGoes
<1>1. IInv /\ query[q].step \in Calls /\ UNCHANGED <<entry, query>>
  BY DEF CInv, NeedCredentials
<1>2. PICK r \in Runtimes : r = Own(q)
  BY <1>1 DEF IInv, JobInv, Placed, Calls, Using, Verifying, Gated, Own
<1>3. PICK old \in Built : old = runtime[r]
  BY <1>1 DEF IInv
<1>4. PICK run : run = [old EXCEPT !.fetching = TRUE]
  OBVIOUS
<1>5. run.identity = old.identity /\ run.gen = old.gen /\ run.valid = old.valid /\ run.changed = old.changed
  BY <1>4 DEF Built
<1>6. runtime' = [runtime EXCEPT ![r] = run]
  BY <1>2, <1>3, <1>4 DEF NeedCredentials
<1>7. runtime'[r] = run /\ \A s \in Runtimes \ {r} : runtime'[s] = runtime[s]
  BY <1>1, <1>6 DEF IInv
<1> QED BY <1>1, <1>3, <1>5, <1>7, RuntimeGoes DEF Moved

LEMMA RetrievedGoes == ASSUME CInv, NEW r \in Runtimes, Retrieved(r) PROVE CGoes
<1>1. IInv /\ UNCHANGED <<entry, query>>
  BY DEF CInv, Retrieved
<1>2. PICK old \in Built : old = runtime[r] /\ RunInv(old)
  BY <1>1 DEF IInv, Retrieved
<1>3. PICK n \in Nat : n = old.gen + 1
  BY <1>2 DEF Built
<1>4. PICK run : run = [old EXCEPT !.fetching = FALSE, !.valid = TRUE, !.gen = n, !.principal = profile]
  OBVIOUS
<1>5. run.identity = old.identity /\ run.gen = n /\ run.changed = old.changed
  BY <1>2, <1>4 DEF Built
<1>6. runtime' = [runtime EXCEPT ![r] = run]
  BY <1>2, <1>3, <1>4 DEF Retrieved
<1>7. runtime'[r] = run /\ \A s \in Runtimes \ {r} : runtime'[s] = runtime[s]
  BY <1>1, <1>6 DEF IInv
<1>8. Moved(run)
  <2>1. old.identity.gen \in Nat /\ old.gen \in Nat /\ old.identity.gen <= old.gen
    BY <1>2 DEF Built, Identities, RunInv, Had
  <2> QED BY <1>3, <1>5, <2>1 DEF Moved
<1> QED BY <1>1, <1>2, <1>5, <1>7, <1>8, RuntimeGoes

LEMMA ExpireGoes == ASSUME CInv, NEW r \in Runtimes, Expire(r) PROVE CGoes
<1>1. IInv /\ UNCHANGED <<entry, query>>
  BY DEF CInv, Expire
<1>2. PICK old \in Built : old = runtime[r]
  BY <1>1 DEF IInv
<1>3. PICK run : run = [old EXCEPT !.valid = FALSE]
  OBVIOUS
<1>4. run.identity = old.identity /\ run.gen = old.gen /\ run.changed = old.changed /\ ~run.valid
  BY <1>2, <1>3 DEF Built
<1>5. runtime' = [runtime EXCEPT ![r] = run]
  BY <1>2, <1>3 DEF Expire
<1>6. runtime'[r] = run /\ \A s \in Runtimes \ {r} : runtime'[s] = runtime[s]
  BY <1>1, <1>5 DEF IInv
<1> QED BY <1>1, <1>2, <1>4, <1>6, RuntimeGoes DEF Moved

LEMMA ExpiredTokenGoes == ASSUME CInv, NEW q \in Queries, ExpiredToken(q) PROVE CGoes
<1>1. /\ IInv /\ Dropped /\ query[q] \in Jobs /\ UNCHANGED entry /\ query[q].step \in {"verify", "call"}
      /\ query[q].step \in Using /\ Own(q) = query[q].runtime /\ Reads(query[q], runtime)
  BY JobIs DEF CInv, ExpiredToken, Using, Verifying, Gated, Own
<1>2. Own(q) \in Runtimes
  BY <1>1 DEF IInv, JobInv, Placed
<1>3. PICK old \in Built : old = runtime[Own(q)]
  BY <1>1, <1>2 DEF IInv
<1>4. PICK run : run = [old EXCEPT !.valid = FALSE]
  OBVIOUS
<1>5. run.identity = old.identity /\ run.gen = old.gen /\ run.changed = old.changed /\ ~run.valid
  BY <1>3, <1>4 DEF Built
<1>6. PICK step \in {"verify", "renew"} : step = IF query[q].step = "verify" THEN "verify" ELSE "renew"
  OBVIOUS
<1>7. PICK job : job = [query[q] EXCEPT !.attempt = 2, !.step = step]
  OBVIOUS
<1>8. job \in Jobs /\ job.step = step /\ job.stage = query[q].stage /\ job.runtime = Own(q)
  BY <1>1, <1>6, <1>7 DEF Jobs, Steps, Gated, Resolving
<1>9. query' = [query EXCEPT ![q] = job] /\ runtime' = [runtime EXCEPT ![Own(q)] = run]
  BY <1>3, <1>4, <1>6, <1>7 DEF ExpiredToken
<1>10. runtime'[Own(q)] = run /\ \A s \in Runtimes \ {Own(q)} : runtime'[s] = runtime[s]
  BY <1>1, <1>2, <1>9 DEF IInv
<1>11. Dropped'
  BY <1>1, <1>6, <1>8, <1>9, SameEntry
<1>12. \A s \in Runtimes : Marked(runtime'[s]) /\ runtime'[s].changed = runtime[s].changed
  BY <1>3, <1>5, <1>10 DEF CInv, Marked, Moved
<1>13. \A p \in Queries, stage \in Stages : Hidden(query[p], stage) => ~runtime'[<<p, stage>>].changed
  BY <1>12 DEF CInv, HiddenUnmarked, Runtimes
<1>14. \A p \in Queries \ {q} : query[p].step \in Gated =>
         Alike(runtime[query[p].runtime], runtime'[query[p].runtime])
  BY <1>1, <1>10, OthersRead DEF Alike
<1>15. Reads(job, runtime')
  BY <1>1, <1>3, <1>5, <1>6, <1>8, <1>10 DEF Reads, Gated
<1>16. \A stage \in Stages : Hidden(job, stage) => Hidden(query[q], stage)
  BY <1>1, <1>6, <1>8 DEF Hidden, Resolving
<1> QED BY <1>8, <1>9, <1>11, <1>12, <1>13, <1>14, <1>15, <1>16, ReadGoes

LEMMA AbortGoes ==
  ASSUME CInv, NEW q \in Queries, Abort(q),
         query[q].step \in Resolving \cup Gated \cup {"lookup", "acquire"}
  PROVE  CGoes
<1>1. IInv /\ Dropped /\ query[q] \in Jobs /\ query[q].stage \in Stages
  BY JobIs DEF CInv
<1>2. PICK job : job = Leave(query[q], "failed")
  OBVIOUS
<1>3. job \in Jobs /\ job.step = "failed" /\ job.stage = query[q].stage
  BY <1>1, <1>2, LeaveIs DEF Steps, Over
<1>4. query' = [query EXCEPT ![q] = job]
  BY <1>2 DEF Abort
<1>5. job.step \notin Gated /\ \A rt : Reads(job, rt)
  BY <1>3, ReadsNothing DEF Gated
<1>6. \A stage \in Stages : Hidden(job, stage) => Hidden(query[q], stage)
  BY <1>3 DEF Hidden, Resolving
<1>7. CASE query[q].step \in Resolving
  <2>1. PICK r \in Runtimes : r = <<q, query[q].stage>>
    BY <1>1 DEF Runtimes
  <2>2. runtime' = [runtime EXCEPT ![r] = Unbuilt] /\ entry' = NoEntry
    BY <1>7, <2>1 DEF Abort, Forgotten
  <2>3. runtime'[r] = Unbuilt /\ (\A s \in Runtimes \ {r} : runtime'[s] = runtime[s]) /\ ~Unbuilt.changed
    BY <1>1, <2>2 DEF IInv, Unbuilt
  <2>4. entry'.state = "absent" /\ entry'.runtime = None
    BY <2>2 DEF NoEntry
  <2>5. Dropped'
    BY <1>1, <1>3, <1>4, <2>4, StillDropped
  <2>6. \A s \in Runtimes : Marked(runtime'[s]) /\ (runtime'[s].changed => runtime[s].changed)
    BY <2>3 DEF CInv, Marked
  <2>7. \A p \in Queries, stage \in Stages : Hidden(query[p], stage) => ~runtime'[<<p, stage>>].changed
    BY <2>6 DEF CInv, HiddenUnmarked, Runtimes
  <2>8. ASSUME NEW p \in Queries \ {q}, query[p].step \in Gated
        PROVE  Alike(runtime[query[p].runtime], runtime'[query[p].runtime])
    <3>1. Hidden(query[q], query[q].stage)
      BY <1>7 DEF Hidden
    <3>2. query[p].runtime # r /\ query[p].runtime \in Runtimes
      BY <1>1, <2>1, <2>8, <3>1, RuntimeRead DEF IInv, Private
    <3> QED BY <2>3, <3>2 DEF Alike
  <2> QED BY <1>3, <1>4, <1>5, <1>6, <2>5, <2>6, <2>7, <2>8, ReadGoes
<1>8. CASE query[q].step \notin Resolving
  <2>1. runtime' = Freed(q) /\ UNCHANGED entry
    BY <1>8 DEF Abort, Forgotten
  <2> QED BY <1>1, <1>3, <1>4, <1>5, <1>6, <2>1, AlikeFreed, QuietGoes
<1> QED BY <1>7, <1>8

LEMMA StillGoes == ASSUME CInv, UNCHANGED <<entry, runtime, query>> PROVE CGoes
BY NoQuery DEF CInv, CGoes, HiddenUnmarked

LEMMA NextGoes == CInv /\ [Next]_vars => CInv'
<1> SUFFICES ASSUME CInv, [Next]_vars PROVE CInv'
  OBVIOUS
<1>1. ASSUME NEW q \in Queries, Step(q) PROVE CGoes
  BY <1>1, TakeRuntimeGoes, StartResolutionGoes, BuildGoes, MemoizeGoes, IdentifyGoes,
     FenceGoes, MatchGoes, FailGoes, AcquireGoes, EnsureGoes, BindGoes, ReturnedGoes, ConfirmedGoes
     DEF Step
<1>2. ASSUME NEW q \in Queries, CallFails(q) \/ GiveUp(q) PROVE CGoes
  <2>1. Abort(q) /\ query[q].step \in Resolving \cup Gated \cup {"lookup", "acquire"}
    BY <1>2 DEF CallFails, GiveUp, Calls, Gated, Resolving
  <2> QED BY <2>1, AbortGoes
<1>3. ASSUME NEW principal \in Principals, Switch(principal) PROVE CGoes
  BY <1>3, StillGoes DEF Switch
<1>4. ASSUME UNCHANGED vars PROVE CGoes
  BY <1>4, StillGoes DEF vars
<1>5. ASSUME Next PROVE CGoes
  BY <1>1, <1>2, <1>3, <1>5, BeginGoes, NeedCredentialsGoes, AnswerGoes, ExpiredTokenGoes,
     CancelGoes, RetrievedGoes, ExpireGoes
     DEF Next
<1>6. CGoes
  BY <1>4, <1>5
<1> QED BY <1>6, StepKeeps DEF CInv, CGoes

LEMMA ChangesInvariance == Spec => []CInv
BY InitCInv, NextGoes, PTL DEF Spec

-----------------------------------------------------------------------------
(* Who gives up, and why *)

(* The steps by which a query gives up. *)
GivesUp(q) == Match(q) \/ Ensure(q) \/ Bind(q) \/ Confirmed(q)

LEMMA OnlyOwnSteps ==
  ASSUME IInv, NEW q \in Queries, Next, query[q].step # "fail", query'[q].step = "fail"
  PROVE  GivesUp(q)
<1>1. query \in [Queries -> Jobs]
  BY DEF IInv
<1>2. UNCHANGED query => FALSE
  OBVIOUS
<1>3. ASSUME NEW p \in Queries, NEW job, query' = [query EXCEPT ![p] = job]
      PROVE  p = q /\ job.step = "fail"
  BY <1>1, <1>3
<1>4. ASSUME NEW p \in Queries, Leave(query[p], "failed").step # "fail", Abort(p) PROVE FALSE
  BY <1>3, <1>4 DEF Abort
<1>5. \A p \in Queries : query[p] \in Jobs
  BY <1>1
<1>6. \A p \in Queries : ~Abort(p)
  <2> TAKE p \in Queries
  <2>1. Leave(query[p], "failed").step = "failed"
    BY <1>5, LeaveIs DEF Steps, Over
  <2> QED BY <1>4, <2>1
<1>7. ASSUME NEW p \in Queries, Begin(p) \/ StartResolution(p) \/ Fail(p) \/ Cancel(p) PROVE FALSE
  <2>1. /\ [query[p] EXCEPT !.step = "lookup"].step = "lookup"
        /\ [query[p] EXCEPT !.step = "build"].step = "build"
        /\ [query[p] EXCEPT !.step = "changed"].step = "changed"
        /\ [query[p] EXCEPT !.cancelled = TRUE].step = query[p].step
    BY <1>5 DEF Jobs
  <2> QED BY <1>3, <1>7, <2>1 DEF Begin, StartResolution, Fail, Cancel, Go
<1>8. ASSUME NEW p \in Queries, TakeRuntime(p) \/ Build(p) \/ Memoize(p) PROVE FALSE
  <2>1. PICK next \in {"identify", "match"} : next = (IF query[p].stage = "subscribe" THEN "identify" ELSE "match")
    OBVIOUS
  <2>2. Leave(query[p], next).step = next
    BY <1>5, LeaveIs DEF Steps
  <2>3. PICK own : own = <<p, query[p].stage>>
    OBVIOUS
  <2>4. /\ [query[p] EXCEPT !.runtime = entry.runtime, !.step = next].step = next
        /\ [query[p] EXCEPT !.runtime = own, !.attempt = 1, !.step = "verify"].step = "verify"
    BY <1>5 DEF Jobs
  <2>5. CASE TakeRuntime(p)
    <3>1. query' = [query EXCEPT ![p] = [query[p] EXCEPT !.runtime = entry.runtime, !.step = next]]
      BY <1>1, <2>1, <2>5 DEF TakeRuntime
    <3> QED BY <1>3, <2>1, <2>4, <3>1
  <2>6. CASE Build(p)
    <3>1. query' = [query EXCEPT ![p] = [query[p] EXCEPT !.runtime = own, !.attempt = 1, !.step = "verify"]]
      BY <1>1, <2>3, <2>6 DEF Build
    <3> QED BY <1>3, <2>4, <3>1
  <2>7. CASE Memoize(p)
    BY <1>1, <1>3, <2>1, <2>2, <2>7 DEF Memoize
  <2> QED BY <1>8, <2>5, <2>6, <2>7
<1>9. ASSUME NEW p \in Queries, Identify(p) \/ Fence(p) \/ Acquire(p) PROVE FALSE
  <2>1. \A key : [query[p] EXCEPT !.key = key, !.step = "fence"].step = "fence"
    BY <1>5 DEF Jobs
  <2>2. [query[p] EXCEPT !.stage = "execute", !.step = "lookup"].step = "lookup"
    BY <1>5 DEF Jobs
  <2>3. [query[p] EXCEPT !.attempt = 1, !.step = "ensure"].step = "ensure"
    BY <1>5 DEF Jobs
  <2>4. [query[p] EXCEPT !.step = "rejected"].step = "rejected"
    BY <1>5 DEF Jobs
  <2>5. Identify(p) => query' = [query EXCEPT ![p] = [query[p] EXCEPT
                                    !.key = runtime[Own(p)].identity, !.step = "fence"]]
    BY <1>1 DEF Identify
  <2>6. Fence(p) => \/ query' = [query EXCEPT ![p] = [query[p] EXCEPT !.step = "rejected"]]
                    \/ query' = [query EXCEPT ![p] = [query[p] EXCEPT !.stage = "execute", !.step = "lookup"]]
    BY <1>1 DEF Fence, Go
  <2>7. Acquire(p) => query' = [query EXCEPT ![p] = [query[p] EXCEPT !.attempt = 1, !.step = "ensure"]]
    BY <1>1 DEF Acquire
  <2> QED BY <1>3, <1>9, <2>1, <2>2, <2>3, <2>4, <2>5, <2>6, <2>7
<1>10. ASSUME NEW p \in Queries, Returned(p) PROVE FALSE
  <2>1. PICK next \in {"answered", "acquire"} :
          next = (IF query[p].read + 1 = MaxPages THEN "answered" ELSE "acquire")
    OBVIOUS
  <2>2. PICK left \in Jobs : left = Leave(query[p], next) /\ left.step = next
    BY <1>5, <2>1, LeaveIs DEF Steps, Over
  <2>3. PICK n, read, pages :
          /\ n = (IF query[p].attempt = 1 THEN "bind" ELSE "reject")
          /\ read = left.read + 1 /\ pages = left.pages \cup {query[p].by}
    OBVIOUS
  <2>4. PICK id : id = runtime[Own(p)].identity
    OBVIOUS
  <2>5. /\ [left EXCEPT !.read = read, !.pages = pages].step = next
        /\ [query[p] EXCEPT !.expected = id, !.next = n, !.attempt = 2, !.step = "confirm"].step = "confirm"
    BY <1>5, <2>2 DEF Jobs
  <2>6. CASE Stable(p)
    <3>1. query' = [query EXCEPT ![p] = [left EXCEPT !.read = read, !.pages = pages]]
      BY <1>10, <2>1, <2>2, <2>3, <2>6 DEF Returned
    <3> QED BY <1>3, <2>1, <2>5, <3>1
  <2>7. CASE ~Stable(p)
    <3>1. query' = [query EXCEPT ![p] = [query[p] EXCEPT !.expected = id, !.next = n, !.attempt = 2,
                                                         !.step = "confirm"]]
      BY <1>1, <1>10, <2>3, <2>4, <2>7 DEF Returned, Revalidate
    <3> QED BY <1>3, <2>5, <3>1
  <2> QED BY <2>6, <2>7
<1>11. ASSUME NEW p \in Queries, Answer(p) \/ ExpiredToken(p) PROVE FALSE
  <2>1. PICK step \in {"verify", "renew"} : step = (IF query[p].step = "verify" THEN "verify" ELSE "renew")
    OBVIOUS
  <2>2. PICK after : after = AfterCall[query[p].step]
    OBVIOUS
  <2>3. PICK b, n : b = Identity(runtime[Own(p)].principal, runtime[Own(p)].gen)
                    /\ n = (IF query[p].step = "renew" THEN "bind" ELSE query[p].next)
    OBVIOUS
  <2>4. /\ [query[p] EXCEPT !.by = b, !.next = n, !.step = after].step = after
        /\ [query[p] EXCEPT !.attempt = 2, !.step = step].step = step
    BY <1>5 DEF Jobs
  <2>5. CASE Answer(p)
    <3>1. after # "fail"
      BY <2>2, <2>5 DEF Answer, AfterCall, Calls
    <3>2. query' = [query EXCEPT ![p] = [query[p] EXCEPT !.by = b, !.next = n, !.step = after]]
      BY <2>2, <2>3, <2>5 DEF Answer
    <3> QED BY <1>3, <2>4, <3>1, <3>2
  <2>6. CASE ExpiredToken(p)
    <3>1. query' = [query EXCEPT ![p] = [query[p] EXCEPT !.attempt = 2, !.step = step]]
      BY <1>1, <2>1, <2>6 DEF ExpiredToken
    <3> QED BY <1>3, <2>1, <2>4, <3>1
  <2> QED BY <1>11, <2>5, <2>6
<1>12. PICK p \in Queries : GivesUp(p)
  BY <1>2, <1>6, <1>7, <1>8, <1>9, <1>10, <1>11
     DEF Next, Step, GivesUp, NeedCredentials, Retrieved, Expire, Switch, CallFails, GiveUp
<1>13. p = q
  <2>1. \E job : query' = [query EXCEPT ![p] = job]
    BY <1>1, <1>12 DEF GivesUp, Match, Ensure, Bind, Confirmed, ContextChanged, Revalidate, Go
  <2> QED BY <1>3, <2>1
<1> QED BY <1>12, <1>13

(* A query that gives up without touching the runtime but for its gate. *)
LEMMA GivesUpQuietly ==
  ASSUME CInv, NEW q \in Queries, NEW job, query' = [query EXCEPT ![q] = job],
         job.runtime = query[q].runtime, job.key = query[q].key, query[q].runtime \in Runtimes,
         \A r \in Runtimes : Alike(runtime[r], runtime'[r]), ~NamedByKey(q)
  PROVE  ~NamedByKey(q)'
<1>1. query'[q] = job
  BY DEF CInv, IInv
<1> QED BY <1>1 DEF NamedByKey, Alike, Own

LEMMA ContextChangedIs ==
  ASSUME CInv, NEW q \in Queries, query[q].step \in Gated, ContextChanged(q), ~NamedByKey(q)
  PROVE  ~NamedByKey(q)'
<1>1. IInv /\ query[q] \in Jobs /\ query[q].runtime \in Runtimes
  BY JobIs, RuntimeRead DEF CInv
<1>2. PICK job : job = Leave(query[q], "fail")
  OBVIOUS
<1>3. job.runtime = query[q].runtime /\ job.key = query[q].key
  BY <1>1, <1>2, LeaveIs DEF Steps
<1>4. query' = [query EXCEPT ![q] = job] /\ runtime' = Freed(q)
  BY <1>2 DEF ContextChanged
<1> QED BY <1>1, <1>3, <1>4, AlikeFreed, GivesUpQuietly

(* A query that gives up has a runtime that is not the one its key names. *)
LEMMA GivesUpChanged ==
  ASSUME CInv, NEW q \in Queries, GivesUp(q), query'[q].step = "fail"
  PROVE  ~NamedByKey(q)'
<1>1. /\ IInv /\ query[q] \in Jobs /\ query[q].step \in Gated \cup {"match"} /\ Reads(query[q], runtime)
      /\ Own(q) = query[q].runtime /\ Own(q) \in Runtimes
  BY JobIs, ReadHasRuntime DEF CInv, GivesUp, Match, Ensure, Bind, Confirmed, Gated
<1>2. PICK run \in Built : run = runtime[Own(q)] /\ run.gen \in Nat /\ run.identity.gen \in Nat
  BY <1>1 DEF IInv, Built, Identities
<1>3. CASE Match(q)
  <2>1. PICK next \in {"acquire", "fail"} :
          next = (IF runtime[Own(q)].identity = query[q].key THEN "acquire" ELSE "fail")
    OBVIOUS
  <2>2. PICK job : job = [query[q] EXCEPT !.step = next]
    OBVIOUS
  <2>3. query' = [query EXCEPT ![q] = job] /\ UNCHANGED runtime
    BY <1>3, <2>1, <2>2 DEF Match, Go
  <2>4. job.step = next /\ job.runtime = query[q].runtime /\ job.key = query[q].key
    BY <1>1, <2>2 DEF Jobs
  <2>5. next = "fail"
    BY <1>1, <2>3, <2>4 DEF IInv
  <2>6. ~NamedByKey(q)
    BY <2>1, <2>5 DEF NamedByKey
  <2> QED BY <1>1, <2>3, <2>4, <2>6, AlikeSelf, GivesUpQuietly
<1>4. CASE Ensure(q)
  <2>1. \/ runtime[Own(q)].changed /\ ContextChanged(q)
        \/ query' = [query EXCEPT ![q] = [query[q] EXCEPT !.expected = runtime[Own(q)].identity,
                                            !.next = "bind", !.attempt = 1, !.step = "confirm"]]
        \/ query' = [query EXCEPT ![q] = [query[q] EXCEPT !.step = "bind"]]
    BY <1>1, <1>4 DEF Ensure, Revalidate, Go, IInv
  <2>2. \A id : [query[q] EXCEPT !.expected = id, !.next = "bind", !.attempt = 1, !.step = "confirm"].step = "confirm"
    BY <1>1 DEF Jobs
  <2>3. [query[q] EXCEPT !.step = "bind"].step = "bind"
    BY <1>1 DEF Jobs
  <2>4. runtime[Own(q)].changed /\ ContextChanged(q)
    BY <1>1, <2>1, <2>2, <2>3 DEF IInv
  <2>5. Moved(run)
    BY <1>1, <1>2, <2>4 DEF CInv, Marked
  <2>6. ~NamedByKey(q)
    BY <1>2, <2>5 DEF NamedByKey, Moved
  <2>7. query[q].step \in Gated
    BY <1>4 DEF Ensure, Gated
  <2> QED BY <2>4, <2>6, <2>7, ContextChangedIs
<1>5. CASE Bind(q)
  <2>1. PICK id : id = runtime[Own(q)].identity
    OBVIOUS
  <2>2. [query[q] EXCEPT !.expected = id, !.step = "call"].step = "call"
    BY <1>1 DEF Jobs
  <2>3. query[q].key = id => query' = [query EXCEPT ![q] = [query[q] EXCEPT !.expected = id, !.step = "call"]]
    BY <1>1, <1>5, <2>1 DEF Bind, Bound, IInv
  <2>4. query[q].key # id
    BY <1>1, <2>2, <2>3 DEF IInv
  <2>5. ContextChanged(q) /\ ~NamedByKey(q)
    BY <1>5, <2>1, <2>4 DEF Bind, Bound, NamedByKey
  <2>6. query[q].step \in Gated
    BY <1>5 DEF Bind, Gated
  <2> QED BY <2>5, <2>6, ContextChangedIs
<1>6. CASE Confirmed(q)
  <2>1. PICK new, job :
          /\ runtime' = [runtime EXCEPT ![Own(q)] = new] /\ query' = [query EXCEPT ![q] = job]
          /\ new.gen = runtime[Own(q)].gen
          /\ \/ new.identity = runtime[Own(q)].identity /\ new.changed
             \/ new.identity.gen = new.gen /\ ~new.changed
          /\ job \in Jobs /\ job.stage = query[q].stage /\ job.runtime = Own(q) /\ job.key = query[q].key
          /\ \/ job.step = "bind" /\ ~new.changed
             \/ job.step = "fail" /\ (new.changed \/ query[q].next = "reject")
    BY <1>6, ConfirmedRun
  <2>2. query'[q] = job /\ runtime'[Own(q)] = new
    BY <1>1, <2>1 DEF IInv
  <2>3. job.step = "fail"
    BY <2>2
  <2>4. Moved(run) /\ (query[q].next = "reject" => query[q].key = run.identity)
    BY <1>1, <1>2, <1>6 DEF Reads, Confirmed
  <2>5. ~(new.identity = query[q].key /\ new.gen = query[q].key.gen)
    BY <1>2, <2>1, <2>3, <2>4 DEF Moved
  <2>6. Own(q)' = Own(q) /\ query'[q].key = query[q].key
    BY <2>1, <2>2 DEF Own
  <2> QED BY <2>2, <2>5, <2>6 DEF NamedByKey
<1> QED BY <1>3, <1>4, <1>5, <1>6 DEF GivesUp

(* A query gives up with "the context has changed" only when its runtime is *)
(* no longer what its key names: another identity was verified since, or    *)
(* credentials were retrieved that nobody verified (integration.go:310,     *)
(* read_retry.go:79, 106, 186).  And the runtime it was told so by is not   *)
(* handed out again: Invalidate drops it (registry.go:108).                 *)
THEOREM ChangesHappened == Spec => ChangesAreReal
<1>1. CInv' => ChangedRuntimeDropped'
  BY DEF CInv, Dropped
<1>2. CInv /\ [Next]_vars => [GivesUpOnlyChanged]_vars
  <2> SUFFICES ASSUME CInv, Next PROVE GivesUpOnlyChanged
    BY DEF vars, env
  <2> SUFFICES ASSUME NEW q \in Queries, query[q].step # "fail", query'[q].step = "fail"
               PROVE  ~NamedByKey(q)'
    BY DEF GivesUpOnlyChanged
  <2> QED BY OnlyOwnSteps, GivesUpChanged DEF CInv
<1>3. CInv /\ CInv' /\ [Next]_vars => [GivesUpOnlyChanged /\ ChangedRuntimeDropped']_vars
  BY <1>1, <1>2
<1> QED BY <1>3, ChangesInvariance, PTL DEF Spec, ChangesAreReal
=============================================================================
