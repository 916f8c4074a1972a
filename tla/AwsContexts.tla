---------------------------- MODULE AwsContexts ----------------------------
(***************************************************************************)
(* Contexts of the AWS browser: the registry that resolves one runtime per *)
(* context (awsbrowser/registry.go, runtime_factory.go), the credentials   *)
(* of a runtime (credentials.go) and the guard of its reads                *)
(* (read_retry.go), as queries use them (integration.go): a query resolves *)
(* the context, takes the identity it finds into its key, resolves again   *)
(* in its executor, and reads page after page bound to its key.            *)
(*                                                                         *)
(* There is one context: the entries of the registry are independent.  A   *)
(* query is one Core.Subscribe with the flight it starts; the flight's own *)
(* states, and queries that share a flight, are the subject of             *)
(* QueryCoordinator.                                                       *)
(*                                                                         *)
(* External: the AWS CLI, which exports credentials of whatever principal  *)
(* the profile names at that time; AWS, which answers as the principal of  *)
(* the credentials a request was signed with; and the SDK's credential     *)
(* cache, where one retrieval serves all callers and goes on when the one  *)
(* who needed it is cancelled.                                             *)
(***************************************************************************)
EXTENDS Naturals

CONSTANTS Queries,
          Principals,
          Account,       \* account and partition of each principal
          Lineages,      \* what a query asks for, apart from its identity
          None,
          MaxPages,      \* reads of a query
          MaxExpiries,   \* bound on expired credentials and tokens
          MaxSwitches    \* bound on the changes of the profile's principal

(* A query resolves the context twice, and builds at most one runtime each *)
(* time: a runtime is named after the resolution that built it.            *)
Stages   == {"subscribe", "execute"}
Runtimes == Queries \X Stages

ASSUME ContextsAssumption ==
  /\ Principals # {} /\ None \notin Principals \cup Queries \cup Runtimes
  /\ MaxPages \in Nat \ {0} /\ MaxExpiries \in Nat /\ MaxSwitches \in Nat

VARIABLES
  entry,     \* the registry's entry
  runtime,   \* every runtime built: credentials, verified identity and gate
  query,
  latest,    \* QueryCoordinator.latest: newest generation queried, by lineage
  profile,   \* the principal the AWS CLI exports credentials of
  expiries,  \* how many credentials and tokens have expired
  switches   \* how often the profile has changed

vars == <<entry, runtime, query, latest, profile, expiries, switches>>
env  == <<profile, expiries, switches>>

Identity(principal, gen) == [principal |-> principal, gen |-> gen]
NoIdentity == Identity(None, 0)

(* gen: CredentialProvider.generation; principal, valid: the cached      *)
(* credentials; fetching: a retrieval is under way.                      *)
Unbuilt == [gen |-> 0, principal |-> None, valid |-> FALSE, fetching |-> FALSE,
            identity |-> NoIdentity, changed |-> FALSE, gate |-> None]

NoEntry == [state |-> "absent", runtime |-> None, gen |-> 0]

(* by: the credentials that the last call was signed with; pages: those of *)
(* the answers that were kept.                                             *)
Fresh == [step |-> "idle", stage |-> "subscribe", runtime |-> None, key |-> NoIdentity,
          expected |-> NoIdentity, by |-> NoIdentity, attempt |-> 1, next |-> "bind",
          read |-> 0, pages |-> {}, cancelled |-> FALSE]

Init ==
  /\ entry = NoEntry
  /\ runtime = [r \in Runtimes |-> Unbuilt]
  /\ query = [q \in Queries |-> Fresh]
  /\ latest = [lineage \in Lineages |-> 0]
  /\ profile \in Principals
  /\ expiries = 0 /\ switches = 0

Own(q) == query[q].runtime
Go(q, step) == query' = [query EXCEPT ![q].step = step]

(* Leave a read: its locals are gone. *)
Leave(job, step) == [job EXCEPT !.step = step, !.by = NoIdentity, !.expected = NoIdentity,
                                !.attempt = 1, !.next = "bind"]

(* Ends of a query: answered, changed, rejected, failed. *)
Over == {"answered", "changed", "rejected", "failed"}
(* Steps that wait for an answer of AWS or for credentials. *)
Calls == {"verify", "call", "renew", "confirm"}
(* Steps under the runtime's gate. *)
Gated == {"ensure", "bind", "call", "returned", "renew", "confirm", "confirmed"}
(* Steps of a resolution that has not ended. *)
Resolving == {"build", "verify", "verified"}

-----------------------------------------------------------------------------
(* ContextRegistry.Resolve *)

Begin(q) ==
  /\ query[q].step = "idle"
  /\ Go(q, "lookup")
  /\ UNCHANGED <<entry, runtime, latest, env>>

(* A bug of Resolve: a resolution under way is not waited for. *)
Blocked_Never == FALSE

(* Another query resolves the context: wait until it has ended. *)
Blocked == entry.state = "resolving"

Current == entry.state = "ready" /\ runtime[entry.runtime].identity.gen = entry.gen

TakeRuntime(q) ==
  /\ query[q].step = "lookup"
  /\ Current
  /\ query' = [query EXCEPT ![q].runtime = entry.runtime,
                 ![q].step = IF query[q].stage = "subscribe" THEN "identify" ELSE "match"]
  /\ UNCHANGED <<entry, runtime, latest, env>>

(* A runtime whose verified generation has moved is dropped, not used. *)
StartResolution(q) ==
  /\ query[q].step = "lookup"
  /\ ~Current /\ ~Blocked
  /\ entry' = [NoEntry EXCEPT !.state = "resolving"]
  /\ query' = [query EXCEPT ![q].step = "build"]
  /\ UNCHANGED <<runtime, latest, env>>

(* runtimeFactory.Resolve up to its first call: a provider and clients of  *)
(* the runtime's own.                                                      *)
Build(q) ==
  /\ query[q].step = "build"
  /\ query' = [query EXCEPT ![q].runtime = <<q, query[q].stage>>, ![q].attempt = 1,
                            ![q].step = "verify"]
  /\ UNCHANGED <<entry, runtime, latest, env>>

(* A bug of Resolve: the generation is noted before the runtime retrieves any. *)
MemoizedGen_Early(r) == 0

MemoizedGen(r) == runtime[r].gen

(* verifiedIdentity takes the generation when AWS has answered; then the *)
(* runtime is memoized and returned to the query that resolved it.       *)
Memoize(q) ==
  LET r  == Own(q)
      id == Identity(query[q].by.principal, runtime[r].gen)
  IN
  /\ query[q].step = "verified"
  /\ runtime' = [runtime EXCEPT ![r].identity = id]
  /\ entry' = [state |-> "ready", runtime |-> r, gen |-> MemoizedGen(r)]
  /\ query' = [query EXCEPT ![q] = Leave(@, IF @.stage = "subscribe" THEN "identify" ELSE "match")]
  /\ UNCHANGED <<latest, env>>

-----------------------------------------------------------------------------
(* Core.Subscribe and runtimeMultiplexer.Execute *)

(* The identity is taken without the gate. *)
Identify(q) ==
  /\ query[q].step = "identify"
  /\ query' = [query EXCEPT ![q].key = runtime[Own(q)].identity, ![q].step = "fence"]
  /\ UNCHANGED <<entry, runtime, latest, env>>

(* QueryCoordinator: a key older than the newest of its lineage is rejected. *)
Fence(q) ==
  /\ query[q].step = "fence"
  /\ \E lineage \in Lineages :
       IF latest[lineage] > query[q].key.gen
       THEN Go(q, "rejected") /\ UNCHANGED latest
       ELSE /\ latest' = [latest EXCEPT ![lineage] = query[q].key.gen]
            /\ query' = [query EXCEPT ![q].stage = "execute", ![q].step = "lookup"]
  /\ UNCHANGED <<entry, runtime, env>>

(* identityMatches *)
Match(q) ==
  /\ query[q].step = "match"
  /\ Go(q, IF runtime[Own(q)].identity = query[q].key THEN "acquire" ELSE "fail")
  /\ UNCHANGED <<entry, runtime, latest, env>>

(* A bug of Invalidate: the runtime stays when its generation is that of the key. *)
Invalidated_Generation(key) == IF entry.gen = key.gen THEN entry ELSE NoEntry

(* ContextRegistry.Invalidate: whatever runtime is memoized by now. *)
Invalidated(key) == IF entry.state = "ready" THEN NoEntry ELSE entry

(* QueryCoordinator.fail on ErrContextChanged. *)
Fail(q) ==
  /\ query[q].step = "fail"
  /\ entry' = Invalidated(query[q].key)
  /\ Go(q, "changed")
  /\ UNCHANGED <<runtime, latest, env>>

-----------------------------------------------------------------------------
(* guardedRead *)

(* A bug of guardedRead: the gate is let go on success only. *)
Freed_OnSuccess(q) ==
  [r \in Runtimes |-> IF runtime[r].gate = q /\ query[q].step = "returned"
                      THEN [runtime[r] EXCEPT !.gate = None] ELSE runtime[r]]

Freed(q) == [r \in Runtimes |-> IF runtime[r].gate = q THEN [runtime[r] EXCEPT !.gate = None]
                                                       ELSE runtime[r]]

Acquire(q) ==
  /\ query[q].step = "acquire"
  /\ runtime[Own(q)].gate = None
  /\ runtime' = [runtime EXCEPT ![Own(q)].gate = q]
  /\ query' = [query EXCEPT ![q].attempt = 1, ![q].step = "ensure"]
  /\ UNCHANGED <<entry, latest, env>>

ContextChanged(q) ==
  /\ runtime' = Freed(q)
  /\ query' = [query EXCEPT ![q] = Leave(@, "fail")]

(* revalidate, on the way to the step next and this attempt of the read. *)
Revalidate(q, next, attempt) ==
  /\ query' = [query EXCEPT ![q].expected = runtime[Own(q)].identity, ![q].next = next,
                            ![q].attempt = attempt, ![q].step = "confirm"]
  /\ UNCHANGED runtime

(* ensureCurrentIdentity *)
Ensure(q) ==
  LET r == Own(q) IN
  /\ query[q].step = "ensure"
  /\ CASE runtime[r].changed -> ContextChanged(q)
       [] ~runtime[r].changed /\ runtime[r].gen # runtime[r].identity.gen -> Revalidate(q, "bind", 1)
       [] OTHER -> Go(q, "bind") /\ UNCHANGED runtime
  /\ UNCHANGED <<entry, latest, env>>

(* A bug of ValidateReadIdentity: the generation is not compared. *)
Bound_Principal(key, identity) == key.principal = identity.principal

(* ValidateReadIdentity *)
Bound(key, identity) == key = identity

Bind(q) ==
  LET identity == runtime[Own(q)].identity IN
  /\ query[q].step = "bind"
  /\ IF Bound(query[q].key, identity)
     THEN /\ query' = [query EXCEPT ![q].expected = identity, ![q].step = "call"]
          /\ UNCHANGED runtime
     ELSE ContextChanged(q)
  /\ UNCHANGED <<entry, latest, env>>

(* The generation is the one the call was made under. *)
Stable(q) == runtime[Own(q)].gen = query[q].expected.gen

(* The first answer across a renewal is read again once; a second one is *)
(* rejected (commitStableResponse).                                      *)
Returned(q) ==
  LET job == Leave(query[q], IF query[q].read + 1 = MaxPages THEN "answered" ELSE "acquire") IN
  /\ query[q].step = "returned"
  /\ IF Stable(q)
     THEN /\ runtime' = Freed(q)
          /\ query' = [query EXCEPT
               ![q] = [job EXCEPT !.read = @ + 1, !.pages = @ \cup {query[q].by}]]
     ELSE Revalidate(q, IF query[q].attempt = 1 THEN "bind" ELSE "reject", 2)
  /\ UNCHANGED <<entry, latest, env>>

(* The rest of revalidate: the generation is read after AWS has answered. *)
Confirmed(q) ==
  LET r        == Own(q)
      actual   == Identity(query[q].by.principal, runtime[r].gen)
      same     == Account[actual.principal] = Account[query[q].expected.principal]
      again    == same /\ query[q].next = "bind"
  IN
  /\ query[q].step = "confirmed"
  /\ runtime' = [runtime EXCEPT ![r].identity = IF same THEN actual ELSE @,
                                ![r].changed  = @ \/ ~same,
                                ![r].gate     = IF again THEN q ELSE None]
  /\ query' = [query EXCEPT ![q] = IF again THEN [@ EXCEPT !.step = "bind"] ELSE Leave(@, "fail")]
  /\ UNCHANGED <<entry, latest, env>>

-----------------------------------------------------------------------------
(* Credentials and calls *)

(* A call that finds no valid credentials retrieves them, or waits for the *)
(* retrieval under way.                                                    *)
NeedCredentials(q) ==
  LET r == Own(q) IN
  /\ query[q].step \in Calls
  /\ ~runtime[r].valid /\ ~runtime[r].fetching
  /\ runtime' = [runtime EXCEPT ![r].fetching = TRUE]
  /\ UNCHANGED <<entry, query, latest, env>>

(* CredentialProvider.Retrieve *)
Retrieved(r) ==
  /\ runtime[r].fetching
  /\ runtime' = [runtime EXCEPT ![r].fetching = FALSE, ![r].valid = TRUE,
                                ![r].gen = @ + 1, ![r].principal = profile]
  /\ UNCHANGED <<entry, query, latest, env>>

AfterCall == [verify |-> "verified", call |-> "returned", renew |-> "confirm", confirm |-> "confirmed"]

(* AWS answers, or, for renew, the cache does. *)
Answer(q) ==
  LET r == Own(q) IN
  /\ query[q].step \in Calls
  /\ runtime[r].valid
  /\ query' = [query EXCEPT ![q] =
       [query[q] EXCEPT !.by   = Identity(runtime[r].principal, runtime[r].gen),
                        !.next = IF query[q].step = "renew" THEN "bind" ELSE @,
                        !.step = AfterCall[@]]]
  /\ UNCHANGED <<entry, runtime, latest, env>>

(* AWS says ExpiredToken, the first time: the cached credentials go.  A    *)
(* resolution just calls again; a read retrieves others and revalidates.   *)
ExpiredToken(q) ==
  LET r == Own(q) IN
  /\ query[q].step \in {"verify", "call"} /\ query[q].attempt = 1
  /\ runtime[r].valid
  /\ expiries < MaxExpiries
  /\ expiries' = expiries + 1
  /\ runtime' = [runtime EXCEPT ![r].valid = FALSE]
  /\ query' = [query EXCEPT ![q].attempt = 2,
                            ![q].step = IF @ = "verify" THEN "verify" ELSE "renew"]
  /\ UNCHANGED <<entry, latest, profile, switches>>

(* A bug of Resolve: a failed resolution stays in the registry. *)
Forgotten_Kept(q) == entry

(* A resolution that fails leaves no entry. *)
Forgotten(q) == IF query[q].step \in Resolving THEN NoEntry ELSE entry

Abort(q) ==
  /\ entry' = Forgotten(q)
  /\ runtime' = IF query[q].step \in Resolving THEN [runtime EXCEPT ![<<q, query[q].stage>>] = Unbuilt]
                                              ELSE Freed(q)
  /\ query' = [query EXCEPT ![q] = Leave(@, "failed")]
  /\ UNCHANGED <<latest, env>>

(* Any other error of a call, of the retrieval, or of building the runtime.  *)
(* A retrieval that failed is not told from one that is still under way: the *)
(* next call that needs credentials waits for it or, in the code, starts it. *)
CallFails(q) == query[q].step \in Calls \cup {"build"} /\ Abort(q)

Cancel(q) ==
  /\ query[q].step \notin Over \cup {"idle"} /\ ~query[q].cancelled
  /\ query' = [query EXCEPT ![q].cancelled = TRUE]
  /\ UNCHANGED <<entry, runtime, latest, env>>

(* A bug of acquire: the context is not looked at. *)
GiveUp_NotAtGate(q) ==
  /\ query[q].cancelled
  /\ \/ query[q].step \in Calls \cup {"build"}
     \/ query[q].step = "lookup" /\ Blocked
  /\ Abort(q)

(* A cancelled query leaves wherever it waits. *)
GiveUp(q) ==
  /\ query[q].cancelled
  /\ \/ query[q].step \in Calls \cup {"build", "acquire"}
     \/ query[q].step = "lookup" /\ Blocked
  /\ Abort(q)

(* The cached credentials run out. *)
Expire(r) ==
  /\ runtime[r].valid /\ expiries < MaxExpiries
  /\ expiries' = expiries + 1
  /\ runtime' = [runtime EXCEPT ![r].valid = FALSE]
  /\ UNCHANGED <<entry, query, latest, profile, switches>>

(* The user logs in as someone else, or edits the profile. *)
Switch(principal) ==
  /\ principal # profile /\ switches < MaxSwitches
  /\ profile' = principal /\ switches' = switches + 1
  /\ UNCHANGED <<entry, runtime, query, latest, expiries>>

(* What a query does without waiting for AWS. *)
Step(q) ==
  \/ TakeRuntime(q) \/ StartResolution(q) \/ Build(q) \/ Memoize(q)
  \/ Identify(q) \/ Fence(q) \/ Match(q) \/ Fail(q)
  \/ Acquire(q) \/ Ensure(q) \/ Bind(q) \/ Returned(q) \/ Confirmed(q)

Next ==
  \/ \E q \in Queries :
       \/ Begin(q) \/ Step(q) \/ NeedCredentials(q) \/ Answer(q) \/ ExpiredToken(q) \/ CallFails(q)
       \/ Cancel(q) \/ GiveUp(q)
  \/ \E r \in Runtimes : Retrieved(r) \/ Expire(r)
  \/ \E principal \in Principals : Switch(principal)

Spec == Init /\ [][Next]_vars

(* Queries go on, and leave a wait once cancelled.  AWS and the AWS CLI *)
(* need not answer.                                                     *)
Fairness == \A q \in Queries : WF_vars(Step(q)) /\ WF_vars(GiveUp(q))

-----------------------------------------------------------------------------
(* Properties *)

Identities == [principal : Principals \cup {None}, gen : Nat]
Steps == {"idle", "lookup", "identify", "fence", "match", "fail", "acquire"}
           \cup Resolving \cup Gated \cup Over

(* Types; the gate is held by the query that is in a guarded read of the  *)
(* runtime, and a resolution is under way exactly when the registry says so. *)
TypeOK ==
  /\ entry.state \in {"absent", "resolving", "ready"} /\ entry.gen \in Nat
  /\ entry.runtime \in Runtimes \cup {None}
  /\ \A r \in Runtimes : runtime[r].identity \in Identities /\ runtime[r].gen \in Nat
  /\ \A q \in Queries : /\ query[q].step \in Steps /\ query[q].key \in Identities
                         /\ query[q].step \in Gated <=> \E r \in Runtimes : runtime[r].gate = q
  /\ entry.state = "resolving" <=> \E q \in Queries : query[q].step \in Resolving

(* Concurrent resolutions of a context are one: two queries never export   *)
(* credentials for it at the same time (ContextRegistry.Resolve).          *)
OneResolution == \A p, q \in Queries : {query[p].step, query[q].step} \subseteq Resolving => p = q

(* Whatever credentials are renewed, by whom and when, every page of a     *)
(* query was read with the credentials its key names: the same principal,  *)
(* at the same generation (guardedRead, WithReadIdentity).                 *)
PagesMatchKey == \A q \in Queries : query[q].pages \subseteq {query[q].key}

(* A runtime that told a query that its context has changed is no longer   *)
(* in the registry: the next query resolves anew (Invalidate).             *)
ChangedRuntimeDropped ==
  \A q \in Queries : query[q].step = "changed" => entry.runtime # query[q].runtime

(* The runtime a query reads from still is what its key names: it has been *)
(* verified as the key's identity, and has retrieved no credentials since.   *)
NamedByKey(q) == runtime[Own(q)].identity = query[q].key /\ runtime[Own(q)].gen = query[q].key.gen

(* A query gives up because its context has changed only when it has: its   *)
(* runtime is not the one its key names, or not any more, whoever renewed   *)
(* the credentials (ErrContextChanged: integration.go, read_retry.go).      *)
GivesUpOnlyChanged ==
  \A q \in Queries : query[q].step # "fail" /\ query'[q].step = "fail" => ~NamedByKey(q)'

(* No query is told of a change that did not happen, and a runtime that     *)
(* told a query of one is not handed out again (Invalidate,                 *)
(* registry.go:108).  The converse is not so: Invalidate drops whatever     *)
(* runtime is memoized by then, also one resolved after the change.         *)
ChangesAreReal == [][GivesUpOnlyChanged /\ ChangedRuntimeDropped']_vars

(* A cancelled query ends. *)
CancelledQueryEnds == \A q \in Queries : query[q].cancelled ~> query[q].step \in Over

(* A query that waits for another's resolution, or for the gate, does not  *)
(* wait for good when the others have left: it takes over.                 *)
WaiterTakesOver ==
  \A q \in Queries :
    (/\ query[q].step \in {"lookup", "acquire"}
     /\ \A p \in Queries \ {q} : query[p].cancelled \/ query[p].step \in Over)
      ~> query[q].step \notin {"lookup", "acquire"}

(* No query waits for good: neither a cancelled one for AWS nor any for    *)
(* others that have left (registry.go:46, read_retry.go:123).              *)
WaitsEnd == CancelledQueryEnds /\ WaiterTakesOver

(* A query of the generation that the registry resolves now is not         *)
(* rejected as one of an older generation: generations only grow           *)
(* (src/aws-plan/ARCHITECTURE.md:212).                                     *)
ResolvedGenerationIsServed ==
  \A q \in Queries : query[q].step = "rejected" =>
    ~(entry.runtime = query[q].runtime /\ entry.gen = query[q].key.gen)
=============================================================================
