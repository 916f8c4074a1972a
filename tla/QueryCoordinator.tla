-------------------------- MODULE QueryCoordinator --------------------------
(***************************************************************************)
(* The query coordinator of the AWS browser (awsbrowser/query.go): cached  *)
(* subscriptions, one shared flight per key, refreshes, cancellation,      *)
(* generation fencing and failure caching, over the session store.         *)
(*                                                                         *)
(* A goroutine step is one critical section of coordinator.mu, or one      *)
(* unlocked read of the store.  Executors are external: they may emit      *)
(* pages, complete, and return any outcome, also after their context is    *)
(* cancelled (query_test.go, "Deliberately ignores cancellation").         *)
(*                                                                         *)
(* A client holds at most one subscription at a time.  Its channel holds   *)
(* one update, which every publication replaces; `update' is the last one  *)
(* published, whether or not the client has read it.  A client may hold a  *)
(* context of any generation the registry resolved at some time before;    *)
(* the registry, which fail invalidates as well, is in AwsContexts.        *)
(***************************************************************************)
EXTENDS Naturals, FiniteSets, SessionStore

CONSTANTS Scopes,       \* mode, profile and region of a context
          Operations,   \* provider, operation and parameters of a query
          MaxGen,       \* credential generations a runtime can resolve at
          Clients,      \* concurrent subscribers
          MaxFlights,   \* bound on the flights of a behaviour
          MaxPages,     \* bound on the pages of a flight
          Limit         \* maxConcurrent

ASSUME BoundsAssumption ==
  /\ Scopes # {} /\ Operations # {}
  /\ MaxGen \in Nat \ {0}
  /\ MaxFlights \in Nat
  /\ MaxPages \in Nat
  /\ Limit \in Nat \ {0}

Gens      == 1..MaxGen
Keys      == [scope : Scopes, op : Operations, gen : Gens]
Lineages  == Scopes \X Operations
Flights   == 1..MaxFlights
Lineage(k) == <<k.scope, k.op>>

Kinds == {"context_changed", "cancelled", "stable", "retryable"}
NoUpdate == [state |-> "not_loaded", failure |-> "none", from |-> "none"]
Updates  == [state : LoadStates, failure : Kinds \cup {"none"},
             from : {"none", "cache", "fence", "flight"}]

Update(state, failure) == [state |-> state, failure |-> failure, from |-> "flight"]

VARIABLES
  queries,    \* store.queries: key -> entry
  live,       \* coordinator.flights: key -> flight, 0 for none
  latest,     \* coordinator.latest: lineage -> newest generation queried
  failures,   \* coordinator.failures: key -> kind, "none" for no record
  flight,     \* every queryFlight allocated, with its goroutine's position
  allocated,  \* how many flights were allocated
  client      \* the callers of Subscribe and Refresh

vars == <<queries, live, latest, failures, flight, allocated, client>>

Phases == {"none", "queued", "executing", "failing", "completing",
           "completed", "finishing", "done"}

Unused == [phase |-> "none", key |-> CHOOSE k \in Keys : TRUE, subs |-> {},
           retired |-> FALSE, refresh |-> FALSE, began |-> FALSE, partial |-> 0,
           terminal |-> FALSE, broken |-> FALSE, cancelled |-> FALSE,
           slot |-> FALSE, failure |-> "none", result |-> NoUpdate]

Idle == [phase |-> "idle", key |-> CHOOSE k \in Keys : TRUE, flight |-> 0,
         update |-> NoUpdate]

Init ==
  /\ queries = [k \in Keys |-> Absent]
  /\ live = [k \in Keys |-> 0]
  /\ latest = [l \in Lineages |-> 0]
  /\ failures = [k \in Keys |-> "none"]
  /\ flight = [f \in Flights |-> Unused]
  /\ allocated = 0
  /\ client = [c \in Clients |-> Idle]

-----------------------------------------------------------------------------
(* Helpers *)

(* A bug of canCommitLocked: only the generation is compared. *)
CanCommit_AnyFlight(f) == latest[Lineage(flight[f].key)] <= flight[f].key.gen

CanCommit(f) ==
  LET k == flight[f].key IN
  /\ ~flight[f].retired
  /\ flight[f].subs # {}
  /\ live[k] = f
  /\ latest[Lineage(k)] <= k.gen

Publish(clients, subs, update) ==
  [c \in Clients |-> IF c \in subs THEN [clients[c] EXCEPT !.update = update]
                                   ELSE clients[c]]

(* A bug of closeSubscriberLocked: the channel stays open. *)
Close_Leaking(clients, subs) == clients

Close(clients, subs) ==
  [c \in Clients |-> IF c \in subs THEN [clients[c] EXCEPT !.phase = "closed", !.flight = 0]
                                   ELSE clients[c]]

StateOr(qs, k, fallback) ==
  IF qs[k].state = "not_loaded" THEN fallback ELSE qs[k].state

(* A bug of the failure mapping: the kind is used as a load state. *)
FailureState_Kind(kind) == kind

FailureState(kind) ==
  CASE kind = "stable"    -> "forbidden"
    [] kind = "cancelled" -> "cancelled"
    [] OTHER              -> "unknown"

Slots == Cardinality({f \in Flights : flight[f].slot})

-----------------------------------------------------------------------------
(* Subscribe and Refresh *)

(* Not holding coordinator.mu, Subscribe first looks the key up. *)
CheckCache(c, k) ==
  /\ client[c].phase = "idle"
  /\ client' = [client EXCEPT ![c] =
       IF queries[k].state \in CacheTerminal
       THEN [Idle EXCEPT !.phase = "hit", !.key = k,
                         !.update = [NoUpdate EXCEPT !.state = queries[k].state]]
       ELSE [Idle EXCEPT !.phase = "missed", !.key = k]]
  /\ UNCHANGED <<queries, live, latest, failures, flight, allocated>>

(* A cached answer takes the failure recorded for the key by now. *)
AnswerFromCache(c) ==
  /\ client[c].phase = "hit"
  /\ client' = [client EXCEPT ![c].phase = "closed",
                              ![c].update.failure = failures[client[c].key],
                              ![c].update.from = "cache"]
  /\ UNCHANGED <<queries, live, latest, failures, flight, allocated>>

JoinFlight(c, k) ==
  LET f == live[k] IN
  /\ f # 0
  /\ flight' = [flight EXCEPT ![f].subs = @ \cup {c}]
  /\ client' = [client EXCEPT ![c] = [Idle EXCEPT !.phase = "open", !.key = k, !.flight = f]]
  /\ UNCHANGED <<queries, live, latest, failures, allocated>>

(* An older generation than the lineage's newest is answered at once. *)
RejectOldGeneration(c, k) ==
  /\ live[k] = 0
  /\ latest[Lineage(k)] > k.gen
  /\ client' = [client EXCEPT ![c] =
       [Idle EXCEPT !.phase = "closed", !.key = k,
          !.update = [state |-> "cancelled", failure |-> "none", from |-> "fence"]]]
  /\ UNCHANGED <<queries, live, latest, failures, flight, allocated>>

(* A bug of the loop over flights: the comparison is the wrong way round. *)
Older_Newer(k, j) == Lineage(j) = Lineage(k) /\ j.gen > k.gen

Older(k, j) == Lineage(j) = Lineage(k) /\ j.gen < k.gen

NewFlight(c, k, refresh) ==
  LET f     == allocated + 1
      fence == k.gen > latest[Lineage(k)]
      old   == IF fence THEN {live[j] : j \in {i \in Keys : Older(k, i)}} \ {0} ELSE {}
      left  == UNION {flight[g].subs : g \in old}
  IN
  /\ live[k] = 0
  /\ latest[Lineage(k)] <= k.gen
  /\ allocated < MaxFlights
  /\ allocated' = f
  /\ latest' = [latest EXCEPT ![Lineage(k)] = k.gen]
  /\ queries' = IF fence THEN InvalidateGeneration(queries, k.scope, k.gen) ELSE queries
  /\ failures' = [j \in Keys |-> IF fence /\ Older(k, j) THEN "none" ELSE failures[j]]
  /\ live' = [j \in Keys |-> CASE j = k -> f
                               [] j # k /\ fence /\ Older(k, j) -> 0
                               [] OTHER -> live[j]]
  /\ flight' = [g \in Flights |->
       CASE g = f -> [Unused EXCEPT !.phase = "queued", !.key = k, !.subs = {c}, !.refresh = refresh]
         [] g # f /\ g \in old ->
              [flight[g] EXCEPT !.retired = TRUE, !.subs = {}, !.cancelled = TRUE]
         [] OTHER -> flight[g]]
  /\ client' = [Close(client, left) EXCEPT ![c] =
       [Idle EXCEPT !.phase = "open", !.key = k, !.flight = f, !.update = Update("queued", "none")]]

(* The part of subscribe under coordinator.mu. *)
SubscribeLocked(c, k, refresh) ==
  \/ JoinFlight(c, k)
  \/ RejectOldGeneration(c, k)
  \/ NewFlight(c, k, refresh)

Subscribe(c) == client[c].phase = "missed" /\ SubscribeLocked(c, client[c].key, FALSE)

Refresh(c, k) ==
  /\ client[c].phase = "idle"
  /\ SubscribeLocked(c, k, TRUE)

(* What losing the last subscriber does to the flight's cache entry. *)
Abandon_Forgets(e, began) == e

Abandon(e, began) == IF began /\ CanFail(e) THEN FailQuery(e, "cancelled") ELSE e

(* Unsubscribe of an open subscription.  Losing the last subscriber retires *)
(* the flight before its context is cancelled.                              *)
Unsubscribe(c) ==
  LET f    == client[c].flight
      k    == flight[f].key
      left == flight[f].subs \ {c}
      last == left = {} /\ ~flight[f].retired
      drop == last /\ flight[f].began
  IN
  /\ client[c].phase = "open"
  /\ client' = [client EXCEPT ![c] = Idle]
  /\ flight' = [flight EXCEPT ![f].subs = left,
                              ![f].retired = @ \/ last,
                              ![f].cancelled = @ \/ last]
  /\ live' = [live EXCEPT ![k] = IF last /\ @ = f THEN 0 ELSE @]
  /\ queries' = [queries EXCEPT ![k] = IF last THEN Abandon(@, flight[f].began) ELSE @]
  /\ failures' = [failures EXCEPT ![k] = IF drop THEN "cancelled" ELSE @]
  /\ UNCHANGED <<latest, allocated>>

(* The caller lets go of a channel the coordinator has closed. *)
Leave(c) ==
  /\ client[c].phase = "closed"
  /\ client' = [client EXCEPT ![c] = Idle]
  /\ UNCHANGED <<queries, live, latest, failures, flight, allocated>>

-----------------------------------------------------------------------------
(* The flight's goroutine: run *)

(* A bug of run: the wait for a slot does not watch the context. *)
CancelQueued_Ignored(f) == FALSE /\ UNCHANGED vars

CancelQueued(f) ==
  /\ flight[f].phase = "queued"
  /\ flight[f].cancelled
  /\ flight' = [flight EXCEPT ![f].phase = "finishing", ![f].result = Update("cancelled", "none")]
  /\ UNCHANGED <<queries, live, latest, failures, allocated, client>>

(* Taking a slot, then the start decision under coordinator.mu. *)
Start(f) ==
  LET k     == flight[f].key
      begin == flight[f].refresh /\ queries[k].state \in Readable
      entry == IF begin THEN BeginRefresh(queries[k]) ELSE queries[k]
  IN
  /\ flight[f].phase = "queued"
  /\ Slots < Limit
  /\ IF CanCommit(f)
     THEN /\ queries' = [queries EXCEPT ![k] = entry]
          /\ flight' = [flight EXCEPT ![f].phase = "executing", ![f].slot = TRUE,
                                      ![f].began = begin]
          /\ client' = Publish(client, flight[f].subs,
                         Update(StateOr(queries', k, "loading"), "none"))
     ELSE /\ flight' = [flight EXCEPT ![f].phase = "finishing", ![f].slot = TRUE,
                                      ![f].result = Update("cancelled", "none")]
          /\ UNCHANGED <<queries, client>>
  /\ UNCHANGED <<live, latest, failures, allocated>>

-----------------------------------------------------------------------------
(* The executor, calling into the sink *)

Reject(f) ==
  /\ flight' = [flight EXCEPT ![f].broken = TRUE]
  /\ UNCHANGED <<queries, live, latest, failures, allocated, client>>

(* sink.Page: `whole' says the page is complete and its observations are in *)
(* the context of the key.                                                  *)
Page(f, rows, whole) ==
  LET k     == flight[f].key
      entry == IF flight[f].began THEN queries[k] ELSE BeginLoad(queries[k])
      page  == [by |-> f, n |-> flight[f].partial + 1, rows |-> rows]
  IN
  /\ flight[f].phase = "executing"
  /\ ~flight[f].broken
  /\ flight[f].partial < MaxPages
  /\ IF flight[f].terminal \/ ~CanCommit(f) \/ ~whole
          \/ (~flight[f].began /\ Busy(queries[k])) \/ ~Busy(entry)
     THEN Reject(f)
     ELSE /\ queries' = [queries EXCEPT ![k] = CommitPage(entry, page)]
          /\ flight' = [flight EXCEPT ![f].began = TRUE, ![f].partial = @ + 1]
          /\ client' = Publish(client, flight[f].subs, Update(entry.state, "none"))
          /\ UNCHANGED <<live, latest, failures, allocated>>

(* sink.Complete *)
Complete(f) ==
  /\ flight[f].phase = "executing"
  /\ ~flight[f].broken
  /\ IF flight[f].terminal \/ ~CanCommit(f)
     THEN Reject(f)
     ELSE /\ flight' = [flight EXCEPT ![f].terminal = TRUE]
          /\ UNCHANGED <<queries, live, latest, failures, allocated, client>>

(* Execute returns nil or an error of some kind; a nil return without *)
(* exactly one accepted Complete is an invalid result.  The sink is   *)
(* read here for the last time.                                       *)
Return(f, outcome) ==
  LET failure == IF outcome = "ok" /\ (flight[f].broken \/ ~flight[f].terminal)
                 THEN "retryable" ELSE outcome
  IN
  /\ flight[f].phase = "executing"
  /\ flight' = [flight EXCEPT ![f].phase = IF failure = "ok" THEN "completing" ELSE "failing",
                              ![f].failure = IF failure = "ok" THEN "none" ELSE failure,
                              ![f].broken = FALSE, ![f].terminal = FALSE]
  /\ UNCHANGED <<queries, live, latest, failures, allocated, client>>

-----------------------------------------------------------------------------
(* The end of run: complete or fail, then finish *)

CompleteFlight(f) ==
  LET k     == flight[f].key
      busy  == ~flight[f].began /\ Busy(queries[k])
      entry == IF flight[f].began THEN queries[k] ELSE BeginLoad(queries[k])
      Failed(kind) == /\ flight' = [flight EXCEPT ![f].phase = "failing", ![f].failure = kind]
                      /\ UNCHANGED <<queries, failures>>
  IN
  /\ flight[f].phase = "completing"
  /\ CASE ~CanCommit(f) -> Failed("cancelled")
       [] CanCommit(f) /\ (busy \/ ~Busy(entry)) -> Failed("retryable")
       [] OTHER -> /\ queries' = [queries EXCEPT ![k] = CompleteQuery(entry)]
                   /\ failures' = [failures EXCEPT ![k] = "none"]
                   /\ flight' = [flight EXCEPT ![f].phase = "completed", ![f].began = TRUE]
  /\ UNCHANGED <<live, latest, allocated, client>>

(* The result is read back from the store without a lock. *)
ReadResult(f) ==
  /\ flight[f].phase = "completed"
  /\ flight' = [flight EXCEPT ![f].phase = "finishing",
                              ![f].result = Update(queries[flight[f].key].state, "none")]
  /\ UNCHANGED <<queries, live, latest, failures, allocated, client>>

FailFlight(f) ==
  LET k     == flight[f].key
      kind  == flight[f].failure
      cache == kind = "stable"
      entry == IF flight[f].began \/ ~cache \/ Busy(queries[k]) THEN queries[k] ELSE Queue(queries[k])
      Ends(qs, began) ==
        flight' = [flight EXCEPT ![f].phase = "finishing", ![f].began = began,
                     ![f].failure = "none",
                     ![f].result = Update(StateOr(qs, k, FailureState(kind)), kind)]
  IN
  /\ flight[f].phase = "failing"
  /\ CASE kind = "context_changed" ->
            /\ queries' = InvalidateContext(queries, k.scope, k.gen)
            /\ failures' = [failures EXCEPT ![k] = "none"]
            /\ Ends(queries', FALSE)
       [] kind # "context_changed" /\ CanCommit(f) ->
            /\ queries' = [queries EXCEPT ![k] =
                 IF (flight[f].began \/ cache) /\ CanFail(entry)
                 THEN FailQuery(entry, FailureState(kind)) ELSE @]
            /\ failures' = [failures EXCEPT ![k] = IF flight[f].began \/ cache THEN kind ELSE @]
            /\ Ends(queries', flight[f].began)
       [] OTHER -> Ends(queries, flight[f].began) /\ UNCHANGED <<queries, failures>>
  /\ UNCHANGED <<live, latest, allocated, client>>

(* The final update, for the subscribers of a flight that still counts. *)
Deliver_Nothing(f) == client

Deliver(f) ==
  IF flight[f].retired THEN client ELSE Publish(client, flight[f].subs, flight[f].result)

(* What is left of a flight's record when its goroutine is over. *)
Ended_KeepsSubscribers(f) ==
  [Unused EXCEPT !.phase = "done", !.key = flight[f].key, !.retired = TRUE,
                 !.cancelled = TRUE, !.subs = flight[f].subs]

Ended(f) ==
  [Unused EXCEPT !.phase = "done", !.key = flight[f].key, !.retired = TRUE, !.cancelled = TRUE]

Finish(f) ==
  LET k == flight[f].key IN
  /\ flight[f].phase = "finishing"
  /\ flight' = [flight EXCEPT ![f] = Ended(f)]
  /\ live' = [live EXCEPT ![k] = IF ~flight[f].retired /\ @ = f THEN 0 ELSE @]
  /\ client' = Close(Deliver(f), flight[f].subs)
  /\ UNCHANGED <<queries, latest, failures, allocated>>

-----------------------------------------------------------------------------
RunStep(f) ==
  \/ CancelQueued(f) \/ Start(f)
  \/ CompleteFlight(f) \/ ReadResult(f) \/ FailFlight(f) \/ Finish(f)

ExecutorStep(f) ==
  \/ \E rows, whole \in BOOLEAN : Page(f, rows, whole)
  \/ Complete(f)
  \/ \E outcome \in Kinds \cup {"ok"} : Return(f, outcome)

ClientStep(c) ==
  \/ \E k \in Keys : CheckCache(c, k) \/ Refresh(c, k)
  \/ AnswerFromCache(c) \/ Subscribe(c) \/ Unsubscribe(c) \/ Leave(c)

Next ==
  \/ \E f \in Flights : RunStep(f) \/ ExecutorStep(f)
  \/ \E c \in Clients : ClientStep(c)

(* A goroutine that can run does run, and an executor whose context was     *)
(* cancelled returns; nothing is assumed of a caller or of an executor      *)
(* nobody cancelled.                                                        *)
Fairness ==
  \A f \in Flights :
    /\ WF_vars(RunStep(f))
    /\ WF_vars(flight[f].cancelled /\ \E outcome \in Kinds \cup {"ok"} : Return(f, outcome))

Spec == Init /\ [][Next]_vars
FairSpec == Spec /\ Fairness

-----------------------------------------------------------------------------
(* Properties *)

PageRecords == [by : Flights, n : 1..MaxPages, rows : BOOLEAN]

EntryRecords == [state : LoadStates, fetched : BOOLEAN, pages : SUBSET PageRecords,
                 staged : SUBSET PageRecords, observed : Flights \cup {0}]

FlightRecords == [phase : Phases, key : Keys, subs : SUBSET Clients,
                  retired : BOOLEAN, refresh : BOOLEAN, began : BOOLEAN,
                  partial : 0..MaxPages, terminal : BOOLEAN, broken : BOOLEAN,
                  cancelled : BOOLEAN, slot : BOOLEAN,
                  failure : Kinds \cup {"none"}, result : Updates]

ClientRecords == [phase : {"idle", "hit", "missed", "open", "closed"}, key : Keys,
                  flight : Flights \cup {0}, update : Updates]

(* The values the coordinator's state ranges over. *)
TypeOK ==
  /\ queries \in [Keys -> EntryRecords]
  /\ live \in [Keys -> Flights \cup {0}]
  /\ latest \in [Lineages -> Gens \cup {0}]
  /\ failures \in [Keys -> Kinds \cup {"none"}]
  /\ flight \in [Flights -> FlightRecords]
  /\ allocated \in 0..MaxFlights
  /\ client \in [Clients -> ClientRecords]

(* A cache entry that says a load is in progress has a live flight that    *)
(* began it and that will still complete or fail it.  If one could be left *)
(* loading with nobody behind it, BeginLoad and Queue would refuse the key *)
(* for the rest of the session (store.go, ErrInvalidLoadTransition).       *)
NoOrphanLoad ==
  \A k \in Keys : Busy(queries[k]) =>
    /\ live[k] # 0
    /\ flight[live[k]].began
    /\ flight[live[k]].phase \in {"executing", "completing", "failing"}

(* An open subscription is one of a flight that has neither been retired  *)
(* nor finished, so somebody is left to close its channel, whichever of   *)
(* finish, unsubscribe and a newer generation came first.                 *)
OpenSubscriptionHasFlight ==
  \A c \in Clients : client[c].phase = "open" =>
    LET f == client[c].flight IN
    /\ f # 0
    /\ c \in flight[f].subs
    /\ ~flight[f].retired
    /\ flight[f].phase \notin {"none", "done"}
    /\ live[client[c].key] = f

(* The flights map holds exactly the flights a subscriber still waits on,  *)
(* each under its own key and at its lineage's newest generation: the      *)
(* index canCommitLocked relies on, and the heart of the two invariants    *)
(* around it.                                                              *)
LiveIndex ==
  \A k \in Keys : live[k] # 0 =>
    LET f == live[k] IN
    /\ f <= allocated
    /\ flight[f].key = k
    /\ ~flight[f].retired
    /\ flight[f].subs # {}
    /\ flight[f].phase \notin {"none", "done"}
    /\ latest[Lineage(k)] = k.gen

(* The cache holds, for a query of one profile and region, nothing older   *)
(* than the newest credential generation it was asked at, whatever late    *)
(* pages, completions and failures arrive (query.go, canCommitLocked).     *)
GenerationFence ==
  \A k \in Keys : queries[k].state # "not_loaded" => latest[Lineage(k)] = k.gen

(* What an entry shows, and what a refresh has staged, was fetched by one  *)
(* flight: a cancelled or failed attempt never lends pages to a later one. *)
PagesFromOneFlight ==
  \A k \in Keys :
    /\ \A p, q \in queries[k].pages : p.by = q.by
    /\ \A p, q \in queries[k].staged : p.by = q.by

(* A channel is closed without a terminal update only because a newer      *)
(* credential generation replaced its flight; integration.go reports such  *)
(* an end as incomplete.                                                   *)
EndWithoutResultMeansNewerGeneration ==
  \A c \in Clients :
    /\ client[c].phase = "closed"
    /\ \/ client[c].update.from = "none"
       \/ client[c].update.state \in {"queued", "loading", "refreshing"}
    => latest[Lineage(client[c].key)] > client[c].key.gen

(* While a refresh runs, the last completed pages and observations stay    *)
(* exactly as they were; only its completion replaces them, and failing,   *)
(* cancelling and retiring it leave them (store.go, BeginRefresh).         *)
RefreshKeepsLastResult ==
  [][\A k \in Keys :
       /\ queries[k].state = "refreshing"
       /\ queries'[k].state \notin {"ready", "empty", "not_loaded"}
       => /\ queries'[k].pages = queries[k].pages
          /\ queries'[k].observed = queries[k].observed]_vars

(* No page enters the store for a flight that was retired, and none after  *)
(* its executor returned.                                                  *)
OnlyLiveFlightsCommit ==
  [][\A k \in Keys, f \in Flights :
       (\E p \in (queries'[k].pages \cup queries'[k].staged)
                  \ (queries[k].pages \cup queries[k].staged) : p.by = f)
       => ~flight[f].retired /\ flight[f].subs # {} /\ flight[f].phase = "executing"]_vars

(* What an attempt wrote stays apart from what others wrote: the pages of  *)
(* an entry come from one flight, and a refresh leaves the last completed  *)
(* ones as they are until it has completed itself.                         *)
AttemptsKeptApart == []PagesFromOneFlight /\ RefreshKeepsLastResult

(* A flight whose context is cancelled ends and gives its slot back: an    *)
(* abandoned query cannot hold the concurrency limit for ever.             *)
CancelledFlightEnds ==
  \A f \in Flights : flight[f].cancelled ~> (flight[f].phase = "done" /\ ~flight[f].slot)

(* Once its executor has returned, every subscriber of a flight is told. *)
ReturnedFlightClosesSubscribers ==
  \A c \in Clients, f \in Flights :
    (c \in flight[f].subs /\ flight[f].phase \notin {"queued", "executing"})
      ~> c \notin flight[f].subs

(* No subscriber is forgotten: an open channel has its flight, and one     *)
(* that was closed without a result has been replaced by a newer           *)
(* generation, which is what Subscribe tells it.                           *)
SubscribersAccountedFor ==
  OpenSubscriptionHasFlight /\ EndWithoutResultMeansNewerGeneration

(* A flight that is cancelled ends, and one whose executor has returned    *)
(* tells its subscribers: neither slots nor callers are held for ever.     *)
FlightsEnd == CancelledFlightEnds /\ ReturnedFlightClosesSubscribers

-----------------------------------------------------------------------------
(* What comments and tests say, and the code does not do *)

(* query_test.go, TestOnlyStableNegativeFailuresAreReplayedFromCache: of the *)
(* recorded failures only the stable ones come back with a cached answer;    *)
(* a stale value carries the failure of its refresh.                         *)
OnlyStableFailuresReplayed ==
  \A c \in Clients : client[c].update.from = "cache" =>
    client[c].update.failure \in {"none", "stable"} \/ client[c].update.state = "stale"
=============================================================================
