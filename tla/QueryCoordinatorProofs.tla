----------------------- MODULE QueryCoordinatorProofs -----------------------
(***************************************************************************)
(* Proofs about the query coordinator, for any number of clients, flights, *)
(* keys, scopes, operations and generations.                               *)
(*                                                                         *)
(* First its cache and its fences.  Then what its callers see: who waits   *)
(* is accounted for, what an attempt wrote stays apart from what others    *)
(* wrote, and the coordinator implements QueryService.  Two lemmas carry   *)
(* that part: EntrySteps says all a step may do to one entry of the cache, *)
(* ChannelSteps all it may do to one client.                               *)
(***************************************************************************)
EXTENDS QueryRefinement, TLAPS

(* An open subscription names the flight it was added to. *)
ClientLink == \A c \in Clients : client[c].phase = "open" => client[c].flight \in Flights

(* A failing flight knows its failure. *)
FailingHasKind ==
  \A f \in Flights : flight[f].phase = "failing" => flight[f].failure \in Kinds

IInv == TypeOK /\ ClientLink /\ FailingHasKind /\ LiveIndex /\ NoOrphanLoad /\ GenerationFence

-----------------------------------------------------------------------------
(* The store's operations keep entries well formed. *)

LEMMA AKey == (CHOOSE k \in Keys : TRUE) \in Keys
  <1>1. PICK s \in Scopes, o \in Operations : TRUE
    BY BoundsAssumption
  <1>2. [scope |-> s, op |-> o, gen |-> 1] \in Keys
    BY <1>1, BoundsAssumption DEF Keys, Gens
  <1> QED BY <1>2

LEMMA AbsentType == Absent \in EntryRecords
  BY DEF Absent, EntryRecords, LoadStates, FailureStates

LEMMA UpsertType ==
  ASSUME NEW q \in EntryRecords, NEW ps \in SUBSET PageRecords
  PROVE  UpsertObservations(q, ps) \in EntryRecords /\ UpsertObservations(q, ps).state = q.state
  <1>1. CASE \E p \in ps : p.rows
    <2>1. PICK p \in ps : p.rows BY <1>1
    <2>2. (CHOOSE r \in ps : r.rows) \in ps BY <2>1
    <2>3. (CHOOSE r \in ps : r.rows).by \in Flights BY <2>2 DEF PageRecords
    <2> QED BY <1>1, <2>3 DEF UpsertObservations, EntryRecords
  <1>2. CASE ~ \E p \in ps : p.rows
    BY <1>2 DEF UpsertObservations
  <1> QED BY <1>1, <1>2

LEMMA StoreTypes ==
  ASSUME NEW e \in EntryRecords
  PROVE  /\ Queue(e) \in EntryRecords
         /\ BeginLoad(e) \in EntryRecords
         /\ BeginRefresh(e) \in EntryRecords
         /\ \A s \in FailureStates : FailQuery(e, s) \in EntryRecords
         /\ \A p \in PageRecords : CommitPage(e, p) \in EntryRecords
         /\ CompleteQuery(e) \in EntryRecords
  <1>1. Queue(e) \in EntryRecords
    BY DEF Queue, EntryRecords, LoadStates
  <1>2. BeginLoad(e) \in EntryRecords
    BY DEF BeginLoad, EntryRecords, LoadStates
  <1>3. BeginRefresh(e) \in EntryRecords
    BY <1>2 DEF BeginRefresh, EntryRecords, LoadStates
  <1>4. \A s \in FailureStates : FailQuery(e, s) \in EntryRecords
    BY DEF FailQuery, EntryRecords, LoadStates
  <1>6. ASSUME NEW p \in PageRecords PROVE CommitPage(e, p) \in EntryRecords
    <2>1. PutPage(e.pages, p) \in SUBSET PageRecords /\ PutPage(e.staged, p) \in SUBSET PageRecords
      BY DEF PutPage, EntryRecords
    <2>2. [e EXCEPT !.pages = PutPage(e.pages, p)] \in EntryRecords
      BY <2>1 DEF EntryRecords
    <2>3. [e EXCEPT !.staged = PutPage(e.staged, p)] \in EntryRecords
      BY <2>1 DEF EntryRecords
    <2>4. {p} \in SUBSET PageRecords OBVIOUS
    <2> QED BY <2>2, <2>3, <2>4, UpsertType DEF CommitPage
  <1>7. CompleteQuery(e) \in EntryRecords
    <2> DEFINE visible == IF e.state = "refreshing" THEN e.staged ELSE e.pages
    <2> DEFINE kept == IF e.state = "refreshing" THEN UpsertObservations(e, visible) ELSE e
    <2>1. visible \in SUBSET PageRecords BY DEF EntryRecords
    <2>2. kept \in EntryRecords BY UpsertType, <2>1
    <2> HIDE DEF kept, visible
    <2>3. [kept EXCEPT !.pages = visible, !.staged = {}, !.fetched = TRUE,
             !.state = IF \E p \in visible : p.rows THEN "ready" ELSE "empty"] \in EntryRecords
      BY <2>1, <2>2 DEF EntryRecords, LoadStates
    <2> QED BY <2>3 DEF CompleteQuery, kept, visible
  <1> QED BY <1>1, <1>2, <1>3, <1>4, <1>6, <1>7

LEMMA AbandonType ==
  ASSUME NEW e \in EntryRecords, NEW began
  PROVE  Abandon(e, began) \in EntryRecords
  BY StoreTypes DEF Abandon, FailureStates

LEMMA UpdateTypes ==
  /\ NoUpdate \in Updates
  /\ \A s \in LoadStates, k \in Kinds \cup {"none"} : Update(s, k) \in Updates
  BY DEF NoUpdate, Updates, Update, LoadStates, FailureStates, Kinds

LEMMA IdleType == Idle \in ClientRecords
  BY AKey, UpdateTypes DEF Idle, ClientRecords

LEMMA UnusedType == Unused \in FlightRecords
  BY AKey, UpdateTypes, BoundsAssumption DEF Unused, FlightRecords, Phases

(* Truth values computed by an action, stored in a flight's record. *)
LEMMA FlightFields ==
  ASSUME NEW r \in FlightRecords, NEW subs \in SUBSET Clients,
         NEW retired \in BOOLEAN, NEW cancelled \in BOOLEAN, NEW began \in BOOLEAN
  PROVE  /\ [r EXCEPT !.subs = subs, !.retired = retired, !.cancelled = cancelled] \in FlightRecords
         /\ [r EXCEPT !.phase = "executing", !.slot = TRUE, !.began = began] \in FlightRecords
  BY DEF FlightRecords, Phases

LEMMA StateOrType ==
  ASSUME NEW qs \in [Keys -> EntryRecords], NEW k \in Keys, NEW s \in LoadStates
  PROVE  StateOr(qs, k, s) \in LoadStates
  BY DEF StateOr, EntryRecords

LEMMA PublishType ==
  ASSUME NEW cl \in [Clients -> ClientRecords], NEW subs, NEW u \in Updates
  PROVE  /\ Publish(cl, subs, u) \in [Clients -> ClientRecords]
         /\ \A c \in Clients : /\ Publish(cl, subs, u)[c].phase = cl[c].phase
                               /\ Publish(cl, subs, u)[c].flight = cl[c].flight
  <1>1. ASSUME NEW c \in Clients
        PROVE  /\ [cl[c] EXCEPT !.update = u] \in ClientRecords
               /\ [cl[c] EXCEPT !.update = u].phase = cl[c].phase
               /\ [cl[c] EXCEPT !.update = u].flight = cl[c].flight
    BY DEF ClientRecords
  <1> QED BY <1>1 DEF Publish

LEMMA CloseType ==
  ASSUME NEW cl \in [Clients -> ClientRecords], NEW subs
  PROVE  /\ Close(cl, subs) \in [Clients -> ClientRecords]
         /\ \A c \in Clients : Close(cl, subs)[c].phase = "open" =>
              cl[c].phase = "open" /\ Close(cl, subs)[c].flight = cl[c].flight
  <1>1. ASSUME NEW c \in Clients
        PROVE  /\ [cl[c] EXCEPT !.phase = "closed", !.flight = 0] \in ClientRecords
               /\ [cl[c] EXCEPT !.phase = "closed", !.flight = 0].phase = "closed"
    BY DEF ClientRecords
  <1> QED BY <1>1 DEF Close

LEMMA InvalidateTypes ==
  ASSUME NEW qs \in [Keys -> EntryRecords], NEW s, NEW g
  PROVE  /\ InvalidateContext(qs, s, g) \in [Keys -> EntryRecords]
         /\ InvalidateGeneration(qs, s, g) \in [Keys -> EntryRecords]
  BY AbsentType DEF InvalidateContext, InvalidateGeneration

-----------------------------------------------------------------------------
(* Each action keeps the types. *)

LEMMA TypeInit == Init => TypeOK
  <1> SUFFICES ASSUME Init PROVE TypeOK OBVIOUS
  <1> USE DEF Init
  <1>1. queries \in [Keys -> EntryRecords] BY AbsentType
  <1>2. flight \in [Flights -> FlightRecords] BY UnusedType
  <1>3. client \in [Clients -> ClientRecords] BY IdleType
  <1>4. /\ live \in [Keys -> Flights \cup {0}]
        /\ latest \in [Lineages -> Gens \cup {0}]
        /\ failures \in [Keys -> Kinds \cup {"none"}]
        /\ allocated \in 0..MaxFlights
    BY BoundsAssumption
  <1> QED BY <1>1, <1>2, <1>3, <1>4 DEF TypeOK

LEMMA LineageType == \A k \in Keys : Lineage(k) \in Lineages /\ k.scope \in Scopes /\ k.gen \in Gens
  BY DEF Keys, Lineage, Lineages

LEMMA TypeCheckCache ==
  ASSUME TypeOK, NEW c \in Clients, NEW k \in Keys, CheckCache(c, k)
  PROVE  TypeOK'
  <1> DEFINE hit == [Idle EXCEPT !.phase = "hit", !.key = k,
                        !.update = [NoUpdate EXCEPT !.state = queries[k].state]]
             miss == [Idle EXCEPT !.phase = "missed", !.key = k]
  <1>1. [NoUpdate EXCEPT !.state = queries[k].state] \in Updates
    BY UpdateTypes DEF TypeOK, Updates, EntryRecords
  <1>2. hit \in ClientRecords /\ miss \in ClientRecords
    BY <1>1, IdleType DEF ClientRecords
  <1> HIDE DEF hit, miss
  <1>3. client' = [client EXCEPT ![c] = IF queries[k].state \in CacheTerminal THEN hit ELSE miss]
    BY DEF CheckCache, hit, miss
  <1> QED BY <1>2, <1>3 DEF CheckCache, TypeOK

LEMMA TypeAnswer ==
  ASSUME TypeOK, NEW c \in Clients, AnswerFromCache(c)
  PROVE  TypeOK'
  <1> DEFINE r == [client[c] EXCEPT !.phase = "closed", !.update.failure = failures[client[c].key],
                                    !.update.from = "cache"]
  <1>1. client[c] \in ClientRecords /\ failures[client[c].key] \in Kinds \cup {"none"}
    BY DEF TypeOK, ClientRecords
  <1>2. [client[c].update EXCEPT !.failure = failures[client[c].key], !.from = "cache"] \in Updates
    BY <1>1 DEF ClientRecords, Updates
  <1>3. client' \in [Clients -> ClientRecords]
    BY <1>1, <1>2 DEF AnswerFromCache, TypeOK, ClientRecords, Updates
  <1> QED BY <1>3 DEF AnswerFromCache, TypeOK

LEMMA TypeJoin ==
  ASSUME TypeOK, NEW c \in Clients, NEW k \in Keys, JoinFlight(c, k)
  PROVE  TypeOK'
  <1>1. live[k] \in Flights BY DEF JoinFlight, TypeOK
  <1>2. [flight[live[k]] EXCEPT !.subs = @ \cup {c}] \in FlightRecords
    BY <1>1 DEF TypeOK, FlightRecords
  <1>3. [Idle EXCEPT !.phase = "open", !.key = k, !.flight = live[k]] \in ClientRecords
    BY <1>1, IdleType DEF ClientRecords
  <1> QED BY <1>1, <1>2, <1>3 DEF JoinFlight, TypeOK

LEMMA TypeReject ==
  ASSUME TypeOK, NEW c \in Clients, NEW k \in Keys, RejectOldGeneration(c, k)
  PROVE  TypeOK'
  <1>1. [Idle EXCEPT !.phase = "closed", !.key = k,
          !.update = [state |-> "cancelled", failure |-> "none", from |-> "fence"]] \in ClientRecords
    BY IdleType DEF ClientRecords, Updates, LoadStates, FailureStates
  <1> QED BY <1>1 DEF RejectOldGeneration, TypeOK

LEMMA TypeNewFlight ==
  ASSUME TypeOK, NEW c \in Clients, NEW k \in Keys, NEW refresh \in BOOLEAN,
         NewFlight(c, k, refresh)
  PROVE  TypeOK'
  <1> DEFINE f == allocated + 1
  <1>0. allocated < MaxFlights /\ allocated' = allocated + 1
    BY Zenon DEF NewFlight
  <1>1. f \in Flights
    BY <1>0, BoundsAssumption DEF TypeOK, Flights
  <1>2. allocated' \in 0..MaxFlights
    BY <1>0, BoundsAssumption DEF TypeOK
  <1>3. latest' \in [Lineages -> Gens \cup {0}]
    BY LineageType DEF NewFlight, TypeOK
  <1>4. queries' \in [Keys -> EntryRecords]
    BY InvalidateTypes DEF NewFlight, TypeOK
  <1>5. failures' \in [Keys -> Kinds \cup {"none"}]
    BY DEF NewFlight, TypeOK
  <1>6. live' \in [Keys -> Flights \cup {0}]
    BY <1>1 DEF NewFlight, TypeOK
  <1>7. flight' \in [Flights -> FlightRecords]
    <2>1. [Unused EXCEPT !.phase = "queued", !.key = k, !.subs = {c}, !.refresh = refresh]
            \in FlightRecords
      BY UnusedType DEF FlightRecords, Phases
    <2>2. \A g \in Flights : [flight[g] EXCEPT !.retired = TRUE, !.subs = {}, !.cancelled = TRUE]
            \in FlightRecords
      <3> TAKE g \in Flights
      <3>1. flight[g] \in FlightRecords
        BY DEF TypeOK
      <3> QED BY <3>1 DEF FlightRecords
    <2> QED BY <2>1, <2>2, Zenon DEF NewFlight, TypeOK
  <1>8. client' \in [Clients -> ClientRecords]
    <2>1. [Idle EXCEPT !.phase = "open", !.key = k, !.flight = f, !.update = Update("queued", "none")]
            \in ClientRecords
      BY <1>1, IdleType, UpdateTypes DEF ClientRecords, LoadStates
    <2>2. \A left : Close(client, left) \in [Clients -> ClientRecords]
      BY CloseType DEF TypeOK
    <2> QED BY <2>1, <2>2 DEF NewFlight
  <1> QED BY <1>2, <1>3, <1>4, <1>5, <1>6, <1>7, <1>8 DEF NewFlight, TypeOK

LEMMA TypeUnsubscribe ==
  ASSUME TypeOK, ClientLink, NEW c \in Clients, Unsubscribe(c)
  PROVE  TypeOK'
  <1> DEFINE f == client[c].flight
             k == flight[f].key
             left == flight[f].subs \ {c}
             last == left = {} /\ ~flight[f].retired
  <1>1. f \in Flights /\ k \in Keys
    BY DEF ClientLink, Unsubscribe, TypeOK, FlightRecords
  <1>2. client' \in [Clients -> ClientRecords]
    BY IdleType DEF Unsubscribe, TypeOK
  <1>3. flight' \in [Flights -> FlightRecords]
    <2> DEFINE retired == flight[f].retired \/ last
               cancelled == flight[f].cancelled \/ last
    <2>1. retired \in BOOLEAN /\ cancelled \in BOOLEAN OBVIOUS
    <2>2. flight' = [flight EXCEPT ![f] = [@ EXCEPT !.subs = left, !.retired = retired,
                                                   !.cancelled = cancelled]]
      BY Zenon DEF Unsubscribe
    <2>3. left \in SUBSET Clients BY <1>1 DEF TypeOK, FlightRecords
    <2> HIDE DEF retired, cancelled, left
    <2>4. [flight[f] EXCEPT !.subs = left, !.retired = retired, !.cancelled = cancelled]
            \in FlightRecords
      BY <1>1, <2>1, <2>3, FlightFields, Zenon DEF TypeOK
    <2> QED BY <1>1, <2>2, <2>4 DEF TypeOK
  <1>4. live' \in [Keys -> Flights \cup {0}] /\ failures' \in [Keys -> Kinds \cup {"none"}]
    BY <1>1 DEF Unsubscribe, TypeOK, Kinds
  <1>5. queries' \in [Keys -> EntryRecords]
    BY <1>1, AbandonType DEF Unsubscribe, TypeOK
  <1> QED BY <1>2, <1>3, <1>4, <1>5 DEF Unsubscribe, TypeOK

LEMMA TypeLeave ==
  ASSUME TypeOK, NEW c \in Clients, Leave(c)
  PROVE  TypeOK'
  BY IdleType DEF Leave, TypeOK

LEMMA TypeCancelQueued ==
  ASSUME TypeOK, NEW f \in Flights, CancelQueued(f)
  PROVE  TypeOK'
  <1>1. Update("cancelled", "none") \in Updates
    BY UpdateTypes DEF LoadStates, FailureStates
  <1>2. [flight[f] EXCEPT !.phase = "finishing", !.result = Update("cancelled", "none")] \in FlightRecords
    <2>1. flight[f] \in FlightRecords
      BY DEF TypeOK
    <2> QED BY <1>1, <2>1 DEF FlightRecords, Phases
  <1> QED BY <1>2 DEF CancelQueued, TypeOK

LEMMA TypeStart ==
  ASSUME TypeOK, NEW f \in Flights, Start(f)
  PROVE  TypeOK'
  <1> DEFINE k == flight[f].key
             begin == flight[f].refresh /\ queries[k].state \in Readable
  <1>1. k \in Keys /\ begin \in BOOLEAN BY DEF TypeOK, FlightRecords
  <1>2. CASE CanCommit(f)
    <2>1. queries' \in [Keys -> EntryRecords]
      BY <1>1, <1>2, StoreTypes DEF Start, TypeOK
    <2>2. flight' \in [Flights -> FlightRecords]
      <3>1. flight' = [flight EXCEPT ![f] = [@ EXCEPT !.phase = "executing", !.slot = TRUE, !.began = begin]]
        BY <1>2, Zenon DEF Start
      <3> HIDE DEF begin
      <3>2. [flight[f] EXCEPT !.phase = "executing", !.slot = TRUE, !.began = begin] \in FlightRecords
        BY <1>1, FlightFields, Zenon DEF TypeOK
      <3> QED BY <3>1, <3>2 DEF TypeOK
    <2>3. Update(StateOr(queries', k, "loading"), "none") \in Updates
      BY <1>1, <2>1, StateOrType, UpdateTypes DEF LoadStates
    <2>4. client' \in [Clients -> ClientRecords]
      BY <1>2, <2>3, PublishType DEF Start, TypeOK
    <2> QED BY <2>1, <2>2, <2>4 DEF Start, TypeOK
  <1>3. CASE ~CanCommit(f)
    <2>1. Update("cancelled", "none") \in Updates
      BY UpdateTypes DEF LoadStates, FailureStates
    <2>2. [flight[f] EXCEPT !.phase = "finishing", !.slot = TRUE, !.result = Update("cancelled", "none")]
            \in FlightRecords
      <3>1. flight[f] \in FlightRecords
        BY DEF TypeOK
      <3> QED BY <2>1, <3>1 DEF FlightRecords, Phases
    <2> QED BY <1>3, <2>2 DEF Start, TypeOK
  <1> QED BY <1>2, <1>3

LEMMA TypePage ==
  ASSUME TypeOK, NEW f \in Flights, NEW rows \in BOOLEAN, NEW whole \in BOOLEAN,
         Page(f, rows, whole)
  PROVE  TypeOK'
  <1> DEFINE k == flight[f].key
             entry == IF flight[f].began THEN queries[k] ELSE BeginLoad(queries[k])
             page == [by |-> f, n |-> flight[f].partial + 1, rows |-> rows]
             refused == \/ flight[f].terminal \/ ~CanCommit(f) \/ ~whole
                        \/ (~flight[f].began /\ Busy(queries[k])) \/ ~Busy(entry)
  <1>1. k \in Keys /\ flight[f].partial \in 0..MaxPages /\ flight[f] \in FlightRecords
    BY DEF TypeOK, FlightRecords
  <1>2. entry \in EntryRecords BY <1>1, StoreTypes DEF TypeOK
  <1>3. page \in PageRecords
    BY <1>1, BoundsAssumption DEF Page, PageRecords
  <1>4. CASE refused
    <2>1. [flight[f] EXCEPT !.broken = TRUE] \in FlightRecords
      BY <1>1 DEF FlightRecords
    <2> QED BY <1>4, <2>1 DEF Page, Reject, TypeOK
  <1>5. CASE ~refused
    <2>1. queries' = [queries EXCEPT ![k] = CommitPage(entry, page)]
      BY <1>5 DEF Page
    <2>2. queries' \in [Keys -> EntryRecords]
      BY <1>1, <1>2, <1>3, <2>1, StoreTypes DEF TypeOK
    <2> DEFINE partial == flight[f].partial + 1
    <2>a. partial \in 0..MaxPages
      <3>1. flight[f].partial < MaxPages BY Zenon DEF Page
      <3> QED BY <3>1, <1>1, BoundsAssumption
    <2> HIDE DEF partial
    <2>3. [flight[f] EXCEPT !.began = TRUE, !.partial = partial] \in FlightRecords
      BY <1>1, <2>a DEF FlightRecords
    <2>4. flight' \in [Flights -> FlightRecords]
      <3>1. flight' = [flight EXCEPT ![f] = [@ EXCEPT !.began = TRUE, !.partial = partial]]
        BY <1>5, Zenon DEF Page, partial
      <3> QED BY <2>3, <3>1 DEF TypeOK
    <2>5. entry.state \in LoadStates BY <1>2 DEF EntryRecords
    <2>6. client' \in [Clients -> ClientRecords]
      <3>1. Update(entry.state, "none") \in Updates BY <2>5, UpdateTypes
      <3>2. client' = Publish(client, flight[f].subs, Update(entry.state, "none"))
        BY <1>5 DEF Page
      <3> QED BY <3>1, <3>2, PublishType DEF TypeOK
    <2> QED BY <1>5, <2>2, <2>4, <2>6 DEF Page, TypeOK
  <1> QED BY <1>4, <1>5

LEMMA TypeComplete ==
  ASSUME TypeOK, NEW f \in Flights, Complete(f)
  PROVE  TypeOK'
  <1>1. flight[f] \in FlightRecords
    BY DEF TypeOK
  <1>2. [flight[f] EXCEPT !.broken = TRUE] \in FlightRecords
    BY <1>1 DEF FlightRecords
  <1>3. [flight[f] EXCEPT !.terminal = TRUE] \in FlightRecords
    BY <1>1 DEF FlightRecords
  <1> QED BY <1>2, <1>3 DEF Complete, Reject, TypeOK

LEMMA TypeReturn ==
  ASSUME TypeOK, NEW f \in Flights, NEW outcome \in Kinds \cup {"ok"}, Return(f, outcome)
  PROVE  TypeOK'
  <1> DEFINE failure == IF outcome = "ok" /\ (flight[f].broken \/ ~flight[f].terminal)
                        THEN "retryable" ELSE outcome
             phase == IF failure = "ok" THEN "completing" ELSE "failing"
             kind == IF failure = "ok" THEN "none" ELSE failure
  <1>1. phase \in Phases /\ kind \in Kinds \cup {"none"}
    BY DEF Phases, Kinds
  <1>2. flight' = [flight EXCEPT ![f] = [@ EXCEPT !.phase = phase, !.failure = kind,
                                                  !.broken = FALSE, !.terminal = FALSE]]
    BY Zenon DEF Return
  <1> HIDE DEF phase, kind
  <1>3. [flight[f] EXCEPT !.phase = phase, !.failure = kind, !.broken = FALSE, !.terminal = FALSE]
          \in FlightRecords
    <2>1. flight[f] \in FlightRecords
      BY DEF TypeOK
    <2> QED BY <1>1, <2>1 DEF FlightRecords
  <1>4. UNCHANGED <<queries, live, latest, failures, allocated, client>>
    BY Zenon DEF Return
  <1> QED BY <1>2, <1>3, <1>4 DEF TypeOK

LEMMA TypeCompleteFlight ==
  ASSUME TypeOK, NEW f \in Flights, CompleteFlight(f)
  PROVE  TypeOK'
  <1> DEFINE k == flight[f].key
             entry == IF flight[f].began THEN queries[k] ELSE BeginLoad(queries[k])
  <1>1. k \in Keys /\ flight[f] \in FlightRecords BY DEF TypeOK, FlightRecords
  <1>2. entry \in EntryRecords BY <1>1, StoreTypes DEF TypeOK
  <1>3. ASSUME NEW kind \in {"cancelled", "retryable"},
               flight' = [flight EXCEPT ![f].phase = "failing", ![f].failure = kind],
               UNCHANGED <<queries, failures>>
        PROVE  TypeOK'
    <2>1. [flight[f] EXCEPT !.phase = "failing", !.failure = kind] \in FlightRecords
      BY <1>1 DEF FlightRecords, Phases, Kinds
    <2> QED BY <1>3, <2>1 DEF CompleteFlight, TypeOK
  <1>4. ASSUME queries' = [queries EXCEPT ![k] = CompleteQuery(entry)],
               failures' = [failures EXCEPT ![k] = "none"],
               flight' = [flight EXCEPT ![f].phase = "completed", ![f].began = TRUE]
        PROVE  TypeOK'
    <2>1. [flight[f] EXCEPT !.phase = "completed", !.began = TRUE] \in FlightRecords
      BY <1>1 DEF FlightRecords, Phases
    <2>2. CompleteQuery(entry) \in EntryRecords BY <1>2, StoreTypes
    <2> QED BY <1>1, <1>4, <2>1, <2>2 DEF CompleteFlight, TypeOK
  <1>5. \/ \E kind \in {"cancelled", "retryable"} :
             /\ flight' = [flight EXCEPT ![f].phase = "failing", ![f].failure = kind]
             /\ UNCHANGED <<queries, failures>>
        \/ /\ queries' = [queries EXCEPT ![k] = CompleteQuery(entry)]
           /\ failures' = [failures EXCEPT ![k] = "none"]
           /\ flight' = [flight EXCEPT ![f].phase = "completed", ![f].began = TRUE]
    BY DEF CompleteFlight
  <1> QED BY <1>3, <1>4, <1>5

LEMMA TypeReadResult ==
  ASSUME TypeOK, NEW f \in Flights, ReadResult(f)
  PROVE  TypeOK'
  <1>1. flight[f] \in FlightRecords /\ queries[flight[f].key].state \in LoadStates
    BY DEF TypeOK, FlightRecords, EntryRecords
  <1>2. Update(queries[flight[f].key].state, "none") \in Updates BY <1>1, UpdateTypes
  <1>3. [flight[f] EXCEPT !.phase = "finishing",
                          !.result = Update(queries[flight[f].key].state, "none")] \in FlightRecords
    BY <1>1, <1>2 DEF FlightRecords, Phases
  <1> QED BY <1>3 DEF ReadResult, TypeOK

LEMMA TypeFailFlight ==
  ASSUME TypeOK, NEW f \in Flights, FailFlight(f), flight[f].failure \in Kinds
  PROVE  TypeOK'
  <1> DEFINE k == flight[f].key
             kind == flight[f].failure
             cache == kind = "stable"
             entry == IF flight[f].began \/ ~cache \/ Busy(queries[k]) THEN queries[k] ELSE Queue(queries[k])
             End(qs, began) == [flight[f] EXCEPT !.phase = "finishing", !.began = began,
                     !.failure = "none",
                     !.result = Update(StateOr(qs, k, FailureState(kind)), kind)]
  <1>1. k \in Keys /\ flight[f] \in FlightRecords /\ flight[f].began \in BOOLEAN
    BY DEF TypeOK, FlightRecords
  <1>2. entry \in EntryRecords BY <1>1, StoreTypes DEF TypeOK
  <1>3. FailureState(kind) \in FailureStates /\ FailureState(kind) \in LoadStates
    BY DEF FailureState, FailureStates, LoadStates
  <1>4. ASSUME NEW qs \in [Keys -> EntryRecords], NEW began \in BOOLEAN
        PROVE  End(qs, began) \in FlightRecords
    <2>1. Update(StateOr(qs, k, FailureState(kind)), kind) \in Updates
      BY <1>1, <1>3, StateOrType, UpdateTypes
    <2>2. ASSUME NEW u \in Updates
          PROVE  [flight[f] EXCEPT !.phase = "finishing", !.began = began, !.failure = "none",
                                   !.result = u] \in FlightRecords
      BY <1>1 DEF FlightRecords, Phases
    <2> QED BY <2>1, <2>2
  <1>5. FailQuery(entry, FailureState(kind)) \in EntryRecords
    BY <1>2, <1>3, StoreTypes
  <1>6. InvalidateContext(queries, k.scope, k.gen) \in [Keys -> EntryRecords]
    BY InvalidateTypes DEF TypeOK
  <1>7. CASE kind = "context_changed"
    <2>1. /\ queries' = InvalidateContext(queries, k.scope, k.gen)
          /\ failures' = [failures EXCEPT ![k] = "none"]
          /\ flight' = [flight EXCEPT ![f] = End(queries', FALSE)]
      BY <1>7, Zenon DEF FailFlight
    <2>2. End(queries', FALSE) \in FlightRecords BY <1>4, <1>6, <2>1
    <2> HIDE DEF End
    <2> QED BY <1>6, <2>1, <2>2 DEF FailFlight, TypeOK
  <1>8. CASE kind # "context_changed" /\ CanCommit(f)
    <2>1. /\ queries' = [queries EXCEPT ![k] = IF (flight[f].began \/ cache) /\ CanFail(entry)
                                              THEN FailQuery(entry, FailureState(kind)) ELSE @]
          /\ failures' = [failures EXCEPT ![k] = IF flight[f].began \/ cache THEN kind ELSE @]
          /\ flight' = [flight EXCEPT ![f] = End(queries', flight[f].began)]
      BY <1>8, Zenon DEF FailFlight
    <2>2. queries' \in [Keys -> EntryRecords] BY <1>5, <2>1 DEF TypeOK
    <2>3. End(queries', flight[f].began) \in FlightRecords BY <1>1, <1>4, <2>2
    <2>4. failures' \in [Keys -> Kinds \cup {"none"}] BY <2>1 DEF TypeOK
    <2> HIDE DEF End
    <2> QED BY <2>1, <2>2, <2>3, <2>4 DEF FailFlight, TypeOK
  <1>9. CASE kind # "context_changed" /\ ~CanCommit(f)
    <2>1. /\ flight' = [flight EXCEPT ![f] = End(queries, flight[f].began)]
          /\ UNCHANGED <<queries, failures>>
      BY <1>9, Zenon DEF FailFlight
    <2>2. End(queries, flight[f].began) \in FlightRecords BY <1>1, <1>4 DEF TypeOK
    <2> HIDE DEF End
    <2> QED BY <2>1, <2>2 DEF FailFlight, TypeOK
  <1> QED BY <1>7, <1>8, <1>9

LEMMA TypeFinish ==
  ASSUME TypeOK, NEW f \in Flights, Finish(f)
  PROVE  TypeOK'
  <1>1. flight[f].key \in Keys /\ flight[f].result \in Updates BY DEF TypeOK, FlightRecords
  <1>2. Ended(f) \in FlightRecords
    BY <1>1, UnusedType DEF Ended, FlightRecords, Phases
  <1>3. Deliver(f) \in [Clients -> ClientRecords]
    BY <1>1, PublishType DEF Deliver, TypeOK
  <1>4. client' \in [Clients -> ClientRecords]
    BY <1>3, CloseType DEF Finish
  <1> QED BY <1>1, <1>2, <1>4 DEF Finish, TypeOK

-----------------------------------------------------------------------------
(* What the store's operations do to an entry's state. *)

LEMMA EntryStates ==
  ASSUME NEW e \in EntryRecords
  PROVE  /\ ~Busy(Absent) /\ Absent.state = "not_loaded" /\ ~CanFail(Absent)
         /\ Busy(BeginLoad(e))
         /\ e.state \in Readable => Busy(BeginRefresh(e))
         /\ ~Busy(CompleteQuery(e))
         /\ \A s \in FailureStates : ~Busy(FailQuery(e, s))
         /\ \A p \in PageRecords : CommitPage(e, p).state = e.state
         /\ ~Busy(Queue(e)) /\ CanFail(Queue(e))
         /\ e.state = "not_loaded" => ~CanFail(e) /\ ~Busy(e)
         /\ Busy(e) => CanFail(e)
  <1>1. ~Busy(Absent) /\ Absent.state = "not_loaded" /\ ~CanFail(Absent)
    BY DEF Absent, Busy, CanFail
  <1>2. Busy(BeginLoad(e)) /\ (e.state \in Readable => Busy(BeginRefresh(e)))
    BY DEF BeginLoad, BeginRefresh, Busy, EntryRecords
  <1>4. ~Busy(CompleteQuery(e))
    <2>1. CompleteQuery(e).state \in {"ready", "empty"}
      <3> DEFINE visible == IF e.state = "refreshing" THEN e.staged ELSE e.pages
                 kept == IF e.state = "refreshing" THEN UpsertObservations(e, visible) ELSE e
                 rows == \E p \in visible : p.rows
      <3>1. kept \in EntryRecords BY UpsertType DEF EntryRecords
      <3>2. CompleteQuery(e) = [kept EXCEPT !.pages = visible, !.staged = {}, !.fetched = TRUE,
                                  !.state = IF rows THEN "ready" ELSE "empty"]
        BY Zenon DEF CompleteQuery
      <3> HIDE DEF kept, visible, rows
      <3> QED BY <3>1, <3>2 DEF EntryRecords
    <2> QED BY <2>1 DEF Busy
  <1>5. \A s \in FailureStates : ~Busy(FailQuery(e, s))
    BY DEF FailQuery, Busy, FailureStates, EntryRecords
  <1>6. \A p \in PageRecords : CommitPage(e, p).state = e.state
    <2> SUFFICES ASSUME NEW p \in PageRecords PROVE CommitPage(e, p).state = e.state OBVIOUS
    <2>1. [e EXCEPT !.staged = PutPage(e.staged, p)].state = e.state
      BY DEF EntryRecords
    <2>2. /\ [e EXCEPT !.pages = PutPage(e.pages, p)] \in EntryRecords
          /\ [e EXCEPT !.pages = PutPage(e.pages, p)].state = e.state
      BY DEF EntryRecords, PutPage
    <2>3. {p} \in SUBSET PageRecords OBVIOUS
    <2> QED BY <2>1, <2>2, <2>3, UpsertType DEF CommitPage
  <1>7. ~Busy(Queue(e)) /\ CanFail(Queue(e))
    BY DEF Queue, Busy, CanFail, EntryRecords
  <1>8. (e.state = "not_loaded" => ~CanFail(e) /\ ~Busy(e)) /\ (Busy(e) => CanFail(e))
    BY DEF CanFail, Busy
  <1> QED BY <1>1, <1>2, <1>4, <1>5, <1>6, <1>7, <1>8

LEMMA AbandonState ==
  ASSUME NEW e \in EntryRecords, NEW began \in BOOLEAN
  PROVE  /\ Abandon(e, began).state # "not_loaded" => e.state # "not_loaded"
         /\ Busy(Abandon(e, began)) => Busy(e) /\ ~began
  BY EntryStates DEF Abandon, FailureStates

-----------------------------------------------------------------------------
(* Steps of one kind share their argument. *)

Owning == {"executing", "completing", "failing"}

LEMMA LineageNat == TypeOK => \A k \in Keys : latest[Lineage(k)] \in Nat /\ k.gen \in Nat
  BY LineageType, BoundsAssumption DEF TypeOK, Gens

(* A step that changes only what clients and the registry hold. *)
LEMMA OnlyClients ==
  ASSUME IInv, TypeOK', ClientLink', UNCHANGED <<queries, live, latest, flight, allocated>>
  PROVE  IInv'
  BY DEF IInv, FailingHasKind, LiveIndex, NoOrphanLoad, GenerationFence, Busy

(* A step of one flight that keeps the index: it may create or start an    *)
(* entry only while it is the live flight of that entry's key.             *)
LEMMA OnlyOneFlight ==
  ASSUME IInv, TypeOK', ClientLink', NEW f \in Flights,
         \A g \in Flights \ {f} : flight'[g] = flight[g],
         flight'[f].key = flight[f].key,
         flight'[f].retired = flight[f].retired,
         flight[f].subs # {} => flight'[f].subs # {},
         flight'[f].phase \notin {"none", "done"},
         flight'[f].phase = "failing" => flight'[f].failure \in Kinds,
         UNCHANGED <<live, latest, allocated>>,
         \A k \in Keys : queries'[k].state # "not_loaded" =>
           queries[k].state # "not_loaded" \/ live[k] = f,
         \A k \in Keys : Busy(queries'[k]) =>
           \/ Busy(queries[k]) /\ live[k] # f
           \/ live[k] = f /\ flight'[f].began /\ flight'[f].phase \in Owning
  PROVE  IInv'
  <1>1. FailingHasKind' BY DEF IInv, FailingHasKind
  <1>2. LiveIndex'
    <2> SUFFICES ASSUME NEW k \in Keys, live[k] # 0
                 PROVE  LET g == live[k] IN
                        /\ g <= allocated
                        /\ flight'[g].key = k
                        /\ ~flight'[g].retired
                        /\ flight'[g].subs # {}
                        /\ flight'[g].phase \notin {"none", "done"}
                        /\ latest[Lineage(k)] = k.gen
      BY DEF LiveIndex
    <2>1. live[k] \in Flights BY DEF IInv, TypeOK
    <2> QED BY <2>1 DEF IInv, LiveIndex
  <1>3. NoOrphanLoad'
    <2> SUFFICES ASSUME NEW k \in Keys, Busy(queries'[k])
                 PROVE  /\ live[k] # 0
                        /\ flight'[live[k]].began
                        /\ flight'[live[k]].phase \in Owning
      BY DEF NoOrphanLoad, Owning
    <2>1. CASE Busy(queries[k]) /\ live[k] # f
      <3>1. live[k] # 0 /\ live[k] \in Flights /\ flight[live[k]].began /\ flight[live[k]].phase \in Owning
        BY <2>1 DEF IInv, NoOrphanLoad, TypeOK, Owning
      <3> QED BY <2>1, <3>1
    <2>2. CASE live[k] = f /\ flight'[f].began /\ flight'[f].phase \in Owning
      BY <2>2, BoundsAssumption DEF Flights
    <2> QED BY <2>1, <2>2
  <1>4. GenerationFence'
    <2> SUFFICES ASSUME NEW k \in Keys, queries'[k].state # "not_loaded"
                 PROVE  latest[Lineage(k)] = k.gen
      BY DEF GenerationFence
    <2>1. CASE queries[k].state # "not_loaded" BY <2>1 DEF IInv, GenerationFence
    <2>2. CASE live[k] = f
      <3>1. live[k] # 0 BY <2>2, BoundsAssumption DEF Flights
      <3> QED BY <3>1 DEF IInv, LiveIndex
    <2> QED BY <2>1, <2>2
  <1> QED BY <1>1, <1>2, <1>3, <1>4 DEF IInv

(* The flight a live flight's commit check compares with is itself. *)
LEMMA CanCommitLive ==
  ASSUME IInv, NEW f \in Flights
  PROVE  CanCommit(f) <=> live[flight[f].key] = f
  <1> DEFINE k == flight[f].key
  <1>1. k \in Keys BY DEF IInv, TypeOK, FlightRecords
  <1>2. f # 0 BY BoundsAssumption DEF Flights
  <1>3. latest[Lineage(k)] \in Nat /\ k.gen \in Nat BY <1>1, LineageNat DEF IInv
  <1> QED BY <1>1, <1>2, <1>3 DEF IInv, LiveIndex, CanCommit

(* Only the key of a live flight can point at it. *)
LEMMA LiveKey ==
  ASSUME IInv, NEW k \in Keys, live[k] # 0
  PROVE  live[k] \in Flights /\ flight[live[k]].key = k
  BY DEF IInv, LiveIndex, TypeOK

-----------------------------------------------------------------------------
(* Each action keeps the invariant. *)

LEMMA InvInit == Init => IInv
  <1> SUFFICES ASSUME Init PROVE IInv OBVIOUS
  <1>1. TypeOK BY TypeInit
  <1>2. ClientLink BY DEF Init, ClientLink, Idle
  <1>3. FailingHasKind BY DEF Init, FailingHasKind, Unused
  <1>4. LiveIndex BY DEF Init, LiveIndex
  <1>5. NoOrphanLoad BY DEF Init, NoOrphanLoad, Busy, Absent
  <1>6. GenerationFence BY DEF Init, GenerationFence, Absent
  <1> QED BY <1>1, <1>2, <1>3, <1>4, <1>5, <1>6 DEF IInv

LEMMA InvCheckCache ==
  ASSUME IInv, NEW c \in Clients, NEW k \in Keys, CheckCache(c, k)
  PROVE  IInv'
  <1>1. TypeOK' BY TypeCheckCache DEF IInv
  <1>2. ClientLink'
    <2>1. client'[c].phase # "open"
      BY IdleType DEF CheckCache, IInv, TypeOK, ClientRecords
    <2>2. \A d \in Clients \ {c} : client'[d] = client[d]
      BY DEF CheckCache, IInv, TypeOK
    <2> QED BY <2>1, <2>2 DEF IInv, ClientLink
  <1> QED BY <1>1, <1>2, OnlyClients DEF CheckCache

LEMMA InvAnswer ==
  ASSUME IInv, NEW c \in Clients, AnswerFromCache(c)
  PROVE  IInv'
  <1>1. TypeOK' BY TypeAnswer DEF IInv
  <1>2. ClientLink'
    <2>1. client'[c].phase = "closed"
      BY DEF AnswerFromCache, IInv, TypeOK, ClientRecords
    <2>2. \A d \in Clients \ {c} : client'[d] = client[d]
      BY DEF AnswerFromCache, IInv, TypeOK
    <2> QED BY <2>1, <2>2 DEF IInv, ClientLink
  <1> QED BY <1>1, <1>2, OnlyClients DEF AnswerFromCache

LEMMA InvReject ==
  ASSUME IInv, NEW c \in Clients, NEW k \in Keys, RejectOldGeneration(c, k)
  PROVE  IInv'
  <1>1. TypeOK' BY TypeReject DEF IInv
  <1>2. ClientLink'
    <2>1. client'[c].phase = "closed"
      BY IdleType DEF RejectOldGeneration, IInv, TypeOK, ClientRecords
    <2>2. \A d \in Clients \ {c} : client'[d] = client[d]
      BY DEF RejectOldGeneration, IInv, TypeOK
    <2> QED BY <2>1, <2>2 DEF IInv, ClientLink
  <1> QED BY <1>1, <1>2, OnlyClients DEF RejectOldGeneration

LEMMA InvLeave ==
  ASSUME IInv, NEW c \in Clients, Leave(c)
  PROVE  IInv'
  <1>1. TypeOK' BY TypeLeave DEF IInv
  <1>2. ClientLink'
    BY DEF Leave, IInv, TypeOK, ClientLink, Idle
  <1> QED BY <1>1, <1>2, OnlyClients DEF Leave

LEMMA InvJoin ==
  ASSUME IInv, NEW c \in Clients, NEW k \in Keys, JoinFlight(c, k)
  PROVE  IInv'
  <1> DEFINE f == live[k]
  <1>1. TypeOK' BY TypeJoin DEF IInv
  <1>2. f \in Flights /\ flight[f].key = k /\ flight[f] \in FlightRecords
    BY LiveKey DEF JoinFlight, IInv, TypeOK
  <1>3. ClientLink'
    <2>1. client'[c].flight = f
      BY IdleType DEF JoinFlight, IInv, TypeOK, ClientRecords
    <2>2. \A d \in Clients \ {c} : client'[d] = client[d]
      BY DEF JoinFlight, IInv, TypeOK
    <2> QED BY <1>2, <2>1, <2>2 DEF IInv, ClientLink
  <1>4. flight' = [flight EXCEPT ![f] = [flight[f] EXCEPT !.subs = flight[f].subs \cup {c}]]
    BY DEF JoinFlight
  <1>5. /\ \A g \in Flights \ {f} : flight'[g] = flight[g]
        /\ flight'[f].key = flight[f].key /\ flight'[f].retired = flight[f].retired
        /\ flight'[f].phase = flight[f].phase /\ flight'[f].began = flight[f].began
        /\ flight'[f].failure = flight[f].failure /\ flight'[f].subs # {}
    BY <1>2, <1>4 DEF IInv, TypeOK, FlightRecords
  <1>6. flight[f].phase \notin {"none", "done"} BY <1>2 DEF IInv, LiveIndex, JoinFlight
  <1>7. flight[f].phase = "failing" => flight[f].failure \in Kinds
    BY <1>2 DEF IInv, FailingHasKind
  <1>8. \A j \in Keys : Busy(queries[j]) => live[j] # f \/ (flight[f].began /\ flight[f].phase \in Owning)
    BY DEF IInv, NoOrphanLoad, Owning
  <1>9. UNCHANGED <<queries, live, latest, allocated>> BY DEF JoinFlight
  <1> QED BY <1>1, <1>2, <1>3, <1>5, <1>6, <1>7, <1>8, <1>9, OnlyOneFlight DEF Busy

LEMMA InvCancelQueued ==
  ASSUME IInv, NEW f \in Flights, CancelQueued(f)
  PROVE  IInv'
  <1>1. TypeOK' BY TypeCancelQueued DEF IInv
  <1>2. ClientLink' BY DEF CancelQueued, IInv, ClientLink
  <1>3. /\ \A g \in Flights \ {f} : flight'[g] = flight[g]
        /\ flight'[f].key = flight[f].key /\ flight'[f].retired = flight[f].retired
        /\ flight'[f].phase = "finishing" /\ flight'[f].subs = flight[f].subs
    BY DEF CancelQueued, IInv, TypeOK, FlightRecords
  <1>4. \A j \in Keys : Busy(queries[j]) => live[j] # f
    BY DEF IInv, NoOrphanLoad, CancelQueued
  <1>5. UNCHANGED <<queries, live, latest, allocated>> BY DEF CancelQueued
  <1> QED BY <1>1, <1>2, <1>3, <1>4, <1>5, OnlyOneFlight DEF Busy

LEMMA InvStart ==
  ASSUME IInv, NEW f \in Flights, Start(f)
  PROVE  IInv'
  <1> DEFINE k == flight[f].key
             begin == flight[f].refresh /\ queries[k].state \in Readable
  <1>0. k \in Keys /\ flight[f] \in FlightRecords /\ queries[k] \in EntryRecords
    BY DEF IInv, TypeOK, FlightRecords
  <1>1. TypeOK' BY TypeStart DEF IInv
  <1>2. ClientLink'
    <2>1. \A c \in Clients : client'[c].phase = client[c].phase /\ client'[c].flight = client[c].flight
      <3>1. CASE CanCommit(f)
        <4>1. Update(StateOr(queries', k, "loading"), "none") \in Updates
          BY <1>0, <1>1, StateOrType, UpdateTypes DEF LoadStates, TypeOK
        <4> QED BY <3>1, <4>1, PublishType DEF Start, IInv, TypeOK
      <3>2. CASE ~CanCommit(f) BY <3>2 DEF Start
      <3> QED BY <3>1, <3>2
    <2> QED BY <2>1 DEF IInv, ClientLink
  <1>3. \A j \in Keys : Busy(queries[j]) => live[j] # f
    BY DEF IInv, NoOrphanLoad, Start
  <1>4. UNCHANGED <<live, latest, allocated>> BY DEF Start
  <1>5. CASE CanCommit(f)
    <2>1. flight' = [flight EXCEPT ![f] = [@ EXCEPT !.phase = "executing", !.slot = TRUE, !.began = begin]]
      BY <1>5, Zenon DEF Start
    <2>2. queries' = [queries EXCEPT ![k] = IF begin THEN BeginRefresh(queries[k]) ELSE queries[k]]
      BY <1>5, Zenon DEF Start
    <2>3. live[k] = f BY <1>5, CanCommitLive
    <2>4. begin => flight'[f].began
      <3> HIDE DEF begin
      <3> QED BY <1>0, <2>1 DEF IInv, TypeOK, FlightRecords
    <2>5. /\ \A g \in Flights \ {f} : flight'[g] = flight[g]
          /\ flight'[f].key = flight[f].key /\ flight'[f].retired = flight[f].retired
          /\ flight'[f].phase = "executing" /\ flight'[f].subs = flight[f].subs
      <3> HIDE DEF begin
      <3> QED BY <1>0, <2>1 DEF IInv, TypeOK, FlightRecords
    <2>6. \A j \in Keys \ {k} : queries'[j] = queries[j]
      BY <2>2 DEF IInv, TypeOK
    <2>7. ~Busy(queries[k]) BY <1>0, <1>3, <2>3
    <2>8. ~begin => queries'[k] = queries[k]
      BY <1>0, <2>2 DEF IInv, TypeOK
    <2>9. \A j \in Keys : Busy(queries'[j]) =>
           \/ Busy(queries[j]) /\ live[j] # f
           \/ live[j] = f /\ flight'[f].began /\ flight'[f].phase \in Owning
      BY <1>3, <2>3, <2>4, <2>5, <2>6, <2>7, <2>8 DEF Owning
    <2>10. \A j \in Keys : queries'[j].state # "not_loaded" =>
           queries[j].state # "not_loaded" \/ live[j] = f
      BY <2>3, <2>6
    <2> QED BY <1>1, <1>2, <1>4, <2>5, <2>9, <2>10, OnlyOneFlight
  <1>6. CASE ~CanCommit(f)
    <2>1. /\ \A g \in Flights \ {f} : flight'[g] = flight[g]
          /\ flight'[f].key = flight[f].key /\ flight'[f].retired = flight[f].retired
          /\ flight'[f].phase = "finishing" /\ flight'[f].subs = flight[f].subs
      BY <1>6 DEF Start, IInv, TypeOK, FlightRecords
    <2>2. UNCHANGED queries BY <1>6 DEF Start
    <2> QED BY <1>1, <1>2, <1>3, <1>4, <2>1, <2>2, OnlyOneFlight DEF Busy
  <1> QED BY <1>5, <1>6

LEMMA InvPage ==
  ASSUME IInv, NEW f \in Flights, NEW rows \in BOOLEAN, NEW whole \in BOOLEAN,
         Page(f, rows, whole)
  PROVE  IInv'
  <1> DEFINE k == flight[f].key
             entry == IF flight[f].began THEN queries[k] ELSE BeginLoad(queries[k])
             page == [by |-> f, n |-> flight[f].partial + 1, rows |-> rows]
             refused == \/ flight[f].terminal \/ ~CanCommit(f) \/ ~whole
                        \/ (~flight[f].began /\ Busy(queries[k])) \/ ~Busy(entry)
  <1>0. k \in Keys /\ flight[f] \in FlightRecords /\ queries[k] \in EntryRecords
    BY DEF IInv, TypeOK, FlightRecords
  <1>1. TypeOK' BY TypePage DEF IInv
  <1>2. ClientLink'
    <2>1. \A c \in Clients : client'[c].phase = client[c].phase /\ client'[c].flight = client[c].flight
      <3>1. CASE refused BY <3>1 DEF Page, Reject
      <3>2. CASE ~refused
        <4>1. entry \in EntryRecords BY <1>0, StoreTypes
        <4>2. Update(entry.state, "none") \in Updates BY <4>1, UpdateTypes DEF EntryRecords
        <4>3. client' = Publish(client, flight[f].subs, Update(entry.state, "none"))
          BY <3>2, Zenon DEF Page
        <4> HIDE DEF entry
        <4> QED BY <4>2, <4>3, PublishType DEF IInv, TypeOK
      <3> QED BY <3>1, <3>2
    <2> QED BY <2>1 DEF IInv, ClientLink
  <1>3. flight[f].phase = "executing" /\ UNCHANGED <<live, latest, allocated>>
    BY DEF Page, Reject
  <1>4. CASE refused
    <2>1. flight' = [flight EXCEPT ![f].broken = TRUE] /\ UNCHANGED queries
      BY <1>4 DEF Page, Reject
    <2>2. /\ \A g \in Flights \ {f} : flight'[g] = flight[g]
          /\ flight'[f].key = flight[f].key /\ flight'[f].retired = flight[f].retired
          /\ flight'[f].phase = "executing" /\ flight'[f].subs = flight[f].subs
          /\ flight'[f].began = flight[f].began
      BY <1>0, <1>3, <2>1 DEF IInv, TypeOK, FlightRecords
    <2>3. \A j \in Keys : Busy(queries[j]) => live[j] # f \/ flight[f].began
      BY DEF IInv, NoOrphanLoad
    <2> QED BY <1>1, <1>2, <1>3, <2>1, <2>2, <2>3, OnlyOneFlight DEF Busy, Owning
  <1>5. CASE ~refused
    <2>1. live[k] = f BY <1>5, CanCommitLive
    <2>2. queries' = [queries EXCEPT ![k] = CommitPage(entry, page)] BY <1>5, Zenon DEF Page
    <2>3. /\ \A g \in Flights \ {f} : flight'[g] = flight[g]
          /\ flight'[f].key = flight[f].key /\ flight'[f].retired = flight[f].retired
          /\ flight'[f].phase = "executing" /\ flight'[f].subs = flight[f].subs
          /\ flight'[f].began
      BY <1>0, <1>3, <1>5 DEF Page, IInv, TypeOK, FlightRecords
    <2>4. \A j \in Keys \ {k} : queries'[j] = queries[j] BY <2>2 DEF IInv, TypeOK
    <2>5. \A j \in Keys \ {k} : live[j] # f
      BY <2>1, LiveKey, BoundsAssumption DEF Flights
    <2> QED BY <1>1, <1>2, <1>3, <2>1, <2>3, <2>4, <2>5, OnlyOneFlight DEF Owning
  <1> QED BY <1>4, <1>5

LEMMA InvComplete ==
  ASSUME IInv, NEW f \in Flights, Complete(f)
  PROVE  IInv'
  <1>1. TypeOK' BY TypeComplete DEF IInv
  <1>2. ClientLink' BY DEF Complete, Reject, IInv, ClientLink
  <1>3. /\ \A g \in Flights \ {f} : flight'[g] = flight[g]
        /\ flight'[f].key = flight[f].key /\ flight'[f].retired = flight[f].retired
        /\ flight'[f].phase = "executing" /\ flight'[f].subs = flight[f].subs
        /\ flight'[f].began = flight[f].began
    BY DEF Complete, Reject, IInv, TypeOK, FlightRecords
  <1>4. \A j \in Keys : Busy(queries[j]) => live[j] # f \/ flight[f].began
    BY DEF IInv, NoOrphanLoad
  <1>5. UNCHANGED <<queries, live, latest, allocated>> BY DEF Complete, Reject
  <1> QED BY <1>1, <1>2, <1>3, <1>4, <1>5, OnlyOneFlight DEF Busy, Owning

LEMMA InvReturn ==
  ASSUME IInv, NEW f \in Flights, NEW outcome \in Kinds \cup {"ok"}, Return(f, outcome)
  PROVE  IInv'
  <1> DEFINE failure == IF outcome = "ok" /\ (flight[f].broken \/ ~flight[f].terminal)
                        THEN "retryable" ELSE outcome
             phase == IF failure = "ok" THEN "completing" ELSE "failing"
             kind == IF failure = "ok" THEN "none" ELSE failure
  <1>1. TypeOK' BY TypeReturn DEF IInv
  <1>2. UNCHANGED <<queries, live, latest, allocated, client>> BY Zenon DEF Return
  <1>3. ClientLink' BY <1>2 DEF IInv, ClientLink
  <1>4. /\ flight' = [flight EXCEPT ![f] = [@ EXCEPT !.phase = phase, !.failure = kind,
                                                  !.broken = FALSE, !.terminal = FALSE]]
        /\ flight[f].phase = "executing"
    BY Zenon DEF Return
  <1>5. /\ phase \in {"completing", "failing"}
        /\ phase = "failing" => kind \in Kinds
    BY DEF Kinds
  <1> HIDE DEF phase, kind
  <1>6. /\ \A g \in Flights \ {f} : flight'[g] = flight[g]
        /\ flight'[f].key = flight[f].key /\ flight'[f].retired = flight[f].retired
        /\ flight'[f].phase = phase /\ flight'[f].subs = flight[f].subs
        /\ flight'[f].began = flight[f].began /\ flight'[f].failure = kind
    BY <1>4 DEF IInv, TypeOK, FlightRecords
  <1>7. \A j \in Keys : Busy(queries[j]) => live[j] # f \/ flight[f].began
    BY DEF IInv, NoOrphanLoad
  <1> QED BY <1>1, <1>2, <1>3, <1>5, <1>6, <1>7, OnlyOneFlight DEF Busy, Owning

LEMMA InvCompleteFlight ==
  ASSUME IInv, NEW f \in Flights, CompleteFlight(f)
  PROVE  IInv'
  <1> DEFINE k == flight[f].key
             entry == IF flight[f].began THEN queries[k] ELSE BeginLoad(queries[k])
  <1>0. k \in Keys /\ flight[f] \in FlightRecords /\ queries[k] \in EntryRecords /\ entry \in EntryRecords
    BY StoreTypes DEF IInv, TypeOK, FlightRecords
  <1>1. TypeOK' BY TypeCompleteFlight DEF IInv
  <1>2. UNCHANGED <<live, latest, allocated, client>> /\ flight[f].phase = "completing"
    BY DEF CompleteFlight
  <1>3. ClientLink' BY <1>2 DEF IInv, ClientLink
  <1>4. \A j \in Keys : Busy(queries[j]) => live[j] # f \/ flight[f].began
    BY DEF IInv, NoOrphanLoad
  <1>5. ASSUME NEW kind \in {"cancelled", "retryable"},
               flight' = [flight EXCEPT ![f].phase = "failing", ![f].failure = kind],
               UNCHANGED <<queries, failures>>
        PROVE  IInv'
    <2>1. /\ \A g \in Flights \ {f} : flight'[g] = flight[g]
          /\ flight'[f].key = flight[f].key /\ flight'[f].retired = flight[f].retired
          /\ flight'[f].phase = "failing" /\ flight'[f].subs = flight[f].subs
          /\ flight'[f].began = flight[f].began /\ flight'[f].failure \in Kinds
      BY <1>5 DEF IInv, TypeOK, FlightRecords, Kinds
    <2> QED BY <1>1, <1>2, <1>3, <1>4, <1>5, <2>1, OnlyOneFlight DEF Busy, Owning
  <1>6. ASSUME CanCommit(f),
               queries' = [queries EXCEPT ![k] = CompleteQuery(entry)],
               flight' = [flight EXCEPT ![f].phase = "completed", ![f].began = TRUE]
        PROVE  IInv'
    <2>1. /\ \A g \in Flights \ {f} : flight'[g] = flight[g]
          /\ flight'[f].key = flight[f].key /\ flight'[f].retired = flight[f].retired
          /\ flight'[f].phase = "completed" /\ flight'[f].subs = flight[f].subs
      BY <1>6 DEF IInv, TypeOK, FlightRecords
    <2>2. live[k] = f /\ \A j \in Keys \ {k} : live[j] # f
      BY <1>6, CanCommitLive, LiveKey, BoundsAssumption DEF Flights
    <2>3. ~Busy(queries'[k]) /\ \A j \in Keys \ {k} : queries'[j] = queries[j]
      BY <1>0, <1>6, EntryStates DEF IInv, TypeOK
    <2> QED BY <1>1, <1>2, <1>3, <2>1, <2>2, <2>3, OnlyOneFlight
  <1>7. \/ \E kind \in {"cancelled", "retryable"} :
             /\ flight' = [flight EXCEPT ![f].phase = "failing", ![f].failure = kind]
             /\ UNCHANGED <<queries, failures>>
        \/ /\ CanCommit(f)
           /\ queries' = [queries EXCEPT ![k] = CompleteQuery(entry)]
           /\ flight' = [flight EXCEPT ![f].phase = "completed", ![f].began = TRUE]
    BY DEF CompleteFlight
  <1> QED BY <1>5, <1>6, <1>7

LEMMA InvReadResult ==
  ASSUME IInv, NEW f \in Flights, ReadResult(f)
  PROVE  IInv'
  <1>1. TypeOK' BY TypeReadResult DEF IInv
  <1>2. ClientLink' BY DEF ReadResult, IInv, ClientLink
  <1>3. /\ \A g \in Flights \ {f} : flight'[g] = flight[g]
        /\ flight'[f].key = flight[f].key /\ flight'[f].retired = flight[f].retired
        /\ flight'[f].phase = "finishing" /\ flight'[f].subs = flight[f].subs
    BY DEF ReadResult, IInv, TypeOK, FlightRecords
  <1>4. \A j \in Keys : Busy(queries[j]) => live[j] # f
    BY DEF IInv, NoOrphanLoad, ReadResult
  <1>5. UNCHANGED <<queries, live, latest, allocated>> BY DEF ReadResult
  <1> QED BY <1>1, <1>2, <1>3, <1>4, <1>5, OnlyOneFlight DEF Busy

LEMMA InvFailFlight ==
  ASSUME IInv, NEW f \in Flights, FailFlight(f)
  PROVE  IInv'
  <1> DEFINE k == flight[f].key
             kind == flight[f].failure
             cache == kind = "stable"
             entry == IF flight[f].began \/ ~cache \/ Busy(queries[k]) THEN queries[k] ELSE Queue(queries[k])
  <1>0. k \in Keys /\ flight[f] \in FlightRecords /\ queries[k] \in EntryRecords /\ entry \in EntryRecords
    BY StoreTypes DEF IInv, TypeOK, FlightRecords
  <1>1. flight[f].phase = "failing" /\ UNCHANGED <<live, latest, allocated, client>>
    BY Zenon DEF FailFlight
  <1>2. TypeOK'
    <2>1. kind \in Kinds BY <1>1 DEF IInv, FailingHasKind
    <2> QED BY <2>1, TypeFailFlight DEF IInv
  <1>3. ClientLink' BY <1>1 DEF IInv, ClientLink
  <1>4. /\ \A g \in Flights \ {f} : flight'[g] = flight[g]
        /\ flight'[f].key = flight[f].key /\ flight'[f].retired = flight[f].retired
        /\ flight'[f].phase = "finishing" /\ flight'[f].subs = flight[f].subs
    <2> DEFINE End(qs, began) == [flight[f] EXCEPT !.phase = "finishing", !.began = began,
                     !.failure = "none",
                     !.result = Update(StateOr(qs, k, FailureState(kind)), kind)]
    <2>a. \/ flight' = [flight EXCEPT ![f] = End(queries', FALSE)]
          \/ flight' = [flight EXCEPT ![f] = End(queries', flight[f].began)]
          \/ flight' = [flight EXCEPT ![f] = End(queries, flight[f].began)]
      BY Zenon DEF FailFlight
    <2>1. PICK qs, began : flight' = [flight EXCEPT ![f] = End(qs, began)]
      <3> HIDE DEF End
      <3> QED BY <2>a
    <2> QED BY <1>0, <2>1 DEF IInv, TypeOK, FlightRecords
  <1>5. CASE kind = "context_changed"
    <2>1. queries' = InvalidateContext(queries, k.scope, k.gen) BY <1>5, Zenon DEF FailFlight
    <2>2. \A j \in Keys : queries'[j] = Absent \/ (j # k /\ queries'[j] = queries[j])
      BY <2>1 DEF InvalidateContext, IInv, TypeOK
    <2>3. \A j \in Keys \ {k} : live[j] # f
      BY LiveKey, BoundsAssumption DEF Flights
    <2>4. ~Busy(Absent) /\ Absent.state = "not_loaded" BY DEF Absent, Busy
    <2> QED BY <1>1, <1>2, <1>3, <1>4, <2>2, <2>3, <2>4, OnlyOneFlight
  <1>6. CASE kind # "context_changed" /\ CanCommit(f)
    <2>1. queries' = [queries EXCEPT ![k] = IF (flight[f].began \/ cache) /\ CanFail(entry)
                                            THEN FailQuery(entry, FailureState(kind)) ELSE @]
      BY <1>6, Zenon DEF FailFlight
    <2>2. live[k] = f /\ \A j \in Keys \ {k} : live[j] # f
      BY <1>6, CanCommitLive, LiveKey, BoundsAssumption DEF Flights
    <2>3. Busy(queries[k]) => flight[f].began
      BY <1>0, <2>2 DEF IInv, NoOrphanLoad
    <2>4. ~Busy(queries'[k])
      <3>1. CASE (flight[f].began \/ cache) /\ CanFail(entry)
        <4>1. FailureState(kind) \in FailureStates BY DEF FailureState, FailureStates
        <4> QED BY <1>0, <2>1, <3>1, <4>1, EntryStates DEF IInv, TypeOK
      <3>2. CASE ~((flight[f].began \/ cache) /\ CanFail(entry))
        <4>1. queries'[k] = queries[k] BY <1>0, <2>1, <3>2 DEF IInv, TypeOK
        <4>2. Busy(queries[k]) => entry = queries[k] /\ CanFail(entry) BY <1>0, EntryStates
        <4> HIDE DEF entry, cache
        <4> QED BY <2>3, <3>2, <4>1, <4>2
      <3> QED BY <3>1, <3>2
    <2>5. \A j \in Keys \ {k} : queries'[j] = queries[j] BY <2>1 DEF IInv, TypeOK
    <2> QED BY <1>1, <1>2, <1>3, <1>4, <2>2, <2>4, <2>5, OnlyOneFlight
  <1>7. CASE kind # "context_changed" /\ ~CanCommit(f)
    <2>1. UNCHANGED queries BY <1>7, Zenon DEF FailFlight
    <2>2. \A j \in Keys : live[j] # f
      BY <1>7, CanCommitLive, LiveKey, BoundsAssumption DEF Flights
    <2> QED BY <1>1, <1>2, <1>3, <1>4, <2>1, <2>2, OnlyOneFlight DEF Busy
  <1> QED BY <1>5, <1>6, <1>7

(* Dropping a flight from the index keeps the invariant when the flight's   *)
(* own entry is not left loading.                                           *)
LEMMA OneFlightLeaves ==
  ASSUME IInv, TypeOK', ClientLink', NEW f \in Flights,
         \A g \in Flights \ {f} : flight'[g] = flight[g],
         flight'[f].phase # "failing" \/ flight'[f].failure \in Kinds,
         UNCHANGED <<latest, allocated>>,
         \A k \in Keys : live'[k] = IF live[k] = f THEN 0 ELSE live[k],
         \A k \in Keys : queries'[k].state # "not_loaded" => queries[k].state # "not_loaded",
         \A k \in Keys : Busy(queries'[k]) => Busy(queries[k]) /\ live[k] # f
  PROVE  IInv'
  <1>1. FailingHasKind' BY DEF IInv, FailingHasKind
  <1>2. LiveIndex'
    <2> SUFFICES ASSUME NEW k \in Keys, live'[k] # 0
                 PROVE  LET g == live'[k] IN
                        /\ g <= allocated
                        /\ flight'[g].key = k
                        /\ ~flight'[g].retired
                        /\ flight'[g].subs # {}
                        /\ flight'[g].phase \notin {"none", "done"}
                        /\ latest[Lineage(k)] = k.gen
      BY DEF LiveIndex
    <2>1. live'[k] = live[k] /\ live[k] # f /\ live[k] \in Flights
      BY DEF IInv, TypeOK
    <2> QED BY <2>1 DEF IInv, LiveIndex
  <1>3. NoOrphanLoad'
    <2> SUFFICES ASSUME NEW k \in Keys, Busy(queries'[k])
                 PROVE  /\ live'[k] # 0
                        /\ flight'[live'[k]].began
                        /\ flight'[live'[k]].phase \in Owning
      BY DEF NoOrphanLoad, Owning
    <2>1. /\ live'[k] = live[k] /\ live[k] # f /\ live[k] # 0 /\ live[k] \in Flights
          /\ flight[live[k]].began /\ flight[live[k]].phase \in Owning
      BY DEF IInv, NoOrphanLoad, TypeOK, Owning
    <2> QED BY <2>1
  <1>4. GenerationFence' BY DEF IInv, GenerationFence
  <1> QED BY <1>1, <1>2, <1>3, <1>4 DEF IInv

LEMMA InvFinish ==
  ASSUME IInv, NEW f \in Flights, Finish(f)
  PROVE  IInv'
  <1> DEFINE k == flight[f].key
  <1>0. k \in Keys /\ flight[f] \in FlightRecords /\ flight[f].phase = "finishing"
    BY DEF IInv, TypeOK, FlightRecords, Finish
  <1>1. TypeOK' BY TypeFinish DEF IInv
  <1>2. ClientLink'
    <2>1. /\ Deliver(f) \in [Clients -> ClientRecords]
          /\ \A c \in Clients : Deliver(f)[c].phase = client[c].phase /\ Deliver(f)[c].flight = client[c].flight
      BY <1>0, PublishType DEF Deliver, IInv, TypeOK, FlightRecords
    <2>2. client' = Close(Deliver(f), flight[f].subs) BY DEF Finish
    <2>3. \A c \in Clients : client'[c].phase = "open" =>
            client[c].phase = "open" /\ client'[c].flight = client[c].flight
      BY <2>1, <2>2, CloseType
    <2> QED BY <2>3 DEF IInv, ClientLink
  <1>3. flight' = [flight EXCEPT ![f] = Ended(f)] /\ Ended(f).phase = "done"
    BY UnusedType DEF Finish, Ended, FlightRecords
  <1>4. /\ \A g \in Flights \ {f} : flight'[g] = flight[g]
        /\ flight'[f].phase = "done"
    BY <1>3 DEF IInv, TypeOK
  <1>5. \A j \in Keys : live[j] = f => j = k /\ ~flight[f].retired
    BY LiveKey, BoundsAssumption DEF Flights, IInv, LiveIndex
  <1>6. \A j \in Keys : live'[j] = IF live[j] = f THEN 0 ELSE live[j]
    BY <1>0, <1>5 DEF Finish, IInv, TypeOK
  <1>7. \A j \in Keys : Busy(queries[j]) => live[j] # f
    BY <1>0 DEF IInv, NoOrphanLoad
  <1>8. UNCHANGED <<queries, latest, allocated>> BY DEF Finish
  <1> QED BY <1>1, <1>2, <1>4, <1>6, <1>7, <1>8, OneFlightLeaves DEF Busy

LEMMA InvUnsubscribe ==
  ASSUME IInv, NEW c \in Clients, Unsubscribe(c)
  PROVE  IInv'
  <1> DEFINE f == client[c].flight
             k == flight[f].key
             left == flight[f].subs \ {c}
             last == left = {} /\ ~flight[f].retired
  <1>0. f \in Flights /\ k \in Keys /\ flight[f] \in FlightRecords /\ queries[k] \in EntryRecords
        /\ flight[f].began \in BOOLEAN
    BY DEF IInv, ClientLink, Unsubscribe, TypeOK, FlightRecords
  <1>1. TypeOK' BY TypeUnsubscribe DEF IInv
  <1>2. ClientLink'
    BY DEF Unsubscribe, IInv, TypeOK, ClientLink, Idle
  <1>3. /\ \A g \in Flights \ {f} : flight'[g] = flight[g]
        /\ flight'[f].key = k /\ flight'[f].phase = flight[f].phase
        /\ flight'[f].failure = flight[f].failure /\ flight'[f].began = flight[f].began
        /\ flight'[f].subs = left
        /\ ~last => flight'[f].retired = flight[f].retired
    <2> DEFINE retired == flight[f].retired \/ last
               cancelled == flight[f].cancelled \/ last
    <2>1. flight' = [flight EXCEPT ![f] = [@ EXCEPT !.subs = left, !.retired = retired,
                                                   !.cancelled = cancelled]]
      BY Zenon DEF Unsubscribe
    <2>2. ~last => (retired <=> flight[f].retired) OBVIOUS
    <2>3. retired \in BOOLEAN /\ flight[f].retired \in BOOLEAN BY <1>0 DEF FlightRecords
    <2>4. ~last => retired = flight[f].retired BY <2>2, <2>3
    <2> HIDE DEF left, retired, cancelled, last
    <2> QED BY <1>0, <2>1, <2>4 DEF IInv, TypeOK, FlightRecords
  <1>4. UNCHANGED <<latest, allocated>> BY Zenon DEF Unsubscribe
  <1>5. \A j \in Keys : live[j] = f => j = k
    BY <1>0, LiveKey, BoundsAssumption DEF Flights
  <1>6. flight[f].phase = "failing" => flight[f].failure \in Kinds
    BY <1>0 DEF IInv, FailingHasKind
  <1>7. CASE live[k] = f /\ ~last
    <2>1. UNCHANGED <<queries, live>>
      BY <1>0, <1>7, Zenon DEF Unsubscribe, IInv, TypeOK
    <2>2. flight[f].phase \notin {"none", "done"} /\ ~flight[f].retired
      BY <1>0, <1>7, BoundsAssumption DEF IInv, LiveIndex, Flights
    <2>3. \A j \in Keys : Busy(queries[j]) => live[j] # f \/ (flight[f].began /\ flight[f].phase \in Owning)
      BY DEF IInv, NoOrphanLoad, Owning
    <2> QED BY <1>0, <1>1, <1>2, <1>3, <1>4, <1>6, <1>7, <2>1, <2>2, <2>3, OnlyOneFlight DEF Busy
  <1>8. CASE live[k] # f \/ last
    <2>1. queries' = [queries EXCEPT ![k] = IF last THEN Abandon(@, flight[f].began) ELSE @]
          /\ live' = [live EXCEPT ![k] = IF last /\ @ = f THEN 0 ELSE @]
      BY Zenon DEF Unsubscribe
    <2> HIDE DEF last
    <2>2. \A j \in Keys : live'[j] = IF live[j] = f THEN 0 ELSE live[j]
      BY <1>0, <1>5, <1>8, <2>1 DEF IInv, TypeOK
    <2>3. \A j \in Keys \ {k} : queries'[j] = queries[j] BY <2>1 DEF IInv, TypeOK
    <2>4. queries'[k] = queries[k] \/ (last /\ queries'[k] = Abandon(queries[k], flight[f].began))
      BY <1>0, <2>1 DEF IInv, TypeOK
    <2>5. queries'[k].state # "not_loaded" => queries[k].state # "not_loaded"
      BY <1>0, <2>4, AbandonState
    <2>6. Busy(queries[k]) /\ live[k] = f => flight[f].began
      BY <1>0 DEF IInv, NoOrphanLoad
    <2>7. Busy(queries'[k]) => Busy(queries[k]) /\ live[k] # f
      <3>1. CASE live[k] = f
        <4>1. last /\ queries'[k] = Abandon(queries[k], flight[f].began)
          BY <1>0, <1>8, <2>1, <3>1 DEF IInv, TypeOK
        <4> QED BY <1>0, <2>6, <3>1, <4>1, AbandonState
      <3>2. CASE live[k] # f BY <1>0, <2>4, <3>2, AbandonState
      <3> QED BY <3>1, <3>2
    <2>8. \A j \in Keys : queries'[j].state # "not_loaded" => queries[j].state # "not_loaded"
      BY <2>3, <2>5
    <2>9. \A j \in Keys : Busy(queries'[j]) => Busy(queries[j]) /\ live[j] # f
      BY <1>5, <2>3, <2>7
    <2> QED BY <1>0, <1>1, <1>2, <1>3, <1>4, <1>6, <2>2, <2>8, <2>9, OneFlightLeaves
  <1> QED BY <1>7, <1>8

LEMMA InvNewFlight ==
  ASSUME IInv, NEW c \in Clients, NEW k \in Keys, NEW refresh \in BOOLEAN,
         NewFlight(c, k, refresh)
  PROVE  IInv'
  <1> DEFINE f == allocated + 1
             fence == k.gen > latest[Lineage(k)]
             old == IF fence THEN {live[j] : j \in {i \in Keys : Older(k, i)}} \ {0} ELSE {}
             left == UNION {flight[g].subs : g \in old}
  <1>1. TypeOK' BY TypeNewFlight DEF IInv
  <1>2. /\ live[k] = 0 /\ latest[Lineage(k)] <= k.gen
        /\ allocated < MaxFlights /\ allocated' = f
        /\ latest' = [latest EXCEPT ![Lineage(k)] = k.gen]
        /\ queries' = IF fence THEN InvalidateGeneration(queries, k.scope, k.gen) ELSE queries
        /\ live' = [j \in Keys |-> CASE j = k -> f
                                     [] j # k /\ fence /\ Older(k, j) -> 0
                                     [] OTHER -> live[j]]
        /\ flight' = [g \in Flights |->
             CASE g = f -> [Unused EXCEPT !.phase = "queued", !.key = k, !.subs = {c}, !.refresh = refresh]
               [] g # f /\ g \in old ->
                    [flight[g] EXCEPT !.retired = TRUE, !.subs = {}, !.cancelled = TRUE]
               [] OTHER -> flight[g]]
        /\ client' = [Close(client, left) EXCEPT ![c] =
             [Idle EXCEPT !.phase = "open", !.key = k, !.flight = f, !.update = Update("queued", "none")]]
    BY Zenon DEF NewFlight
  <1>a. live[k] = 0 /\ latest[Lineage(k)] <= k.gen /\ allocated < MaxFlights /\ allocated' = f
    BY Zenon DEF NewFlight
  <1>3. f \in Flights /\ f # 0 /\ allocated \in Nat
    BY <1>a, BoundsAssumption DEF Flights, IInv, TypeOK
  <1>4. LET u == [Unused EXCEPT !.phase = "queued", !.key = k, !.subs = {c}, !.refresh = refresh] IN
        u.phase = "queued" /\ u.key = k /\ u.subs = {c} /\ u.retired = FALSE
    BY UnusedType DEF Unused
  <1>5. flight'[f].phase = "queued" /\ flight'[f].key = k /\ flight'[f].subs = {c} /\ ~flight'[f].retired
    BY <1>2, <1>3, <1>4, Zenon
  <1>6. \A g \in Flights \ {f} : /\ g \notin old => flight'[g] = flight[g]
                                 /\ flight'[g].phase = flight[g].phase
                                 /\ flight'[g].failure = flight[g].failure
    <2>1. \A g \in Flights : LET r == [flight[g] EXCEPT !.retired = TRUE, !.subs = {}, !.cancelled = TRUE] IN
            r.phase = flight[g].phase /\ r.failure = flight[g].failure
      BY DEF IInv, TypeOK, FlightRecords
    <2> HIDE DEF f, old
    <2> QED BY <1>2, <2>1, Zenon
  <1>7. FailingHasKind' BY <1>5, <1>6 DEF IInv, FailingHasKind
  <1>8. ClientLink'
    <2>1. /\ Close(client, left) \in [Clients -> ClientRecords]
          /\ \A d \in Clients : Close(client, left)[d].phase = "open" =>
               client[d].phase = "open" /\ Close(client, left)[d].flight = client[d].flight
      BY CloseType DEF IInv, TypeOK
    <2>2. client'[c].flight = f
      <3>1. [Idle EXCEPT !.phase = "open", !.key = k, !.flight = f, !.update = Update("queued", "none")].flight = f
        BY IdleType DEF ClientRecords
      <3> HIDE DEF f, left
      <3> QED BY <1>2, <2>1, <3>1
    <2>3. \A d \in Clients \ {c} : client'[d] = Close(client, left)[d]
      <3> HIDE DEF f, left
      <3> QED BY <1>2, <2>1
    <2> HIDE DEF f, left
    <2> QED BY <1>3, <2>1, <2>2, <2>3 DEF IInv, ClientLink
  <1>9. latest'[Lineage(k)] = k.gen /\ \A j \in Keys : Lineage(j) # Lineage(k) => latest'[Lineage(j)] = latest[Lineage(j)]
    BY <1>2, LineageType DEF IInv, TypeOK
  <1>10. \A j \in Keys : Lineage(j) = Lineage(k) /\ j # k => j.gen # k.gen
    BY DEF Lineage, Keys
  <1>11. \A j \in Keys : latest[Lineage(j)] \in Nat /\ j.gen \in Nat
    BY LineageNat DEF IInv
  <1>12. ASSUME NEW j \in Keys, j # k, latest[Lineage(j)] = j.gen, ~(fence /\ Older(k, j))
         PROVE  Lineage(j) # Lineage(k)
    BY <1>a, <1>10, <1>11, <1>12 DEF Older
  <1>13. ASSUME NEW j \in Keys, queries'[j].state # "not_loaded"
         PROVE  queries'[j] = queries[j] /\ ~(fence /\ Older(k, j))
    <2>1. fence => queries'[j] = IF j.scope = k.scope /\ j.gen # k.gen THEN Absent ELSE queries[j]
      BY <1>2 DEF InvalidateGeneration, IInv, TypeOK
    <2>2. Absent.state = "not_loaded" BY DEF Absent
    <2>3. Older(k, j) => j.scope = k.scope /\ j.gen # k.gen
      <3>1. Older(k, j) => j.scope = k.scope BY DEF Older, Lineage
      <3>2. Older(k, j) => j.gen < k.gen BY DEF Older
      <3> QED BY <3>1, <3>2, <1>11
    <2> HIDE DEF fence
    <2> QED BY <1>2, <1>13, <2>1, <2>2, <2>3
  <1>14. ASSUME NEW j \in Keys, j # k, live[j] # 0, ~(fence /\ Older(k, j))
         PROVE  live'[j] = live[j] /\ live[j] \in Flights \ {f} /\ flight'[live[j]] = flight[live[j]]
    <2>1. live'[j] = live[j] BY <1>2, <1>14, Zenon
    <2>2. live[j] \in Flights /\ flight[live[j]].key = j /\ live[j] <= allocated
      BY <1>14, LiveKey DEF IInv, LiveIndex
    <2>3. live[j] # f BY <1>3, <2>2 DEF Flights
    <2>4. live[j] \notin old
      <3> SUFFICES ASSUME fence, NEW i \in Keys, Older(k, i), live[i] = live[j] PROVE FALSE
        OBVIOUS
      <3>1. i = j BY <1>14, <2>2, LiveKey
      <3> QED BY <1>14, <3>1
    <2> HIDE DEF f, old
    <2> QED BY <1>6, <2>1, <2>2, <2>3, <2>4
  <1>15. live'[k] = f BY <1>2, Zenon
  <1>16. \A j \in Keys \ {k} : fence /\ Older(k, j) => live'[j] = 0 BY <1>2, Zenon
  <1>17. \A j \in Keys \ {k} : ~(fence /\ Older(k, j)) => live'[j] = live[j] BY <1>2, Zenon
  <1>18. LiveIndex'
    <2> SUFFICES ASSUME NEW j \in Keys, live'[j] # 0
                 PROVE  LET g == live'[j] IN
                        /\ g <= allocated'
                        /\ flight'[g].key = j
                        /\ ~flight'[g].retired
                        /\ flight'[g].subs # {}
                        /\ flight'[g].phase \notin {"none", "done"}
                        /\ latest'[Lineage(j)] = j.gen
      BY DEF LiveIndex
    <2>1. CASE j = k
      BY <1>a, <1>3, <1>5, <1>9, <1>15, <2>1
    <2>2. CASE j # k
      <3>1. ~(fence /\ Older(k, j)) BY <1>16, <2>2
      <3>2. live[j] # 0 BY <1>17, <2>2, <3>1
      <3>3. live'[j] = live[j] /\ live[j] \in Flights /\ flight'[live[j]] = flight[live[j]]
        BY <1>14, <2>2, <3>1, <3>2
      <3>4. /\ live[j] <= allocated /\ flight[live[j]].key = j /\ ~flight[live[j]].retired
            /\ flight[live[j]].subs # {} /\ flight[live[j]].phase \notin {"none", "done"}
            /\ latest[Lineage(j)] = j.gen
        BY <3>2 DEF IInv, LiveIndex
      <3>5. latest'[Lineage(j)] = j.gen BY <1>9, <1>12, <2>2, <3>1, <3>4
      <3>6. live[j] <= allocated' BY <1>a, <1>3, <3>3, <3>4 DEF Flights
      <3> QED BY <3>3, <3>4, <3>5, <3>6
    <2> QED BY <2>1, <2>2
  <1>19. NoOrphanLoad'
    <2> SUFFICES ASSUME NEW j \in Keys, Busy(queries'[j])
                 PROVE  /\ live'[j] # 0
                        /\ flight'[live'[j]].began
                        /\ flight'[live'[j]].phase \in Owning
      BY DEF NoOrphanLoad, Owning
    <2>1. queries'[j].state # "not_loaded" BY DEF Busy
    <2>2. queries'[j] = queries[j] /\ ~(fence /\ Older(k, j)) BY <1>13, <2>1
    <2>3. /\ live[j] # 0 /\ flight[live[j]].began /\ flight[live[j]].phase \in Owning
      BY <2>2 DEF IInv, NoOrphanLoad, Owning
    <2>4. j # k BY <1>2, <2>3
    <2> QED BY <1>14, <2>2, <2>3, <2>4
  <1>20. GenerationFence'
    <2> SUFFICES ASSUME NEW j \in Keys, queries'[j].state # "not_loaded"
                 PROVE  latest'[Lineage(j)] = j.gen
      BY DEF GenerationFence
    <2>1. queries'[j] = queries[j] /\ ~(fence /\ Older(k, j)) BY <1>13
    <2>2. latest[Lineage(j)] = j.gen BY <2>1 DEF IInv, GenerationFence
    <2> QED BY <1>9, <1>12, <2>1, <2>2
  <1> QED BY <1>1, <1>7, <1>8, <1>18, <1>19, <1>20 DEF IInv

LEMMA InvSubscribeLocked ==
  ASSUME IInv, NEW c \in Clients, NEW k \in Keys, NEW refresh \in BOOLEAN,
         SubscribeLocked(c, k, refresh)
  PROVE  IInv'
  BY InvJoin, InvReject, InvNewFlight DEF SubscribeLocked

LEMMA InvNext == IInv /\ [Next]_vars => IInv'
  <1> SUFFICES ASSUME IInv, [Next]_vars PROVE IInv' OBVIOUS
  <1>1. ASSUME NEW f \in Flights, RunStep(f) PROVE IInv'
    BY <1>1, InvCancelQueued, InvStart, InvCompleteFlight, InvReadResult, InvFailFlight, InvFinish
       DEF RunStep
  <1>2. ASSUME NEW f \in Flights, ExecutorStep(f) PROVE IInv'
    BY <1>2, InvPage, InvComplete, InvReturn DEF ExecutorStep
  <1>3. ASSUME NEW c \in Clients, ClientStep(c) PROVE IInv'
    <2>1. ASSUME NEW k \in Keys, CheckCache(c, k) PROVE IInv' BY <2>1, InvCheckCache
    <2>2. ASSUME NEW k \in Keys, Refresh(c, k) PROVE IInv'
      BY <2>2, InvSubscribeLocked DEF Refresh
    <2>3. CASE AnswerFromCache(c) BY <2>3, InvAnswer
    <2>4. CASE Subscribe(c)
      <3>1. client[c].key \in Keys BY DEF IInv, TypeOK, ClientRecords
      <3> QED BY <2>4, <3>1, InvSubscribeLocked DEF Subscribe
    <2>5. CASE Unsubscribe(c) BY <2>5, InvUnsubscribe
    <2>6. CASE Leave(c) BY <2>6, InvLeave
    <2> QED BY <1>3, <2>1, <2>2, <2>3, <2>4, <2>5, <2>6 DEF ClientStep
  <1>4. CASE UNCHANGED vars
    BY <1>4 DEF vars, IInv, TypeOK, ClientLink, FailingHasKind, LiveIndex, NoOrphanLoad,
       GenerationFence, Busy
  <1> QED BY <1>1, <1>2, <1>3, <1>4 DEF Next

-----------------------------------------------------------------------------
(* The invariant, and what it says of every behaviour. *)

(* IInv holds always: each of its parts needs the others. *)
LEMMA Invariant == Spec => []IInv
  <1>1. Init => IInv BY InvInit
  <1>2. IInv /\ [Next]_vars => IInv' BY InvNext
  <1> QED BY <1>1, <1>2, PTL DEF Spec

(* The coordinator's state has the types its declarations give it. *)
THEOREM TypeCorrect == Spec => []TypeOK
  <1>1. IInv => TypeOK BY DEF IInv
  <1> QED BY <1>1, Invariant, PTL

(* For any number of subscribers, flights, keys and generations, an entry   *)
(* that says loading or refreshing is owned by a live flight that began it  *)
(* and has yet to complete or fail it (query.go, run and unsubscribe).      *)
THEOREM LoadsAreOwned == Spec => []NoOrphanLoad
  <1>1. IInv => NoOrphanLoad BY DEF IInv
  <1> QED BY <1>1, Invariant, PTL

(* Late results of an older credential generation never enter the cache of  *)
(* a profile, region and query (query.go, canCommitLocked).                 *)
THEOREM LateGenerationsFenced == Spec => []GenerationFence
  <1>1. IInv => GenerationFence BY DEF IInv
  <1> QED BY <1>1, Invariant, PTL

(* Every flight in the flights map has subscribers, is not retired, is      *)
(* under its own key and at its lineage's newest generation (query.go,      *)
(* retireLocked and finish).                                                *)
THEOREM LiveFlightsIndexed == Spec => []LiveIndex
  <1>1. IInv => LiveIndex BY DEF IInv
  <1> QED BY <1>1, Invariant, PTL

-----------------------------------------------------------------------------
(* Subscribers and flights know each other. *)

(* An open subscription is in its flight's list and its flight in the index; *)
(* who is in a flight's list waits on that flight.                           *)
SubsLinked ==
  /\ \A c \in Clients : client[c].phase = "open" =>
       /\ c \in flight[client[c].flight].subs
       /\ live[client[c].key] = client[c].flight
  /\ \A f \in Flights : \A c \in flight[f].subs :
       client[c].phase = "open" /\ client[c].flight = f

(* What no step of a flight changes before its end. *)
LinksUnchanged ==
  /\ \A c \in Clients : /\ client'[c].phase = client[c].phase
                        /\ client'[c].flight = client[c].flight
                        /\ client'[c].key = client[c].key
  /\ \A g \in Flights : flight'[g].subs = flight[g].subs /\ flight'[g].key = flight[g].key
  /\ UNCHANGED <<live, latest>>

LEMMA PublishKeeps ==
  ASSUME NEW cl \in [Clients -> ClientRecords], NEW subs, NEW u \in Updates, NEW c \in Clients
  PROVE  LET d == Publish(cl, subs, u)[c] IN
         /\ d.phase = cl[c].phase /\ d.flight = cl[c].flight /\ d.key = cl[c].key
         /\ d.update = IF c \in subs THEN u ELSE cl[c].update
  <1>1. LET d == [cl[c] EXCEPT !.update = u] IN
        d.phase = cl[c].phase /\ d.flight = cl[c].flight /\ d.key = cl[c].key /\ d.update = u
    BY DEF ClientRecords
  <1> QED BY <1>1 DEF Publish

LEMMA CloseKeeps ==
  ASSUME NEW cl \in [Clients -> ClientRecords], NEW subs, NEW c \in Clients
  PROVE  LET d == Close(cl, subs)[c] IN
         /\ d.key = cl[c].key /\ d.update = cl[c].update
         /\ c \in subs => d.phase = "closed" /\ d.flight = 0
         /\ c \notin subs => d = cl[c]
  <1>1. LET d == [cl[c] EXCEPT !.phase = "closed", !.flight = 0] IN
        d.phase = "closed" /\ d.flight = 0 /\ d.key = cl[c].key /\ d.update = cl[c].update
    BY DEF ClientRecords
  <1> QED BY <1>1 DEF Close

(* A step of one flight: the others stay as they are. *)
LEMMA LinksOfOneFlight ==
  ASSUME TypeOK, NEW f \in Flights, NEW r, flight' = [flight EXCEPT ![f] = r],
         r.subs = flight[f].subs, r.key = flight[f].key,
         \A c \in Clients : /\ client'[c].phase = client[c].phase
                            /\ client'[c].flight = client[c].flight
                            /\ client'[c].key = client[c].key,
         UNCHANGED <<live, latest>>
  PROVE  LinksUnchanged
  BY DEF LinksUnchanged, TypeOK

LEMMA StartLinks ==
  ASSUME IInv, NEW f \in Flights, Start(f)
  PROVE  LinksUnchanged
  <1> DEFINE k == flight[f].key
             begin == flight[f].refresh /\ queries[k].state \in Readable
  <1>0. flight[f] \in FlightRecords /\ k \in Keys /\ begin \in BOOLEAN
    BY DEF IInv, TypeOK, FlightRecords
  <1>1. UNCHANGED <<live, latest>> BY Zenon DEF Start
  <1>2. CASE CanCommit(f)
    <2> DEFINE u == Update(StateOr(queries', k, "loading"), "none")
               r == [flight[f] EXCEPT !.phase = "executing", !.slot = TRUE, !.began = begin]
    <2>1. u \in Updates
      <3>1. TypeOK' BY TypeStart DEF IInv
      <3> QED BY <1>0, <3>1, StateOrType, UpdateTypes DEF TypeOK, LoadStates
    <2>2. client' = Publish(client, flight[f].subs, u) BY <1>2, Zenon DEF Start
    <2>3. flight' = [flight EXCEPT ![f] = r] BY <1>2, Zenon DEF Start
    <2>4. r.subs = flight[f].subs /\ r.key = flight[f].key
      <3> HIDE DEF begin
      <3> QED BY <1>0 DEF FlightRecords
    <2> HIDE DEF u, r
    <2>5. \A c \in Clients : /\ client'[c].phase = client[c].phase
                             /\ client'[c].flight = client[c].flight
                             /\ client'[c].key = client[c].key
      BY <2>1, <2>2, PublishKeeps DEF IInv, TypeOK
    <2> QED BY <1>1, <2>3, <2>4, <2>5, LinksOfOneFlight DEF IInv
  <1>3. CASE ~CanCommit(f)
    <2> DEFINE r == [flight[f] EXCEPT !.phase = "finishing", !.slot = TRUE,
                                      !.result = Update("cancelled", "none")]
    <2>1. flight' = [flight EXCEPT ![f] = r] /\ client' = client BY <1>3, Zenon DEF Start
    <2>2. r.subs = flight[f].subs /\ r.key = flight[f].key BY <1>0 DEF FlightRecords
    <2> HIDE DEF r
    <2> QED BY <1>1, <2>1, <2>2, LinksOfOneFlight DEF IInv
  <1> QED BY <1>2, <1>3

LEMMA PageLinks ==
  ASSUME IInv, NEW f \in Flights, NEW rows \in BOOLEAN, NEW whole \in BOOLEAN,
         Page(f, rows, whole)
  PROVE  LinksUnchanged
  <1> DEFINE k == flight[f].key
             entry == IF flight[f].began THEN queries[k] ELSE BeginLoad(queries[k])
             refused == \/ flight[f].terminal \/ ~CanCommit(f) \/ ~whole
                        \/ (~flight[f].began /\ Busy(queries[k])) \/ ~Busy(entry)
             r == [flight[f] EXCEPT !.began = TRUE, !.partial = flight[f].partial + 1]
             b == [flight[f] EXCEPT !.broken = TRUE]
  <1>0. flight[f] \in FlightRecords /\ entry \in EntryRecords
    BY StoreTypes DEF IInv, TypeOK, FlightRecords
  <1>1. /\ r.subs = flight[f].subs /\ r.key = flight[f].key
        /\ b.subs = flight[f].subs /\ b.key = flight[f].key
    BY <1>0 DEF FlightRecords
  <1>2. UNCHANGED <<live, latest>> BY DEF Page, Reject
  <1>3. CASE refused
    <2>1. flight' = [flight EXCEPT ![f] = b] /\ client' = client BY <1>3, Zenon DEF Page, Reject
    <2> HIDE DEF b
    <2> QED BY <1>1, <1>2, <2>1, LinksOfOneFlight DEF IInv
  <1>4. CASE ~refused
    <2> DEFINE u == Update(entry.state, "none")
    <2>1. u \in Updates BY <1>0, UpdateTypes DEF EntryRecords
    <2>2. flight' = [flight EXCEPT ![f] = r] BY <1>4, Zenon DEF Page
    <2>3. client' = Publish(client, flight[f].subs, u) BY <1>4, Zenon DEF Page
    <2> HIDE DEF u, r
    <2>4. \A c \in Clients : /\ client'[c].phase = client[c].phase
                             /\ client'[c].flight = client[c].flight
                             /\ client'[c].key = client[c].key
      BY <2>1, <2>3, PublishKeeps DEF IInv, TypeOK
    <2> QED BY <1>1, <1>2, <2>2, <2>4, LinksOfOneFlight DEF IInv
  <1> QED BY <1>3, <1>4

LEMMA FailLinks ==
  ASSUME IInv, NEW f \in Flights, FailFlight(f)
  PROVE  LinksUnchanged
  <1> DEFINE k == flight[f].key
             kind == flight[f].failure
             End(qs, began) == [flight[f] EXCEPT !.phase = "finishing", !.began = began,
                     !.failure = "none",
                     !.result = Update(StateOr(qs, k, FailureState(kind)), kind)]
  <1>1. \/ flight' = [flight EXCEPT ![f] = End(queries', FALSE)]
        \/ flight' = [flight EXCEPT ![f] = End(queries', flight[f].began)]
        \/ flight' = [flight EXCEPT ![f] = End(queries, flight[f].began)]
    BY Zenon DEF FailFlight
  <1>2. UNCHANGED <<live, latest, client>> BY Zenon DEF FailFlight
  <1>3. \A qs, began : End(qs, began).subs = flight[f].subs /\ End(qs, began).key = flight[f].key
    BY DEF IInv, TypeOK, FlightRecords
  <1> HIDE DEF End
  <1> QED BY <1>1, <1>2, <1>3, LinksOfOneFlight DEF IInv

(* Every step of a flight but the last leaves the links as they are. *)
LEMMA FlightLinks ==
  ASSUME IInv, NEW f \in Flights, RunStep(f) \/ ExecutorStep(f), ~Finish(f)
  PROVE  LinksUnchanged
  <1>0. flight[f] \in FlightRecords BY DEF IInv, TypeOK
  <1>1. ASSUME NEW phase, NEW field, NEW result, NEW failure,
               \/ flight' = [flight EXCEPT ![f].phase = phase, ![f].result = result]
               \/ flight' = [flight EXCEPT ![f].phase = phase, ![f].began = field]
               \/ flight' = [flight EXCEPT ![f].phase = phase, ![f].failure = failure]
               \/ flight' = [flight EXCEPT ![f].broken = field]
               \/ flight' = [flight EXCEPT ![f].terminal = field]
               \/ flight' = [flight EXCEPT ![f].phase = phase, ![f].failure = failure,
                                           ![f].broken = FALSE, ![f].terminal = FALSE],
               UNCHANGED <<live, latest, client>>
        PROVE  LinksUnchanged
    BY <1>0, <1>1 DEF LinksUnchanged, IInv, TypeOK, FlightRecords
  <1>2. CASE CancelQueued(f) BY <1>1, <1>2 DEF CancelQueued
  <1>3. CASE Start(f) BY <1>3, StartLinks
  <1>4. CASE CompleteFlight(f)
    <2>1. \/ \E kind : flight' = [flight EXCEPT ![f].phase = "failing", ![f].failure = kind]
          \/ flight' = [flight EXCEPT ![f].phase = "completed", ![f].began = TRUE]
      BY <1>4 DEF CompleteFlight
    <2>2. UNCHANGED <<live, latest, client>> BY <1>4 DEF CompleteFlight
    <2> QED BY <1>1, <2>1, <2>2
  <1>5. CASE ReadResult(f) BY <1>1, <1>5 DEF ReadResult
  <1>6. CASE FailFlight(f) BY <1>6, FailLinks
  <1>7. CASE \E rows, whole \in BOOLEAN : Page(f, rows, whole) BY <1>7, PageLinks
  <1>8. CASE Complete(f) BY <1>1, <1>8 DEF Complete, Reject
  <1>9. ASSUME NEW outcome \in Kinds \cup {"ok"}, Return(f, outcome) PROVE LinksUnchanged
    <2>1. /\ \E phase, failure :
               flight' = [flight EXCEPT ![f].phase = phase, ![f].failure = failure,
                                        ![f].broken = FALSE, ![f].terminal = FALSE]
          /\ UNCHANGED <<live, latest, client>>
      BY <1>9, Zenon DEF Return
    <2> QED BY <1>1, <2>1
  <1> QED BY <1>2, <1>3, <1>4, <1>5, <1>6, <1>7, <1>8, <1>9 DEF RunStep, ExecutorStep

LEMMA LinksKept ==
  ASSUME IInv, SubsLinked, LinksUnchanged
  PROVE  SubsLinked'
  <1>1. ASSUME NEW c \in Clients, client'[c].phase = "open"
        PROVE  /\ c \in flight'[client'[c].flight].subs
               /\ live'[client'[c].key] = client'[c].flight
    <2>1. /\ client[c].phase = "open" /\ c \in flight[client[c].flight].subs
          /\ live[client[c].key] = client[c].flight
      BY <1>1 DEF LinksUnchanged, SubsLinked
    <2>2. client[c].flight \in Flights BY <2>1 DEF IInv, ClientLink
    <2> QED BY <2>1, <2>2 DEF LinksUnchanged
  <1>2. ASSUME NEW f \in Flights, NEW c \in flight'[f].subs
        PROVE  client'[c].phase = "open" /\ client'[c].flight = f
    <2>1. c \in flight[f].subs /\ c \in Clients
      BY <1>2 DEF LinksUnchanged, IInv, TypeOK, FlightRecords
    <2> QED BY <2>1 DEF LinksUnchanged, SubsLinked
  <1> QED BY <1>1, <1>2 DEF SubsLinked

(* A step of one client that was not, and is not then, waiting. *)
LEMMA LinksAside ==
  ASSUME IInv, SubsLinked, NEW c \in Clients, client[c].phase # "open",
         client'[c].phase # "open", \A d \in Clients \ {c} : client'[d] = client[d],
         UNCHANGED <<flight, live>>
  PROVE  SubsLinked'
  <1>1. \A f \in Flights : c \notin flight[f].subs BY DEF SubsLinked
  <1>2. \A f \in Flights : flight[f].subs \subseteq Clients BY DEF IInv, TypeOK, FlightRecords
  <1> QED BY <1>1, <1>2 DEF SubsLinked

(* Who waits on a flight waits for its key. *)
LEMMA SubscriberKey ==
  ASSUME IInv, SubsLinked, NEW f \in Flights, NEW c \in flight[f].subs
  PROVE  /\ c \in Clients /\ client[c].phase = "open" /\ client[c].flight = f
         /\ client[c].key = flight[f].key /\ live[flight[f].key] = f
         /\ ~flight[f].retired /\ latest[Lineage(flight[f].key)] = flight[f].key.gen
  <1>1. /\ c \in Clients /\ client[c].phase = "open" /\ client[c].flight = f
        /\ live[client[c].key] = f
    BY DEF SubsLinked, IInv, TypeOK, FlightRecords
  <1>2. client[c].key \in Keys /\ f # 0
    BY <1>1, BoundsAssumption DEF IInv, TypeOK, ClientRecords, Flights
  <1> QED BY <1>1, <1>2 DEF IInv, LiveIndex

LEMMA JoinLinks ==
  ASSUME IInv, SubsLinked, NEW c \in Clients, NEW k \in Keys, client[c].phase # "open",
         JoinFlight(c, k)
  PROVE  SubsLinked'
  <1> DEFINE f == live[k]
             r == [flight[f] EXCEPT !.subs = flight[f].subs \cup {c}]
             d == [Idle EXCEPT !.phase = "open", !.key = k, !.flight = f]
  <1>1. f \in Flights /\ flight[f].key = k /\ flight[f] \in FlightRecords
    BY LiveKey DEF JoinFlight, IInv, TypeOK
  <1>2. /\ flight' = [flight EXCEPT ![f] = r] /\ client' = [client EXCEPT ![c] = d]
        /\ UNCHANGED live
    BY DEF JoinFlight
  <1>3. r.subs = flight[f].subs \cup {c} /\ d.phase = "open" /\ d.key = k /\ d.flight = f
    BY <1>1, IdleType DEF FlightRecords, ClientRecords
  <1> HIDE DEF r, d
  <1>4. ASSUME NEW e \in Clients, client'[e].phase = "open"
        PROVE  e \in flight'[client'[e].flight].subs /\ live'[client'[e].key] = client'[e].flight
    <2>1. CASE e = c BY <1>1, <1>2, <1>3, <2>1 DEF IInv, TypeOK
    <2>2. CASE e # c
      <3>1. client'[e] = client[e] BY <1>2, <2>2 DEF IInv, TypeOK
      <3>2. client[e].flight \in Flights BY <1>4, <3>1 DEF IInv, ClientLink
      <3>3. flight[client[e].flight].subs \subseteq flight'[client[e].flight].subs
        BY <1>2, <1>3, <3>2 DEF IInv, TypeOK
      <3> QED BY <1>2, <1>4, <3>1, <3>3 DEF SubsLinked
    <2> QED BY <2>1, <2>2
  <1>5. ASSUME NEW g \in Flights, NEW e \in flight'[g].subs
        PROVE  client'[e].phase = "open" /\ client'[e].flight = g
    <2>1. CASE e = c
      <3>1. c \notin flight[g].subs BY DEF SubsLinked
      <3>2. g = f BY <1>2, <1>5, <2>1, <3>1 DEF IInv, TypeOK
      <3> QED BY <1>2, <1>3, <2>1, <3>2 DEF IInv, TypeOK
    <2>2. CASE e # c
      <3>1. e \in flight[g].subs BY <1>2, <1>3, <1>5, <2>2 DEF IInv, TypeOK
      <3>2. client'[e] = client[e] BY <1>2, <2>2, <3>1, SubscriberKey DEF IInv, TypeOK
      <3> QED BY <3>1, <3>2 DEF SubsLinked
    <2> QED BY <2>1, <2>2
  <1> QED BY <1>4, <1>5 DEF SubsLinked

LEMMA UnsubscribeLinks ==
  ASSUME IInv, SubsLinked, NEW c \in Clients, Unsubscribe(c)
  PROVE  SubsLinked'
  <1> DEFINE f == client[c].flight
             k == flight[f].key
             left == flight[f].subs \ {c}
             last == left = {} /\ ~flight[f].retired
  <1>0. f \in Flights /\ k \in Keys /\ flight[f] \in FlightRecords /\ client[c].phase = "open"
    BY DEF IInv, ClientLink, Unsubscribe, TypeOK, FlightRecords
  <1>1. /\ client' = [client EXCEPT ![c] = Idle]
        /\ flight' = [flight EXCEPT ![f].subs = left, ![f].retired = @ \/ last,
                                    ![f].cancelled = @ \/ last]
        /\ live' = [live EXCEPT ![k] = IF last /\ @ = f THEN 0 ELSE @]
    BY Zenon DEF Unsubscribe
  <1>2. \A g \in Flights : flight'[g].subs = flight[g].subs \ {c}
    <2>1. flight'[f].subs = left
      <3> HIDE DEF left, last
      <3> QED BY <1>0, <1>1 DEF IInv, TypeOK, FlightRecords
    <2>2. \A g \in Flights \ {f} : flight'[g] = flight[g] BY <1>1 DEF IInv, TypeOK
    <2>3. \A g \in Flights \ {f} : c \notin flight[g].subs BY DEF SubsLinked
    <2> QED BY <2>1, <2>2, <2>3
  <1>3. client'[c].phase # "open" /\ \A d \in Clients \ {c} : client'[d] = client[d]
    BY <1>1 DEF IInv, TypeOK, Idle
  <1>4. ASSUME NEW d \in Clients, client'[d].phase = "open"
        PROVE  d \in flight'[client'[d].flight].subs /\ live'[client'[d].key] = client'[d].flight
    <2>1. d # c /\ client'[d] = client[d] BY <1>3, <1>4
    <2>2. /\ client[d].flight \in Flights /\ d \in flight[client[d].flight].subs
          /\ live[client[d].key] = client[d].flight /\ client[d].key \in Keys
      BY <1>4, <2>1 DEF IInv, ClientLink, SubsLinked, TypeOK, ClientRecords
    <2>3. live'[client[d].key] = live[client[d].key]
      <3>1. CASE client[d].key = k /\ last /\ live[k] = f
        BY <2>1, <2>2, <3>1
      <3>2. CASE ~(client[d].key = k /\ last /\ live[k] = f)
        <4> HIDE DEF last
        <4> QED BY <1>0, <1>1, <2>2, <3>2 DEF IInv, TypeOK
      <3> QED BY <3>1, <3>2
    <2> QED BY <1>2, <2>1, <2>2, <2>3
  <1>5. ASSUME NEW g \in Flights, NEW d \in flight'[g].subs
        PROVE  client'[d].phase = "open" /\ client'[d].flight = g
    <2>1. d \in flight[g].subs /\ d # c BY <1>2
    <2>2. client'[d] = client[d] BY <1>3, <2>1, SubscriberKey
    <2> QED BY <2>1, <2>2 DEF SubsLinked
  <1> QED BY <1>4, <1>5 DEF SubsLinked

LEMMA FinishLinks ==
  ASSUME IInv, SubsLinked, NEW f \in Flights, Finish(f)
  PROVE  SubsLinked'
  <1> DEFINE k == flight[f].key
  <1>0. k \in Keys /\ flight[f] \in FlightRecords /\ flight[f].result \in Updates
        /\ flight[f].subs \subseteq Clients
    BY DEF IInv, TypeOK, FlightRecords
  <1>1. /\ flight' = [flight EXCEPT ![f] = Ended(f)]
        /\ live' = [live EXCEPT ![k] = IF ~flight[f].retired /\ @ = f THEN 0 ELSE @]
        /\ client' = Close(Deliver(f), flight[f].subs)
    BY Zenon DEF Finish
  <1>2. Ended(f).subs = {} BY UnusedType DEF Ended, Unused
  <1>3. /\ Deliver(f) \in [Clients -> ClientRecords]
        /\ \A c \in Clients : /\ Deliver(f)[c].phase = client[c].phase
                              /\ Deliver(f)[c].flight = client[c].flight
                              /\ Deliver(f)[c].key = client[c].key
    BY <1>0, PublishType, PublishKeeps DEF Deliver, IInv, TypeOK
  <1>4. \A c \in Clients :
          /\ c \in flight[f].subs => client'[c].phase = "closed"
          /\ c \notin flight[f].subs => /\ client'[c].phase = client[c].phase
                                        /\ client'[c].flight = client[c].flight
                                        /\ client'[c].key = client[c].key
    BY <1>1, <1>3, CloseKeeps
  <1>5. \A g \in Flights \ {f} : flight'[g] = flight[g] BY <1>1 DEF IInv, TypeOK
  <1>6. flight'[f].subs = {} BY <1>1, <1>2 DEF IInv, TypeOK
  <1>7. ASSUME NEW c \in Clients, client'[c].phase = "open"
        PROVE  c \in flight'[client'[c].flight].subs /\ live'[client'[c].key] = client'[c].flight
    <2>1. /\ c \notin flight[f].subs /\ client[c].phase = "open"
          /\ client'[c].flight = client[c].flight /\ client'[c].key = client[c].key
      BY <1>4, <1>7
    <2>2. /\ c \in flight[client[c].flight].subs /\ client[c].flight \in Flights \ {f}
          /\ live[client[c].key] = client[c].flight /\ client[c].key \in Keys
      BY <2>1 DEF SubsLinked, IInv, ClientLink, TypeOK, ClientRecords
    <2>3. live'[client[c].key] = live[client[c].key]
      BY <1>0, <1>1, <2>2 DEF IInv, TypeOK
    <2> QED BY <1>5, <2>1, <2>2, <2>3
  <1>8. ASSUME NEW g \in Flights, NEW c \in flight'[g].subs
        PROVE  client'[c].phase = "open" /\ client'[c].flight = g
    <2>1. g # f /\ c \in flight[g].subs BY <1>5, <1>6
    <2>2. c \in Clients /\ client[c].phase = "open" /\ client[c].flight = g
      BY <2>1, SubscriberKey
    <2>3. c \notin flight[f].subs BY <2>1, <2>2, SubscriberKey
    <2> QED BY <1>4, <2>2, <2>3
  <1> QED BY <1>7, <1>8 DEF SubsLinked

LEMMA NewFlightLinks ==
  ASSUME IInv, SubsLinked, NEW c \in Clients, NEW k \in Keys, NEW refresh \in BOOLEAN,
         client[c].phase # "open", NewFlight(c, k, refresh)
  PROVE  SubsLinked'
  <1> DEFINE f == allocated + 1
             fence == k.gen > latest[Lineage(k)]
             old == IF fence THEN {live[j] : j \in {i \in Keys : Older(k, i)}} \ {0} ELSE {}
             left == UNION {flight[g].subs : g \in old}
             new == [Unused EXCEPT !.phase = "queued", !.key = k, !.subs = {c}, !.refresh = refresh]
             mine == [Idle EXCEPT !.phase = "open", !.key = k, !.flight = f,
                                  !.update = Update("queued", "none")]
             gone(g) == [flight[g] EXCEPT !.retired = TRUE, !.subs = {}, !.cancelled = TRUE]
  <1>1. /\ live' = [j \in Keys |-> CASE j = k -> f
                                     [] j # k /\ fence /\ Older(k, j) -> 0
                                     [] OTHER -> live[j]]
        /\ flight' = [g \in Flights |-> CASE g = f -> new [] g # f /\ g \in old -> gone(g)
                                          [] OTHER -> flight[g]]
        /\ client' = [Close(client, left) EXCEPT ![c] = mine]
    BY Zenon DEF NewFlight
  <1>2. f \in Flights /\ live[k] = 0
    <2>1. allocated < MaxFlights /\ live[k] = 0 BY Zenon DEF NewFlight
    <2> QED BY <2>1, BoundsAssumption DEF Flights, IInv, TypeOK
  <1>3. new.subs = {c} /\ mine.phase = "open" /\ mine.key = k /\ mine.flight = f
    BY UnusedType, IdleType DEF FlightRecords, ClientRecords
  <1>4. \A g \in Flights : gone(g).subs = {} BY DEF IInv, TypeOK, FlightRecords
  <1>5. ASSUME NEW i \in Keys, live[i] # 0
        PROVE  live[i] \in Flights /\ flight[live[i]].key = i /\ live[i] # f
    <2>1. live[i] \in Flights /\ flight[live[i]].key = i /\ live[i] <= allocated
      BY <1>5, LiveKey DEF IInv, LiveIndex
    <2>2. allocated \in Nat BY DEF IInv, TypeOK
    <2> QED BY <2>1, <2>2 DEF Flights
  <1>6. \A g \in old : g \in Flights /\ g # f /\ fence /\ Older(k, flight[g].key) /\ live[flight[g].key] = g
    <2> SUFFICES ASSUME fence, NEW i \in Keys, Older(k, i), live[i] # 0
                 PROVE  LET g == live[i] IN
                        g \in Flights /\ g # f /\ Older(k, flight[g].key) /\ live[flight[g].key] = g
      OBVIOUS
    <2> HIDE DEF f, fence
    <2> QED BY <1>5
  <1>7. \A g \in Flights \ {f} : flight[g].subs # {} /\ fence /\ Older(k, flight[g].key) => g \in old
    <2> SUFFICES ASSUME NEW g \in Flights \ {f}, NEW d \in flight[g].subs, fence,
                        Older(k, flight[g].key)
                 PROVE  g \in old
      OBVIOUS
    <2>1. live[flight[g].key] = g /\ flight[g].key \in Keys /\ g # 0
      BY SubscriberKey, BoundsAssumption DEF IInv, TypeOK, FlightRecords, Flights
    <2> QED BY <2>1
  <1>8. flight[f].subs = {}
    <2> SUFFICES ASSUME NEW d \in flight[f].subs PROVE FALSE OBVIOUS
    <2>1. live[flight[f].key] = f /\ flight[f].key \in Keys
      BY <1>2, SubscriberKey DEF IInv, TypeOK, FlightRecords
    <2>2. f # 0 BY <1>2, BoundsAssumption DEF Flights
    <2> HIDE DEF f
    <2> QED BY <1>5, <2>1, <2>2
  <1>a. /\ \A g \in Flights : g = f => flight'[g] = new
        /\ \A g \in Flights : g # f /\ g \in old => flight'[g] = gone(g)
        /\ \A g \in Flights : g # f /\ g \notin old => flight'[g] = flight[g]
    <2> HIDE DEF f, old, new, gone
    <2> QED BY <1>1, Zenon
  <1>b. /\ live'[k] = f
        /\ \A j \in Keys \ {k} : ~(fence /\ Older(k, j)) => live'[j] = live[j]
    <2> HIDE DEF f, fence
    <2> QED BY <1>1, Zenon
  <1>c. /\ client'[c] = mine
        /\ \A d \in Clients \ {c} : d \notin left => client'[d] = client[d]
        /\ \A d \in Clients \ {c} : d \in left => client'[d].phase = "closed"
    <2>1. Close(client, left) \in [Clients -> ClientRecords]
      BY CloseType DEF IInv, TypeOK
    <2>2. \A d \in Clients : /\ d \in left => Close(client, left)[d].phase = "closed"
                             /\ d \notin left => Close(client, left)[d] = client[d]
      <3> HIDE DEF left
      <3> QED BY CloseKeeps DEF IInv, TypeOK
    <2> HIDE DEF mine, left
    <2> QED BY <1>1, <2>1, <2>2
  <1> HIDE DEF f, new, gone, mine
  <1>9. ASSUME NEW d \in Clients, client'[d].phase = "open"
        PROVE  d \in flight'[client'[d].flight].subs /\ live'[client'[d].key] = client'[d].flight
    <2>1. CASE d = c BY <1>2, <1>3, <1>a, <1>b, <1>c, <2>1
    <2>2. CASE d # c
      <3> DEFINE g == client[d].flight
      <3>1. d \notin left /\ client'[d] = client[d] BY <1>9, <1>c, <2>2
      <3>2. /\ g \in Flights /\ d \in flight[g].subs /\ live[client[d].key] = g
            /\ client[d].key = flight[g].key /\ client[d].key \in Keys
        BY <1>9, <3>1, SubscriberKey DEF IInv, ClientLink, SubsLinked, TypeOK, ClientRecords
      <3>3. g # f /\ g \notin old BY <1>8, <3>1, <3>2
      <3>4. flight'[g] = flight[g] BY <1>a, <3>2, <3>3
      <3>5. client[d].key # k
        <4>1. g # 0 BY <3>2, BoundsAssumption DEF Flights
        <4> QED BY <1>2, <3>2, <4>1
      <3>6. ~(fence /\ Older(k, client[d].key)) BY <1>7, <3>2, <3>3
      <3> HIDE DEF g, fence, old, left
      <3>7. live'[client[d].key] = live[client[d].key] BY <1>b, <3>2, <3>5, <3>6
      <3> QED BY <3>1, <3>2, <3>4, <3>7 DEF g
    <2> QED BY <2>1, <2>2
  <1>10. ASSUME NEW g \in Flights, NEW d \in flight'[g].subs
         PROVE  client'[d].phase = "open" /\ client'[d].flight = g
    <2>1. CASE g = f BY <1>3, <1>a, <1>c, <2>1
    <2>2. CASE g # f
      <3>1. g \notin old /\ flight'[g] = flight[g] BY <1>4, <1>a, <2>2
      <3>2. d \in Clients /\ client[d].phase = "open" /\ client[d].flight = g
        BY <3>1, SubscriberKey
      <3>3. d # c BY <3>2
      <3>4. d \notin left
        <4> SUFFICES ASSUME NEW h \in old, d \in flight[h].subs PROVE FALSE OBVIOUS
        <4>1. h \in Flights BY <1>6
        <4>2. client[d].flight = h BY <4>1, SubscriberKey
        <4> QED BY <3>1, <3>2, <4>2
      <3> HIDE DEF old, left
      <3> QED BY <1>c, <3>2, <3>3, <3>4
    <2> QED BY <2>1, <2>2
  <1> QED BY <1>9, <1>10 DEF SubsLinked

LEMMA LinksNext == IInv /\ SubsLinked /\ [Next]_vars => SubsLinked'
  <1> SUFFICES ASSUME IInv, SubsLinked, [Next]_vars PROVE SubsLinked' OBVIOUS
  <1>1. ASSUME NEW f \in Flights, RunStep(f) \/ ExecutorStep(f) PROVE SubsLinked'
    BY <1>1, FinishLinks, FlightLinks, LinksKept
  <1>2. ASSUME NEW c \in Clients, ClientStep(c) PROVE SubsLinked'
    <2>1. ASSUME NEW k \in Keys, NEW refresh \in BOOLEAN, client[c].phase # "open",
                 SubscribeLocked(c, k, refresh)
          PROVE  SubsLinked'
      <3>1. CASE JoinFlight(c, k) BY <2>1, <3>1, JoinLinks
      <3>2. CASE NewFlight(c, k, refresh) BY <2>1, <3>2, NewFlightLinks
      <3>3. CASE RejectOldGeneration(c, k)
        <4>1. /\ client'[c].phase = "closed" /\ \A d \in Clients \ {c} : client'[d] = client[d]
              /\ UNCHANGED <<flight, live>>
          BY <3>3, IdleType DEF RejectOldGeneration, IInv, TypeOK, ClientRecords
        <4> QED BY <2>1, <4>1, LinksAside
      <3> QED BY <2>1, <3>1, <3>2, <3>3 DEF SubscribeLocked
    <2>2. ASSUME NEW k \in Keys, CheckCache(c, k) PROVE SubsLinked'
      <3>1. client'[c].phase \in {"hit", "missed"} /\ client[c].phase = "idle"
        BY <2>2, IdleType DEF CheckCache, IInv, TypeOK, ClientRecords
      <3>2. (\A d \in Clients \ {c} : client'[d] = client[d]) /\ UNCHANGED <<flight, live>>
        BY <2>2 DEF CheckCache, IInv, TypeOK
      <3> QED BY <3>1, <3>2, LinksAside
    <2>3. ASSUME NEW k \in Keys, Refresh(c, k) PROVE SubsLinked'
      BY <2>1, <2>3 DEF Refresh
    <2>4. CASE AnswerFromCache(c)
      <3>1. /\ client'[c].phase = "closed" /\ client[c].phase = "hit"
            /\ \A d \in Clients \ {c} : client'[d] = client[d]
            /\ UNCHANGED <<flight, live>>
        BY <2>4 DEF AnswerFromCache, IInv, TypeOK, ClientRecords
      <3> QED BY <3>1, LinksAside
    <2>5. CASE Subscribe(c)
      <3>1. client[c].key \in Keys BY DEF IInv, TypeOK, ClientRecords
      <3> QED BY <2>1, <2>5, <3>1 DEF Subscribe
    <2>6. CASE Unsubscribe(c) BY <2>6, UnsubscribeLinks
    <2>7. CASE Leave(c)
      <3>1. /\ client'[c].phase = "idle" /\ client[c].phase = "closed"
            /\ \A d \in Clients \ {c} : client'[d] = client[d]
            /\ UNCHANGED <<flight, live>>
        BY <2>7 DEF Leave, IInv, TypeOK, Idle
      <3> QED BY <3>1, LinksAside
    <2> QED BY <1>2, <2>2, <2>3, <2>4, <2>5, <2>6, <2>7 DEF ClientStep
  <1>3. CASE UNCHANGED vars BY <1>3 DEF vars, SubsLinked
  <1> QED BY <1>1, <1>2, <1>3 DEF Next
-----------------------------------------------------------------------------
(* How a step changes one entry of the cache. *)

(* The entry a flight works on: the one it has begun, or a fresh one. *)
Started(f, k) == IF flight[f].began THEN queries[k] ELSE BeginLoad(queries[k])

Refreshed(f, k) ==
  /\ flight[f].phase = "queued" /\ queries[k].state \in Readable
  /\ queries'[k] = BeginRefresh(queries[k])

Paged(f, k) ==
  /\ flight[f].phase = "executing" /\ Busy(Started(f, k))
  /\ flight[f].began \/ ~Busy(queries[k])
  /\ \E p \in PageRecords : p.by = f /\ queries'[k] = CommitPage(Started(f, k), p)

Completed(f, k) ==
  /\ flight[f].phase = "completing" /\ Busy(Started(f, k))
  /\ flight[f].began \/ ~Busy(queries[k])
  /\ queries'[k] = CompleteQuery(Started(f, k))

Failed(k) ==
  \E e \in {queries[k], Queue(queries[k])}, s \in FailureStates :
    /\ CanFail(e) /\ (e = queries[k] \/ ~Busy(queries[k]))
    /\ queries'[k] = FailQuery(e, s)

(* Invalidations and the key's live flight are all that touch an entry. *)
EntryStep(k) ==
  \/ queries'[k] = queries[k]
  \/ queries'[k] = Absent
  \/ \E f \in Flights :
       /\ live[k] = f /\ flight[f].key = k /\ ~flight[f].retired /\ flight[f].subs # {}
       /\ Refreshed(f, k) \/ Paged(f, k) \/ Completed(f, k) \/ Failed(k)

(* What a flight that may commit is known to be. *)
LEMMA CommittingFlight ==
  ASSUME IInv, NEW f \in Flights, CanCommit(f)
  PROVE  LET k == flight[f].key IN
         k \in Keys /\ live[k] = f /\ ~flight[f].retired /\ flight[f].subs # {}
  BY DEF CanCommit, IInv, TypeOK, FlightRecords

LEMMA EntryStart ==
  ASSUME IInv, NEW f \in Flights, Start(f), NEW k \in Keys
  PROVE  EntryStep(k)
  <1> DEFINE j == flight[f].key
             begin == flight[f].refresh /\ queries[j].state \in Readable
  <1>1. CASE CanCommit(f)
    <2>1. queries' = [queries EXCEPT ![j] = IF begin THEN BeginRefresh(queries[j]) ELSE queries[j]]
      BY <1>1, Zenon DEF Start
    <2>2. flight[f].phase = "queued" BY Zenon DEF Start
    <2>3. CASE k = j /\ begin
      <3>1. queries'[k] = BeginRefresh(queries[k]) BY <2>1, <2>3 DEF IInv, TypeOK
      <3> QED BY <1>1, <2>2, <2>3, <3>1, CommittingFlight DEF EntryStep, Refreshed
    <2>4. CASE ~(k = j /\ begin)
      <3>1. queries'[k] = queries[k] BY <2>1, <2>4 DEF IInv, TypeOK
      <3> QED BY <3>1 DEF EntryStep
    <2> QED BY <2>3, <2>4
  <1>2. CASE ~CanCommit(f)
    BY <1>2 DEF Start, EntryStep
  <1> QED BY <1>1, <1>2

LEMMA EntryPage ==
  ASSUME IInv, NEW f \in Flights, NEW rows \in BOOLEAN, NEW whole \in BOOLEAN,
         Page(f, rows, whole), NEW k \in Keys
  PROVE  EntryStep(k)
  <1> DEFINE j == flight[f].key
             entry == IF flight[f].began THEN queries[j] ELSE BeginLoad(queries[j])
             page == [by |-> f, n |-> flight[f].partial + 1, rows |-> rows]
             refused == \/ flight[f].terminal \/ ~CanCommit(f) \/ ~whole
                        \/ (~flight[f].began /\ Busy(queries[j])) \/ ~Busy(entry)
  <1>1. CASE refused BY <1>1 DEF Page, Reject, EntryStep
  <1>2. CASE ~refused
    <2>1. queries' = [queries EXCEPT ![j] = CommitPage(entry, page)] BY <1>2, Zenon DEF Page
    <2>2. CASE k = j
      <3>1. queries'[k] = CommitPage(Started(f, k), page)
        BY <2>1, <2>2 DEF IInv, TypeOK, Started
      <3>2. page \in PageRecords /\ page.by = f
        BY BoundsAssumption DEF Page, PageRecords, IInv, TypeOK, FlightRecords
      <3>3. flight[f].phase = "executing" BY DEF Page
      <3>4. Busy(Started(f, k)) /\ (flight[f].began \/ ~Busy(queries[k]))
        BY <1>2, <2>2 DEF Started
      <3>5. Paged(f, k)
        <4> HIDE DEF page
        <4> QED BY <3>1, <3>2, <3>3, <3>4 DEF Paged
      <3> QED BY <1>2, <2>2, <3>5, CommittingFlight DEF EntryStep
    <2>3. CASE k # j
      BY <2>1, <2>3 DEF IInv, TypeOK, EntryStep
    <2> QED BY <2>2, <2>3
  <1> QED BY <1>1, <1>2

LEMMA EntryComplete ==
  ASSUME IInv, NEW f \in Flights, CompleteFlight(f), NEW k \in Keys
  PROVE  EntryStep(k)
  <1> DEFINE j == flight[f].key
             busy == ~flight[f].began /\ Busy(queries[j])
             entry == IF flight[f].began THEN queries[j] ELSE BeginLoad(queries[j])
  <1>1. CASE CanCommit(f) /\ ~busy /\ Busy(entry)
    <2>1. queries' = [queries EXCEPT ![j] = CompleteQuery(entry)] BY <1>1, Zenon DEF CompleteFlight
    <2>2. CASE k = j
      <3>1. queries'[k] = CompleteQuery(Started(f, k)) BY <2>1, <2>2 DEF IInv, TypeOK, Started
      <3>2. flight[f].phase = "completing" BY DEF CompleteFlight
      <3>3. Busy(Started(f, k)) /\ (flight[f].began \/ ~Busy(queries[k]))
        BY <1>1, <2>2 DEF Started
      <3>4. Completed(f, k) BY <3>1, <3>2, <3>3 DEF Completed
      <3> QED BY <1>1, <2>2, <3>4, CommittingFlight DEF EntryStep
    <2>3. CASE k # j
      BY <2>1, <2>3 DEF IInv, TypeOK, EntryStep
    <2> QED BY <2>2, <2>3
  <1>2. CASE ~(CanCommit(f) /\ ~busy /\ Busy(entry))
    BY <1>2 DEF CompleteFlight, EntryStep
  <1> QED BY <1>1, <1>2

LEMMA EntryFail ==
  ASSUME IInv, NEW f \in Flights, FailFlight(f), NEW k \in Keys
  PROVE  EntryStep(k)
  <1> DEFINE j == flight[f].key
             kind == flight[f].failure
             cache == kind = "stable"
             entry == IF flight[f].began \/ ~cache \/ Busy(queries[j]) THEN queries[j] ELSE Queue(queries[j])
             fails == (flight[f].began \/ cache) /\ CanFail(entry)
  <1>1. CASE kind = "context_changed"
    <2>1. queries' = InvalidateContext(queries, j.scope, j.gen) BY <1>1, Zenon DEF FailFlight
    <2> QED BY <2>1 DEF InvalidateContext, IInv, TypeOK, EntryStep
  <1>2. CASE kind # "context_changed" /\ CanCommit(f)
    <2>1. queries' = [queries EXCEPT ![j] = IF fails THEN FailQuery(entry, FailureState(kind)) ELSE @]
      BY <1>2, Zenon DEF FailFlight
    <2>2. CASE k = j /\ fails
      <3>1. queries'[k] = FailQuery(entry, FailureState(kind)) BY <2>1, <2>2 DEF IInv, TypeOK
      <3>2. FailureState(kind) \in FailureStates BY DEF FailureState, FailureStates
      <3>3. /\ entry \in {queries[k], Queue(queries[k])}
            /\ entry = queries[k] \/ ~Busy(queries[k])
            /\ CanFail(entry)
        BY <2>2
      <3>4. Failed(k)
        <4> HIDE DEF entry
        <4> QED BY <3>1, <3>2, <3>3 DEF Failed
      <3> QED BY <1>2, <2>2, <3>4, CommittingFlight DEF EntryStep
    <2>3. CASE ~(k = j /\ fails)
      <3> HIDE DEF fails
      <3>1. queries'[k] = queries[k] BY <2>1, <2>3 DEF IInv, TypeOK
      <3> QED BY <3>1 DEF EntryStep
    <2> QED BY <2>2, <2>3
  <1>3. CASE kind # "context_changed" /\ ~CanCommit(f)
    <2>1. UNCHANGED queries BY <1>3, Zenon DEF FailFlight
    <2> QED BY <2>1 DEF EntryStep
  <1> QED BY <1>1, <1>2, <1>3

LEMMA EntryUnsubscribe ==
  ASSUME IInv, SubsLinked, NEW c \in Clients, Unsubscribe(c), NEW k \in Keys
  PROVE  EntryStep(k)
  <1> DEFINE f == client[c].flight
             j == flight[f].key
             last == flight[f].subs \ {c} = {} /\ ~flight[f].retired
             drop == last /\ flight[f].began /\ CanFail(queries[j])
  <1>1. f \in Flights /\ j \in Keys /\ c \in flight[f].subs /\ live[client[c].key] = f
    BY DEF IInv, ClientLink, Unsubscribe, TypeOK, FlightRecords, SubsLinked
  <1>2. live[j] = f /\ ~flight[f].retired /\ flight[f].subs # {}
    <2>1. client[c].key \in Keys BY DEF IInv, TypeOK, ClientRecords
    <2>2. f # 0 BY <1>1, BoundsAssumption DEF Flights
    <2> QED BY <1>1, <2>1, <2>2 DEF IInv, LiveIndex
  <1>3. queries' = [queries EXCEPT ![j] = IF last THEN Abandon(@, flight[f].began) ELSE @]
    BY Zenon DEF Unsubscribe
  <1>4. CASE k = j /\ drop
    <2>1. queries'[k] = FailQuery(queries[k], "cancelled")
      BY <1>3, <1>4 DEF Abandon, IInv, TypeOK
    <2>2. Failed(k) BY <1>4, <2>1 DEF Failed, FailureStates
    <2> QED BY <1>1, <1>2, <1>4, <2>2 DEF EntryStep
  <1>5. CASE ~(k = j /\ drop)
    <2>1. queries'[k] = queries[k] BY <1>3, <1>5 DEF Abandon, IInv, TypeOK
    <2> QED BY <2>1 DEF EntryStep
  <1> QED BY <1>4, <1>5

LEMMA EntryNewFlight ==
  ASSUME IInv, NEW c \in Clients, NEW i \in Keys, NEW refresh \in BOOLEAN,
         NewFlight(c, i, refresh), NEW k \in Keys
  PROVE  EntryStep(k)
  <1>1. \/ queries' = InvalidateGeneration(queries, i.scope, i.gen)
        \/ queries' = queries
    BY Zenon DEF NewFlight
  <1> QED BY <1>1 DEF InvalidateGeneration, IInv, TypeOK, EntryStep

LEMMA EntrySteps ==
  ASSUME IInv, SubsLinked, [Next]_vars, NEW k \in Keys
  PROVE  EntryStep(k)
  <1>0. UNCHANGED queries => EntryStep(k) BY DEF EntryStep
  <1>1. ASSUME NEW f \in Flights, RunStep(f) PROVE EntryStep(k)
    <2>1. CancelQueued(f) \/ ReadResult(f) \/ Finish(f) => UNCHANGED queries
      BY DEF CancelQueued, ReadResult, Finish
    <2> QED BY <1>0, <1>1, <2>1, EntryStart, EntryComplete, EntryFail DEF RunStep
  <1>2. ASSUME NEW f \in Flights, ExecutorStep(f) PROVE EntryStep(k)
    <2>1. Complete(f) => UNCHANGED queries BY DEF Complete, Reject
    <2>2. \A outcome : Return(f, outcome) => UNCHANGED queries BY Zenon DEF Return
    <2> QED BY <1>0, <1>2, <2>1, <2>2, EntryPage DEF ExecutorStep
  <1>3. ASSUME NEW c \in Clients, ClientStep(c) PROVE EntryStep(k)
    <2>1. ASSUME NEW j \in Keys, NEW refresh \in BOOLEAN, SubscribeLocked(c, j, refresh)
          PROVE  EntryStep(k)
      <3>1. JoinFlight(c, j) \/ RejectOldGeneration(c, j) => UNCHANGED queries
        BY DEF JoinFlight, RejectOldGeneration
      <3> QED BY <1>0, <2>1, <3>1, EntryNewFlight DEF SubscribeLocked
    <2>2. \A j : CheckCache(c, j) => UNCHANGED queries BY DEF CheckCache
    <2>3. AnswerFromCache(c) \/ Leave(c) => UNCHANGED queries BY DEF AnswerFromCache, Leave
    <2>4. client[c].key \in Keys BY DEF IInv, TypeOK, ClientRecords
    <2> QED BY <1>0, <1>3, <2>1, <2>2, <2>3, <2>4, EntryUnsubscribe DEF ClientStep, Refresh, Subscribe
  <1>4. CASE UNCHANGED vars BY <1>0, <1>4 DEF vars
  <1> QED BY <1>1, <1>2, <1>3, <1>4 DEF Next

(* What the store's operations keep of an entry. *)
LEMMA KeptByStore ==
  ASSUME NEW e \in EntryRecords
  PROVE  /\ LET n == BeginLoad(e) IN n.pages = {} /\ n.staged = {} /\ n.state = "loading"
         /\ LET n == BeginRefresh(e) IN
            /\ n.staged = {}
            /\ \/ n.state = "refreshing" /\ n.pages = e.pages
               \/ n.state = "loading" /\ n.pages = {}
         /\ LET n == Queue(e) IN
            n.pages = e.pages /\ n.staged = e.staged /\ n.observed = e.observed
         /\ \A s \in FailureStates : LET n == FailQuery(e, s) IN
            /\ n.pages = e.pages /\ n.staged = {} /\ n.observed = e.observed
            /\ n.state = IF e.state = "refreshing" THEN "stale" ELSE s
         /\ LET n == CompleteQuery(e) IN
            /\ n.staged = {} /\ n.state \in {"ready", "empty"}
            /\ n.pages = IF e.state = "refreshing" THEN e.staged ELSE e.pages
         /\ \A p \in PageRecords : LET n == CommitPage(e, p) IN
            /\ n.state = e.state
            /\ e.state = "refreshing" => /\ n.pages = e.pages /\ n.observed = e.observed
                                         /\ n.staged = PutPage(e.staged, p)
            /\ e.state # "refreshing" => n.staged = e.staged /\ n.pages = PutPage(e.pages, p)
  <1>1. LET n == BeginLoad(e) IN n.pages = {} /\ n.staged = {} /\ n.state = "loading"
    BY DEF BeginLoad, EntryRecords
  <1>2. LET n == BeginRefresh(e) IN
            /\ n.staged = {}
            /\ \/ n.state = "refreshing" /\ n.pages = e.pages
               \/ n.state = "loading" /\ n.pages = {}
    BY DEF BeginRefresh, BeginLoad, EntryRecords
  <1>3. LET n == Queue(e) IN n.pages = e.pages /\ n.staged = e.staged /\ n.observed = e.observed
    BY DEF Queue, EntryRecords
  <1>4. \A s \in FailureStates : LET n == FailQuery(e, s) IN
            /\ n.pages = e.pages /\ n.staged = {} /\ n.observed = e.observed
            /\ n.state = IF e.state = "refreshing" THEN "stale" ELSE s
    BY DEF FailQuery, EntryRecords
  <1>5. LET n == CompleteQuery(e) IN
            /\ n.staged = {} /\ n.state \in {"ready", "empty"}
            /\ n.pages = IF e.state = "refreshing" THEN e.staged ELSE e.pages
    <2> DEFINE visible == IF e.state = "refreshing" THEN e.staged ELSE e.pages
               kept == IF e.state = "refreshing" THEN UpsertObservations(e, visible) ELSE e
               rows == \E p \in visible : p.rows
    <2>1. kept \in EntryRecords BY UpsertType DEF EntryRecords
    <2>2. CompleteQuery(e) = [kept EXCEPT !.pages = visible, !.staged = {}, !.fetched = TRUE,
                                !.state = IF rows THEN "ready" ELSE "empty"]
      BY Zenon DEF CompleteQuery
    <2> HIDE DEF kept, rows
    <2> QED BY <2>1, <2>2 DEF EntryRecords
  <1>6. ASSUME NEW p \in PageRecords
        PROVE  LET n == CommitPage(e, p) IN
            /\ n.state = e.state
            /\ e.state = "refreshing" => /\ n.pages = e.pages /\ n.observed = e.observed
                                         /\ n.staged = PutPage(e.staged, p)
            /\ e.state # "refreshing" => n.staged = e.staged /\ n.pages = PutPage(e.pages, p)
    <2> DEFINE put == [e EXCEPT !.pages = PutPage(e.pages, p)]
    <2>1. PutPage(e.pages, p) \in SUBSET PageRecords BY DEF PutPage, EntryRecords
    <2>2. put \in EntryRecords /\ put.pages = PutPage(e.pages, p) /\ put.staged = e.staged
          /\ put.state = e.state
      BY <2>1 DEF EntryRecords
    <2> HIDE DEF put
    <2>3. LET n == UpsertObservations(put, {p}) IN
          n.state = put.state /\ n.pages = put.pages /\ n.staged = put.staged
      BY <2>2 DEF UpsertObservations, EntryRecords
    <2>4. e.state = "refreshing" => CommitPage(e, p) = [e EXCEPT !.staged = PutPage(e.staged, p)]
      BY DEF CommitPage
    <2>5. e.state # "refreshing" => CommitPage(e, p) = UpsertObservations(put, {p})
      BY DEF CommitPage, put
    <2> QED BY <2>2, <2>3, <2>4, <2>5 DEF EntryRecords
  <1> QED BY <1>1, <1>2, <1>3, <1>4, <1>5, <1>6

LEMMA LiveSteps ==
  ASSUME IInv, [Next]_vars, NEW k \in Keys, live[k] # 0
  PROVE  live'[k] \in {live[k], 0}
  <1>1. ASSUME NEW f \in Flights, RunStep(f) \/ ExecutorStep(f) PROVE live'[k] \in {live[k], 0}
    <2>1. Finish(f) => live'[k] \in {live[k], 0} BY DEF Finish, IInv, TypeOK
    <2> QED BY <1>1, <2>1, FlightLinks DEF LinksUnchanged
  <1>2. ASSUME NEW c \in Clients, ClientStep(c) PROVE live'[k] \in {live[k], 0}
    <2>1. ASSUME NEW j \in Keys, NEW refresh \in BOOLEAN, SubscribeLocked(c, j, refresh)
          PROVE  live'[k] \in {live[k], 0}
      <3>1. JoinFlight(c, j) \/ RejectOldGeneration(c, j) => UNCHANGED live
        BY DEF JoinFlight, RejectOldGeneration
      <3>2. CASE NewFlight(c, j, refresh)
        <4>1. live[j] = 0 BY <3>2, Zenon DEF NewFlight
        <4>2. k # j BY <4>1
        <4>3. \E fence \in BOOLEAN : live' = [i \in Keys |->
                CASE i = j -> allocated + 1
                  [] i # j /\ fence /\ Older(j, i) -> 0
                  [] OTHER -> live[i]]
          BY <3>2, Zenon DEF NewFlight
        <4> QED BY <4>2, <4>3, Zenon
      <3> QED BY <2>1, <3>1, <3>2 DEF SubscribeLocked
    <2>2. \A j : CheckCache(c, j) => UNCHANGED live BY DEF CheckCache
    <2>3. AnswerFromCache(c) \/ Leave(c) => UNCHANGED live BY DEF AnswerFromCache, Leave
    <2>4. client[c].key \in Keys BY DEF IInv, TypeOK, ClientRecords
    <2>5. CASE Unsubscribe(c) BY <2>5 DEF Unsubscribe, IInv, TypeOK
    <2> QED BY <1>2, <2>1, <2>2, <2>3, <2>4, <2>5 DEF ClientStep, Refresh, Subscribe
  <1>3. CASE UNCHANGED vars BY <1>3 DEF vars
  <1> QED BY <1>1, <1>2, <1>3 DEF Next

(* The live flight of an entry that goes on loading is the one it was. *)
LEMMA LoadKeepsFlight ==
  ASSUME IInv, SubsLinked, [Next]_vars, NEW k \in Keys, Busy(queries'[k])
  PROVE  live[k] # 0 /\ live'[k] = live[k]
  <1>1. IInv' BY InvNext
  <1>2. live'[k] # 0 BY <1>1 DEF IInv, NoOrphanLoad
  <1>3. EntryStep(k) BY EntrySteps
  <1>4. ~Busy(Absent) BY DEF Busy, Absent
  <1>5. live[k] # 0
    <2>1. CASE queries'[k] = queries[k] BY <2>1 DEF IInv, NoOrphanLoad
    <2>2. CASE \E f \in Flights : live[k] = f BY <2>2, BoundsAssumption DEF Flights
    <2> QED BY <1>3, <1>4, <2>1, <2>2 DEF EntryStep
  <1> QED BY <1>2, <1>5, LiveSteps

-----------------------------------------------------------------------------
(* What an attempt wrote stays apart from what others wrote. *)

(* Pages of a load belong to the key's live flight, as do those a refresh  *)
(* has staged, and whatever is visible came from one flight.               *)
PagesOwned ==
  \A k \in Keys :
    /\ queries[k].state = "loading" => \A p \in queries[k].pages : p.by = live[k]
    /\ \A p \in queries[k].staged : queries[k].state = "refreshing" /\ p.by = live[k]
    /\ \A p, q \in queries[k].pages : p.by = q.by

LEMMA PagesInit == Init => PagesOwned
  BY DEF Init, PagesOwned, Absent

LEMMA PagesNext ==
  ASSUME IInv, SubsLinked, PagesOwned, [Next]_vars
  PROVE  PagesOwned'
  <1> SUFFICES ASSUME NEW k \in Keys
               PROVE  LET e == queries'[k] IN
                      /\ e.state = "loading" => \A p \in e.pages : p.by = live'[k]
                      /\ \A p \in e.staged : e.state = "refreshing" /\ p.by = live'[k]
                      /\ \A p, q \in e.pages : p.by = q.by
    BY DEF PagesOwned
  <1> DEFINE e == queries'[k]
  <1>1. EntryStep(k) BY EntrySteps
  <1>2. e.state \in {"loading", "refreshing"} => live'[k] = live[k] BY LoadKeepsFlight DEF Busy
  <1>3. queries[k] \in EntryRecords BY DEF IInv, TypeOK
  <1>4. CASE queries'[k] = queries[k] BY <1>2, <1>4 DEF PagesOwned
  <1>5. CASE queries'[k] = Absent BY <1>5 DEF Absent
  <1>6. ASSUME NEW f \in Flights, live[k] = f,
               Refreshed(f, k) \/ Paged(f, k) \/ Completed(f, k) \/ Failed(k)
        PROVE  /\ e.state = "loading" => \A p \in e.pages : p.by = live'[k]
               /\ \A p \in e.staged : e.state = "refreshing" /\ p.by = live'[k]
               /\ \A p, q \in e.pages : p.by = q.by
    <2> DEFINE s == Started(f, k)
    <2>1. /\ s \in EntryRecords
          /\ s.state = "loading" => \A p \in s.pages : p.by = f
          /\ \A p \in s.staged : s.state = "refreshing" /\ p.by = f
          /\ \A p, q \in s.pages : p.by = q.by
      <3>1. CASE flight[f].began
        <4>1. s = queries[k] BY <3>1 DEF Started
        <4> QED BY <1>3, <1>6, <4>1 DEF PagesOwned
      <3>2. CASE ~flight[f].began
        <4>1. s = BeginLoad(queries[k]) BY <3>2 DEF Started
        <4>2. BeginLoad(queries[k]) \in EntryRecords BY <1>3, StoreTypes
        <4>3. LET n == BeginLoad(queries[k]) IN n.pages = {} /\ n.staged = {} /\ n.state = "loading"
          BY <1>3, KeptByStore
        <4> HIDE DEF s
        <4> QED BY <4>1, <4>2, <4>3
      <3> QED BY <3>1, <3>2
    <2>2. CASE Refreshed(f, k) BY <1>3, <2>2, KeptByStore DEF Refreshed, PagesOwned
    <2>3. CASE Paged(f, k)
      <3>1. PICK p \in PageRecords : p.by = f /\ queries'[k] = CommitPage(s, p) BY <2>3 DEF Paged
      <3>2. s.state \in {"loading", "refreshing"} BY <2>3 DEF Paged, Busy
      <3> HIDE DEF s
      <3>3. /\ e.state = s.state
            /\ s.state = "refreshing" => e.pages = s.pages /\ e.staged = PutPage(s.staged, p)
            /\ s.state # "refreshing" => e.staged = s.staged /\ e.pages = PutPage(s.pages, p)
        BY <2>1, <3>1, KeptByStore
      <3> QED BY <1>2, <1>6, <2>1, <3>1, <3>2, <3>3 DEF PutPage
    <2>4. CASE Completed(f, k)
      <3>1. queries'[k] = CompleteQuery(s) BY <2>4 DEF Completed
      <3> HIDE DEF s
      <3>2. /\ e.staged = {} /\ e.state \in {"ready", "empty"}
            /\ e.pages = IF s.state = "refreshing" THEN s.staged ELSE s.pages
        BY <2>1, <3>1, KeptByStore
      <3> QED BY <2>1, <3>2
    <2>5. CASE Failed(k)
      <3>1. PICK q \in {queries[k], Queue(queries[k])}, t \in FailureStates :
              queries'[k] = FailQuery(q, t)
        BY <2>5 DEF Failed
      <3>2. q \in EntryRecords /\ q.pages = queries[k].pages
        <4>1. Queue(queries[k]) \in EntryRecords /\ Queue(queries[k]).pages = queries[k].pages
          BY <1>3, StoreTypes, KeptByStore
        <4> QED BY <1>3, <4>1
      <3>3. e.pages = queries[k].pages /\ e.staged = {} /\ e.state # "loading"
        BY <3>1, <3>2, KeptByStore DEF FailureStates
      <3> QED BY <3>3 DEF PagesOwned
    <2> QED BY <1>6, <2>2, <2>3, <2>4, <2>5
  <1> QED BY <1>1, <1>4, <1>5, <1>6 DEF EntryStep

(* A refresh that is not over leaves what is visible alone. *)
LEMMA RefreshStep ==
  ASSUME IInv, SubsLinked, [Next]_vars, NEW k \in Keys,
         queries[k].state = "refreshing", queries'[k].state \notin {"ready", "empty", "not_loaded"}
  PROVE  queries'[k].pages = queries[k].pages /\ queries'[k].observed = queries[k].observed
  <1>1. EntryStep(k) BY EntrySteps
  <1>2. queries[k] \in EntryRecords /\ Busy(queries[k]) /\ queries[k].state \notin Readable
    BY DEF IInv, TypeOK, Busy, Readable
  <1>3. ASSUME NEW f \in Flights, Paged(f, k)
        PROVE  queries'[k].pages = queries[k].pages /\ queries'[k].observed = queries[k].observed
    BY <1>2, <1>3, KeptByStore DEF Paged, Started
  <1>4. \A f \in Flights : ~Completed(f, k)
    <2> SUFFICES ASSUME NEW f \in Flights, Completed(f, k) PROVE FALSE OBVIOUS
    <2>1. Started(f, k) = queries[k] BY <1>2 DEF Completed, Started
    <2> QED BY <1>2, <2>1, KeptByStore DEF Completed
  <1>5. CASE Failed(k) BY <1>2, <1>5, KeptByStore DEF Failed
  <1>6. queries'[k] # Absent BY DEF Absent
  <1> QED BY <1>1, <1>2, <1>3, <1>4, <1>5, <1>6 DEF EntryStep, Refreshed

(* A page that was not there comes from a flight that still counts. *)
LEMMA CommitStep ==
  ASSUME IInv, SubsLinked, [Next]_vars, NEW k \in Keys, NEW f \in Flights,
         NEW p \in (queries'[k].pages \cup queries'[k].staged)
                    \ (queries[k].pages \cup queries[k].staged),
         p.by = f
  PROVE  ~flight[f].retired /\ flight[f].subs # {} /\ flight[f].phase = "executing"
  <1> DEFINE old == queries[k].pages \cup queries[k].staged
             new == queries'[k].pages \cup queries'[k].staged
  <1>1. EntryStep(k) BY EntrySteps
  <1>2. queries[k] \in EntryRecords BY DEF IInv, TypeOK
  <1>3. Absent.pages = {} /\ Absent.staged = {} BY DEF Absent
  <1>4. PICK g \in Flights :
          /\ live[k] = g /\ ~flight[g].retired /\ flight[g].subs # {}
          /\ Refreshed(g, k) \/ Paged(g, k) \/ Completed(g, k) \/ Failed(k)
    BY <1>1, <1>3 DEF EntryStep
  <1>5. /\ Started(g, k) \in EntryRecords
        /\ Started(g, k).pages \cup Started(g, k).staged \subseteq old
    BY <1>2, StoreTypes, KeptByStore DEF Started
  <1>6. ~Refreshed(g, k) BY <1>2, KeptByStore DEF Refreshed
  <1>7. ~Completed(g, k)
    <2> SUFFICES ASSUME Completed(g, k) PROVE FALSE OBVIOUS
    <2>1. queries'[k] = CompleteQuery(Started(g, k)) BY DEF Completed
    <2>2. new \subseteq Started(g, k).pages \cup Started(g, k).staged BY <1>5, <2>1, KeptByStore
    <2> QED BY <1>5, <2>2
  <1>8. ~Failed(k)
    <2> SUFFICES ASSUME Failed(k) PROVE FALSE OBVIOUS
    <2>1. PICK q \in {queries[k], Queue(queries[k])}, t \in FailureStates :
            queries'[k] = FailQuery(q, t)
      BY DEF Failed
    <2>2. q \in EntryRecords /\ q.pages = queries[k].pages
      <3>1. Queue(queries[k]) \in EntryRecords /\ Queue(queries[k]).pages = queries[k].pages
        BY <1>2, StoreTypes, KeptByStore
      <3> QED BY <1>2, <3>1
    <2>3. new = queries[k].pages BY <2>1, <2>2, KeptByStore
    <2> QED BY <2>3
  <1>9. Paged(g, k) BY <1>4, <1>6, <1>7, <1>8
  <1>10. PICK q \in PageRecords : q.by = g /\ queries'[k] = CommitPage(Started(g, k), q)
    BY <1>9 DEF Paged
  <1>11. new \subseteq Started(g, k).pages \cup Started(g, k).staged \cup {q}
    BY <1>5, <1>10, KeptByStore DEF PutPage
  <1>12. p = q BY <1>5, <1>11
  <1> QED BY <1>4, <1>9, <1>10, <1>12 DEF Paged

-----------------------------------------------------------------------------
(* How a step changes one client. *)

Looked(c) ==
  /\ client[c].phase = "idle"
  /\ \/ client'[c].phase = "hit" /\ client'[c].update.state \in CacheTerminal
     \/ client'[c].phase = "missed"

Answered(c) ==
  /\ client[c].phase = "hit" /\ client'[c].phase = "closed"
  /\ client'[c].update.state = client[c].update.state /\ client'[c].update.from = "cache"

Rejected(c) ==
  /\ client[c].phase \in {"idle", "missed"} /\ client'[c].phase = "closed"
  /\ client'[c].update.state = "cancelled" /\ client'[c].update.from = "fence"

Superseded(c) ==
  /\ client[c].phase = "open" /\ client'[c].phase = "closed" /\ client'[c].key = client[c].key
  /\ latest'[Lineage(client[c].key)] > client[c].key.gen

Told(c) ==
  LET f == client[c].flight IN
  /\ client[c].phase = "open" /\ client'[c].phase = "closed" /\ f \in Flights
  /\ c \in flight[f].subs /\ flight[f].phase = "finishing"
  /\ client'[c].update = flight[f].result

ChannelStep(c) ==
  \/ client'[c] = client[c]
  \/ client'[c].phase \in {"idle", "open"}
  \/ Looked(c) \/ Answered(c) \/ Rejected(c) \/ Superseded(c) \/ Told(c)

LEMMA NewFlightChannel ==
  ASSUME IInv, SubsLinked, NEW c \in Clients, NEW k \in Keys, NEW refresh \in BOOLEAN,
         NewFlight(c, k, refresh), NEW d \in Clients
  PROVE  ChannelStep(d)
  <1> DEFINE f == allocated + 1
             fence == k.gen > latest[Lineage(k)]
             old == IF fence THEN {live[j] : j \in {i \in Keys : Older(k, i)}} \ {0} ELSE {}
             left == UNION {flight[g].subs : g \in old}
             mine == [Idle EXCEPT !.phase = "open", !.key = k, !.flight = f,
                                  !.update = Update("queued", "none")]
  <1>1. client' = [Close(client, left) EXCEPT ![c] = mine]
        /\ latest' = [latest EXCEPT ![Lineage(k)] = k.gen]
    BY Zenon DEF NewFlight
  <1>2. CASE d = c
    <2>1. mine.phase = "open" BY IdleType DEF ClientRecords
    <2> HIDE DEF mine, left
    <2>2. Close(client, left) \in [Clients -> ClientRecords] BY CloseType DEF IInv, TypeOK
    <2> QED BY <1>1, <1>2, <2>1, <2>2 DEF ChannelStep
  <1>3. CASE d # c
    <2> HIDE DEF left
    <2>1. Close(client, left) \in [Clients -> ClientRecords] BY CloseType DEF IInv, TypeOK
    <2>2. client'[d] = Close(client, left)[d] BY <1>1, <1>3, <2>1
    <2>3. CASE d \notin left BY <2>2, <2>3, CloseKeeps DEF ChannelStep, IInv, TypeOK
    <2>4. CASE d \in left
      <3>1. PICK j \in Keys : Older(k, j) /\ live[j] # 0 /\ d \in flight[live[j]].subs
        BY <2>4 DEF left
      <3>2. live[j] \in Flights /\ flight[live[j]].key = j BY <3>1, LiveKey
      <3>3. client[d].phase = "open" /\ client[d].key = j BY <3>1, <3>2, SubscriberKey
      <3>4. client'[d].phase = "closed" /\ client'[d].key = client[d].key
        BY <2>2, <2>4, CloseKeeps DEF IInv, TypeOK
      <3>5. latest'[Lineage(j)] > j.gen
        <4>1. Lineage(j) = Lineage(k) /\ j.gen < k.gen BY <3>1 DEF Older
        <4>2. latest'[Lineage(j)] = k.gen BY <1>1, <4>1, LineageType DEF IInv, TypeOK
        <4> QED BY <4>1, <4>2, LineageNat DEF IInv
      <3> QED BY <3>3, <3>4, <3>5 DEF ChannelStep, Superseded
    <2> QED BY <2>3, <2>4
  <1> QED BY <1>2, <1>3

LEMMA FinishChannel ==
  ASSUME IInv, SubsLinked, NEW f \in Flights, Finish(f), NEW c \in Clients
  PROVE  ChannelStep(c)
  <1>1. client' = Close(Deliver(f), flight[f].subs) /\ flight[f].phase = "finishing"
    BY Zenon DEF Finish
  <1>2. flight[f].result \in Updates BY DEF IInv, TypeOK, FlightRecords
  <1>3. Deliver(f) \in [Clients -> ClientRecords]
    BY <1>2, PublishType DEF Deliver, IInv, TypeOK
  <1>4. CASE c \in flight[f].subs
    <2>1. client[c].phase = "open" /\ client[c].flight = f /\ ~flight[f].retired
      BY <1>4, SubscriberKey
    <2>2. Deliver(f)[c].update = flight[f].result
      BY <1>2, <1>4, <2>1, PublishKeeps DEF Deliver, IInv, TypeOK
    <2>3. client'[c].phase = "closed" /\ client'[c].update = flight[f].result
      BY <1>1, <1>3, <1>4, <2>2, CloseKeeps
    <2> QED BY <1>1, <1>4, <2>1, <2>3 DEF ChannelStep, Told
  <1>5. CASE c \notin flight[f].subs
    <2>1. client'[c] = Deliver(f)[c] BY <1>1, <1>3, <1>5, CloseKeeps
    <2>2. Deliver(f)[c] = client[c] BY <1>5 DEF Deliver, Publish
    <2> QED BY <2>1, <2>2 DEF ChannelStep
  <1> QED BY <1>4, <1>5

LEMMA PublishChannel ==
  ASSUME IInv, SubsLinked, NEW f \in Flights, NEW u, NEW c \in Clients,
         client' = Publish(client, flight[f].subs, u), LinksUnchanged
  PROVE  ChannelStep(c)
  <1>1. CASE c \in flight[f].subs
    <2>1. client[c].phase = "open" BY <1>1, SubscriberKey
    <2> QED BY <2>1 DEF ChannelStep, LinksUnchanged
  <1>2. CASE c \notin flight[f].subs BY <1>2 DEF Publish, ChannelStep
  <1> QED BY <1>1, <1>2

LEMMA ChannelSteps ==
  ASSUME IInv, SubsLinked, [Next]_vars, NEW c \in Clients
  PROVE  ChannelStep(c)
  <1>0. UNCHANGED client => ChannelStep(c) BY DEF ChannelStep
  <1>1. ASSUME NEW f \in Flights, RunStep(f) \/ ExecutorStep(f) PROVE ChannelStep(c)
    <2>1. CASE Finish(f) BY <2>1, FinishChannel
    <2>2. CASE ~Finish(f)
      <3>1. LinksUnchanged BY <1>1, <2>2, FlightLinks
      <3>2. UNCHANGED client \/ \E u : client' = Publish(client, flight[f].subs, u)
        <4>1. Start(f) => UNCHANGED client \/ \E u : client' = Publish(client, flight[f].subs, u)
          BY Zenon DEF Start
        <4>2. \A rows, whole : Page(f, rows, whole) =>
                UNCHANGED client \/ \E u : client' = Publish(client, flight[f].subs, u)
          BY Zenon DEF Page, Reject
        <4>3. \A outcome : Return(f, outcome) => UNCHANGED client BY Zenon DEF Return
        <4>4. CancelQueued(f) \/ CompleteFlight(f) \/ ReadResult(f) \/ FailFlight(f) \/ Complete(f)
                => UNCHANGED client
          BY Zenon DEF CancelQueued, CompleteFlight, ReadResult, FailFlight, Complete, Reject
        <4> QED BY <1>1, <2>2, <4>1, <4>2, <4>3, <4>4 DEF RunStep, ExecutorStep
      <3> QED BY <1>0, <3>1, <3>2, PublishChannel
    <2> QED BY <2>1, <2>2
  <1>2. ASSUME NEW d \in Clients, ClientStep(d) PROVE ChannelStep(c)
    <2>0. client[d] \in ClientRecords BY DEF IInv, TypeOK
    <2>1. ASSUME NEW r, client' = [client EXCEPT ![d] = r], c # d PROVE ChannelStep(c)
      BY <2>1 DEF ChannelStep, IInv, TypeOK
    <2>2. ASSUME NEW k \in Keys, NEW refresh \in BOOLEAN, client[d].phase \in {"idle", "missed"},
                 SubscribeLocked(d, k, refresh)
          PROVE  ChannelStep(c)
      <3>1. CASE JoinFlight(d, k)
        <4>1. \E r : client' = [client EXCEPT ![d] = r] BY <3>1 DEF JoinFlight
        <4>2. live[k] \in Flights BY <3>1 DEF JoinFlight, IInv, TypeOK
        <4>3. client'[d].phase = "open"
          BY <3>1, <4>2, IdleType DEF JoinFlight, IInv, TypeOK, ClientRecords
        <4> QED BY <2>1, <4>1, <4>3 DEF ChannelStep
      <3>2. CASE RejectOldGeneration(d, k)
        <4>1. \E r : client' = [client EXCEPT ![d] = r] BY <3>2 DEF RejectOldGeneration
        <4>2. client'[d].phase = "closed" /\ client'[d].update.state = "cancelled"
              /\ client'[d].update.from = "fence"
          BY <3>2, IdleType DEF RejectOldGeneration, IInv, TypeOK, ClientRecords
        <4> QED BY <2>1, <2>2, <4>1, <4>2 DEF ChannelStep, Rejected
      <3>3. CASE NewFlight(d, k, refresh) BY <3>3, NewFlightChannel
      <3> QED BY <2>2, <3>1, <3>2, <3>3 DEF SubscribeLocked
    <2>3. ASSUME NEW k \in Keys, CheckCache(d, k) PROVE ChannelStep(c)
      <3>1. \E r : client' = [client EXCEPT ![d] = r] BY <2>3 DEF CheckCache
      <3>2. Looked(d)
        <4> DEFINE hit == [Idle EXCEPT !.phase = "hit", !.key = k,
                             !.update = [NoUpdate EXCEPT !.state = queries[k].state]]
                   miss == [Idle EXCEPT !.phase = "missed", !.key = k]
        <4>1. hit.phase = "hit" /\ hit.update.state = queries[k].state /\ miss.phase = "missed"
          BY IdleType DEF ClientRecords, NoUpdate
        <4>2. client'[d] = IF queries[k].state \in CacheTerminal THEN hit ELSE miss
          BY <2>3 DEF CheckCache, IInv, TypeOK
        <4>3. client[d].phase = "idle" BY <2>3 DEF CheckCache
        <4> HIDE DEF hit, miss
        <4> QED BY <4>1, <4>2, <4>3 DEF Looked
      <3> QED BY <2>1, <3>1, <3>2 DEF ChannelStep
    <2>4. CASE AnswerFromCache(d)
      <3>1. \A e \in Clients \ {d} : client'[e] = client[e]
        BY <2>4 DEF AnswerFromCache, IInv, TypeOK
      <3>2. /\ client'[d].phase = "closed" /\ client'[d].update.state = client[d].update.state
            /\ client'[d].update.from = "cache" /\ client[d].phase = "hit"
        BY <2>0, <2>4 DEF AnswerFromCache, IInv, TypeOK, ClientRecords, Updates
      <3>3. Answered(d) BY <3>2 DEF Answered
      <3> QED BY <3>1, <3>3 DEF ChannelStep
    <2>5. CASE Unsubscribe(d) \/ Leave(d)
      <3>1. client' = [client EXCEPT ![d] = Idle] BY <2>5, Zenon DEF Unsubscribe, Leave
      <3>2. client'[d].phase = "idle" BY <3>1 DEF IInv, TypeOK, Idle
      <3> QED BY <2>1, <3>1, <3>2 DEF ChannelStep
    <2>6. client[d].key \in Keys BY <2>0 DEF ClientRecords
    <2> QED BY <1>2, <2>2, <2>3, <2>4, <2>5, <2>6 DEF ClientStep, Refresh, Subscribe
  <1>3. CASE UNCHANGED vars BY <1>0, <1>3 DEF vars
  <1> QED BY <1>1, <1>2, <1>3 DEF Next

-----------------------------------------------------------------------------
(* Why a channel is closed. *)

Pending == {"queued", "loading", "refreshing"}

(* No entry stays queued, a hit is a final state, and the result of a      *)
(* flight somebody still waits for is a final one.                         *)
NeverQueued == \A k \in Keys : queries[k].state # "queued"
HitsSettled == \A c \in Clients : client[c].phase = "hit" => client[c].update.state \in CacheTerminal
FinalResults ==
  \A f \in Flights : flight[f].phase = "finishing" /\ flight[f].subs # {} =>
    flight[f].result.from = "flight" /\ flight[f].result.state \notin Pending

AInv ==
  /\ IInv /\ SubsLinked /\ NeverQueued /\ HitsSettled /\ FinalResults
  /\ EndWithoutResultMeansNewerGeneration

LEMMA QueuedNext ==
  ASSUME IInv, SubsLinked, NeverQueued, [Next]_vars
  PROVE  NeverQueued'
  <1> SUFFICES ASSUME NEW k \in Keys PROVE queries'[k].state # "queued" BY DEF NeverQueued
  <1>1. EntryStep(k) BY EntrySteps
  <1>2. queries[k] \in EntryRecords /\ queries[k].state # "queued" BY DEF IInv, TypeOK, NeverQueued
  <1>3. Absent.state # "queued" BY DEF Absent
  <1>4. ASSUME NEW f \in Flights, Paged(f, k) PROVE queries'[k].state # "queued"
    <2>1. Started(f, k) \in EntryRecords /\ Started(f, k).state # "queued"
      BY <1>2, StoreTypes, KeptByStore DEF Started
    <2> QED BY <1>4, <2>1, KeptByStore DEF Paged
  <1>5. ASSUME NEW f \in Flights, Completed(f, k) PROVE queries'[k].state # "queued"
    <2>1. Started(f, k) \in EntryRecords BY <1>2, StoreTypes DEF Started
    <2> QED BY <1>5, <2>1, KeptByStore DEF Completed
  <1>6. ASSUME Failed(k) PROVE queries'[k].state # "queued"
    <2>1. \A q \in {queries[k], Queue(queries[k])} : q \in EntryRecords BY <1>2, StoreTypes
    <2> QED BY <1>6, <2>1, KeptByStore DEF Failed, FailureStates
  <1>7. ASSUME NEW f \in Flights, Refreshed(f, k) PROVE queries'[k].state # "queued"
    BY <1>2, <1>7, KeptByStore DEF Refreshed
  <1> QED BY <1>1, <1>2, <1>3, <1>4, <1>5, <1>6, <1>7 DEF EntryStep

LEMMA HitsNext ==
  ASSUME IInv, SubsLinked, HitsSettled, [Next]_vars
  PROVE  HitsSettled'
  <1> SUFFICES ASSUME NEW c \in Clients, client'[c].phase = "hit"
               PROVE  client'[c].update.state \in CacheTerminal
    BY DEF HitsSettled
  <1>1. ChannelStep(c) BY ChannelSteps
  <1> QED BY <1>1 DEF ChannelStep, HitsSettled, Looked, Answered, Rejected, Superseded, Told

LEMMA LatestGrows ==
  ASSUME IInv, [Next]_vars, NEW k \in Keys
  PROVE  latest'[Lineage(k)] \in Nat /\ latest'[Lineage(k)] >= latest[Lineage(k)]
  <1>1. latest[Lineage(k)] \in Nat BY LineageNat DEF IInv
  <1>2. ASSUME NEW f \in Flights, RunStep(f) \/ ExecutorStep(f) PROVE UNCHANGED latest
    <2>1. Finish(f) => UNCHANGED latest BY DEF Finish
    <2> QED BY <1>2, <2>1, FlightLinks DEF LinksUnchanged
  <1>3. ASSUME NEW c \in Clients, ClientStep(c)
        PROVE  latest'[Lineage(k)] \in Nat /\ latest'[Lineage(k)] >= latest[Lineage(k)]
    <2>1. ASSUME NEW j \in Keys, NEW refresh \in BOOLEAN, SubscribeLocked(c, j, refresh)
          PROVE  latest'[Lineage(k)] \in Nat /\ latest'[Lineage(k)] >= latest[Lineage(k)]
      <3>1. JoinFlight(c, j) \/ RejectOldGeneration(c, j) => UNCHANGED latest
        BY DEF JoinFlight, RejectOldGeneration
      <3>2. CASE NewFlight(c, j, refresh)
        <4>1. latest' = [latest EXCEPT ![Lineage(j)] = j.gen] /\ latest[Lineage(j)] <= j.gen
          BY <3>2, Zenon DEF NewFlight
        <4>2. latest'[Lineage(k)] = IF Lineage(j) = Lineage(k) THEN j.gen ELSE latest[Lineage(k)]
          BY <4>1, LineageType DEF IInv, TypeOK
        <4>3. j.gen \in Nat BY LineageNat DEF IInv
        <4> QED BY <1>1, <4>1, <4>2, <4>3
      <3> QED BY <1>1, <2>1, <3>1, <3>2 DEF SubscribeLocked
    <2>2. \A j : CheckCache(c, j) => UNCHANGED latest BY DEF CheckCache
    <2>3. AnswerFromCache(c) \/ Leave(c) => UNCHANGED latest BY DEF AnswerFromCache, Leave
    <2>4. Unsubscribe(c) => UNCHANGED latest BY Zenon DEF Unsubscribe
    <2>5. client[c].key \in Keys BY DEF IInv, TypeOK, ClientRecords
    <2>6. UNCHANGED latest => latest'[Lineage(k)] \in Nat /\ latest'[Lineage(k)] >= latest[Lineage(k)]
      BY <1>1
    <2> QED BY <1>3, <2>1, <2>2, <2>3, <2>4, <2>5, <2>6 DEF ClientStep, Refresh, Subscribe
  <1>4. CASE UNCHANGED vars BY <1>1, <1>4 DEF vars
  <1> QED BY <1>1, <1>2, <1>3, <1>4 DEF Next

LEMMA EndsNext ==
  ASSUME AInv, [Next]_vars
  PROVE  EndWithoutResultMeansNewerGeneration'
  <1> SUFFICES ASSUME NEW c \in Clients, client'[c].phase = "closed",
                      client'[c].update.from = "none" \/ client'[c].update.state \in Pending
               PROVE  latest'[Lineage(client'[c].key)] > client'[c].key.gen
    BY DEF EndWithoutResultMeansNewerGeneration, Pending
  <1>1. ChannelStep(c) BY ChannelSteps DEF AInv
  <1>2. client[c].key \in Keys /\ client[c].key.gen \in Nat
    BY LineageNat DEF AInv, IInv, TypeOK, ClientRecords
  <1>3. latest'[Lineage(client[c].key)] \in Nat
        /\ latest'[Lineage(client[c].key)] >= latest[Lineage(client[c].key)]
    BY <1>2, LatestGrows DEF AInv
  <1>4. CASE client'[c] = client[c]
    <2>1. latest[Lineage(client[c].key)] > client[c].key.gen
      BY <1>4 DEF AInv, EndWithoutResultMeansNewerGeneration, Pending
    <2>2. latest[Lineage(client[c].key)] \in Nat BY <1>2, LineageNat DEF AInv, IInv
    <2> QED BY <1>2, <1>3, <1>4, <2>1, <2>2
  <1>5. ~Answered(c) BY DEF Answered, AInv, HitsSettled, CacheTerminal, Pending
  <1>6. ~Rejected(c) BY DEF Rejected, Pending
  <1>7. CASE Superseded(c) BY <1>7 DEF Superseded
  <1>8. ~Told(c) BY DEF Told, AInv, FinalResults
  <1> QED BY <1>1, <1>4, <1>5, <1>6, <1>7, <1>8 DEF ChannelStep, Looked

-----------------------------------------------------------------------------
(* The result a flight ends with. *)

ResultIsFinal(f) ==
  flight'[f].result.from = "flight" /\ flight'[f].result.state \notin Pending

LEMMA FinalUpdate ==
  ASSUME NEW s, NEW kind
  PROVE  Update(s, kind).from = "flight" /\ Update(s, kind).state = s
  BY DEF Update

(* Who waits for a flight that is past executing finds its entry at rest. *)
LEMMA RestingEntry ==
  ASSUME AInv, NEW f \in Flights, flight[f].subs # {},
         flight[f].phase \in {"completed", "finishing"}
  PROVE  queries[flight[f].key].state \notin Pending
  <1>1. flight[f].key \in Keys /\ live[flight[f].key] = f
    BY SubscriberKey DEF AInv, IInv, TypeOK, FlightRecords
  <1>2. ~Busy(queries[flight[f].key]) BY <1>1 DEF AInv, IInv, NoOrphanLoad
  <1> QED BY <1>1, <1>2 DEF AInv, NeverQueued, Busy, Pending

LEMMA FailResult ==
  ASSUME AInv, NEW f \in Flights, FailFlight(f), flight'[f].subs # {}
  PROVE  ResultIsFinal(f)
  <1> DEFINE k == flight[f].key
             kind == flight[f].failure
             End(qs, began) == [flight[f] EXCEPT !.phase = "finishing", !.began = began,
                     !.failure = "none",
                     !.result = Update(StateOr(qs, k, FailureState(kind)), kind)]
  <1>1. LinksUnchanged BY FlightLinks DEF AInv, RunStep, Finish, FailFlight
  <1>2. flight[f].subs # {} BY <1>1 DEF LinksUnchanged
  <1>3. k \in Keys /\ live[k] = f
    BY <1>2, SubscriberKey DEF AInv, IInv, TypeOK, FlightRecords
  <1>4. CanCommit(f) BY <1>3, CanCommitLive DEF AInv
  <1>5. \E began : flight' = [flight EXCEPT ![f] = End(queries', began)]
    BY <1>4, ZenonT(40) DEF FailFlight
  <1>6. FailureState(kind) \notin Pending BY DEF FailureState, Pending
  <1>7. queries'[k].state \notin Pending
    <2>1. IInv' /\ NeverQueued' BY InvNext, QueuedNext DEF AInv, Next, RunStep
    <2>2. live'[k] = f BY <1>1, <1>3 DEF LinksUnchanged
    <2>3. flight'[f].phase = "finishing"
      <3>1. \A began : End(queries', began).phase = "finishing" BY DEF AInv, IInv, TypeOK, FlightRecords
      <3> HIDE DEF End
      <3> QED BY <1>5, <3>1 DEF AInv, IInv, TypeOK
    <2>4. ~Busy(queries'[k]) BY <1>3, <2>1, <2>2, <2>3 DEF IInv, NoOrphanLoad
    <2> QED BY <1>3, <2>1, <2>4 DEF NeverQueued, Busy, Pending
  <1>8. StateOr(queries', k, FailureState(kind)) \notin Pending BY <1>6, <1>7 DEF StateOr
  <1>9. \A began : /\ End(queries', began).result.from = "flight"
                   /\ End(queries', began).result.state = StateOr(queries', k, FailureState(kind))
    <2>1. \A began, u : [flight[f] EXCEPT !.phase = "finishing", !.began = began,
                     !.failure = "none", !.result = u].result = u
      BY DEF AInv, IInv, TypeOK, FlightRecords
    <2> QED BY <2>1, FinalUpdate
  <1> HIDE DEF End
  <1> QED BY <1>5, <1>8, <1>9 DEF ResultIsFinal, AInv, IInv, TypeOK

(* A flight that ends gets its result then; later steps leave it. *)
LEMMA ResultSteps ==
  ASSUME AInv, [Next]_vars, NEW f \in Flights, flight'[f].phase = "finishing", flight'[f].subs # {}
  PROVE  ResultIsFinal(f)
  <1> DEFINE Same == /\ flight[f].phase = "finishing" /\ flight'[f].result = flight[f].result
                     /\ flight[f].subs # {}
  <1>1. Same => ResultIsFinal(f) BY DEF ResultIsFinal, AInv, FinalResults
  <1>2. flight[f] \in FlightRecords BY DEF AInv, IInv, TypeOK
  <1>3. flight'[f] = flight[f] => Same OBVIOUS
  <1>4. ASSUME NEW g \in Flights, RunStep(g) \/ ExecutorStep(g) PROVE ResultIsFinal(f)
    <2>1. CASE g # f
      <3>1. \E r : flight' = [flight EXCEPT ![g] = r]
        <4>1. \A outcome : Return(g, outcome) => \E r : flight' = [flight EXCEPT ![g] = r]
          BY ZenonT(40) DEF Return
        <4>2. \A rows, whole : Page(g, rows, whole) => \E r : flight' = [flight EXCEPT ![g] = r]
          BY ZenonT(40) DEF Page, Reject
        <4>3. Start(g) => \E r : flight' = [flight EXCEPT ![g] = r] BY ZenonT(40) DEF Start
        <4>4. FailFlight(g) => \E r : flight' = [flight EXCEPT ![g] = r] BY ZenonT(40) DEF FailFlight
        <4>5. CompleteFlight(g) => \E r : flight' = [flight EXCEPT ![g] = r]
          BY ZenonT(40) DEF CompleteFlight
        <4>6. CancelQueued(g) \/ ReadResult(g) \/ Finish(g) \/ Complete(g)
                => \E r : flight' = [flight EXCEPT ![g] = r]
          BY Zenon DEF CancelQueued, ReadResult, Finish, Complete, Reject
        <4> QED BY <1>4, <4>1, <4>2, <4>3, <4>4, <4>5, <4>6 DEF RunStep, ExecutorStep
      <3>2. flight'[f] = flight[f] BY <2>1, <3>1 DEF AInv, IInv, TypeOK
      <3> QED BY <1>1, <1>3, <3>2
    <2>2. CASE g = f
      <3>1. CASE CancelQueued(f)
        <4>1. flight'[f].result = Update("cancelled", "none")
          BY <1>2, <3>1 DEF CancelQueued, AInv, IInv, TypeOK, FlightRecords
        <4> QED BY <4>1, FinalUpdate DEF ResultIsFinal, Pending
      <3>2. CASE Start(f)
        <4>1. CASE CanCommit(f)
          <5>1. flight'[f].phase = "executing"
            <6>1. \E begin : flight' = [flight EXCEPT ![f] = [@ EXCEPT !.phase = "executing",
                                            !.slot = TRUE, !.began = begin]]
              BY <3>2, <4>1, Zenon DEF Start
            <6> QED BY <1>2, <6>1 DEF AInv, IInv, TypeOK, FlightRecords
          <5> QED BY <5>1
        <4>2. CASE ~CanCommit(f)
          <5>1. flight'[f].result = Update("cancelled", "none")
            BY <1>2, <3>2, <4>2 DEF Start, AInv, IInv, TypeOK, FlightRecords
          <5> QED BY <5>1, FinalUpdate DEF ResultIsFinal, Pending
        <4> QED BY <4>1, <4>2
      <3>3. CASE ReadResult(f)
        <4>1. /\ flight'[f].result = Update(queries[flight[f].key].state, "none")
              /\ flight[f].phase = "completed" /\ flight'[f].subs = flight[f].subs
          BY <1>2, <3>3 DEF ReadResult, AInv, IInv, TypeOK, FlightRecords
        <4>2. queries[flight[f].key].state \notin Pending BY <4>1, RestingEntry
        <4> QED BY <4>1, <4>2, FinalUpdate DEF ResultIsFinal
      <3>4. CASE FailFlight(f) BY <3>4, FailResult
      <3>5. CASE Finish(f)
        <4>1. flight'[f] = Ended(f) BY <3>5 DEF Finish, AInv, IInv, TypeOK
        <4>2. Ended(f).phase = "done" BY UnusedType DEF Ended, FlightRecords
        <4> QED BY <4>1, <4>2
      <3>6. CompleteFlight(f) \/ Complete(f) => flight'[f].phase # "finishing"
        BY <1>2 DEF CompleteFlight, Complete, Reject, AInv, IInv, TypeOK, FlightRecords
      <3>7. ASSUME NEW rows, NEW whole, Page(f, rows, whole) PROVE flight'[f].phase # "finishing"
        <4>1. /\ flight[f].phase = "executing"
              /\ \/ flight' = [flight EXCEPT ![f].broken = TRUE]
                 \/ \E n : flight' = [flight EXCEPT ![f] = [@ EXCEPT !.began = TRUE, !.partial = n]]
          BY <3>7, ZenonT(40) DEF Page, Reject
        <4>2. flight'[f].phase = flight[f].phase
          
          <5>1. flight \in [Flights -> FlightRecords] BY DEF AInv, IInv, TypeOK
          <5> QED BY <1>2, <4>1, <5>1 DEF FlightRecords
        <4> QED BY <4>1, <4>2
      <3>8. ASSUME NEW outcome, Return(f, outcome) PROVE flight'[f].phase # "finishing"
        <4>1. PICK phase \in {"completing", "failing"} : \E kind :
                flight' = [flight EXCEPT ![f] = [@ EXCEPT !.phase = phase, !.failure = kind,
                                                          !.broken = FALSE, !.terminal = FALSE]]
          BY <3>8, ZenonT(40) DEF Return
        <4>2. flight'[f].phase = phase BY <1>2, <4>1 DEF AInv, IInv, TypeOK, FlightRecords
        <4> QED BY <4>2
      <3> QED BY <1>4, <2>2, <3>1, <3>2, <3>3, <3>4, <3>5, <3>6, <3>7, <3>8 DEF RunStep, ExecutorStep
    <2> QED BY <2>1, <2>2
  <1>5. ASSUME NEW c \in Clients, ClientStep(c) PROVE Same
    <2>1. ASSUME NEW k \in Keys, NEW refresh \in BOOLEAN, SubscribeLocked(c, k, refresh) PROVE Same
      <3>1. CASE JoinFlight(c, k)
        <4>1. live[k] \in Flights /\ flight[live[k]].subs # {}
          BY <3>1, LiveKey DEF JoinFlight, AInv, IInv, LiveIndex
        <4>2. /\ flight'[f].phase = flight[f].phase /\ flight'[f].result = flight[f].result
              /\ f # live[k] => flight'[f] = flight[f]
          BY <1>2, <3>1 DEF JoinFlight, AInv, IInv, TypeOK, FlightRecords
        <4> QED BY <4>1, <4>2
      <3>2. RejectOldGeneration(c, k) => UNCHANGED flight BY DEF RejectOldGeneration
      <3>3. CASE NewFlight(c, k, refresh)
        <4> DEFINE new == [Unused EXCEPT !.phase = "queued", !.key = k, !.subs = {c}, !.refresh = refresh]
                   gone == [flight[f] EXCEPT !.retired = TRUE, !.subs = {}, !.cancelled = TRUE]
        <4>1. flight'[f] \in {new, gone, flight[f]}
          <5>1. \E old : flight' = [g \in Flights |->
                  CASE g = allocated + 1 -> [Unused EXCEPT !.phase = "queued", !.key = k, !.subs = {c}, !.refresh = refresh]
                    [] g # allocated + 1 /\ g \in old ->
                         [flight[g] EXCEPT !.retired = TRUE, !.subs = {}, !.cancelled = TRUE]
                    [] OTHER -> flight[g]]
            BY <3>3, Zenon DEF NewFlight
          <5> QED BY <5>1, Zenon
        <4>2. new.phase = "queued" /\ gone.subs = {} BY <1>2, UnusedType DEF FlightRecords
        <4> HIDE DEF new, gone
        <4> QED BY <1>3, <4>1, <4>2
      <3> QED BY <1>3, <2>1, <3>1, <3>2, <3>3 DEF SubscribeLocked
    <2>2. \A j : CheckCache(c, j) => UNCHANGED flight BY DEF CheckCache
    <2>3. AnswerFromCache(c) \/ Leave(c) => UNCHANGED flight BY DEF AnswerFromCache, Leave
    <2>4. CASE Unsubscribe(c)
      <3> DEFINE g == client[c].flight
                 left == flight[g].subs \ {c}
      <3>1. PICK retired, cancelled :
              flight' = [flight EXCEPT ![g] = [@ EXCEPT !.subs = left, !.retired = retired,
                                                       !.cancelled = cancelled]]
        BY <2>4, Zenon DEF Unsubscribe
      <3> DEFINE r == [flight[g] EXCEPT !.subs = left, !.retired = retired, !.cancelled = cancelled]
      <3>2. CASE g = f
        <4>1. r.phase = flight[f].phase /\ r.result = flight[f].result /\ r.subs = left
          BY <1>2, <3>2 DEF FlightRecords
        <4> HIDE DEF r
        <4>2. flight'[f] = r BY <3>1, <3>2 DEF AInv, IInv, TypeOK, r
        <4> QED BY <3>2, <4>1, <4>2
      <3>3. CASE g # f
        <4>1. flight'[f] = flight[f] BY <3>1, <3>3 DEF AInv, IInv, TypeOK
        <4> QED BY <1>3, <4>1
      <3> QED BY <3>2, <3>3
    <2>5. client[c].key \in Keys BY DEF AInv, IInv, TypeOK, ClientRecords
    <2> QED BY <1>3, <1>5, <2>1, <2>2, <2>3, <2>4, <2>5 DEF ClientStep, Refresh, Subscribe
  <1>6. CASE UNCHANGED vars BY <1>1, <1>3, <1>6 DEF vars
  <1> QED BY <1>1, <1>4, <1>5, <1>6 DEF Next

LEMMA AnswersInit == Init => SubsLinked /\ NeverQueued /\ HitsSettled /\ FinalResults
                             /\ EndWithoutResultMeansNewerGeneration
  BY DEF Init, SubsLinked, NeverQueued, HitsSettled, FinalResults,
         EndWithoutResultMeansNewerGeneration, Idle, Unused, Absent

LEMMA AnswersNext == AInv /\ [Next]_vars => AInv'
  <1> SUFFICES ASSUME AInv, [Next]_vars PROVE AInv' OBVIOUS
  <1>1. IInv' BY InvNext DEF AInv
  <1>2. SubsLinked' BY LinksNext DEF AInv
  <1>3. NeverQueued' BY QueuedNext DEF AInv
  <1>4. HitsSettled' BY HitsNext DEF AInv
  <1>5. FinalResults' BY ResultSteps DEF FinalResults, ResultIsFinal
  <1>6. EndWithoutResultMeansNewerGeneration' BY EndsNext
  <1> QED BY <1>1, <1>2, <1>3, <1>4, <1>5, <1>6 DEF AInv

-----------------------------------------------------------------------------
(* What follows for every behaviour. *)

LEMMA Answers == Spec => []AInv
  <1>1. Init => AInv BY InvInit, AnswersInit DEF AInv
  <1>2. AInv /\ [Next]_vars => AInv' BY AnswersNext
  <1> QED BY <1>1, <1>2, PTL DEF Spec

LEMMA Pages == Spec => []PagesOwned
  <1>1. AInv => IInv /\ SubsLinked BY DEF AInv
  <1>2. AInv /\ PagesOwned /\ [Next]_vars => PagesOwned' BY <1>1, PagesNext
  <1> QED BY <1>2, PagesInit, Answers, PTL DEF Spec

(* No subscriber is forgotten: an open channel has a live flight that will  *)
(* close it, and one closed without a result was replaced by a newer        *)
(* generation (query.go, retireLocked, finish and closeSubscriberLocked).   *)
THEOREM NobodyIsForgotten == Spec => []SubscribersAccountedFor
  <1>1. AInv => SubscribersAccountedFor
    <2> SUFFICES ASSUME AInv PROVE OpenSubscriptionHasFlight
      BY DEF AInv, SubscribersAccountedFor
    <2> SUFFICES ASSUME NEW c \in Clients, client[c].phase = "open"
                 PROVE  LET f == client[c].flight IN
                        /\ f # 0
                        /\ c \in flight[f].subs
                        /\ ~flight[f].retired
                        /\ flight[f].phase \notin {"none", "done"}
                        /\ live[client[c].key] = f
      BY DEF OpenSubscriptionHasFlight
    <2>1. client[c].flight \in Flights /\ client[c].flight # 0
      BY BoundsAssumption DEF AInv, IInv, ClientLink, Flights
    <2>2. client[c].key \in Keys BY DEF AInv, IInv, TypeOK, ClientRecords
    <2> QED BY <2>1, <2>2 DEF AInv, IInv, SubsLinked, LiveIndex
  <1> QED BY <1>1, Answers, PTL

(* No page of a retired flight, and none that comes after its executor      *)
(* returned, ever enters the store (query.go, canCommitLocked).             *)
THEOREM LateCommitsRefused == Spec => OnlyLiveFlightsCommit
  <1>1. AInv /\ [Next]_vars =>
          [\A k \in Keys, f \in Flights :
             (\E p \in (queries'[k].pages \cup queries'[k].staged)
                        \ (queries[k].pages \cup queries[k].staged) : p.by = f)
             => ~flight[f].retired /\ flight[f].subs # {} /\ flight[f].phase = "executing"]_vars
    BY CommitStep DEF AInv
  <1> QED BY <1>1, Answers, PTL DEF Spec, OnlyLiveFlightsCommit

(* The pages of an entry come from one flight, and a refresh leaves the     *)
(* last completed result as it is until it has completed itself (store.go,  *)
(* BeginRefresh, CommitPage and CompleteQuery).                             *)
THEOREM AttemptsApart == Spec => AttemptsKeptApart
  <1>1. PagesOwned => PagesFromOneFlight
    <2> SUFFICES ASSUME PagesOwned, NEW k \in Keys
                 PROVE  /\ \A p, q \in queries[k].pages : p.by = q.by
                        /\ \A p, q \in queries[k].staged : p.by = q.by
      BY DEF PagesFromOneFlight
    <2> QED BY DEF PagesOwned
  <1>2. AInv /\ [Next]_vars =>
          [\A k \in Keys :
             /\ queries[k].state = "refreshing"
             /\ queries'[k].state \notin {"ready", "empty", "not_loaded"}
             => /\ queries'[k].pages = queries[k].pages
                /\ queries'[k].observed = queries[k].observed]_vars
    BY RefreshStep DEF AInv
  <1> QED BY <1>1, <1>2, Pages, Answers, PTL
       DEF Spec, AttemptsKeptApart, RefreshKeepsLastResult

-----------------------------------------------------------------------------
(* The coordinator implements QueryService, step by step. *)

shownNow == [k \in Keys |-> [state |-> ShownState(queries[k].state), pages |-> queries[k].pages]]
asksNow  == [c \in Clients |-> [state |-> AskState(client[c].phase), key |-> client[c].key]]
shownNext == [k \in Keys |-> [state |-> ShownState(queries'[k].state), pages |-> queries'[k].pages]]
asksNext  == [c \in Clients |-> [state |-> AskState(client'[c].phase), key |-> client'[c].key]]

ServiceStep == Service!ServiceNext \/ UNCHANGED Service!serviceVars

LEMMA ServiceKeys == Service!Keys = Keys /\ \A k : Service!Lineage(k) = Lineage(k)
  BY DEF Service!Keys, Keys, Gens, Service!Lineage, Lineage

LEMMA ShownStates ==
  /\ ShownState("not_loaded") = "absent"
  /\ ShownState("queued") = "loading" /\ ShownState("loading") = "loading"
  /\ ShownState("refreshing") = "refreshing"
  /\ \A s \in Readable : ShownState(s) = "result"
  /\ \A s \in FailureStates : ShownState(s) = "failed"
  BY DEF ShownState, Readable, FailureStates

LEMMA ShownKinds ==
  ASSUME NEW s \in LoadStates
  PROVE  /\ ShownState(s) \in {"absent", "loading", "refreshing", "result", "failed"}
         /\ ShownState(s) \in {"loading", "refreshing"} <=> s \in Pending
         /\ ShownState(s) = "refreshing" <=> s = "refreshing"
         /\ ShownState(s) = "loading" => s \in {"queued", "loading"}
         /\ ShownState(s) = "absent" <=> s = "not_loaded"
         /\ ShownState(s) = "result" <=> s \in Readable
  BY ShownStates DEF LoadStates, Readable, FailureStates, Pending

LEMMA AskStates ==
  /\ AskState("idle") = "idle" /\ AskState("missed") = "asking" /\ AskState("open") = "asking"
  /\ AskState("hit") = "told" /\ AskState("closed") = "told"
  BY DEF AskState

(* Nothing a caller could see. *)
LEMMA Stutters ==
  ASSUME AInv, UNCHANGED latest,
         \A k \in Keys : /\ ShownState(queries'[k].state) = ShownState(queries[k].state)
                         /\ queries'[k].pages = queries[k].pages,
         \A c \in Clients : /\ AskState(client'[c].phase) = AskState(client[c].phase)
                            /\ client'[c].key = client[c].key
  PROVE  ServiceStep
  <1>1. shownNext = shownNow /\ asksNext = asksNow BY DEF shownNext, shownNow, asksNext, asksNow
  <1> QED BY <1>1 DEF ServiceStep, Service!serviceVars, shownNext, shownNow, asksNext, asksNow

(* One entry changes, on behalf of the clients that wait for it. *)
LEMMA Loads ==
  ASSUME AInv, AInv', NEW f \in Flights, NEW k \in Keys, UNCHANGED latest,
         \A j \in Keys \ {k} : queries'[j] = queries[j],
         \A c \in Clients : /\ AskState(client'[c].phase) = AskState(client[c].phase)
                            /\ client'[c].key = client[c].key,
         live[k] = f, flight[f].key = k, flight[f].subs # {},
         Refreshed(f, k) \/ Paged(f, k) \/ Completed(f, k) \/ Failed(k)
  PROVE  ServiceStep
  <1> DEFINE old == [state |-> ShownState(queries[k].state), pages |-> queries[k].pages]
             new == [state |-> ShownState(queries'[k].state), pages |-> queries'[k].pages]
  <1>1. queries[k] \in EntryRecords /\ queries'[k] \in EntryRecords
    BY DEF AInv, IInv, TypeOK
  <1>2. queries[k].state \in LoadStates /\ queries'[k].state \in LoadStates
        /\ queries'[k].pages \subseteq PageRecords
    BY <1>1 DEF EntryRecords
  <1>3. PICK c \in flight[f].subs : TRUE OBVIOUS
  <1>4. c \in Clients /\ client[c].phase = "open" /\ client[c].key = k /\ latest[Lineage(k)] = k.gen
    BY SubscriberKey DEF AInv
  <1>5. c \in Service!Asking(k)
    BY <1>4, AskStates DEF Service!Asking
  <1>6. Service!MayBecome(old, new)
    <2> DEFINE s == Started(f, k)
    <2>1. s \in EntryRecords BY <1>1, StoreTypes DEF Started
    <2>2. /\ new.state # "absent"
          /\ new.state = "refreshing" => old.state \in {"result", "refreshing"}
          /\ "refreshing" \in {old.state, new.state} /\ new.state # "result" => new.pages = old.pages
      <3>1. CASE Refreshed(f, k)
        <4>1. queries[k].state \in Readable BY <3>1 DEF Refreshed
        <4>2. \/ queries'[k].state = "refreshing" /\ queries'[k].pages = queries[k].pages
              \/ queries'[k].state = "loading"
          BY <1>1, <3>1, KeptByStore DEF Refreshed
        <4> QED BY <4>1, <4>2, ShownStates
      <3>2. CASE Paged(f, k)
        <4>1. CASE s.state = "refreshing"
          <5>1. s = queries[k] BY <1>1, <4>1, KeptByStore DEF Started
          <5>2. queries'[k].state = "refreshing" /\ queries'[k].pages = queries[k].pages
                /\ queries[k].state = "refreshing"
            BY <1>1, <3>2, <4>1, <5>1, KeptByStore DEF Paged
          <5> QED BY <5>2, ShownStates
        <4>2. CASE s.state = "loading"
          <5>1. queries'[k].state = "loading" BY <2>1, <3>2, <4>2, KeptByStore DEF Paged
          <5>2. queries[k].state # "refreshing"
            <6>1. CASE flight[f].began
              <7>1. s = queries[k] BY <6>1 DEF Started
              <7> QED BY <4>2, <7>1
            <6>2. CASE ~flight[f].began BY <3>2, <6>2 DEF Paged, Busy
            <6> QED BY <6>1, <6>2
          <5>3. ShownState(queries[k].state) # "refreshing" BY <1>2, <5>2, ShownKinds
          <5> QED BY <5>1, <5>3, ShownStates
        <4> QED BY <3>2, <4>1, <4>2 DEF Paged, Busy
      <3>3. CASE Completed(f, k)
        <4>1. queries'[k].state \in {"ready", "empty"} BY <2>1, <3>3, KeptByStore DEF Completed
        <4> QED BY <4>1, ShownStates DEF Readable
      <3>4. CASE Failed(k)
        <4>1. PICK q \in {queries[k], Queue(queries[k])}, t \in FailureStates :
                /\ q = queries[k] \/ ~Busy(queries[k])
                /\ queries'[k] = FailQuery(q, t)
          BY <3>4 DEF Failed
        <4>2. Queue(queries[k]) \in EntryRecords /\ Queue(queries[k]).pages = queries[k].pages
          BY <1>1, StoreTypes, KeptByStore
        <4>3. q \in EntryRecords /\ q.pages = queries[k].pages
          BY <1>1, <4>2
        <4>4. /\ queries'[k].pages = queries[k].pages
              /\ queries'[k].state \in {"stale"} \cup FailureStates
          BY <4>1, <4>3, KeptByStore
        <4>5. new.state \in {"result", "failed"} BY <4>4, ShownStates DEF Readable
        <4> QED BY <4>4, <4>5
      <3> QED BY <3>1, <3>2, <3>3, <3>4
    <2> HIDE DEF old, new
    <2> QED BY <2>2 DEF Service!MayBecome
  <1>7. new \in Service!Shown
    BY <1>2, ShownKinds DEF Service!Shown
  <1>8. shownNext = [shownNow EXCEPT ![k] = new]
    BY DEF shownNext, shownNow
  <1>9. asksNext = asksNow BY DEF asksNext, asksNow
  <1>10. shownNow[k] = old /\ shownNext[k] = new BY DEF shownNow, shownNext
  <1>11. Service!Load(k)
    <2> HIDE DEF old, new
    <2> QED BY <1>4, <1>5, <1>6, <1>7, <1>8, <1>9, <1>10, ServiceKeys
         DEF Service!Load, shownNow, shownNext, asksNow, asksNext
  <1> QED BY <1>11, ServiceKeys DEF ServiceStep, Service!ServiceNext

(* What AWS disowns goes. *)
LEMMA Forgets ==
  ASSUME AInv, UNCHANGED latest, NEW gone \in SUBSET Keys,
         \A k \in Keys : queries'[k] = IF k \in gone THEN Absent ELSE queries[k],
         \A c \in Clients : /\ AskState(client'[c].phase) = AskState(client[c].phase)
                            /\ client'[c].key = client[c].key
  PROVE  ServiceStep
  <1>1. shownNext = [k \in Keys |-> IF k \in gone THEN Service!Nothing ELSE shownNow[k]]
    BY ShownStates DEF shownNext, shownNow, Absent, Service!Nothing
  <1>2. asksNext = asksNow BY DEF asksNext, asksNow
  <1>3. Service!Forget(gone)
    BY <1>1, <1>2, ServiceKeys DEF Service!Forget, shownNow, shownNext, asksNow, asksNext
  <1> QED BY <1>3, ServiceKeys DEF ServiceStep, Service!ServiceNext

LEMMA OneEntry ==
  ASSUME AInv, AInv', NEW f \in Flights, NEW k \in Keys, UNCHANGED latest,
         \A j \in Keys \ {k} : queries'[j] = queries[j], EntryStep(k),
         \A c \in Clients : /\ AskState(client'[c].phase) = AskState(client[c].phase)
                            /\ client'[c].key = client[c].key
  PROVE  ServiceStep
  <1>1. CASE queries'[k] = queries[k]
    <2>1. \A j \in Keys : queries'[j] = queries[j] BY <1>1
    <2> QED BY <2>1, Stutters
  <1>2. CASE queries'[k] = Absent
    <2>1. \A j \in Keys : queries'[j] = IF j \in {k} THEN Absent ELSE queries[j] BY <1>2
    <2> QED BY <2>1, Forgets
  <1>3. CASE \E g \in Flights :
          /\ live[k] = g /\ flight[g].key = k /\ ~flight[g].retired /\ flight[g].subs # {}
          /\ Refreshed(g, k) \/ Paged(g, k) \/ Completed(g, k) \/ Failed(k)
    BY <1>3, Loads
  <1> QED BY <1>1, <1>2, <1>3 DEF EntryStep

LEMMA FlightRefines ==
  ASSUME AInv, AInv', NEW f \in Flights, RunStep(f) \/ ExecutorStep(f), ~Finish(f)
  PROVE  ServiceStep
  <1> DEFINE k == flight[f].key
  <1>0. k \in Keys BY DEF AInv, IInv, TypeOK, FlightRecords
  <1>1. LinksUnchanged BY FlightLinks DEF AInv
  <1>2. /\ UNCHANGED latest
        /\ \A c \in Clients : /\ AskState(client'[c].phase) = AskState(client[c].phase)
                              /\ client'[c].key = client[c].key
    BY <1>1 DEF LinksUnchanged
  <1>3. [Next]_vars BY DEF Next
  <1>4. EntryStep(k) BY <1>0, <1>3, EntrySteps DEF AInv
  <1>5. CASE FailFlight(f) /\ flight[f].failure = "context_changed"
    <2> DEFINE gone == {j \in Keys : j.scope = k.scope /\ j.gen = k.gen}
    <2>1. queries' = InvalidateContext(queries, k.scope, k.gen) BY <1>5, Zenon DEF FailFlight
    <2>2. \A j \in Keys : queries'[j] = IF j \in gone THEN Absent ELSE queries[j]
      BY <2>1 DEF InvalidateContext, AInv, IInv, TypeOK
    <2> QED BY <1>2, <2>2, Forgets
  <1>6. CASE ~(FailFlight(f) /\ flight[f].failure = "context_changed")
    <2>1. UNCHANGED queries \/ \E e : queries' = [queries EXCEPT ![k] = e]
      <3>1. Start(f) => UNCHANGED queries \/ \E e : queries' = [queries EXCEPT ![k] = e]
        BY Zenon DEF Start
      <3>2. \A rows, whole : Page(f, rows, whole) =>
              UNCHANGED queries \/ \E e : queries' = [queries EXCEPT ![k] = e]
        BY Zenon DEF Page, Reject
      <3>3. CompleteFlight(f) => UNCHANGED queries \/ \E e : queries' = [queries EXCEPT ![k] = e]
        BY Zenon DEF CompleteFlight
      <3>4. FailFlight(f) => UNCHANGED queries \/ \E e : queries' = [queries EXCEPT ![k] = e]
        BY <1>6, Zenon DEF FailFlight
      <3>5. \A outcome : Return(f, outcome) => UNCHANGED queries BY Zenon DEF Return
      <3>6. CancelQueued(f) \/ ReadResult(f) \/ Complete(f) => UNCHANGED queries
        BY DEF CancelQueued, ReadResult, Complete, Reject
      <3> QED BY <3>1, <3>2, <3>3, <3>4, <3>5, <3>6 DEF RunStep, ExecutorStep
    <2>2. \A j \in Keys \ {k} : queries'[j] = queries[j] BY <2>1 DEF AInv, IInv, TypeOK
    <2> QED BY <1>0, <1>2, <1>4, <2>2, OneEntry
  <1> QED BY <1>5, <1>6

(* Everybody who waits on a flight that has ended is told. *)
LEMMA Tells ==
  ASSUME AInv, NEW k \in Keys, NEW told \in SUBSET Clients, UNCHANGED <<queries, latest>>,
         \A c \in told : client[c].phase = "open" /\ client[c].key = k,
         queries[k].state \notin Pending,
         \A c \in Clients :
           /\ client'[c].key = client[c].key
           /\ client'[c].phase = IF c \in told THEN "closed" ELSE client[c].phase
  PROVE  ServiceStep
  <1>1. queries[k].state \in LoadStates BY DEF AInv, IInv, TypeOK, EntryRecords
  <1>2. shownNow[k].state \notin {"loading", "refreshing"} BY <1>1, ShownKinds DEF shownNow
  <1>3. told \subseteq Service!Asking(k) BY AskStates DEF Service!Asking
  <1>4. asksNext = [c \in Clients |-> IF c \in told THEN [asksNow[c] EXCEPT !.state = "told"] ELSE asksNow[c]]
    BY AskStates DEF asksNext, asksNow
  <1>5. shownNext = shownNow BY DEF shownNext, shownNow
  <1>6. Service!Tell(k, told)
    BY <1>2, <1>3, <1>4, <1>5 DEF Service!Tell, shownNow, shownNext, asksNow, asksNext
  <1> QED BY <1>6, ServiceKeys DEF ServiceStep, Service!ServiceNext

LEMMA FinishRefines ==
  ASSUME AInv, AInv', NEW f \in Flights, Finish(f)
  PROVE  ServiceStep
  <1> DEFINE k == flight[f].key
             told == flight[f].subs
  <1>0. k \in Keys /\ told \subseteq Clients /\ flight[f].result \in Updates
        /\ flight[f].phase = "finishing"
    BY DEF AInv, IInv, TypeOK, FlightRecords, Finish
  <1>1. client' = Close(Deliver(f), told) /\ UNCHANGED <<queries, latest>>
    BY Zenon DEF Finish
  <1>2. /\ Deliver(f) \in [Clients -> ClientRecords]
        /\ \A c \in Clients : /\ Deliver(f)[c].phase = client[c].phase
                              /\ Deliver(f)[c].key = client[c].key
    BY <1>0, PublishType, PublishKeeps DEF Deliver, AInv, IInv, TypeOK
  <1>3. \A c \in Clients :
          /\ client'[c].key = client[c].key
          /\ client'[c].phase = IF c \in told THEN "closed" ELSE client[c].phase
    BY <1>1, <1>2, CloseKeeps
  <1>4. CASE told = {} BY <1>1, <1>3, <1>4, Stutters
  <1>5. CASE told # {}
    <2>1. queries[k].state \notin Pending BY <1>0, <1>5, RestingEntry
    <2>2. \A c \in told : client[c].phase = "open" /\ client[c].key = k
      BY SubscriberKey DEF AInv
    <2> HIDE DEF k, told
    <2> QED BY <1>0, <1>1, <1>3, <2>1, <2>2, Tells
  <1> QED BY <1>4, <1>5

-----------------------------------------------------------------------------
(* The callers' steps. *)

(* Only client c changes, to ask for, or be told about, key k. *)
LEMMA OneClient ==
  ASSUME AInv, NEW c \in Clients, NEW k \in Keys, UNCHANGED queries,
         \A d \in Clients \ {c} : client'[d] = client[d],
         client'[c].key = k
  PROVE  /\ shownNext = shownNow
         /\ asksNext = [asksNow EXCEPT ![c] = [state |-> AskState(client'[c].phase), key |-> k]]
  BY DEF shownNext, shownNow, asksNext, asksNow

LEMMA AskRefines ==
  ASSUME AInv, NEW c \in Clients, NEW k \in Keys, UNCHANGED <<queries, latest>>,
         \A d \in Clients \ {c} : client'[d] = client[d], client'[c].key = k,
         client[c].phase \in {"idle", "missed"}, client[c].phase = "missed" => client[c].key = k,
         client'[c].phase \in {"missed", "open"}
  PROVE  ServiceStep
  <1>1. CASE client[c].phase = "missed"
    <2>1. \A d \in Clients : /\ AskState(client'[d].phase) = AskState(client[d].phase)
                             /\ client'[d].key = client[d].key
      BY <1>1, AskStates
    <2> QED BY <2>1, Stutters
  <1>2. CASE client[c].phase = "idle"
    <2>1. shownNext = shownNow /\ asksNext = [asksNow EXCEPT ![c] = [state |-> "asking", key |-> k]]
      BY OneClient, AskStates
    <2>2. Service!Ask(c, k)
      BY <1>2, <2>1, AskStates
         DEF Service!Ask, Service!Become, shownNow, shownNext, asksNow, asksNext
    <2> QED BY <2>2, ServiceKeys DEF ServiceStep, Service!ServiceNext
  <1> QED BY <1>1, <1>2

LEMMA AnswerAtOnceRefines ==
  ASSUME AInv, NEW c \in Clients, NEW k \in Keys, UNCHANGED <<queries, latest>>,
         \A d \in Clients \ {c} : client'[d] = client[d], client'[c].key = k,
         client'[c].phase \in {"hit", "closed"},
         \/ client[c].phase = "idle" /\ queries[k].state \in CacheTerminal
         \/ /\ latest[Lineage(k)] > k.gen
            /\ client[c].phase = "idle" \/ (client[c].phase = "missed" /\ client[c].key = k)
  PROVE  ServiceStep
  <1>1. shownNext = shownNow /\ asksNext = [asksNow EXCEPT ![c] = [state |-> "told", key |-> k]]
    BY OneClient, AskStates
  <1>2. queries[k].state \in CacheTerminal => ShownState(queries[k].state) \in {"result", "failed"}
    BY ShownStates DEF CacheTerminal, Readable, FailureStates
  <1>3. client[c].phase = "missed" /\ client[c].key = k => c \in Service!Asking(k)
    BY AskStates DEF Service!Asking
  <1>4. Service!AnswerAtOnce(c, k)
    BY <1>1, <1>2, <1>3, AskStates, ServiceKeys
       DEF Service!AnswerAtOnce, Service!Become, Service!Ready, Service!Settled,
           shownNow, shownNext, asksNow, asksNext
  <1> QED BY <1>4, ServiceKeys DEF ServiceStep, Service!ServiceNext

LEMMA NewFlightRefines ==
  ASSUME AInv, NEW c \in Clients, NEW k \in Keys, NEW refresh \in BOOLEAN,
         client[c].phase \in {"idle", "missed"}, client[c].phase = "missed" => client[c].key = k,
         NewFlight(c, k, refresh)
  PROVE  ServiceStep
  <1> DEFINE f == allocated + 1
             fence == k.gen > latest[Lineage(k)]
             old == IF fence THEN {live[j] : j \in {i \in Keys : Older(k, i)}} \ {0} ELSE {}
             left == UNION {flight[g].subs : g \in old}
             mine == [Idle EXCEPT !.phase = "open", !.key = k, !.flight = f,
                                  !.update = Update("queued", "none")]
  <1>1. /\ client' = [Close(client, left) EXCEPT ![c] = mine]
        /\ latest' = [latest EXCEPT ![Lineage(k)] = k.gen]
        /\ latest[Lineage(k)] <= k.gen
        /\ queries' = IF fence THEN InvalidateGeneration(queries, k.scope, k.gen) ELSE queries
    BY Zenon DEF NewFlight
  <1>2. latest[Lineage(k)] \in Nat /\ k.gen \in Nat BY LineageNat DEF AInv, IInv
  <1>3. Close(client, left) \in [Clients -> ClientRecords] BY CloseType DEF AInv, IInv, TypeOK
  <1>4. mine.phase = "open" /\ mine.key = k BY IdleType DEF ClientRecords
  <1>5. client'[c] = mine /\ \A d \in Clients \ {c} : client'[d] = Close(client, left)[d]
    <2> HIDE DEF mine, left
    <2> QED BY <1>1, <1>3
  <1>6. CASE ~fence
    <2>1. left = {} BY <1>6
    <2>2. \A d \in Clients \ {c} : client'[d] = client[d]
      <3> HIDE DEF left
      <3> QED BY <1>5, <2>1, CloseKeeps DEF AInv, IInv, TypeOK
    <2>3. UNCHANGED <<queries, latest>>
      <3>1. latest[Lineage(k)] = k.gen BY <1>1, <1>2, <1>6
      <3> QED BY <1>1, <1>6, <3>1 DEF AInv, IInv, TypeOK
    <2> HIDE DEF mine
    <2> QED BY <1>4, <1>5, <2>2, <2>3, AskRefines
  <1>7. CASE fence
    <2> DEFINE told == left \cap Clients
    <2>1. shownNext = [j \in Keys |-> IF j.scope = k.scope /\ j.gen # k.gen THEN Service!Nothing ELSE shownNow[j]]
      BY <1>1, <1>7, ShownStates
         DEF InvalidateGeneration, shownNext, shownNow, Absent, Service!Nothing, AInv, IInv, TypeOK
    <2>2. \A d \in told : /\ d # c /\ client[d].phase = "open" /\ client[d].key \in Keys
                          /\ Lineage(client[d].key) = Lineage(k) /\ client[d].key.gen < k.gen
      <3> SUFFICES ASSUME NEW j \in Keys, Older(k, j), live[j] # 0, NEW d \in flight[live[j]].subs
                   PROVE  /\ d # c /\ client[d].phase = "open" /\ client[d].key \in Keys
                          /\ Lineage(client[d].key) = Lineage(k) /\ client[d].key.gen < k.gen
        BY <1>7
      <3>1. live[j] \in Flights /\ flight[live[j]].key = j BY LiveKey DEF AInv
      <3>2. client[d].phase = "open" /\ client[d].key = j BY <3>1, SubscriberKey DEF AInv
      <3> QED BY <3>2 DEF Older
    <2>3. \A d \in Clients \ {c} : /\ client'[d].key = client[d].key
                                   /\ d \in told => client'[d].phase = "closed"
                                   /\ d \notin told => client'[d].phase = client[d].phase
      <3> HIDE DEF left
      <3> QED BY <1>5, CloseKeeps DEF AInv, IInv, TypeOK
    <2>4. client'[c].phase = "open" /\ client'[c].key = k BY <1>4, <1>5
    <2> HIDE DEF told, left, mine, fence
    <2>5. asksNext = [d \in Clients |->
            IF d = c THEN [state |-> "asking", key |-> k]
            ELSE IF d \in told THEN [asksNow[d] EXCEPT !.state = "told"]
            ELSE asksNow[d]]
      BY <2>3, <2>4, AskStates DEF asksNext, asksNow
    <2>6. told \subseteq {d \in Clients \ {c} : /\ asksNow[d].state = "asking"
                                                /\ Lineage(asksNow[d].key) = Lineage(k)
                                                /\ asksNow[d].key.gen < k.gen}
      BY <2>2, AskStates DEF asksNow, told
    <2>7. asksNow[c].state = "idle" \/ c \in Service!Asking(k)
      BY AskStates DEF asksNow, Service!Asking
    <2>8. k.gen > latest[Lineage(k)] BY <1>7 DEF fence
    <2>9. /\ Service!Ready(c, k)
          /\ told \subseteq {d \in Clients \ {c} :
               /\ asksNow[d].state = "asking"
               /\ Service!Lineage(asksNow[d].key) = Service!Lineage(k)
               /\ asksNow[d].key.gen < k.gen}
      BY <2>6, <2>7, ServiceKeys DEF Service!Ready, asksNow
    <2>10. \E who \in SUBSET Clients : Service!AskNewer(c, k, who)
      <3> SUFFICES ASSUME NEW who \in SUBSET Clients, who = told PROVE Service!AskNewer(c, k, who)
        BY DEF told
      <3>1. /\ Service!Ready(c, k) /\ k.gen > latest[Service!Lineage(k)]
            /\ latest' = [latest EXCEPT ![Service!Lineage(k)] = k.gen]
        BY <1>1, <2>8, <2>9, ServiceKeys
      <3> QED BY <2>1, <2>5, <2>9, <3>1, ServiceKeys
            DEF Service!AskNewer, shownNow, shownNext, asksNow, asksNext
    <2> QED BY <2>10, ServiceKeys DEF ServiceStep, Service!ServiceNext
  <1> QED BY <1>6, <1>7

LEMMA UnsubscribeRefines ==
  ASSUME AInv, NEW c \in Clients, Unsubscribe(c)
  PROVE  ServiceStep
  <1> DEFINE f == client[c].flight
             k == flight[f].key
             last == flight[f].subs \ {c} = {} /\ ~flight[f].retired
             drop == last /\ flight[f].began /\ CanFail(queries[k])
  <1>1. f \in Flights /\ k \in Keys /\ client[c].key = k /\ client[c].phase = "open"
    <2>1. f \in Flights /\ c \in flight[f].subs
      BY DEF AInv, IInv, ClientLink, SubsLinked, Unsubscribe
    <2> QED BY <2>1, SubscriberKey DEF AInv, IInv, TypeOK, FlightRecords
  <1>2. /\ client' = [client EXCEPT ![c] = Idle] /\ UNCHANGED latest
        /\ queries' = [queries EXCEPT ![k] = IF last THEN Abandon(@, flight[f].began) ELSE @]
    BY Zenon DEF Unsubscribe
  <1>3. asksNext = [asksNow EXCEPT ![c] = [state |-> "idle", key |-> CHOOSE j \in Keys : TRUE]]
    BY <1>2, AskStates DEF asksNext, asksNow, Idle, AInv, IInv, TypeOK
  <1>4. asksNow[c].state = "asking" /\ asksNow[c].key = k BY <1>1, AskStates DEF asksNow
  <1>5. shownNext = IF drop THEN [shownNow EXCEPT ![k] = Service!Abandoned(@)] ELSE shownNow
    <2>1. CASE ~drop
      <3>1. queries' = queries BY <1>2, <2>1 DEF Abandon, AInv, IInv, TypeOK
      <3> QED BY <2>1, <3>1 DEF shownNext, shownNow
    <2>2. CASE drop
      <3>1. queries' = [queries EXCEPT ![k] = FailQuery(queries[k], "cancelled")]
        BY <1>2, <2>2 DEF Abandon, AInv, IInv, TypeOK
      <3>2. queries[k] \in EntryRecords /\ queries[k].state \in {"loading", "refreshing"}
        BY <1>1, <2>2 DEF AInv, IInv, TypeOK, NeverQueued, CanFail, Busy
      <3>3. /\ queries'[k].pages = queries[k].pages
            /\ queries'[k].state = IF queries[k].state = "refreshing" THEN "stale" ELSE "cancelled"
        BY <1>1, <3>1, <3>2, KeptByStore DEF AInv, IInv, TypeOK, FailureStates
      <3>4. \A j \in Keys \ {k} : queries'[j] = queries[j] BY <3>1 DEF AInv, IInv, TypeOK
      <3>5. shownNext[k] = [state |-> IF queries[k].state = "refreshing" THEN "result" ELSE "failed",
                            pages |-> queries[k].pages]
        BY <1>1, <3>3, ShownStates DEF shownNext, Readable, FailureStates
      <3>6. shownNow[k] = [state |-> queries[k].state, pages |-> queries[k].pages]
        BY <1>1, <3>2, ShownStates DEF shownNow
      <3>7. Service!Abandoned(shownNow[k]) = shownNext[k]
        <4>1. CASE queries[k].state = "refreshing"
          BY <3>5, <3>6, <4>1 DEF Service!Abandoned
        <4>2. CASE queries[k].state = "loading"
          BY <3>5, <3>6, <4>2 DEF Service!Abandoned
        <4> QED BY <3>2, <4>1, <4>2
      <3> HIDE DEF k, drop
      <3>8. shownNext = [shownNow EXCEPT ![k] = shownNext[k]]
        BY <3>4 DEF shownNext, shownNow
      <3> QED BY <1>1, <2>2, <3>7, <3>8 DEF shownNow
    <2> QED BY <2>1, <2>2
  <1> HIDE DEF drop, k
  <1>6. \E alone \in BOOLEAN : Service!Leave(c, alone)
    <2>1. PICK alone \in BOOLEAN : alone <=> drop OBVIOUS
    <2>2. Service!Leave(c, alone)
      BY <1>2, <1>3, <1>4, <1>5, <2>1, ServiceKeys
         DEF Service!Leave, Service!Become, shownNow, shownNext, asksNow, asksNext
    <2> QED BY <2>2
  <1> QED BY <1>6 DEF ServiceStep, Service!ServiceNext

LEMMA LeaveRefines ==
  ASSUME AInv, NEW c \in Clients, Leave(c)
  PROVE  ServiceStep
  <1>1. client[c].phase = "closed" /\ client' = [client EXCEPT ![c] = Idle]
        /\ UNCHANGED <<queries, latest>>
    BY DEF Leave
  <1>2. asksNext = [asksNow EXCEPT ![c] = [state |-> "idle", key |-> CHOOSE j \in Keys : TRUE]]
    BY <1>1, AskStates DEF asksNext, asksNow, Idle, AInv, IInv, TypeOK
  <1>3. shownNext = shownNow BY <1>1 DEF shownNext, shownNow
  <1>4. asksNow[c].state = "told" BY <1>1, AskStates DEF asksNow
  <1>5. Service!Leave(c, FALSE)
    BY <1>1, <1>2, <1>3, <1>4, ServiceKeys
       DEF Service!Leave, Service!Become, shownNow, shownNext, asksNow, asksNext
  <1> QED BY <1>5 DEF ServiceStep, Service!ServiceNext

LEMMA ClientRefines ==
  ASSUME AInv, NEW c \in Clients, ClientStep(c)
  PROVE  ServiceStep
  <1>0. client[c] \in ClientRecords /\ client[c].key \in Keys
    BY DEF AInv, IInv, TypeOK, ClientRecords
  <1>1. ASSUME NEW k \in Keys, NEW refresh \in BOOLEAN,
               client[c].phase \in {"idle", "missed"}, client[c].phase = "missed" => client[c].key = k,
               SubscribeLocked(c, k, refresh)
        PROVE  ServiceStep
    <2>1. CASE JoinFlight(c, k)
      <3>1. live[k] \in Flights BY <2>1 DEF JoinFlight, AInv, IInv, TypeOK
      <3>2. /\ client'[c].phase = "open" /\ client'[c].key = k
            /\ \A d \in Clients \ {c} : client'[d] = client[d]
            /\ UNCHANGED <<queries, latest>>
        BY <2>1, <3>1, IdleType DEF JoinFlight, AInv, IInv, TypeOK, ClientRecords
      <3> QED BY <1>1, <3>2, AskRefines
    <2>2. CASE RejectOldGeneration(c, k)
      <3>1. /\ client'[c].phase = "closed" /\ client'[c].key = k
            /\ \A d \in Clients \ {c} : client'[d] = client[d]
            /\ UNCHANGED <<queries, latest>> /\ latest[Lineage(k)] > k.gen
        BY <2>2, IdleType DEF RejectOldGeneration, AInv, IInv, TypeOK, ClientRecords
      <3> QED BY <1>1, <3>1, AnswerAtOnceRefines
    <2>3. CASE NewFlight(c, k, refresh) BY <1>1, <2>3, NewFlightRefines
    <2> QED BY <1>1, <2>1, <2>2, <2>3 DEF SubscribeLocked
  <1>2. ASSUME NEW k \in Keys, CheckCache(c, k) PROVE ServiceStep
    <2> DEFINE hit == [Idle EXCEPT !.phase = "hit", !.key = k,
                         !.update = [NoUpdate EXCEPT !.state = queries[k].state]]
               miss == [Idle EXCEPT !.phase = "missed", !.key = k]
    <2>1. hit.phase = "hit" /\ hit.key = k /\ miss.phase = "missed" /\ miss.key = k
      BY IdleType DEF ClientRecords
    <2>2. /\ client[c].phase = "idle" /\ UNCHANGED <<queries, latest>>
          /\ client' = [client EXCEPT ![c] = IF queries[k].state \in CacheTerminal THEN hit ELSE miss]
      BY <1>2 DEF CheckCache
    <2> HIDE DEF hit, miss
    <2>3. client'[c] = IF queries[k].state \in CacheTerminal THEN hit ELSE miss
      BY <2>2 DEF AInv, IInv, TypeOK
    <2>4. \A d \in Clients \ {c} : client'[d] = client[d] BY <2>2 DEF AInv, IInv, TypeOK
    <2>5. CASE queries[k].state \in CacheTerminal
      BY <2>1, <2>2, <2>3, <2>4, <2>5, AnswerAtOnceRefines
    <2>6. CASE queries[k].state \notin CacheTerminal
      BY <2>1, <2>2, <2>3, <2>4, <2>6, AskRefines
    <2> QED BY <2>5, <2>6
  <1>3. ASSUME NEW k \in Keys, Refresh(c, k) PROVE ServiceStep
    BY <1>1, <1>3 DEF Refresh
  <1>4. CASE AnswerFromCache(c)
    <2>1. \A d \in Clients : /\ AskState(client'[d].phase) = AskState(client[d].phase)
                             /\ client'[d].key = client[d].key
      BY <1>0, <1>4, AskStates DEF AnswerFromCache, AInv, IInv, TypeOK, ClientRecords
    <2>2. UNCHANGED <<queries, latest>> BY <1>4 DEF AnswerFromCache
    <2> QED BY <2>1, <2>2, Stutters
  <1>5. CASE Subscribe(c) BY <1>0, <1>1, <1>5 DEF Subscribe
  <1> QED BY <1>2, <1>3, <1>4, <1>5, UnsubscribeRefines, LeaveRefines DEF ClientStep

LEMMA InitRefines == Init => Service!ServiceInit
  <1> SUFFICES ASSUME Init PROVE Service!ServiceInit OBVIOUS
  <1> DEFINE key == CHOOSE k \in Keys : TRUE
  <1>1. shownNow = [k \in Keys |-> Service!Nothing]
    BY ShownStates DEF Init, shownNow, Absent, Service!Nothing
  <1>2. asksNow = [c \in Clients |-> [state |-> "idle", key |-> key]]
    BY AskStates DEF Init, asksNow, Idle
  <1>3. latest = [l \in Lineages |-> 0] BY DEF Init
  <1>4. key \in Keys BY AKey
  <1> HIDE DEF key
  <1> QED BY <1>1, <1>2, <1>3, <1>4, ServiceKeys
       DEF Service!ServiceInit, Service!Lineages, Lineages, shownNow, asksNow

LEMMA NextRefines ==
  ASSUME AInv, AInv', [Next]_vars
  PROVE  ServiceStep
  <1>1. ASSUME NEW f \in Flights, RunStep(f) \/ ExecutorStep(f) PROVE ServiceStep
    BY <1>1, FinishRefines, FlightRefines
  <1>2. CASE UNCHANGED vars BY <1>2, Stutters DEF vars
  <1> QED BY <1>1, <1>2, ClientRefines DEF Next

(* The coordinator implements the service its callers are promised, for any *)
(* number of clients, flights, keys and generations: whatever its flights,  *)
(* slots and locks do, every step is a step of QueryService or none at all. *)
THEOREM CoordinatorImplementsService == Spec => ImplementsService
  <1>1. AInv /\ AInv' /\ [Next]_vars => [Service!ServiceNext]_(Service!serviceVars)
    BY NextRefines DEF ServiceStep
  <1> QED BY <1>1, InitRefines, Answers, PTL DEF Spec, ImplementsService, Service!ServiceSpec
=============================================================================
