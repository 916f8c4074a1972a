------------------------------ MODULE AwsFanout ------------------------------
(***************************************************************************)
(* One catalog read of several regions (dispatchMultiRegion in             *)
(* aws_runtime.go): a worker per region, the current region's first and    *)
(* two at a time, sends what its subscription says as events to an         *)
(* aggregator, which sends the browser the regions' results taken together *)
(*                                                                         *)
(* What a subscription says is a record: its state, and whether resources  *)
(* came with it. The query core behind it is in QueryCoordinator; here any *)
(* order of updates a flight can publish is possible.                      *)
(***************************************************************************)
EXTENDS Naturals, Sequences, FiniteSets

CONSTANTS
    FanRegions,     \* the regions of the request
    FanCurrent,     \* the one that is current, the first of the list
    FanSlots,       \* the semaphore's two
    MaxFanUpdates   \* bound: updates of a subscription before its last

ASSUME FanAssumption ==
    FanCurrent \in FanRegions /\ IsFiniteSet(FanRegions)
    /\ FanSlots \in Nat \ {0} /\ MaxFanUpdates \in Nat

VARIABLES
    fnWorker,     \* what each region's worker is doing
    fnReady,      \* currentReady is closed
    fnUpdates,    \* updates each subscription has given
    fnAnswer,     \* how each region's query really ended, for the properties
    fnEvents,     \* the events, in their buffer
    fnStates,     \* the aggregator's states: region -> done, resources, failure
    fnAggregator, \* what the aggregator is doing
    fnAggregate,  \* the aggregate it has built last
    fnBuffer,     \* the channel to the browser is full
    fnCancelled   \* by the browser

fanVars == <<fnWorker, fnReady, fnUpdates, fnAnswer, fnEvents, fnStates, fnAggregator, fnAggregate,
             fnBuffer, fnCancelled>>

\* A query's updates: a cancelled one is of a generation that is no longer in force, and
\* is published with no failure (query.go:233, 293).
FanLoading(found) == [state |-> "loading", found |-> found]
Answers == {[state |-> "ready", found |-> TRUE], [state |-> "empty", found |-> FALSE]}
Failures == {[state |-> "failed", found |-> f] : f \in BOOLEAN}
CancelledQuery == [state |-> "cancelled", found |-> FALSE]
FanUpdates == {FanLoading(TRUE), FanLoading(FALSE), CancelledQuery} \cup Answers \cup Failures

FanHolding == {r \in FanRegions : fnWorker[r] \in {"subscribe", "updates"}}
Working == {"waits", "slot", "subscribe", "updates"}

NoState == [done |-> FALSE, found |-> FALSE, failed |-> FALSE]
FanStatuses == {"not_searched", "matched", "not_found", "failed"}

FanTypeOK ==
    /\ fnWorker \in [FanRegions -> Working \cup {"done"}] /\ fnReady \in BOOLEAN
    /\ fnUpdates \in [FanRegions -> 0..MaxFanUpdates]
    /\ fnAnswer \in [FanRegions -> {"none", "read", "failed", "cancelled"}]
    /\ fnEvents \in Seq([region : FanRegions, update : FanUpdates])
    /\ Len(fnEvents) <= 2 * Cardinality(FanRegions)
    /\ fnStates \in [FanRegions -> [done : BOOLEAN, found : BOOLEAN, failed : BOOLEAN]]
    /\ fnAggregator \in {"events", "send", "ended"}
    /\ fnAggregate \in [coverage : [FanRegions -> FanStatuses], done : BOOLEAN,
                        state : {"loading", "ready", "empty", "failed"}]
    /\ {fnBuffer, fnCancelled} \subseteq BOOLEAN

\* aggregateRegionIntent: the coverage of each region, and once all are done, a state.
RegionStatus(s) ==
    IF s.found THEN "matched"
    ELSE IF s.done /\ ~s.failed THEN "not_found"
    ELSE IF s.failed THEN "failed" ELSE "not_searched"
FinalState(states) ==
    IF \E r \in FanRegions : states[r].found THEN "ready"
    ELSE IF \E r \in FanRegions : states[r].done /\ ~states[r].failed THEN "empty"
    ELSE "failed"
AllDone(states) == \A r \in FanRegions : states[r].done

Finished(states) == AllDone(states)

Aggregate(states) ==
    [coverage |-> [r \in FanRegions |-> RegionStatus(states[r])], done |-> Finished(states),
     state |-> IF Finished(states) THEN FinalState(states) ELSE "loading"]

FanInit ==
    /\ fnWorker = [r \in FanRegions |-> IF r = FanCurrent THEN "slot" ELSE "waits"]
    /\ fnReady = FALSE /\ fnUpdates = [r \in FanRegions |-> 0]
    /\ fnAnswer = [r \in FanRegions |-> "none"] /\ fnEvents = <<>>
    /\ fnStates = [r \in FanRegions |-> NoState] /\ fnAggregator = "events"
    /\ fnAggregate = Aggregate([r \in FanRegions |-> NoState])
    /\ fnBuffer = FALSE /\ fnCancelled = FALSE

-----------------------------------------------------------------------------
(* The workers *)

AggregatorKeeps == UNCHANGED <<fnStates, fnAggregator, fnAggregate, fnBuffer, fnCancelled>>

\* A bug of CurrentFirst: nobody waits for the current region.
CurrentFirst_Never(r) == TRUE
CurrentFirst(r) == fnReady

\* The other regions wait until the current one has subscribed, then all for a slot.
WorkerWaits(r) ==
    /\ fnWorker[r] = "waits" /\ CurrentFirst(r) /\ fnWorker' = [fnWorker EXCEPT ![r] = "slot"]
    /\ UNCHANGED <<fnReady, fnUpdates, fnAnswer, fnEvents>> /\ AggregatorKeeps
TakeSlot(r) ==
    /\ fnWorker[r] = "slot" /\ Cardinality(FanHolding) < FanSlots
    /\ fnWorker' = [fnWorker EXCEPT ![r] = "subscribe"]
    /\ UNCHANGED <<fnReady, fnUpdates, fnAnswer, fnEvents>> /\ AggregatorKeeps

\* A bug of Room: one more event than the buffer takes.
Room_OneMore == Len(fnEvents) <= 2 * Cardinality(FanRegions)
Room == Len(fnEvents) < 2 * Cardinality(FanRegions)
Emit(r, update) == fnEvents' = Append(fnEvents, [region |-> r, update |-> update])

\* A bug of ReadyAfter: the others are let go by a subscription that succeeded only.
ReadyAfter_Success(r, succeeds) == fnReady \/ (r = FanCurrent /\ succeeds)
ReadyAfter(r, succeeds) == fnReady \/ r = FanCurrent

\* Subscribe returns: with a subscription, or an error, whose event is sent right away.
FanSubscribe(r, succeeds) ==
    /\ fnWorker[r] = "subscribe" /\ (succeeds \/ Room)
    /\ fnReady' = ReadyAfter(r, succeeds)
    /\ fnWorker' = [fnWorker EXCEPT ![r] = IF succeeds THEN "updates" ELSE "done"]
    /\ IF succeeds THEN UNCHANGED <<fnAnswer, fnEvents>>
       ELSE /\ fnAnswer' = [fnAnswer EXCEPT ![r] = "failed"]
            /\ Emit(r, [state |-> "failed", found |-> FALSE])
    /\ UNCHANGED fnUpdates /\ AggregatorKeeps

\* An update that is not the last one.
RegionLoads(r, found) ==
    /\ fnWorker[r] = "updates" /\ fnUpdates[r] < MaxFanUpdates /\ Room
    /\ fnUpdates' = [fnUpdates EXCEPT ![r] = @ + 1] /\ Emit(r, FanLoading(found))
    /\ UNCHANGED <<fnWorker, fnReady, fnAnswer>> /\ AggregatorKeeps

\* The last one: it is forwarded, and the worker unsubscribes and lets go of its slot.
RegionEnds(r, update) ==
    /\ fnWorker[r] = "updates" /\ Room /\ update.state # "loading"
    /\ fnWorker' = [fnWorker EXCEPT ![r] = "done"] /\ Emit(r, update)
    /\ fnAnswer' = [fnAnswer EXCEPT ![r] =
                       IF update \in Answers THEN "read"
                       ELSE IF update \in Failures THEN "failed" ELSE "cancelled"]
    /\ UNCHANGED <<fnReady, fnUpdates>> /\ AggregatorKeeps

\* A bug of LastEvent: a subscription that only closes is not told of.
LastEvent_None(r) == UNCHANGED fnEvents
LastEvent(r) == Room /\ Emit(r, [state |-> "failed", found |-> FALSE])

\* The subscription closes without a last update: an unknown failure is sent for it.
RegionCloses(r) ==
    /\ fnWorker[r] = "updates" /\ LastEvent(r)
    /\ fnWorker' = [fnWorker EXCEPT ![r] = "done"] /\ fnAnswer' = [fnAnswer EXCEPT ![r] = "failed"]
    /\ UNCHANGED <<fnReady, fnUpdates>> /\ AggregatorKeeps

\* Whatever a worker is doing, it ends when the request is cancelled: its subscription
\* is made with the request's context and closes with it.
WorkerCancelled(r) ==
    /\ fnCancelled \/ fnAggregator = "ended"
    /\ fnWorker[r] # "done" /\ fnWorker' = [fnWorker EXCEPT ![r] = "done"]
    /\ UNCHANGED <<fnReady, fnUpdates, fnAnswer, fnEvents>> /\ AggregatorKeeps

-----------------------------------------------------------------------------
(* The aggregator and the browser *)

\* A bug of KeptResult: an update without resources takes those there were away.
KeptResult_None(s, update) == update.found
KeptResult(s, update) == IF update.found \/ update.state = "empty" THEN update.found ELSE s.found

TakeEvent ==
    /\ fnAggregator = "events" /\ fnEvents # <<>>
    /\ LET region == Head(fnEvents).region
           update == Head(fnEvents).update
           state == [done |-> fnStates[region].done \/ update.state # "loading",
                     found |-> KeptResult(fnStates[region], update),
                     failed |-> update.state = "failed"]
       IN  /\ fnStates' = [fnStates EXCEPT ![region] = state]
           /\ fnAggregate' = Aggregate(fnStates') /\ fnAggregator' = "send"
           /\ fnEvents' = Tail(fnEvents)
    /\ UNCHANGED <<fnWorker, fnReady, fnUpdates, fnAnswer, fnBuffer, fnCancelled>>

\* Returning cancels what the workers still do.
SendAggregate ==
    /\ fnAggregator = "send"
    /\ \/ /\ ~fnBuffer /\ fnBuffer' = TRUE
          /\ fnAggregator' = IF fnAggregate.done THEN "ended" ELSE "events"
       \/ fnCancelled /\ fnAggregator' = "ended" /\ UNCHANGED fnBuffer
    /\ UNCHANGED <<fnWorker, fnReady, fnUpdates, fnAnswer, fnEvents, fnStates, fnAggregate, fnCancelled>>

\* All workers have returned and the events are read: the channel is closed.
EventsClosed ==
    /\ fnAggregator = "events" /\ fnEvents = <<>> /\ \A r \in FanRegions : fnWorker[r] = "done"
    /\ fnAggregator' = "ended"
    /\ UNCHANGED <<fnWorker, fnReady, fnUpdates, fnAnswer, fnEvents, fnStates, fnAggregate, fnBuffer,
                   fnCancelled>>

ReadAggregate ==
    /\ fnBuffer /\ fnBuffer' = FALSE
    /\ UNCHANGED <<fnWorker, fnReady, fnUpdates, fnAnswer, fnEvents, fnStates, fnAggregator,
                   fnAggregate, fnCancelled>>
CancelFanout ==
    /\ ~fnCancelled /\ fnCancelled' = TRUE
    /\ UNCHANGED <<fnWorker, fnReady, fnUpdates, fnAnswer, fnEvents, fnStates, fnAggregator,
                   fnAggregate, fnBuffer>>

WorkerSteps(r) ==
    \/ WorkerWaits(r) \/ TakeSlot(r) \/ WorkerCancelled(r) \/ RegionCloses(r)
    \/ \E succeeds \in BOOLEAN : FanSubscribe(r, succeeds)
    \/ \E found \in BOOLEAN : RegionLoads(r, found)
    \/ \E update \in FanUpdates : RegionEnds(r, update)
AggregatorSteps == TakeEvent \/ SendAggregate \/ EventsClosed
FanNext == (\E r \in FanRegions : WorkerSteps(r)) \/ AggregatorSteps \/ ReadAggregate \/ CancelFanout

\* The goroutines run, subscriptions return and end (a query has a deadline), and a
\* browser that has not cancelled reads.
FanFairness ==
    /\ \A r \in FanRegions : WF_fanVars(WorkerSteps(r))
    /\ WF_fanVars(AggregatorSteps) /\ WF_fanVars(~fnCancelled /\ ReadAggregate)
FanSpec == FanInit /\ [][FanNext]_fanVars /\ FanFairness

-----------------------------------------------------------------------------
(* Properties *)

\* The current region is asked first and no more than two regions at once
\* (aws_runtime.go:732, 738; "fan out current-first with concurrency two").
CurrentAskedFirst ==
    /\ Cardinality(FanHolding) <= FanSlots
    /\ ~fnReady => \A r \in FanRegions \ {FanCurrent} : fnWorker[r] \in {"waits", "done"}

\* A region's resources stay in view when it fails later, as when another does; only a
\* read that found none takes them away (aws_runtime.go:790; "Partial failures keep
\* successful regional results visible", DESIGN.md:114).
RegionResultsKept ==
    [][\A r \in FanRegions :
          fnStates[r].found /\ ~fnStates'[r].found => fnAnswer[r] = "read"]_fanVars

\* The last aggregate comes when every region has ended, and a read that was not
\* cancelled never stops without one (aws_runtime.go:765, 800).
EndsWithEveryRegion ==
    /\ fnAggregate.done => \A r \in FanRegions : fnAnswer[r] # "none"
    /\ fnAggregator = "ended" /\ ~fnCancelled => fnAggregate.done

\* A read of several regions ends, and no worker is left behind (aws_runtime.go:774).
FanoutEnds == <>(fnAggregator = "ended" /\ \A r \in FanRegions : fnWorker[r] = "done")

\* A region that "was searched and has none", and a list that is empty, were read
\* ("Empty: `0 instances in this region`", a successful empty result, aws-plan/DESIGN.md:277).
EmptyWasRead ==
    \A r \in FanRegions : fnAggregate.coverage[r] = "not_found" => fnAnswer[r] = "read"

\* A read of several regions covers each of them: the current one first, two at a time,
\* with the last word only after all have ended, and none taking away what another or
\* itself has shown (aws_runtime.go:712-810).
FanoutCoversEveryRegion == [](CurrentAskedFirst /\ EndsWithEveryRegion) /\ RegionResultsKept
=============================================================================
