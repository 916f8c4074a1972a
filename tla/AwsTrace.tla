------------------------------ MODULE AwsTrace ------------------------------
(***************************************************************************)
(* The trace of a DNS target through what it is connected to (dispatchTrace*)
(* in aws_runtime.go): breadth first, one exact query at a time, up to a   *)
(* number of queries and of resources, streamed to the browser.            *)
(*                                                                         *)
(* A query answers with a page of resources; each has relations to         *)
(* targets that the trace follows (traceFollowTarget) or not.              *)
(***************************************************************************)
EXTENDS Naturals, Sequences, FiniteSets

CONSTANTS
    TraceTargets,      \* resources and targets of queries
    TraceRoot,         \* the one the trace is of
    MaxTraceQueries,   \* maxTraceQueries
    MaxTraceResources, \* maxTraceResources
    MaxTracePage       \* bound: resources in an answer

ASSUME TraceAssumption ==
    TraceRoot \in TraceTargets /\ {MaxTraceQueries, MaxTraceResources} \subseteq Nat \ {0}

VARIABLES
    trPc,        \* what the goroutine is doing
    trQueue,     \* targets to query
    trSeen,      \* targets it has taken from the queue
    trRows,      \* resources it has found, with the root
    trAsked,     \* the targets of the queries it has made, in their order
    trFailure,   \* the first failure
    trLeftOut,   \* something that was found, or to be queried, was left out
    trBuffer,    \* an update is in the channel
    trCancelled

traceVars == <<trPc, trQueue, trSeen, trRows, trAsked, trFailure, trLeftOut, trBuffer, trCancelled>>

TraceTypeOK ==
    /\ trPc \in {"loop", "ask", "progress", "final", "ended"}
    /\ trQueue \in Seq(TraceTargets) /\ trSeen \in SUBSET TraceTargets
    /\ trRows \in SUBSET TraceTargets /\ trAsked \in Seq(TraceTargets)
    /\ trFailure \in {"none", "unsupported", "query_failed", "trace_limit"}
    /\ {trLeftOut, trBuffer, trCancelled} \subseteq BOOLEAN

TraceInit ==
    /\ trPc = "loop" /\ trQueue = <<TraceRoot>> /\ trSeen = {} /\ trRows = {TraceRoot}
    /\ trAsked = <<>> /\ trFailure = "none"
    /\ trLeftOut = FALSE /\ trBuffer = FALSE /\ trCancelled = FALSE

FirstFailure(kind) == trFailure' = IF trFailure = "none" THEN kind ELSE trFailure

GoesOn == trQueue # <<>> /\ Len(trAsked) < MaxTraceQueries /\ Cardinality(trRows) < MaxTraceResources

Taken(target) == target \in trSeen

-----------------------------------------------------------------------------

\* The next target: one it has had is left out, one no query is for is a failure.
NextTarget(valid) ==
    /\ trPc = "loop" /\ GoesOn
    /\ LET target == Head(trQueue)
       IN  IF Taken(target)
           THEN /\ trQueue' = Tail(trQueue) /\ UNCHANGED <<trPc, trSeen, trAsked, trFailure>>
           ELSE IF ~valid
           THEN /\ trQueue' = Tail(trQueue) /\ trSeen' = trSeen \cup {target}
                /\ FirstFailure("unsupported") /\ UNCHANGED <<trPc, trAsked>>
           ELSE /\ trPc' = "ask" /\ trAsked' = Append(trAsked, target)
                /\ trSeen' = trSeen \cup {target} /\ UNCHANGED <<trQueue, trFailure>>
    /\ UNCHANGED <<trRows, trLeftOut, trBuffer, trCancelled>>

\* What a query failed to answer is passed over.
TraceQueryFails ==
    /\ trPc = "ask" /\ trPc' = "loop" /\ trQueue' = Tail(trQueue) /\ FirstFailure("query_failed")
    /\ UNCHANGED <<trSeen, trRows, trAsked, trLeftOut, trBuffer, trCancelled>>

\* The resources of a page that are new, until the limit is met.
NewRows(page) == {page[i].target : i \in DOMAIN page} \ trRows
KeptOf(page, room) ==
    {i \in DOMAIN page :
        /\ page[i].target \notin trRows
        /\ \A j \in 1..i - 1 : page[j].target # page[i].target
        /\ Cardinality({page[j].target : j \in 1..i} \ trRows) <= room}
\* The relations of those that are followed, in order: none to what was found or queried.
Follows(page, kept, i) ==
    /\ i \in kept /\ page[i].relation # page[i].target
    /\ page[i].relation \notin trSeen \cup trRows \cup {page[j].target : j \in 1..i}
Followed(page, kept) ==
    LET follow[i \in 0..Len(page)] ==
            IF i = 0 THEN <<>>
            ELSE IF Follows(page, kept, i) THEN Append(follow[i - 1], page[i].relation)
            ELSE follow[i - 1]
    IN  follow[Len(page)]

\* A bug of RoomLeft: a page is taken whole.
RoomLeft_Any == Cardinality(TraceTargets)
RoomLeft == MaxTraceResources - Cardinality(trRows)

TraceQueryAnswers(page) ==
    /\ trPc = "ask" /\ trPc' = "progress"
    /\ LET kept == KeptOf(page, RoomLeft)
           rows == {page[i].target : i \in kept}
       IN  /\ trRows' = trRows \cup rows
           /\ trQueue' = Tail(trQueue) \o Followed(page, kept)
           /\ trLeftOut' = (trLeftOut \/ NewRows(page) # rows)
    /\ UNCHANGED <<trSeen, trAsked, trFailure, trBuffer, trCancelled>>

\* A bug of StopsSending: only the first updates give way to a cancellation.
StopsSending_Progress == trCancelled /\ trPc = "progress"
StopsSending == trCancelled

\* sendTraceUpdate: the browser takes it, or has cancelled.
SendTraceUpdate ==
    /\ trPc \in {"progress", "final"}
    /\ \/ ~trBuffer /\ trBuffer' = TRUE /\ trPc' = IF trPc = "progress" THEN "loop" ELSE "ended"
       \/ StopsSending /\ trPc' = "ended" /\ UNCHANGED trBuffer
    /\ UNCHANGED <<trQueue, trSeen, trRows, trAsked, trFailure, trLeftOut, trCancelled>>

\* A bug of LimitFailure: it is not looked at what is left.
LimitFailure_Never == FALSE
LimitFailure == trQueue # <<>>

FinishTrace ==
    /\ trPc = "loop" /\ ~GoesOn /\ trPc' = "final"
    /\ IF LimitFailure THEN FirstFailure("trace_limit") ELSE UNCHANGED trFailure
    /\ trLeftOut' = (trLeftOut \/ \E i \in DOMAIN trQueue : trQueue[i] \notin trSeen)
    /\ UNCHANGED <<trQueue, trSeen, trRows, trAsked, trBuffer, trCancelled>>

ReadTrace == trBuffer /\ trBuffer' = FALSE
             /\ UNCHANGED <<trPc, trQueue, trSeen, trRows, trAsked, trFailure, trLeftOut, trCancelled>>

CancelTrace == ~trCancelled /\ trCancelled' = TRUE
               /\ UNCHANGED <<trPc, trQueue, trSeen, trRows, trAsked, trFailure, trLeftOut, trBuffer>>

\* A resource with its own target for a relation is one with none.
TracePages == UNION {[1..n -> [target : TraceTargets, relation : TraceTargets]] : n \in 0..MaxTracePage}

TraceSteps ==
    \/ \E valid \in BOOLEAN : NextTarget(valid)
    \/ TraceQueryFails \/ FinishTrace \/ SendTraceUpdate
    \/ \E page \in TracePages : TraceQueryAnswers(page)
TraceNext == TraceSteps \/ ReadTrace \/ CancelTrace

\* Queries return, if need be by their deadline; the browser reads, unless it cancels.
TraceFairness == WF_traceVars(TraceSteps) /\ WF_traceVars(~trCancelled /\ ReadTrace)
TraceSpec == TraceInit /\ [][TraceNext]_traceVars /\ TraceFairness

-----------------------------------------------------------------------------
(* Properties *)

\* A trace stays within its two limits and asks about a target once, whatever cycles
\* the resources' relations make (aws_runtime.go:570; "bounded to 64 exact read queries
\* and 500 projected resources, deduplicates query targets", DESIGN.md:103).
TraceBounded ==
    /\ Len(trAsked) <= MaxTraceQueries /\ Cardinality(trRows) <= MaxTraceResources
    /\ \A i, j \in DOMAIN trAsked : trAsked[i] = trAsked[j] => i = j

\* A trace that ends with targets still in its queue that it has not asked about does not
\* end without a failure (aws_runtime.go:640).  Resources of the last page over the limit
\* never come into the queue: see TruncationReported.
UnqueriedReported ==
    trPc = "ended" /\ ~trCancelled =>
        \/ trFailure # "none"
        \/ \A i \in DOMAIN trQueue : trQueue[i] \in trSeen

\* A trace ends, and it ends by itself: no reader is waited for that has cancelled.
TraceEnds == <>(trPc = "ended")

\* Not so in the code, when a page overruns the resources and empties the queue: a trace
\* that left something out says so ("reports `trace_limit` instead of silently
\* truncating", DESIGN.md:103).
TruncationReported == trPc = "ended" /\ ~trCancelled /\ trLeftOut => trFailure # "none"

\* A trace keeps to its limits, and a queue that they leave over is reported as a failure
\* (aws_runtime.go:570, 640).
TraceKeepsToItsLimits == TraceBounded /\ UnqueriedReported
=============================================================================
