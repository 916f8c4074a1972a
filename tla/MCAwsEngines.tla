---------------------------- MODULE MCAwsEngines ----------------------------
(***************************************************************************)
(* One instance of each engine behind a request of bb aws: the search, the *)
(* trace, the read of several regions and the snapshots' synchronisation.  *)
(* They share no state, so a behaviour runs one of them, which it chooses  *)
(* at the start; the others stay where they begin.  The fairness is that   *)
(* of the engine that runs.                                                *)
(***************************************************************************)
EXTENDS SnapshotSync, AwsSearch, AwsTrace, AwsFanout, TLC

CONSTANTS p1, p2, a, b, c, p, q, t1, t2, t3, t4

VARIABLE engine

OneGroup == {{a}}
SearchAccountOf == (c :> "home") @@ (p :> "home") @@ (q :> "other")

Of(name) == engine = name /\ UNCHANGED engine

EnginesInit ==
    /\ engine \in {"snapshot", "search", "trace", "fanout"}
    /\ Init /\ SearchInit /\ TraceInit /\ FanInit
    /\ engine # "snapshot" => file = "absent"
    /\ engine # "search" => ~seDomain /\ seListing = "none"

EnginesNext ==
    \/ Of("snapshot") /\ Next /\ UNCHANGED <<searchVars, traceVars, fanVars>>
    \/ Of("search") /\ SearchNext /\ UNCHANGED <<vars, traceVars, fanVars>>
    \/ Of("trace") /\ TraceNext /\ UNCHANGED <<vars, searchVars, fanVars>>
    \/ Of("fanout") /\ FanNext /\ UNCHANGED <<vars, searchVars, traceVars>>

\* Fairness, SearchFairness, TraceFairness and FanFairness of the engine that runs.
EnginesFairness ==
    /\ \A i \in Procs :
          /\ WF_vars(engine = "snapshot" /\ Step(i))
          /\ WF_vars(engine = "snapshot" /\ proc[i].cancelled
                       /\ \E s \in Scopes : EndScope(i, s, "failed"))
    /\ \A i \in SearchProfiles : SF_searchVars(engine = "search" /\ SearchWorks(i))
    /\ WF_searchVars(engine = "search" /\ SearchStreams)
    /\ WF_searchVars(engine = "search" /\ ~seCancelled /\ ReadUpdate)
    /\ WF_traceVars(engine = "trace" /\ TraceSteps)
    /\ WF_traceVars(engine = "trace" /\ ~trCancelled /\ ReadTrace)
    /\ \A r \in FanRegions : WF_fanVars(engine = "fanout" /\ WorkerSteps(r))
    /\ WF_fanVars(engine = "fanout" /\ AggregatorSteps)
    /\ WF_fanVars(engine = "fanout" /\ ~fnCancelled /\ ReadAggregate)

EnginesSpec ==
    EnginesInit /\ [][EnginesNext]_<<engine, vars, searchVars, traceVars, fanVars>> /\ EnginesFairness

\* The state of every engine keeps its types.
EnginesTypeOK == TypeOK /\ SearchTypeOK /\ TraceTypeOK /\ FanTypeOK

\* A search, a trace and a read of several regions that are started end, whatever fails
\* and whenever they are cancelled (search.go:152, aws_runtime.go:549, 712); refs answers
\* while AWS never does to another, and a cancelled collection lets go of its lock
\* (aws_snapshot_runtime.go:298, 329).
EnginesEnd ==
    /\ RefsEnds /\ CancelledCollectionEnds
    /\ engine = "search" => SearchEnds
    /\ engine = "trace" => TraceEnds
    /\ engine = "fanout" => FanoutEnds
=============================================================================
