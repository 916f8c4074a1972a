---------------------------- MODULE SnapshotSync ----------------------------
(***************************************************************************)
(* Building and reading the AWS relationship snapshot                      *)
(* (aws_snapshot_runtime.go): bb processes that synchronise a context      *)
(* group, read references, or resolve incoming relations, which reads,     *)
(* collects when what it read cannot be reused, and reads again.           *)
(*                                                                         *)
(* A process holds the file lock snapshot.db.sync while it collects and    *)
(* commits, and the file lock snapshot.db while it has the database open.  *)
(* Both are polled (withFileLockContext), and the kernel drops them when   *)
(* the process dies.                                                       *)
(* AWS is external: what a scope holds may change at any time, and reading *)
(* it succeeds or fails (error, timeout, context changed).                 *)
(***************************************************************************)
EXTENDS SnapshotStore

CONSTANTS Procs,        \* bb processes
          Groups,       \* context groups: non-empty sets of places
          None,         \* no process
          Concurrency,  \* awsRuntimeConcurrency
          MaxAge,       \* awsAutoSnapshotMaxAge, in ticks
          MaxJobs,      \* bound on the commands of a behaviour
          MaxTime,      \* bound on the ticks
          MaxChanges,   \* bound on the changes in AWS
          MaxDamage     \* bound on the times the file is damaged

ASSUME SnapshotAssumption ==
  /\ Places # {} /\ Groups \subseteq (SUBSET Places) \ {{}}
  /\ None \notin Procs
  /\ Concurrency \in Nat \ {0}
  /\ {MaxAge, MaxJobs, MaxTime, MaxChanges, MaxDamage} \subseteq Nat

VARIABLES
  file,       \* the database file on disk
  db,         \* its tables, when they can be read
  syncLock,   \* holder of snapshot.db.sync.lock
  pathLock,   \* holder of snapshot.db.lock
  proc,       \* the commands in flight
  world,      \* AWS: what each scope holds, and since when
  clock,      \* the time, in ticks
  completed,  \* how many collections have completed
  begun,      \* how many commands have begun
  changes,    \* how many changes there were in AWS
  damage      \* how many times the file was damaged

vars == <<file, db, syncLock, pathLock, proc, world, clock, completed, begun, changes, damage>>
env  == <<world, clock, changes, damage>>

(* "old" is schema version 1, "newer" one this bb does not know. *)
Files == {"absent", "old", "current", "newer", "corrupt"}

Kinds == {"sg", "peering"}

(* The services of each collection (Sync). *)
Collected == [sg |-> {"sg"}, graph |-> {"sg", "peering"}]

NoRun == [id |-> 0, started |-> 0, completed |-> 0]

(* coverage: what the collection has of its scopes, "waiting" and "running" *)
(* among it; seen: the resources read; view: the last answer of refs.       *)
Idle == [cmd |-> "none", group |-> {}, kind |-> "sg", collection |-> "graph", step |-> "idle",
         cancelled |-> FALSE, second |-> FALSE, started |-> 0, run |-> NoRun,
         coverage |-> [s \in {} |-> "waiting"], seen |-> {}, view |-> NoView, reused |-> FALSE]

(* What an older bb may have left: one run of everything, of an empty world. *)
OldRun == CommitRun(Fresh, [id |-> 1, started |-> 0, completed |-> 0],
                    [s \in Places \X {"sg"} |-> "succeeded"], {})

(* The file may be left by an older or a newer bb. *)
Init ==
  /\ \/ file \in {"absent", "newer"} /\ db = Fresh /\ completed = 0
     \/ file = "old" /\ db = OldRun /\ completed = 1
  /\ syncLock = None /\ pathLock = None
  /\ proc = [p \in Procs |-> Idle]
  /\ world = [s \in Scopes |-> [there |-> FALSE, since |-> 0]]
  /\ clock = 0 /\ begun = 0 /\ changes = 0 /\ damage = 0

-----------------------------------------------------------------------------
(* Commands *)

Go(p, step) == proc' = [proc EXCEPT ![p].step = step]

Begin(p, job, first) ==
  /\ proc[p].step = "idle"
  /\ begun < MaxJobs
  /\ begun' = begun + 1
  /\ proc' = [proc EXCEPT ![p] = [job EXCEPT !.step = first]]
  /\ UNCHANGED <<file, db, syncLock, pathLock, completed, env>>

BeginSync(p, group, collection) ==
  Begin(p, [Idle EXCEPT !.cmd = "sync", !.group = group, !.collection = collection], "syncLock")

(* The answer is kept whole here, whatever resource refs is asked about. *)
BeginRefs(p) == Begin(p, [Idle EXCEPT !.cmd = "refs"], "look")

(* Resolve: force skips the first read. *)
BeginResolve(p, group, kind, force) ==
  Begin(p, [Idle EXCEPT !.cmd = "resolve", !.group = group, !.kind = kind, !.second = force],
        IF force THEN "syncLock" ELSE "look")

(* A bug of withFileLockContext: the lock outlives the function. *)
Free_Kept(lock, p) == lock

(* A lock that is let go when its holder leaves the function that took it. *)
Free(lock, p) == IF lock = p THEN None ELSE lock

(* The command returns, with an answer or an error, or its process dies. *)
End(p) ==
  /\ proc' = [proc EXCEPT ![p] = Idle]
  /\ syncLock' = Free(syncLock, p)
  /\ pathLock' = Free(pathLock, p)

(* At any step a command may fail, or its process die, or the command may be *)
(* cancelled and give up the next time it looks at its context: at a lock    *)
(* and at every call of the database.                                        *)
Stop(p) ==
  /\ proc[p].step # "idle"
  /\ End(p)
  /\ UNCHANGED <<file, db, completed, begun, env>>

-----------------------------------------------------------------------------
(* Refs *)

(* Resolve between its parts: what one of them leaves is not used by the next. *)
Collecting(job) == [job EXCEPT !.second = TRUE, !.step = "syncLock", !.view = NoView]
Reading(job) ==
  [job EXCEPT !.step = "look", !.started = 0, !.run = NoRun, !.coverage = Idle.coverage, !.seen = {}]

(* Resolve collects after a first read that failed; refs, and a second *)
(* read, report the failure.                                           *)
ReadFails(p) ==
  IF proc[p].cmd = "resolve" /\ ~proc[p].second
  THEN /\ proc' = [proc EXCEPT ![p] = Collecting(@)]
       /\ syncLock' = Free(syncLock, p) /\ pathLock' = Free(pathLock, p)
  ELSE End(p)

(* The file is looked for before the lock is taken. *)
Look(p) ==
  /\ proc[p].step = "look"
  /\ IF file = "absent"
     THEN ReadFails(p)
     ELSE Go(p, "readLock") /\ UNCHANGED <<syncLock, pathLock>>
  /\ UNCHANGED <<file, db, completed, begun, env>>

TakePathLock(p) ==
  /\ proc[p].step \in {"readLock", "pathLock"}
  /\ pathLock = None
  /\ pathLock' = p
  /\ Go(p, IF proc[p].step = "readLock" THEN "read" ELSE "open")
  /\ UNCHANGED <<file, db, syncLock, completed, begun, env>>

(* OpenReadOnly takes no other version and repairs nothing; ActiveView is *)
(* one read transaction.                                                  *)
Read(p) ==
  /\ proc[p].step = "read"
  /\ IF file = "current" /\ ActiveRun(db) # {}
     THEN /\ proc' = [proc EXCEPT ![p].view = ActiveView(db),
                        ![p].step = IF proc[p].cmd = "resolve" /\ ~proc[p].second
                                    THEN "judge" ELSE "answered"]
          /\ pathLock' = None /\ UNCHANGED syncLock
     ELSE ReadFails(p)
  /\ UNCHANGED <<file, db, completed, begun, env>>

(* A bug of awsAutoSnapshotReusable: the service of the coverage is ignored. *)
Covered_AnyService(view, group, kind) ==
  \A place \in group : \E s \in Kinds : <<place, s>> \in view.succeeded

Covered(view, group, kind) == \A place \in group : <<place, kind>> \in view.succeeded

(* awsAutoSnapshotReusable *)
Reusable(view, group, kind) ==
  /\ clock - view.completed <= MaxAge
  /\ Covered(view, group, kind)

Judge(p) ==
  /\ proc[p].step = "judge"
  /\ proc' = IF Reusable(proc[p].view, proc[p].group, proc[p].kind)
             THEN [proc EXCEPT ![p].reused = TRUE, ![p].step = "answered"]
             ELSE [proc EXCEPT ![p] = Collecting(@)]
  /\ UNCHANGED <<file, db, syncLock, pathLock, completed, begun, env>>

Return(p) ==
  /\ proc[p].step = "answered"
  /\ End(p)
  /\ UNCHANGED <<file, db, completed, begun, env>>

-----------------------------------------------------------------------------
(* Collection *)

SyncLockTaken(p) == syncLock = None /\ syncLock' = p

(* The services a collection does not know are listed, not collected. *)
ScopesOf(group, collection) ==
  LET all == group \X (Collected[collection] \cup (IF collection = "graph" THEN {"other"} ELSE {})) IN
  [s \in all |-> IF s[2] = "other" THEN "not-observed" ELSE "waiting"]

TakeSyncLock(p) ==
  /\ proc[p].step = "syncLock"
  /\ SyncLockTaken(p)
  /\ proc' = [proc EXCEPT ![p].step = "collect", ![p].started = clock, ![p].seen = {},
                          ![p].coverage = ScopesOf(proc[p].group, proc[p].collection)]
  /\ UNCHANGED <<file, db, pathLock, completed, begun, env>>

Running(p) == {s \in DOMAIN proc[p].coverage : proc[p].coverage[s] = "running"}
Ended(p)   == \A s \in DOMAIN proc[p].coverage : proc[p].coverage[s] \in Statuses

StartScope(p, s) ==
  /\ proc[p].step = "collect"
  /\ s \in DOMAIN proc[p].coverage /\ proc[p].coverage[s] = "waiting"
  /\ Cardinality(Running(p)) < Concurrency
  /\ proc' = [proc EXCEPT ![p].coverage[s] = "running"]
  /\ UNCHANGED <<file, db, syncLock, pathLock, completed, begun, env>>

Gained(s, status) == IF status = "succeeded" /\ world[s].there THEN {s} ELSE {}

(* A collector reads all of a scope, or fails and what it read is dropped. *)
EndScope(p, s, status) ==
  /\ proc[p].step = "collect"
  /\ s \in Running(p)
  /\ proc' = [proc EXCEPT ![p].coverage[s] = status, ![p].seen = @ \cup Gained(s, status)]
  /\ UNCHANGED <<file, db, syncLock, pathLock, completed, begun, env>>

(* A collection that is cancelled waits for the scopes it has started. *)
Cancel(p) ==
  /\ proc[p].step = "collect" /\ ~proc[p].cancelled
  /\ proc' = [proc EXCEPT ![p].cancelled = TRUE]
  /\ UNCHANGED <<file, db, syncLock, pathLock, completed, begun, env>>

(* A bug of Collect: a scope that waits for its turn ignores the cancellation. *)
DropCollection_All(p) ==
  /\ proc[p].step = "collect"
  /\ proc[p].cancelled /\ Ended(p)
  /\ End(p)
  /\ UNCHANGED <<file, db, completed, begun, env>>

DropCollection(p) ==
  /\ proc[p].step = "collect"
  /\ proc[p].cancelled /\ Running(p) = {}
  /\ End(p)
  /\ UNCHANGED <<file, db, completed, begun, env>>

(* A bug of Sync: the sync lock is let go before the run is committed. *)
EndCollection_Unlocks(p) ==
  /\ proc[p].step = "collect"
  /\ Ended(p) /\ ~proc[p].cancelled
  /\ completed' = completed + 1
  /\ syncLock' = None
  /\ proc' = [proc EXCEPT ![p].step = "pathLock",
                ![p].run = [id |-> completed + 1, started |-> proc[p].started, completed |-> clock]]
  /\ UNCHANGED <<file, db, pathLock, begun, env>>

(* The time a collection is complete is taken when all scopes have ended. *)
EndCollection(p) ==
  /\ proc[p].step = "collect"
  /\ Ended(p) /\ ~proc[p].cancelled
  /\ completed' = completed + 1
  /\ proc' = [proc EXCEPT ![p].step = "pathLock",
                ![p].run = [id |-> completed + 1, started |-> proc[p].started, completed |-> clock]]
  /\ UNCHANGED <<file, db, syncLock, pathLock, begun, env>>

(* Open: a database that cannot be read is moved aside, then made anew; an *)
(* older one is migrated; a newer one is left alone.                       *)
Open(p) ==
  /\ proc[p].step = "open"
  /\ CASE file = "newer" -> End(p) /\ UNCHANGED <<file, db>>
       [] file = "corrupt" -> /\ file' = "absent" /\ db' = Fresh
                              /\ UNCHANGED <<proc, syncLock, pathLock>>
       [] OTHER -> /\ file' = "current" /\ UNCHANGED <<db, syncLock, pathLock>>
                   /\ Go(p, "commit")
  /\ UNCHANGED <<completed, begun, env>>

(* CommitRun, one transaction; then both locks are let go.  Resolve reads *)
(* what is active after that.                                             *)
CommitCollection(p) ==
  /\ proc[p].step = "commit"
  /\ IF file = "current"
     THEN /\ db' = CommitRun(db, proc[p].run, proc[p].coverage, proc[p].seen)
          /\ IF proc[p].cmd = "resolve"
             THEN /\ proc' = [proc EXCEPT ![p] = Reading(@)]
                  /\ syncLock' = Free(syncLock, p) /\ pathLock' = None
             ELSE End(p)
     ELSE End(p) /\ UNCHANGED db
  /\ UNCHANGED <<file, completed, begun, env>>

-----------------------------------------------------------------------------
(* The environment *)

Tick ==
  /\ clock < MaxTime
  /\ clock' = clock + 1
  /\ UNCHANGED <<file, db, syncLock, pathLock, proc, completed, begun, world, changes, damage>>

Change(s) ==
  /\ changes < MaxChanges /\ s[2] \in Kinds
  /\ changes' = changes + 1
  /\ world' = [world EXCEPT ![s] = [there |-> ~@.there, since |-> clock]]
  /\ UNCHANGED <<file, db, syncLock, pathLock, proc, completed, begun, clock, damage>>

Damage ==
  /\ damage < MaxDamage /\ file = "current"
  /\ damage' = damage + 1
  /\ file' = "corrupt"
  /\ UNCHANGED <<db, syncLock, pathLock, proc, completed, begun, world, clock, changes>>

Step(p) ==
  \/ Look(p) \/ TakePathLock(p) \/ Read(p) \/ Judge(p) \/ Return(p)
  \/ TakeSyncLock(p) \/ DropCollection(p) \/ EndCollection(p) \/ Open(p) \/ CommitCollection(p)

Next ==
  \/ \E p \in Procs :
       \/ \E group \in Groups, collection \in DOMAIN Collected : BeginSync(p, group, collection)
       \/ BeginRefs(p)
       \/ \E group \in Groups, kind \in Kinds, force \in BOOLEAN : BeginResolve(p, group, kind, force)
       \/ Stop(p) \/ Cancel(p) \/ Step(p)
       \/ \E s \in Scopes : \/ StartScope(p, s)
                             \/ \E status \in {"succeeded", "failed"} : EndScope(p, s, status)
  \/ Tick \/ Damage
  \/ \E s \in Scopes : Change(s)

Spec == Init /\ [][Next]_vars

(* Commands go on, and a collector returns once it is cancelled.  It need *)
(* not return before: that is up to AWS and to its timeout.               *)
Fairness ==
  \A p \in Procs :
    /\ WF_vars(Step(p))
    /\ WF_vars(proc[p].cancelled /\ \E s \in Scopes : EndScope(p, s, "failed"))

FairSpec == Spec /\ Fairness

-----------------------------------------------------------------------------
(* Properties *)

Steps == {"idle", "look", "readLock", "read", "judge", "answered", "syncLock", "collect",
          "pathLock", "open", "commit"}
Runs  == [id : Nat, started : Nat, completed : Nat]

(* The tables, the locks and the commands in flight have their types; whoever *)
(* is between taking a lock and letting it go is the one holder of it.        *)
TypeOK ==
  /\ file \in Files
  /\ db.runs \subseteq Runs /\ db.active \in Nat
  /\ db.coverage \subseteq [run : Nat, scope : Scopes, status : Statuses]
  /\ db.observation \subseteq [run : Nat, resource : Scopes] /\ db.resource \subseteq Scopes
  /\ syncLock \in Procs \cup {None} /\ pathLock \in Procs \cup {None}
  /\ \A p \in Procs :
       /\ proc[p].step \in Steps /\ proc[p].run \in Runs
       /\ proc[p].step \in {"collect", "pathLock", "open", "commit"} <=> syncLock = p
       /\ proc[p].step \in {"read", "open", "commit"} <=> pathLock = p

(* After any number of synchronisations the tables agree: the active run is   *)
(* there with its coverage, no more runs are kept than Retention, no row is   *)
(* left of a removed run, the resources are exactly those a kept run refers   *)
(* to, and none was read in a scope the run does not report as succeeded      *)
(* (Collect, CommitRun, retainRuns).                                          *)
TablesConsistent ==
  LET ids == {r.id : r \in db.runs} IN
  /\ db.active # 0 => db.active \in {c.run : c \in db.coverage} \cap ids
  /\ db.active = 0 => ids = {}
  /\ Cardinality(db.runs) <= Retention
  /\ {c.run : c \in db.coverage} \cup {o.run : o \in db.observation} \subseteq ids
  /\ db.resource = {o.resource : o \in db.observation}
  /\ \A o \in db.observation :
       [run |-> o.run, scope |-> o.resource, status |-> "succeeded"] \in db.coverage

(* The sync lock serialises whole synchronisations: of two kept runs one was  *)
(* complete before the other was started, and the active run is the newest.   *)
CollectionsDoNotOverlap ==
  /\ \A r \in db.runs : r.id <= db.active
  /\ \A r, s \in db.runs : r.id < s.id => r.completed <= s.started

(* The active run is replaced only by a complete run of a command that was    *)
(* not cancelled, and stays in the database as the previous one with all its  *)
(* rows; it is lost only with a database that can no longer be read.          *)
ActiveRunReplacedWhole ==
  [][db'.active # db.active =>
       \/ file = "corrupt"
       \/ /\ \E p \in Procs : /\ proc[p].run.id = db'.active /\ syncLock = p /\ ~proc[p].cancelled
                              /\ {c.scope : c \in {d \in db'.coverage : d.run = db'.active}}
                                   = DOMAIN proc[p].coverage
          /\ Retention > 1 => /\ ActiveRun(db) \subseteq db'.runs
                              /\ \A o \in db.observation : o.run = db.active => o \in db'.observation]_vars

(* An answer shows what was in AWS when its run was started, unless it has    *)
(* changed since: in every scope it reports as succeeded, and, when Resolve   *)
(* reuses a run, in every place of the group asked for.  So neither a failed  *)
(* scope, nor another group's run, nor a service the run did not collect,     *)
(* passes for a resource that nothing refers to.                              *)
AnswersAreAccurate ==
  \A p \in Procs : proc[p].step = "answered" =>
    LET view   == proc[p].view
        asked  == IF proc[p].reused THEN proc[p].group \X {proc[p].kind} ELSE {}
    IN \A s \in view.succeeded \cup asked :
         world[s].since < view.started => (s \in view.observed) = world[s].there

(* refs ends, although another process collects and AWS never answers it. *)
RefsEnds == \A p \in Procs : proc[p].cmd = "refs" ~> proc[p].step = "idle"

(* A collection that is cancelled ends, and lets go of the sync lock. *)
CancelledCollectionEnds ==
  \A p \in Procs : proc[p].cancelled ~> (proc[p].step = "idle" /\ syncLock # p)

(* B4C-AUTO-INCOMING-RELATIONS.md: on an SSO, permission or timeout failure *)
(* the active snapshot is not replaced.                                     *)
FailedCollectionKeepsActiveRun ==
  [][db.active # 0 /\ db'.active # db.active /\ file # "corrupt" =>
       \E c \in db'.coverage : c.run = db'.active /\ c.status = "succeeded"]_vars
=============================================================================
