--------------------------- MODULE SnapshotProofs ---------------------------
(***************************************************************************)
(* What holds of the AWS relationship snapshot for any number of bb        *)
(* processes, groups, places, collections and times.                       *)
(*                                                                         *)
(* First its locks and its runs: the two file locks are held by those who  *)
(* use what they guard, and synchronisations of the database are serial,   *)
(* so that the active run is the newest one.                               *)
(*                                                                         *)
(* Then its tables, and the answers read from them.  The argument goes     *)
(* with the rows.  A collection tells the truth about the scopes it has    *)
(* read, from the moment it reads each of them; CommitRun copies it whole  *)
(* into rows of a run of its own, and takes away only whole runs; a view   *)
(* is the rows of one run.  A change in AWS is never older than the start  *)
(* of a collection in progress, so what was true stays true or has changed *)
(* since.                                                                  *)
(***************************************************************************)
EXTENDS SnapshotSync, FiniteSetTheorems, WellFoundedInduction, TLAPS

Syncing    == {"collect", "pathLock", "open", "commit"}
Committing == {"pathLock", "open", "commit"}
UsingFile  == {"read", "open", "commit"}

Coverages == UNION {[D -> Statuses \cup {"waiting", "running"}] : D \in SUBSET Scopes}
Views == [run : Nat, started : Nat, completed : Nat,
          succeeded : SUBSET Scopes, observed : SUBSET Scopes]

Jobs == [cmd : {"none", "sync", "refs", "resolve"}, group : SUBSET Places, kind : Kinds,
         collection : {"sg", "graph"}, step : Steps, cancelled : BOOLEAN, second : BOOLEAN,
         started : Nat, run : Runs, coverage : Coverages, seen : SUBSET Scopes, view : Views,
         reused : BOOLEAN]

Databases == [runs : SUBSET Runs, active : Nat,
              coverage : SUBSET [run : Nat, scope : Scopes, status : Statuses],
              observation : SUBSET [run : Nat, resource : Scopes],
              resource : SUBSET Scopes]

(* The holder of a lock is the process between taking it and letting it go. *)
Held(p, job, sync, path) ==
  /\ job.step \in Syncing <=> sync = p
  /\ job.step \in UsingFile <=> path = p

(* What a synchronisation in progress has over the runs of the database:    *)
(* they were complete before it was started, and its run is newer than they *)
(* are.                                                                     *)
Ahead(job, runs, now, count) ==
  /\ job.step \in Syncing => /\ job.started <= now
                             /\ \A r \in runs : r.completed <= job.started
  /\ job.step \in Committing =>
       /\ job.run.started = job.started /\ job.run.completed <= now
       /\ job.run.id <= count /\ \A r \in runs : r.id < job.run.id
       /\ \A s \in DOMAIN job.coverage : job.coverage[s] \in Statuses

IInv ==
  /\ file \in Files /\ db \in Databases /\ proc \in [Procs -> Jobs]
  /\ syncLock \in Procs \cup {None} /\ pathLock \in Procs \cup {None}
  /\ clock \in Nat /\ completed \in Nat
  /\ \A r \in db.runs : r.completed <= clock /\ r.id <= completed
  /\ CollectionsDoNotOverlap
  /\ \A p \in Procs : Held(p, proc[p], syncLock, pathLock)
  /\ \A p \in Procs : Ahead(proc[p], db.runs, clock, completed)

-----------------------------------------------------------------------------
(* Types of what the actions write *)

LEMMA ScopesType == ASSUME NEW g \in SUBSET Places, NEW c \in {"sg", "graph"}
                    PROVE  ScopesOf(g, c) \in Coverages
<1> DEFINE D == g \X (Collected[c] \cup (IF c = "graph" THEN {"other"} ELSE {}))
<1>1. D \in SUBSET Scopes
  BY DEF Scopes, Services, Collected
<1>2. ScopesOf(g, c) \in [D -> Statuses \cup {"waiting", "running"}]
  BY DEF ScopesOf, Statuses
<1> QED BY <1>1, <1>2 DEF Coverages

LEMMA IdleType == Idle \in Jobs /\ Idle.step = "idle" /\ NoView \in Views /\ NoRun \in Runs
<1>1. [s \in {} |-> "waiting"] \in Coverages
  BY DEF Coverages
<1> QED BY <1>1 DEF Idle, Jobs, NoView, NoRun, Runs, Views, Kinds, Steps

LEMMA ViewType == ASSUME NEW d \in Databases, ActiveRun(d) # {}
                  PROVE  ActiveView(d) \in Views
<1> DEFINE run == CHOOSE r \in ActiveRun(d) : TRUE
<1>1. run \in Runs
  BY DEF ActiveRun, Databases
<1>2. run.id \in Nat /\ run.started \in Nat /\ run.completed \in Nat
  BY <1>1 DEF Runs
<1>3. {c.scope : c \in {e \in d.coverage : e.run = run.id /\ e.status = "succeeded"}} \in SUBSET Scopes
  BY DEF Databases
<1>4. {o.resource : o \in {e \in d.observation : e.run = run.id /\ e.resource \in d.resource}} \in SUBSET Scopes
  BY DEF Databases
<1> QED BY <1>2, <1>3, <1>4 DEF ActiveView, Views

LEMMA DeleteRunsType ==
  ASSUME NEW d \in Databases, NEW ids
  PROVE  /\ DeleteRuns(d, ids) \in Databases
         /\ DeleteRuns(d, ids).runs \subseteq d.runs
         /\ DeleteRuns(d, ids).active = d.active
<1> DEFINE R == {r \in d.runs : r.id \notin ids}
           C == {c \in d.coverage : c.run \notin ids}
           O == {o \in d.observation : o.run \notin ids}
<1>1. R \subseteq d.runs /\ C \subseteq d.coverage /\ O \subseteq d.observation
  OBVIOUS
<1>2. DeleteRuns(d, ids) = [d EXCEPT !.runs = R, !.coverage = C, !.observation = O]
  BY DEF DeleteRuns
<1> HIDE DEF R, C, O
<1> QED BY <1>1, <1>2 DEF Databases

(* A committed run is the active one; what is kept was there or is the run. *)
LEMMA CommitKeeps ==
  ASSUME NEW d \in Databases, NEW run \in Runs, NEW c \in Coverages, NEW seen \in SUBSET Scopes,
         \A s \in DOMAIN c : c[s] \in Statuses
  PROVE  /\ CommitRun(d, run, c, seen) \in Databases
         /\ CommitRun(d, run, c, seen).runs \subseteq d.runs \cup {run}
         /\ CommitRun(d, run, c, seen).active = run.id
<1> DEFINE rows == {[run |-> run.id, scope |-> s, status |-> c[s]] : s \in DOMAIN c}
           with == [runs        |-> d.runs \cup {run},
                    active      |-> run.id,
                    coverage    |-> d.coverage \cup rows,
                    observation |-> d.observation \cup {[run |-> run.id, resource |-> r] : r \in seen},
                    resource    |-> d.resource \cup seen]
           left == DeleteRuns(with, {r.id : r \in Excess(with)})
<1>1. DOMAIN c \subseteq Scopes
  BY DEF Coverages
<1>2. rows \subseteq [run : Nat, scope : Scopes, status : Statuses]
  BY <1>1 DEF Runs
<1>3. {[run |-> run.id, resource |-> r] : r \in seen} \subseteq [run : Nat, resource : Scopes]
  BY DEF Runs
<1>4. with \in Databases /\ with.runs = d.runs \cup {run} /\ with.active = run.id
  BY <1>2, <1>3 DEF Databases, Runs
<1>5. CommitRun(d, run, c, seen) = DeleteUnusedResources(left)
  BY DEF CommitRun, RetainRuns
<1> HIDE DEF with
<1>6. left \in Databases /\ left.runs \subseteq with.runs /\ left.active = with.active
  BY <1>4, DeleteRunsType
<1> HIDE DEF left
<1>7. /\ DeleteUnusedResources(left) \in Databases
      /\ DeleteUnusedResources(left).runs = left.runs
      /\ DeleteUnusedResources(left).active = left.active
  BY <1>6 DEF DeleteUnusedResources, Databases
<1> QED BY <1>4, <1>5, <1>6, <1>7

-----------------------------------------------------------------------------
(* The invariant *)

LEMMA InitIInv == Init => IInv
<1> SUFFICES ASSUME Init PROVE IInv
  OBVIOUS
<1>1. Fresh \in Databases /\ Fresh.runs = {} /\ Fresh.active = 0
  BY DEF Fresh, Databases
<1> DEFINE c == [s \in Places \X {"sg"} |-> "succeeded"]
           run == [id |-> 1, started |-> 0, completed |-> 0]
<1>2. run \in Runs /\ c \in Coverages /\ \A s \in DOMAIN c : c[s] \in Statuses
  <2>1. Places \X {"sg"} \in SUBSET Scopes
    BY DEF Scopes, Services
  <2>2. c \in [Places \X {"sg"} -> Statuses \cup {"waiting", "running"}]
    BY DEF Statuses
  <2> QED BY <2>1, <2>2 DEF Coverages, Runs, Statuses
<1>3. OldRun = CommitRun(Fresh, run, c, {})
  BY DEF OldRun
<1> HIDE DEF c
<1>4. OldRun \in Databases /\ OldRun.runs \subseteq {run} /\ OldRun.active = 1
  BY <1>1, <1>2, <1>3, CommitKeeps
<1>5. /\ db \in Databases /\ file \in Files /\ completed \in Nat
      /\ db.runs \subseteq {run} /\ completed \in Nat
      /\ db.runs # {} => db.active = 1 /\ completed = 1
  BY <1>1, <1>4 DEF Init, Files
<1>6. /\ \A p \in Procs : Held(p, proc[p], syncLock, pathLock)
      /\ \A p \in Procs : Ahead(proc[p], db.runs, clock, completed)
  BY IdleType, SnapshotAssumption DEF Init, Held, Ahead, Syncing, Committing, UsingFile
<1>7. CollectionsDoNotOverlap
  BY <1>5 DEF CollectionsDoNotOverlap
<1>8. \A r \in db.runs : r.completed <= clock /\ r.id <= completed
  BY <1>5 DEF Init
<1> QED BY <1>5, <1>6, <1>7, <1>8, IdleType DEF Init, IInv

(* A step of one command, which leaves the tables and the time alone, keeps   *)
(* the invariant when the command is still as the invariant wants it, and the *)
(* other commands keep their locks.                                           *)
LEMMA Move ==
  ASSUME IInv, NEW p \in Procs, NEW job \in Jobs,
         proc' = [proc EXCEPT ![p] = job], file' \in Files, UNCHANGED <<db, clock>>,
         completed' \in Nat, completed <= completed',
         syncLock' \in Procs \cup {None}, pathLock' \in Procs \cup {None},
         \A q \in Procs \ {p} : /\ syncLock' = q <=> syncLock = q
                                /\ pathLock' = q <=> pathLock = q,
         Held(p, job, syncLock', pathLock'), Ahead(job, db.runs, clock, completed')
  PROVE  IInv'
<1>1. /\ file' \in Files /\ db' \in Databases /\ proc' \in [Procs -> Jobs]
      /\ clock' \in Nat /\ CollectionsDoNotOverlap'
  BY DEF IInv, CollectionsDoNotOverlap
<1>2. \A q \in Procs : Held(q, proc'[q], syncLock', pathLock')
  BY DEF IInv, Held
<1>3. \A q \in Procs : Ahead(proc'[q], db.runs, clock, completed')
  <2> SUFFICES ASSUME NEW q \in Procs, q # p
               PROVE  Ahead(proc[q], db.runs, clock, completed')
    BY DEF IInv
  <2>1. Ahead(proc[q], db.runs, clock, completed) /\ proc[q].run.id \in Nat /\ completed \in Nat
    BY DEF IInv, Jobs, Runs
  <2> QED BY <2>1 DEF Ahead
<1>4. \A r \in db.runs : r.completed <= clock /\ r.id <= completed'
  BY DEF IInv, Databases, Runs
<1> QED BY <1>1, <1>2, <1>3, <1>4 DEF IInv

(* The command stays inside, or outside, the sections the locks guard. *)
LEMMA Stay ==
  ASSUME IInv, NEW p \in Procs, NEW job \in Jobs,
         proc' = [proc EXCEPT ![p] = job], file' \in Files, UNCHANGED <<db, clock, syncLock, pathLock>>,
         completed' \in Nat, completed <= completed',
         job.step \in Syncing <=> proc[p].step \in Syncing,
         job.step \in UsingFile <=> proc[p].step \in UsingFile,
         Ahead(job, db.runs, clock, completed')
  PROVE  IInv'
<1>1. Held(p, job, syncLock', pathLock')
  BY DEF IInv, Held
<1>2. syncLock' \in Procs \cup {None} /\ pathLock' \in Procs \cup {None}
  BY DEF IInv
<1> QED BY <1>1, <1>2, Move

(* The command leaves both sections, and lets go of its locks. *)
LEMMA Leave ==
  ASSUME IInv, NEW p \in Procs, NEW job \in Jobs, job.step \notin Syncing \cup UsingFile,
         proc' = [proc EXCEPT ![p] = job],
         syncLock' = Free(syncLock, p), pathLock' = Free(pathLock, p)
  PROVE  /\ proc' \in [Procs -> Jobs]
         /\ syncLock' \in Procs \cup {None} /\ pathLock' \in Procs \cup {None}
         /\ \A q \in Procs \ {p} : /\ syncLock' = q <=> syncLock = q
                                   /\ pathLock' = q <=> pathLock = q
         /\ Held(p, job, syncLock', pathLock')
         /\ \A runs, now, count : Ahead(job, runs, now, count)
<1>1. None # p /\ \A q \in Procs : None # q
  BY SnapshotAssumption
<1>2. syncLock' # p /\ pathLock' # p
  BY <1>1 DEF Free
<1>3. Held(p, job, syncLock', pathLock')
  BY <1>2 DEF Held
<1>4. \A runs, now, count : Ahead(job, runs, now, count)
  BY DEF Ahead, Syncing, Committing
<1>5. \A q \in Procs \ {p} : /\ syncLock' = q <=> syncLock = q
                             /\ pathLock' = q <=> pathLock = q
  BY <1>1 DEF Free
<1>6. syncLock' \in Procs \cup {None} /\ pathLock' \in Procs \cup {None}
  BY DEF IInv, Free
<1> QED BY <1>3, <1>4, <1>5, <1>6 DEF IInv

LEMMA LeaveKeeps ==
  ASSUME IInv, NEW p \in Procs, NEW job \in Jobs, job.step \notin Syncing \cup UsingFile,
         proc' = [proc EXCEPT ![p] = job],
         syncLock' = Free(syncLock, p), pathLock' = Free(pathLock, p),
         UNCHANGED <<file, db, clock, completed>>
  PROVE  IInv'
<1>1. file' \in Files /\ completed' \in Nat /\ completed <= completed'
  BY DEF IInv
<1>2. Ahead(job, db.runs, clock, completed')
  BY Leave
<1> QED BY <1>1, <1>2, Leave, Move

LEMMA EndKeeps == ASSUME IInv, NEW p \in Procs, End(p), UNCHANGED <<file, db, clock, completed>>
                  PROVE  IInv'
<1>1. Idle \in Jobs /\ Idle.step \notin Syncing \cup UsingFile
  BY IdleType DEF Syncing, UsingFile
<1> QED BY <1>1, LeaveKeeps DEF End

LEMMA BeginKeeps ==
  ASSUME IInv, NEW p \in Procs, NEW job \in Jobs, NEW first \in {"syncLock", "look"},
         Begin(p, job, first)
  PROVE  IInv'
<1> DEFINE next == [job EXCEPT !.step = first]
<1>1. next \in Jobs /\ next.step = first
  BY DEF Jobs, Steps
<1>2. next.step \notin Syncing \cup UsingFile /\ proc[p].step \notin Syncing \cup UsingFile
  BY <1>1 DEF Begin, Syncing, UsingFile
<1>3. Ahead(next, db.runs, clock, completed')
  BY <1>2 DEF Ahead, Syncing, Committing
<1>4. /\ file' \in Files /\ completed' \in Nat /\ completed <= completed'
      /\ UNCHANGED <<db, clock, syncLock, pathLock>> /\ proc' = [proc EXCEPT ![p] = next]
  BY DEF Begin, IInv, env
<1> HIDE DEF next
<1> QED BY <1>1, <1>2, <1>3, <1>4, Stay

-----------------------------------------------------------------------------
(* One lemma for each action that changes more than the command *)

LEMMA ReadFailsKeeps ==
  ASSUME IInv, NEW p \in Procs, ReadFails(p), UNCHANGED <<file, db, clock, completed>>
  PROVE  IInv'
<1> DEFINE job == Collecting(proc[p])
<1>1. job \in Jobs /\ job.step \notin Syncing \cup UsingFile
  BY IdleType DEF IInv, Jobs, Collecting, Steps, Syncing, UsingFile
<1>2. CASE proc[p].cmd = "resolve" /\ ~proc[p].second
  <2>1. /\ proc' = [proc EXCEPT ![p] = job]
        /\ syncLock' = Free(syncLock, p) /\ pathLock' = Free(pathLock, p)
    BY <1>2 DEF ReadFails, IInv
  <2> HIDE DEF job
  <2> QED BY <1>1, <2>1, LeaveKeeps
<1>3. CASE ~(proc[p].cmd = "resolve" /\ ~proc[p].second)
  BY <1>3, EndKeeps DEF ReadFails
<1> QED BY <1>2, <1>3

LEMMA LookKeeps == ASSUME IInv, NEW p \in Procs, Look(p) PROVE IInv'
<1>1. CASE file = "absent"
  BY <1>1, ReadFailsKeeps DEF Look, env
<1>2. CASE file # "absent"
  <2> DEFINE job == [proc[p] EXCEPT !.step = "readLock"]
  <2>1. job \in Jobs /\ job.step = "readLock" /\ proc[p].step = "look"
    BY DEF Look, IInv, Jobs, Steps
  <2>2. /\ file' \in Files /\ completed' \in Nat /\ completed <= completed'
        /\ UNCHANGED <<db, clock, syncLock, pathLock>> /\ proc' = [proc EXCEPT ![p] = job]
    BY <1>2 DEF Look, Go, IInv, env
  <2>3. Ahead(job, db.runs, clock, completed')
    BY <2>1 DEF Ahead, Syncing, Committing
  <2> HIDE DEF job
  <2> QED BY <2>1, <2>2, <2>3, Stay DEF Syncing, UsingFile
<1> QED BY <1>1, <1>2

LEMMA TakePathLockKeeps == ASSUME IInv, NEW p \in Procs, TakePathLock(p) PROVE IInv'
<1> DEFINE next == IF proc[p].step = "readLock" THEN "read" ELSE "open"
           job == [proc[p] EXCEPT !.step = next]
<1>1. /\ job \in Jobs /\ job.step = next /\ job.run = proc[p].run
      /\ job.started = proc[p].started /\ job.coverage = proc[p].coverage
      /\ proc[p].step \in {"readLock", "pathLock"}
  BY DEF TakePathLock, IInv, Jobs, Steps
<1>2. /\ file' \in Files /\ completed' = completed /\ completed \in Nat
      /\ UNCHANGED <<db, clock, syncLock>> /\ pathLock = None /\ pathLock' = p
      /\ proc' = [proc EXCEPT ![p] = job]
  BY DEF TakePathLock, Go, IInv, env
<1>3. Held(p, proc[p], syncLock, pathLock) /\ Ahead(proc[p], db.runs, clock, completed)
  BY DEF IInv
<1> HIDE DEF job
<1>4. Ahead(job, db.runs, clock, completed')
  BY <1>1, <1>2, <1>3 DEF Ahead, Syncing, Committing
<1>5. Held(p, job, syncLock', pathLock')
  BY <1>1, <1>2, <1>3 DEF Held, Syncing, UsingFile
<1>6. /\ syncLock' \in Procs \cup {None} /\ pathLock' \in Procs \cup {None}
      /\ completed <= completed' /\ completed' \in Nat
  BY <1>2 DEF IInv
<1>7. \A q \in Procs \ {p} : /\ syncLock' = q <=> syncLock = q
                             /\ pathLock' = q <=> pathLock = q
  BY <1>2, SnapshotAssumption
<1> QED BY <1>1, <1>2, <1>4, <1>5, <1>6, <1>7, Move

LEMMA ReadKeeps == ASSUME IInv, NEW p \in Procs, Read(p) PROVE IInv'
<1>1. CASE ~(file = "current" /\ ActiveRun(db) # {})
  BY <1>1, ReadFailsKeeps DEF Read, env
<1>2. CASE file = "current" /\ ActiveRun(db) # {}
  <2> DEFINE view == ActiveView(db)
             next == IF proc[p].cmd = "resolve" /\ ~proc[p].second THEN "judge" ELSE "answered"
             job == [proc[p] EXCEPT !.view = view, !.step = next]
  <2>1. view \in Views
    BY <1>2, ViewType DEF IInv
  <2>2. proc' = [proc EXCEPT ![p] = job] /\ proc[p].step = "read"
    BY <1>2 DEF Read, IInv
  <2>3. next \in {"judge", "answered"}
    OBVIOUS
  <2> HIDE DEF view, next
  <2>4. job \in Jobs /\ job.step = next
    <3>1. proc[p] \in Jobs
      BY DEF IInv
    <3> QED BY <2>1, <2>3, <3>1 DEF Jobs, Steps
  <2>5. job.step \notin Syncing \cup UsingFile
    BY <2>3, <2>4 DEF Syncing, UsingFile
  <2>6. syncLock # p /\ pathLock = p
    BY <2>2 DEF IInv, Held, Syncing, UsingFile
  <2>7. syncLock' = Free(syncLock, p) /\ pathLock' = Free(pathLock, p)
    BY <1>2, <2>6 DEF Read, Free
  <2>8. UNCHANGED <<file, db, clock, completed>>
    BY DEF Read, env
  <2> HIDE DEF job
  <2> QED BY <2>2, <2>4, <2>5, <2>7, <2>8, LeaveKeeps
<1> QED BY <1>1, <1>2

LEMMA JudgeKeeps == ASSUME IInv, NEW p \in Procs, Judge(p) PROVE IInv'
<1> DEFINE kept == [proc[p] EXCEPT !.reused = TRUE, !.step = "answered"]
           job == IF Reusable(proc[p].view, proc[p].group, proc[p].kind)
                  THEN kept ELSE Collecting(proc[p])
<1>1. /\ kept \in Jobs /\ Collecting(proc[p]) \in Jobs
      /\ kept.step = "answered" /\ Collecting(proc[p]).step = "syncLock"
  BY IdleType DEF IInv, Jobs, Collecting, Steps
<1>2. job \in Jobs /\ job.step \notin Syncing \cup UsingFile /\ proc[p].step = "judge"
  BY <1>1 DEF Judge, Syncing, UsingFile
<1>3. /\ file' \in Files /\ completed' \in Nat /\ completed <= completed'
      /\ UNCHANGED <<db, clock, syncLock, pathLock>>
  BY DEF Judge, IInv, env
<1>4. proc' = [proc EXCEPT ![p] = job]
  BY DEF Judge, IInv
<1> HIDE DEF job
<1>5. Ahead(job, db.runs, clock, completed')
  BY <1>2 DEF Ahead, Syncing, Committing
<1> QED BY <1>2, <1>3, <1>4, <1>5, Stay DEF Syncing, UsingFile

LEMMA TakeSyncLockKeeps == ASSUME IInv, NEW p \in Procs, TakeSyncLock(p) PROVE IInv'
<1> DEFINE scopes == ScopesOf(proc[p].group, proc[p].collection)
           job == [proc[p] EXCEPT !.step = "collect", !.started = clock, !.seen = {},
                                  !.coverage = scopes]
<1>1. scopes \in Coverages
  BY ScopesType DEF IInv, Jobs
<1>2. proc' = [proc EXCEPT ![p] = job]
  BY DEF TakeSyncLock, IInv
<1> HIDE DEF scopes
<1>3. job \in Jobs /\ job.step = "collect" /\ job.started = clock
  <2>1. proc[p] \in Jobs /\ clock \in Nat
    BY DEF IInv
  <2> QED BY <1>1, <2>1 DEF Jobs, Steps
<1>4. proc[p].step = "syncLock" /\ syncLock = None /\ syncLock' = p /\ pathLock # p
  BY DEF TakeSyncLock, SyncLockTaken, IInv, Held, UsingFile
<1>5. /\ file' \in Files /\ completed' \in Nat /\ completed <= completed'
      /\ UNCHANGED <<db, clock, pathLock>>
  BY DEF TakeSyncLock, IInv, env
<1>6. Ahead(job, db.runs, clock, completed')
  BY <1>3 DEF IInv, Ahead, Committing
<1> HIDE DEF job
<1>7. Held(p, job, syncLock', pathLock')
  BY <1>3, <1>4, <1>5 DEF Held, Syncing, UsingFile
<1>8. syncLock' \in Procs \cup {None} /\ pathLock' \in Procs \cup {None}
  BY <1>4, <1>5 DEF IInv
<1>9. \A q \in Procs \ {p} : /\ syncLock' = q <=> syncLock = q
                             /\ pathLock' = q <=> pathLock = q
  BY <1>4, <1>5, SnapshotAssumption
<1> QED BY <1>2, <1>3, <1>5, <1>6, <1>7, <1>8, <1>9, Move

(* StartScope, EndScope and Cancel: the command goes on collecting. *)
LEMMA CollectKeeps ==
  ASSUME IInv, NEW p \in Procs, NEW job \in Jobs,
         proc' = [proc EXCEPT ![p] = job], UNCHANGED <<file, db, syncLock, pathLock, completed, clock>>,
         proc[p].step = "collect", job.step = "collect", job.started = proc[p].started
  PROVE  IInv'
<1>1. file' \in Files /\ completed' \in Nat /\ completed <= completed'
  BY DEF IInv
<1>2. Ahead(proc[p], db.runs, clock, completed) /\ completed' = completed
  BY DEF IInv
<1>3. Ahead(job, db.runs, clock, completed')
  BY <1>2 DEF Ahead, Syncing, Committing
<1> QED BY <1>1, <1>3, Stay

(* A scope of a collection may be given any status. *)
LEMMA CoverageType ==
  ASSUME NEW c \in Coverages, NEW s \in DOMAIN c, NEW status \in Statuses \cup {"waiting", "running"}
  PROVE  [c EXCEPT ![s] = status] \in Coverages
<1> PICK D \in SUBSET Scopes : c \in [D -> Statuses \cup {"waiting", "running"}]
  BY DEF Coverages
<1>1. [c EXCEPT ![s] = status] \in [D -> Statuses \cup {"waiting", "running"}]
  OBVIOUS
<1> QED BY <1>1 DEF Coverages

LEMMA StartScopeKeeps ==
  ASSUME IInv, NEW p \in Procs, NEW s \in Scopes, StartScope(p, s) PROVE IInv'
<1> DEFINE c == [proc[p].coverage EXCEPT ![s] = "running"]
           job == [proc[p] EXCEPT !.coverage = c]
<1>1. c \in Coverages
  BY CoverageType DEF StartScope, IInv, Jobs
<1>2. proc' = [proc EXCEPT ![p] = job]
  BY DEF StartScope, IInv, Jobs
<1> HIDE DEF c
<1>3. /\ job \in Jobs /\ job.step = proc[p].step /\ job.started = proc[p].started
      /\ proc[p].step = "collect"
  BY <1>1 DEF StartScope, IInv, Jobs
<1>4. UNCHANGED <<file, db, syncLock, pathLock, completed, clock>>
  BY DEF StartScope, env
<1> HIDE DEF job
<1> QED BY <1>2, <1>3, <1>4, CollectKeeps

LEMMA EndScopeKeeps ==
  ASSUME IInv, NEW p \in Procs, NEW s \in Scopes, NEW status \in {"succeeded", "failed"},
         EndScope(p, s, status)
  PROVE  IInv'
<1> DEFINE c == [proc[p].coverage EXCEPT ![s] = status]
           seen == proc[p].seen \cup Gained(s, status)
           job == [proc[p] EXCEPT !.coverage = c, !.seen = seen]
<1>1. c \in Coverages
  BY CoverageType DEF EndScope, Running, IInv, Jobs, Statuses
<1>2. seen \in SUBSET Scopes
  BY DEF Gained, IInv, Jobs
<1>3. proc' = [proc EXCEPT ![p] = job]
  BY DEF EndScope, IInv, Jobs
<1> HIDE DEF c, seen
<1>4. /\ job \in Jobs /\ job.step = proc[p].step /\ job.started = proc[p].started
      /\ proc[p].step = "collect"
  <2>1. proc[p] \in Jobs /\ proc[p].step = "collect"
    BY DEF EndScope, IInv
  <2> QED BY <1>1, <1>2, <2>1 DEF Jobs
<1>5. UNCHANGED <<file, db, syncLock, pathLock, completed, clock>>
  BY DEF EndScope, env
<1> HIDE DEF job
<1> QED BY <1>3, <1>4, <1>5, CollectKeeps

LEMMA CancelKeeps == ASSUME IInv, NEW p \in Procs, Cancel(p) PROVE IInv'
<1> DEFINE job == [proc[p] EXCEPT !.cancelled = TRUE]
<1>1. /\ job \in Jobs /\ job.step = proc[p].step /\ job.started = proc[p].started
      /\ proc[p].step = "collect"
  <2>1. proc[p] \in Jobs /\ proc[p].step = "collect"
    BY DEF Cancel, IInv
  <2> QED BY <2>1 DEF Jobs
<1>2. proc' = [proc EXCEPT ![p] = job] /\ UNCHANGED <<file, db, syncLock, pathLock, completed, clock>>
  BY DEF Cancel, IInv, env
<1> HIDE DEF job
<1> QED BY <1>1, <1>2, CollectKeeps

(* The run gets an id of its own, newer than any in the database. *)
LEMMA EndCollectionKeeps == ASSUME IInv, NEW p \in Procs, EndCollection(p) PROVE IInv'
<1> DEFINE run == [id |-> completed + 1, started |-> proc[p].started, completed |-> clock]
           job == [proc[p] EXCEPT !.step = "pathLock", !.run = run]
<1>1. /\ run \in Runs /\ run.id = completed + 1 /\ run.started = proc[p].started
      /\ run.completed = clock
  BY DEF IInv, Jobs, Runs
<1>2. proc' = [proc EXCEPT ![p] = job] /\ proc[p].step = "collect" /\ Ended(p)
  BY DEF EndCollection, IInv
<1> HIDE DEF run
<1>3. /\ job \in Jobs /\ job.step = "pathLock" /\ job.started = proc[p].started /\ job.run = run
      /\ job.coverage = proc[p].coverage
  <2>1. proc[p] \in Jobs
    BY DEF IInv
  <2> QED BY <1>1, <2>1 DEF Jobs, Steps
<1> HIDE DEF job
<1>4. /\ file' \in Files /\ completed' = completed + 1
      /\ UNCHANGED <<db, clock, syncLock, pathLock>>
  BY DEF EndCollection, IInv, env
<1>5. completed' \in Nat /\ completed <= completed' /\ completed \in Nat
  BY <1>4 DEF IInv
<1>6. Ahead(proc[p], db.runs, clock, completed) /\ clock \in Nat /\ proc[p].started \in Nat
  BY DEF IInv, Jobs
<1>7. \A r \in db.runs : r.id \in Nat /\ r.id <= completed
  BY DEF IInv, Databases, Runs
<1>8. \A s \in DOMAIN job.coverage : job.coverage[s] \in Statuses
  BY <1>2, <1>3 DEF Ended
<1>9. Ahead(job, db.runs, clock, completed')
  BY <1>1, <1>2, <1>3, <1>4, <1>5, <1>6, <1>7, <1>8 DEF Ahead, Syncing, Committing
<1> QED BY <1>2, <1>3, <1>4, <1>5, <1>9, Stay DEF Syncing, UsingFile

LEMMA OpenKeeps == ASSUME IInv, NEW p \in Procs, Open(p) PROVE IInv'
<1>1. CASE file = "newer"
  <2>1. End(p) /\ UNCHANGED <<file, db, clock, completed>>
    BY <1>1 DEF Open, env
  <2> QED BY <2>1, EndKeeps
<1>2. CASE file = "corrupt"
  <2>1. /\ file' = "absent" /\ db' = Fresh
        /\ UNCHANGED <<proc, syncLock, pathLock, completed, clock>>
    BY <1>2 DEF Open, env
  <2>2. db' \in Databases /\ db'.runs = {} /\ file' \in Files
    BY <2>1 DEF Fresh, Databases, Files
  <2>3. CollectionsDoNotOverlap'
    BY <2>2 DEF CollectionsDoNotOverlap
  <2>4. \A q \in Procs : Ahead(proc[q], db'.runs, clock, completed)
    BY <2>2 DEF IInv, Ahead
  <2>5. \A q \in Procs : Held(q, proc[q], syncLock, pathLock)
    BY DEF IInv
  <2> QED BY <2>1, <2>2, <2>3, <2>4, <2>5 DEF IInv
<1>3. CASE file \notin {"newer", "corrupt"}
  <2> DEFINE job == [proc[p] EXCEPT !.step = "commit"]
  <2>1. /\ file' = "current" /\ proc' = [proc EXCEPT ![p] = job] /\ proc[p].step = "open"
        /\ UNCHANGED <<db, clock, syncLock, pathLock>> /\ completed' = completed
    BY <1>3 DEF Open, Go, IInv, env
  <2>2. /\ job \in Jobs /\ job.step = "commit" /\ job.run = proc[p].run
        /\ job.started = proc[p].started /\ job.coverage = proc[p].coverage
    BY DEF IInv, Jobs, Steps
  <2> HIDE DEF job
  <2>3. Ahead(proc[p], db.runs, clock, completed)
    BY DEF IInv
  <2>4. Ahead(job, db.runs, clock, completed')
    BY <2>1, <2>2, <2>3 DEF Ahead, Syncing, Committing
  <2>5. file' \in Files /\ completed' \in Nat /\ completed <= completed'
    BY <2>1 DEF Files, IInv
  <2> QED BY <2>1, <2>2, <2>4, <2>5, Stay DEF Syncing, UsingFile
<1> QED BY <1>1, <1>2, <1>3

(* The others are not collecting while the run is committed, and every run in *)
(* the database was complete before the committed one was started.            *)
LEMMA CommitCollectionKeeps == ASSUME IInv, NEW p \in Procs, CommitCollection(p) PROVE IInv'
<1> DEFINE run == proc[p].run
<1>1. CASE file # "current"
  <2>1. End(p) /\ UNCHANGED <<file, db, clock, completed>>
    BY <1>1 DEF CommitCollection, env
  <2> QED BY <2>1, EndKeeps
<1>2. CASE file = "current"
  <2>1. proc[p].step = "commit" /\ syncLock = p /\ pathLock = p
    BY DEF CommitCollection, IInv, Held, Syncing, UsingFile
  <2>2. /\ db' = CommitRun(db, run, proc[p].coverage, proc[p].seen)
        /\ UNCHANGED <<file, clock, completed>>
    BY <1>2 DEF CommitCollection, env
  <2>3. PICK job \in Jobs : /\ job.step \notin Syncing \cup UsingFile
                            /\ proc' = [proc EXCEPT ![p] = job]
                            /\ syncLock' = Free(syncLock, p) /\ pathLock' = Free(pathLock, p)
    <3>1. CASE proc[p].cmd = "resolve"
      <4>1. Reading(proc[p]) \in Jobs /\ Reading(proc[p]).step = "look"
        BY IdleType DEF Reading, IInv, Jobs, Steps
      <4>2. /\ proc' = [proc EXCEPT ![p] = Reading(proc[p])]
            /\ syncLock' = Free(syncLock, p) /\ pathLock' = Free(pathLock, p)
        BY <1>2, <2>1, <3>1 DEF CommitCollection, IInv, Free
      <4> QED BY <4>1, <4>2 DEF Syncing, UsingFile
    <3>2. CASE proc[p].cmd # "resolve"
      BY <1>2, <3>2, IdleType DEF CommitCollection, End, Syncing, UsingFile
    <3> QED BY <3>1, <3>2
  <2>4. /\ run \in Runs /\ run.id <= completed /\ run.completed <= clock
        /\ run.started = proc[p].started
        /\ \A r \in db.runs : r.id < run.id /\ r.completed <= run.started
        /\ \A s \in DOMAIN proc[p].coverage : proc[p].coverage[s] \in Statuses
        /\ proc[p].coverage \in Coverages /\ proc[p].seen \in SUBSET Scopes
    BY <2>1 DEF IInv, Ahead, Syncing, Committing, Jobs
  <2> HIDE DEF run
  <2>5. db' \in Databases /\ db'.runs \subseteq db.runs \cup {run} /\ db'.active = run.id
    BY <2>2, <2>4, CommitKeeps DEF IInv
  <2>6. \A r \in db.runs \cup {run} : r.id \in Nat /\ r.completed \in Nat
    BY <2>4 DEF IInv, Databases, Runs
  <2>7. \A r \in db'.runs : r.id <= db'.active /\ r.completed <= clock /\ r.id <= completed
    BY <2>4, <2>5, <2>6 DEF IInv
  <2>8. \A r, s \in db'.runs : r.id < s.id => r.completed <= s.started
    <3> SUFFICES ASSUME NEW r \in db'.runs, NEW s \in db'.runs, r.id < s.id
                 PROVE  r.completed <= s.started
      OBVIOUS
    <3>1. CASE r = run
      BY <2>4, <2>5, <2>6, <3>1
    <3>2. CASE r \in db.runs /\ s = run
      BY <2>4, <3>2
    <3>3. CASE r \in db.runs /\ s \in db.runs
      BY <3>3 DEF IInv, CollectionsDoNotOverlap
    <3> QED BY <2>5, <3>1, <3>2, <3>3
  <2>9. \A q \in Procs : Ahead(proc'[q], db'.runs, clock, completed)
    <3> SUFFICES ASSUME NEW q \in Procs, q # p
                 PROVE  Ahead(proc[q], db'.runs, clock, completed)
      BY <2>3, Leave DEF IInv
    <3>1. proc[q].step \notin Syncing
      BY <2>1 DEF IInv, Held
    <3> QED BY <3>1 DEF Ahead, Syncing, Committing
  <2>10. \A q \in Procs : Held(q, proc'[q], syncLock', pathLock')
    <3> SUFFICES ASSUME NEW q \in Procs, q # p
                 PROVE  Held(q, proc[q], syncLock', pathLock')
      BY <2>3, Leave DEF IInv
    <3>1. (syncLock' = q <=> syncLock = q) /\ (pathLock' = q <=> pathLock = q)
      BY <2>3, Leave
    <3> QED BY <3>1 DEF IInv, Held
  <2>11. /\ proc' \in [Procs -> Jobs]
         /\ syncLock' \in Procs \cup {None} /\ pathLock' \in Procs \cup {None}
    BY <2>3, Leave
  <2>12. CollectionsDoNotOverlap'
    BY <2>7, <2>8 DEF CollectionsDoNotOverlap
  <2> QED BY <2>2, <2>5, <2>7, <2>9, <2>10, <2>11, <2>12 DEF IInv
<1> QED BY <1>1, <1>2

-----------------------------------------------------------------------------
(* Every step keeps the invariant *)

LEMMA EnvironmentKeeps ==
  ASSUME IInv, Tick \/ Damage \/ \E s \in Scopes : Change(s)
  PROVE  IInv'
<1>1. /\ UNCHANGED <<db, syncLock, pathLock, proc, completed>>
      /\ clock' \in Nat /\ clock <= clock' /\ file' \in Files
  BY DEF IInv, Tick, Damage, Change, Files
<1>2. CollectionsDoNotOverlap'
  BY <1>1 DEF IInv, CollectionsDoNotOverlap
<1>3. \A r \in db.runs : r.completed <= clock'
  BY <1>1 DEF IInv, Databases, Runs
<1>4. \A p \in Procs : Ahead(proc[p], db.runs, clock', completed)
  <2> SUFFICES ASSUME NEW p \in Procs PROVE Ahead(proc[p], db.runs, clock', completed)
    OBVIOUS
  <2>1. /\ Ahead(proc[p], db.runs, clock, completed) /\ clock \in Nat
        /\ proc[p].started \in Nat /\ proc[p].run.completed \in Nat
    BY DEF IInv, Jobs, Runs
  <2> QED BY <1>1, <2>1 DEF Ahead
<1> QED BY <1>1, <1>2, <1>3, <1>4 DEF IInv

LEMMA StepKeeps == ASSUME IInv, NEW p \in Procs, Step(p) PROVE IInv'
<1>1. CASE Return(p) \/ DropCollection(p)
  <2>1. End(p) /\ UNCHANGED <<file, db, clock, completed>>
    BY <1>1 DEF Return, DropCollection, env
  <2> QED BY <2>1, EndKeeps
<1> QED BY <1>1, LookKeeps, TakePathLockKeeps, ReadKeeps, JudgeKeeps, TakeSyncLockKeeps,
           EndCollectionKeeps, OpenKeeps, CommitCollectionKeeps DEF Step

LEMMA CommandKeeps ==
  ASSUME IInv, NEW p \in Procs,
         \/ \E group \in Groups, collection \in DOMAIN Collected : BeginSync(p, group, collection)
         \/ BeginRefs(p)
         \/ \E group \in Groups, kind \in Kinds, force \in BOOLEAN : BeginResolve(p, group, kind, force)
  PROVE  IInv'
<1>1. Groups \subseteq SUBSET Places /\ DOMAIN Collected = {"sg", "graph"}
  BY SnapshotAssumption DEF Collected
<1>2. CASE BeginRefs(p)
  <2>1. [Idle EXCEPT !.cmd = "refs"] \in Jobs
    BY IdleType DEF Jobs
  <2> QED BY <1>2, <2>1, BeginKeeps DEF BeginRefs
<1>3. ASSUME NEW group \in Groups, NEW collection \in DOMAIN Collected, BeginSync(p, group, collection)
      PROVE  IInv'
  <2>1. [Idle EXCEPT !.cmd = "sync", !.group = group, !.collection = collection] \in Jobs
    BY <1>1, IdleType DEF Jobs
  <2> QED BY <1>3, <2>1, BeginKeeps DEF BeginSync
<1>4. ASSUME NEW group \in Groups, NEW kind \in Kinds, NEW force \in BOOLEAN,
             BeginResolve(p, group, kind, force)
      PROVE  IInv'
  <2> DEFINE job == [Idle EXCEPT !.cmd = "resolve", !.group = group, !.kind = kind, !.second = force]
             first == IF force THEN "syncLock" ELSE "look"
  <2>1. job \in Jobs
    BY <1>1, IdleType DEF Jobs
  <2>2. first \in {"syncLock", "look"} /\ Begin(p, job, first)
    BY <1>4 DEF BeginResolve
  <2> HIDE DEF job, first
  <2> QED BY <2>1, <2>2, BeginKeeps
<1> QED BY <1>2, <1>3, <1>4

LEMMA NextIInv == IInv /\ [Next]_vars => IInv'
<1> SUFFICES ASSUME IInv, [Next]_vars PROVE IInv'
  OBVIOUS
<1>1. CASE UNCHANGED vars
  BY <1>1 DEF vars, IInv, CollectionsDoNotOverlap
<1>2. ASSUME NEW p \in Procs, Stop(p) PROVE IInv'
  <2>1. End(p) /\ UNCHANGED <<file, db, clock, completed>>
    BY <1>2 DEF Stop, env
  <2> QED BY <2>1, EndKeeps
<1> QED BY <1>1, <1>2, CommandKeeps, CancelKeeps, StepKeeps, StartScopeKeeps, EndScopeKeeps,
           EnvironmentKeeps DEF Next

(* The inductive invariant holds of every behaviour. *)
LEMMA Invariant == Spec => []IInv
BY InitIInv, NextIInv, PTL DEF Spec

LEMMA InvariantTypes == IInv => TypeOK
<1> SUFFICES ASSUME IInv PROVE TypeOK
  OBVIOUS
<1>1. /\ db.runs \subseteq Runs /\ db.active \in Nat
      /\ db.coverage \subseteq [run : Nat, scope : Scopes, status : Statuses]
      /\ db.observation \subseteq [run : Nat, resource : Scopes] /\ db.resource \subseteq Scopes
  BY DEF IInv, Databases
<1>2. \A p \in Procs : /\ proc[p].step \in Steps /\ proc[p].run \in Runs
                       /\ proc[p].step \in Syncing <=> syncLock = p
                       /\ proc[p].step \in UsingFile <=> pathLock = p
  BY DEF IInv, Jobs, Held
<1> QED BY <1>1, <1>2 DEF IInv, TypeOK, Syncing, UsingFile

(* The tables, the locks and the commands in flight keep their types, and a   *)
(* file lock is held by exactly the process that is between taking it and     *)
(* letting it go (withFileLockContext, Sync, Open).                           *)
THEOREM TypeCorrect == Spec => []TypeOK
  BY InvariantTypes, Invariant, PTL

(* The synchronisations of a database are serial, for any number of processes *)
(* that synchronise, resolve, fail, are cancelled or die: a kept run was      *)
(* complete before the next was started, and the active run is the newest     *)
(* (Sync, CommitRun, retainRuns).                                             *)
THEOREM SynchronisationsSerialised == Spec => []CollectionsDoNotOverlap
<1>1. IInv => CollectionsDoNotOverlap
  BY DEF IInv
<1> QED BY <1>1, Invariant, PTL

-----------------------------------------------------------------------------
(* What CommitRun and retainRuns do to the tables *)

(* A set of numbers has a least one. *)
LEMMA LeastNumber == ASSUME NEW S \in SUBSET Nat, S # {} PROVE \E x \in S : \A y \in S : x <= y
<1>1. PICK x \in S : \A y \in S : ~(<<y, x>> \in OpToRel(<, Nat))
  BY NatLessThanWellFounded, WFMin
<1>2. \A y \in S : ~(y < x)
  BY <1>1 DEF OpToRel
<1> QED BY <1>2

(* The runs of a database: no two have the same id, and there are never more *)
(* than Retention.                                                           *)
RunsKept(d) ==
  /\ IsFiniteSet(d.runs) /\ Cardinality(d.runs) <= Retention
  /\ \A r, s \in d.runs : r.id = s.id => r = s

(* The rows of a database belong to its runs. *)
RowsOwned(d) ==
  LET ids == {r.id : r \in d.runs} IN
  /\ IF d.active = 0 THEN ids = {} ELSE d.active \in {c.run : c \in d.coverage} \cap ids
  /\ {c.run : c \in d.coverage} \cup {o.run : o \in d.observation} \subseteq ids
  /\ d.resource = {o.resource : o \in d.observation}
  /\ \A o \in d.observation :
       [run |-> o.run, scope |-> o.resource, status |-> "succeeded"] \in d.coverage

(* DeleteRuns removes the runs with the ids, and every row of them. *)
LEMMA DeletedAre ==
  ASSUME NEW d \in Databases, NEW ids
  PROVE  /\ DeleteRuns(d, ids).runs = {r \in d.runs : r.id \notin ids}
         /\ DeleteRuns(d, ids).coverage = {c \in d.coverage : c.run \notin ids}
         /\ DeleteRuns(d, ids).observation = {o \in d.observation : o.run \notin ids}
         /\ DeleteRuns(d, ids).resource = d.resource
         /\ DeleteRuns(d, ids).active = d.active
<1> DEFINE R == {r \in d.runs : r.id \notin ids}
           C == {c \in d.coverage : c.run \notin ids}
           O == {o \in d.observation : o.run \notin ids}
<1>1. DeleteRuns(d, ids) = [d EXCEPT !.runs = R, !.coverage = C, !.observation = O]
  BY DEF DeleteRuns
<1> HIDE DEF R, C, O
<1>2. /\ DeleteRuns(d, ids).runs = R /\ DeleteRuns(d, ids).coverage = C
      /\ DeleteRuns(d, ids).observation = O
      /\ DeleteRuns(d, ids).resource = d.resource /\ DeleteRuns(d, ids).active = d.active
  BY <1>1 DEF Databases
<1> QED BY <1>2 DEF R, C, O

(* CommitRun, row by row: what is in the database after it was there before, *)
(* or is of the run committed, and is not of a run in excess.                *)
Inserted(d, run, c, seen) ==
  [runs        |-> d.runs \cup {run},
   active      |-> run.id,
   coverage    |-> d.coverage \cup {[run |-> run.id, scope |-> s, status |-> c[s]] : s \in DOMAIN c},
   observation |-> d.observation \cup {[run |-> run.id, resource |-> r] : r \in seen},
   resource    |-> d.resource \cup seen]

LEMMA InsertedType ==
  ASSUME NEW d \in Databases, NEW run \in Runs, NEW c \in Coverages, NEW seen \in SUBSET Scopes,
         \A s \in DOMAIN c : c[s] \in Statuses
  PROVE  Inserted(d, run, c, seen) \in Databases
<1>1. DOMAIN c \subseteq Scopes
  BY DEF Coverages
<1>2. {[run |-> run.id, scope |-> s, status |-> c[s]] : s \in DOMAIN c}
        \subseteq [run : Nat, scope : Scopes, status : Statuses]
  BY <1>1 DEF Runs
<1>3. {[run |-> run.id, resource |-> r] : r \in seen} \subseteq [run : Nat, resource : Scopes]
  BY DEF Runs
<1> QED BY <1>2, <1>3 DEF Inserted, Databases, Runs

Superseded(d) == {r.id : r \in Excess(d)}

LEMMA CommittedAre ==
  ASSUME NEW d \in Databases, NEW run \in Runs, NEW c \in Coverages, NEW seen \in SUBSET Scopes,
         \A s \in DOMAIN c : c[s] \in Statuses,
         NEW with, with = Inserted(d, run, c, seen),
         NEW left, left = CommitRun(d, run, c, seen)
  PROVE  /\ left.active = run.id
         /\ left.runs = {r \in with.runs : r.id \notin Superseded(with)}
         /\ left.coverage = {e \in with.coverage : e.run \notin Superseded(with)}
         /\ left.observation = {o \in with.observation : o.run \notin Superseded(with)}
         /\ left.resource = {r \in with.resource : \E o \in left.observation : o.resource = r}
<1> DEFINE kept == DeleteRuns(with, Superseded(with))
<1>1. with \in Databases /\ with.active = run.id
  BY InsertedType DEF Inserted
<1>2. left = DeleteUnusedResources(kept)
  BY DEF CommitRun, RetainRuns, Inserted, Superseded
<1>3. /\ kept.runs = {r \in with.runs : r.id \notin Superseded(with)}
      /\ kept.coverage = {e \in with.coverage : e.run \notin Superseded(with)}
      /\ kept.observation = {o \in with.observation : o.run \notin Superseded(with)}
      /\ kept.resource = with.resource /\ kept.active = with.active /\ kept \in Databases
  BY <1>1, DeletedAre, DeleteRunsType
<1> HIDE DEF kept
<1>4. /\ DeleteUnusedResources(kept).runs = kept.runs
      /\ DeleteUnusedResources(kept).active = kept.active
      /\ DeleteUnusedResources(kept).coverage = kept.coverage
      /\ DeleteUnusedResources(kept).observation = kept.observation
      /\ DeleteUnusedResources(kept).resource
           = {r \in kept.resource : \E o \in kept.observation : o.resource = r}
  BY <1>3 DEF DeleteUnusedResources, Databases
<1> QED BY <1>1, <1>2, <1>3, <1>4

(* What retainRuns deletes is among the runs that are not the active one; the *)
(* run that was active, the newest of them, is not, unless Retention is 1.    *)
LEMMA SupersededAreOthers ==
  ASSUME NEW d, NEW r \in d.runs, r.id = d.active PROVE r.id \notin Superseded(d)
BY DEF Superseded, Excess

LEMMA NewestOtherIsKept ==
  ASSUME NEW d, NEW r \in d.runs, r.id \in Nat, Retention > 1,
         \A s \in d.runs : s.id \in Nat /\ (s.id # d.active => s.id <= r.id)
  PROVE  r.id \notin Superseded(d)
<1> SUFFICES ASSUME NEW x \in Excess(d), x.id = r.id PROVE FALSE
  BY DEF Superseded
<1> DEFINE others == {s \in d.runs : s.id # d.active}
<1>1. x \in others /\ Cardinality({s \in others : Completed(s, x)}) >= Retention - 1
  BY DEF Excess
<1>2. {s \in others : Completed(s, x)} = {}
  BY DEF Completed
<1>3. Cardinality({s \in others : Completed(s, x)}) = 0
  BY <1>2, FS_EmptySet, Zenon
<1> HIDE DEF others
<1> QED BY <1>1, <1>3, RetentionAssumption

(* A run that is newer than every run of the database takes the place of the *)
(* oldest, when there are as many as are kept.                               *)
LEMMA AtMostRetention ==
  ASSUME NEW d \in Databases, RunsKept(d), NEW run \in Runs, \A r \in d.runs : r.id < run.id,
         NEW with \in Databases, with.runs = d.runs \cup {run}, with.active = run.id,
         NEW left, left = {r \in with.runs : r.id \notin Superseded(with)}
  PROVE  IsFiniteSet(left) /\ Cardinality(left) <= Retention
<1>1. /\ IsFiniteSet(d.runs) /\ Cardinality(d.runs) \in Nat /\ Cardinality(d.runs) <= Retention
      /\ \A r \in d.runs : r.id \in Nat
  BY FS_CardinalityType DEF RunsKept, Databases, Runs
<1>2. {r \in with.runs : r.id # with.active} = d.runs /\ run \notin d.runs
  BY <1>1 DEF Runs
<1>3. IsFiniteSet(with.runs) /\ Cardinality(with.runs) = Cardinality(d.runs) + 1
  BY <1>1, <1>2, FS_AddElement
<1>4. CASE Cardinality(d.runs) < Retention
  <2>1. left \in SUBSET with.runs
    OBVIOUS
  <2>2. IsFiniteSet(left) /\ Cardinality(left) <= Cardinality(with.runs) /\ Cardinality(left) \in Nat
    BY <1>3, <2>1, FS_Subset, FS_CardinalityType
  <2> QED BY <1>1, <1>3, <1>4, <2>2, RetentionAssumption
<1>5. CASE Cardinality(d.runs) = Retention
  <2>1. d.runs # {}
    BY <1>1, <1>5, FS_EmptySet, RetentionAssumption
  <2> DEFINE ids == {r.id : r \in d.runs}
  <2>2. ids \in SUBSET Nat /\ ids # {}
    BY <1>1, <2>1
  <2>3. PICK oldest \in d.runs : \A r \in d.runs : oldest.id <= r.id
    <3> HIDE DEF ids
    <3>1. PICK least \in ids : \A y \in ids : least <= y
      BY <2>2, LeastNumber
    <3> QED BY <3>1 DEF ids
  <2>4. {s \in d.runs : Completed(s, oldest)} = d.runs \ {oldest}
    BY <1>1, <2>3 DEF Completed, RunsKept
  <2>5. Cardinality(d.runs \ {oldest}) = Retention - 1
    BY <1>1, <1>5, <2>3, FS_RemoveElement
  <2>6. oldest \in Excess(with)
    <3>1. Excess(with) = {r \in d.runs : Cardinality({s \in d.runs : Completed(s, r)}) >= Retention - 1}
      BY <1>2 DEF Excess
    <3>2. Cardinality({s \in d.runs : Completed(s, oldest)}) = Retention - 1
      BY <2>4, <2>5, Zenon
    <3> QED BY <2>3, <3>1, <3>2, RetentionAssumption
  <2>7. left \in SUBSET (with.runs \ {oldest})
    BY <2>6 DEF Superseded
  <2>8. /\ IsFiniteSet(with.runs \ {oldest})
        /\ Cardinality(with.runs \ {oldest}) = Retention
    <3>1. oldest \in with.runs
      BY <2>3
    <3>2. Cardinality(with.runs \ {oldest}) = Cardinality(with.runs) - 1
      BY <1>3, <3>1, FS_RemoveElement
    <3>3. IsFiniteSet(with.runs \ {oldest})
      BY <1>3, FS_RemoveElement
    <3> QED BY <1>1, <1>3, <1>5, <3>2, <3>3, RetentionAssumption
  <2> QED BY <2>7, <2>8, FS_Subset
<1> QED BY <1>1, <1>4, <1>5, RetentionAssumption

(* CommitRun keeps the tables in order when the run is newer than all others. *)
LEMMA CommitKeepsRuns ==
  ASSUME NEW d \in Databases, RunsKept(d), NEW run \in Runs, \A r \in d.runs : r.id < run.id,
         NEW c \in Coverages, NEW seen \in SUBSET Scopes,
         \A s \in DOMAIN c : c[s] \in Statuses
  PROVE  RunsKept(CommitRun(d, run, c, seen))
<1> DEFINE with == Inserted(d, run, c, seen)
           left == CommitRun(d, run, c, seen)
<1>1. with \in Databases /\ with.runs = d.runs \cup {run} /\ with.active = run.id
  BY InsertedType DEF Inserted
<1>2. left.runs = {r \in with.runs : r.id \notin Superseded(with)}
  BY CommittedAre
<1> HIDE DEF with, left
<1>3. IsFiniteSet(left.runs) /\ Cardinality(left.runs) <= Retention
  BY <1>1, <1>2, AtMostRetention
<1>4. left.runs \subseteq d.runs \cup {run}
  BY <1>1, <1>2
<1>5. \A r \in d.runs \cup {run} : r.id \in Nat
  BY DEF Databases, Runs
<1>6. \A r, s \in left.runs : r.id = s.id => r = s
  BY <1>4, <1>5 DEF RunsKept
<1>7. RunsKept(left)
  BY <1>3, <1>6 DEF RunsKept
<1> QED BY <1>7 DEF left

LEMMA CommitKeepsRows ==
  ASSUME NEW d \in Databases, RunsKept(d), RowsOwned(d),
         NEW run \in Runs, \A r \in d.runs : r.id < run.id, run.id # 0,
         NEW c \in Coverages, NEW seen \in SUBSET Scopes, DOMAIN c # {},
         \A s \in DOMAIN c : c[s] \in Statuses,
         \A s \in seen : s \in DOMAIN c /\ c[s] = "succeeded"
  PROVE  RowsOwned(CommitRun(d, run, c, seen))
<1> DEFINE with == Inserted(d, run, c, seen)
           left == CommitRun(d, run, c, seen)
           rows == {[run |-> run.id, scope |-> s, status |-> c[s]] : s \in DOMAIN c}
           obs  == {[run |-> run.id, resource |-> r] : r \in seen}
           gone == Superseded(with)
<1>1. /\ with.runs = d.runs \cup {run} /\ with.active = run.id
      /\ with.coverage = d.coverage \cup rows /\ with.observation = d.observation \cup obs
      /\ with.resource = d.resource \cup seen
  BY DEF Inserted
<1>2. /\ left.active = run.id
      /\ left.runs = {r \in with.runs : r.id \notin gone}
      /\ left.coverage = {e \in with.coverage : e.run \notin gone}
      /\ left.observation = {o \in with.observation : o.run \notin gone}
      /\ left.resource = {r \in with.resource : \E o \in left.observation : o.resource = r}
  BY CommittedAre
<1>3. run.id \notin gone
  BY <1>1, SupersededAreOthers
<1> HIDE DEF with, left, gone
<1>4. left.active \in {r.id : r \in left.runs} /\ left.active \in {e.run : e \in left.coverage}
  <2>1. run \in left.runs
    BY <1>1, <1>2, <1>3
  <2>2. PICK s \in DOMAIN c : TRUE
    OBVIOUS
  <2>3. [run |-> run.id, scope |-> s, status |-> c[s]] \in left.coverage
    BY <1>1, <1>2, <1>3
  <2> QED BY <1>2, <2>1, <2>3
<1>5. \A x : x \in {r.id : r \in with.runs} /\ x \notin gone => x \in {r.id : r \in left.runs}
  BY <1>2
<1>6. /\ \A e \in with.coverage : e.run \in {r.id : r \in with.runs}
      /\ \A o \in with.observation : o.run \in {r.id : r \in with.runs}
  <2>1. /\ \A e \in d.coverage : e.run \in {r.id : r \in d.runs}
        /\ \A o \in d.observation : o.run \in {r.id : r \in d.runs}
    BY DEF RowsOwned
  <2>2. {r.id : r \in with.runs} = {r.id : r \in d.runs} \cup {run.id}
    BY <1>1
  <2>3. (\A e \in rows : e.run = run.id) /\ (\A o \in obs : o.run = run.id)
    OBVIOUS
  <2> HIDE DEF rows, obs
  <2> QED BY <1>1, <2>1, <2>2, <2>3
<1>7. {e.run : e \in left.coverage} \cup {o.run : o \in left.observation} \subseteq {r.id : r \in left.runs}
  BY <1>2, <1>5, <1>6
<1>8. \A o \in with.observation : o.resource \in with.resource
  BY <1>1 DEF RowsOwned
<1>9. left.resource = {o.resource : o \in left.observation}
  BY <1>2, <1>8
<1>10. \A o \in with.observation :
         [run |-> o.run, scope |-> o.resource, status |-> "succeeded"] \in with.coverage
  <2>1. \A o \in obs : [run |-> o.run, scope |-> o.resource, status |-> "succeeded"] \in rows
    OBVIOUS
  <2> QED BY <1>1, <2>1 DEF RowsOwned
<1>11. \A o \in left.observation :
         [run |-> o.run, scope |-> o.resource, status |-> "succeeded"] \in left.coverage
  BY <1>2, <1>10
<1>12. RowsOwned(left)
  BY <1>2, <1>4, <1>7, <1>9, <1>11 DEF RowsOwned
<1> QED BY <1>12 DEF left

-----------------------------------------------------------------------------
(* The invariant *)

Worlds == [Scopes -> [there : BOOLEAN, since : Nat]]

(* What is reported of the scopes that were read is what AWS held when the *)
(* collection was started, unless that has changed since.                  *)
Agrees(w, observed, succeeded, started) ==
  \A s \in succeeded : w[s].since < started => (s \in observed <=> w[s].there)

ReportOf(d, id) == {c.scope : c \in {e \in d.coverage : e.run = id /\ e.status = "succeeded"}}
SeenBy(d, id)   == {o.resource : o \in {e \in d.observation : e.run = id}}
ReadBy(job)     == {s \in DOMAIN job.coverage : job.coverage[s] = "succeeded"}

(* Every run of the database tells the truth about the scopes it has read. *)
RunsTrue(d, w, now) ==
  \A r \in d.runs : r.started <= now /\ Agrees(w, SeenBy(d, r.id), ReportOf(d, r.id), r.started)

(* A command that collects asks about places; a collection tells the truth    *)
(* about the scopes it has read, and shows nothing of the others; a run that  *)
(* is to be committed is one of a command that was not cancelled; and so does *)
(* the view a command has read, which is reused only when it has all that the *)
(* command asks about.                                                        *)
Sound(job, w, now) ==
  /\ job.cmd = "resolve" \/ job.step \in {"judge", "syncLock"} => job.group # {}
  /\ job.step \in Syncing => /\ DOMAIN job.coverage # {} /\ job.seen \subseteq ReadBy(job)
                             /\ Agrees(w, job.seen, ReadBy(job), job.started)
  /\ job.step \in Committing => ~job.cancelled /\ job.run.id # 0
  /\ job.view.started <= now /\ Agrees(w, job.view.observed, job.view.succeeded, job.view.started)
  /\ job.reused => job.step = "answered" /\ Covered(job.view, job.group, job.kind)

TInv ==
  /\ world \in Worlds
  /\ RunsKept(db) /\ RowsOwned(db) /\ RunsTrue(db, world, clock)
  /\ \A p \in Procs : Sound(proc[p], world, clock)

LEMMA CommitKeepsTruth ==
  ASSUME NEW d \in Databases, RunsKept(d), RowsOwned(d), NEW w, NEW now \in Nat, RunsTrue(d, w, now),
         NEW run \in Runs, \A r \in d.runs : r.id < run.id,
         NEW c \in Coverages, NEW seen \in SUBSET Scopes, \A s \in DOMAIN c : c[s] \in Statuses,
         run.started <= now, Agrees(w, seen, {s \in DOMAIN c : c[s] = "succeeded"}, run.started)
  PROVE  RunsTrue(CommitRun(d, run, c, seen), w, now)
<1> DEFINE with == Inserted(d, run, c, seen)
           left == CommitRun(d, run, c, seen)
           rows == {[run |-> run.id, scope |-> s, status |-> c[s]] : s \in DOMAIN c}
           obs  == {[run |-> run.id, resource |-> r] : r \in seen}
           gone == Superseded(with)
<1>1. /\ with.runs = d.runs \cup {run} /\ with.active = run.id
      /\ with.coverage = d.coverage \cup rows /\ with.observation = d.observation \cup obs
  BY DEF Inserted
<1>2. /\ left.runs = {r \in with.runs : r.id \notin gone}
      /\ left.coverage = {e \in with.coverage : e.run \notin gone}
      /\ left.observation = {o \in with.observation : o.run \notin gone}
  BY CommittedAre
<1>3. run.id \notin gone
  BY <1>1, SupersededAreOthers
<1>4. \A e \in rows : e.run = run.id /\ e.scope \in DOMAIN c /\ e.status = c[e.scope]
  OBVIOUS
<1>5. (\A o \in obs : o.run = run.id /\ o.resource \in seen) /\ \A s \in seen : \E o \in obs : o.resource = s
  <2>1. \A o \in obs : o.run = run.id /\ o.resource \in seen
    OBVIOUS
  <2>2. ASSUME NEW s \in seen PROVE \E o \in obs : o.resource = s
    <3>1. [run |-> run.id, resource |-> s] \in obs
      OBVIOUS
    <3>2. [run |-> run.id, resource |-> s].resource = s
      OBVIOUS
    <3> QED BY <3>1, <3>2, Zenon
  <2> QED BY <2>1, <2>2
<1>6. /\ \A e \in d.coverage : \E r \in d.runs : r.id = e.run
      /\ \A o \in d.observation : \E r \in d.runs : r.id = o.run
  BY DEF RowsOwned
<1>7. \A r \in d.runs : r.id # run.id
  BY DEF Databases, Runs
<1> HIDE DEF with, left, gone, rows, obs
<1>8. ASSUME NEW r \in left.runs
      PROVE  r.started <= now /\ Agrees(w, SeenBy(left, r.id), ReportOf(left, r.id), r.started)
  <2>1. CASE r = run
    <3>1. ReportOf(left, run.id) \subseteq {s \in DOMAIN c : c[s] = "succeeded"}
      BY <1>1, <1>2, <1>4, <1>6, <1>7 DEF ReportOf
    <3>2. \A o \in left.observation : o.run = run.id => o \in obs
      BY <1>1, <1>2, <1>6, <1>7
    <3>3. \A o \in obs : o \in left.observation /\ o.run = run.id
      BY <1>1, <1>2, <1>3, <1>5
    <3>4. SeenBy(left, run.id) = {o.resource : o \in obs}
      BY <3>2, <3>3 DEF SeenBy
    <3>5. SeenBy(left, run.id) = seen
      BY <1>5, <3>4
    <3> QED BY <2>1, <3>1, <3>5 DEF Agrees
  <2>2. CASE r \in d.runs
    <3>1. r.id # run.id /\ r.id \notin gone
      BY <1>2, <1>7, <2>2
    <3>2. \A e \in left.coverage : e.run = r.id => e \in d.coverage
      BY <1>1, <1>2, <1>4, <3>1
    <3>3. ReportOf(left, r.id) \subseteq ReportOf(d, r.id)
      BY <3>2 DEF ReportOf
    <3>4. \A o : o \in left.observation /\ o.run = r.id <=> o \in d.observation /\ o.run = r.id
      BY <1>1, <1>2, <1>5, <3>1
    <3>5. SeenBy(left, r.id) = SeenBy(d, r.id)
      BY <3>4 DEF SeenBy
    <3> QED BY <2>2, <3>3, <3>5 DEF Agrees, RunsTrue
  <2> QED BY <1>1, <1>2, <2>1, <2>2
<1>9. RunsTrue(left, w, now)
  BY <1>8 DEF RunsTrue
<1> QED BY <1>9 DEF left

(* What refs and resolve read of a database in order is true of its run. *)
LEMMA ViewTells ==
  ASSUME NEW d \in Databases, RowsOwned(d), NEW w, NEW now, RunsTrue(d, w, now), ActiveRun(d) # {}
  PROVE  LET view == ActiveView(d)
         IN  view.started <= now /\ Agrees(w, view.observed, view.succeeded, view.started)
<1> DEFINE run == CHOOSE r \in ActiveRun(d) : TRUE
           view == ActiveView(d)
<1>1. run \in d.runs
  BY DEF ActiveRun
<1> HIDE DEF run
<1>2. /\ view.started = run.started /\ view.succeeded = ReportOf(d, run.id)
      /\ view.observed = {o.resource : o \in {e \in d.observation : e.run = run.id /\ e.resource \in d.resource}}
  BY DEF ActiveView, ReportOf, run
<1>3. \A o \in d.observation : o.resource \in d.resource
  BY DEF RowsOwned
<1>4. view.observed = SeenBy(d, run.id)
  BY <1>2, <1>3 DEF SeenBy
<1> HIDE DEF view
<1>5. view.started <= now /\ Agrees(w, view.observed, view.succeeded, view.started)
  BY <1>1, <1>2, <1>4 DEF RunsTrue
<1> QED BY <1>5 DEF view

-----------------------------------------------------------------------------
(* One lemma for each action *)

(* The command goes on; the tables, AWS and the time are as they were. *)
LEMMA SoundMove ==
  ASSUME IInv, TInv, NEW p \in Procs, NEW job, proc' = [proc EXCEPT ![p] = job],
         UNCHANGED <<db, world, clock>>, Sound(job, world, clock)
  PROVE  TInv'
<1>1. \A q \in Procs : Sound(proc'[q], world, clock)
  BY DEF IInv, TInv
<1> QED BY <1>1 DEF TInv

LEMMA SoundIdle == ASSUME NEW w, NEW now \in Nat PROVE Sound(Idle, w, now)
BY DEF Sound, Idle, NoView, Syncing, Committing, Agrees

LEMMA EndTrue == ASSUME IInv, TInv, NEW p \in Procs, End(p), UNCHANGED <<db, world, clock>> PROVE TInv'
<1>1. Sound(Idle, world, clock)
  BY SoundIdle DEF IInv
<1> QED BY <1>1, SoundMove DEF End

LEMMA BeginTrue ==
  ASSUME IInv, TInv, NEW p \in Procs,
         \/ \E group \in Groups, collection \in DOMAIN Collected : BeginSync(p, group, collection)
         \/ BeginRefs(p)
         \/ \E group \in Groups, kind \in Kinds, force \in BOOLEAN : BeginResolve(p, group, kind, force)
  PROVE  TInv'
<1>1. \A g \in Groups : g # {}
  BY SnapshotAssumption
<1>2. ASSUME NEW job \in Jobs, NEW first \in {"look", "syncLock"}, Begin(p, job, first),
             job.view = NoView, ~job.reused,
             job.cmd = "resolve" \/ first = "syncLock" => job.group # {}
      PROVE  TInv'
  <2> DEFINE next == [job EXCEPT !.step = first]
  <2>1. /\ next.cmd = job.cmd /\ next.group = job.group /\ next.step = first
        /\ next.reused = job.reused /\ next.view = NoView
    BY <1>2 DEF Jobs
  <2>2. proc' = [proc EXCEPT ![p] = next] /\ UNCHANGED <<db, world, clock>>
    BY <1>2 DEF Begin, env
  <2> HIDE DEF next
  <2>3. Sound(next, world, clock)
    BY <1>2, <2>1 DEF Sound, NoView, Syncing, Committing, Agrees, IInv
  <2> QED BY <2>2, <2>3, SoundMove
<1>3. /\ Idle \in Jobs /\ Idle.view = NoView /\ ~Idle.reused /\ Groups \subseteq SUBSET Places
      /\ DOMAIN Collected = {"sg", "graph"}
  BY IdleType, SnapshotAssumption DEF Idle, Collected
<1>4. CASE BeginRefs(p)
  <2> DEFINE job == [Idle EXCEPT !.cmd = "refs"]
  <2>1. job \in Jobs /\ job.view = NoView /\ ~job.reused /\ job.cmd = "refs"
    BY <1>3 DEF Jobs
  <2>2. Begin(p, job, "look")
    BY <1>4 DEF BeginRefs
  <2> HIDE DEF job
  <2> QED BY <1>2, <2>1, <2>2
<1>5. ASSUME NEW group \in Groups, NEW collection \in DOMAIN Collected, BeginSync(p, group, collection)
      PROVE  TInv'
  <2> DEFINE job == [Idle EXCEPT !.cmd = "sync", !.group = group, !.collection = collection]
  <2>1. job \in Jobs /\ job.view = NoView /\ ~job.reused /\ job.group = group
    BY <1>3 DEF Jobs
  <2>2. Begin(p, job, "syncLock")
    BY <1>5 DEF BeginSync
  <2> HIDE DEF job
  <2> QED BY <1>1, <1>2, <2>1, <2>2
<1>6. ASSUME NEW group \in Groups, NEW kind \in Kinds, NEW force \in BOOLEAN,
             BeginResolve(p, group, kind, force)
      PROVE  TInv'
  <2> DEFINE job == [Idle EXCEPT !.cmd = "resolve", !.group = group, !.kind = kind, !.second = force]
             first == IF force THEN "syncLock" ELSE "look"
  <2>1. job \in Jobs /\ job.view = NoView /\ ~job.reused /\ job.group = group
    BY <1>3 DEF Jobs
  <2>2. Begin(p, job, first) /\ first \in {"look", "syncLock"}
    BY <1>6 DEF BeginResolve
  <2> HIDE DEF job, first
  <2> QED BY <1>1, <1>2, <2>1, <2>2
<1> QED BY <1>4, <1>5, <1>6

LEMMA CollectingSound ==
  ASSUME NEW job \in Jobs, NEW w, NEW now \in Nat, Sound(job, w, now), ~job.reused, job.group # {}
  PROVE  Sound(Collecting(job), w, now)
<1>1. /\ Collecting(job).step = "syncLock" /\ Collecting(job).view = NoView
      /\ Collecting(job).group = job.group /\ Collecting(job).reused = job.reused
  BY DEF Collecting, Jobs
<1> QED BY <1>1 DEF Sound, NoView, Syncing, Committing, Agrees

LEMMA ReadFailsTrue ==
  ASSUME IInv, TInv, NEW p \in Procs, ReadFails(p), proc[p].step \in {"look", "read"},
         UNCHANGED <<db, world, clock>>
  PROVE  TInv'
<1>1. proc[p] \in Jobs /\ Sound(proc[p], world, clock) /\ clock \in Nat
  BY DEF IInv, TInv
<1>2. CASE proc[p].cmd = "resolve" /\ ~proc[p].second
  <2>1. ~proc[p].reused /\ proc[p].group # {}
    BY <1>1, <1>2 DEF Sound
  <2>2. Sound(Collecting(proc[p]), world, clock)
    BY <1>1, <2>1, CollectingSound
  <2>3. proc' = [proc EXCEPT ![p] = Collecting(proc[p])]
    BY <1>2 DEF ReadFails, IInv
  <2> QED BY <2>2, <2>3, SoundMove
<1>3. CASE ~(proc[p].cmd = "resolve" /\ ~proc[p].second)
  BY <1>3, EndTrue DEF ReadFails
<1> QED BY <1>2, <1>3

(* A step that only changes where the command is. *)
LEMMA StepSound ==
  ASSUME NEW job \in Jobs, NEW w, NEW now, Sound(job, w, now), NEW next, next = [job EXCEPT !.step = next.step],
         ~job.reused, next.step \in {"readLock", "read", "open", "commit"},
         next.step \in Committing => job.step \in Committing
  PROVE  Sound(next, w, now)
<1>1. /\ next.cmd = job.cmd /\ next.group = job.group /\ next.coverage = job.coverage
      /\ next.seen = job.seen /\ next.started = job.started /\ next.cancelled = job.cancelled
      /\ next.run = job.run /\ next.view = job.view /\ next.reused = job.reused
  BY DEF Jobs
<1>2. ReadBy(next) = ReadBy(job)
  BY <1>1 DEF ReadBy
<1> QED BY <1>1, <1>2 DEF Sound, Syncing, Committing

LEMMA LookTrue == ASSUME IInv, TInv, NEW p \in Procs, Look(p) PROVE TInv'
<1>1. CASE file = "absent"
  BY <1>1, ReadFailsTrue DEF Look, env
<1>2. CASE file # "absent"
  <2> DEFINE job == [proc[p] EXCEPT !.step = "readLock"]
  <2>1. proc' = [proc EXCEPT ![p] = job] /\ UNCHANGED <<db, world, clock>> /\ proc[p].step = "look"
    BY <1>2 DEF Look, Go, env, IInv
  <2>2. proc[p] \in Jobs /\ Sound(proc[p], world, clock)
    BY DEF IInv, TInv
  <2>3. job.step = "readLock"
    BY <2>2 DEF Jobs
  <2>4. Sound(job, world, clock)
    BY <2>1, <2>2, <2>3, StepSound DEF Sound, Committing
  <2> QED BY <2>1, <2>4, SoundMove
<1> QED BY <1>1, <1>2

LEMMA TakePathLockTrue == ASSUME IInv, TInv, NEW p \in Procs, TakePathLock(p) PROVE TInv'
<1> DEFINE next == IF proc[p].step = "readLock" THEN "read" ELSE "open"
           job == [proc[p] EXCEPT !.step = next]
<1>1. /\ proc' = [proc EXCEPT ![p] = job] /\ UNCHANGED <<db, world, clock>>
      /\ proc[p].step \in {"readLock", "pathLock"}
  BY DEF TakePathLock, Go, env, IInv
<1>2. proc[p] \in Jobs /\ Sound(proc[p], world, clock)
  BY DEF IInv, TInv
<1>3. next \in {"read", "open"} /\ (next = "open" => proc[p].step = "pathLock")
  BY <1>1
<1> HIDE DEF next
<1>4. job.step = next
  BY <1>2 DEF Jobs
<1>5. ~proc[p].reused
  BY <1>1, <1>2 DEF Sound
<1>6. next \in Committing => proc[p].step \in Committing
  BY <1>3 DEF Committing
<1>7. Sound(job, world, clock)
  BY <1>2, <1>3, <1>4, <1>5, <1>6, StepSound
<1> QED BY <1>1, <1>7, SoundMove

LEMMA ReadTrue == ASSUME IInv, TInv, NEW p \in Procs, Read(p) PROVE TInv'
<1>1. CASE ~(file = "current" /\ ActiveRun(db) # {})
  BY <1>1, ReadFailsTrue DEF Read, env
<1>2. CASE file = "current" /\ ActiveRun(db) # {}
  <2> DEFINE view == ActiveView(db)
             next == IF proc[p].cmd = "resolve" /\ ~proc[p].second THEN "judge" ELSE "answered"
             job == [proc[p] EXCEPT !.view = view, !.step = next]
  <2>1. proc' = [proc EXCEPT ![p] = job] /\ UNCHANGED <<db, world, clock>> /\ proc[p].step = "read"
    BY <1>2 DEF Read, IInv, env
  <2>2. proc[p] \in Jobs /\ Sound(proc[p], world, clock)
    BY DEF IInv, TInv
  <2>3. view.started <= clock /\ Agrees(world, view.observed, view.succeeded, view.started)
    BY <1>2, ViewTells DEF IInv, TInv
  <2>4. next \in {"judge", "answered"} /\ (next = "judge" => proc[p].cmd = "resolve")
    OBVIOUS
  <2> HIDE DEF view, next
  <2>5. /\ job.step = next /\ job.view = view /\ job.cmd = proc[p].cmd /\ job.group = proc[p].group
        /\ job.reused = proc[p].reused
    BY <2>2 DEF Jobs
  <2> HIDE DEF job
  <2>6. ~proc[p].reused
    BY <2>1, <2>2 DEF Sound
  <2>7. Sound(job, world, clock)
    BY <2>2, <2>3, <2>4, <2>5, <2>6 DEF Sound, Syncing, Committing
  <2> QED BY <2>1, <2>7, SoundMove
<1> QED BY <1>1, <1>2

(* A run is reused only when it covers what the command asks about. *)
LEMMA JudgeTrue == ASSUME IInv, TInv, NEW p \in Procs, Judge(p) PROVE TInv'
<1>1. proc[p] \in Jobs /\ Sound(proc[p], world, clock) /\ clock \in Nat /\ proc[p].step = "judge"
  BY DEF Judge, IInv, TInv
<1>2. ~proc[p].reused /\ proc[p].group # {}
  BY <1>1 DEF Sound
<1>3. UNCHANGED <<db, world, clock>>
  BY DEF Judge, env
<1>4. CASE Reusable(proc[p].view, proc[p].group, proc[p].kind)
  <2> DEFINE job == [proc[p] EXCEPT !.reused = TRUE, !.step = "answered"]
  <2>1. proc' = [proc EXCEPT ![p] = job]
    BY <1>4 DEF Judge, IInv
  <2>2. /\ job.step = "answered" /\ job.view = proc[p].view /\ job.cmd = proc[p].cmd
        /\ job.group = proc[p].group /\ job.kind = proc[p].kind
    BY <1>1 DEF Jobs
  <2> HIDE DEF job
  <2>3. Sound(job, world, clock)
    BY <1>1, <1>2, <1>4, <2>2 DEF Sound, Syncing, Committing, Reusable
  <2> QED BY <1>3, <2>1, <2>3, SoundMove
<1>5. CASE ~Reusable(proc[p].view, proc[p].group, proc[p].kind)
  <2>1. proc' = [proc EXCEPT ![p] = Collecting(proc[p])]
    BY <1>5 DEF Judge, IInv
  <2>2. Sound(Collecting(proc[p]), world, clock)
    BY <1>1, <1>2, CollectingSound
  <2> QED BY <1>3, <2>1, <2>2, SoundMove
<1> QED BY <1>4, <1>5

LEMMA ScopesFresh ==
  ASSUME NEW g, g # {}, NEW c \in {"sg", "graph"}
  PROVE  /\ DOMAIN ScopesOf(g, c) # {}
         /\ \A s \in DOMAIN ScopesOf(g, c) : ScopesOf(g, c)[s] # "succeeded"
<1> DEFINE kinds == Collected[c] \cup (IF c = "graph" THEN {"other"} ELSE {})
<1>1. "sg" \in kinds
  BY DEF Collected
<1>2. ScopesOf(g, c) = [s \in g \X kinds |-> IF s[2] = "other" THEN "not-observed" ELSE "waiting"]
  BY DEF ScopesOf
<1> HIDE DEF kinds
<1>3. PICK x \in g : TRUE
  OBVIOUS
<1>4. <<x, "sg">> \in g \X kinds
  BY <1>1
<1>5. DOMAIN ScopesOf(g, c) = g \X kinds
  BY <1>2
<1>6. \A s \in g \X kinds : ScopesOf(g, c)[s] \in {"not-observed", "waiting"}
  BY <1>2
<1> QED BY <1>4, <1>5, <1>6

LEMMA TakeSyncLockTrue == ASSUME IInv, TInv, NEW p \in Procs, TakeSyncLock(p) PROVE TInv'
<1> DEFINE scopes == ScopesOf(proc[p].group, proc[p].collection)
           job == [proc[p] EXCEPT !.step = "collect", !.started = clock, !.seen = {},
                                  !.coverage = scopes]
<1>1. proc[p] \in Jobs /\ Sound(proc[p], world, clock) /\ proc[p].step = "syncLock"
  BY DEF TakeSyncLock, IInv, TInv
<1>2. proc[p].group # {} /\ ~proc[p].reused
  BY <1>1 DEF Sound
<1>3. DOMAIN scopes # {} /\ \A s \in DOMAIN scopes : scopes[s] # "succeeded"
  BY <1>1, <1>2, ScopesFresh DEF Jobs
<1>4. proc' = [proc EXCEPT ![p] = job] /\ UNCHANGED <<db, world, clock>>
  BY DEF TakeSyncLock, IInv, env
<1> HIDE DEF scopes
<1>5. /\ job.step = "collect" /\ job.coverage = scopes /\ job.seen = {} /\ job.cmd = proc[p].cmd
      /\ job.group = proc[p].group /\ job.view = proc[p].view /\ job.reused = proc[p].reused
  BY <1>1 DEF Jobs
<1> HIDE DEF job
<1>6. ReadBy(job) = {}
  BY <1>3, <1>5 DEF ReadBy
<1>7. Sound(job, world, clock)
  BY <1>1, <1>2, <1>3, <1>5, <1>6 DEF Sound, Syncing, Committing, Agrees
<1> QED BY <1>4, <1>7, SoundMove

LEMMA StartScopeTrue == ASSUME IInv, TInv, NEW p \in Procs, NEW s \in Scopes, StartScope(p, s) PROVE TInv'
<1> DEFINE c == [proc[p].coverage EXCEPT ![s] = "running"]
           job == [proc[p] EXCEPT !.coverage = c]
<1>1. /\ proc[p] \in Jobs /\ Sound(proc[p], world, clock) /\ proc[p].step = "collect"
      /\ s \in DOMAIN proc[p].coverage /\ proc[p].coverage[s] = "waiting"
  BY DEF StartScope, IInv, TInv
<1>2. proc' = [proc EXCEPT ![p] = job] /\ UNCHANGED <<db, world, clock>>
  BY DEF StartScope, IInv, Jobs, env
<1>3. proc[p].coverage \in Coverages
  BY <1>1 DEF Jobs
<1>4. DOMAIN c = DOMAIN proc[p].coverage
  OBVIOUS
<1>5. {x \in DOMAIN c : c[x] = "succeeded"} = ReadBy(proc[p])
  BY <1>1 DEF ReadBy
<1> HIDE DEF c
<1>6. /\ job.coverage = c /\ job.step = proc[p].step /\ job.seen = proc[p].seen
      /\ job.started = proc[p].started /\ job.cmd = proc[p].cmd /\ job.group = proc[p].group
      /\ job.view = proc[p].view /\ job.reused = proc[p].reused
  BY <1>1 DEF Jobs
<1> HIDE DEF job
<1>7. ReadBy(job) = ReadBy(proc[p])
  BY <1>5, <1>6 DEF ReadBy
<1>8. Sound(job, world, clock)
  BY <1>1, <1>4, <1>6, <1>7 DEF Sound, Syncing, Committing
<1> QED BY <1>2, <1>8, SoundMove

(* A collector reads a scope as it is now. *)
LEMMA EndScopeTrue ==
  ASSUME IInv, TInv, NEW p \in Procs, NEW s \in Scopes, NEW status \in {"succeeded", "failed"},
         EndScope(p, s, status)
  PROVE  TInv'
<1> DEFINE c == [proc[p].coverage EXCEPT ![s] = status]
           seen == proc[p].seen \cup Gained(s, status)
           job == [proc[p] EXCEPT !.coverage = c, !.seen = seen]
<1>1. /\ proc[p] \in Jobs /\ Sound(proc[p], world, clock) /\ proc[p].step = "collect"
      /\ s \in DOMAIN proc[p].coverage /\ proc[p].coverage[s] = "running"
  BY DEF EndScope, Running, IInv, TInv
<1>2. proc' = [proc EXCEPT ![p] = job] /\ UNCHANGED <<db, world, clock>>
  BY DEF EndScope, IInv, Jobs, env
<1>3. DOMAIN c = DOMAIN proc[p].coverage
  OBVIOUS
<1>4. {x \in DOMAIN c : c[x] = "succeeded"} = ReadBy(proc[p]) \cup (IF status = "succeeded" THEN {s} ELSE {})
  BY <1>1 DEF ReadBy
<1>5. s \notin ReadBy(proc[p]) /\ proc[p].seen \subseteq ReadBy(proc[p])
  BY <1>1 DEF ReadBy, Sound, Syncing
<1>6. s \in seen <=> status = "succeeded" /\ world[s].there
  BY <1>5, Zenon DEF Gained
<1>7. \A x : x # s => (x \in seen <=> x \in proc[p].seen)
  BY DEF Gained
<1> HIDE DEF c, seen
<1>8. /\ job.coverage = c /\ job.seen = seen /\ job.step = proc[p].step
      /\ job.started = proc[p].started /\ job.cmd = proc[p].cmd /\ job.group = proc[p].group
      /\ job.view = proc[p].view /\ job.reused = proc[p].reused
  BY <1>1 DEF Jobs
<1> HIDE DEF job
<1>9. ReadBy(job) = ReadBy(proc[p]) \cup (IF status = "succeeded" THEN {s} ELSE {})
  BY <1>4, <1>8 DEF ReadBy
<1>10. seen \subseteq ReadBy(job)
  BY <1>5, <1>6, <1>7, <1>9
<1>11. Agrees(world, seen, ReadBy(job), proc[p].started)
  <2> SUFFICES ASSUME NEW x \in ReadBy(job), world[x].since < proc[p].started
               PROVE  x \in seen <=> world[x].there
    BY DEF Agrees
  <2>1. CASE x = s
    <3>1. status = "succeeded"
      BY <1>5, <1>9, <2>1
    <3> QED BY <1>6, <2>1, <3>1, Zenon
  <2>2. CASE x # s
    <3>1. x \in ReadBy(proc[p])
      BY <1>9, <2>2
    <3>2. Agrees(world, proc[p].seen, ReadBy(proc[p]), proc[p].started)
      BY <1>1 DEF Sound, Syncing
    <3>3. x \in proc[p].seen <=> world[x].there
      BY <3>1, <3>2, Zenon DEF Agrees
    <3> QED BY <1>7, <2>2, <3>3, Zenon
  <2> QED BY <2>1, <2>2
<1>12. Sound(job, world, clock)
  BY <1>1, <1>3, <1>8, <1>10, <1>11 DEF Sound, Syncing, Committing
<1> QED BY <1>2, <1>12, SoundMove

LEMMA CancelTrue == ASSUME IInv, TInv, NEW p \in Procs, Cancel(p) PROVE TInv'
<1> DEFINE job == [proc[p] EXCEPT !.cancelled = TRUE]
<1>1. proc[p] \in Jobs /\ Sound(proc[p], world, clock) /\ proc[p].step = "collect"
  BY DEF Cancel, IInv, TInv
<1>2. proc' = [proc EXCEPT ![p] = job] /\ UNCHANGED <<db, world, clock>>
  BY DEF Cancel, IInv, env
<1>3. /\ job.coverage = proc[p].coverage /\ job.step = proc[p].step /\ job.seen = proc[p].seen
      /\ job.started = proc[p].started /\ job.cmd = proc[p].cmd /\ job.group = proc[p].group
      /\ job.view = proc[p].view /\ job.reused = proc[p].reused
  BY <1>1 DEF Jobs
<1> HIDE DEF job
<1>4. ReadBy(job) = ReadBy(proc[p])
  BY <1>3 DEF ReadBy
<1>5. Sound(job, world, clock)
  BY <1>1, <1>3, <1>4 DEF Sound, Syncing, Committing
<1> QED BY <1>2, <1>5, SoundMove

LEMMA EndCollectionTrue == ASSUME IInv, TInv, NEW p \in Procs, EndCollection(p) PROVE TInv'
<1> DEFINE run == [id |-> completed + 1, started |-> proc[p].started, completed |-> clock]
           job == [proc[p] EXCEPT !.step = "pathLock", !.run = run]
<1>1. /\ proc[p] \in Jobs /\ Sound(proc[p], world, clock) /\ proc[p].step = "collect"
      /\ ~proc[p].cancelled
  BY DEF EndCollection, IInv, TInv
<1>2. proc' = [proc EXCEPT ![p] = job] /\ UNCHANGED <<db, world, clock>>
  BY DEF EndCollection, IInv, env
<1>3. run.id # 0
  BY DEF IInv
<1> HIDE DEF run
<1>4. /\ job.coverage = proc[p].coverage /\ job.step = "pathLock" /\ job.seen = proc[p].seen
      /\ job.started = proc[p].started /\ job.cmd = proc[p].cmd /\ job.group = proc[p].group
      /\ job.view = proc[p].view /\ job.reused = proc[p].reused /\ job.run = run
      /\ job.cancelled = proc[p].cancelled
  BY <1>1 DEF Jobs
<1> HIDE DEF job
<1>5. ReadBy(job) = ReadBy(proc[p])
  BY <1>4 DEF ReadBy
<1>6. Sound(job, world, clock)
  BY <1>1, <1>3, <1>4, <1>5 DEF Sound, Syncing, Committing
<1> QED BY <1>2, <1>6, SoundMove

LEMMA FreshTrue == ASSUME NEW w, NEW now \in Nat
                   PROVE  RunsKept(Fresh) /\ RowsOwned(Fresh) /\ RunsTrue(Fresh, w, now)
<1>1. /\ Fresh.runs = {} /\ Fresh.active = 0 /\ Fresh.coverage = {} /\ Fresh.observation = {}
      /\ Fresh.resource = {}
  BY DEF Fresh
<1>2. IsFiniteSet({}) /\ Cardinality({}) = 0
  BY FS_EmptySet
<1>3. RunsKept(Fresh)
  BY <1>1, <1>2, RetentionAssumption DEF RunsKept
<1> QED BY <1>1, <1>3 DEF RowsOwned, RunsTrue

LEMMA OpenTrue == ASSUME IInv, TInv, NEW p \in Procs, Open(p) PROVE TInv'
<1>1. CASE file = "newer"
  BY <1>1, EndTrue DEF Open, env
<1>2. CASE file = "corrupt"
  <2>1. db' = Fresh /\ UNCHANGED <<proc, world, clock>>
    BY <1>2 DEF Open, env
  <2> QED BY <2>1, FreshTrue DEF TInv, IInv
<1>3. CASE file \notin {"newer", "corrupt"}
  <2> DEFINE job == [proc[p] EXCEPT !.step = "commit"]
  <2>1. proc' = [proc EXCEPT ![p] = job] /\ UNCHANGED <<db, world, clock>> /\ proc[p].step = "open"
    BY <1>3 DEF Open, Go, env, IInv
  <2>2. proc[p] \in Jobs /\ Sound(proc[p], world, clock)
    BY DEF IInv, TInv
  <2>3. job.step = "commit" /\ ~proc[p].reused
    BY <2>1, <2>2 DEF Jobs, Sound
  <2>4. Sound(job, world, clock)
    BY <2>1, <2>2, <2>3, StepSound DEF Committing
  <2> QED BY <2>1, <2>4, SoundMove
<1> QED BY <1>1, <1>2, <1>3

(* What is committed is the whole of a collection that was not cancelled. *)
LEMMA CommitCollectionTrue == ASSUME IInv, TInv, NEW p \in Procs, CommitCollection(p) PROVE TInv'
<1>1. CASE file # "current"
  BY <1>1, EndTrue DEF CommitCollection, env
<1>2. CASE file = "current"
  <2> DEFINE run == proc[p].run
  <2>1. /\ proc[p] \in Jobs /\ Sound(proc[p], world, clock) /\ proc[p].step = "commit"
        /\ Ahead(proc[p], db.runs, clock, completed) /\ clock \in Nat /\ db \in Databases
    BY DEF CommitCollection, IInv, TInv
  <2>2. db' = CommitRun(db, run, proc[p].coverage, proc[p].seen) /\ UNCHANGED <<world, clock>>
    BY <1>2 DEF CommitCollection, env
  <2>3. /\ run \in Runs /\ run.started = proc[p].started /\ run.started <= clock
        /\ \A r \in db.runs : r.id < run.id
        /\ \A s \in DOMAIN proc[p].coverage : proc[p].coverage[s] \in Statuses
        /\ proc[p].coverage \in Coverages /\ proc[p].seen \in SUBSET Scopes
    BY <2>1 DEF Ahead, Syncing, Committing, Jobs
  <2>4. /\ run.id # 0 /\ DOMAIN proc[p].coverage # {} /\ ~proc[p].reused
        /\ \A s \in proc[p].seen : s \in DOMAIN proc[p].coverage /\ proc[p].coverage[s] = "succeeded"
        /\ Agrees(world, proc[p].seen,
                  {s \in DOMAIN proc[p].coverage : proc[p].coverage[s] = "succeeded"}, run.started)
    BY <2>1, <2>3 DEF Sound, Syncing, Committing, ReadBy
  <2>5. RunsKept(db')
    BY <2>1, <2>2, <2>3, CommitKeepsRuns DEF TInv
  <2>6. RowsOwned(db')
    BY <2>1, <2>2, <2>3, <2>4, CommitKeepsRows DEF TInv
  <2>7. RunsTrue(db', world, clock)
    BY <2>1, <2>2, <2>3, <2>4, CommitKeepsTruth DEF TInv
  <2>8. PICK job : proc' = [proc EXCEPT ![p] = job] /\ Sound(job, world, clock)
    <3>1. CASE proc[p].cmd = "resolve"
      <4> DEFINE job == Reading(proc[p])
      <4>1. proc' = [proc EXCEPT ![p] = job]
        BY <1>2, <3>1 DEF CommitCollection, IInv
      <4>2. /\ job.step = "look" /\ job.group = proc[p].group /\ job.cmd = proc[p].cmd
            /\ job.view = proc[p].view /\ job.reused = proc[p].reused
        BY <2>1 DEF Reading, Jobs
      <4> HIDE DEF job
      <4>3. Sound(job, world, clock)
        BY <2>1, <2>4, <4>2 DEF Sound, Syncing, Committing
      <4> QED BY <4>1, <4>3
    <3>2. CASE proc[p].cmd # "resolve"
      BY <1>2, <2>1, <3>2, SoundIdle DEF CommitCollection, End
    <3> QED BY <3>1, <3>2
  <2>9. \A q \in Procs : Sound(proc'[q], world, clock)
    BY <2>8 DEF IInv, TInv
  <2> HIDE DEF run
  <2> QED BY <2>2, <2>5, <2>6, <2>7, <2>9 DEF TInv
<1> QED BY <1>1, <1>2

-----------------------------------------------------------------------------
(* AWS and the time, the initial states, and every step *)

(* What is true of AWS stays true, or has changed since: a change is no older *)
(* than any collection that was started before it.                            *)
Changed(w, s, now) == [w EXCEPT ![s] = [there |-> ~@.there, since |-> now]]

LEMMA ChangeKeeps ==
  ASSUME NEW s \in Scopes, NEW now \in Nat, NEW w \in Worlds
  PROVE  /\ Changed(w, s, now) \in Worlds
         /\ \A observed, succeeded : \A started \in Nat :
              started <= now /\ Agrees(w, observed, succeeded, started)
                => Agrees(Changed(w, s, now), observed, succeeded, started)
<1> DEFINE w2 == Changed(w, s, now)
<1>1. /\ w2 \in Worlds /\ w2[s].since = now /\ \A x : x # s => w2[x] = w[x]
  BY DEF Worlds, Changed
<1> HIDE DEF w2
<1>2. ASSUME NEW observed, NEW succeeded, NEW started \in Nat, started <= now,
             Agrees(w, observed, succeeded, started)
      PROVE  Agrees(w2, observed, succeeded, started)
  <2> SUFFICES ASSUME NEW x \in succeeded, w2[x].since < started
               PROVE  x \in observed <=> w2[x].there
    BY DEF Agrees
  <2>1. x # s
    BY <1>1, <1>2
  <2>2. w[x].since < started /\ w2[x] = w[x]
    BY <1>1, <2>1
  <2>3. x \in observed <=> w[x].there
    BY <1>2, <2>2, Zenon DEF Agrees
  <2> QED BY <2>2, <2>3, Zenon
<1> QED BY <1>1, <1>2 DEF w2

LEMMA EnvironmentTrue ==
  ASSUME IInv, TInv, Tick \/ Damage \/ \E s \in Scopes : Change(s)
  PROVE  TInv'
<1>1. /\ UNCHANGED <<db, proc>> /\ clock \in Nat /\ clock' \in Nat /\ clock <= clock'
      /\ db \in Databases /\ proc \in [Procs -> Jobs]
  BY DEF IInv, Tick, Damage, Change
<1>2. /\ \A r \in db.runs : r.started \in Nat
      /\ \A p \in Procs : proc[p].started \in Nat /\ proc[p].view.started \in Nat
  BY <1>1 DEF Databases, Runs, Jobs, Views
<1>3. world' \in Worlds /\ \A observed, succeeded : \A started \in Nat :
        started <= clock /\ Agrees(world, observed, succeeded, started)
          => Agrees(world', observed, succeeded, started)
  <2>1. CASE Tick \/ Damage
    BY <2>1 DEF Tick, Damage, TInv
  <2>2. ASSUME NEW s \in Scopes, Change(s)
        PROVE  world' \in Worlds /\ \A observed, succeeded : \A started \in Nat :
                 started <= clock /\ Agrees(world, observed, succeeded, started)
                   => Agrees(world', observed, succeeded, started)
    <3>1. world' = Changed(world, s, clock)
      BY <2>2 DEF Change, Changed
    <3>2. world \in Worlds
      BY DEF TInv
    <3> QED BY <1>1, <3>1, <3>2, ChangeKeeps
  <2> QED BY <2>1, <2>2
<1>4. RunsTrue(db, world', clock')
  BY <1>1, <1>2, <1>3 DEF TInv, RunsTrue
<1>5. ASSUME NEW p \in Procs PROVE Sound(proc[p], world', clock')
  <2>1. Sound(proc[p], world, clock) /\ Ahead(proc[p], db.runs, clock, completed)
    BY DEF TInv, IInv
  <2>2. proc[p].step \in Syncing =>
          /\ DOMAIN proc[p].coverage # {} /\ proc[p].seen \subseteq ReadBy(proc[p])
          /\ Agrees(world', proc[p].seen, ReadBy(proc[p]), proc[p].started)
    BY <1>2, <1>3, <2>1 DEF Sound, Ahead
  <2>3. /\ proc[p].view.started <= clock'
        /\ Agrees(world', proc[p].view.observed, proc[p].view.succeeded, proc[p].view.started)
    BY <1>1, <1>2, <1>3, <2>1 DEF Sound
  <2> QED BY <2>1, <2>2, <2>3 DEF Sound
<1> QED BY <1>1, <1>3, <1>4, <1>5 DEF TInv

LEMMA InitTrue == Init => TInv
<1> SUFFICES ASSUME Init PROVE TInv
  OBVIOUS
<1>1. world \in Worlds /\ clock = 0
  BY DEF Init, Worlds
<1>2. Fresh \in Databases /\ Fresh.runs = {}
  BY DEF Fresh, Databases
<1>3. RunsKept(Fresh) /\ RowsOwned(Fresh) /\ RunsTrue(Fresh, world, clock)
  BY <1>1, FreshTrue
<1>4. ASSUME db = OldRun PROVE RunsKept(db) /\ RowsOwned(db) /\ RunsTrue(db, world, clock)
  <2> DEFINE c == [s \in Places \X {"sg"} |-> "succeeded"]
             run == [id |-> 1, started |-> 0, completed |-> 0]
  <2>1. db = CommitRun(Fresh, run, c, {})
    BY <1>4 DEF OldRun
  <2>2. run \in Runs /\ run.id # 0 /\ run.started = 0
    BY DEF Runs
  <2>3. c \in Coverages /\ \A s \in DOMAIN c : c[s] \in Statuses
    <3>1. Places \X {"sg"} \in SUBSET Scopes
      BY DEF Scopes, Services
    <3>2. c \in [Places \X {"sg"} -> Statuses \cup {"waiting", "running"}]
      BY DEF Statuses
    <3> QED BY <3>1, <3>2 DEF Coverages, Statuses
  <2>4. PICK place \in Places : TRUE
    BY SnapshotAssumption
  <2>5. <<place, "sg">> \in DOMAIN c
    OBVIOUS
  <2>6. \A s \in Scopes : world[s].since = 0
    BY DEF Init
  <2>7. {s \in DOMAIN c : c[s] = "succeeded"} \subseteq Scopes
    BY <2>3 DEF Coverages
  <2> HIDE DEF c, run
  <2>8. Agrees(world, {}, {s \in DOMAIN c : c[s] = "succeeded"}, run.started)
    BY <2>2, <2>6, <2>7 DEF Agrees
  <2>9. RunsKept(db)
    BY <1>2, <1>3, <2>1, <2>2, <2>3, CommitKeepsRuns
  <2>10. RowsOwned(db)
    BY <1>2, <1>3, <2>1, <2>2, <2>3, <2>5, CommitKeepsRows
  <2>11. RunsTrue(db, world, clock)
    BY <1>1, <1>2, <1>3, <2>1, <2>2, <2>3, <2>8, CommitKeepsTruth
  <2> QED BY <2>9, <2>10, <2>11
<1>5. RunsKept(db) /\ RowsOwned(db) /\ RunsTrue(db, world, clock)
  BY <1>3, <1>4 DEF Init
<1>6. \A p \in Procs : Sound(proc[p], world, clock)
  BY <1>1, SoundIdle DEF Init
<1> QED BY <1>1, <1>5, <1>6 DEF TInv

LEMMA StepTrue == ASSUME IInv, TInv, NEW p \in Procs, Step(p) PROVE TInv'
<1>1. CASE Return(p) \/ DropCollection(p)
  <2>1. End(p) /\ UNCHANGED <<db, world, clock>>
    BY <1>1 DEF Return, DropCollection, env
  <2> QED BY <2>1, EndTrue
<1> QED BY <1>1, LookTrue, TakePathLockTrue, ReadTrue, JudgeTrue, TakeSyncLockTrue,
           EndCollectionTrue, OpenTrue, CommitCollectionTrue DEF Step

LEMMA NextTrue == IInv /\ TInv /\ [Next]_vars => TInv'
<1> SUFFICES ASSUME IInv, TInv, [Next]_vars PROVE TInv'
  OBVIOUS
<1>1. CASE UNCHANGED vars
  BY <1>1 DEF vars, TInv
<1>2. ASSUME NEW p \in Procs, Stop(p) PROVE TInv'
  <2>1. End(p) /\ UNCHANGED <<db, world, clock>>
    BY <1>2 DEF Stop, env
  <2> QED BY <2>1, EndTrue
<1> QED BY <1>1, <1>2, BeginTrue, CancelTrue, StepTrue, StartScopeTrue, EndScopeTrue,
           EnvironmentTrue DEF Next

LEMMA Truth == Spec => [](IInv /\ TInv)
BY InitIInv, NextIInv, InitTrue, NextTrue, PTL DEF Spec

-----------------------------------------------------------------------------
(* After any number of synchronisations, for any Retention and any groups,   *)
(* the tables agree: the active run is there with its coverage, no more runs *)
(* are kept than Retention, and every row is of a kept run (CommitRun,       *)
(* retainRuns).                                                              *)
THEOREM TablesAgree == Spec => []TablesConsistent
<1>1. IInv /\ TInv => TablesConsistent
  BY DEF TInv, RunsKept, RowsOwned, TablesConsistent
<1> QED BY <1>1, Truth, PTL

(* An answer of refs or resolve is what AWS held when its run was started,   *)
(* wherever that has not changed, for any number of processes, groups and    *)
(* failures: a failed scope, a run of another group and a service that was   *)
(* not collected never pass for a resource that nothing refers to            *)
(* (awsAutoSnapshotReusable, Collect, ActiveView).                           *)
THEOREM AnswersTrue == Spec => []AnswersAreAccurate
<1>1. IInv /\ TInv => AnswersAreAccurate
  <2> SUFFICES ASSUME IInv, TInv, NEW p \in Procs, proc[p].step = "answered",
                      NEW s \in proc[p].view.succeeded
                               \cup (IF proc[p].reused THEN proc[p].group \X {proc[p].kind} ELSE {}),
                      world[s].since < proc[p].view.started
               PROVE  (s \in proc[p].view.observed) = world[s].there
    BY Zenon DEF AnswersAreAccurate
  <2>1. Sound(proc[p], world, clock) /\ proc[p] \in Jobs /\ world \in Worlds
    BY DEF IInv, TInv
  <2>2. s \in proc[p].view.succeeded
    <3>1. CASE proc[p].reused
      <4>1. \A place \in proc[p].group : <<place, proc[p].kind>> \in proc[p].view.succeeded
        BY <2>1, <3>1 DEF Sound, Covered
      <4> QED BY <3>1, <4>1
    <3> QED BY <3>1
  <2>3. s \in proc[p].view.observed <=> world[s].there
    BY <2>1, <2>2, Zenon DEF Sound, Agrees
  <2>4. world[s].there \in BOOLEAN
    BY <2>1, <2>2 DEF Worlds, Jobs, Views
  <2> QED BY <2>3, <2>4
<1> QED BY <1>1, Truth, PTL

(* The database loses its active run only to a complete run of a command that *)
(* was not cancelled and holds the sync lock, or with a file that can no      *)
(* longer be read; the run it replaces is kept with its rows when more than   *)
(* one is (CommitRun, retainRuns, Collect).                                   *)
THEOREM ActiveRunSucceeded == Spec => ActiveRunReplacedWhole
<1>1. ASSUME IInv, TInv, Next, db'.active # db.active, file # "corrupt"
      PROVE  /\ \E p \in Procs : /\ proc[p].run.id = db'.active /\ syncLock = p /\ ~proc[p].cancelled
                                  /\ {c.scope : c \in {d \in db'.coverage : d.run = db'.active}}
                                       = DOMAIN proc[p].coverage
             /\ Retention > 1 => /\ ActiveRun(db) \subseteq db'.runs
                                 /\ \A o \in db.observation : o.run = db.active => o \in db'.observation
  <2>1. PICK p \in Procs : CommitCollection(p) /\ file = "current"
    <3>1. UNCHANGED db \/ \E p \in Procs : CommitCollection(p) /\ file = "current"
      <4>1. CASE Tick \/ Damage \/ \E s \in Scopes : Change(s)
        BY <4>1 DEF Tick, Damage, Change
      <4>2. ASSUME NEW p \in Procs, Step(p)
            PROVE  UNCHANGED db \/ (CommitCollection(p) /\ file = "current")
        BY <1>1, <4>2 DEF Step, Look, TakePathLock, Read, Judge, Return, TakeSyncLock, DropCollection,
                          EndCollection, Open, CommitCollection
      <4>3. ASSUME NEW p \in Procs, NEW s \in Scopes,
                   StartScope(p, s) \/ \E status \in {"succeeded", "failed"} : EndScope(p, s, status)
            PROVE  UNCHANGED db
        BY <4>3 DEF StartScope, EndScope
      <4>4. ASSUME NEW p \in Procs, BeginRefs(p) \/ Stop(p) \/ Cancel(p) PROVE UNCHANGED db
        BY <4>4 DEF BeginRefs, Begin, Stop, Cancel
      <4>5. ASSUME NEW p \in Procs,
                   \/ \E group \in Groups, collection \in DOMAIN Collected : BeginSync(p, group, collection)
                   \/ \E group \in Groups, kind \in Kinds, force \in BOOLEAN : BeginResolve(p, group, kind, force)
            PROVE  UNCHANGED db
        BY <4>5 DEF BeginSync, BeginResolve, Begin
      <4> QED BY <1>1, <4>1, <4>2, <4>3, <4>4, <4>5 DEF Next
    <3> QED BY <1>1, <3>1
  <2> DEFINE run == proc[p].run
             c == proc[p].coverage
             with == Inserted(db, run, c, proc[p].seen)
             gone == Superseded(with)
             rows == {[run |-> run.id, scope |-> s, status |-> c[s]] : s \in DOMAIN c}
  <2>2. /\ proc[p] \in Jobs /\ Sound(proc[p], world, clock) /\ proc[p].step = "commit"
        /\ Ahead(proc[p], db.runs, clock, completed) /\ db \in Databases
        /\ RowsOwned(db) /\ CollectionsDoNotOverlap /\ syncLock = p
    BY <1>1, <2>1 DEF CommitCollection, IInv, TInv, Held, Syncing
  <2>3. /\ run \in Runs /\ \A r \in db.runs : r.id < run.id
        /\ \A s \in DOMAIN c : c[s] \in Statuses
        /\ c \in Coverages /\ proc[p].seen \in SUBSET Scopes /\ ~proc[p].cancelled
    BY <2>2 DEF Ahead, Syncing, Committing, Jobs, Sound
  <2>4. db' = CommitRun(db, run, c, proc[p].seen)
    BY <2>1 DEF CommitCollection
  <2>5. /\ db'.active = run.id
        /\ db'.runs = {r \in with.runs : r.id \notin gone}
        /\ db'.coverage = {e \in with.coverage : e.run \notin gone}
        /\ db'.observation = {o \in with.observation : o.run \notin gone}
    BY <2>2, <2>3, <2>4, CommittedAre
  <2>6. /\ with.runs = db.runs \cup {run} /\ with.active = run.id
        /\ with.coverage = db.coverage \cup rows /\ db.observation \subseteq with.observation
    BY DEF Inserted
  <2>7. run.id \notin gone
    BY <2>6, SupersededAreOthers
  <2>8. \A e \in db.coverage : e.run # run.id
    BY <2>2, <2>3 DEF RowsOwned, Databases, Runs
  <2>9. \A e \in rows : e.run = run.id /\ e.scope \in DOMAIN c
    OBVIOUS
  <2>10. \A s \in DOMAIN c : \E e \in rows : e.scope = s
    <3> TAKE s \in DOMAIN c
    <3> DEFINE row == [run |-> run.id, scope |-> s, status |-> c[s]]
    <3>1. row \in rows /\ row.scope = s
      OBVIOUS
    <3> QED BY <3>1, Zenon
  <2> HIDE DEF with, gone, rows, run, c
  <2>11. {e \in db'.coverage : e.run = run.id} = rows
    BY <2>5, <2>6, <2>7, <2>8, <2>9
  <2>12. {e.scope : e \in rows} = DOMAIN c
    BY <2>9, <2>10
  <2>13. {e.scope : e \in {d \in db'.coverage : d.run = db'.active}} = DOMAIN c
    BY <2>5, <2>11, <2>12
  <2>14. ASSUME Retention > 1
         PROVE  /\ ActiveRun(db) \subseteq db'.runs
                /\ \A o \in db.observation : o.run = db.active => o \in db'.observation
    <3>1. /\ \A r \in with.runs : r.id \in Nat
          /\ \A r \in db.runs : r.id <= db.active
      BY <2>2, <2>3, <2>6 DEF Databases, Runs, CollectionsDoNotOverlap
    <3>2. \A r \in ActiveRun(db) : r \in with.runs /\ r.id = db.active
      BY <2>6 DEF ActiveRun
    <3>3. ASSUME NEW r \in ActiveRun(db) PROVE r.id \notin gone
      <4>1. \A s \in with.runs : s.id \in Nat /\ (s.id # with.active => s.id <= r.id)
        BY <2>6, <3>1, <3>2
      <4> QED BY <2>14, <3>1, <3>2, <4>1, NewestOtherIsKept DEF gone
    <3>4. \A o \in db.observation : o.run = db.active => \E r \in ActiveRun(db) : r.id = db.active
      BY <2>2 DEF RowsOwned, ActiveRun
    <3> QED BY <2>5, <2>6, <3>2, <3>3, <3>4
  <2> QED BY <2>2, <2>3, <2>5, <2>13, <2>14 DEF run, c
<1>2. IInv /\ TInv /\ [Next]_vars =>
        [db'.active # db.active =>
           \/ file = "corrupt"
           \/ /\ \E p \in Procs : /\ proc[p].run.id = db'.active /\ syncLock = p /\ ~proc[p].cancelled
                                  /\ {c.scope : c \in {d \in db'.coverage : d.run = db'.active}}
                                       = DOMAIN proc[p].coverage
              /\ Retention > 1 => /\ ActiveRun(db) \subseteq db'.runs
                                  /\ \A o \in db.observation : o.run = db.active => o \in db'.observation]_vars
  BY <1>1 DEF vars
<1> QED BY <1>2, Truth, PTL DEF Spec, ActiveRunReplacedWhole
=============================================================================
