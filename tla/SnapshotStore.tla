---------------------------- MODULE SnapshotStore ----------------------------
(***************************************************************************)
(* The tables of the AWS relationship snapshot (awsbrowser/snapshot,       *)
(* store.go), as values: what one committed transaction does to them, and  *)
(* what one read transaction returns.  Resource rows are shared by the     *)
(* runs that refer to them; observation rows stand for observations and    *)
(* relations alike, both of which refer to resource rows of one run.       *)
(*                                                                         *)
(* A run's id is random in the code; completion times are nanoseconds, and *)
(* order the runs.  Here time is coarser, and the id is the place of the   *)
(* run in the order of completion.                                         *)
(***************************************************************************)
EXTENDS Naturals, FiniteSets

CONSTANTS Places,     \* profile and region
          Retention   \* runs kept, the active one included

ASSUME RetentionAssumption == Retention \in Nat \ {0}

(* What a run collects at a place; "other" stands for the services that *)
(* are listed in the coverage and never collected.                      *)
Services  == {"sg", "peering", "other"}
Scopes    == Places \X Services
Statuses  == {"succeeded", "failed", "not-observed"}

(* A database without a run.  active is 0 while there is none. *)
Fresh == [runs |-> {}, active |-> 0, coverage |-> {}, observation |-> {}, resource |-> {}]

Completed(run, other) == run.id > other.id

(* A bug of the schema: rows of deleted runs are not deleted with them. *)
DeleteRuns_NoCascade(db, ids) == [db EXCEPT !.runs = {r \in @ : r.id \notin ids}]

(* ON DELETE CASCADE *)
DeleteRuns(db, ids) ==
  [db EXCEPT !.runs = {r \in @ : r.id \notin ids},
             !.coverage = {c \in @ : c.run \notin ids},
             !.observation = {o \in @ : o.run \notin ids}]

DeleteUnusedResources(db) ==
  [db EXCEPT !.resource = {r \in @ : \E o \in db.observation : o.resource = r}]

(* A bug of retainRuns: the others are in ascending order of completion. *)
Excess_Newest(db) ==
  LET others == {r \in db.runs : r.id # db.active} IN
  {r \in others : Cardinality({s \in others : Completed(r, s)}) >= Retention - 1}

(* The runs that the active one and the Retention - 1 newest others leave. *)
Excess(db) ==
  LET others == {r \in db.runs : r.id # db.active} IN
  {r \in others : Cardinality({s \in others : Completed(s, r)}) >= Retention - 1}

(* retainRuns *)
RetainRuns(db) ==
  DeleteUnusedResources(DeleteRuns(db, {r.id : r \in Excess(db)}))

(* CommitRun: one transaction inserts the run, its resources, observations  *)
(* and coverage, makes it the active one and removes what it supersedes.    *)
CommitRun(db, run, coverage, seen) ==
  RetainRuns([runs        |-> db.runs \cup {run},
              active      |-> run.id,
              coverage    |-> db.coverage \cup {[run |-> run.id, scope |-> s, status |-> coverage[s]] :
                                                  s \in DOMAIN coverage},
              observation |-> db.observation \cup {[run |-> run.id, resource |-> r] : r \in seen},
              resource    |-> db.resource \cup seen])

ActiveRun(db) == {r \in db.runs : r.id = db.active}

(* ActiveView: everything refs reads, of the run that is active. *)
NoView == [run |-> 0, started |-> 0, completed |-> 0, succeeded |-> {}, observed |-> {}]

ActiveView(db) ==
  LET run == CHOOSE r \in ActiveRun(db) : TRUE IN
  [run       |-> run.id,
   started   |-> run.started,
   completed |-> run.completed,
   succeeded |-> {c.scope : c \in {d \in db.coverage : d.run = run.id /\ d.status = "succeeded"}},
   observed  |-> {o.resource : o \in {d \in db.observation : d.run = run.id /\ d.resource \in db.resource}}]
=============================================================================
