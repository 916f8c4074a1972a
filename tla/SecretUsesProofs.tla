------------------------- MODULE SecretUsesProofs --------------------------
(***************************************************************************)
(* What the ways of using the secret store promise, for every number of    *)
(* processes, fields, values, commands and weeks.                          *)
(*                                                                         *)
(* Keeping: a command has the value it replaces in the trash before it     *)
(* writes the store, and every trash another command writes still has it.  *)
(* The one step that takes a young entry away drops the copy --undo        *)
(* brought back; that value is the store's again, or whoever replaced it   *)
(* since put it in the trash with a later time.                            *)
(*                                                                         *)
(* One at a time: what a command read is still there when it writes.  A    *)
(* purge has emptied the trash of its fields before it writes the store;   *)
(* the sidecar fits the store until a command writes it, then what that    *)
(* command read, until the sidecar is rewritten in its turn.               *)
(***************************************************************************)
EXTENDS SecretStoreProofs

-----------------------------------------------------------------------------
(* Keeping what is replaced *)

(* The fields whose values a command moves to the trash. *)
Moved(job) == IF job.req.cmd = "import"
              THEN {f \in job.req.fields \cap DOMAIN job.data : job.data[f] # job.req.value}
              ELSE job.req.fields

(* A young entry of that field and value in the trash, of that time or of a later one. *)
YoungAt(entries, f, v, t) == \E e \in entries : e.field = f /\ e.value = v /\ e.time = t /\ ~e.old
YoungAfter(entries, f, v, t) == \E e \in entries : e.field = f /\ e.value = v /\ e.time > t /\ ~e.old
Holds(map, f, v) == f \in DOMAIN map /\ map[f] = v

(* A command whose snapshot of the store is current; --undo once it has brought its copy back. *)
Moving(job) == job.req.cmd \in Movers /\ job.sawStore
Undone(job) == job.req.cmd = "undo" /\ "writeStore" \notin Left(job)

(* What a command means to replace is in the trash once it has written that, *)
(* and a snapshot of the trash still current has all its young entries.      *)
Keeps(job, entries) ==
  /\ job.todo # <<>> => job.req.cmd \in Keeping
  /\ job.todo = <<>> => job.req.cmd \notin Movers
  /\ job.todo = <<>> \/ job.req.cmd = "init" => ~job.sawTrash
  /\ job.sawTrash => Prune(job.trash) = Prune(entries)
  /\ Moving(job) /\ "writeTrash" \notin Left(job) =>
       "readMeta" \notin Left(job) /\ \A f \in Moved(job) : YoungAt(entries, f, job.data[f], job.time)

(* A value about to be replaced is newer than every copy --undo has brought back. *)
Later(job, other) ==
  Moving(job) /\ "readMeta" \notin Left(job) /\ Moved(job) # {} /\ Undone(other) =>
    \A e \in other.undone : e.time < job.time

(* The copy --undo is about to drop is not all there is of its value. *)
Spare(job, map, entries) ==
  Undone(job) /\ "dropCopy" \in Left(job) =>
    \A e \in job.undone : Holds(map, e.field, e.value) \/ YoungAfter(entries, e.field, e.value, e.time)

KInv ==
  \A p \in Procs : /\ Keeps(proc[p], trash) /\ Spare(proc[p], store, trash)
                   /\ \A q \in Procs : Later(proc[p], proc[q])

(* A step of the commands that never mean to forget a value. *)
KeepingStep == Next /\ \A p \in Procs : proc'[p].todo # <<>> => proc'[p].req.cmd \in Keeping

LEMMA IdleKeeps ==
  /\ \A entries : Keeps(Idle, entries)
  /\ \A job : Later(Idle, job) /\ Later(job, Idle)
  /\ \A map, entries : Spare(Idle, map, entries)
<1>1. Idle.req.cmd = "none" /\ Idle.todo = <<>> /\ Idle.sawTrash = FALSE
  BY DEF Idle, Request
<1> QED BY <1>1, Zenon DEF Keeps, Later, Spare, Moving, Undone, Movers

(* One command goes on, and writes neither of the encrypted files. *)
LEMMA OneKeeps ==
  ASSUME KInv, NEW p \in Procs, UNCHANGED <<store, trash>>,
         \A q \in Procs \ {p} : proc'[q] = proc[q],
         Keeps(proc'[p], trash), \A q \in Procs : Later(proc'[p], proc[q]),
         Undone(proc'[p]) => Undone(proc[p]) /\ proc'[p].undone = proc[p].undone,
         Undone(proc'[p]) /\ "dropCopy" \in Left(proc'[p]) => "dropCopy" \in Left(proc[p])
  PROVE  KInv'
<1>1. ASSUME NEW q \in Procs PROVE Keeps(proc'[q], trash) /\ Spare(proc'[q], store, trash)
  BY DEF KInv, Spare
<1>2. ASSUME NEW q \in Procs, NEW r \in Procs PROVE Later(proc'[q], proc'[r])
  <2>1. Later(proc'[q], proc[r])
    BY DEF KInv
  <2>2. Undone(proc'[r]) => Undone(proc[r]) /\ proc'[r].undone = proc[r].undone
    OBVIOUS
  <2> QED BY <2>1, <2>2 DEF Later
<1> QED BY <1>1, <1>2 DEF KInv

LEMMA EndKeeps ==
  ASSUME TInv, KInv, NEW p \in Procs, UNCHANGED <<store, trash>>, proc' = [proc EXCEPT ![p] = Idle]
  PROVE  KInv'
<1>1. proc'[p] = Idle /\ \A q \in Procs \ {p} : proc'[q] = proc[q]
  BY DEF TInv
<1>2. ~Undone(Idle)
  BY DEF Undone, Idle, Request
<1> QED BY <1>1, <1>2, IdleKeeps, OneKeeps

LEMMA BeginKeeps == ASSUME TInv, KInv, KeepingStep, NEW p \in Procs, Begin(p) PROVE KInv'
<1>1. PICK r \in Requests :
        /\ proc' = [proc EXCEPT ![p] = [Idle EXCEPT !.req = r, !.todo = Plan[r.cmd], !.sawStore = r.cmd = "init"]]
        /\ UNCHANGED <<store, trash>>
  BY DEF Begin
<1>2. /\ r \in Reqs /\ r.cmd \in Known /\ Plan[r.cmd] \in Seq(Steps) /\ Plan[r.cmd] # <<>>
  BY RequestIs, PlanBegins
<1>3. PICK job : job = [Idle EXCEPT !.req = r, !.todo = Plan[r.cmd], !.sawStore = r.cmd = "init"]
  OBVIOUS
<1>4. /\ job.req = r /\ job.todo = Plan[r.cmd] /\ job.sawTrash = FALSE /\ job.sawStore = (r.cmd = "init")
  BY <1>2, <1>3 DEF Idle
<1>5. proc'[p] = job /\ \A q \in Procs \ {p} : proc'[q] = proc[q]
  BY <1>1, <1>3 DEF TInv
<1>6. ~Moving(job) /\ ~Undone(job)
  <2>1. ~Moving(job)
    BY <1>4 DEF Moving, Movers
  <2>2. ~Undone(job)
    BY <1>4, PlansInclude DEF Undone, Left
  <2> QED BY <2>1, <2>2
<1>7. Keeps(job, trash)
  <2>1. job.todo # <<>> /\ job.req.cmd \in Keeping
    BY <1>2, <1>4, <1>5 DEF KeepingStep
  <2> QED BY <1>4, <1>6, <2>1 DEF Keeps
<1>8. \A q \in Procs : Later(job, proc[q])
  BY <1>6 DEF Later
<1> QED BY <1>1, <1>5, <1>6, <1>7, <1>8, OneKeeps

(* Two records of the same command. *)
LEMMA SameKnows ==
  ASSUME NEW a, NEW b, Same(a, b)
  PROVE  /\ Left(a) = Left(b) /\ Moved(a) = Moved(b) /\ (Undone(a) <=> Undone(b)) /\ a.undone = b.undone
         /\ a.sawStore = b.sawStore => (Moving(a) <=> Moving(b))
BY DEF Same, Left, Moved, Undone, Moving

(* A command takes a step that reads and writes neither the store nor the sidecar. *)
LEMMA GoesOn ==
  ASSUME TInv, KInv, NEW p \in Procs, NEW L, Midway(p, L),
         Head(proc[p].todo) \notin {"readMeta", "writeStore"},
         NEW job, job.req = proc[p].req, Left(job) = L,
         job.time = proc[p].time, job.data = proc[p].data, job.sawStore = proc[p].sawStore
  PROVE  /\ \A q \in Procs : Later(job, proc[q])
         /\ Moving(job) <=> Moving(proc[p])
         /\ Moved(job) = Moved(proc[p])
         /\ Undone(job) <=> Undone(proc[p])
<1>1. Left(proc[p]) = {Head(proc[p].todo)} \cup L
  BY DEF Midway
<1>2. /\ Moving(job) <=> Moving(proc[p])
      /\ Undone(job) <=> Undone(proc[p])
      /\ "readMeta" \in Left(job) <=> "readMeta" \in Left(proc[p])
  BY <1>1 DEF Moving, Undone
<1>3. Moved(job) = Moved(proc[p])
  BY DEF Moved
<1>4. \A q \in Procs : Later(job, proc[q])
  BY <1>2, <1>3 DEF KInv, Later
<1> QED BY <1>2, <1>3, <1>4

LEMMA ReadStoreKeeps == ASSUME TInv, KInv, KeepingStep, NEW p \in Procs, ReadStore(p) PROVE KInv'
<1>1. UNCHANGED <<store, trash>> /\ At(p, "readStore")
  BY DEF ReadStore
<1>2. CASE End(p)
  BY <1>1, <1>2, EndKeeps DEF End
<1>3. CASE ~End(p)
  <2>1. PICK L : Midway(p, L)
    BY <1>1, MidwayIs DEF At
  <2>2. /\ proc[p] \in Jobs /\ Left(proc[p]) = {"readStore"} \cup L
        /\ Cmd(p) \in Movers => "writeTrash" \in L /\ "readMeta" \in L
        /\ Cmd(p) # "init"
    BY <1>1, <2>1 DEF Midway, At, AfterStep
  <2>3. PICK job : job = proc'[p]
    OBVIOUS
  <2>4. /\ \A q \in Procs \ {p} : proc'[q] = proc[q]
        /\ job.req.cmd = Cmd(p) /\ job.todo = Tail(proc[p].todo) /\ job.undone = proc[p].undone
        /\ job.trash = proc[p].trash /\ job.sawTrash = proc[p].sawTrash
    <3>1. proc' = [proc EXCEPT ![p].data = store, ![p].sawStore = TRUE, ![p].todo = Tail(@),
                               ![p].req.fields = IF Cmd(p) \in {"rm", "purge", "use"}
                                                 THEN @ \cap DOMAIN store ELSE @]
      BY <1>3 DEF ReadStore
    <3>2. proc \in [Procs -> Jobs]
      BY DEF TInv
    <3> QED BY <2>3, <3>1, <3>2 DEF Jobs, Reqs, Cmd
  <2>5. Left(job) = L
    BY <2>1, <2>4 DEF Midway, Left
  <2>6. Keeps(job, trash)
    <3>1. L # {} /\ job.todo # <<>>
      BY <1>1, <2>1, <2>2, <2>4, OfNothing DEF Midway, At, AfterStep
    <3>2. Keeps(proc[p], trash)
      BY DEF KInv
    <3>3. job.req.cmd \in Keeping
      BY <2>3, <3>1 DEF KeepingStep
    <3> QED BY <2>2, <2>4, <2>5, <3>1, <3>2, <3>3 DEF Keeps, Moving, Cmd
  <2>7. \A q \in Procs : Later(job, proc[q])
    BY <2>2, <2>4, <2>5 DEF Later, Moving
  <2>8. /\ Undone(job) => Undone(proc[p])
        /\ "dropCopy" \in Left(job) => "dropCopy" \in Left(proc[p])
    BY <2>2, <2>4, <2>5 DEF Undone, Cmd
  <2> QED BY <1>1, <2>3, <2>4, <2>6, <2>7, <2>8, OneKeeps
<1> QED BY <1>2, <1>3

LEMMA ReadMetaKeeps == ASSUME TInv, KInv, KeepingStep, NEW p \in Procs, ReadMeta(p) PROVE KInv'
<1>1. UNCHANGED <<store, trash>> /\ At(p, "readMeta")
  BY DEF ReadMeta
<1>2. CASE End(p)
  BY <1>1, <1>2, EndKeeps DEF End
<1>3. CASE ~End(p)
  <2> DEFINE skip == Cmd(p) = "import" /\ Replaced(p) = {}
             now == IF Cmd(p) \in Movers /\ ~skip THEN clock + 1 ELSE clock
             todo == IF skip THEN <<"writeStore", "updateMeta">> ELSE Tail(proc[p].todo)
  <2>1. PICK L : Midway(p, L)
    BY <1>1, MidwayIs DEF At
  <2>2. /\ proc[p] \in Jobs /\ Left(proc[p]) = {"readMeta"} \cup L
        /\ Cmd(p) \in Movers => "writeTrash" \in L
        /\ "readMeta" \notin L /\ Cmd(p) # "init" /\ L # {}
    BY <1>1, <2>1 DEF Midway, At, AfterStep
  <2>3. PICK job : job = proc'[p]
    OBVIOUS
  <2>4. /\ \A q \in Procs \ {p} : proc'[q] = proc[q]
        /\ job.req = proc[p].req /\ job.todo = todo /\ job.time = now /\ job.undone = proc[p].undone
        /\ job.data = proc[p].data /\ job.trash = proc[p].trash
        /\ job.sawTrash = proc[p].sawTrash /\ job.sawStore = proc[p].sawStore
    <3>1. proc' = [proc EXCEPT ![p].meta = meta, ![p].time = now,
                               ![p].todo = IF skip THEN <<"writeStore", "updateMeta">> ELSE Tail(@)]
      BY <1>3, Zenon DEF ReadMeta, Movers
    <3>2. proc \in [Procs -> Jobs]
      BY DEF TInv
    <3> HIDE DEF skip, now
    <3> QED BY <2>3, <3>1, <3>2 DEF Jobs
  <2>5. /\ skip => Cmd(p) = "import" /\ Moved(job) = {} /\ todo = <<"writeStore", "updateMeta">>
        /\ ~skip => todo = Tail(proc[p].todo)
        /\ Cmd(p) \in Movers /\ ~skip => now = clock + 1
    BY <2>4 DEF Moved, Replaced, Named, Cmd
  <2> HIDE DEF skip, now, todo
  <2>6. /\ skip => Left(job) = {"writeStore", "updateMeta"}
        /\ ~skip => Left(job) = L
        /\ job.todo # <<>>
    <3>1. CASE skip
      <4>1. Len(<<"writeStore", "updateMeta">>) = 2 /\ job.todo = <<"writeStore", "updateMeta">>
        BY <2>4, <2>5, <3>1
      <4>2. job.todo # <<>>
        BY <4>1
      <4> QED BY <3>1, <4>1, <4>2, ShortPlan, Zenon DEF Left
    <3>2. CASE ~skip
      BY <2>1, <2>2, <2>4, <2>5, <3>2, OfNothing DEF Left, Midway
    <3> QED BY <3>1, <3>2
  <2>7. Keeps(job, trash)
    <3>1. Keeps(proc[p], trash) /\ job.req.cmd = Cmd(p)
      BY <2>4 DEF KInv, Cmd
    <3>2. job.req.cmd \in Keeping
      BY <2>3, <2>6 DEF KeepingStep
    <3>3. Moving(job) /\ "writeTrash" \notin Left(job) => skip
      BY <2>2, <2>6, <3>1 DEF Moving
    <3>4. "readMeta" \notin Left(job) /\ (skip => Moved(job) = {})
      BY <2>2, <2>5, <2>6
    <3> QED BY <2>2, <2>4, <2>6, <3>1, <3>2, <3>3, <3>4 DEF Keeps
  <2>8. ASSUME NEW q \in Procs PROVE Later(job, proc[q])
    <3>1. JobOK(proc[q], clock) /\ clock \in Nat
      BY DEF TInv
    <3>2. \A e \in proc[q].undone : e.time \in Nat /\ e.time <= clock
      BY <3>1 DEF JobOK, Jobs, Slips, Dated
    <3>3. Moving(job) /\ Moved(job) # {} => job.time = clock + 1
      BY <2>4, <2>5 DEF Moving, Cmd
    <3> QED BY <3>1, <3>2, <3>3 DEF Later
  <2>9. /\ Undone(job) => Undone(proc[p])
        /\ Undone(job) /\ "dropCopy" \in Left(job) => "dropCopy" \in Left(proc[p])
    BY <2>2, <2>4, <2>5, <2>6 DEF Undone, Cmd
  <2> QED BY <1>1, <2>3, <2>4, <2>7, <2>8, <2>9, OneKeeps
<1> QED BY <1>2, <1>3

LEMMA ReadTrashKeeps == ASSUME TInv, KInv, KeepingStep, NEW p \in Procs, ReadTrash(p) PROVE KInv'
<1>1. UNCHANGED <<store, trash>> /\ At(p, "readTrash")
  BY DEF ReadTrash
<1>2. CASE End(p)
  BY <1>1, <1>2, EndKeeps DEF End
<1>3. CASE ~End(p)
  <2>1. PICK L : Midway(p, L)
    BY <1>1, MidwayIs DEF At
  <2>2. /\ proc[p] \in Jobs /\ Left(proc[p]) = {"readTrash"} \cup L /\ "readTrash" \notin L
        /\ Cmd(p) \in Movers => "writeTrash" \in L /\ "writeStore" \in L
        /\ Cmd(p) # "init" /\ L # {}
    BY <1>1, <2>1 DEF Midway, At, AfterStep, Movers, Writers
  <2>3. PICK job : job = proc'[p]
    OBVIOUS
  <2>4. Keeps(proc[p], trash) /\ Cmd(p) # "purge"
    BY <1>1 DEF KInv, Keeps, Keeping, At, Cmd
  <2>5. /\ \A q \in Procs \ {p} : proc'[q] = proc[q]
        /\ job.req = proc[p].req /\ job.todo = Tail(proc[p].todo) /\ job.time = proc[p].time
        /\ job.data = proc[p].data /\ job.trash = Prune(trash)
        /\ job.sawTrash = TRUE /\ job.sawStore = proc[p].sawStore
    <3>1. PICK copies : proc' = [proc EXCEPT ![p].trash = Prune(trash), ![p].sawTrash = TRUE, ![p].undone = copies,
                                             ![p].todo = Tail(@)]
      <4>1. ~(Cmd(p) = "purge" /\ ~hasTrash)
        BY <2>4
      <4> QED BY <1>3, <4>1, Zenon DEF ReadTrash
    <3>2. proc \in [Procs -> Jobs]
      BY DEF TInv
    <3> QED BY <2>3, <3>1, <3>2 DEF Jobs
  <2>6. Left(job) = L /\ job.todo # <<>>
    BY <2>1, <2>2, <2>5, OfNothing DEF Left, Midway
  <2>7. Keeps(job, trash)
    <3>1. job.req.cmd = Cmd(p) /\ job.req.cmd \in Keeping
      BY <2>3, <2>5, <2>6 DEF KeepingStep, Cmd
    <3>2. Prune(job.trash) = Prune(trash)
      BY <2>5 DEF Prune
    <3>3. ~(Moving(job) /\ "writeTrash" \notin Left(job))
      BY <2>2, <2>6, <3>1 DEF Moving
    <3> QED BY <2>2, <2>6, <3>1, <3>2, <3>3 DEF Keeps
  <2>8. \A q \in Procs : Later(job, proc[q])
    BY <1>1, <2>1, <2>5, <2>6, GoesOn DEF At
  <2>9. ~Undone(job)
    BY <2>2, <2>5, <2>6 DEF Undone, Cmd, Movers
  <2> QED BY <1>1, <2>3, <2>5, <2>7, <2>8, <2>9, OneKeeps
<1> QED BY <1>2, <1>3

LEMMA RereadTrashKeeps == ASSUME TInv, KInv, KeepingStep, NEW p \in Procs, RereadTrash(p) PROVE KInv'
<1>1. UNCHANGED <<store, trash>> /\ At(p, "rereadTrash")
  BY DEF RereadTrash
<1>2. PICK L : Midway(p, L)
  BY <1>1, MidwayIs DEF At
<1>3. /\ proc[p] \in Jobs /\ Left(proc[p]) = {"rereadTrash"} \cup L /\ Cmd(p) = "undo" /\ L # {}
      /\ "writeTrash" \notin L
  BY <1>1, <1>2 DEF Midway, At, AfterStep
<1>4. PICK job : job = proc'[p]
  OBVIOUS
<1>5. /\ \A q \in Procs \ {p} : proc'[q] = proc[q]
      /\ job.req = proc[p].req /\ job.todo = Tail(proc[p].todo) /\ job.time = proc[p].time
      /\ job.data = proc[p].data /\ job.trash = trash /\ job.undone = proc[p].undone
      /\ job.sawTrash = TRUE /\ job.sawStore = proc[p].sawStore
  <2>1. proc' = [proc EXCEPT ![p].trash = trash, ![p].sawTrash = TRUE, ![p].todo = Tail(@)]
    BY DEF RereadTrash
  <2>2. proc \in [Procs -> Jobs]
    BY DEF TInv
  <2> QED BY <1>4, <2>1, <2>2 DEF Jobs
<1>6. Left(job) = L /\ job.todo # <<>> /\ Left(job) \subseteq Left(proc[p])
  BY <1>2, <1>3, <1>5, OfNothing DEF Left, Midway
<1>7. /\ \A q \in Procs : Later(job, proc[q])
      /\ Moving(job) <=> Moving(proc[p])
      /\ Moved(job) = Moved(proc[p])
      /\ Undone(job) <=> Undone(proc[p])
  BY <1>1, <1>2, <1>5, <1>6, GoesOn DEF At
<1>8. Keeps(job, trash)
  <2>1. Keeps(proc[p], trash) /\ "writeTrash" \notin Left(proc[p])
    BY <1>3 DEF KInv
  <2>2. job.req.cmd = "undo" /\ job.req.cmd \in Keeping
    BY <1>3, <1>4, <1>5, <1>6 DEF KeepingStep, Cmd
  <2> QED BY <1>5, <1>6, <1>7, <2>1, <2>2 DEF Keeps
<1> QED BY <1>1, <1>4, <1>5, <1>6, <1>7, <1>8, OneKeeps

LEMMA UpdateMetaKeeps == ASSUME TInv, KInv, KeepingStep, NEW p \in Procs, UpdateMeta(p) PROVE KInv'
<1>1. UNCHANGED <<store, trash>>
  BY DEF UpdateMeta
<1>2. CASE End(p)
  BY <1>1, <1>2, EndKeeps DEF End
<1>3. CASE ~End(p)
  <2>1. PICK r : r.cmd = "verify" /\ proc' = [proc EXCEPT ![p] = [Idle EXCEPT !.req = r, !.todo = Plan["verify"]]]
    <3>1. Request("verify", {Field(p)}, None, None, "none").cmd = "verify"
      BY DEF Request
    <3> QED BY <1>3, <3>1 DEF UpdateMeta
  <2>2. proc'[p].req = r /\ proc'[p].todo = Plan["verify"]
    BY <2>1 DEF TInv, Idle
  <2>3. Plan["verify"] # <<>> /\ "verify" \notin Keeping
    BY PlanBegins DEF Known, Keeping
  <2> QED BY <2>1, <2>2, <2>3 DEF KeepingStep
<1> QED BY <1>2, <1>3

(* The young entries of the trash are still there. *)
YoungStay(before, after) == \A e \in before : ~e.old => e \in after

(* A command whose place is the same, after a write of the trash. *)
LEMMA StaysKept ==
  ASSUME NEW a, NEW b, Same(a, b), a.sawStore = b.sawStore, NEW before, NEW after, NEW map,
         YoungStay(before, after), Keeps(a, before), Spare(a, map, before), ~b.sawTrash
  PROVE  Keeps(b, after) /\ Spare(b, map, after)
<1>1. /\ Left(a) = Left(b) /\ Moved(a) = Moved(b) /\ (Undone(a) <=> Undone(b)) /\ a.undone = b.undone
      /\ (Moving(a) <=> Moving(b))
  BY SameKnows
<1>2. /\ \A f, v, t : YoungAt(before, f, v, t) => YoungAt(after, f, v, t)
      /\ \A f, v, t : YoungAfter(before, f, v, t) => YoungAfter(after, f, v, t)
  BY DEF YoungStay, YoungAt, YoungAfter
<1>3. Keeps(b, after)
  BY <1>1, <1>2 DEF Keeps, Same
<1>4. Spare(b, map, after)
  BY <1>1, <1>2 DEF Spare
<1> QED BY <1>3, <1>4

LEMMA WriteTrashKeeps == ASSUME TInv, KInv, KeepingStep, NEW p \in Procs, WriteTrash(p) PROVE KInv'
<1>1. UNCHANGED store /\ At(p, "writeTrash")
  BY DEF WriteTrash
<1>2. CASE End(p) /\ UNCHANGED trash
  BY <1>1, <1>2, EndKeeps DEF End
<1>3. CASE proc[p].sawTrash
  <2>1. PICK L : Midway(p, L)
    BY <1>1, MidwayIs DEF At
  <2>2. /\ proc[p] \in Jobs /\ Left(proc[p]) = {"writeTrash"} \cup L /\ "writeTrash" \notin L
        /\ Cmd(p) \in Movers => L # {} /\ "readMeta" \notin L
        /\ Tail(proc[p].todo) \in Seq(Steps)
        /\ Cmd(p) \in Movers \cup {"purge", "restore", "list", "empty"}
    BY <1>1, <2>1 DEF Midway, At, AfterStep, Movers
  <2>3. /\ Keeps(proc[p], trash) /\ Spare(proc[p], store, trash)
        /\ Cmd(p) \in Movers \cup {"list"}
    BY <1>1, <2>2 DEF KInv, Keeps, Keeping, At, Cmd
  <2>4. PICK next : next = [proc EXCEPT ![p].todo = Tail(@)]
    OBVIOUS
  <2>5. /\ next \in [Procs -> Jobs] /\ \A q \in Procs \ {p} : next[q] = proc[q]
        /\ next[p].req = proc[p].req /\ next[p].todo = Tail(proc[p].todo) /\ next[p].time = proc[p].time
        /\ next[p].data = proc[p].data /\ next[p].undone = proc[p].undone
        /\ next[p].sawStore = proc[p].sawStore
    BY <2>2, <2>4 DEF TInv, Jobs
  <2>6. proc' = StaleTrash(next) /\ trash' = NewTrash(p)
    BY <1>3, <2>4 DEF WriteTrash
  <2>7. \A q \in Procs : Same(next[q], proc'[q]) /\ ~proc'[q].sawTrash /\ proc'[q].sawStore = next[q].sawStore
    BY <2>5, <2>6, StaleIs
  <2>8. YoungStay(trash, trash')
    <3>1. Prune(trash) \subseteq proc[p].trash
      BY <1>3, <2>3 DEF Keeps, Prune
    <3>2. proc[p].trash \subseteq NewTrash(p)
      BY <2>3 DEF NewTrash, Movers
    <3> QED BY <2>6, <3>1, <3>2 DEF YoungStay, Prune
  <2>9. ASSUME NEW q \in Procs \ {p}
        PROVE  /\ Keeps(proc'[q], trash') /\ Spare(proc'[q], store, trash')
    <3>1. Same(proc[q], proc'[q]) /\ ~proc'[q].sawTrash /\ proc'[q].sawStore = proc[q].sawStore
      BY <2>5, <2>7
    <3>2. Keeps(proc[q], trash) /\ Spare(proc[q], store, trash)
      BY DEF KInv
    <3> QED BY <2>8, <3>1, <3>2, StaysKept
  <2>10. PICK job : job = proc'[p]
    OBVIOUS
  <2>11. /\ job.req = proc[p].req /\ job.todo = Tail(proc[p].todo) /\ job.time = proc[p].time
         /\ job.data = proc[p].data /\ job.undone = proc[p].undone
         /\ job.sawStore = proc[p].sawStore /\ ~job.sawTrash
    BY <2>5, <2>7, <2>10 DEF Same
  <2>12. Left(job) = L
    BY <2>1, <2>11 DEF Left, Midway
  <2>13. /\ \A q \in Procs : Later(job, proc[q])
         /\ Moving(job) <=> Moving(proc[p])
         /\ Moved(job) = Moved(proc[p])
         /\ Undone(job) <=> Undone(proc[p])
    BY <1>1, <2>1, <2>11, <2>12, GoesOn DEF At
  <2>14. \A f \in Moved(job) : Cmd(p) \in Movers => YoungAt(trash', f, job.data[f], job.time)
    <3>1. ASSUME NEW f \in Moved(job), Cmd(p) \in Movers PROVE YoungAt(trash', f, job.data[f], job.time)
      <4>1. f \in (IF Cmd(p) = "import" THEN Replaced(p) ELSE Named(p))
        BY <2>13, <3>1 DEF Moved, Replaced, Cmd, Named
      <4>2. PICK rotated : [field |-> f, value |-> proc[p].data[f], meta |-> KeptMeta(proc[p].meta, f),
                            rotated |-> rotated, time |-> proc[p].time, old |-> FALSE] \in NewTrash(p)
        BY <3>1, <4>1 DEF NewTrash, Movers, Deposit
      <4> QED BY <2>6, <2>11, <4>2 DEF YoungAt
    <3> QED BY <3>1
  <2>15. Keeps(job, trash')
    <3>1. job.todo = <<>> => Cmd(p) \notin Movers
      BY <2>1, <2>2, <2>11, OfNothing DEF Midway
    <3>2. job.todo # <<>> => job.req.cmd \in Keeping
      BY <2>10 DEF KeepingStep
    <3> QED BY <2>2, <2>11, <2>12, <2>13, <2>14, <3>1, <3>2 DEF Keeps, Moving, Cmd
  <2>16. Spare(job, store, trash')
    <3>1. \A f, v, t : YoungAfter(trash, f, v, t) => YoungAfter(trash', f, v, t)
      BY <2>8 DEF YoungStay, YoungAfter
    <3>2. "dropCopy" \in Left(job) => "dropCopy" \in Left(proc[p])
      BY <2>2, <2>12
    <3> QED BY <2>3, <2>11, <2>13, <3>1, <3>2 DEF Spare
  <2>17. ASSUME NEW q \in Procs, NEW r \in Procs PROVE Later(proc'[q], proc'[r])
    <3>1. Later(proc'[q], proc[r])
      <4>1. CASE q = p
        BY <2>10, <2>13, <4>1
      <4>2. CASE q # p
        <5>1. Same(proc[q], proc'[q]) /\ proc'[q].sawStore = proc[q].sawStore
          BY <2>5, <2>7, <4>2
        <5>2. Left(proc[q]) = Left(proc'[q]) /\ Moved(proc[q]) = Moved(proc'[q]) /\ (Moving(proc[q]) <=> Moving(proc'[q]))
          BY <5>1, SameKnows
        <5>3. Later(proc[q], proc[r]) /\ proc'[q].time = proc[q].time
          BY <5>1 DEF KInv, Same
        <5> QED BY <5>2, <5>3 DEF Later
      <4> QED BY <4>1, <4>2
    <3>2. Undone(proc'[r]) => Undone(proc[r]) /\ proc'[r].undone = proc[r].undone
      <4>1. CASE r = p
        BY <2>10, <2>11, <2>13, <4>1
      <4>2. CASE r # p
        <5>1. Same(proc[r], proc'[r])
          BY <2>5, <2>7, <4>2
        <5> QED BY <5>1, SameKnows
      <4> QED BY <4>1, <4>2
    <3> QED BY <3>1, <3>2 DEF Later
  <2> QED BY <1>1, <2>9, <2>10, <2>15, <2>16, <2>17 DEF KInv
<1> QED BY <1>2, <1>3 DEF WriteTrash

(* What is left of the trash when --undo drops its copy. *)
LEMMA DroppedIs ==
  ASSUME TInv, KInv, NEW p \in Procs, At(p, "dropCopy"), proc[p].sawTrash, NEW copy \in proc[p].undone
  PROVE  /\ \A e \in trash : ~e.old => \/ e \in DropEntry(proc[p].trash, copy)
                                       \/ (e.field = copy.field /\ e.value = copy.value /\ e.time = copy.time)
         /\ Undone(proc[p]) /\ "dropCopy" \in Left(proc[p])
<1>1. PICK L : Midway(p, L)
  BY MidwayIs DEF At
<1>2. Undone(proc[p]) /\ "dropCopy" \in Left(proc[p])
  BY <1>1 DEF Midway, At, AfterStep, Undone, Cmd
<1>3. Prune(proc[p].trash) = Prune(trash)
  BY DEF KInv, Keeps
<1>4. ASSUME NEW e \in trash, ~e.old
      PROVE  e \in DropEntry(proc[p].trash, copy) \/ (e.field = copy.field /\ e.value = copy.value /\ e.time = copy.time)
  <2>1. e \in proc[p].trash
    BY <1>3, <1>4 DEF Prune
  <2> QED BY <2>1 DEF DropEntry
<1> QED BY <1>2, <1>4

LEMMA DropCopyKeeps == ASSUME TInv, KInv, KeepingStep, NEW p \in Procs, DropCopy(p) PROVE KInv'
<1>1. UNCHANGED store /\ At(p, "dropCopy")
  BY DEF DropCopy
<1>2. PICK L : Midway(p, L)
  BY <1>1, MidwayIs DEF At
<1>3. /\ proc[p] \in Jobs /\ Left(proc[p]) = {"dropCopy"} \cup L /\ Cmd(p) = "undo" /\ L # {}
      /\ "dropCopy" \notin L /\ Tail(proc[p].todo) \in Seq(Steps)
  BY <1>1, <1>2 DEF Midway, At, AfterStep
<1>4. PICK next : next = [proc EXCEPT ![p].todo = Tail(@)]
  OBVIOUS
<1>5. /\ next \in [Procs -> Jobs] /\ \A q \in Procs \ {p} : next[q] = proc[q]
      /\ next[p].req = proc[p].req /\ next[p].todo = Tail(proc[p].todo) /\ next[p].time = proc[p].time
      /\ next[p].data = proc[p].data /\ next[p].undone = proc[p].undone /\ next[p].trash = proc[p].trash
      /\ next[p].sawStore = proc[p].sawStore /\ next[p].sawTrash = proc[p].sawTrash
  BY <1>3, <1>4 DEF TInv, Jobs
<1>6. Left(next[p]) = L /\ next[p].todo # <<>>
  BY <1>2, <1>3, <1>5, OfNothing DEF Left, Midway
<1>7. /\ \A q \in Procs : Later(next[p], proc[q])
      /\ Moving(next[p]) <=> Moving(proc[p])
      /\ Moved(next[p]) = Moved(proc[p])
      /\ Undone(next[p]) <=> Undone(proc[p])
  BY <1>1, <1>2, <1>5, <1>6, GoesOn DEF At
<1>8. Keeps(proc[p], trash) /\ Cmd(p) \in Keeping
  BY <1>1 DEF KInv, Keeps, At, Cmd
<1>9. Keeps(next[p], trash)
  <2>1. \A s \in {"readMeta", "writeTrash"} : s \in Left(next[p]) <=> s \in Left(proc[p])
    BY <1>3, <1>6
  <2> QED BY <1>3, <1>5, <1>6, <1>7, <1>8, <2>1 DEF Keeps, Cmd
<1>10. CASE proc' = next /\ UNCHANGED trash
  BY <1>1, <1>3, <1>5, <1>6, <1>7, <1>9, <1>10, OneKeeps
<1>11. ASSUME proc[p].sawTrash, NEW copy \in proc[p].undone, trash' = DropEntry(proc[p].trash, copy),
              proc' = StaleTrash(next)
       PROVE  KInv'
  <2>1. /\ \A e \in trash : ~e.old => e \in trash' \/ (e.field = copy.field /\ e.value = copy.value /\ e.time = copy.time)
        /\ Undone(proc[p]) /\ "dropCopy" \in Left(proc[p])
    BY <1>1, <1>11, DroppedIs
  <2>2. \A q \in Procs : Same(next[q], proc'[q]) /\ ~proc'[q].sawTrash /\ proc'[q].sawStore = next[q].sawStore
    BY <1>5, <1>11, StaleIs
  <2>3. ASSUME NEW q \in Procs
        PROVE  /\ \A r \in Procs : Later(next[q], proc[r])
               /\ Undone(next[q]) => Undone(proc[q]) /\ next[q].undone = proc[q].undone
               /\ Undone(next[q]) /\ "dropCopy" \in Left(next[q]) => "dropCopy" \in Left(proc[q])
               /\ Keeps(next[q], trash)
    <3>1. CASE q = p
      BY <1>3, <1>5, <1>6, <1>7, <1>9, <3>1
    <3>2. CASE q # p
      BY <1>5, <3>2 DEF KInv
    <3> QED BY <3>1, <3>2
  <2>4. ASSUME NEW q \in Procs
        PROVE  /\ Left(next[q]) = Left(proc'[q]) /\ Moved(next[q]) = Moved(proc'[q])
               /\ (Undone(next[q]) <=> Undone(proc'[q])) /\ next[q].undone = proc'[q].undone
               /\ Moving(next[q]) <=> Moving(proc'[q])
    BY <2>2, SameKnows
  <2>5. ASSUME NEW q \in Procs, NEW r \in Procs PROVE Later(proc'[q], proc'[r])
    <3>1. Later(next[q], proc[r]) /\ proc'[q].time = next[q].time
      BY <2>2, <2>3 DEF Same
    <3>2. Later(proc'[q], proc[r])
      BY <2>4, <3>1 DEF Later
    <3>3. Undone(proc'[r]) => Undone(proc[r]) /\ proc'[r].undone = proc[r].undone
      BY <2>3, <2>4
    <3> QED BY <3>2, <3>3 DEF Later
  <2>6. ASSUME NEW q \in Procs PROVE Keeps(proc'[q], trash')
    <3>1. ASSUME Moving(proc'[q]), "writeTrash" \notin Left(proc'[q]), NEW f \in Moved(proc'[q])
          PROVE  /\ "readMeta" \notin Left(proc'[q])
                 /\ YoungAt(trash', f, proc'[q].data[f], proc'[q].time)
      <4>1. /\ Moving(next[q]) /\ "readMeta" \notin Left(next[q]) /\ f \in Moved(next[q])
            /\ YoungAt(trash, f, next[q].data[f], next[q].time)
        BY <2>3, <2>4, <3>1 DEF Keeps
      <4>2. copy.time < next[q].time
        BY <1>11, <2>1, <2>3, <4>1 DEF Later
      <4>3. next[q].time \in Nat /\ copy.time \in Nat
        BY <1>3, <1>5, <1>11 DEF Jobs, Slips
      <4>4. PICK e \in trash : e.field = f /\ e.value = next[q].data[f] /\ e.time = next[q].time /\ ~e.old
        BY <4>1 DEF YoungAt
      <4>5. e \in trash'
        BY <2>1, <4>2, <4>3, <4>4
      <4>6. proc'[q].data = next[q].data /\ proc'[q].time = next[q].time
        BY <2>2 DEF Same
      <4> QED BY <2>4, <4>1, <4>4, <4>5, <4>6 DEF YoungAt
    <3>2. proc'[q].req = next[q].req /\ proc'[q].todo = next[q].todo /\ ~proc'[q].sawTrash
      BY <2>2 DEF Same
    <3>3. Moving(proc'[q]) /\ "writeTrash" \notin Left(proc'[q]) => "readMeta" \notin Left(proc'[q])
      BY <2>3, <2>4 DEF Keeps
    <3> QED BY <2>3, <3>1, <3>2, <3>3 DEF Keeps
  <2>7. ASSUME NEW q \in Procs PROVE Spare(proc'[q], store, trash')
    <3>1. ASSUME Undone(proc'[q]), "dropCopy" \in Left(proc'[q]), NEW e \in proc'[q].undone
          PROVE  Holds(store, e.field, e.value) \/ YoungAfter(trash', e.field, e.value, e.time)
      <4>1. Undone(proc[q]) /\ "dropCopy" \in Left(proc[q]) /\ e \in proc[q].undone
        BY <2>3, <2>4, <3>1
      <4>2. Holds(store, e.field, e.value) \/ YoungAfter(trash, e.field, e.value, e.time)
        BY <4>1 DEF KInv, Spare
      <4>3. Holds(store, copy.field, copy.value) \/ YoungAfter(trash, copy.field, copy.value, copy.time)
        BY <1>11, <2>1 DEF KInv, Spare
      <4>4. ASSUME NEW x \in trash, x.field = e.field, x.value = e.value, x.time > e.time, ~x.old, x \notin trash'
            PROVE  Holds(store, e.field, e.value) \/ YoungAfter(trash', e.field, e.value, e.time)
        <5>1. x.field = copy.field /\ x.value = copy.value /\ x.time = copy.time
          BY <2>1, <4>4
        <5>2. ASSUME NEW y \in trash, y.field = copy.field, y.value = copy.value, y.time > copy.time, ~y.old
              PROVE  YoungAfter(trash', e.field, e.value, e.time)
          <6>1. y.time \in Nat /\ copy.time \in Nat /\ e.time \in Nat
            <7>1. proc[q] \in Jobs /\ trash \in SUBSET Slips
              BY DEF TInv, FilesOK
            <7> QED BY <1>3, <1>11, <4>1, <7>1 DEF Jobs, Slips
          <6>2. y \in trash'
            BY <2>1, <5>2, <6>1
          <6>3. y.time > e.time
            BY <4>4, <5>1, <5>2, <6>1
          <6> QED BY <4>4, <5>1, <5>2, <6>2, <6>3 DEF YoungAfter
        <5> QED BY <4>3, <4>4, <5>1, <5>2 DEF YoungAfter
      <4> QED BY <4>2, <4>4 DEF YoungAfter
    <3> QED BY <3>1 DEF Spare
  <2> QED BY <1>1, <2>5, <2>6, <2>7 DEF KInv
<1> QED BY <1>4, <1>10, <1>11 DEF DropCopy

(* What a command takes out of the store is among what it has moved to the trash. *)
LEMMA ReplacedIsMoved ==
  ASSUME TInv, KInv, IInv, NEW p \in Procs, WriteStore(p), proc[p].sawStore,
         NEW f \in DOMAIN store, ~Holds(NewStore(p), f, store[f])
  PROVE  /\ Moving(proc[p]) /\ "readMeta" \notin Left(proc[p]) /\ f \in Moved(proc[p])
         /\ YoungAt(trash, f, store[f], proc[p].time)
<1>1. At(p, "writeStore")
  BY DEF WriteStore
<1>2. PICK L : Midway(p, L)
  BY <1>1, MidwayIs DEF At
<1>3. proc[p].data = store /\ Cmd(p) \in Writers /\ (Cmd(p) = "init" => proc[p].data = Nothing)
  BY WriterAtWork DEF IInv, SnapshotsCurrent
<1>4. Cmd(p) \in Movers
  <2>1. Keeps(proc[p], trash) /\ proc[p].todo # <<>>
    BY <1>1 DEF KInv, At
  <2>2. Cmd(p) # "init"
    BY <1>3, NothingIs
  <2> QED BY <1>3, <2>1, <2>2 DEF Keeps, Keeping, Writers, Movers, Cmd
<1>5. "writeTrash" \notin Left(proc[p])
  BY <1>1, <1>2, <1>4 DEF Midway, At, AfterStep
<1>6. f \in Moved(proc[p])
  <2>1. CASE Cmd(p) = "import"
    <3>1. NewStore(p) = Put(store, Named(p), proc[p].req.value)
      BY <1>3, <2>1 DEF NewStore
    <3>2. f \in Named(p) /\ store[f] # proc[p].req.value
      BY <3>1 DEF Put, Holds
    <3> QED BY <1>3, <2>1, <3>2 DEF Moved, Cmd, Named
  <2>2. CASE Cmd(p) # "import"
    <3>1. \/ NewStore(p) = Without(store, Named(p))
          \/ \E v : NewStore(p) = Put(store, Named(p), v)
      BY <1>3, <1>4, <2>2 DEF NewStore, Movers
    <3>2. f \in Named(p)
      BY <3>1 DEF Put, Without, Restrict, Holds
    <3> QED BY <2>2, <3>2 DEF Moved, Cmd, Named
  <2> QED BY <2>1, <2>2
<1>7. Moving(proc[p])
  BY <1>4 DEF Moving, Cmd
<1>8. "readMeta" \notin Left(proc[p]) /\ YoungAt(trash, f, proc[p].data[f], proc[p].time)
  BY <1>5, <1>6, <1>7 DEF KInv, Keeps
<1> QED BY <1>3, <1>6, <1>7, <1>8

LEMMA WriteStoreKeeps == ASSUME TInv, KInv, IInv, KeepingStep, NEW p \in Procs, WriteStore(p) PROVE KInv'
<1>1. UNCHANGED trash /\ At(p, "writeStore")
  BY DEF WriteStore
<1>2. CASE End(p) /\ UNCHANGED store
  BY <1>1, <1>2, EndKeeps DEF End
<1>3. CASE proc[p].sawStore
  <2>1. PICK L : Midway(p, L)
    BY <1>1, MidwayIs DEF At
  <2>2. /\ proc[p] \in Jobs /\ Left(proc[p]) = {"writeStore"} \cup L
        /\ Cmd(p) # "init" => L # {}
        /\ Tail(proc[p].todo) \in Seq(Steps)
        /\ Cmd(p) = "undo" => "readTrash" \notin L
    BY <1>1, <2>1 DEF Midway, At, AfterStep, Movers
  <2>3. Keeps(proc[p], trash) /\ Cmd(p) \in Keeping
    BY <1>1 DEF KInv, Keeps, At, Cmd
  <2>4. PICK next : next = [proc EXCEPT ![p].todo = Tail(@)]
    OBVIOUS
  <2>5. /\ next \in [Procs -> Jobs] /\ \A q \in Procs \ {p} : next[q] = proc[q]
        /\ next[p].req = proc[p].req /\ next[p].todo = Tail(proc[p].todo) /\ next[p].trash = proc[p].trash
        /\ next[p].undone = proc[p].undone /\ next[p].sawTrash = proc[p].sawTrash
    BY <2>2, <2>4 DEF TInv, Jobs
  <2>6. proc' = StaleStore(next) /\ store' = NewStore(p)
    <3>1. Cmd(p) # "set"
      BY <2>3 DEF Keeping
    <3> QED BY <1>3, <2>4, <3>1 DEF WriteStore, Cmd
  <2>7. \A q \in Procs : Same(next[q], proc'[q]) /\ ~proc'[q].sawStore /\ proc'[q].sawTrash = next[q].sawTrash
    BY <2>5, <2>6, StaleIs
  <2>8. \A q \in Procs : ~Moving(proc'[q])
    BY <2>7 DEF Moving
  <2>9. ASSUME NEW q \in Procs PROVE Keeps(proc'[q], trash)
    <3>1. CASE q = p
      <4>1. proc'[p].req = proc[p].req /\ proc'[p].todo = Tail(proc[p].todo) /\ proc'[p].trash = proc[p].trash
            /\ proc'[p].sawTrash = proc[p].sawTrash
        BY <2>5, <2>7 DEF Same
      <4>2. proc'[p].todo = <<>> => Cmd(p) = "init"
        BY <2>1, <2>2, <4>1, OfNothing DEF Midway
      <4>3. proc'[p].todo # <<>> => proc'[p].req.cmd \in Keeping
        BY DEF KeepingStep
      <4> QED BY <2>3, <2>8, <3>1, <4>1, <4>2, <4>3 DEF Keeps, Movers, Cmd
    <3>2. CASE q # p
      <4>1. Same(proc[q], proc'[q]) /\ proc'[q].sawTrash = proc[q].sawTrash
        BY <2>5, <2>7, <3>2
      <4>2. Keeps(proc[q], trash)
        BY DEF KInv
      <4> QED BY <2>8, <4>1, <4>2 DEF Keeps, Same
    <3> QED BY <3>1, <3>2
  <2>10. ASSUME NEW q \in Procs, Undone(proc'[q]), "dropCopy" \in Left(proc'[q]), NEW e \in proc'[q].undone
         PROVE  Holds(store', e.field, e.value) \/ YoungAfter(trash, e.field, e.value, e.time)
    <3>1. CASE q = p
      <4>1. Cmd(p) = "undo" /\ e \in proc[p].undone
        BY <2>5, <2>7, <2>10, <3>1 DEF Undone, Same, Cmd
      <4>2. JobOK(proc[p], clock) /\ "readTrash" \notin Left(proc[p])
        BY <2>2, <4>1 DEF TInv
      <4>3. proc[p].undone = {e} /\ Named(p) = {e.field}
        BY <4>1, <4>2 DEF JobOK, Informed, Cmd, Named
      <4>4. (CHOOSE x \in proc[p].undone : TRUE) = e
        BY <4>3
      <4>5. NewStore(p) = Put(proc[p].data, Named(p), e.value)
        BY <4>1, <4>4 DEF NewStore
      <4> QED BY <2>6, <4>3, <4>5 DEF Put, Holds
    <3>2. CASE q # p
      <4>1. Same(proc[q], proc'[q])
        BY <2>5, <2>7, <3>2
      <4>2. Undone(proc[q]) /\ "dropCopy" \in Left(proc[q]) /\ e \in proc[q].undone
        BY <2>10, <4>1, SameKnows
      <4>3. Holds(store, e.field, e.value) \/ YoungAfter(trash, e.field, e.value, e.time)
        BY <4>2 DEF KInv, Spare
      <4>4. CASE Holds(store, e.field, e.value) /\ ~Holds(store', e.field, e.value)
        <5>1. e.field \in DOMAIN store /\ store[e.field] = e.value /\ ~Holds(NewStore(p), e.field, store[e.field])
          BY <2>6, <4>4 DEF Holds
        <5>2. /\ Moving(proc[p]) /\ "readMeta" \notin Left(proc[p]) /\ e.field \in Moved(proc[p])
              /\ YoungAt(trash, e.field, e.value, proc[p].time)
          BY <1>3, <5>1, ReplacedIsMoved
        <5>3. e.time < proc[p].time
          BY <4>2, <5>2 DEF KInv, Later
        <5>4. proc[p].time \in Nat /\ e.time \in Nat
          <6>1. proc[q] \in Jobs
            BY DEF TInv
          <6> QED BY <2>2, <4>2, <6>1 DEF Jobs, Slips
        <5> QED BY <5>2, <5>3, <5>4 DEF YoungAt, YoungAfter
      <4> QED BY <4>3, <4>4
    <3> QED BY <3>1, <3>2
  <2>11. \A q \in Procs : Spare(proc'[q], store', trash)
    BY <2>10 DEF Spare
  <2>12. \A q, r \in Procs : Later(proc'[q], proc'[r])
    BY <2>8 DEF Later
  <2> QED BY <1>1, <2>9, <2>11, <2>12 DEF KInv
<1> QED BY <1>2, <1>3 DEF WriteStore

(* A week that passes finds no command in flight. *)
LEMMA WeekKeeps == ASSUME TInv, KInv, WeekPasses PROVE KInv'
<1>1. UNCHANGED <<store, proc>> /\ \A p \in Procs : proc[p].todo = <<>>
  BY DEF WeekPasses
<1>2. ASSUME NEW p \in Procs
      PROVE  Keeps(proc[p], trash') /\ Spare(proc[p], store, trash') /\ \A q \in Procs : Later(proc[p], proc[q])
  <2>1. Keeps(proc[p], trash) /\ \A q \in Procs : Later(proc[p], proc[q])
    BY DEF KInv
  <2>2. ~Moving(proc[p]) /\ ~Undone(proc[p]) /\ ~proc[p].sawTrash
    BY <1>1, <2>1 DEF Keeps, Moving, Undone, Movers
  <2>3. Keeps(proc[p], trash')
    BY <1>1, <2>1, <2>2 DEF Keeps
  <2>4. Spare(proc[p], store, trash')
    BY <2>2 DEF Spare
  <2> QED BY <2>1, <2>3, <2>4
<1> QED BY <1>1, <1>2 DEF KInv

LEMMA KeepingKeeps == ASSUME TInv, KInv, IInv, KeepingStep PROVE KInv'
<1>1. ASSUME NEW p \in Procs, Begin(p) \/ ReadStore(p) \/ ReadMeta(p) \/ ReadTrash(p) PROVE KInv'
  BY <1>1, BeginKeeps, ReadStoreKeeps, ReadMetaKeeps, ReadTrashKeeps
<1>2. ASSUME NEW p \in Procs, RereadTrash(p) \/ WriteTrash(p) \/ DropCopy(p) PROVE KInv'
  BY <1>2, RereadTrashKeeps, WriteTrashKeeps, DropCopyKeeps
<1>3. ASSUME NEW p \in Procs, WriteStore(p) \/ UpdateMeta(p) PROVE KInv'
  BY <1>3, WriteStoreKeeps, UpdateMetaKeeps
<1>4. ASSUME NEW p \in Procs, Stop(p) PROVE KInv'
  BY <1>4, EndKeeps DEF Stop, End
<1> QED BY <1>1, <1>2, <1>3, <1>4, WeekKeeps DEF KeepingStep, Next

(* The promise itself, from the invariant. *)
LEMMA KeepingPromise ==
  ASSUME TInv, KInv, IInv, KeepingStep
  PROVE  KeepsReplacedValue /\ KeepsTrashForAWeek
<1>1. KeepsReplacedValue
  <2>1. ASSUME NEW f \in DOMAIN store, ValueOf(store', f) # store[f] PROVE Young(trash', f, store[f])
    <3>1. PICK p \in Procs : WriteStore(p) /\ proc[p].sawStore /\ store' = NewStore(p)
      <4>1. store' # store
        BY <2>1 DEF ValueOf
      <4> QED BY <4>1, StoreChanges DEF KeepingStep
    <3>2. ~Holds(NewStore(p), f, store[f])
      BY <2>1, <3>1 DEF Holds, ValueOf
    <3>3. YoungAt(trash, f, store[f], proc[p].time) /\ trash' = trash
      BY <3>1, <3>2, ReplacedIsMoved DEF WriteStore
    <3> QED BY <3>3 DEF YoungAt, Young
  <2> QED BY <2>1 DEF KeepsReplacedValue
<1>2. KeepsTrashForAWeek
  <2>1. ASSUME NEW e \in trash, ~e.old, weeks' = weeks
        PROVE  Young(trash', e.field, e.value) \/ ValueOf(store, e.field) = e.value
    <3>1. CASE trash' = trash
      BY <2>1, <3>1 DEF Young
    <3>2. ASSUME NEW p \in Procs, WriteTrash(p), proc[p].sawTrash, trash' = NewTrash(p)
          PROVE  Young(trash', e.field, e.value)
      <4>1. e \in proc[p].trash
        BY <2>1, <3>2 DEF KInv, Keeps, Prune
      <4>2. proc[p].trash \subseteq NewTrash(p)
        <5>1. PICK L : Midway(p, L)
          BY <3>2, MidwayIs DEF WriteTrash, At
        <5>2. Cmd(p) \in Keeping /\ Cmd(p) # "init"
          BY <3>2, <5>1 DEF KInv, Keeps, WriteTrash, At, Cmd, Midway, AfterStep
        <5> QED BY <5>2 DEF NewTrash, Keeping
      <4> QED BY <2>1, <3>2, <4>1, <4>2 DEF Young
    <3>3. ASSUME NEW p \in Procs, At(p, "dropCopy"), proc[p].sawTrash, NEW copy \in proc[p].undone,
                 trash' = DropEntry(proc[p].trash, copy)
          PROVE  Young(trash', e.field, e.value) \/ ValueOf(store, e.field) = e.value
      <4>1. /\ \A x \in trash : ~x.old => x \in trash' \/ (x.field = copy.field /\ x.value = copy.value /\ x.time = copy.time)
            /\ Undone(proc[p]) /\ "dropCopy" \in Left(proc[p])
        BY <3>3, DroppedIs
      <4>2. Holds(store, copy.field, copy.value) \/ YoungAfter(trash, copy.field, copy.value, copy.time)
        BY <3>3, <4>1 DEF KInv, Spare
      <4>3. CASE e \in trash'
        BY <2>1, <4>3 DEF Young
      <4>4. CASE e \notin trash' /\ Holds(store, copy.field, copy.value)
        BY <2>1, <4>1, <4>4 DEF Holds, ValueOf
      <4>5. ASSUME e \notin trash',
                   NEW y \in trash, y.field = copy.field, y.value = copy.value, y.time > copy.time, ~y.old
            PROVE  Young(trash', e.field, e.value)
        <5>1. y.time \in Nat /\ copy.time \in Nat
          <6>1. proc[p] \in Jobs /\ trash \in SUBSET Slips
            BY DEF TInv, FilesOK
          <6> QED BY <3>3, <6>1 DEF Jobs, Slips
        <5>2. y \in trash'
          BY <4>1, <4>5, <5>1
        <5> QED BY <2>1, <4>1, <4>5, <5>2 DEF Young
      <4> QED BY <4>2, <4>3, <4>4, <4>5 DEF YoungAfter
    <3>4. CASE WeekPasses
      BY <2>1, <3>4 DEF WeekPasses, TInv
    <3>5. ASSUME NEW p \in Procs, trash' # trash, WriteTrash(p) \/ DropCopy(p)
          PROVE  Young(trash', e.field, e.value) \/ ValueOf(store, e.field) = e.value
      BY <3>2, <3>3, <3>5 DEF WriteTrash, DropCopy
    <3>6. trash' # trash => WeekPasses \/ \E p \in Procs : WriteTrash(p) \/ DropCopy(p)
      <4>1. ASSUME NEW p \in Procs, Begin(p) \/ Stop(p) \/ ReadStore(p) PROVE trash' = trash
        BY <4>1 DEF Begin, Stop, ReadStore
      <4>2. ASSUME NEW p \in Procs, ReadMeta(p) PROVE trash' = trash
        BY <4>2 DEF ReadMeta
      <4>3. ASSUME NEW p \in Procs, ReadTrash(p) \/ RereadTrash(p) PROVE trash' = trash
        BY <4>3 DEF ReadTrash, RereadTrash
      <4>4. ASSUME NEW p \in Procs, WriteStore(p) \/ UpdateMeta(p) PROVE trash' = trash
        BY <4>4 DEF WriteStore, UpdateMeta
      <4> QED BY <4>1, <4>2, <4>3, <4>4, Zenon DEF KeepingStep, Next
    <3> QED BY <3>1, <3>4, <3>5, <3>6
  <2> QED BY <2>1 DEF KeepsTrashForAWeek
<1> QED BY <1>1, <1>2

-----------------------------------------------------------------------------
(* One command at a time *)

(* A purge that has been through the trash has left none of its fields there. *)
Purged(job, entries) ==
  job.req.cmd = "purge" /\ job.todo # <<>> /\ "writeTrash" \notin Left(job) =>
    \A e \in entries : e.field \notin job.req.fields

SInv ==
  /\ \A p, q \in Procs : proc[p].todo # <<>> /\ proc[q].todo # <<>> => p = q
  /\ \A p \in Procs : Purged(proc[p], trash)

(* A step of the command p, not a set, while no other is in flight. *)
SoleStep(p) ==
  /\ RunsOn(p) /\ \A q \in Procs \ {p} : proc[q].todo = <<>>
  /\ proc'[p].todo # <<>> => proc'[p].req.cmd # "set"

(* A command goes on alone. *)
LEMMA OneAlone ==
  ASSUME NEW p \in Procs, \A q \in Procs \ {p} : proc'[q].todo = <<>>, Purged(proc'[p], trash')
  PROVE  SInv'
<1>1. \A q, r \in Procs : proc'[q].todo # <<>> /\ proc'[r].todo # <<>> => q = r
  OBVIOUS
<1>2. \A q \in Procs : Purged(proc'[q], trash')
  BY DEF Purged
<1> QED BY <1>1, <1>2 DEF SInv

LEMMA SoleStepPurges == ASSUME TInv, SInv, NEW p \in Procs, RunsOn(p) PROVE Purged(proc'[p], trash')
<1>1. CASE proc' = [proc EXCEPT ![p] = Idle]
  <2>1. proc'[p] = Idle /\ Idle.req.cmd = "none"
    BY <1>1 DEF TInv, Idle, Request
  <2> QED BY <2>1 DEF Purged
<1>2. CASE Begin(p)
  <2>1. PICK r \in Requests :
          proc' = [proc EXCEPT ![p] = [Idle EXCEPT !.req = r, !.todo = Plan[r.cmd], !.sawStore = r.cmd = "init"]]
    BY <1>2 DEF Begin
  <2>2. proc'[p].req = r /\ proc'[p].todo = Plan[r.cmd]
    BY <2>1 DEF TInv, Idle
  <2> QED BY <2>2, PlansInclude DEF Purged, Left
<1>3. ASSUME proc[p].todo # <<>>, ~Begin(p), proc' # [proc EXCEPT ![p] = Idle] PROVE Purged(proc'[p], trash')
  <2>1. PICK L : Midway(p, L)
    BY <1>3, MidwayIs
  <2>2. /\ proc[p] \in Jobs /\ Left(proc[p]) = {Head(proc[p].todo)} \cup L
        /\ L = Of(Tail(proc[p].todo)) /\ Tail(proc[p].todo) \in Seq(Steps)
        /\ AfterStep(Cmd(p), Head(proc[p].todo), L)
        /\ proc \in [Procs -> Jobs]
    BY <2>1 DEF Midway, TInv
  <2>3. CASE ReadStore(p)
    <3>1. proc' = [proc EXCEPT ![p].data = store, ![p].sawStore = TRUE, ![p].todo = Tail(@),
                               ![p].req.fields = IF Cmd(p) \in {"rm", "purge", "use"}
                                                 THEN @ \cap DOMAIN store ELSE @]
      BY <1>3, <2>3 DEF ReadStore, End
    <3>2. proc'[p].req.cmd = Cmd(p) /\ proc'[p].todo = Tail(proc[p].todo)
      BY <2>2, <3>1 DEF Jobs, Reqs, Cmd
    <3> QED BY <2>2, <2>3, <3>2 DEF ReadStore, At, AfterStep, Purged, Left
  <2>4. CASE ReadMeta(p)
    <3>1. PICK now, todo : /\ proc' = [proc EXCEPT ![p].meta = meta, ![p].time = now, ![p].todo = todo]
                           /\ Cmd(p) # "import" => todo = Tail(proc[p].todo)
      BY <1>3, <2>4, Zenon DEF ReadMeta, End
    <3>2. proc'[p].req.cmd = Cmd(p) /\ proc'[p].todo = todo
      BY <2>2, <3>1 DEF Jobs, Cmd
    <3> QED BY <2>2, <2>4, <3>1, <3>2 DEF ReadMeta, At, AfterStep, Purged, Left
  <2>5. CASE ReadTrash(p)
    <3>1. PICK copies, todo : /\ proc' = [proc EXCEPT ![p].trash = Prune(trash), ![p].sawTrash = TRUE,
                                                      ![p].undone = copies, ![p].todo = todo]
                              /\ hasTrash => todo = Tail(proc[p].todo)
      BY <1>3, <2>5, Zenon DEF ReadTrash, End
    <3>2. proc'[p].req.cmd = Cmd(p) /\ proc'[p].todo = todo /\ trash' = trash
      BY <2>2, <2>5, <3>1 DEF Jobs, Cmd, ReadTrash
    <3>3. hasTrash => Purged(proc'[p], trash')
      BY <2>2, <2>5, <3>1, <3>2 DEF ReadTrash, At, AfterStep, Purged, Left
    <3>4. ~hasTrash => Purged(proc'[p], trash')
      BY <3>2 DEF TInv, FilesOK, Purged
    <3> QED BY <3>3, <3>4
  <2>6. CASE RereadTrash(p) \/ DropCopy(p)
    <3>1. PICK next : next = [proc EXCEPT ![p].todo = Tail(@)]
      OBVIOUS
    <3>2. next \in [Procs -> Jobs] /\ next[p].req = proc[p].req
      BY <2>2, <3>1 DEF Jobs
    <3>3. proc'[p].req = proc[p].req
      <4>1. CASE RereadTrash(p)
        BY <2>2, <4>1 DEF RereadTrash, Jobs
      <4>2. CASE DropCopy(p)
        <5>1. proc' = next \/ proc' = StaleTrash(next)
          BY <3>1, <4>2 DEF DropCopy
        <5> QED BY <3>2, <5>1, StaleIs DEF Same
      <4> QED BY <2>6, <4>1, <4>2
    <3>4. Cmd(p) = "undo"
      BY <2>2, <2>6 DEF RereadTrash, DropCopy, At, AfterStep
    <3> QED BY <3>3, <3>4 DEF Purged, Cmd
  <2>7. CASE WriteTrash(p)
    <3>1. PICK next : next = [proc EXCEPT ![p].todo = Tail(@)]
      OBVIOUS
    <3>2. next \in [Procs -> Jobs] /\ next[p].req = proc[p].req
      BY <2>2, <3>1 DEF Jobs
    <3>3. proc' = StaleTrash(next) /\ trash' = NewTrash(p)
      BY <1>3, <2>7, <3>1 DEF WriteTrash, End
    <3>4. proc'[p].req = proc[p].req
      BY <3>2, <3>3, StaleIs DEF Same
    <3>5. Cmd(p) = "purge" => \A e \in trash' : e.field \notin Named(p)
      BY <3>3 DEF NewTrash, DropKeys
    <3> QED BY <3>4, <3>5 DEF Purged, Cmd, Named
  <2>8. CASE WriteStore(p)
    <3>1. PICK next : /\ next = [proc EXCEPT ![p].todo = Tail(@)] \/ next = [proc EXCEPT ![p] = Idle]
                      /\ proc' = StaleStore(next)
      BY <1>3, <2>8 DEF WriteStore, End
    <3>2. /\ next \in [Procs -> Jobs]
          /\ (next[p].req = proc[p].req /\ next[p].todo = Tail(proc[p].todo)) \/ next[p].req.cmd = "none"
      <4>1. Idle \in Jobs /\ Idle.req.cmd = "none"
        BY IdleIs DEF Idle, Request
      <4>2. CASE next = [proc EXCEPT ![p].todo = Tail(@)]
        BY <2>2, <4>2 DEF Jobs
      <4>3. CASE next = [proc EXCEPT ![p] = Idle]
        BY <2>2, <4>1, <4>3
      <4> QED BY <3>1, <4>2, <4>3
    <3>3. Same(next[p], proc'[p])
      BY <3>1, <3>2, StaleIs
    <3>4. CASE next[p].req.cmd = "none"
      BY <3>3, <3>4 DEF Purged, Same
    <3>5. CASE next[p].req = proc[p].req /\ next[p].todo = Tail(proc[p].todo)
      <4>1. proc'[p].req = proc[p].req /\ Left(proc'[p]) = L /\ trash' = trash
        BY <2>2, <2>8, <3>3, <3>5 DEF Same, Left, WriteStore
      <4>2. Head(proc[p].todo) = "writeStore"
        BY <2>8 DEF WriteStore, At
      <4> QED BY <1>3, <2>2, <4>1, <4>2 DEF SInv, Purged
    <3> QED BY <3>2, <3>4, <3>5
  <2>9. CASE UpdateMeta(p)
    <3>1. PICK r : r.cmd = "verify" /\ proc' = [proc EXCEPT ![p] = [Idle EXCEPT !.req = r, !.todo = Plan["verify"]]]
      <4>1. Request("verify", {Field(p)}, None, None, "none").cmd = "verify"
        BY DEF Request
      <4> QED BY <1>3, <2>9, <4>1 DEF UpdateMeta, End
    <3>2. proc'[p].req = r
      BY <2>2, <3>1 DEF Idle
    <3> QED BY <3>1, <3>2 DEF Purged
  <2> QED BY <1>3, <2>3, <2>4, <2>5, <2>6, <2>7, <2>8, <2>9 DEF RunsOn
<1> QED BY <1>1, <1>2, <1>3 DEF RunsOn, At, ReadStore, ReadMeta, ReadTrash, RereadTrash, WriteTrash, DropCopy,
                                WriteStore, UpdateMeta

(* The other commands keep their place. *)
LEMMA OthersStay == ASSUME TInv, NEW p \in Procs, RunsOn(p), NEW q \in Procs \ {p} PROVE proc'[q].todo = proc[q].todo
<1>1. proc \in [Procs -> Jobs]
  BY DEF TInv
<1>2. PICK next, job : /\ next = [proc EXCEPT ![p] = job]
                       /\ proc' = next \/ proc' = StaleTrash(next) \/ proc' = StaleStore(next)
  <2>1. ASSUME Begin(p) \/ ReadStore(p) \/ UpdateMeta(p) PROVE \E job : proc' = [proc EXCEPT ![p] = job]
    BY <1>1, <2>1 DEF Begin, ReadStore, UpdateMeta, End
  <2>2. ASSUME ReadMeta(p) PROVE \E job : proc' = [proc EXCEPT ![p] = job]
    <3>1. End(p) \/ \E now, todo : proc' = [proc EXCEPT ![p].meta = meta, ![p].time = now, ![p].todo = todo]
      BY <2>2, Zenon DEF ReadMeta
    <3>2. \A now, todo : [proc EXCEPT ![p].meta = meta, ![p].time = now, ![p].todo = todo]
                          = [proc EXCEPT ![p] = [proc[p] EXCEPT !.meta = meta, !.time = now, !.todo = todo]]
      BY <1>1
    <3> QED BY <3>1, <3>2, Zenon DEF End
  <2>3. ASSUME ReadTrash(p) \/ RereadTrash(p) PROVE \E job : proc' = [proc EXCEPT ![p] = job]
    BY <1>1, <2>3 DEF ReadTrash, RereadTrash, End
  <2>4. [proc EXCEPT ![p].todo = Tail(@)] = [proc EXCEPT ![p] = [proc[p] EXCEPT !.todo = Tail(@)]]
    BY <1>1
  <2>5. ASSUME WriteTrash(p) \/ DropCopy(p) \/ WriteStore(p)
        PROVE  \E job : \/ proc' = [proc EXCEPT ![p] = job] \/ proc' = StaleTrash([proc EXCEPT ![p] = job])
                        \/ proc' = StaleStore([proc EXCEPT ![p] = job])
    BY <2>4, <2>5, Zenon DEF WriteTrash, DropCopy, WriteStore, End
  <2> QED BY <2>1, <2>2, <2>3, <2>5 DEF RunsOn
<1>3. next[q] = proc[q]
  BY <1>1, <1>2
<1>4. StaleTrash(next)[q].todo = next[q].todo /\ StaleStore(next)[q].todo = next[q].todo
  <2>1. proc[q] \in Jobs
    BY <1>1
  <2> QED BY <1>3, <2>1 DEF StaleTrash, StaleStore, Jobs
<1> QED BY <1>2, <1>3, <1>4

LEMMA SoleStepKeeps == ASSUME TInv, SInv, NEW p \in Procs, SoleStep(p) PROVE SInv'
<1>1. Purged(proc'[p], trash')
  BY SoleStepPurges DEF SoleStep
<1>2. \A q \in Procs \ {p} : proc'[q].todo = <<>>
  BY OthersStay DEF SoleStep
<1> QED BY <1>1, <1>2, OneAlone

LEMMA WeekAlone == ASSUME SInv, WeekPasses PROVE SInv'
<1>1. proc' = proc /\ \A p \in Procs : proc[p].todo = <<>>
  BY DEF WeekPasses
<1> QED BY <1>1 DEF SInv, Purged

(* A purge is for good when it is alone. *)
LEMMA PurgingPromise ==
  ASSUME TInv, SInv, IInv, Next
  PROVE  PurgesForGood
<1> SUFFICES ASSUME NEW p \in Procs, NEW f \in Fields, At(p, "writeStore"), Cmd(p) = "purge",
                    f \in DOMAIN store \ DOMAIN store'
             PROVE  \A e \in trash' : e.field # f
  BY DEF PurgesForGood, Copies
<1>1. PICK q \in Procs : WriteStore(q) /\ proc[q].sawStore /\ store' = NewStore(q)
  BY StoreChanges
<1>2. q = p
  BY <1>1 DEF SInv, WriteStore, At
<1>3. proc[p].data = store /\ trash' = trash
  BY <1>1, <1>2 DEF IInv, SnapshotsCurrent, WriteStore
<1>4. f \in Named(p)
  BY <1>1, <1>2, <1>3 DEF NewStore, Without, Restrict
<1>5. PICK L : Midway(p, L)
  BY MidwayIs DEF At
<1>6. "writeTrash" \notin Left(proc[p])
  BY <1>5 DEF Midway, At, AfterStep
<1> QED BY <1>3, <1>4, <1>6 DEF SInv, Purged, At, Cmd, Named

-----------------------------------------------------------------------------
(* The files of one command at a time *)

(* The sidecar describes fields of the store, and an expiry is that of the value. *)
Fits(map, metas) == \A f \in DOMAIN metas \cap DOMAIN map : metas[f].expires \in {None, map[f]}
Agree(map, metas) == DOMAIN metas \subseteq DOMAIN map /\ Fits(map, metas)
TrashAgrees(entries) == \A e \in entries : \A m \in e.meta : m.expires \in {None, e.value}

Wrote(job) == job.req.cmd \in Writers /\ "writeStore" \notin Left(job)

(* What a command alone knows of the files it has read. *)
Looked(job, map) ==
  /\ job.req.cmd # "set"
  /\ ~Wrote(job) /\ job.req.cmd \notin {"list", "empty"} /\ "readStore" \notin Left(job) => job.sawStore
  /\ job.req.cmd = "use" /\ "readStore" \notin Left(job) => job.req.fields \subseteq DOMAIN map
  /\ job.req.cmd = "rename" /\ "readStore" \notin Left(job) => job.req.to \notin DOMAIN job.data
  /\ job.req.cmd = "restore" /\ "readStore" \notin Left(job) =>
       Picked(job.trash, job.req.fields) \cap DOMAIN job.data = {}
  /\ job.req.cmd \in Movers /\ "readMeta" \notin Left(job) => Fits(job.data, job.meta)
  /\ TrashAgrees(job.trash) /\ TrashAgrees(job.undone)

(* What --undo puts in the trash is newer than all that is there. *)
Newer(job, entries) ==
  /\ \A e \in job.undone : e.time < job.time
  /\ \A e \in entries : /\ e.time <= job.time
                        /\ e.time = job.time /\ e.field \in job.req.fields => e.value = job.data[e.field]
  /\ \E e \in entries : e.field \in job.req.fields /\ e.rotated /\ e.time = job.time

Undoes(job, entries) ==
  job.req.cmd = "undo" =>
    /\ "readMeta" \notin Left(job) /\ "writeTrash" \in Left(job) =>
         \A e \in entries \cup job.trash \cup job.undone : e.time < job.time
    /\ "writeTrash" \notin Left(job) => Newer(job, entries)
    /\ "rereadTrash" \notin Left(job) /\ "dropCopy" \in Left(job) => job.trash = entries

AInv ==
  /\ SInv /\ TrashAgrees(trash)
  /\ Quiet => Agree(store, meta)
  /\ \A p \in Procs : proc[p].todo # <<>> =>
       /\ Looked(proc[p], store) /\ Undoes(proc[p], trash)
       /\ ~Wrote(proc[p]) => Agree(store, meta)
       /\ Wrote(proc[p]) => store = NewStore(p) /\ Agree(proc[p].data, meta)

(* What the plans of a command have before it. *)
LEMMA PlansHave ==
  /\ \A c \in Known \ {"init", "list", "empty"} : "readStore" \in Of(Plan[c])
  /\ \A c \in Writers : "writeStore" \in Of(Plan[c])
  /\ "rereadTrash" \in Of(Plan["undo"])
<1>1. ASSUME NEW c \in Known \ {"init", "list", "empty"} PROVE "readStore" \in Of(Plan[c])
  <2>1. CASE c \in {"undo", "restore", "verify"}
    <3>1. /\ Plan["undo"][2] = "readStore" /\ 2 \in DOMAIN Plan["undo"]
          /\ Plan["restore"][2] = "readStore" /\ 2 \in DOMAIN Plan["restore"]
          /\ Plan["verify"][2] = "readStore" /\ 2 \in DOMAIN Plan["verify"]
      BY DEF Plan
    <3> QED BY <2>1, <3>1 DEF Of
  <2>2. CASE c \notin {"undo", "restore", "verify"}
    <3>1. /\ Plan["set"][1] = "readStore" /\ 1 \in DOMAIN Plan["set"]
          /\ Plan["rename"][1] = "readStore" /\ 1 \in DOMAIN Plan["rename"]
          /\ Plan["rm"][1] = "readStore" /\ 1 \in DOMAIN Plan["rm"]
          /\ Plan["purge"][1] = "readStore" /\ 1 \in DOMAIN Plan["purge"]
          /\ Plan["import"][1] = "readStore" /\ 1 \in DOMAIN Plan["import"]
      BY DEF Plan
    <3>2. /\ Plan["rotate"][1] = "readStore" /\ 1 \in DOMAIN Plan["rotate"]
          /\ Plan["meta"][1] = "readStore" /\ 1 \in DOMAIN Plan["meta"]
          /\ Plan["use"][1] = "readStore" /\ 1 \in DOMAIN Plan["use"]
      BY DEF Plan
    <3> QED BY <1>1, <2>2, <3>1, <3>2 DEF Of, Known, Writers
  <2> QED BY <2>1, <2>2
<1>2. ASSUME NEW c \in Writers PROVE "writeStore" \in Of(Plan[c])
  <2>1. /\ Plan["init"][1] = "writeStore" /\ 1 \in DOMAIN Plan["init"]
        /\ Plan["set"][2] = "writeStore" /\ 2 \in DOMAIN Plan["set"]
        /\ Plan["rename"][2] = "writeStore" /\ 2 \in DOMAIN Plan["rename"]
        /\ Plan["restore"][3] = "writeStore" /\ 3 \in DOMAIN Plan["restore"]
    BY DEF Plan
  <2>2. /\ Plan["rm"][5] = "writeStore" /\ 5 \in DOMAIN Plan["rm"]
        /\ Plan["purge"][5] = "writeStore" /\ 5 \in DOMAIN Plan["purge"]
        /\ Plan["import"][5] = "writeStore" /\ 5 \in DOMAIN Plan["import"]
    BY DEF Plan
  <2>3. /\ Plan["rotate"][6] = "writeStore" /\ 6 \in DOMAIN Plan["rotate"]
        /\ Plan["undo"][5] = "writeStore" /\ 5 \in DOMAIN Plan["undo"]
    BY DEF Plan
  <2> QED BY <1>2, <2>1, <2>2, <2>3 DEF Of, Writers
<1>3. Plan["undo"][6] = "rereadTrash" /\ 6 \in DOMAIN Plan["undo"]
  BY DEF Plan
<1> QED BY <1>1, <1>2, <1>3 DEF Of

(* The command p is done, or goes on, while no other is in flight. *)
LEMMA OneAgrees ==
  ASSUME SInv', NEW p \in Procs, \A q \in Procs \ {p} : proc'[q].todo = <<>>, TrashAgrees(trash'),
         proc'[p].todo = <<>> => Agree(store', meta'),
         proc'[p].todo # <<>> =>
           /\ Looked(proc'[p], store') /\ Undoes(proc'[p], trash')
           /\ ~Wrote(proc'[p]) => Agree(store', meta')
           /\ Wrote(proc'[p]) => store' = NewStore(p)' /\ Agree(proc'[p].data, meta')
  PROVE  AInv'
<1>1. Quiet' => Agree(store', meta')
  BY DEF Quiet
<1> QED BY <1>1 DEF AInv

LEMMA EndAgrees ==
  ASSUME TInv, SInv', NEW p \in Procs, End(p), \A q \in Procs \ {p} : proc'[q].todo = <<>>,
         TrashAgrees(trash'), Agree(store', meta')
  PROVE  AInv'
<1>1. proc'[p].todo = <<>>
  BY DEF TInv, End, Idle
<1> QED BY <1>1, OneAgrees

(* What is so before the step of a command alone. *)
LEMMA AloneIs ==
  ASSUME TInv, AInv, NEW p \in Procs, SoleStep(p)
  PROVE  /\ SInv' /\ TrashAgrees(trash) /\ \A q \in Procs \ {p} : proc'[q].todo = <<>>
         /\ proc[p].todo = <<>> => Agree(store, meta)
         /\ proc[p].todo # <<>> =>
              /\ Looked(proc[p], store) /\ Undoes(proc[p], trash)
              /\ ~Wrote(proc[p]) => Agree(store, meta)
              /\ Wrote(proc[p]) => store = NewStore(p) /\ Agree(proc[p].data, meta)
<1>1. SInv' /\ \A q \in Procs \ {p} : proc'[q].todo = <<>>
  BY SoleStepKeeps, OthersStay DEF AInv, SoleStep
<1>2. proc[p].todo = <<>> => Quiet
  BY DEF Quiet, SoleStep
<1> QED BY <1>1, <1>2 DEF AInv

LEMMA BeginAgrees == ASSUME TInv, AInv, NEW p \in Procs, SoleStep(p), Begin(p) PROVE AInv'
<1>1. PICK r \in Requests :
        /\ proc[p].todo = <<>>
        /\ proc' = [proc EXCEPT ![p] = [Idle EXCEPT !.req = r, !.todo = Plan[r.cmd], !.sawStore = r.cmd = "init"]]
        /\ UNCHANGED <<store, trash, meta>>
  BY DEF Begin
<1>2. r \in Reqs /\ r.cmd \in Known /\ Plan[r.cmd] \in Seq(Steps) /\ Plan[r.cmd] # <<>>
  BY RequestIs, PlanBegins
<1>3. PICK job : job = [Idle EXCEPT !.req = r, !.todo = Plan[r.cmd], !.sawStore = r.cmd = "init"]
  OBVIOUS
<1>4. /\ job.req = r /\ job.todo = Plan[r.cmd] /\ job.sawStore = (r.cmd = "init")
      /\ job.trash = {} /\ job.undone = {}
  BY <1>2, <1>3 DEF Idle
<1>5. proc'[p] = job
  BY <1>1, <1>3 DEF TInv
<1>6. Left(job) = Of(Plan[r.cmd]) /\ ~Wrote(job)
  BY <1>4, PlansHave DEF Left, Wrote
<1>7. job.req.cmd # "set"
  BY <1>2, <1>4, <1>5 DEF SoleStep
<1>8. r.cmd \notin {"init", "list", "empty"} => "readStore" \in Left(job)
  BY <1>2, <1>6, PlansHave
<1>9. Looked(job, store)
  <2>1. r.cmd \in Movers => "readMeta" \in Left(job)
    BY <1>6, PlansInclude
  <2> QED BY <1>4, <1>6, <1>7, <1>8, <2>1, Zenon DEF Looked, TrashAgrees
<1>10. Undoes(job, trash)
  <2>1. r.cmd = "undo" => {"readMeta", "writeTrash", "rereadTrash"} \subseteq Left(job)
    BY <1>6, PlansInclude, PlansHave DEF Movers
  <2> QED BY <1>4, <2>1 DEF Undoes
<1> QED BY <1>1, <1>5, <1>6, <1>9, <1>10, AloneIs, OneAgrees, <1>2, <1>4

LEMMA ReadStoreAgrees == ASSUME TInv, AInv, NEW p \in Procs, SoleStep(p), ReadStore(p) PROVE AInv'
<1>1. UNCHANGED <<store, trash, meta>> /\ At(p, "readStore")
  BY DEF ReadStore
<1>2. PICK L : Midway(p, L)
  BY <1>1, MidwayIs DEF At
<1>3. /\ proc[p] \in Jobs /\ Left(proc[p]) = {"readStore"} \cup L
      /\ Cmd(p) \in Movers => "writeTrash" \in L /\ "readMeta" \in L
      /\ Cmd(p) \in Writers => "writeStore" \in L
      /\ Cmd(p) # "init" /\ L # {} /\ proc[p].todo # <<>>
  BY <1>1, <1>2 DEF Midway, At, AfterStep
<1>4. /\ Looked(proc[p], store) /\ Undoes(proc[p], trash) /\ Agree(store, meta) /\ TrashAgrees(trash)
      /\ SInv' /\ \A q \in Procs \ {p} : proc'[q].todo = <<>>
  BY <1>3, AloneIs DEF Wrote, Cmd
<1>5. CASE End(p)
  BY <1>1, <1>4, <1>5, EndAgrees
<1>6. CASE ~End(p)
  <2>1. PICK job : job = proc'[p]
    OBVIOUS
  <2> DEFINE cut == IF Cmd(p) \in {"rm", "purge", "use"} THEN Named(p) \cap DOMAIN store ELSE Named(p)
  <2>2. /\ job.req.cmd = Cmd(p) /\ job.req.to = proc[p].req.to /\ job.req.fields = cut
        /\ job.todo = Tail(proc[p].todo) /\ job.undone = proc[p].undone
        /\ job.data = store /\ job.trash = proc[p].trash /\ job.sawStore = TRUE
    <3>1. proc' = [proc EXCEPT ![p].data = store, ![p].sawStore = TRUE, ![p].todo = Tail(@),
                               ![p].req.fields = IF Cmd(p) \in {"rm", "purge", "use"}
                                                 THEN @ \cap DOMAIN store ELSE @]
      BY <1>6 DEF ReadStore
    <3>2. proc \in [Procs -> Jobs]
      BY DEF TInv
    <3> QED BY <2>1, <3>1, <3>2 DEF Jobs, Reqs, Cmd, Named
  <2>3. Left(job) = L
    BY <1>2, <2>2 DEF Midway, Left
  <2>4. ~Wrote(job)
    BY <1>3, <2>2, <2>3 DEF Wrote
  <2>5. /\ Cmd(p) = "rename" => job.req.to \notin DOMAIN store
        /\ Cmd(p) = "restore" => Picked(job.trash, job.req.fields) \cap DOMAIN store = {}
    <3>1. ~Refused(p)
      BY <1>6 DEF ReadStore
    <3> QED BY <2>2, <3>1 DEF Refused
  <2>6. Looked(job, store)
    BY <1>3, <1>4, <2>2, <2>3, <2>5 DEF Looked, Cmd
  <2>7. Undoes(job, trash)
    BY <1>3, <1>4, <2>2, <2>3 DEF Undoes, Movers, Cmd
  <2> QED BY <1>1, <1>4, <2>1, <2>4, <2>6, <2>7, OneAgrees
<1> QED BY <1>5, <1>6

LEMMA ReadMetaAgrees == ASSUME TInv, IInv, AInv, NEW p \in Procs, SoleStep(p), ReadMeta(p) PROVE AInv'
<1>1. UNCHANGED <<store, trash, meta>> /\ At(p, "readMeta")
  BY DEF ReadMeta
<1>2. PICK L : Midway(p, L)
  BY <1>1, MidwayIs DEF At
<1>3. /\ proc[p] \in Jobs /\ Left(proc[p]) = {"readMeta"} \cup L
      /\ Cmd(p) \in Movers => "writeTrash" \in L /\ "readStore" \notin L
      /\ Cmd(p) \in Writers => "writeStore" \in L
      /\ Cmd(p) # "init" /\ L # {} /\ proc[p].todo # <<>>
  BY <1>1, <1>2 DEF Midway, At, AfterStep
<1>4. /\ Looked(proc[p], store) /\ Undoes(proc[p], trash) /\ Agree(store, meta) /\ TrashAgrees(trash)
      /\ SInv' /\ \A q \in Procs \ {p} : proc'[q].todo = <<>>
  BY <1>1, <1>3, AloneIs DEF Wrote, Cmd, At
<1>5. CASE End(p)
  BY <1>1, <1>4, <1>5, EndAgrees
<1>6. CASE ~End(p)
  <2> DEFINE skip == Cmd(p) = "import" /\ Replaced(p) = {}
             now == IF Cmd(p) \in Movers /\ ~skip THEN clock + 1 ELSE clock
             todo == IF skip THEN <<"writeStore", "updateMeta">> ELSE Tail(proc[p].todo)
  <2>1. PICK job : job = proc'[p]
    OBVIOUS
  <2>2. /\ job.req = proc[p].req /\ job.todo = todo /\ job.time = now /\ job.undone = proc[p].undone
        /\ job.data = proc[p].data /\ job.trash = proc[p].trash /\ job.meta = meta
        /\ job.sawStore = proc[p].sawStore
    <3>1. proc' = [proc EXCEPT ![p].meta = meta, ![p].time = now,
                               ![p].todo = IF skip THEN <<"writeStore", "updateMeta">> ELSE Tail(@)]
      BY <1>6, Zenon DEF ReadMeta, Movers
    <3>2. proc \in [Procs -> Jobs]
      BY DEF TInv
    <3> HIDE DEF skip, now
    <3> QED BY <2>1, <3>1, <3>2 DEF Jobs
  <2>3. /\ skip => Cmd(p) = "import" /\ todo = <<"writeStore", "updateMeta">>
        /\ ~skip => todo = Tail(proc[p].todo)
        /\ Cmd(p) \in Movers /\ ~skip => now = clock + 1
    OBVIOUS
  <2> HIDE DEF skip, now, todo
  <2>4. /\ skip => Left(job) = {"writeStore", "updateMeta"}
        /\ ~skip => Left(job) = L
    <3>1. CASE skip
      <4>1. job.todo = <<"writeStore", "updateMeta">>
        BY <2>2, <2>3, <3>1
      <4> QED BY <3>1, <4>1, ShortPlan, Zenon DEF Left
    <3>2. CASE ~skip
      BY <1>2, <2>2, <2>3, <3>2 DEF Left, Midway
    <3> QED BY <3>1, <3>2
  <2>5. /\ Cmd(p) \in Writers => "writeStore" \in Left(job)
        /\ "readStore" \notin Left(job) => "readStore" \notin Left(proc[p])
    <3>1. "import" \in Movers
      BY DEF Movers
    <3> QED BY <1>3, <2>3, <2>4, <3>1
  <2>6. ~Wrote(job) /\ ~Wrote(proc[p])
    BY <1>3, <2>2, <2>5 DEF Wrote, Cmd
  <2>7. Cmd(p) \in Movers => Fits(job.data, job.meta)
    <3>1. ASSUME Cmd(p) \in Movers PROVE Fits(job.data, job.meta)
      <4>1. proc[p].sawStore
        BY <1>3, <1>4, <2>6, <3>1 DEF Looked, Cmd, Movers
      <4>2. job.data = store
        BY <2>2, <4>1 DEF IInv, SnapshotsCurrent
      <4> QED BY <1>4, <2>2, <4>2 DEF Agree
    <3> QED BY <3>1
  <2>8. Looked(job, store)
    BY <1>4, <2>2, <2>5, <2>6, <2>7 DEF Looked, Cmd
  <2>9. Undoes(job, trash)
    <3>1. ASSUME Cmd(p) = "undo" PROVE Undoes(job, trash)
      <4>1. ~skip /\ job.time = clock + 1 /\ Left(job) = L
        BY <2>2, <2>3, <2>4, <3>1 DEF Movers
      <4>2. \A e \in trash \cup job.trash \cup job.undone : e.time < job.time
        <5>1. /\ JobOK(proc[p], clock) /\ clock \in Nat /\ Dated(trash, clock) /\ trash \in SUBSET Slips
          BY DEF TInv, FilesOK
        <5> QED BY <1>3, <2>2, <4>1, <5>1 DEF JobOK, Dated, Jobs, Slips
      <4>3. "rereadTrash" \notin Left(job) /\ "dropCopy" \in Left(job) => job.trash = trash
        BY <1>3, <1>4, <2>2, <3>1, <4>1 DEF Undoes, Cmd
      <4>4. "writeTrash" \in Left(job)
        BY <1>3, <3>1, <4>1 DEF Movers
      <4> QED BY <4>2, <4>3, <4>4 DEF Undoes
    <3>2. CASE Cmd(p) # "undo"
      BY <2>2, <3>2 DEF Undoes, Cmd
    <3> QED BY <3>1, <3>2
  <2> QED BY <1>1, <1>4, <2>1, <2>6, <2>8, <2>9, OneAgrees
<1> QED BY <1>5, <1>6

(* A purge that finds no trash goes straight to the store. *)
LEMMA SkipIs ==
  ASSUME TInv, NEW p \in Procs, At(p, "readTrash"), Cmd(p) = "purge", NEW L, Midway(p, L)
  PROVE  /\ Tail(Tail(proc[p].todo)) \in Seq(Steps)
         /\ "writeStore" \in Of(Tail(Tail(proc[p].todo))) /\ Of(Tail(Tail(proc[p].todo))) \subseteq L
<1>1. PICK todo : todo = Tail(proc[p].todo)
  OBVIOUS
<1>2. /\ OnPlan("purge", todo) /\ L = Of(todo) /\ todo \in Seq(Steps)
      /\ "writeTrash" \in L /\ L \cap {"readStore", "readMeta", "readTrash"} = {}
  BY <1>1 DEF Midway, At, AfterStep, Movers
<1>3. todo # <<>>
  BY <1>2, OfNothing
<1>4. PICK h, M : /\ h = Head(todo) /\ M = Of(Tail(todo)) /\ L = {h} \cup M
                  /\ AfterStep("purge", h, M) /\ Tail(todo) \in Seq(Steps)
  BY <1>2, <1>3, StepOff
<1>5. L \subseteq Steps
  BY <1>2, OfNothing
<1>6. h = "writeTrash"
  BY <1>2, <1>4, <1>5 DEF AfterStep, Steps, Movers
<1>7. "writeStore" \in M
  BY <1>4, <1>6 DEF AfterStep
<1> QED BY <1>1, <1>4, <1>7

LEMMA ReadTrashAgrees == ASSUME TInv, AInv, NEW p \in Procs, SoleStep(p), ReadTrash(p) PROVE AInv'
<1>1. UNCHANGED <<store, trash, meta>> /\ At(p, "readTrash")
  BY DEF ReadTrash
<1>2. PICK L : Midway(p, L)
  BY <1>1, MidwayIs DEF At
<1>3. /\ proc[p] \in Jobs /\ Left(proc[p]) = {"readTrash"} \cup L
      /\ Cmd(p) \in Writers => "writeStore" \in L
      /\ Cmd(p) \in {"undo", "restore"} => "readStore" \in L
      /\ Cmd(p) = "undo" => {"readMeta", "writeTrash", "rereadTrash"} \subseteq L
      /\ Cmd(p) = "purge" => "readStore" \notin L
      /\ proc[p].todo # <<>>
  BY <1>1, <1>2 DEF Midway, At, AfterStep, Movers
<1>4. /\ Looked(proc[p], store) /\ Agree(store, meta) /\ TrashAgrees(trash)
      /\ SInv' /\ \A q \in Procs \ {p} : proc'[q].todo = <<>>
  BY <1>3, AloneIs DEF Wrote, Cmd
<1>5. CASE End(p)
  BY <1>1, <1>4, <1>5, EndAgrees
<1>6. CASE ~End(p)
  <2> DEFINE read == Prune(trash)
             skip == Cmd(p) = "purge" /\ ~hasTrash
             copies == Rotations(read, Field(p))
             undone == IF Cmd(p) = "undo" THEN {Newest(copies)} ELSE {}
             todo == IF skip THEN Tail(Tail(proc[p].todo)) ELSE Tail(proc[p].todo)
  <2>1. PICK job : job = proc'[p]
    OBVIOUS
  <2>2. /\ job.req = proc[p].req /\ job.todo = todo /\ job.undone = undone
        /\ job.data = proc[p].data /\ job.trash = read /\ job.meta = proc[p].meta
        /\ job.sawStore = proc[p].sawStore
    <3>1. proc' = [proc EXCEPT ![p].trash = read, ![p].sawTrash = TRUE, ![p].undone = undone,
                               ![p].todo = IF skip THEN Tail(Tail(@)) ELSE Tail(@)]
      BY <1>6, Zenon DEF ReadTrash
    <3>2. proc \in [Procs -> Jobs]
      BY DEF TInv
    <3> HIDE DEF skip, read, undone
    <3> QED BY <2>1, <3>1, <3>2 DEF Jobs
  <2>3. TrashAgrees(read)
    BY <1>4 DEF TrashAgrees, Prune
  <2>4. TrashAgrees(undone)
    <3>1. CASE Cmd(p) = "undo"
      <4>1. copies # {}
        BY <1>6, <3>1 DEF ReadTrash
      <4>2. copies \subseteq read
        BY DEF Rotations, Copies
      <4>3. read \in SUBSET Slips /\ Dated(read, clock) /\ clock \in Nat
        BY PrunedAre DEF TInv, FilesOK
      <4>4. copies \in SUBSET Slips /\ Dated(copies, clock)
        BY <4>2, <4>3 DEF Dated
      <4> HIDE DEF read, copies
      <4>5. Newest(copies) \in copies
        BY <4>1, <4>3, <4>4, NewestIs
      <4> QED BY <2>3, <3>1, <4>2, <4>5 DEF TrashAgrees
    <3>2. CASE Cmd(p) # "undo"
      BY <3>2 DEF TrashAgrees
    <3> QED BY <3>1, <3>2
  <2>5. /\ skip => Cmd(p) = "purge" /\ todo = Tail(Tail(proc[p].todo))
        /\ ~skip => todo = Tail(proc[p].todo)
    OBVIOUS
  <2> HIDE DEF skip, read, undone, todo
  <2>6. /\ skip => "writeStore" \in Left(job) /\ Left(job) \subseteq L
        /\ ~skip => Left(job) = L
    BY <1>1, <1>2, <2>2, <2>5, SkipIs DEF Left, Midway
  <2>7. ~Wrote(job) /\ ~Wrote(proc[p])
    BY <1>3, <2>2, <2>5, <2>6 DEF Wrote, Cmd
  <2>8. Looked(job, store)
    <3>1. "readStore" \notin Left(job) => "readStore" \notin Left(proc[p])
      BY <1>3, <2>5, <2>6
    <3>2. Cmd(p) \in Movers /\ "readMeta" \notin Left(job) => "readMeta" \notin Left(proc[p])
      BY <1>3, <2>5, <2>6 DEF Movers
    <3>3. Cmd(p) = "restore" => "readStore" \in Left(job)
      BY <1>3, <2>5, <2>6
    <3> QED BY <1>4, <2>2, <2>3, <2>4, <2>7, <3>1, <3>2, <3>3 DEF Looked, Cmd
  <2>9. Undoes(job, trash)
    BY <1>3, <2>2, <2>5, <2>6 DEF Undoes, Cmd
  <2> QED BY <1>1, <1>4, <2>1, <2>7, <2>8, <2>9, OneAgrees
<1> QED BY <1>5, <1>6

(* What a command will write depends on what it was asked and what it read. *)
LEMMA SameStore ==
  ASSUME NEW p \in Procs, proc'[p].req = proc[p].req, proc'[p].data = proc[p].data,
         proc'[p].undone = proc[p].undone, Cmd(p) = "restore" => proc'[p].trash = proc[p].trash
  PROVE  NewStore(p)' = NewStore(p)
<1>1. Cmd(p)' = Cmd(p) /\ Named(p)' = Named(p) /\ Field(p)' = Field(p)
  BY DEF Cmd, Named, Field
<1>2. CASE Cmd(p) = "restore"
  BY <1>1, <1>2 DEF NewStore
<1>3. CASE Cmd(p) # "restore"
  BY <1>1, <1>3 DEF NewStore
<1> QED BY <1>2, <1>3

(* A step that leaves the store and the sidecar alone. *)
LEMMA GoesOnAgrees ==
  ASSUME TInv, AInv, NEW p \in Procs, SoleStep(p), NEW L, Midway(p, L), proc[p].todo # <<>>,
         Head(proc[p].todo) \notin {"readStore", "readMeta", "writeStore"},
         UNCHANGED <<store, meta>>, NEW job, job = proc'[p], Left(job) = L,
         job.req = proc[p].req, job.data = proc[p].data, job.meta = proc[p].meta,
         job.undone = proc[p].undone, job.sawStore = proc[p].sawStore,
         Cmd(p) = "restore" => job.trash = proc[p].trash,
         TrashAgrees(trash'), TrashAgrees(job.trash), Undoes(job, trash'),
         job.todo = <<>> => Cmd(p) \notin Writers
  PROVE  AInv'
<1>1. /\ Looked(proc[p], store) /\ SInv' /\ \A q \in Procs \ {p} : proc'[q].todo = <<>>
      /\ ~Wrote(proc[p]) => Agree(store, meta)
      /\ Wrote(proc[p]) => store = NewStore(p) /\ Agree(proc[p].data, meta)
  BY AloneIs
<1>2. /\ Left(proc[p]) = {Head(proc[p].todo)} \cup L
      /\ Wrote(job) <=> Wrote(proc[p])
  BY DEF Midway, Wrote
<1>3. Looked(job, store)
  BY <1>1, <1>2 DEF Looked, Cmd
<1>4. NewStore(p)' = NewStore(p)
  BY SameStore
<1>5. Cmd(p) \notin Writers => ~Wrote(proc[p])
  BY DEF Wrote, Cmd
<1> QED BY <1>1, <1>2, <1>3, <1>4, <1>5, OneAgrees

LEMMA RereadTrashAgrees == ASSUME TInv, AInv, NEW p \in Procs, SoleStep(p), RereadTrash(p) PROVE AInv'
<1>1. /\ UNCHANGED <<store, trash, meta>> /\ At(p, "rereadTrash")
      /\ proc' = [proc EXCEPT ![p].trash = trash, ![p].sawTrash = TRUE, ![p].todo = Tail(@)]
  BY DEF RereadTrash
<1>2. PICK L : Midway(p, L)
  BY <1>1, MidwayIs DEF At
<1>3. /\ proc[p] \in Jobs /\ Left(proc[p]) = {"rereadTrash"} \cup L /\ Cmd(p) = "undo" /\ L # {}
      /\ L \cap {"readStore", "readMeta", "readTrash", "writeTrash", "writeStore"} = {}
      /\ proc[p].todo # <<>> /\ Tail(proc[p].todo) \in Seq(Steps) /\ L = Of(Tail(proc[p].todo))
  BY <1>1, <1>2 DEF Midway, At, AfterStep
<1>4. TrashAgrees(trash) /\ Undoes(proc[p], trash)
  BY <1>3, AloneIs
<1>5. PICK job : job = proc'[p]
  OBVIOUS
<1>6. /\ job.req = proc[p].req /\ job.data = proc[p].data /\ job.meta = proc[p].meta /\ job.time = proc[p].time
      /\ job.undone = proc[p].undone /\ job.sawStore = proc[p].sawStore
      /\ job.trash = trash /\ job.todo = Tail(proc[p].todo)
  <2>1. proc \in [Procs -> Jobs]
    BY DEF TInv
  <2> QED BY <1>1, <1>5, <2>1 DEF Jobs
<1>7. Left(job) = L /\ job.todo # <<>>
  BY <1>3, <1>6, OfNothing DEF Left
<1>8. Undoes(job, trash)
  BY <1>3, <1>4, <1>6, <1>7 DEF Undoes, Newer, Cmd
<1> QED BY <1>1, <1>2, <1>3, <1>4, <1>5, <1>6, <1>7, <1>8, GoesOnAgrees DEF At

LEMMA DropCopyAgrees ==
  ASSUME TInv, AInv, NEW p \in Procs, SoleStep(p), DropCopy(p), trash' # trash PROVE AInv'
<1>1. UNCHANGED <<store, meta>> /\ At(p, "dropCopy")
  BY DEF DropCopy
<1>2. PICK L : Midway(p, L)
  BY <1>1, MidwayIs DEF At
<1>3. /\ proc[p] \in Jobs /\ Left(proc[p]) = {"dropCopy"} \cup L /\ Cmd(p) = "undo" /\ L # {}
      /\ L \cap {"readStore", "readMeta", "readTrash", "writeTrash", "writeStore", "dropCopy", "rereadTrash"} = {}
      /\ proc[p].todo # <<>> /\ Tail(proc[p].todo) \in Seq(Steps) /\ L = Of(Tail(proc[p].todo))
  BY <1>1, <1>2 DEF Midway, At, AfterStep
<1>4. /\ TrashAgrees(trash) /\ Newer(proc[p], trash) /\ proc[p].trash = trash
  BY <1>3, AloneIs DEF Undoes, Cmd
<1>5. PICK job, next : job = proc'[p] /\ next = [proc EXCEPT ![p].todo = Tail(@)]
  OBVIOUS
<1>6. PICK copy \in proc[p].undone : proc' = StaleTrash(next) /\ trash' = DropEntry(trash, copy)
  BY <1>4, <1>5 DEF DropCopy
<1>7. /\ job.req = proc[p].req /\ job.data = proc[p].data /\ job.meta = proc[p].meta /\ job.time = proc[p].time
      /\ job.undone = proc[p].undone /\ job.sawStore = proc[p].sawStore
      /\ job.trash = trash /\ job.todo = Tail(proc[p].todo)
  <2>1. proc \in [Procs -> Jobs]
    BY DEF TInv
  <2>2. /\ next[p] = [proc[p] EXCEPT !.todo = Tail(@)]
        /\ job = [next[p] EXCEPT !.sawTrash = FALSE]
    BY <1>5, <1>6, <2>1 DEF StaleTrash
  <2> QED BY <1>3, <1>4, <2>2 DEF Jobs
<1>8. Left(job) = L /\ job.todo # <<>>
  BY <1>3, <1>7, OfNothing DEF Left
<1>9. TrashAgrees(trash')
  BY <1>4, <1>6 DEF TrashAgrees, DropEntry
<1>10. Newer(job, trash')
  <2>1. PICK e \in trash : e.field \in job.req.fields /\ e.rotated /\ e.time = job.time
    BY <1>4, <1>7 DEF Newer
  <2>2. copy.time < job.time /\ copy \in Slips /\ job.time \in Nat
    BY <1>3, <1>4, <1>6, <1>7 DEF Newer, Jobs
  <2>3. e \in trash'
    BY <1>6, <2>1, <2>2 DEF DropEntry, Slips
  <2>4. trash' \subseteq trash
    BY <1>6 DEF DropEntry
  <2> QED BY <1>4, <1>7, <2>1, <2>3, <2>4 DEF Newer
<1>11. Undoes(job, trash')
  BY <1>3, <1>8, <1>10 DEF Undoes
<1> QED BY <1>1, <1>2, <1>3, <1>4, <1>5, <1>7, <1>8, <1>9, <1>11, GoesOnAgrees DEF At

(* The entries of a command describe the values they keep. *)
LEMMA DepositAgrees ==
  ASSUME NEW p \in Procs, Fits(proc[p].data, proc[p].meta), NEW F, F \subseteq DOMAIN proc[p].data, NEW rotated
  PROVE  TrashAgrees(Deposit(p, F, rotated))
<1> SUFFICES ASSUME NEW f \in F, NEW m \in KeptMeta(proc[p].meta, f)
             PROVE  m.expires \in {None, proc[p].data[f]}
  BY DEF TrashAgrees, Deposit
<1>1. f \in DOMAIN proc[p].meta \cap DOMAIN proc[p].data /\ m = proc[p].meta[f]
  BY DEF KeptMeta
<1> QED BY <1>1 DEF Fits

LEMMA NewTrashAgrees ==
  ASSUME TInv, NEW p \in Procs, At(p, "writeTrash"), Looked(proc[p], store)
  PROVE  TrashAgrees(NewTrash(p))
<1>1. PICK L : Midway(p, L)
  BY MidwayIs DEF At
<1>2. /\ Cmd(p) \in Movers \cup {"purge", "restore", "list", "empty"}
      /\ Cmd(p) \in Movers => {"readStore", "readMeta"} \cap Left(proc[p]) = {}
  BY <1>1 DEF Midway, At, AfterStep
<1>3. TrashAgrees(proc[p].trash)
  BY DEF Looked
<1>4. CASE Cmd(p) \in Movers
  <2>1. Fits(proc[p].data, proc[p].meta)
    BY <1>2, <1>4 DEF Looked, Cmd
  <2>2. Cmd(p) \in {"rm", "rotate", "undo"} => Named(p) \subseteq DOMAIN proc[p].data
    BY <1>2, <1>4 DEF TInv, JobOK, Informed, Cmd, Named
  <2>3. Replaced(p) \subseteq DOMAIN proc[p].data
    BY DEF Replaced
  <2>4. /\ Cmd(p) = "rm" => TrashAgrees(Deposit(p, Named(p), FALSE))
        /\ Cmd(p) \in {"rotate", "undo"} => TrashAgrees(Deposit(p, Named(p), TRUE))
        /\ TrashAgrees(Deposit(p, Replaced(p), TRUE))
    BY <2>1, <2>2, <2>3, DepositAgrees
  <2>5. PICK made : NewTrash(p) = proc[p].trash \cup made /\ TrashAgrees(made)
    BY <1>4, <2>4 DEF NewTrash, Movers
  <2> QED BY <1>3, <2>5 DEF TrashAgrees
<1>5. CASE Cmd(p) \notin Movers
  <2>1. NewTrash(p) \subseteq proc[p].trash
    BY <1>2, <1>5 DEF NewTrash, DropKeys
  <2> QED BY <1>3, <2>1 DEF TrashAgrees
<1> QED BY <1>4, <1>5

(* What restore adds to the store leaves the sidecar right. *)
LEMMA RestoreAgrees ==
  ASSUME NEW p \in Procs, Cmd(p) = "restore", Agree(proc[p].data, meta)
  PROVE  Agree(NewStore(p), meta)
<1>1. PICK add, val : NewStore(p) = [f \in DOMAIN proc[p].data \cup add |->
                                       IF f \in DOMAIN proc[p].data THEN proc[p].data[f] ELSE val[f]]
  <2>1. PICK val : val = [f \in Picked(proc[p].trash, Named(p)) |-> Newest(Copies(proc[p].trash, f)).value]
    OBVIOUS
  <2>2. NewStore(p) = [f \in DOMAIN proc[p].data \cup Picked(proc[p].trash, Named(p)) |->
                         IF f \in DOMAIN proc[p].data THEN proc[p].data[f] ELSE val[f]]
    BY <2>1 DEF NewStore
  <2> QED BY <2>2
<1> QED BY <1>1 DEF Agree, Fits

LEMMA WriteTrashAgrees == ASSUME TInv, AInv, NEW p \in Procs, SoleStep(p), WriteTrash(p) PROVE AInv'
<1>1. UNCHANGED <<store, meta>> /\ At(p, "writeTrash")
  BY DEF WriteTrash
<1>2. PICK L : Midway(p, L)
  BY <1>1, MidwayIs DEF At
<1>3. /\ proc[p] \in Jobs /\ Left(proc[p]) = {"writeTrash"} \cup L
      /\ Cmd(p) \in Movers \cup {"purge", "restore", "list", "empty"}
      /\ Cmd(p) \in Movers \cup {"purge"} => "writeStore" \in L
      /\ Cmd(p) = "undo" => "readMeta" \notin L /\ "rereadTrash" \in L
      /\ "writeTrash" \notin L /\ (Cmd(p) \in {"list", "empty"} \/ L # {}) /\ Cmd(p) # "init"
      /\ proc[p].todo # <<>> /\ Tail(proc[p].todo) \in Seq(Steps) /\ L = Of(Tail(proc[p].todo))
  BY <1>1, <1>2 DEF Midway, At, AfterStep, Movers
<1>4. /\ Looked(proc[p], store) /\ Undoes(proc[p], trash) /\ TrashAgrees(trash)
      /\ SInv' /\ \A q \in Procs \ {p} : proc'[q].todo = <<>>
      /\ ~Wrote(proc[p]) => Agree(store, meta)
      /\ Wrote(proc[p]) => store = NewStore(p) /\ Agree(proc[p].data, meta)
  BY <1>3, AloneIs
<1>5. CASE ~proc[p].sawTrash
  <2>1. Wrote(proc[p]) => Cmd(p) = "restore"
    BY <1>3 DEF Wrote, Cmd, Writers
  <2>2. Agree(store, meta)
    BY <1>4, <2>1, RestoreAgrees
  <2>3. End(p) /\ UNCHANGED trash
    BY <1>5 DEF WriteTrash
  <2> QED BY <1>1, <1>4, <2>2, <2>3, EndAgrees
<1>6. CASE proc[p].sawTrash
  <2>1. PICK job, next : job = proc'[p] /\ next = [proc EXCEPT ![p].todo = Tail(@)]
    OBVIOUS
  <2>2. proc' = StaleTrash(next) /\ trash' = NewTrash(p)
    BY <1>6, <2>1 DEF WriteTrash
  <2>3. /\ job.req = proc[p].req /\ job.data = proc[p].data /\ job.meta = proc[p].meta /\ job.time = proc[p].time
        /\ job.undone = proc[p].undone /\ job.sawStore = proc[p].sawStore
        /\ job.trash = proc[p].trash /\ job.todo = Tail(proc[p].todo)
    <3>1. proc \in [Procs -> Jobs]
      BY DEF TInv
    <3>2. /\ next[p] = [proc[p] EXCEPT !.todo = Tail(@)]
          /\ job = [next[p] EXCEPT !.sawTrash = FALSE]
      BY <2>1, <2>2, <3>1 DEF StaleTrash
    <3> QED BY <1>3, <3>2 DEF Jobs
  <2>4. Left(job) = L /\ (job.todo = <<>> => Cmd(p) \notin Writers)
    BY <1>3, <2>3, OfNothing DEF Left, Writers
  <2>5. TrashAgrees(trash') /\ TrashAgrees(job.trash)
    BY <1>1, <1>4, <2>2, <2>3, NewTrashAgrees DEF Looked
  <2>6. ASSUME Cmd(p) = "undo" PROVE Newer(job, trash')
    <3>1. \A e \in job.trash \cup job.undone : e.time < job.time
      BY <1>3, <1>4, <2>3, <2>6 DEF Undoes, Cmd
    <3>2. trash' = job.trash \cup Deposit(p, Named(p), TRUE)
      BY <2>2, <2>3, <2>6 DEF NewTrash
    <3>3. \A e \in Deposit(p, Named(p), TRUE) :
             e.time = job.time /\ e.rotated /\ e.value = job.data[e.field]
      BY <2>3 DEF Deposit
    <3>4. \E e \in Deposit(p, Named(p), TRUE) : e.field \in job.req.fields
      <4>1. PICK f \in Fields : Named(p) = {f}
        BY <2>6 DEF TInv, JobOK, Asked, Cmd, Named
      <4>2. PICK e : e = [field |-> f, value |-> proc[p].data[f], meta |-> KeptMeta(proc[p].meta, f),
                          rotated |-> TRUE, time |-> proc[p].time, old |-> FALSE]
        OBVIOUS
      <4>3. e \in Deposit(p, Named(p), TRUE)
        BY <4>1, <4>2 DEF Deposit
      <4>4. e.field = f
        BY <4>2
      <4> QED BY <2>3, <4>1, <4>3, <4>4 DEF Named
    <3>5. job.time \in Nat /\ \A e \in job.trash : e.time \in Nat
      BY <1>3, <2>3 DEF Jobs, Slips
    <3>6. \A e \in trash' : e.time <= job.time /\ (e.time = job.time /\ e.field \in job.req.fields => e.value = job.data[e.field])
      <4>1. \A e \in job.trash : e.time <= job.time /\ e.time # job.time
        BY <3>1, <3>5
      <4>2. \A e \in Deposit(p, Named(p), TRUE) : e.time <= job.time /\ e.value = job.data[e.field]
        <5> TAKE e \in Deposit(p, Named(p), TRUE)
        <5>1. e.time = job.time /\ e.value = job.data[e.field]
          BY <3>3, Zenon
        <5>2. job.time <= job.time
          BY <3>5
        <5> QED BY <5>1, <5>2
      <4> QED BY <3>2, <4>1, <4>2
    <3> QED BY <3>1, <3>2, <3>3, <3>4, <3>6 DEF Newer
  <2>7. Undoes(job, trash')
    BY <1>3, <2>3, <2>4, <2>6 DEF Undoes, Cmd
  <2> QED BY <1>1, <1>2, <1>3, <2>1, <2>3, <2>4, <2>5, <2>7, GoesOnAgrees DEF At
<1> QED BY <1>5, <1>6

LEMMA WriteStoreAgrees == ASSUME TInv, IInv, AInv, NEW p \in Procs, SoleStep(p), WriteStore(p) PROVE AInv'
<1>1. UNCHANGED <<trash, meta>> /\ At(p, "writeStore")
  BY DEF WriteStore
<1>2. PICK L : Midway(p, L)
  BY <1>1, MidwayIs DEF At
<1>3. /\ proc[p] \in Jobs /\ Left(proc[p]) = {"writeStore"} \cup L
      /\ Cmd(p) \in Writers /\ "readStore" \notin L /\ "writeStore" \notin L
      /\ L = {} => Cmd(p) = "init"
      /\ proc[p].todo # <<>> /\ Tail(proc[p].todo) \in Seq(Steps) /\ L = Of(Tail(proc[p].todo))
  BY <1>1, <1>2 DEF Midway, At, AfterStep
<1>4. /\ Looked(proc[p], store) /\ Undoes(proc[p], trash) /\ TrashAgrees(trash) /\ Agree(store, meta)
      /\ SInv' /\ \A q \in Procs \ {p} : proc'[q].todo = <<>>
  BY <1>3, AloneIs DEF Wrote
<1>5. CASE ~proc[p].sawStore
  <2>1. End(p) /\ UNCHANGED store
    BY <1>5 DEF WriteStore
  <2> QED BY <1>1, <1>4, <2>1, EndAgrees
<1>6. CASE proc[p].sawStore
  <2>1. PICK job, next : job = proc'[p] /\ next = [proc EXCEPT ![p].todo = Tail(@)]
    OBVIOUS
  <2>2. proc' = StaleStore(next) /\ store' = NewStore(p)
    BY <1>4, <1>6, <2>1 DEF WriteStore, Looked
  <2>3. /\ job.req = proc[p].req /\ job.data = proc[p].data /\ job.meta = proc[p].meta /\ job.time = proc[p].time
        /\ job.undone = proc[p].undone /\ job.trash = proc[p].trash /\ job.todo = Tail(proc[p].todo)
    <3>1. proc \in [Procs -> Jobs]
      BY DEF TInv
    <3>2. /\ next[p] = [proc[p] EXCEPT !.todo = Tail(@)]
          /\ job = [next[p] EXCEPT !.sawStore = FALSE]
      BY <2>1, <2>2, <3>1 DEF StaleStore
    <3> QED BY <1>3, <3>2 DEF Jobs
  <2>4. Left(job) = L /\ (job.todo = <<>> => Cmd(p) = "init")
    BY <1>3, <2>3, OfNothing DEF Left
  <2>5. Wrote(job) /\ proc[p].data = store
    BY <1>3, <1>6, <2>3, <2>4 DEF Wrote, Cmd, IInv, SnapshotsCurrent
  <2>6. store' = NewStore(p)'
    BY <2>1, <2>2, <2>3, SameStore
  <2>7. Looked(job, store')
    BY <1>3, <1>4, <2>3, <2>4, <2>5 DEF Looked, Writers, Cmd
  <2>8. Undoes(job, trash)
    BY <1>3, <1>4, <2>3, <2>4 DEF Undoes, Newer, Cmd
  <2>9. job.todo = <<>> => Agree(store', meta)
    <3>1. Cmd(p) = "init" => proc[p].data = Nothing /\ NewStore(p) = Nothing
      BY DEF IInv, CommandsInFlight, Command, Cmd, NewStore
    <3> QED BY <1>4, <2>2, <2>4, <2>5, <3>1
  <2> QED BY <1>1, <1>4, <2>1, <2>3, <2>5, <2>6, <2>7, <2>8, <2>9, OneAgrees
<1> QED BY <1>5, <1>6

(* What becomes of a map and of an expiry. *)
LEMMA ExpiryIs ==
  /\ Blank.expires = None
  /\ \A m \in Metas : \A x : [m EXCEPT !.expires = x].expires = x
  /\ \A m \in Metas : \A b : [m EXCEPT !.used = b].expires = m.expires
  /\ \A m \in Metas : \A f : [m EXCEPT !.target = f].expires = m.expires
  /\ \A v, o : \A m \in Metas : /\ Apply(m, v, o).expires \in {v, m.expires}
                                /\ v \in Tokens => Apply(m, v, o).expires = v
<1>1. ASSUME NEW m \in Metas, NEW x
      PROVE  /\ [m EXCEPT !.expires = x].expires = x /\ [m EXCEPT !.used = x].expires = m.expires
             /\ [m EXCEPT !.target = x].expires = m.expires
  BY DEF Metas
<1>2. ASSUME NEW m \in Metas, NEW v, NEW o
      PROVE  Apply(m, v, o).expires \in {v, m.expires} /\ (v \in Tokens => Apply(m, v, o).expires = v)
  BY DEF Metas, Apply
<1> QED BY <1>1, <1>2 DEF Blank

LEMMA MetaOfFits ==
  ASSUME NEW metas \in Maps(Metas), NEW map, Fits(map, metas), NEW f \in DOMAIN map
  PROVE  MetaOf(metas, f).expires \in {None, map[f]} /\ Cleared(metas, f).expires = None
<1>1. MetaOf(metas, f) \in Metas
  BY MetaOfIs
<1> QED BY <1>1, ExpiryIs DEF Fits, MetaOf, Cleared

(* A field gets a value and the metadata that goes with it; fields go from both. *)
LEMMA PutAgrees ==
  ASSUME NEW map, NEW metas, Agree(map, metas), NEW F, NEW v, NEW m, m.expires \in {None, v}
  PROVE  Agree(Put(map, F, v), Put(metas, F, m))
<1>1. PICK a, b : a = Put(map, F, v) /\ b = Put(metas, F, m)
  OBVIOUS
<1>2. /\ DOMAIN a = DOMAIN map \cup F /\ (\A f \in F : a[f] = v) /\ \A f \in DOMAIN map \ F : a[f] = map[f]
      /\ DOMAIN b = DOMAIN metas \cup F /\ (\A f \in F : b[f] = m) /\ \A f \in DOMAIN metas \ F : b[f] = metas[f]
  BY <1>1 DEF Put
<1>3. Agree(a, b)
  BY <1>2 DEF Agree, Fits
<1> QED BY <1>1, <1>3

LEMMA WithoutAgrees ==
  ASSUME NEW map, NEW metas, Agree(map, metas), NEW F
  PROVE  Agree(Without(map, F), Without(metas, F))
<1>1. PICK a, b : a = Without(map, F) /\ b = Without(metas, F)
  OBVIOUS
<1>2. /\ DOMAIN a = DOMAIN map \ F /\ \A f \in DOMAIN map \ F : a[f] = map[f]
      /\ DOMAIN b = DOMAIN metas \ F /\ \A f \in DOMAIN metas \ F : b[f] = metas[f]
  BY <1>1 DEF Without, Restrict
<1>3. Agree(a, b)
  BY <1>2 DEF Agree, Fits
<1> QED BY <1>1, <1>3

(* Fields of the store get metadata that fits. *)
LEMMA RewriteAgrees ==
  ASSUME NEW map, NEW metas, Agree(map, metas), NEW F, NEW new,
         DOMAIN new = DOMAIN metas \cup F, \A f \in F : f \in DOMAIN map /\ new[f].expires \in {None, map[f]},
         \A f \in DOMAIN metas \ F : new[f] = metas[f]
  PROVE  Agree(map, new)
BY DEF Agree, Fits

(* The sidecar a command leaves fits the store. *)
LEMMA NewMetaAgrees ==
  ASSUME TInv, NEW p \in Procs, UpdateMeta(p), Looked(proc[p], store), TrashAgrees(proc[p].undone),
         Cmd(p) \in Writers => store = NewStore(p) /\ Agree(proc[p].data, meta),
         Cmd(p) \notin Writers => Agree(store, meta) /\ proc[p].data = store
  PROVE  Agree(store, meta')
<1>1. At(p, "updateMeta")
  BY DEF UpdateMeta
<1>2. PICK L : Midway(p, L)
  BY <1>1, MidwayIs DEF At
<1>3. /\ Cmd(p) \in Known \ {"init", "list", "empty"} /\ JobOK(proc[p], clock) /\ proc[p] \in Jobs
      /\ Left(proc[p]) = {"updateMeta"} /\ Cmd(p) # "set"
  BY <1>1, <1>2 DEF Midway, At, AfterStep, TInv, Looked, Cmd
<1>4. PICK data, read, v, o : data = proc[p].data /\ read = proc[p].trash /\ v = proc[p].req.value /\ o = proc[p].req.option
  OBVIOUS
<1>5. /\ data \in Maps(Values) /\ read \in SUBSET Slips /\ Dated(read, clock) /\ clock \in Nat
      /\ meta \in Maps(Metas) /\ TrashAgrees(read)
  BY <1>3, <1>4 DEF TInv, FilesOK, JobOK, Jobs, Looked
<1>6. Agree(data, meta) /\ DOMAIN meta \subseteq DOMAIN data
  BY <1>4 DEF Agree
<1>7. ASSUME Cmd(p) \in {"rotate", "rename", "undo", "meta"} PROVE Named(p) = {Field(p)} /\ Field(p) \in DOMAIN data
  <2>1. Named(p) = {Field(p)}
    BY <1>3, <1>7 DEF JobOK, Asked, Cmd, Named, Field
  <2> QED BY <1>3, <1>4, <1>7, <2>1 DEF JobOK, Informed, Cmd, Named
<1>8. CASE Cmd(p) = "rotate"
  <2>1. store = Put(data, {Field(p)}, v) /\ meta' = Put(meta, {Field(p)}, Apply(Cleared(meta, Field(p)), v, o))
    BY <1>4, <1>7, <1>8 DEF UpdateMeta, WithNewValue, NewStore, Cmd, Writers
  <2>2. Cleared(meta, Field(p)) \in Metas /\ Cleared(meta, Field(p)).expires = None
    BY <1>5, <1>6, <1>7, <1>8, MetaOfIs, MetaOfFits DEF Agree
  <2>3. Apply(Cleared(meta, Field(p)), v, o).expires \in {None, v}
    BY <2>2, ExpiryIs
  <2> QED BY <1>6, <2>1, <2>3, PutAgrees
<1>9. CASE Cmd(p) = "import"
  <2>1. PICK new, F : new = meta' /\ F = IF v \in Tokens THEN Named(p) ELSE Replaced(p)
    OBVIOUS
  <2>2. new = Imported(p) /\ store = Put(data, Named(p), v)
    BY <1>4, <1>9, <2>1 DEF UpdateMeta, NewStore, Cmd, Writers
  <2>3. /\ DOMAIN new = DOMAIN meta \cup F
        /\ \A f \in F : new[f] = Apply(IF f \in Replaced(p) THEN Cleared(meta, f) ELSE MetaOf(meta, f), v, "none")
        /\ \A f \in DOMAIN meta \ F : new[f] = meta[f]
    BY <1>4, <2>1, <2>2 DEF Imported
  <2>4. Replaced(p) = {f \in Named(p) \cap DOMAIN data : data[f] # v} /\ F \subseteq Named(p)
    BY <1>4, <2>1 DEF Replaced
  <2>8. /\ DOMAIN store = DOMAIN data \cup Named(p) /\ \A f \in Named(p) : store[f] = v
        /\ \A f \in DOMAIN data \ Named(p) : store[f] = data[f]
    BY <2>2 DEF Put
  <2>5. ASSUME NEW f \in F PROVE new[f].expires \in {None, v}
    <3>1. Cleared(meta, f) \in Metas /\ MetaOf(meta, f) \in Metas
      BY <1>5, MetaOfIs
    <3>2. CASE f \in Replaced(p)
      <4>1. Cleared(meta, f).expires = None
        BY <1>5, <1>6, <2>4, <3>2, MetaOfFits DEF Agree
      <4> QED BY <2>3, <3>1, <3>2, <4>1, ExpiryIs
    <3>3. CASE f \notin Replaced(p)
      BY <2>1, <2>3, <3>1, <3>3, ExpiryIs
    <3> QED BY <3>2, <3>3
  <2>6. ASSUME NEW f \in DOMAIN meta \ F PROVE new[f].expires \in {None, store[f]}
    <3>1. f \in DOMAIN data /\ new[f] = meta[f] /\ meta[f].expires \in {None, data[f]}
      BY <1>6, <2>3 DEF Agree, Fits
    <3>2. f \in Named(p) => data[f] = v
      BY <2>1, <2>4, <3>1
    <3> QED BY <2>8, <3>1, <3>2
  <2>7. DOMAIN new \subseteq DOMAIN store /\ \A f \in F : store[f] = v
    BY <1>6, <2>3, <2>4, <2>8
  <2> QED BY <2>1, <2>3, <2>5, <2>6, <2>7 DEF Agree, Fits
<1>10. CASE Cmd(p) = "rename"
  <2> DEFINE f == Field(p)
             to == proc[p].req.to
  <2>1. store = Put(Without(data, {f}), {to}, data[f]) /\ meta' = Renamed(meta, f, to)
    BY <1>4, <1>7, <1>10 DEF UpdateMeta, NewStore, Cmd, Writers
  <2>2. Agree(Without(data, {f}), Without(meta, {f}))
    BY <1>6, WithoutAgrees
  <2>3. CASE f \in DOMAIN meta
    <3>1. meta[f].expires \in {None, data[f]}
      BY <1>6, <2>3 DEF Agree, Fits
    <3> QED BY <2>1, <2>2, <2>3, <3>1, PutAgrees DEF Renamed
  <2>4. CASE f \notin DOMAIN meta
    <3>1. meta' = meta /\ to \notin DOMAIN data
      BY <1>3, <1>4, <1>10, <2>1, <2>4 DEF Renamed, Looked, Cmd
    <3>2. PICK a : a = Without(data, {f})
      OBVIOUS
    <3>3. DOMAIN a = DOMAIN data \ {f} /\ \A g \in DOMAIN data \ {f} : a[g] = data[g]
      BY <3>2 DEF Without, Restrict
    <3>4. DOMAIN store = DOMAIN a \cup {to} /\ \A g \in DOMAIN a \ {to} : store[g] = a[g]
      BY <2>1, <3>2 DEF Put
    <3>5. \A g \in DOMAIN meta : g \in DOMAIN store /\ store[g] = data[g]
      BY <1>6, <2>4, <3>1, <3>3, <3>4
    <3> QED BY <1>6, <3>1, <3>5 DEF Agree, Fits
  <2> QED BY <2>3, <2>4
<1>11. CASE Cmd(p) \in {"rm", "purge"}
  <2>1. meta' = Without(meta, Named(p)) /\ store = Without(data, Named(p))
    BY <1>4, <1>11 DEF UpdateMeta, NewStore, Cmd, Named, Writers
  <2> QED BY <1>6, <2>1, WithoutAgrees
<1>12. CASE Cmd(p) = "undo"
  <2>1. PICK e \in proc[p].undone : proc[p].undone = {e}
    BY <1>3, <1>12 DEF JobOK, Informed, Cmd
  <2>2. e.meta \in SUBSET Metas /\ (CHOOSE x \in proc[p].undone : TRUE) = e
    BY <1>3, <2>1 DEF Jobs, Slips
  <2>3. PICK kept : kept = IF e.meta = {} THEN Blank ELSE CHOOSE m \in e.meta : TRUE
    OBVIOUS
  <2>4. kept \in Metas /\ kept.expires \in {None, e.value}
    BY <2>1, <2>2, <2>3, MetasAre, ExpiryIs DEF TrashAgrees
  <2>5. PICK m : m = [kept EXCEPT !.used = MetaOf(meta, Field(p)).used]
    OBVIOUS
  <2>6. meta' = Put(meta, Named(p), m) /\ store = Put(data, Named(p), e.value)
    BY <1>4, <1>12, <2>2, <2>3, <2>5 DEF UpdateMeta, WithKeptMeta, NewStore, Cmd, Writers
  <2>7. m.expires \in {None, e.value}
    BY <2>4, <2>5, ExpiryIs
  <2> QED BY <1>6, <2>6, <2>7, PutAgrees
<1>13. CASE Cmd(p) = "restore"
  <2>1. PICK new, back, F : /\ new = meta' /\ back = Picked(read, Named(p))
                            /\ F = {f \in back : Newest(Copies(read, f)).meta # {}}
    OBVIOUS
  <2>2. new = WithKeptMeta(p) /\ Cmd(p) # "undo"
    BY <1>13, <2>1 DEF UpdateMeta, Cmd
  <2>3. /\ DOMAIN new = DOMAIN meta \cup F
        /\ \A f \in F : new[f] = CHOOSE m \in Newest(Copies(read, f)).meta : TRUE
        /\ \A f \in DOMAIN meta \ F : new[f] = meta[f]
    BY <1>4, <2>1, <2>2 DEF WithKeptMeta
  <2>4. store = [f \in DOMAIN data \cup back |-> IF f \in DOMAIN data THEN data[f] ELSE Newest(Copies(read, f)).value]
    BY <1>4, <1>13, <2>1 DEF NewStore, Writers
  <2>5. back \cap DOMAIN data = {}
    BY <1>3, <1>4, <1>13, <2>1 DEF Looked, Cmd, Named
  <2>6. ASSUME NEW f \in F PROVE f \in DOMAIN store /\ new[f].expires \in {None, store[f]}
    <3>1. Newest(Copies(read, f)) \in read
      BY <1>5, <2>1, CopiesAre DEF Picked
    <3>2. new[f] \in Newest(Copies(read, f)).meta
      BY <2>1, <2>3
    <3>3. store[f] = Newest(Copies(read, f)).value /\ f \in DOMAIN store
      BY <2>1, <2>4, <2>5
    <3> QED BY <1>5, <3>1, <3>2, <3>3 DEF TrashAgrees
  <2>7. ASSUME NEW f \in DOMAIN meta PROVE f \in DOMAIN store /\ meta[f].expires \in {None, store[f]}
    <3>1. f \in DOMAIN data /\ meta[f].expires \in {None, data[f]}
      BY <1>6 DEF Agree, Fits
    <3> QED BY <2>4, <3>1
  <2> QED BY <2>1, <2>3, <2>6, <2>7 DEF Agree, Fits
<1>14. CASE Cmd(p) = "use"
  <2>1. PICK new : new = meta'
    OBVIOUS
  <2>2. new = Used(Named(p))
    BY <1>14, <2>1 DEF UpdateMeta, Cmd, Named
  <2>3. /\ DOMAIN new = DOMAIN meta \cup Named(p)
        /\ \A f \in Named(p) : new[f] = [MetaOf(meta, f) EXCEPT !.used = TRUE]
        /\ \A f \in DOMAIN meta \ Named(p) : new[f] = meta[f]
    BY <2>2 DEF Used
  <2>4. Named(p) \subseteq DOMAIN store /\ data = store
    BY <1>3, <1>4, <1>14 DEF Looked, Cmd, Named, Writers
  <2>5. ASSUME NEW f \in Named(p) PROVE f \in DOMAIN store /\ new[f].expires \in {None, store[f]}
    <3>1. MetaOf(meta, f) \in Metas /\ MetaOf(meta, f).expires \in {None, store[f]}
      BY <1>5, <1>6, <2>4, MetaOfIs, MetaOfFits DEF Agree
    <3>2. [MetaOf(meta, f) EXCEPT !.used = TRUE].expires = MetaOf(meta, f).expires
      BY <3>1, ExpiryIs
    <3> QED BY <2>3, <2>4, <3>1, <3>2
  <2>6. Agree(store, new)
    BY <1>6, <2>3, <2>4, <2>5, RewriteAgrees, Zenon
  <2> QED BY <2>1, <2>6
<1>15. CASE Cmd(p) = "meta"
  <2>1. data = store
    BY <1>4, <1>15 DEF Writers
  <2>2. PICK m : m = IF o = "expires"
                     THEN [MetaOf(meta, Field(p)) EXCEPT !.expires = data[Field(p)]]
                     ELSE [MetaOf(meta, Field(p)) EXCEPT !.target = Field(p)]
    OBVIOUS
  <2>3. m.expires \in {None, data[Field(p)]}
    <3>1. MetaOf(meta, Field(p)) \in Metas /\ MetaOf(meta, Field(p)).expires \in {None, data[Field(p)]}
      BY <1>5, <1>6, <1>7, <1>15, MetaOfIs, MetaOfFits DEF Agree
    <3> QED BY <2>2, <3>1, ExpiryIs
  <2>4. PICK new, F : new = meta' /\ F = {Field(p)} /\ new = Put(meta, F, m)
    BY <1>4, <1>15, <2>2 DEF UpdateMeta, Described, Cmd
  <2>5. /\ DOMAIN new = DOMAIN meta \cup F /\ \A f \in F : new[f] = m
        /\ \A f \in DOMAIN meta \ F : new[f] = meta[f]
    BY <2>4 DEF Put
  <2>6. \A f \in F : f \in DOMAIN data /\ new[f].expires \in {None, data[f]}
    BY <1>7, <1>15, <2>3, <2>4, <2>5
  <2>7. Agree(data, new)
    BY <1>6, <2>5, <2>6, RewriteAgrees, Zenon
  <2> QED BY <2>1, <2>4, <2>7
<1>16. CASE Cmd(p) = "verify"
  <2>1. PICK F \in SUBSET Named(p) : Learned(p, F)
    BY <1>16 DEF UpdateMeta, Cmd, Named
  <2>2. PICK new : new = meta'
    OBVIOUS
  <2>3. /\ DOMAIN new = DOMAIN meta \cup F
        /\ \A f \in F : f \in DOMAIN data /\ new[f] = [MetaOf(meta, f) EXCEPT !.expires = data[f]]
        /\ \A f \in DOMAIN meta \ F : new[f] = meta[f]
    BY <1>4, <2>1, <2>2 DEF Learned
  <2>4. data = store
    BY <1>4, <1>16 DEF Writers
  <2>5. ASSUME NEW f \in F PROVE f \in DOMAIN store /\ new[f].expires \in {None, store[f]}
    <3>1. MetaOf(meta, f) \in Metas
      BY <1>5, MetaOfIs
    <3>2. [MetaOf(meta, f) EXCEPT !.expires = data[f]].expires = data[f]
      BY <3>1, ExpiryIs
    <3> QED BY <2>3, <2>4, <3>2
  <2>6. Agree(store, new)
    BY <1>6, <2>3, <2>4, <2>5, RewriteAgrees, ZenonT(40)
  <2> QED BY <2>2, <2>6
<1> QED BY <1>3, <1>8, <1>9, <1>10, <1>11, <1>12, <1>13, <1>14, <1>15, <1>16 DEF Known, Writers

LEMMA UpdateMetaAgrees == ASSUME TInv, IInv, AInv, NEW p \in Procs, SoleStep(p), UpdateMeta(p) PROVE AInv'
<1>1. UNCHANGED <<store, trash>> /\ At(p, "updateMeta")
  BY DEF UpdateMeta
<1>2. PICK L : Midway(p, L)
  BY <1>1, MidwayIs DEF At
<1>3. /\ proc[p] \in Jobs /\ Left(proc[p]) = {"updateMeta"}
      /\ Cmd(p) \notin {"init", "list", "empty"} /\ proc[p].todo # <<>>
  BY <1>1, <1>2 DEF Midway, At, AfterStep
<1>4. /\ Looked(proc[p], store) /\ TrashAgrees(trash)
      /\ SInv' /\ \A q \in Procs \ {p} : proc'[q].todo = <<>>
      /\ ~Wrote(proc[p]) => Agree(store, meta)
      /\ Wrote(proc[p]) => store = NewStore(p) /\ Agree(proc[p].data, meta)
  BY <1>3, AloneIs
<1>5. Wrote(proc[p]) <=> Cmd(p) \in Writers
  BY <1>3 DEF Wrote, Cmd
<1>6. Cmd(p) \notin Writers => proc[p].data = store
  BY <1>3, <1>4, <1>5 DEF Looked, Cmd, IInv, SnapshotsCurrent
<1>7. Agree(store, meta')
  BY <1>4, <1>5, <1>6, NewMetaAgrees DEF Looked
<1>8. CASE End(p)
  BY <1>1, <1>4, <1>7, <1>8, EndAgrees
<1>9. CASE ~End(p)
  <2>1. PICK r : /\ r = Request("verify", {Field(p)}, None, None, "none")
                 /\ proc' = [proc EXCEPT ![p] = [Idle EXCEPT !.req = r, !.todo = Plan["verify"]]]
    BY <1>9 DEF UpdateMeta
  <2>2. PICK job : job = proc'[p]
    OBVIOUS
  <2>3. job.req.cmd = "verify" /\ job.todo = Plan["verify"] /\ job.trash = {} /\ job.undone = {}
    <3>1. proc'[p] = [Idle EXCEPT !.req = r, !.todo = Plan["verify"]]
      BY <2>1 DEF TInv
    <3>2. r.cmd = "verify"
      BY <2>1 DEF Request
    <3>3. job.req = r /\ job.todo = Plan["verify"] /\ job.trash = {} /\ job.undone = {}
      BY <2>2, <3>1 DEF Idle
    <3> QED BY <3>2, <3>3
  <2>4. "readStore" \in Left(job)
    BY <2>3, PlansHave DEF Left, Known
  <2>5. ~Wrote(job) /\ Looked(job, store) /\ Undoes(job, trash)
    BY <2>3, <2>4 DEF Wrote, Writers, Movers, Looked, Undoes, TrashAgrees
  <2> QED BY <1>1, <1>4, <1>7, <2>2, <2>5, OneAgrees
<1> QED BY <1>8, <1>9

(* A week passes in the sidecar and in the trash. *)
LEMMA WeekAgrees == ASSUME TInv, AInv, WeekPasses PROVE AInv'
<1>1. /\ proc' = proc /\ store' = store /\ (\A p \in Procs : proc[p].todo = <<>>)
      /\ trash' = {[e EXCEPT !.old = TRUE] : e \in trash}
      /\ meta' = [f \in DOMAIN meta |-> [meta[f] EXCEPT !.used = FALSE]]
  BY DEF WeekPasses
<1>2. SInv'
  BY WeekAlone DEF AInv
<1>3. TrashAgrees(trash')
  <2>1. ASSUME NEW e \in trash PROVE LET aged == [e EXCEPT !.old = TRUE] IN aged.meta = e.meta /\ aged.value = e.value
    BY DEF TInv, FilesOK, Slips
  <2> QED BY <1>1, <2>1 DEF AInv, TrashAgrees
<1>4. Agree(store, meta) /\ meta \in Maps(Metas)
  BY <1>1 DEF AInv, Quiet, TInv, FilesOK
<1>5. Agree(store, meta')
  <2>1. ASSUME NEW f \in DOMAIN meta PROVE meta'[f].expires = meta[f].expires
    BY <1>1, <1>4, MapIs, ExpiryIs
  <2>2. DOMAIN meta' = DOMAIN meta
    BY <1>1
  <2> QED BY <1>4, <2>1, <2>2 DEF Agree, Fits
<1> QED BY <1>1, <1>2, <1>3, <1>5 DEF AInv

LEMMA AloneAgrees == ASSUME TInv, IInv, AInv, NEW p \in Procs, SoleStep(p) PROVE AInv'
<1>1. CASE Begin(p)
  BY <1>1, BeginAgrees
<1>2. CASE ReadStore(p)
  BY <1>2, ReadStoreAgrees
<1>3. CASE ReadMeta(p)
  BY <1>3, ReadMetaAgrees
<1>4. CASE ReadTrash(p)
  BY <1>4, ReadTrashAgrees
<1>5. CASE RereadTrash(p)
  BY <1>5, RereadTrashAgrees
<1>6. CASE WriteTrash(p)
  BY <1>6, WriteTrashAgrees
<1>7. CASE DropCopy(p) /\ trash' # trash
  BY <1>7, DropCopyAgrees
<1>8. CASE WriteStore(p)
  BY <1>8, WriteStoreAgrees
<1>9. CASE UpdateMeta(p)
  BY <1>9, UpdateMetaAgrees
<1> QED BY <1>1, <1>2, <1>3, <1>4, <1>5, <1>6, <1>7, <1>8, <1>9 DEF SoleStep, RunsOn

(* Between commands the three files agree. *)
LEMMA AgreeingPromise == ASSUME TInv, use = "sequential" => AInv PROVE AloneFilesAgree
<1> SUFFICES ASSUME AInv PROVE SidecarAligned /\ ExpiryOfCurrentValue /\ UndoCanBeUndone
  BY DEF AloneFilesAgree
<1>1. SidecarAligned /\ ExpiryOfCurrentValue
  BY DEF AInv, Agree, Fits, SidecarAligned, ExpiryOfCurrentValue
<1>2. UndoCanBeUndone
  <2> SUFFICES ASSUME NEW p \in Procs, Cmd(p) = "undo", At(p, "updateMeta")
               PROVE  /\ Rotations(trash, Field(p)) # {}
                      /\ Newest(Rotations(trash, Field(p))).value = proc[p].data[Field(p)]
    BY DEF UndoCanBeUndone
  <2>1. PICK L : Midway(p, L)
    BY MidwayIs DEF At
  <2>2. "writeTrash" \notin Left(proc[p]) /\ proc[p].todo # <<>> /\ proc[p] \in Jobs
    BY <2>1 DEF Midway, At, AfterStep
  <2>3. Newer(proc[p], trash)
    BY <2>2 DEF AInv, Undoes, Cmd
  <2>4. PICK f \in Fields : Named(p) = {f} /\ Field(p) = f
    BY DEF TInv, JobOK, Asked, Cmd, Named, Field
  <2>5. PICK copies : copies = Rotations(trash, f)
    OBVIOUS
  <2>6. copies = {e \in trash : e.field = f /\ e.rotated}
    BY <2>5 DEF Rotations, Copies
  <2>7. PICK mine \in copies : mine.time = proc[p].time
    BY <2>3, <2>4, <2>6 DEF Newer, Named
  <2>8. copies \in SUBSET Slips /\ Dated(copies, clock) /\ clock \in Nat
    BY <2>6 DEF TInv, FilesOK, Dated
  <2>9. Newest(copies) \in copies /\ \A e \in copies : e.time <= Newest(copies).time
    BY <2>7, <2>8, NewestIs
  <2>10. PICK newest \in copies : newest = Newest(copies) /\ mine.time <= newest.time
    BY <2>7, <2>9
  <2>11. newest.time <= proc[p].time /\ newest.time \in Nat /\ proc[p].time \in Nat
    BY <2>2, <2>3, <2>6, <2>8 DEF Newer, Jobs, Slips
  <2>12. newest.time = proc[p].time
    BY <2>7, <2>10, <2>11
  <2>13. newest.value = proc[p].data[f]
    BY <2>3, <2>4, <2>6, <2>12 DEF Newer, Named
  <2> QED BY <2>4, <2>5, <2>7, <2>10, <2>13
<1> QED BY <1>1, <1>2

-----------------------------------------------------------------------------
(* The three ways of using the store *)

UInv == TInv /\ IInv /\ (use = "keeping" => KInv) /\ (use = "sequential" => AInv)

LEMMA UseSteps ==
  ASSUME UseNext
  PROVE  /\ Next /\ use' = use
         /\ use = "keeping" => KeepingStep
         /\ use = "sequential" => WeekPasses \/ \E p \in Procs : SoleStep(p)
<1>1. Next
  BY DEF UseNext, RunsOn, Next
<1>2. use = "keeping" => KeepingStep
  BY <1>1 DEF UseNext, Using, KeepingStep
<1>3. use = "sequential" => WeekPasses \/ \E p \in Procs : SoleStep(p)
  BY DEF UseNext, Using, SoleStep, Sequential
<1> QED BY <1>1, <1>2, <1>3 DEF UseNext

LEMMA InitUInv == UseInit => UInv
<1> SUFFICES ASSUME UseInit PROVE UInv
  OBVIOUS
<1>1. TInv /\ IInv /\ \A p \in Procs : proc[p] = Idle
  BY InitTyped, InitIInv, SecretAssumption DEF UseInit, Init
<1>2. KInv
  BY <1>1, IdleKeeps DEF KInv
<1>3. SInv
  BY <1>1 DEF SInv, Purged, Idle
<1>4. AInv
  <2>1. store = Nothing /\ meta = Nothing /\ trash = {}
    BY DEF UseInit, Init
  <2>2. Agree(Nothing, Nothing)
    BY NothingIs DEF Agree, Fits
  <2> QED BY <1>1, <1>3, <2>1, <2>2 DEF AInv, TrashAgrees, Idle
<1> QED BY <1>1, <1>2, <1>4 DEF UInv

LEMMA NextUInv == UInv /\ [UseNext]_<<vars, use>> => UInv'
<1> SUFFICES ASSUME UInv, [UseNext]_<<vars, use>> PROVE UInv'
  OBVIOUS
<1>1. CASE UseNext
  <2>1. TInv' /\ IInv'
    BY <1>1, UseSteps, StepTyped, NextIInv, SecretAssumption DEF UInv
  <2>2. use = "keeping" => KInv'
    BY <1>1, UseSteps, KeepingKeeps DEF UInv
  <2>3. use = "sequential" => AInv'
    BY <1>1, UseSteps, AloneAgrees, WeekAgrees DEF UInv
  <2> QED BY <1>1, <2>1, <2>2, <2>3, UseSteps DEF UInv
<1>2. CASE UNCHANGED <<vars, use>>
  <2>1. TInv' /\ IInv'
    BY <1>2, StepTyped, NextIInv, SecretAssumption DEF UInv
  <2>2. KInv => KInv'
    BY <1>2 DEF KInv, vars
  <2>3. AInv => AInv'
    <3>1. UNCHANGED <<store, trash, meta, proc>>
      BY <1>2 DEF vars
    <3>2. \A p \in Procs : NewStore(p)' = NewStore(p)
      BY <3>1, SameStore
    <3> QED BY <3>1, <3>2 DEF AInv, SInv, Quiet
  <2> QED BY <1>2, <2>1, <2>2, <2>3 DEF UInv
<1> QED BY <1>1, <1>2

(* However many bb processes run, as long as none is meant to forget a      *)
(* value, what a command takes out of the store is in the trash first and   *)
(* stays there for its week (moveSecretsToTrash); and when commands run one *)
(* at a time a purge leaves no copy behind (purgeFromTrash).                *)
THEOREM TrashKeeps == UseSpec => TrashKeepsAndForgets
<1> DEFINE Promise == /\ use = "keeping" => KeepsReplacedValue /\ KeepsTrashForAWeek
                      /\ use = "sequential" => PurgesForGood
<1>1. UInv /\ [UseNext]_<<vars, use>> => [Promise]_vars
  <2> SUFFICES ASSUME UInv, UseNext PROVE Promise
    BY DEF vars
  <2>1. use = "keeping" => KeepsReplacedValue /\ KeepsTrashForAWeek
    BY UseSteps, KeepingPromise DEF UInv
  <2>2. use = "sequential" => PurgesForGood
    BY UseSteps, PurgingPromise DEF UInv, AInv
  <2> QED BY <2>1, <2>2
<1>2. UseSpec => []UInv
  BY InitUInv, NextUInv, PTL DEF UseSpec
<1> QED BY <1>1, <1>2, PTL DEF UseSpec, TrashKeepsAndForgets

(* As long as commands run one at a time to their end, the store, its       *)
(* sidecar and the trash agree between commands: no metadata outlives its   *)
(* field (dropSecretMeta, renameSecretMeta), no expiry is that of another   *)
(* value, whatever put that value in the store, and a second rotate --undo  *)
(* takes back the first (secRotateUndo).                                    *)
THEOREM FilesAgreeAlone == UseSpec => []AloneFilesAgree
<1>1. UInv => AloneFilesAgree
  BY AgreeingPromise DEF UInv
<1>2. UseSpec => []UInv
  BY InitUInv, NextUInv, PTL DEF UseSpec
<1> QED BY <1>1, <1>2, PTL

=============================================================================
