------------------------- MODULE SecretStoreProofs -------------------------
(***************************************************************************)
(* The secret store, for every number of processes, fields, values and     *)
(* commands.                                                               *)
(*                                                                         *)
(* No lost update: the argument is the one writeEncryptedJSON relies on.   *)
(* A command whose snapshot is still the current ciphertext holds the      *)
(* current data, so what it writes differs from the store only in the      *)
(* fields the command names.                                               *)
(*                                                                         *)
(* Types: what a command may rely on at a step follows from the steps it   *)
(* has left (Informed), and no more deletion times are taken than commands *)
(* have begun, because each command that takes one owes at most one        *)
(* (Owing).                                                                *)
(***************************************************************************)
EXTENDS MCSecretUses, FiniteSetTheorems, SequenceTheorems, WellFoundedInduction, TLAPS

(* A command's record has its fields, and only the commands whose plan says *)
(* so ever write the store.                                                 *)
Steps == {"readStore", "readMeta", "readTrash", "rereadTrash",
          "writeStore", "writeTrash", "dropCopy", "updateMeta"}
Writers == {"init", "set", "rename", "import", "rotate", "undo", "rm", "purge", "restore"}

(* init does nothing but write. *)
Legal(cmd, todo) ==
  /\ todo \in Seq(Steps)
  /\ \A i \in 1..Len(todo) : /\ todo[i] = "writeStore" => cmd \in Writers
                             /\ cmd = "init" => todo[i] = "writeStore"

Command(r) ==
  /\ DOMAIN r = {"req", "todo", "time", "data", "trash", "meta", "undone", "sawStore", "sawTrash"}
  /\ DOMAIN r.req = {"cmd", "fields", "to", "value", "option"}
  /\ r.sawStore \in BOOLEAN
  /\ Legal(r.req.cmd, r.todo)
  /\ r.req.cmd = "init" => r.data = Nothing

CommandsInFlight ==
  /\ DOMAIN proc = Procs
  /\ \A p \in Procs : Command(proc[p])

(* A snapshot nobody has written over is the store. *)
SnapshotsCurrent ==
  /\ exists = FALSE => store = Nothing
  /\ \A p \in Procs : proc[p].sawStore => proc[p].data = store

IInv == CommandsInFlight /\ SnapshotsCurrent

-----------------------------------------------------------------------------
(* Sequences of steps *)

(* What is left of a plan after its first step. *)
LEMMA RestOfPlan ==
  ASSUME NEW s \in Seq(Steps), s # <<>>
  PROVE  /\ Tail(s) \in Seq(Steps)
         /\ Tail(s) # s
         /\ Len(Tail(s)) = Len(s) - 1
         /\ Len(s) \in Nat
         /\ \A i \in 1..Len(Tail(s)) : i + 1 \in 1..Len(s) /\ Tail(s)[i] = s[i + 1]
<1>1. Len(s) \in Nat /\ Len(s) > 0
  BY EmptySeq, LenProperties
<1>2. Tail(s) \in Seq(Steps) /\ Len(Tail(s)) = Len(s) - 1
      /\ \A i \in 1..Len(Tail(s)) : Tail(s)[i] = s[i + 1]
  BY HeadTailProperties
<1>3. Tail(s) # s
  <2> DEFINE n == Len(s)
             m == Len(Tail(s))
  <2>1. n \in Nat /\ m = n - 1
    BY <1>1, <1>2
  <2> HIDE DEF n, m
  <2>2. m # n
    BY <2>1
  <2> QED
    BY <2>2, Zenon DEF n, m
<1>4. ASSUME NEW i \in 1..Len(Tail(s)) PROVE i + 1 \in 1..Len(s) /\ Tail(s)[i] = s[i + 1]
  BY <1>1, <1>2
<1> QED
  BY <1>1, <1>2, <1>3, <1>4

(* An idle process is a command with nothing to do. *)
LEMMA IdleCommand == Command(Idle) /\ Idle.sawStore = FALSE /\ Idle.todo = <<>> /\ Idle.data = Nothing
BY DEF Command, Legal, Idle, Request, Nothing

(* A command that has done its first step is still a command. *)
LEMMA Advances ==
  ASSUME NEW r, Command(r), r.todo # <<>>
  PROVE  /\ Command([r EXCEPT !.todo = Tail(@)])
         /\ Tail(r.todo) # r.todo
         /\ Legal(r.req.cmd, Tail(r.todo))
<1>1. /\ Tail(r.todo) \in Seq(Steps) /\ Tail(r.todo) # r.todo
      /\ \A i \in 1..Len(Tail(r.todo)) : i + 1 \in 1..Len(r.todo) /\ Tail(r.todo)[i] = r.todo[i + 1]
  BY RestOfPlan DEF Command, Legal
<1>2. Legal(r.req.cmd, Tail(r.todo))
  BY <1>1 DEF Command, Legal
<1> QED
  BY <1>1, <1>2 DEF Command

-----------------------------------------------------------------------------
(* The invariant *)

LEMMA InitIInv == SecretAssumption /\ Init => IInv
BY IdleCommand DEF Init, IInv, CommandsInFlight, SnapshotsCurrent

(* Every plan only writes the store for the commands in Writers. *)
LEMMA PlansAreSteps ==
  ASSUME NEW r \in Requests
  PROVE  /\ DOMAIN r = {"cmd", "fields", "to", "value", "option"}
         /\ Legal(r.cmd, Plan[r.cmd])
<1>1. /\ r.cmd \in Writers \cup {"list", "empty", "meta", "use", "verify"}
      /\ DOMAIN r = {"cmd", "fields", "to", "value", "option"}
  BY DEF Requests, Request, Writers
<1>2. ASSUME NEW c \in {"list", "empty", "meta", "use", "verify"}
      PROVE  Plan[c] \in Seq(Steps) /\ \A i \in 1..Len(Plan[c]) : Plan[c][i] # "writeStore"
  <2> DEFINE Reads(d) == /\ Plan[d] \in Seq(Steps)
                         /\ \A i \in 1..Len(Plan[d]) : Plan[d][i] # "writeStore"
  <2>1. Reads("list")
    BY DEF Plan, Steps
  <2>2. Reads("empty")
    BY DEF Plan, Steps
  <2>3. Reads("meta")
    BY DEF Plan, Steps
  <2>4. Reads("use")
    BY DEF Plan, Steps
  <2>5. Reads("verify")
    BY DEF Plan, Steps
  <2> QED
    BY <2>1, <2>2, <2>3, <2>4, <2>5
<1>3. ASSUME NEW c \in Writers PROVE Plan[c] \in Seq(Steps)
  <2>1. Plan["init"] \in Seq(Steps)
    BY DEF Plan, Steps
  <2>2. Plan["set"] \in Seq(Steps)
    BY DEF Plan, Steps
  <2>3. Plan["rename"] \in Seq(Steps)
    BY DEF Plan, Steps
  <2>4. Plan["import"] \in Seq(Steps)
    BY DEF Plan, Steps
  <2>5. Plan["rotate"] \in Seq(Steps)
    BY DEF Plan, Steps
  <2>6. Plan["undo"] \in Seq(Steps)
    BY DEF Plan, Steps
  <2>7. Plan["rm"] \in Seq(Steps)
    BY DEF Plan, Steps
  <2>8. Plan["purge"] \in Seq(Steps)
    BY DEF Plan, Steps
  <2>9. Plan["restore"] \in Seq(Steps)
    BY DEF Plan, Steps
  <2> QED
    BY <2>1, <2>2, <2>3, <2>4, <2>5, <2>6, <2>7, <2>8, <2>9 DEF Writers
<1>4. Legal("init", Plan["init"])
  BY DEF Plan, Legal, Steps, Writers
<1> QED
  BY <1>1, <1>2, <1>3, <1>4 DEF Legal

(* One process moves on and nobody writes the store: a process that keeps   *)
(* its snapshot keeps the invariant.                                        *)
LEMMA Moves ==
  ASSUME NEW p \in Procs, IInv,
         UNCHANGED <<store, exists>>,
         DOMAIN proc' = Procs,
         \A q \in Procs \ {p} : proc'[q] = proc[q],
         Command(proc'[p]),
         proc'[p].sawStore => proc'[p].data = store
  PROVE  IInv'
BY DEF IInv, CommandsInFlight, SnapshotsCurrent, Command

(* A write of the trash is noticed by every other command. *)
LEMMA StaleTrashKeepsCommands ==
  ASSUME NEW procs, DOMAIN procs = Procs, \A q \in Procs : Command(procs[q])
  PROVE  /\ DOMAIN StaleTrash(procs) = Procs
         /\ \A q \in Procs : /\ Command(StaleTrash(procs)[q])
                             /\ StaleTrash(procs)[q].data = procs[q].data
                             /\ StaleTrash(procs)[q].sawStore = procs[q].sawStore
BY DEF StaleTrash, Command

(* The reads of a file. *)
LEMMA ReadsKeepIInv ==
  ASSUME NEW p \in Procs, IInv,
         ReadStore(p) \/ ReadMeta(p) \/ ReadTrash(p) \/ RereadTrash(p)
  PROVE  IInv'
<1>1. /\ UNCHANGED <<store, exists>>
      /\ Command(proc[p]) /\ proc[p].todo # <<>>
      /\ DOMAIN proc = Procs
      /\ proc[p].sawStore => proc[p].data = store
  BY DEF IInv, CommandsInFlight, SnapshotsCurrent, ReadStore, ReadMeta, ReadTrash, RereadTrash, At
<1>2. CASE End(p)
  BY <1>1, <1>2, IdleCommand, Moves DEF End
<1>3. CASE ReadStore(p) /\ ~End(p)
  <2>1. Head(proc[p].todo) = "readStore" /\ Head(proc[p].todo) = proc[p].todo[1]
    BY <1>1, <1>3 DEF ReadStore, At, Command, Legal
  <2>2. 1 \in 1..Len(proc[p].todo)
    BY <1>1, EmptySeq, LenProperties DEF Command, Legal
  <2>3. proc[p].req.cmd # "init"
    BY <1>1, <2>1, <2>2 DEF Command, Legal
  <2> QED
    BY <1>1, <1>3, <2>3, Advances, Moves DEF ReadStore, Command, Cmd
<1>4. CASE ReadMeta(p) /\ ~End(p)
  <2> DEFINE short == <<"writeStore", "updateMeta">>
  <2>1. short \in Seq(Steps)
    BY DEF Steps
  <2> DEFINE Reads(rest) == [proc EXCEPT ![p].meta = meta, ![p].time = clock', ![p].todo = rest]
             skip == Cmd(p) = "import" /\ Replaced(p) = {}
  <2>2. ASSUME NEW rest
        PROVE  /\ DOMAIN Reads(rest) = Procs
               /\ \A q \in Procs \ {p} : Reads(rest)[q] = proc[q]
               /\ DOMAIN Reads(rest)[p] = DOMAIN proc[p] /\ Reads(rest)[p].req = proc[p].req
               /\ Reads(rest)[p].data = proc[p].data /\ Reads(rest)[p].sawStore = proc[p].sawStore
               /\ Reads(rest)[p].todo = rest
    BY <1>1 DEF Command
  <2>3. CASE ~skip
    <3>1. proc' = Reads(Tail(proc[p].todo))
      BY <1>4, <2>3 DEF ReadMeta
    <3> HIDE DEF Reads
    <3>2. Legal(proc[p].req.cmd, Tail(proc[p].todo))
      BY <1>1, Advances
    <3> DEFINE rest == Tail(proc[p].todo)
    <3> HIDE DEF rest
    <3>3. Command(proc'[p])
      BY <1>1, <2>2, <3>1, <3>2 DEF Command, rest
    <3> QED
      BY <1>1, <2>2, <3>1, <3>3, Moves
  <2>4. CASE skip
    <3>1. proc' = Reads(short)
      BY <1>4, <2>4 DEF ReadMeta
    <3>2. "import" \in Writers /\ proc[p].req.cmd = "import"
      BY <2>4 DEF Writers, Cmd
    <3> HIDE DEF Reads, short
    <3>3. Command(proc'[p])
      BY <1>1, <2>1, <2>2, <3>1, <3>2 DEF Command, Legal
    <3> QED
      BY <1>1, <2>2, <3>1, <3>3, Moves
  <2> QED
    BY <2>3, <2>4
<1>5. CASE ReadTrash(p) /\ ~End(p)
  BY <1>1, <1>5, Advances, Moves DEF ReadTrash, Command, Cmd
<1>6. CASE RereadTrash(p)
  BY <1>1, <1>6, Advances, Moves DEF RereadTrash, Command
<1> QED
  BY <1>2, <1>3, <1>4, <1>5, <1>6

(* Beginning, stopping, and the writes of the trash and the sidecar. *)
LEMMA OtherStepsKeepIInv ==
  ASSUME NEW p \in Procs, SecretAssumption, IInv,
         Begin(p) \/ Stop(p) \/ WriteTrash(p) \/ DropCopy(p) \/ UpdateMeta(p)
  PROVE  IInv'
<1>1. /\ UNCHANGED <<store, exists>>
      /\ Command(proc[p])
      /\ DOMAIN proc = Procs
      /\ \A q \in Procs : Command(proc[q]) /\ (proc[q].sawStore => proc[q].data = store)
  BY DEF IInv, CommandsInFlight, SnapshotsCurrent, Begin, Stop, WriteTrash, DropCopy, UpdateMeta
<1>2. CASE End(p)
  BY <1>1, <1>2, IdleCommand, Moves DEF End
<1>3. CASE Begin(p)
  <2>1. PICK r \in Requests :
          /\ r.cmd = "init" => ~exists
          /\ proc' = [proc EXCEPT ![p] = [Idle EXCEPT !.req = r, !.todo = Plan[r.cmd],
                                                      !.sawStore = r.cmd = "init"]]
    BY <1>3 DEF Begin
  <2>2. Command(proc'[p])
    BY <1>1, <2>1, IdleCommand, PlansAreSteps DEF Command
  <2>3. proc'[p].sawStore => proc'[p].data = store
    BY <1>1, <2>1, IdleCommand DEF Command, IInv, SnapshotsCurrent
  <2> QED
    BY <1>1, <2>1, <2>2, <2>3, Moves
<1>4. CASE (WriteTrash(p) /\ ~End(p)) \/ DropCopy(p)
  <2> DEFINE next == [proc EXCEPT ![p].todo = Tail(@)]
  <2>1. proc' = next \/ proc' = StaleTrash(next)
    BY <1>4 DEF WriteTrash, DropCopy
  <2>2. proc[p].todo # <<>>
    BY <1>4 DEF WriteTrash, DropCopy, At
  <2>3. /\ DOMAIN next = Procs
        /\ \A q \in Procs : /\ Command(next[q])
                            /\ next[q].data = proc[q].data /\ next[q].sawStore = proc[q].sawStore
    BY <1>1, <2>2, Advances DEF Command
  <2> HIDE DEF next
  <2>4. /\ DOMAIN proc' = Procs
        /\ \A q \in Procs : /\ Command(proc'[q])
                            /\ proc'[q].data = proc[q].data /\ proc'[q].sawStore = proc[q].sawStore
    BY <2>1, <2>3, StaleTrashKeepsCommands
  <2> QED
    BY <1>1, <2>4 DEF IInv, CommandsInFlight, SnapshotsCurrent
<1>5. CASE UpdateMeta(p) /\ ~End(p)
  <2>1. PICK f : proc' = [proc EXCEPT ![p] = [Idle EXCEPT !.req = Request("verify", {f}, None, None, "none"),
                                                   !.todo = Plan["verify"]]]
    BY <1>5 DEF UpdateMeta
  <2>2. /\ Plan["verify"] \in Seq(Steps)
        /\ \A i \in 1..Len(Plan["verify"]) : Plan["verify"][i] # "writeStore"
    BY DEF Plan, Steps
  <2>3. Command(proc'[p]) /\ ~proc'[p].sawStore
    BY <1>1, <2>1, <2>2, IdleCommand DEF Command, Legal, Request
  <2> QED
    BY <1>1, <2>1, <2>3, Moves
<1> QED
  BY <1>2, <1>3, <1>4, <1>5 DEF Stop

(* A write of the store makes every snapshot of it stale. *)
LEMMA WriteStoreKeepsIInv ==
  ASSUME NEW p \in Procs, IInv, WriteStore(p)
  PROVE  IInv'
<1>1. /\ DOMAIN proc = Procs
      /\ \A q \in Procs : Command(proc[q])
      /\ proc[p].todo # <<>>
  BY DEF IInv, CommandsInFlight, WriteStore, At
<1>2. CASE End(p) /\ UNCHANGED <<store, exists>>
  BY <1>1, <1>2, IdleCommand, Moves DEF End
<1>3. CASE proc[p].sawStore
  <2> DEFINE next == [proc EXCEPT ![p].todo = Tail(@)]
             done == [proc EXCEPT ![p] = Idle]
  <2>1. exists' = TRUE /\ (proc' = StaleStore(next) \/ proc' = StaleStore(done))
    BY <1>3 DEF WriteStore
  <2>2. DOMAIN next = Procs /\ \A q \in Procs : Command(next[q])
    BY <1>1, Advances DEF Command
  <2>3. DOMAIN done = Procs /\ \A q \in Procs : Command(done[q])
    BY <1>1, IdleCommand
  <2> HIDE DEF next, done
  <2>4. ASSUME NEW procs, DOMAIN procs = Procs, \A q \in Procs : Command(procs[q])
        PROVE  /\ DOMAIN StaleStore(procs) = Procs
               /\ \A q \in Procs : Command(StaleStore(procs)[q]) /\ ~StaleStore(procs)[q].sawStore
    BY <2>4 DEF StaleStore, Command
  <2>5. DOMAIN proc' = Procs /\ \A q \in Procs : Command(proc'[q]) /\ ~proc'[q].sawStore
    BY <2>1, <2>2, <2>3, <2>4
  <2> QED
    BY <2>1, <2>5 DEF IInv, CommandsInFlight, SnapshotsCurrent
<1> QED
  BY <1>2, <1>3 DEF WriteStore

LEMMA NextIInv == SecretAssumption /\ IInv /\ [Next]_vars => IInv'
<1> SUFFICES ASSUME SecretAssumption, IInv, [Next]_vars PROVE IInv'
  OBVIOUS
<1>1. ASSUME NEW p \in Procs,
             ReadStore(p) \/ ReadMeta(p) \/ ReadTrash(p) \/ RereadTrash(p)
      PROVE  IInv'
  BY <1>1, ReadsKeepIInv
<1>2. ASSUME NEW p \in Procs,
             Begin(p) \/ Stop(p) \/ WriteTrash(p) \/ DropCopy(p) \/ UpdateMeta(p)
      PROVE  IInv'
  BY <1>2, OtherStepsKeepIInv
<1>3. ASSUME NEW p \in Procs, WriteStore(p) PROVE IInv'
  BY <1>3, WriteStoreKeepsIInv
<1>4. CASE WeekPasses
  BY <1>4 DEF WeekPasses, IInv, CommandsInFlight, SnapshotsCurrent
<1>5. CASE UNCHANGED vars
  BY <1>5 DEF vars, IInv, CommandsInFlight, SnapshotsCurrent
<1> QED
  BY <1>1, <1>2, <1>3, <1>4, <1>5 DEF Next

-----------------------------------------------------------------------------
(* No lost update *)

(* What a command writes agrees with what it read, outside the fields it names. *)
LEMMA WritesOnlyWhatItNames ==
  ASSUME NEW p \in Procs, NEW f, Cmd(p) \in Writers \ {"init"},
         f \notin Named(p), f # proc[p].req.to
  PROVE  ValueOf(NewStore(p), f) = ValueOf(proc[p].data, f)
<1> DEFINE data == proc[p].data
           back == Picked(proc[p].trash, Named(p))
<1>1. CASE Cmd(p) \in {"set", "rotate", "import"}
  BY <1>1 DEF NewStore, ValueOf, Put
<1>2. CASE Cmd(p) = "rename"
  BY <1>2 DEF NewStore, ValueOf, Put, Without, Restrict
<1>3. CASE Cmd(p) \in {"rm", "purge"}
  BY <1>3 DEF NewStore, ValueOf, Without, Restrict
<1>4. CASE Cmd(p) = "undo"
  BY <1>4 DEF NewStore, ValueOf, Put
<1>5. CASE Cmd(p) = "restore"
  <2>1. f \notin back
    BY DEF Picked
  <2> QED
    BY <1>5, <2>1 DEF NewStore, ValueOf
<1> QED
  BY <1>1, <1>2, <1>3, <1>4, <1>5 DEF Writers

(* The steps that change the store are the writes whose snapshot is current. *)
LEMMA StoreChanges ==
  ASSUME Next, store' # store
  PROVE  \E p \in Procs : WriteStore(p) /\ proc[p].sawStore /\ store' = NewStore(p)
<1>1. PICK p \in Procs : WriteStore(p)
  <2>1. ASSUME NEW p \in Procs, Begin(p) \/ Stop(p) \/ ReadStore(p) PROVE store' = store
    BY <2>1 DEF Begin, Stop, ReadStore
  <2>2. ASSUME NEW p \in Procs, ReadMeta(p) PROVE store' = store
    BY <2>2 DEF ReadMeta
  <2>3. ASSUME NEW p \in Procs, ReadTrash(p) \/ RereadTrash(p) PROVE store' = store
    BY <2>3 DEF ReadTrash, RereadTrash
  <2>4. ASSUME NEW p \in Procs, WriteTrash(p) \/ DropCopy(p) PROVE store' = store
    BY <2>4 DEF WriteTrash, DropCopy
  <2>5. ASSUME NEW p \in Procs, UpdateMeta(p) PROVE store' = store
    BY <2>5 DEF UpdateMeta
  <2>6. WeekPasses => store' = store
    BY DEF WeekPasses
  <2> QED BY <2>1, <2>2, <2>3, <2>4, <2>5, <2>6, Zenon DEF Next
<1> QED
  BY <1>1 DEF WriteStore

(* A write of the store moves its command on. *)
LEMMA WriteMovesOn ==
  ASSUME NEW p \in Procs, IInv, WriteStore(p)
  PROVE  proc'[p].todo # proc[p].todo
<1>1. Command(proc[p]) /\ proc[p].todo # <<>> /\ DOMAIN proc = Procs
  BY DEF IInv, CommandsInFlight, WriteStore, At
<1>2. Tail(proc[p].todo) # proc[p].todo
  BY <1>1, Advances
<1>3. proc'[p].todo = Tail(proc[p].todo) \/ proc'[p].todo = <<>>
  <2> DEFINE rest == Tail(proc[p].todo)
             next == [proc EXCEPT ![p].todo = rest]
             done == [proc EXCEPT ![p] = Idle]
  <2>1. proc' = done \/ proc' = StaleStore(next) \/ proc' = StaleStore(done)
    BY DEF WriteStore, End
  <2> HIDE DEF rest
  <2>2. /\ next[p].todo = rest /\ "todo" \in DOMAIN next[p]
        /\ done[p].todo = <<>> /\ "todo" \in DOMAIN done[p]
    BY <1>1, IdleCommand DEF Command
  <2> HIDE DEF next, done
  <2>3. ASSUME NEW procs, "todo" \in DOMAIN procs[p]
        PROVE  StaleStore(procs)[p].todo = procs[p].todo
    BY <2>3 DEF StaleStore
  <2> QED
    BY <2>1, <2>2, <2>3 DEF rest
<1> QED
  BY <1>1, <1>2, <1>3

(* A command that is about to write the store is one that does so, and init *)
(* finds no store.                                                          *)
LEMMA WriterAtWork ==
  ASSUME NEW p \in Procs, IInv, WriteStore(p)
  PROVE  Cmd(p) \in Writers /\ (Cmd(p) = "init" => proc[p].data = Nothing)
<1>1. Command(proc[p]) /\ At(p, "writeStore")
  BY DEF IInv, CommandsInFlight, WriteStore
<1>2. 1 \in 1..Len(proc[p].todo) /\ proc[p].todo[1] = "writeStore"
  BY <1>1, EmptySeq, LenProperties DEF Command, Legal, At
<1> QED
  BY <1>1, <1>2 DEF Command, Legal, Cmd

(* Every behaviour keeps the invariant. *)
LEMMA Invariant == Spec => []IInv
<1>1. Init => IInv
  BY InitIInv, SecretAssumption
<1>2. IInv /\ [Next]_vars => IInv'
  BY NextIInv, SecretAssumption
<1> QED
  BY <1>1, <1>2, PTL DEF Spec

(* However many bb processes run, a field of the store changes only by a    *)
(* command that names it and has seen the value it replaces.                *)
THEOREM NoLostUpdate == Spec => StoreWritesSeeWhatTheyReplace
<1> DEFINE Seen(f, p) == /\ At(p, "writeStore")
                         /\ proc'[p].todo # proc[p].todo
                         /\ f \in Named(p) \cup {proc[p].req.to}
                         /\ ValueOf(proc[p].data, f) = ValueOf(store, f)
           SeenByAll == \A f \in Fields : ValueOf(store', f) # ValueOf(store, f) =>
                          \E p \in Procs : Seen(f, p)
<1>1. IInv /\ [Next]_vars => [SeenByAll]_vars
  <2> SUFFICES ASSUME IInv, Next, NEW f \in Fields, ValueOf(store', f) # ValueOf(store, f)
               PROVE  \E p \in Procs : Seen(f, p)
    OBVIOUS
  <2>1. PICK p \in Procs : WriteStore(p) /\ proc[p].sawStore /\ store' = NewStore(p)
    BY StoreChanges
  <2>2. proc[p].data = store
    BY <2>1 DEF IInv, SnapshotsCurrent
  <2>3. Cmd(p) \in Writers \ {"init"}
    <3>1. CASE Cmd(p) = "init"
      BY <2>1, <2>2, <3>1, WriterAtWork DEF NewStore
    <3> QED
      BY <2>1, <3>1, WriterAtWork
  <2>4. f \in Named(p) \cup {proc[p].req.to}
    BY <2>1, <2>2, <2>3, WritesOnlyWhatItNames
  <2>5. At(p, "writeStore") /\ proc'[p].todo # proc[p].todo
    BY <2>1, WriteMovesOn DEF WriteStore
  <2> QED
    BY <2>2, <2>4, <2>5
<1> QED
  BY <1>1, Invariant, PTL DEF Spec, StoreWritesSeeWhatTheyReplace

-----------------------------------------------------------------------------
(* Types: what holds of a command by the steps it has left *)

Movers == {"rm", "rotate", "undo", "import"}
Known == Writers \cup {"list", "empty", "meta", "use", "verify"}

(* The steps a list of steps names, and those a command has left. *)
Of(todo) == {todo[i] : i \in DOMAIN todo}
Left(job) == Of(job.todo)

OnPlan(c, todo) ==
  todo # <<>> => /\ c \in Known
                 /\ \E i \in DOMAIN Plan[c] : todo = SubSeq(Plan[c], i, Len(Plan[c]))

(* What is left after the step h of the command c. *)
AfterStep(c, h, L) ==
  /\ h # "readStore" => h \notin L
  /\ h = "updateMeta" => L = {} /\ c \notin {"init", "list", "empty"}
  /\ h = "writeTrash" => c \in Movers \cup {"purge", "restore", "list", "empty"}
  /\ h = "writeStore" => c \in Writers /\ "readStore" \notin L
  /\ h \in {"rereadTrash", "dropCopy"} =>
       c = "undo" /\ L \cap {"readStore", "readMeta", "readTrash", "writeTrash", "writeStore"} = {}
  /\ c = "init" => h = "writeStore"
  /\ h = "readTrash" /\ c \in {"rm", "purge", "import", "rotate"} => L \cap {"readStore", "readMeta"} = {}
  /\ h = "readStore" /\ c \in Movers => "readMeta" \in L
  /\ h \in {"readMeta", "writeTrash", "writeStore"} /\ c \in Movers \cup {"purge"} => "readStore" \notin L
  /\ h \in {"writeTrash", "writeStore"} /\ c \in Movers \cup {"purge"} => L \cap {"readMeta", "readTrash"} = {}
  /\ h = "writeStore" /\ c \in Movers \cup {"purge"} => "writeTrash" \notin L
  /\ h \in {"readStore", "readMeta", "readTrash"} /\ c \in Movers \cup {"purge"} => "writeTrash" \in L
  /\ h \in {"readStore", "readMeta", "readTrash"} /\ c \in Writers => "writeStore" \in L
  /\ h = "writeTrash" /\ c \in Movers \cup {"purge"} => "writeStore" \in L
  /\ h = "readTrash" /\ c \in {"undo", "restore"} => "readStore" \in L
  /\ h = "readTrash" /\ c = "undo" => "readMeta" \in L
  /\ h \in {"readTrash", "writeTrash"} /\ c = "undo" => "rereadTrash" \in L
  /\ h = "dropCopy" => "rereadTrash" \notin L
  /\ h # "updateMeta" /\ c # "init" /\ ~(h = "writeTrash" /\ c \in {"list", "empty"}) => L # {}

Reqs == [cmd : Known \cup {"none"}, fields : SUBSET Fields, to : Fields \cup {None},
         value : Values \cup {None}, option : Options \cup {"none", "force"}]

Slips == [field : Fields, value : Values, meta : SUBSET Metas,
          rotated : BOOLEAN, time : Nat, old : BOOLEAN]

Jobs == [req : Reqs, todo : Seq(Steps), time : Nat,
         data : Maps(Values), trash : SUBSET Slips, meta : Maps(Metas), undone : SUBSET Slips,
         sawStore : BOOLEAN, sawTrash : BOOLEAN]

Dated(entries, now) == \A e \in entries : 1 <= e.time /\ e.time <= now

(* What a command knows once it has read the files. *)
Asked(r) ==
  /\ r.cmd \in {"set", "rotate", "import"} => r.value \in Values
  /\ r.cmd = "rename" => r.to \in Fields
  /\ r.cmd \in {"set", "rotate", "rename", "undo", "meta"} => \E f \in Fields : r.fields = {f}

Informed(job) ==
  /\ job.req.cmd \in {"rm", "purge", "undo", "meta", "rename", "rotate"} /\ "readStore" \notin Left(job) =>
       job.req.fields \subseteq DOMAIN job.data
  /\ job.req.cmd = "undo" /\ "readTrash" \notin Left(job) =>
       \E e \in job.undone : job.undone = {e} /\ job.req.fields = {e.field}
  /\ job.req.cmd \in Movers /\ "writeTrash" \in Left(job) /\ "readMeta" \notin Left(job) => job.time >= 1

JobOK(job, now) ==
  /\ job \in Jobs /\ OnPlan(job.req.cmd, job.todo) /\ Asked(job.req) /\ Informed(job)
  /\ job.time <= now /\ Dated(job.trash, now) /\ Dated(job.undone, now)

Owes(job) == job.req.cmd \in Movers /\ "readMeta" \in Left(job)
Owing(jobs) == {p \in Procs : Owes(jobs[p])}

FilesOK ==
  /\ store \in Maps(Values) /\ meta \in Maps(Metas) /\ trash \in SUBSET Slips
  /\ exists \in BOOLEAN /\ hasTrash \in BOOLEAN
  /\ ~exists => store = Nothing
  /\ ~hasTrash => trash = {}

TInv ==
  /\ FilesOK /\ Dated(trash, clock)
  /\ begun \in Nat /\ begun <= MaxCommands /\ clock \in Nat /\ weeks \in 0..MaxWeeks
  /\ proc \in [Procs -> Jobs]
  /\ \A p \in Procs : /\ JobOK(proc[p], clock)
                      /\ Cmd(p) = "undo" /\ "writeTrash" \notin Left(proc[p]) => hasTrash
  /\ IsFiniteSet(Owing(proc)) /\ clock + Cardinality(Owing(proc)) <= begun

-----------------------------------------------------------------------------
(* Plans, step by step *)

PlanOK(c) ==
  /\ Plan[c] \in Seq(Steps) /\ Len(Plan[c]) > 0
  /\ \A i \in 1..Len(Plan[c]) : AfterStep(c, Plan[c][i], {Plan[c][j] : j \in (i + 1)..Len(Plan[c])})

(* L is what comes in s after its step i. *)
After(s, i, L) ==
  /\ \A x \in L : \E j \in 1..Len(s) : i < j /\ x = s[j]
  /\ \A j \in 1..Len(s) : i < j => s[j] \in L

Stepwise(c) == \A i \in 1..Len(Plan[c]) : \A L : After(Plan[c], i, L) => AfterStep(c, Plan[c][i], L)

LEMMA PlanStands ==
  ASSUME NEW c, Plan[c] \in Seq(Steps), Len(Plan[c]) > 0, Stepwise(c)
  PROVE  PlanOK(c)
<1>1. ASSUME NEW i \in 1..Len(Plan[c])
      PROVE  AfterStep(c, Plan[c][i], {Plan[c][j] : j \in (i + 1)..Len(Plan[c])})
  <2>1. PICK L : L = {Plan[c][j] : j \in (i + 1)..Len(Plan[c])}
    OBVIOUS
  <2>2. After(Plan[c], i, L)
    BY <2>1 DEF After
  <2> QED BY <2>1, <2>2 DEF Stepwise
<1> QED BY <1>1 DEF PlanOK

LEMMA PlanInit == PlanOK("init")
<1>1. Plan["init"] \in Seq(Steps) /\ Len(Plan["init"]) = 1 /\ Len(Plan["init"]) > 0
  BY DEF Plan, Steps
<1>2. Stepwise("init")
  BY <1>1 DEF Stepwise, After, AfterStep, Movers, Writers, Plan
<1> QED BY <1>1, <1>2, PlanStands

LEMMA PlanSet == PlanOK("set")
<1>1. Plan["set"] \in Seq(Steps) /\ Len(Plan["set"]) = 3 /\ Len(Plan["set"]) > 0
  BY DEF Plan, Steps
<1>2. Stepwise("set")
  BY <1>1 DEF Stepwise, After, AfterStep, Movers, Writers, Plan
<1> QED BY <1>1, <1>2, PlanStands

LEMMA PlanRename == PlanOK("rename")
<1>1. Plan["rename"] \in Seq(Steps) /\ Len(Plan["rename"]) = 3 /\ Len(Plan["rename"]) > 0
  BY DEF Plan, Steps
<1>2. Stepwise("rename")
  BY <1>1 DEF Stepwise, After, AfterStep, Movers, Writers, Plan
<1> QED BY <1>1, <1>2, PlanStands

LEMMA PlanRm == PlanOK("rm")
<1>1. Plan["rm"] \in Seq(Steps) /\ Len(Plan["rm"]) = 6 /\ Len(Plan["rm"]) > 0
  BY DEF Plan, Steps
<1>2. Stepwise("rm")
  BY <1>1 DEF Stepwise, After, AfterStep, Movers, Writers, Plan
<1> QED BY <1>1, <1>2, PlanStands

LEMMA PlanPurge == PlanOK("purge")
<1>1. Plan["purge"] \in Seq(Steps) /\ Len(Plan["purge"]) = 6 /\ Len(Plan["purge"]) > 0
  BY DEF Plan, Steps
<1>2. Stepwise("purge")
  BY <1>1 DEF Stepwise, After, AfterStep, Movers, Writers, Plan
<1> QED BY <1>1, <1>2, PlanStands

LEMMA PlanImport == PlanOK("import")
<1>1. Plan["import"] \in Seq(Steps) /\ Len(Plan["import"]) = 6 /\ Len(Plan["import"]) > 0
  BY DEF Plan, Steps
<1>2. Stepwise("import")
  BY <1>1 DEF Stepwise, After, AfterStep, Movers, Writers, Plan
<1> QED BY <1>1, <1>2, PlanStands

LEMMA PlanRotate == PlanOK("rotate")
<1>1. Plan["rotate"] \in Seq(Steps) /\ Len(Plan["rotate"]) = 7 /\ Len(Plan["rotate"]) > 0
  BY DEF Plan, Steps
<1>2. Stepwise("rotate")
  BY <1>1 DEF Stepwise, After, AfterStep, Movers, Writers, Plan
<1> QED BY <1>1, <1>2, PlanStands

LEMMA PlanUndo == PlanOK("undo")
<1>1. Plan["undo"] \in Seq(Steps) /\ Len(Plan["undo"]) = 8 /\ Len(Plan["undo"]) > 0
  BY DEF Plan, Steps
<1>2. Stepwise("undo")
  BY <1>1 DEF Stepwise, After, AfterStep, Movers, Writers, Plan
<1> QED BY <1>1, <1>2, PlanStands

LEMMA PlanRestore == PlanOK("restore")
<1>1. Plan["restore"] \in Seq(Steps) /\ Len(Plan["restore"]) = 5 /\ Len(Plan["restore"]) > 0
  BY DEF Plan, Steps
<1>2. Stepwise("restore")
  BY <1>1 DEF Stepwise, After, AfterStep, Movers, Writers, Plan
<1> QED BY <1>1, <1>2, PlanStands

LEMMA PlanList == PlanOK("list")
<1>1. Plan["list"] \in Seq(Steps) /\ Len(Plan["list"]) = 2 /\ Len(Plan["list"]) > 0
  BY DEF Plan, Steps
<1>2. Stepwise("list")
  BY <1>1 DEF Stepwise, After, AfterStep, Movers, Writers, Plan
<1> QED BY <1>1, <1>2, PlanStands

LEMMA PlanEmpty == PlanOK("empty")
<1>1. Plan["empty"] \in Seq(Steps) /\ Len(Plan["empty"]) = 2 /\ Len(Plan["empty"]) > 0
  BY DEF Plan, Steps
<1>2. Stepwise("empty")
  BY <1>1 DEF Stepwise, After, AfterStep, Movers, Writers, Plan
<1> QED BY <1>1, <1>2, PlanStands

LEMMA PlanMeta == PlanOK("meta")
<1>1. Plan["meta"] \in Seq(Steps) /\ Len(Plan["meta"]) = 2 /\ Len(Plan["meta"]) > 0
  BY DEF Plan, Steps
<1>2. Stepwise("meta")
  BY <1>1 DEF Stepwise, After, AfterStep, Movers, Writers, Plan
<1> QED BY <1>1, <1>2, PlanStands

LEMMA PlanUse == PlanOK("use")
<1>1. Plan["use"] \in Seq(Steps) /\ Len(Plan["use"]) = 3 /\ Len(Plan["use"]) > 0
  BY DEF Plan, Steps
<1>2. Stepwise("use")
  BY <1>1 DEF Stepwise, After, AfterStep, Movers, Writers, Plan
<1> QED BY <1>1, <1>2, PlanStands

LEMMA PlanVerify == PlanOK("verify")
<1>1. Plan["verify"] \in Seq(Steps) /\ Len(Plan["verify"]) = 3 /\ Len(Plan["verify"]) > 0
  BY DEF Plan, Steps
<1>2. Stepwise("verify")
  BY <1>1 DEF Stepwise, After, AfterStep, Movers, Writers, Plan
<1> QED BY <1>1, <1>2, PlanStands

LEMMA PlansOK == \A c \in Known : PlanOK(c)
BY PlanInit, PlanSet, PlanRename, PlanRm, PlanPurge, PlanImport, PlanRotate, PlanUndo, PlanRestore, PlanList, PlanEmpty, PlanMeta, PlanUse, PlanVerify DEF Known, Writers

LEMMA OfNothing == ASSUME NEW todo \in Seq(Steps) PROVE (Of(todo) = {} <=> todo = <<>>) /\ Of(todo) \subseteq Steps
<1>1. Len(todo) \in Nat /\ DOMAIN todo = 1..Len(todo) /\ \A i \in 1..Len(todo) : todo[i] \in Steps
  BY LenProperties, ElementOfSeq
<1>2. CASE todo = <<>>
  BY <1>1, <1>2 DEF Of
<1>3. CASE todo # <<>>
  <2>1. 1 \in DOMAIN todo
    BY <1>1, <1>3, EmptySeq
  <2> QED BY <1>1, <1>3, <2>1 DEF Of
<1> QED BY <1>2, <1>3

(* A command in the middle of its plan does the next step of it. *)
LEMMA StepOff ==
  ASSUME NEW c, NEW todo, OnPlan(c, todo), todo # <<>>
  PROVE  /\ c \in Known /\ todo \in Seq(Steps) /\ Tail(todo) \in Seq(Steps)
         /\ Of(todo) = {Head(todo)} \cup Of(Tail(todo))
         /\ AfterStep(c, Head(todo), Of(Tail(todo)))
         /\ OnPlan(c, Tail(todo))
<1>1. PICK i \in DOMAIN Plan[c] : todo = SubSeq(Plan[c], i, Len(Plan[c])) /\ c \in Known
  BY DEF OnPlan
<1>2. PICK s : s = Plan[c]
  OBVIOUS
<1>3. PICK n : n = Len(s)
  OBVIOUS
<1>4. /\ s \in Seq(Steps) /\ n \in Nat /\ DOMAIN s = 1..n
      /\ AfterStep(c, s[i], {s[j] : j \in (i + 1)..n})
      /\ \A k \in 1..n : s[k] \in Steps
  <2>1. PlanOK(c)
    BY <1>1, PlansOK
  <2>2. s \in Seq(Steps)
    BY <1>2, <2>1 DEF PlanOK
  <2>3. n \in Nat /\ DOMAIN s = 1..n /\ \A k \in 1..n : s[k] \in Steps
    BY <1>3, <2>2, LenProperties, ElementOfSeq
  <2> QED BY <1>1, <1>2, <1>3, <2>1, <2>2, <2>3 DEF PlanOK
<1>5. i \in 1..n /\ todo = SubSeq(s, i, n)
  BY <1>1, <1>2, <1>3, <1>4
<1>6. /\ Head(todo) = s[i] /\ Tail(todo) = SubSeq(s, i + 1, n)
  <2>1. i \in 1..Len(s) /\ n \in i..Len(s)
    BY <1>3, <1>4, <1>5
  <2> QED BY <1>5, <2>1, HeadTailOfSubSeq, SMTT(30)
<1>7. ASSUME NEW m \in 1..(n + 1)
      PROVE  /\ SubSeq(s, m, n) \in Seq(Steps)
             /\ Of(SubSeq(s, m, n)) = {s[j] : j \in m..n}
  <2>1. /\ SubSeq(s, m, n) \in Seq(Steps)
        /\ Len(SubSeq(s, m, n)) = n - m + 1
        /\ \A k \in 1..(n - m + 1) : SubSeq(s, m, n)[k] = s[m + k - 1]
    BY <1>4, SubSeqProperties
  <2>2. PICK t \in Seq(Steps) : t = SubSeq(s, m, n)
    BY <2>1
  <2>3. DOMAIN t = 1..(n - m + 1) /\ \A k \in 1..(n - m + 1) : t[k] = s[m + k - 1]
    BY <2>1, <2>2, LenProperties
  <2>4. ASSUME NEW j \in m..n PROVE s[j] \in Of(t)
    <3>1. j - m + 1 \in 1..(n - m + 1) /\ m + (j - m + 1) - 1 = j
      BY <1>4
    <3>2. t[j - m + 1] = s[j]
      BY <2>3, <3>1
    <3> QED BY <2>3, <3>1, <3>2 DEF Of
  <2>5. ASSUME NEW x \in Of(t) PROVE x \in {s[j] : j \in m..n}
    <3>1. PICK k \in 1..(n - m + 1) : x = s[m + k - 1]
      BY <2>3 DEF Of
    <3>2. m + k - 1 \in m..n
      BY <1>4
    <3> QED BY <3>1, <3>2
  <2>6. Of(t) = {s[j] : j \in m..n}
    BY <2>4, <2>5
  <2> QED BY <2>1, <2>2, <2>6
<1>8. i + 1 \in 1..(n + 1) /\ i \in 1..(n + 1)
  BY <1>4, <1>5
<1>9. /\ todo \in Seq(Steps) /\ Tail(todo) \in Seq(Steps)
      /\ Of(todo) = {s[j] : j \in i..n} /\ Of(Tail(todo)) = {s[j] : j \in (i + 1)..n}
  BY <1>5, <1>6, <1>7, <1>8
<1>10. {s[j] : j \in i..n} = {s[i]} \cup {s[j] : j \in (i + 1)..n}
  BY <1>4, <1>5
<1>11. OnPlan(c, Tail(todo))
  <2>1. CASE i = n
    BY <1>4, <1>6, <2>1, SubSeqEmpty DEF OnPlan
  <2>2. CASE i # n
    <3>1. i + 1 \in DOMAIN Plan[c]
      BY <1>2, <1>4, <1>5, <2>2
    <3> QED BY <1>1, <1>2, <1>3, <1>6, <3>1 DEF OnPlan
  <2> QED BY <2>1, <2>2
<1>12. AfterStep(c, Head(todo), Of(Tail(todo)))
  BY <1>4, <1>6, <1>9
<1>13. Of(todo) = {Head(todo)} \cup Of(Tail(todo))
  BY <1>6, <1>9, <1>10
<1> QED BY <1>1, <1>9, <1>11, <1>12, <1>13

(* A command that begins has its whole plan before it. *)
LEMMA PlanBegins ==
  ASSUME NEW c \in Known
  PROVE  Plan[c] \in Seq(Steps) /\ Plan[c] # <<>> /\ OnPlan(c, Plan[c])
<1>1. Plan[c] \in Seq(Steps) /\ Len(Plan[c]) > 0
  BY PlansOK DEF PlanOK
<1>2. PICK s \in Seq(Steps) : s = Plan[c]
  BY <1>1
<1>3. Len(s) \in Nat /\ Len(s) > 0 /\ DOMAIN s = 1..Len(s)
  BY <1>1, <1>2, LenProperties
<1>4. 1 \in DOMAIN s /\ s = SubSeq(s, 1, Len(s)) /\ s # <<>>
  BY <1>3, SubSeqFull, EmptySeq
<1> QED BY <1>1, <1>2, <1>4 DEF OnPlan

(* What some plans begin with. *)
LEMMA PlansInclude ==
  /\ \A c \in Movers : "readMeta" \in Of(Plan[c]) /\ "readStore" \in Of(Plan[c]) /\ "writeTrash" \in Of(Plan[c])
  /\ \A c \in {"purge", "meta", "rename"} : "readStore" \in Of(Plan[c])
  /\ "readTrash" \in Of(Plan["undo"]) /\ "writeStore" \in Of(Plan["undo"]) /\ "writeTrash" \in Of(Plan["purge"])
<1>1. ASSUME NEW c \in Movers PROVE "readMeta" \in Of(Plan[c]) /\ "readStore" \in Of(Plan[c]) /\ "writeTrash" \in Of(Plan[c])
  <2>1. /\ Plan["rm"][2] = "readMeta" /\ 2 \in DOMAIN Plan["rm"] /\ Plan["rm"][1] = "readStore" /\ 1 \in DOMAIN Plan["rm"]
        /\ Plan["rm"][4] = "writeTrash" /\ 4 \in DOMAIN Plan["rm"]
    BY DEF Plan
  <2>2. /\ Plan["import"][2] = "readMeta" /\ 2 \in DOMAIN Plan["import"] /\ Plan["import"][1] = "readStore"
        /\ 1 \in DOMAIN Plan["import"] /\ Plan["import"][4] = "writeTrash" /\ 4 \in DOMAIN Plan["import"]
    BY DEF Plan
  <2>3. /\ Plan["rotate"][3] = "readMeta" /\ 3 \in DOMAIN Plan["rotate"] /\ Plan["rotate"][1] = "readStore"
        /\ 1 \in DOMAIN Plan["rotate"] /\ Plan["rotate"][5] = "writeTrash" /\ 5 \in DOMAIN Plan["rotate"]
    BY DEF Plan
  <2>4. /\ Plan["undo"][3] = "readMeta" /\ 3 \in DOMAIN Plan["undo"] /\ Plan["undo"][2] = "readStore"
        /\ 2 \in DOMAIN Plan["undo"] /\ Plan["undo"][4] = "writeTrash" /\ 4 \in DOMAIN Plan["undo"]
    BY DEF Plan
  <2> QED BY <2>1, <2>2, <2>3, <2>4 DEF Of, Movers
<1>2. ASSUME NEW c \in {"purge", "meta", "rename"} PROVE "readStore" \in Of(Plan[c])
  <2>1. /\ Plan["purge"][1] = "readStore" /\ 1 \in DOMAIN Plan["purge"]
        /\ Plan["meta"][1] = "readStore" /\ 1 \in DOMAIN Plan["meta"]
        /\ Plan["rename"][1] = "readStore" /\ 1 \in DOMAIN Plan["rename"]
    BY DEF Plan
  <2> QED BY <2>1 DEF Of
<1>3. /\ Plan["undo"][1] = "readTrash" /\ 1 \in DOMAIN Plan["undo"] /\ Plan["undo"][5] = "writeStore"
      /\ 5 \in DOMAIN Plan["undo"] /\ Plan["purge"][4] = "writeTrash" /\ 4 \in DOMAIN Plan["purge"]
  BY DEF Plan
<1> QED BY <1>1, <1>2, <1>3 DEF Of

-----------------------------------------------------------------------------
(* Maps, and the newest of some entries *)

LEMMA MapIs ==
  ASSUME NEW V, NEW f
  PROVE  f \in Maps(V) <=> /\ f = [x \in DOMAIN f |-> f[x]] /\ DOMAIN f \subseteq Fields
                           /\ \A x \in DOMAIN f : f[x] \in V
<1>1. ASSUME f \in Maps(V)
      PROVE  /\ f = [x \in DOMAIN f |-> f[x]] /\ DOMAIN f \subseteq Fields
             /\ \A x \in DOMAIN f : f[x] \in V
  <2>1. PICK S \in SUBSET Fields : f \in [S -> V]
    BY <1>1 DEF Maps
  <2> QED BY <2>1
<1>2. ASSUME f = [x \in DOMAIN f |-> f[x]], DOMAIN f \subseteq Fields, \A x \in DOMAIN f : f[x] \in V
      PROVE  f \in Maps(V)
  <2>1. f \in [DOMAIN f -> V]
    BY <1>2
  <2> QED BY <1>2, <2>1 DEF Maps
<1> QED BY <1>1, <1>2

LEMMA NothingIs == Nothing \in Maps(Values) /\ Nothing \in Maps(Metas) /\ DOMAIN Nothing = {}
<1>1. DOMAIN Nothing = {} /\ Nothing = [x \in DOMAIN Nothing |-> Nothing[x]]
  BY DEF Nothing
<1> QED BY <1>1, MapIs

LEMMA PutIs ==
  ASSUME NEW V, NEW map \in Maps(V), NEW F \in SUBSET Fields, NEW v \in V
  PROVE  Put(map, F, v) \in Maps(V)
<1>1. PICK g : g = Put(map, F, v)
  OBVIOUS
<1>2. DOMAIN map \subseteq Fields /\ \A y \in DOMAIN map : map[y] \in V
  BY MapIs
<1>3. /\ DOMAIN g = DOMAIN map \cup F /\ g = [y \in DOMAIN g |-> g[y]]
      /\ \A y \in DOMAIN g : g[y] = IF y \in F THEN v ELSE map[y]
  BY <1>1 DEF Put
<1>4. DOMAIN g \subseteq Fields /\ \A y \in DOMAIN g : g[y] \in V
  BY <1>2, <1>3
<1> QED BY <1>1, <1>3, <1>4, MapIs

LEMMA WithoutIs == ASSUME NEW V, NEW map \in Maps(V), NEW F PROVE Without(map, F) \in Maps(V)
<1>1. PICK g : g = Without(map, F)
  OBVIOUS
<1>2. DOMAIN map \subseteq Fields /\ \A y \in DOMAIN map : map[y] \in V
  BY MapIs
<1>3. /\ DOMAIN g = DOMAIN map \ F /\ g = [y \in DOMAIN g |-> g[y]]
      /\ \A y \in DOMAIN g : g[y] = map[y]
  BY <1>1 DEF Without, Restrict
<1>4. DOMAIN g \subseteq Fields /\ \A y \in DOMAIN g : g[y] \in V
  BY <1>2, <1>3
<1> QED BY <1>1, <1>3, <1>4, MapIs

(* Among entries whose times are bounded, one is the newest. *)
LEMMA NewestIs ==
  ASSUME NEW entries \in SUBSET Slips, entries # {}, NEW now \in Nat, Dated(entries, now)
  PROVE  Newest(entries) \in entries /\ \A e \in entries : e.time <= Newest(entries).time
<1> DEFINE Ages == {now - e.time : e \in entries}
<1>1. ASSUME NEW e \in entries PROVE e.time \in Nat /\ e.time <= now /\ now - e.time \in Ages
  BY DEF Dated, Slips
<1>2. Ages \in SUBSET Nat /\ Ages # {}
  BY <1>1
<1> HIDE DEF Ages
<1>3. PICK a \in Ages : \A b \in Ages : ~(<<b, a>> \in OpToRel(<, Nat))
  BY <1>2, NatLessThanWellFounded, WFMin
<1>4. \A b \in Ages : ~(b < a)
  BY <1>2, <1>3 DEF OpToRel
<1>5. PICK e \in entries : a = now - e.time
  BY <1>3 DEF Ages
<1>6. \A c \in entries : c.time <= e.time
  BY <1>1, <1>2, <1>4, <1>5
<1> QED BY <1>5, <1>6 DEF Newest

LEMMA CopiesAre ==
  ASSUME NEW entries \in SUBSET Slips, NEW now \in Nat, Dated(entries, now), NEW f, Copies(entries, f) # {}
  PROVE  Newest(Copies(entries, f)) \in entries /\ Newest(Copies(entries, f)).field = f
<1>1. Copies(entries, f) \in SUBSET Slips /\ Dated(Copies(entries, f), now)
  BY DEF Copies, Dated
<1>2. Newest(Copies(entries, f)) \in Copies(entries, f)
  BY <1>1, NewestIs
<1> QED BY <1>2 DEF Copies

LEMMA PrunedAre == ASSUME NEW entries, NEW now PROVE /\ Prune(entries) \subseteq entries
                                                     /\ Dated(entries, now) => Dated(Prune(entries), now)
BY DEF Prune, Dated

-----------------------------------------------------------------------------
(* Types: one command goes on *)

(* The same command, but for what it knows to be current. *)
Same(a, b) ==
  /\ b.req = a.req /\ b.todo = a.todo /\ b.time = a.time /\ b.data = a.data
  /\ b.trash = a.trash /\ b.meta = a.meta /\ b.undone = a.undone

LEMMA OKStays ==
  ASSUME NEW a, NEW b \in Jobs, NEW n \in Nat, NEW m \in Nat, n <= m, JobOK(a, n), Same(a, b)
  PROVE  JobOK(b, m) /\ Left(a) = Left(b) /\ (Owes(a) <=> Owes(b))
<1>1. a \in Jobs
  BY DEF JobOK
<1>2. Left(a) = Left(b) /\ b.req = a.req
  BY DEF Same, Left
<1>3. Informed(b)
  BY <1>2, Zenon DEF JobOK, Informed, Same
<1>4. OnPlan(b.req.cmd, b.todo) /\ Asked(b.req)
  BY DEF JobOK, Same
<1>5. b.time <= m /\ Dated(b.trash, m) /\ Dated(b.undone, m)
  BY <1>1 DEF JobOK, Same, Dated, Jobs, Slips
<1> QED BY <1>2, <1>3, <1>4, <1>5 DEF JobOK, Owes

LEMMA IdleIs == Idle \in Jobs /\ (\A n \in Nat : JobOK(Idle, n)) /\ ~Owes(Idle) /\ Left(Idle) = {}
<1>1. Request("none", {}, None, None, "none") \in Reqs
  BY DEF Request, Reqs
<1>2. Idle \in Jobs
  BY <1>1, NothingIs DEF Idle, Jobs
<1>3. /\ Idle.req.cmd = "none" /\ Idle.todo = <<>> /\ Idle.time = 0 /\ Idle.trash = {} /\ Idle.undone = {}
  BY DEF Idle, Request
<1>4. Left(Idle) = {}
  <2>1. DOMAIN Idle.todo = {}
    BY <1>3
  <2> QED BY <2>1 DEF Left, Of
<1>5. ASSUME NEW n \in Nat PROVE JobOK(Idle, n)
  BY <1>2, <1>3, <1>4 DEF JobOK, OnPlan, Asked, Informed, Dated, Movers
<1> QED BY <1>2, <1>3, <1>4, <1>5 DEF Owes, Movers

(* The deletion times still to be taken fit under the bound: a command goes on, *)
(* one takes its time, or one begins.                                           *)
Pays(p) ==
  \/ clock' = clock /\ begun' = begun /\ (Owes(proc'[p]) => Owes(proc[p]))
  \/ clock' = clock /\ begun' = begun + 1
  \/ clock' = clock + 1 /\ begun' = begun /\ Owes(proc[p]) /\ ~Owes(proc'[p])

LEMMA JobsGo ==
  ASSUME TInv, NEW p \in Procs, proc' \in [Procs -> Jobs],
         \A q \in Procs \ {p} : Same(proc[q], proc'[q]),
         JobOK(proc'[p], clock'), Pays(p), begun' <= MaxCommands, UNCHANGED weeks,
         FilesOK', Dated(trash', clock'), hasTrash => hasTrash',
         proc'[p].req.cmd = "undo" /\ "writeTrash" \notin Left(proc'[p]) => hasTrash'
  PROVE  TInv'
<1>1. /\ clock \in Nat /\ clock' \in Nat /\ clock <= clock' /\ begun \in Nat /\ begun' \in Nat
  BY DEF TInv, Pays
<1>2. ASSUME NEW q \in Procs
      PROVE  /\ JobOK(proc'[q], clock')
             /\ proc'[q].req.cmd = "undo" /\ "writeTrash" \notin Left(proc'[q]) => hasTrash'
             /\ q # p => (Owes(proc'[q]) <=> Owes(proc[q]))
  <2>1. CASE q = p
    BY <2>1
  <2>2. CASE q # p
    <3>1. /\ JobOK(proc'[q], clock') /\ Left(proc[q]) = Left(proc'[q]) /\ (Owes(proc[q]) <=> Owes(proc'[q]))
      BY <1>1, <2>2, OKStays DEF TInv
    <3>2. proc'[q].req = proc[q].req
      BY <2>2 DEF Same
    <3> QED BY <3>1, <3>2 DEF TInv, Cmd
  <2> QED BY <2>1, <2>2
<1> DEFINE S == Owing(proc)
           T == Owing(proc')
<1>3. /\ T \subseteq S \cup {p} /\ (~Owes(proc'[p]) \/ Owes(proc[p]) => T \subseteq S)
      /\ ~Owes(proc'[p]) => T \subseteq S \ {p}
      /\ Owes(proc[p]) => p \in S
  BY <1>2 DEF Owing
<1>4. IsFiniteSet(S) /\ Cardinality(S) \in Nat /\ clock + Cardinality(S) <= begun
  BY FS_CardinalityType DEF TInv
<1> HIDE DEF S, T
<1>5. IsFiniteSet(T) /\ clock' + Cardinality(T) <= begun'
  <2>1. CASE clock' = clock /\ begun' = begun /\ (Owes(proc'[p]) => Owes(proc[p]))
    <3>1. IsFiniteSet(T) /\ Cardinality(T) <= Cardinality(S) /\ Cardinality(T) \in Nat
      BY <1>3, <1>4, <2>1, FS_Subset, FS_CardinalityType
    <3> QED BY <1>1, <1>4, <2>1, <3>1
  <2>2. CASE clock' = clock /\ begun' = begun + 1
    <3>1. IsFiniteSet(S \cup {p}) /\ Cardinality(S \cup {p}) <= Cardinality(S) + 1 /\ Cardinality(S \cup {p}) \in Nat
      <4>1. /\ IsFiniteSet(S \cup {p})
            /\ Cardinality(S \cup {p}) = IF p \in S THEN Cardinality(S) ELSE Cardinality(S) + 1
        BY <1>4, FS_AddElement
      <4> QED BY <1>4, <4>1
    <3>2. IsFiniteSet(T) /\ Cardinality(T) <= Cardinality(S \cup {p}) /\ Cardinality(T) \in Nat
      BY <1>3, <3>1, FS_Subset, FS_CardinalityType
    <3> QED BY <1>1, <1>4, <2>2, <3>1, <3>2
  <2>3. CASE clock' = clock + 1 /\ begun' = begun /\ Owes(proc[p]) /\ ~Owes(proc'[p])
    <3>1. p \in S /\ IsFiniteSet(S \ {p}) /\ Cardinality(S \ {p}) = Cardinality(S) - 1 /\ Cardinality(S \ {p}) \in Nat
      BY <1>3, <1>4, <2>3, FS_RemoveElement, FS_CardinalityType
    <3>2. IsFiniteSet(T) /\ Cardinality(T) <= Cardinality(S \ {p}) /\ Cardinality(T) \in Nat
      BY <1>3, <2>3, <3>1, FS_Subset, FS_CardinalityType
    <3> QED BY <1>1, <1>4, <2>3, <3>1, <3>2
  <2> QED BY <2>1, <2>2, <2>3 DEF Pays
<1>6. weeks' \in 0..MaxWeeks
  BY DEF TInv
<1> QED BY <1>1, <1>2, <1>5, <1>6 DEF TInv, S, T, Cmd

(* A command ends, or only it goes on, and no file is written. *)
LEMMA OneGoes ==
  ASSUME TInv, NEW p \in Procs, NEW job \in Jobs, proc' = [proc EXCEPT ![p] = job],
         UNCHANGED <<store, exists, trash, hasTrash, meta, begun, clock, weeks>>,
         JobOK(job, clock), Owes(job) => Owes(proc[p]),
         job.req.cmd = "undo" /\ "writeTrash" \notin Left(job) => hasTrash
  PROVE  TInv'
<1>1. proc' \in [Procs -> Jobs] /\ proc'[p] = job /\ \A q \in Procs \ {p} : Same(proc[q], proc'[q])
  BY DEF TInv, Same
<1>2. FilesOK' /\ Dated(trash', clock') /\ begun' <= MaxCommands
  BY DEF TInv, FilesOK, Dated
<1> QED BY <1>1, <1>2, JobsGo DEF Pays

LEMMA EndGoes ==
  ASSUME TInv, NEW p \in Procs, End(p), UNCHANGED <<begun, clock, weeks>>,
         FilesOK', Dated(trash', clock'), hasTrash => hasTrash'
  PROVE  TInv'
<1>1. proc' \in [Procs -> Jobs] /\ proc'[p] = Idle /\ \A q \in Procs \ {p} : Same(proc[q], proc'[q])
  BY IdleIs DEF TInv, Same, End
<1>2. JobOK(Idle, clock') /\ ~Owes(Idle) /\ begun' <= MaxCommands
  BY IdleIs DEF TInv
<1>3. Idle.req.cmd = "none"
  BY DEF Idle, Request
<1> QED BY <1>1, <1>2, <1>3, JobsGo DEF Pays

-----------------------------------------------------------------------------
(* Types: every step *)

(* The command p is in the middle of its plan. *)
Midway(p, L) ==
  /\ proc[p] \in Jobs /\ Cmd(p) \in Known /\ Tail(proc[p].todo) \in Seq(Steps)
  /\ L = Of(Tail(proc[p].todo)) /\ Left(proc[p]) = {Head(proc[p].todo)} \cup L
  /\ AfterStep(Cmd(p), Head(proc[p].todo), L)
  /\ OnPlan(Cmd(p), Tail(proc[p].todo))

LEMMA MidwayIs == ASSUME TInv, NEW p \in Procs, proc[p].todo # <<>> PROVE \E L : Midway(p, L)
<1>1. JobOK(proc[p], clock)
  BY DEF TInv
<1>2. PICK L : L = Of(Tail(proc[p].todo))
  OBVIOUS
<1>3. Midway(p, L)
  BY <1>1, <1>2, StepOff DEF Midway, JobOK, Left, Cmd
<1> QED BY <1>3

LEMMA RequestIs == ASSUME NEW r \in Requests PROVE r \in Reqs /\ r.cmd \in Known /\ Asked(r)
<1>1. r \in Reqs /\ r.cmd \in Known
  BY DEF Requests, Request, Reqs, Known, Writers, Single, Some
<1>2. Asked(r)
  BY DEF Requests, Request, Asked, Single, Some
<1> QED BY <1>1, <1>2

LEMMA BeginTyped == ASSUME TInv, NEW p \in Procs, Begin(p) PROVE TInv'
<1>1. PICK r \in Requests :
        /\ begun < MaxCommands /\ begun' = begun + 1
        /\ proc' = [proc EXCEPT ![p] = [Idle EXCEPT !.req = r, !.todo = Plan[r.cmd], !.sawStore = r.cmd = "init"]]
        /\ UNCHANGED <<store, exists, trash, hasTrash, meta, clock, weeks>>
  BY DEF Begin
<1>2. /\ r \in Reqs /\ r.cmd \in Known /\ Asked(r)
      /\ Plan[r.cmd] \in Seq(Steps) /\ OnPlan(r.cmd, Plan[r.cmd])
  BY RequestIs, PlanBegins
<1>3. PICK job : job = [Idle EXCEPT !.req = r, !.todo = Plan[r.cmd], !.sawStore = r.cmd = "init"]
  OBVIOUS
<1>4. /\ job \in Jobs /\ job.req = r /\ job.todo = Plan[r.cmd] /\ job.time = 0
      /\ job.trash = {} /\ job.undone = {}
  <2>1. (r.cmd = "init") \in BOOLEAN
    BY Zenon
  <2> QED BY <1>2, <1>3, <2>1, IdleIs DEF Idle, Jobs
<1>5. Informed(job)
  BY <1>2, <1>4, PlansInclude DEF Informed, Left, Movers
<1>6. JobOK(job, clock)
  BY <1>2, <1>4, <1>5 DEF JobOK, Dated, TInv
<1>7. job.req.cmd = "undo" => "writeTrash" \in Left(job)
  BY <1>4, PlansInclude DEF Left, Movers
<1>8. proc' \in [Procs -> Jobs] /\ proc'[p] = job /\ \A q \in Procs \ {p} : Same(proc[q], proc'[q])
  BY <1>1, <1>3, <1>4 DEF TInv, Same
<1>9. FilesOK' /\ Dated(trash', clock') /\ begun' <= MaxCommands
  BY <1>1, SecretAssumption DEF TInv, FilesOK, Dated
<1> QED BY <1>1, <1>6, <1>7, <1>8, <1>9, JobsGo DEF Pays

LEMMA StopTyped == ASSUME TInv, NEW p \in Procs, Stop(p) PROVE TInv'
<1>1. FilesOK' /\ Dated(trash', clock')
  BY DEF Stop, TInv, FilesOK, Dated
<1> QED BY <1>1, EndGoes DEF Stop

LEMMA ReadStoreTyped == ASSUME TInv, NEW p \in Procs, ReadStore(p) PROVE TInv'
<1>1. UNCHANGED <<store, exists, trash, hasTrash, meta, begun, clock, weeks>>
  BY DEF ReadStore
<1>2. CASE End(p)
  <2>1. FilesOK' /\ Dated(trash', clock')
    BY <1>1 DEF TInv, FilesOK, Dated
  <2> QED BY <1>1, <1>2, <2>1, EndGoes
<1>3. CASE ~End(p)
  <2> DEFINE cut == IF Cmd(p) \in {"rm", "purge", "use"} THEN Named(p) \cap DOMAIN store ELSE Named(p)
             req == [proc[p].req EXCEPT !.fields = cut]
             job == [proc[p] EXCEPT !.data = store, !.sawStore = TRUE, !.todo = Tail(@), !.req = req]
  <2>1. proc' = [proc EXCEPT ![p] = job] /\ ~Refused(p) /\ At(p, "readStore")
    <3>1. /\ proc' = [proc EXCEPT ![p].data = store, ![p].sawStore = TRUE, ![p].todo = Tail(@),
                                  ![p].req.fields = IF Cmd(p) \in {"rm", "purge", "use"}
                                                    THEN @ \cap DOMAIN store ELSE @]
          /\ ~Refused(p) /\ At(p, "readStore")
      BY <1>3 DEF ReadStore
    <3>2. proc \in [Procs -> Jobs]
      BY DEF TInv
    <3>3. job = [proc[p] EXCEPT !.data = store, !.sawStore = TRUE, !.todo = Tail(@),
                                !.req.fields = IF Cmd(p) \in {"rm", "purge", "use"}
                                               THEN @ \cap DOMAIN store ELSE @]
      BY <3>2 DEF Jobs, Reqs, Named
    <3> QED BY <3>1, <3>2, <3>3
  <2>2. PICK L : Midway(p, L)
    BY <2>1, MidwayIs DEF At
  <2>3. JobOK(proc[p], clock) /\ proc[p].req \in Reqs
    BY <2>2 DEF TInv, Midway, Jobs
  <2>4. req \in Reqs /\ req.cmd = Cmd(p) /\ req.fields = cut /\ req.to = proc[p].req.to /\ req.value = proc[p].req.value
    BY <2>3 DEF Reqs, Cmd, Named
  <2> HIDE DEF req
  <2>5. /\ job \in Jobs /\ job.req = req /\ job.todo = Tail(proc[p].todo) /\ job.data = store
        /\ job.time = proc[p].time /\ job.trash = proc[p].trash /\ job.undone = proc[p].undone
    BY <2>2, <2>4 DEF Midway, TInv, FilesOK, Jobs
  <2> HIDE DEF job
  <2>6. Asked(job.req)
    BY <2>3, <2>4, <2>5 DEF JobOK, Asked, Cmd, Named
  <2>7. Left(job) = L /\ Left(proc[p]) = {"readStore"} \cup L /\ (Cmd(p) \in Movers => "readMeta" \in L)
    BY <2>1, <2>2, <2>5 DEF Left, Midway, At, AfterStep
  <2>8. Cmd(p) \in {"rm", "purge", "undo", "meta", "rename", "rotate"} => cut \subseteq DOMAIN store
    <3>1. CASE Cmd(p) \in {"rm", "purge"}
      BY <3>1
    <3>2. CASE Cmd(p) \in {"undo", "meta", "rename", "rotate"}
      <4>1. Field(p) \in DOMAIN store
        BY <2>1, <3>2 DEF Refused
      <4>2. PICK f \in Fields : Named(p) = {f}
        BY <2>3, <3>2 DEF JobOK, Asked, Cmd, Named
      <4>3. Field(p) = f
        BY <4>2 DEF Field
      <4> QED BY <3>2, <4>1, <4>2, <4>3
    <3> QED BY <3>1, <3>2
  <2>9. Informed(job)
    <3>1. ASSUME Cmd(p) = "undo", "readTrash" \notin L
          PROVE  \E e \in job.undone : job.undone = {e} /\ job.req.fields = {e.field}
      <4>1. "readTrash" \notin Left(proc[p]) /\ job.req.fields = Named(p)
        BY <2>4, <2>5, <2>7, <3>1
      <4> QED BY <2>3, <2>5, <3>1, <4>1 DEF JobOK, Informed, Cmd, Named
    <3> QED BY <2>4, <2>5, <2>7, <2>8, <3>1 DEF Informed
  <2>10. JobOK(job, clock)
    BY <2>2, <2>3, <2>4, <2>5, <2>6, <2>9 DEF JobOK, Midway
  <2>11. Owes(job) => Owes(proc[p])
    BY <2>4, <2>5, <2>7 DEF Owes, Cmd
  <2>12. job.req.cmd = "undo" /\ "writeTrash" \notin Left(job) => hasTrash
    BY <2>4, <2>5, <2>7 DEF TInv
  <2> QED BY <1>1, <2>1, <2>5, <2>10, <2>11, <2>12, OneGoes
<1> QED BY <1>2, <1>3

(* What a forced import that replaces nothing has left. *)
LEMMA ShortPlan ==
  /\ OnPlan("import", <<"writeStore", "updateMeta">>)
  /\ <<"writeStore", "updateMeta">> \in Seq(Steps)
  /\ Of(<<"writeStore", "updateMeta">>) = {"writeStore", "updateMeta"}
<1> DEFINE s == <<"readStore", "readMeta", "readTrash", "writeTrash", "writeStore", "updateMeta">>
           t == <<"writeStore", "updateMeta">>
<1>1. s = Plan["import"] /\ s \in Seq(Steps) /\ Len(s) = 6 /\ s[5] = "writeStore" /\ s[6] = "updateMeta"
  BY DEF Plan, Steps
<1>2. t \in Seq(Steps) /\ Len(t) = 2 /\ t[1] = "writeStore" /\ t[2] = "updateMeta" /\ t # <<>>
  BY DEF Steps
<1> HIDE DEF s, t
<1>3. 5 \in DOMAIN s /\ 5 \in 1..6 /\ 6 \in 5..6
  BY <1>1
<1>4. /\ SubSeq(s, 5, 6) \in Seq(Steps)
      /\ Len(SubSeq(s, 5, 6)) = 2
      /\ \A k \in 1..2 : SubSeq(s, 5, 6)[k] = s[5 + k - 1]
  <2>1. \A i \in 5..6 : s[i] \in Steps
    BY <1>1, ElementOfSeq
  <2> QED BY <2>1, SubSeqProperties
<1>5. t = SubSeq(s, 5, 6)
  <2>1. PICK u \in Seq(Steps) : u = SubSeq(s, 5, 6)
    BY <1>4
  <2>2. u[1] = "writeStore" /\ u[2] = "updateMeta" /\ Len(u) = 2
    BY <1>1, <1>4, <2>1
  <2>3. u = t
    BY <1>2, <2>2
  <2> QED BY <2>1, <2>3
<1>6. "import" \in Known
  BY DEF Known, Writers
<1>7. OnPlan("import", t)
  BY <1>1, <1>3, <1>5, <1>6, Zenon DEF OnPlan
<1>8. Of(t) = {"writeStore", "updateMeta"}
  <2>1. DOMAIN t = 1..2
    BY <1>2
  <2> QED BY <1>2, <2>1 DEF Of
<1> QED BY <1>2, <1>7, <1>8 DEF t

LEMMA ReadMetaTyped == ASSUME TInv, NEW p \in Procs, ReadMeta(p) PROVE TInv'
<1>1. UNCHANGED <<store, exists, trash, hasTrash, meta, begun, weeks>> /\ At(p, "readMeta")
  BY DEF ReadMeta
<1>2. CASE End(p) /\ UNCHANGED clock
  <2>1. FilesOK' /\ Dated(trash', clock')
    BY <1>1, <1>2 DEF TInv, FilesOK, Dated
  <2> QED BY <1>1, <1>2, <2>1, EndGoes
<1>3. CASE ~(End(p) /\ UNCHANGED clock)
  <2> DEFINE skip == Cmd(p) = "import" /\ Replaced(p) = {}
             now == IF Cmd(p) \in Movers /\ ~skip THEN clock + 1 ELSE clock
             todo == IF skip THEN <<"writeStore", "updateMeta">> ELSE Tail(proc[p].todo)
             job == [proc[p] EXCEPT !.meta = meta, !.time = now, !.todo = todo]
  <2>1. proc' = [proc EXCEPT ![p] = job] /\ clock' = now
    <3>1. /\ proc' = [proc EXCEPT ![p].meta = meta, ![p].time = now,
                                  ![p].todo = IF skip THEN <<"writeStore", "updateMeta">> ELSE Tail(@)]
          /\ clock' = now
      BY <1>3, Zenon DEF ReadMeta, Movers
    <3>2. proc \in [Procs -> Jobs]
      BY DEF TInv
    <3> HIDE DEF skip, now
    <3> QED BY <3>1, <3>2 DEF Jobs
  <2>2. PICK L : Midway(p, L)
    BY <1>1, MidwayIs DEF At
  <2>3. /\ JobOK(proc[p], clock) /\ proc[p] \in Jobs /\ clock \in Nat
        /\ Left(proc[p]) = {"readMeta"} \cup L
        /\ Cmd(p) \in Movers => "readStore" \notin L
        /\ "readMeta" \notin L
    BY <1>1, <2>2 DEF TInv, JobOK, Midway, At, AfterStep
  <2>4. /\ skip => Cmd(p) = "import" /\ todo = <<"writeStore", "updateMeta">>
        /\ ~skip => todo = Tail(proc[p].todo)
        /\ now \in Nat /\ clock <= now
        /\ Cmd(p) \in Movers /\ ~skip => now = clock + 1
        /\ ~(Cmd(p) \in Movers /\ ~skip) => now = clock
    BY <2>3
  <2> HIDE DEF skip, now, todo
  <2>5. /\ todo \in Seq(Steps) /\ OnPlan(Cmd(p), todo) /\ "readMeta" \notin Of(todo)
        /\ "readStore" \notin Of(todo) \/ ("readStore" \in Left(proc[p]) /\ ~skip)
        /\ "readTrash" \in Left(proc[p]) => "readTrash" \in Of(todo) \/ skip
        /\ skip => "writeTrash" \notin Of(todo)
        /\ ~skip => Of(todo) = L
    <3>1. CASE skip
      <4>1. OnPlan(Cmd(p), todo) /\ todo \in Seq(Steps) /\ Of(todo) = {"writeStore", "updateMeta"}
        BY <2>4, <3>1, ShortPlan, Zenon
      <4> QED BY <3>1, <4>1
    <3>2. CASE ~skip
      BY <2>2, <2>3, <2>4, <3>2 DEF Midway
    <3> QED BY <3>1, <3>2
  <2>6. /\ job \in Jobs /\ job.req = proc[p].req /\ job.todo = todo /\ job.data = proc[p].data
        /\ job.time = now /\ job.trash = proc[p].trash /\ job.undone = proc[p].undone
    BY <2>3, <2>4, <2>5 DEF TInv, FilesOK, Jobs
  <2> HIDE DEF job
  <2>7. Left(job) = Of(todo) /\ job.req.cmd = Cmd(p)
    BY <2>6 DEF Left, Cmd
  <2>8. Informed(job)
    <3>1. ASSUME Cmd(p) \in {"rm", "purge", "undo", "meta", "rename", "rotate"}, "readStore" \notin Left(job)
          PROVE  job.req.fields \subseteq DOMAIN job.data
      <4>1. ~skip
        BY <2>4, <3>1
      <4>2. "readStore" \notin Left(proc[p])
        BY <2>3, <2>5, <2>7, <3>1, <4>1
      <4> QED BY <2>3, <2>6, <3>1, <4>2 DEF JobOK, Informed, Cmd
    <3>2. ASSUME Cmd(p) = "undo", "readTrash" \notin Left(job)
          PROVE  \E e \in job.undone : job.undone = {e} /\ job.req.fields = {e.field}
      <4>1. ~skip
        BY <2>4, <3>2
      <4>2. "readTrash" \notin Left(proc[p])
        BY <2>3, <2>5, <2>7, <3>2, <4>1
      <4> QED BY <2>3, <2>6, <3>2, <4>2 DEF JobOK, Informed, Cmd
    <3>3. ASSUME Cmd(p) \in Movers, "writeTrash" \in Left(job) PROVE job.time >= 1
      BY <2>3, <2>4, <2>5, <2>6, <2>7, <3>3
    <3> QED BY <2>7, <3>1, <3>2, <3>3 DEF Informed
  <2>9. JobOK(job, clock')
    BY <2>1, <2>3, <2>4, <2>5, <2>6, <2>7, <2>8 DEF JobOK, Dated, Cmd, Jobs, Slips
  <2>10. Pays(p)
    <3>1. proc'[p] = job /\ ~Owes(job) /\ (Owes(proc[p]) <=> Cmd(p) \in Movers)
      BY <2>1, <2>3, <2>5, <2>7 DEF Owes, Cmd, TInv
    <3> QED BY <1>1, <2>1, <2>4, <3>1 DEF Pays
  <2>11. proc' \in [Procs -> Jobs] /\ proc'[p] = job /\ \A q \in Procs \ {p} : Same(proc[q], proc'[q])
    BY <2>1, <2>6 DEF TInv, Same
  <2>12. FilesOK' /\ Dated(trash', clock') /\ begun' <= MaxCommands
    BY <1>1, <2>1, <2>3, <2>4 DEF TInv, FilesOK, Dated, Slips
  <2>13. job.req.cmd = "undo" /\ "writeTrash" \notin Left(job) => hasTrash
    <3>1. ASSUME Cmd(p) = "undo", "writeTrash" \notin Left(job) PROVE hasTrash
      <4>1. ~skip
        BY <2>4, <3>1
      <4> QED BY <2>3, <2>5, <2>7, <3>1, <4>1 DEF TInv
    <3> QED BY <2>7, <3>1
  <2> QED BY <1>1, <2>9, <2>10, <2>11, <2>12, <2>13, JobsGo
<1> QED BY <1>2, <1>3

LEMMA ReadTrashTyped == ASSUME TInv, NEW p \in Procs, ReadTrash(p) PROVE TInv'
<1>1. UNCHANGED <<store, exists, trash, hasTrash, meta, begun, clock, weeks>> /\ At(p, "readTrash")
  BY DEF ReadTrash
<1>2. CASE End(p)
  <2>1. FilesOK' /\ Dated(trash', clock')
    BY <1>1 DEF TInv, FilesOK, Dated
  <2> QED BY <1>1, <1>2, <2>1, EndGoes
<1>3. CASE ~End(p)
  <2> DEFINE read == Prune(trash)
             skip == Cmd(p) = "purge" /\ ~hasTrash
             copies == IF Cmd(p) = "undo" THEN {Newest(Rotations(read, Field(p)))} ELSE {}
             todo == IF skip THEN Tail(Tail(proc[p].todo)) ELSE Tail(proc[p].todo)
             job == [proc[p] EXCEPT !.trash = read, !.sawTrash = TRUE, !.undone = copies, !.todo = todo]
  <2>1. /\ proc' = [proc EXCEPT ![p] = job]
        /\ Cmd(p) = "undo" => Rotations(read, Field(p)) # {}
    <3>1. /\ proc' = [proc EXCEPT ![p].trash = read, ![p].sawTrash = TRUE, ![p].undone = copies,
                                  ![p].todo = IF skip THEN Tail(Tail(@)) ELSE Tail(@)]
          /\ Cmd(p) = "undo" => Rotations(read, Field(p)) # {}
      BY <1>3, Zenon DEF ReadTrash
    <3>2. proc \in [Procs -> Jobs]
      BY DEF TInv
    <3> HIDE DEF skip, read, copies
    <3> QED BY <3>1, <3>2 DEF Jobs
  <2>2. PICK L : Midway(p, L)
    BY <1>1, MidwayIs DEF At
  <2>3. /\ JobOK(proc[p], clock) /\ proc[p] \in Jobs /\ clock \in Nat
        /\ Left(proc[p]) = {"readTrash"} \cup L
        /\ "readTrash" \notin L /\ L # {} /\ Tail(proc[p].todo) # <<>>
    <3>1. Cmd(p) # "init"
      BY <1>1, <2>2 DEF At, Midway, AfterStep
    <3> QED BY <1>1, <2>2, <3>1, OfNothing DEF TInv, JobOK, Midway, At, AfterStep
  <2>4. /\ skip => Cmd(p) = "purge" /\ todo = Tail(Tail(proc[p].todo))
        /\ ~skip => todo = Tail(proc[p].todo)
    OBVIOUS
  <2> HIDE DEF skip, todo
  <2>5. /\ todo \in Seq(Steps) /\ OnPlan(Cmd(p), todo) /\ Of(todo) \subseteq L
        /\ ~skip => Of(todo) = L
    <3>1. CASE skip
      <4>1. PICK t : t = Tail(proc[p].todo)
        OBVIOUS
      <4>2. OnPlan(Cmd(p), t) /\ t # <<>> /\ Of(t) = L /\ todo = Tail(t)
        BY <2>2, <2>3, <2>4, <3>1, <4>1 DEF Midway
      <4>3. Tail(t) \in Seq(Steps) /\ Of(t) = {Head(t)} \cup Of(Tail(t)) /\ OnPlan(Cmd(p), Tail(t))
        BY <4>2, StepOff
      <4> QED BY <3>1, <4>2, <4>3
    <3>2. CASE ~skip
      BY <2>2, <2>3, <2>4, <3>2 DEF Midway
    <3> QED BY <3>1, <3>2
  <2>6. /\ read \in SUBSET Slips /\ Dated(read, clock)
    BY PrunedAre DEF TInv, FilesOK
  <2> HIDE DEF read
  <2>7. Cmd(p) = "undo" => \E e \in Slips : copies = {e} /\ Named(p) = {e.field} /\ Dated(copies, clock)
    <3>1. ASSUME Cmd(p) = "undo" PROVE \E e \in Slips : copies = {e} /\ Named(p) = {e.field} /\ Dated(copies, clock)
      <4>1. PICK f \in Fields : Named(p) = {f}
        BY <2>3, <3>1 DEF JobOK, Asked, Cmd, Named
      <4>2. Field(p) = f
        BY <4>1 DEF Field
      <4>3. PICK C : C = Rotations(read, f)
        OBVIOUS
      <4>4. C \in SUBSET Slips /\ Dated(C, clock) /\ \A e \in C : e.field = f
        BY <2>6, <4>3 DEF Rotations, Copies, Dated
      <4>5. C # {}
        BY <2>1, <3>1, <4>2, <4>3
      <4>6. Newest(C) \in C
        BY <2>3, <4>4, <4>5, NewestIs
      <4>7. copies = {Newest(C)}
        BY <3>1, <4>2, <4>3
      <4> QED BY <4>1, <4>4, <4>6, <4>7 DEF Dated
    <3> QED BY <3>1
  <2>8. copies \in SUBSET Slips /\ Dated(copies, clock)
    <3>1. CASE Cmd(p) = "undo"
      BY <2>7, <3>1
    <3>2. CASE Cmd(p) # "undo"
      BY <3>2 DEF Dated
    <3> QED BY <3>1, <3>2
  <2> HIDE DEF copies
  <2>9. /\ job \in Jobs /\ job.req = proc[p].req /\ job.todo = todo /\ job.data = proc[p].data
        /\ job.time = proc[p].time /\ job.trash = read /\ job.undone = copies
    BY <2>3, <2>5, <2>6, <2>8 DEF Jobs
  <2> HIDE DEF job
  <2>10. Left(job) = Of(todo) /\ job.req.cmd = Cmd(p) /\ job.req.fields = Named(p)
    BY <2>9 DEF Left, Cmd, Named
  <2>11. Cmd(p) # "purge" => ~skip /\ Left(job) = L
    BY <2>4, <2>5, <2>10
  <2>12. Informed(job)
    <3>1. ASSUME Cmd(p) \in {"rm", "purge", "undo", "meta", "rename", "rotate"}, "readStore" \notin Left(job)
          PROVE  job.req.fields \subseteq DOMAIN job.data
      <4>1. "readStore" \notin Left(proc[p])
        <5>1. CASE skip
          <6>1. Cmd(p) = "purge"
            BY <2>4, <5>1
          <6>2. "readStore" \notin L
            BY <1>1, <2>2, <6>1 DEF Midway, AfterStep, At
          <6> QED BY <2>3, <6>2
        <5>2. CASE ~skip
          BY <2>3, <2>5, <2>10, <3>1, <5>2
        <5> QED BY <5>1, <5>2
      <4> QED BY <2>3, <2>9, <3>1, <4>1 DEF JobOK, Informed, Cmd, Named
    <3>2. ASSUME Cmd(p) = "undo" PROVE \E e \in job.undone : job.undone = {e} /\ job.req.fields = {e.field}
      BY <2>7, <2>9, <2>10, <3>2
    <3>3. ASSUME Cmd(p) \in Movers, "writeTrash" \in Left(job), "readMeta" \notin Left(job) PROVE job.time >= 1
      <4>1. Cmd(p) # "purge"
        BY <3>3 DEF Movers
      <4>2. "writeTrash" \in Left(proc[p]) /\ "readMeta" \notin Left(proc[p])
        BY <2>3, <2>11, <3>3, <4>1
      <4> QED BY <2>3, <2>9, <3>3, <4>2 DEF JobOK, Informed, Cmd
    <3> QED BY <2>10, <3>1, <3>2, <3>3 DEF Informed
  <2>13. JobOK(job, clock)
    BY <2>3, <2>5, <2>6, <2>8, <2>9, <2>12 DEF JobOK, Cmd
  <2>14. Owes(job) => Owes(proc[p])
    BY <2>3, <2>5, <2>9, <2>10 DEF Owes, Cmd
  <2>15. job.req.cmd = "undo" /\ "writeTrash" \notin Left(job) => hasTrash
    BY <2>3, <2>10, <2>11 DEF TInv
  <2> QED BY <1>1, <2>1, <2>9, <2>13, <2>14, <2>15, OneGoes DEF job
<1> QED BY <1>2, <1>3

LEMMA RereadTrashTyped == ASSUME TInv, NEW p \in Procs, RereadTrash(p) PROVE TInv'
<1>1. UNCHANGED <<store, exists, trash, hasTrash, meta, begun, clock, weeks>> /\ At(p, "rereadTrash")
  BY DEF RereadTrash
<1> DEFINE job == [proc[p] EXCEPT !.trash = trash, !.sawTrash = TRUE, !.todo = Tail(@)]
<1>2. proc' = [proc EXCEPT ![p] = job]
  <2>1. proc' = [proc EXCEPT ![p].trash = trash, ![p].sawTrash = TRUE, ![p].todo = Tail(@)]
    BY DEF RereadTrash
  <2>2. proc \in [Procs -> Jobs]
    BY DEF TInv
  <2> QED BY <2>1, <2>2 DEF Jobs
<1>3. PICK L : Midway(p, L)
  BY <1>1, MidwayIs DEF At
<1>4. /\ JobOK(proc[p], clock) /\ proc[p] \in Jobs /\ Left(proc[p]) = {"rereadTrash"} \cup L
      /\ trash \in SUBSET Slips /\ Dated(trash, clock)
  BY <1>1, <1>3 DEF TInv, FilesOK, Midway, At
<1>5. /\ job \in Jobs /\ job.req = proc[p].req /\ job.todo = Tail(proc[p].todo) /\ job.data = proc[p].data
      /\ job.time = proc[p].time /\ job.trash = trash /\ job.undone = proc[p].undone
  BY <1>3, <1>4 DEF Midway, Jobs
<1> HIDE DEF job
<1>6. Left(job) = L
  BY <1>3, <1>5 DEF Left, Midway
<1>7. JobOK(job, clock) /\ (Owes(job) => Owes(proc[p]))
      /\ (job.req.cmd = "undo" /\ "writeTrash" \notin Left(job) => hasTrash)
  <2>1. Informed(job)
    <3>1. \A s \in {"readStore", "readTrash", "writeTrash", "readMeta"} : s \in Left(job) <=> s \in Left(proc[p])
      BY <1>4, <1>6
    <3> QED BY <1>4, <1>5, <3>1 DEF JobOK, Informed
  <2>2. OnPlan(job.req.cmd, job.todo) /\ Asked(job.req)
    BY <1>3, <1>4, <1>5 DEF JobOK, Midway, Cmd
  <2> QED BY <1>4, <1>5, <1>6, <2>1, <2>2 DEF JobOK, Owes, TInv, Cmd
<1> QED BY <1>1, <1>2, <1>5, <1>7, OneGoes

(* A command does its next step and has read nothing new. *)
LEMMA StepsOn ==
  ASSUME TInv, NEW p \in Procs, proc[p].todo # <<>>, Head(proc[p].todo) \notin {"readStore", "readMeta", "readTrash"},
         NEW job \in Jobs, Same([proc[p] EXCEPT !.todo = Tail(@)], job)
  PROVE  /\ JobOK(job, clock) /\ (Owes(job) => Owes(proc[p]))
         /\ job.req = proc[p].req /\ job.todo = Tail(proc[p].todo)
<1>1. PICK L : Midway(p, L)
  BY MidwayIs
<1>2. JobOK(proc[p], clock) /\ proc[p] \in Jobs /\ Left(proc[p]) = {Head(proc[p].todo)} \cup L
  BY <1>1 DEF TInv, Midway
<1>3. /\ job.req = proc[p].req /\ job.todo = Tail(proc[p].todo) /\ job.data = proc[p].data
      /\ job.time = proc[p].time /\ job.trash = proc[p].trash /\ job.undone = proc[p].undone
  BY <1>2 DEF Same, Jobs
<1>4. Left(job) = L
  BY <1>1, <1>3 DEF Left, Midway
<1>5. /\ \A s \in {"readStore", "readTrash", "readMeta"} : s \in Left(job) <=> s \in Left(proc[p])
      /\ "writeTrash" \in Left(job) => "writeTrash" \in Left(proc[p])
  BY <1>2, <1>4
<1>6. Informed(job)
  BY <1>2, <1>3, <1>5 DEF JobOK, Informed
<1>7. OnPlan(job.req.cmd, job.todo) /\ Asked(job.req)
  BY <1>1, <1>2, <1>3 DEF JobOK, Midway, Cmd
<1> QED BY <1>2, <1>3, <1>5, <1>6, <1>7 DEF JobOK, Owes

(* What a command puts in the trash. *)
LEMMA DepositIs ==
  ASSUME TInv, NEW p \in Procs, NEW F \in SUBSET Fields, F \subseteq DOMAIN proc[p].data, proc[p].time >= 1,
         NEW rotated \in BOOLEAN
  PROVE  Deposit(p, F, rotated) \in SUBSET Slips /\ Dated(Deposit(p, F, rotated), clock)
<1>1. /\ proc[p].data \in Maps(Values) /\ proc[p].meta \in Maps(Metas) /\ proc[p].time \in Nat
      /\ proc[p].time <= clock
  BY DEF TInv, JobOK, Jobs
<1>2. ASSUME NEW f \in F PROVE proc[p].data[f] \in Values /\ KeptMeta(proc[p].meta, f) \in SUBSET Metas
  <2>1. proc[p].data[f] \in Values
    BY <1>1, MapIs
  <2>2. \A g \in DOMAIN proc[p].meta : proc[p].meta[g] \in Metas
    BY <1>1, MapIs
  <2> QED BY <2>1, <2>2 DEF KeptMeta
<1>3. ASSUME NEW e \in Deposit(p, F, rotated) PROVE e \in Slips /\ 1 <= e.time /\ e.time <= clock
  <2>1. PICK f \in F : e = [field |-> f, value |-> proc[p].data[f], meta |-> KeptMeta(proc[p].meta, f),
                            rotated |-> rotated, time |-> proc[p].time, old |-> FALSE]
    BY <1>3 DEF Deposit
  <2> QED BY <1>1, <1>2, <2>1 DEF Slips
<1> QED BY <1>3 DEF Dated

LEMMA NewTrashIs ==
  ASSUME TInv, NEW p \in Procs, At(p, "writeTrash")
  PROVE  NewTrash(p) \in SUBSET Slips /\ Dated(NewTrash(p), clock)
<1>1. PICK L : Midway(p, L)
  BY MidwayIs DEF At
<1>2. /\ Cmd(p) \in Movers \cup {"purge", "restore", "list", "empty"}
      /\ Cmd(p) \in Movers => L \cap {"readStore", "readMeta", "readTrash"} = {}
      /\ Left(proc[p]) = {"writeTrash"} \cup L
      /\ JobOK(proc[p], clock) /\ proc[p] \in Jobs
  BY <1>1 DEF Midway, At, AfterStep, TInv
<1>3. PICK read : read = proc[p].trash
  OBVIOUS
<1>4. read \in SUBSET Slips /\ Dated(read, clock) /\ Named(p) \in SUBSET Fields
  BY <1>2, <1>3 DEF JobOK, Jobs, Reqs, Named
<1>5. CASE Cmd(p) \in Movers
  <2>1. proc[p].time >= 1
    BY <1>2, <1>5 DEF JobOK, Informed, Cmd
  <2>2. Cmd(p) # "import" => Named(p) \subseteq DOMAIN proc[p].data
    BY <1>2, <1>5 DEF JobOK, Informed, Cmd, Named, Movers
  <2>3. Replaced(p) \subseteq Named(p) \cap DOMAIN proc[p].data
    BY DEF Replaced
  <2>4. PICK F \in SUBSET Fields, rotated \in BOOLEAN :
          F \subseteq DOMAIN proc[p].data /\ NewTrash(p) = read \cup Deposit(p, F, rotated)
    <3>1. CASE Cmd(p) = "rm"
      BY <1>3, <1>4, <2>2, <3>1 DEF NewTrash
    <3>2. CASE Cmd(p) \in {"rotate", "undo"}
      BY <1>3, <1>4, <2>2, <3>2 DEF NewTrash
    <3>3. CASE Cmd(p) = "import"
      BY <1>3, <1>4, <2>3, <3>3 DEF NewTrash
    <3> QED BY <1>5, <3>1, <3>2, <3>3 DEF Movers
  <2>5. Deposit(p, F, rotated) \in SUBSET Slips /\ Dated(Deposit(p, F, rotated), clock)
    BY <2>1, <2>4, DepositIs
  <2> QED BY <1>4, <2>4, <2>5 DEF Dated
<1>6. CASE Cmd(p) \in {"purge", "restore", "list", "empty"}
  <2>1. NewTrash(p) \subseteq read
    BY <1>3, <1>6 DEF NewTrash, DropKeys
  <2> QED BY <1>4, <2>1 DEF Dated
<1> QED BY <1>2, <1>5, <1>6

(* A write of a file tells the others that what they know of it is stale. *)
LEMMA StaleIs ==
  ASSUME NEW jobs \in [Procs -> Jobs]
  PROVE  /\ StaleTrash(jobs) \in [Procs -> Jobs] /\ StaleStore(jobs) \in [Procs -> Jobs]
         /\ \A q \in Procs : /\ Same(jobs[q], StaleTrash(jobs)[q]) /\ ~StaleTrash(jobs)[q].sawTrash
                             /\ Same(jobs[q], StaleStore(jobs)[q]) /\ ~StaleStore(jobs)[q].sawStore
                             /\ StaleTrash(jobs)[q].sawStore = jobs[q].sawStore
                             /\ StaleStore(jobs)[q].sawTrash = jobs[q].sawTrash
<1>1. ASSUME NEW job \in Jobs
      PROVE  /\ [job EXCEPT !.sawTrash = FALSE] \in Jobs /\ Same(job, [job EXCEPT !.sawTrash = FALSE])
             /\ [job EXCEPT !.sawStore = FALSE] \in Jobs /\ Same(job, [job EXCEPT !.sawStore = FALSE])
             /\ ~[job EXCEPT !.sawTrash = FALSE].sawTrash /\ ~[job EXCEPT !.sawStore = FALSE].sawStore
             /\ [job EXCEPT !.sawTrash = FALSE].sawStore = job.sawStore
             /\ [job EXCEPT !.sawStore = FALSE].sawTrash = job.sawTrash
  BY DEF Jobs, Same
<1> QED BY <1>1 DEF StaleTrash, StaleStore

LEMMA WriteTrashTyped == ASSUME TInv, NEW p \in Procs, WriteTrash(p) PROVE TInv'
<1>1. UNCHANGED <<store, exists, meta, begun, clock, weeks>> /\ At(p, "writeTrash")
  BY DEF WriteTrash
<1>2. CASE End(p) /\ UNCHANGED <<trash, hasTrash>>
  <2>1. FilesOK' /\ Dated(trash', clock')
    BY <1>1, <1>2 DEF TInv, FilesOK, Dated
  <2> QED BY <1>1, <1>2, <2>1, EndGoes
<1>3. CASE proc[p].sawTrash
  <2>1. /\ trash' = NewTrash(p) /\ hasTrash' = TRUE
        /\ proc' = StaleTrash([proc EXCEPT ![p].todo = Tail(@)])
    BY <1>3 DEF WriteTrash
  <2>2. /\ proc' \in [Procs -> Jobs] /\ Same([proc[p] EXCEPT !.todo = Tail(@)], proc'[p])
        /\ \A q \in Procs \ {p} : Same(proc[q], proc'[q])
    <3>1. Tail(proc[p].todo) \in Seq(Steps)
      BY <1>1, MidwayIs DEF Midway, At
    <3>2. PICK next : next = [proc EXCEPT ![p].todo = Tail(@)]
      OBVIOUS
    <3>3. next \in [Procs -> Jobs] /\ next[p] = [proc[p] EXCEPT !.todo = Tail(@)] /\ \A q \in Procs \ {p} : next[q] = proc[q]
      BY <3>1, <3>2 DEF TInv, Jobs
    <3>4. proc' = StaleTrash(next)
      BY <2>1, <3>2
    <3>5. proc' \in [Procs -> Jobs] /\ \A q \in Procs : Same(next[q], proc'[q])
      BY <3>3, <3>4, StaleIs
    <3> QED BY <3>3, <3>5
  <2>3. JobOK(proc'[p], clock) /\ (Owes(proc'[p]) => Owes(proc[p]))
    <3>1. proc'[p] \in Jobs
      BY <2>2
    <3> QED BY <1>1, <2>2, <3>1, StepsOn DEF At
  <2>4. FilesOK' /\ Dated(trash', clock') /\ begun' <= MaxCommands
    BY <1>1, <2>1, NewTrashIs DEF TInv, FilesOK
  <2> QED BY <1>1, <2>1, <2>2, <2>3, <2>4, JobsGo DEF Pays
<1> QED BY <1>2, <1>3 DEF WriteTrash

LEMMA DropCopyTyped == ASSUME TInv, NEW p \in Procs, DropCopy(p) PROVE TInv'
<1>1. UNCHANGED <<store, exists, hasTrash, meta, begun, clock, weeks>> /\ At(p, "dropCopy")
  BY DEF DropCopy
<1>2. PICK next : next = [proc EXCEPT ![p].todo = Tail(@)]
  OBVIOUS
<1>3. /\ proc' = StaleTrash(next) \/ proc' = next
      /\ trash' \subseteq proc[p].trash \/ trash' = trash
  BY <1>2 DEF DropCopy, DropEntry
<1>4. PICK L : Midway(p, L)
  BY <1>1, MidwayIs DEF At
<1>5. next \in [Procs -> Jobs] /\ next[p] = [proc[p] EXCEPT !.todo = Tail(@)] /\ \A q \in Procs \ {p} : next[q] = proc[q]
  BY <1>2, <1>4 DEF TInv, Jobs, Midway
<1>6. \A q \in Procs : Same(next[q], next[q])
  BY DEF Same
<1>7. proc' \in [Procs -> Jobs] /\ \A q \in Procs : Same(next[q], proc'[q])
  BY <1>3, <1>5, <1>6, StaleIs
<1>8. Same([proc[p] EXCEPT !.todo = Tail(@)], proc'[p]) /\ \A q \in Procs \ {p} : Same(proc[q], proc'[q])
  BY <1>5, <1>7
<1>9. JobOK(proc'[p], clock) /\ (Owes(proc'[p]) => Owes(proc[p])) /\ proc'[p].req = proc[p].req
  BY <1>1, <1>7, <1>8, StepsOn DEF At
<1>10. hasTrash
  BY <1>1, <1>4 DEF Midway, At, AfterStep, TInv
<1>11. FilesOK' /\ Dated(trash', clock') /\ begun' <= MaxCommands
  <2>1. JobOK(proc[p], clock) /\ proc[p] \in Jobs
    BY DEF TInv, JobOK
  <2>2. trash' \in SUBSET Slips /\ Dated(trash', clock)
    BY <1>3, <2>1 DEF TInv, FilesOK, JobOK, Jobs, Dated
  <2> QED BY <1>1, <1>10, <2>2 DEF TInv, FilesOK
<1> QED BY <1>1, <1>7, <1>8, <1>9, <1>10, <1>11, JobsGo DEF Pays

-----------------------------------------------------------------------------
(* Types: the store and the sidecar *)

LEMMA NewStoreIs == ASSUME TInv, NEW p \in Procs, At(p, "writeStore") PROVE NewStore(p) \in Maps(Values)
<1>1. PICK L : Midway(p, L)
  BY MidwayIs DEF At
<1>2. /\ Cmd(p) \in Writers /\ JobOK(proc[p], clock) /\ proc[p] \in Jobs
      /\ "readStore" \notin Left(proc[p])
      /\ Cmd(p) = "undo" => "readTrash" \notin Left(proc[p])
  BY <1>1 DEF Midway, At, AfterStep, TInv, Movers
<1>3. PICK data, read, v : data = proc[p].data /\ read = proc[p].trash /\ v = proc[p].req.value
  OBVIOUS
<1>4. /\ data \in Maps(Values) /\ read \in SUBSET Slips /\ Dated(read, clock) /\ clock \in Nat
      /\ Named(p) \in SUBSET Fields
      /\ DOMAIN data \subseteq Fields /\ \A x \in DOMAIN data : data[x] \in Values
  <2>1. data \in Maps(Values) /\ read \in SUBSET Slips /\ Dated(read, clock) /\ clock \in Nat /\ Named(p) \in SUBSET Fields
    BY <1>2, <1>3 DEF TInv, JobOK, Jobs, Reqs, Named
  <2> QED BY <2>1, MapIs
<1>5. CASE Cmd(p) = "init"
  BY <1>5, NothingIs DEF NewStore
<1>6. CASE Cmd(p) \in {"set", "rotate", "import"}
  <2>1. v \in Values
    BY <1>2, <1>3, <1>6 DEF JobOK, Asked, Cmd
  <2>2. NewStore(p) = Put(data, Named(p), v)
    BY <1>3, <1>6 DEF NewStore
  <2> QED BY <1>4, <2>1, <2>2, PutIs
<1>7. CASE Cmd(p) = "rename"
  <2>1. PICK f \in Fields : Named(p) = {f}
    BY <1>2, <1>7 DEF JobOK, Asked, Cmd, Named
  <2>2. Field(p) = f /\ f \in DOMAIN data /\ proc[p].req.to \in Fields
    BY <1>2, <1>3, <1>7, <2>1 DEF JobOK, Asked, Informed, Cmd, Named, Field
  <2>3. NewStore(p) = Put(Without(data, Named(p)), {proc[p].req.to}, data[f])
    BY <1>3, <1>7, <2>2 DEF NewStore
  <2>4. Without(data, Named(p)) \in Maps(Values)
    BY <1>4, WithoutIs
  <2> QED BY <1>4, <2>2, <2>3, <2>4, PutIs
<1>8. CASE Cmd(p) \in {"rm", "purge"}
  <2>1. NewStore(p) = Without(data, Named(p))
    BY <1>3, <1>8 DEF NewStore
  <2> QED BY <1>4, <2>1, WithoutIs
<1>9. CASE Cmd(p) = "undo"
  <2>1. PICK e \in proc[p].undone : proc[p].undone = {e}
    BY <1>2, <1>9 DEF JobOK, Informed, Cmd
  <2>2. e.value \in Values /\ (CHOOSE x \in proc[p].undone : TRUE) = e
    BY <1>2, <2>1 DEF Jobs, Slips
  <2>3. NewStore(p) = Put(data, Named(p), e.value)
    BY <1>3, <1>9, <2>2 DEF NewStore
  <2> QED BY <1>4, <2>2, <2>3, PutIs
<1>10. CASE Cmd(p) = "restore"
  <2>1. PICK g : g = NewStore(p)
    OBVIOUS
  <2>2. g = [f \in DOMAIN data \cup Picked(read, Named(p)) |->
               IF f \in DOMAIN data THEN data[f] ELSE Newest(Copies(read, f)).value]
    BY <1>3, <1>10, <2>1 DEF NewStore
  <2>3. ASSUME NEW f \in Picked(read, Named(p)) PROVE f \in Fields /\ Newest(Copies(read, f)).value \in Values
    <3>1. f \in Fields /\ Newest(Copies(read, f)) \in Slips
      BY <1>4, CopiesAre DEF Picked
    <3> QED BY <3>1 DEF Slips
  <2>4. /\ DOMAIN g = DOMAIN data \cup Picked(read, Named(p)) /\ g = [x \in DOMAIN g |-> g[x]]
        /\ \A f \in DOMAIN g : g[f] = IF f \in DOMAIN data THEN data[f] ELSE Newest(Copies(read, f)).value
    BY <2>2
  <2>5. DOMAIN g \subseteq Fields /\ \A f \in DOMAIN g : g[f] \in Values
    BY <1>4, <2>3, <2>4
  <2> QED BY <2>1, <2>4, <2>5, MapIs
<1> QED BY <1>2, <1>5, <1>6, <1>7, <1>8, <1>9, <1>10 DEF Writers

LEMMA WriteStoreTyped == ASSUME TInv, NEW p \in Procs, WriteStore(p) PROVE TInv'
<1>1. UNCHANGED <<trash, hasTrash, meta, begun, clock, weeks>> /\ At(p, "writeStore")
  BY DEF WriteStore
<1>2. CASE End(p) /\ UNCHANGED <<store, exists>>
  <2>1. FilesOK' /\ Dated(trash', clock')
    BY <1>1, <1>2 DEF TInv, FilesOK, Dated
  <2> QED BY <1>1, <1>2, <2>1, EndGoes
<1>3. CASE proc[p].sawStore
  <2>1. PICK next : /\ proc' = StaleStore(next)
                    /\ next = [proc EXCEPT ![p] = Idle] \/ next = [proc EXCEPT ![p].todo = Tail(@)]
    BY <1>3 DEF WriteStore
  <2>2. store' = NewStore(p) /\ exists' = TRUE
    BY <1>3 DEF WriteStore
  <2>3. next \in [Procs -> Jobs] /\ \A q \in Procs \ {p} : next[q] = proc[q]
    <3>1. Tail(proc[p].todo) \in Seq(Steps)
      BY <1>1, MidwayIs DEF Midway, At
    <3>2. proc \in [Procs -> Jobs] /\ proc[p] \in Jobs
      BY DEF TInv
    <3>3. [proc[p] EXCEPT !.todo = Tail(proc[p].todo)] \in Jobs
      BY <3>1, <3>2 DEF Jobs
    <3>4. [proc EXCEPT ![p].todo = Tail(@)] = [proc EXCEPT ![p] = [proc[p] EXCEPT !.todo = Tail(proc[p].todo)]]
      BY <3>2
    <3> QED BY <2>1, <3>2, <3>3, <3>4, IdleIs
  <2>4. /\ proc' \in [Procs -> Jobs] /\ Same(next[p], proc'[p])
        /\ \A q \in Procs \ {p} : Same(proc[q], proc'[q])
    <3>1. proc' \in [Procs -> Jobs] /\ \A q \in Procs : Same(next[q], proc'[q])
      BY <2>1, <2>3, StaleIs
    <3> QED BY <2>3, <3>1
  <2>5. /\ JobOK(proc'[p], clock) /\ (Owes(proc'[p]) => Owes(proc[p]))
        /\ proc'[p].req.cmd = "undo" /\ "writeTrash" \notin Left(proc'[p]) => hasTrash
    <3>1. CASE next = [proc EXCEPT ![p] = Idle]
      <4>1. next[p] = Idle /\ proc'[p] \in Jobs /\ Idle.req.cmd = "none" /\ clock \in Nat
        BY <2>3, <2>4, <3>1 DEF Idle, Request, TInv
      <4>2. JobOK(proc'[p], clock) /\ ~Owes(proc'[p])
        BY <2>4, <4>1, IdleIs, OKStays
      <4>3. proc'[p].req.cmd = "none"
        BY <2>4, <4>1 DEF Same
      <4> QED BY <4>2, <4>3
    <3>2. CASE next = [proc EXCEPT ![p].todo = Tail(@)]
      <4>1. next[p] = [proc[p] EXCEPT !.todo = Tail(@)] /\ proc'[p] \in Jobs
        BY <2>3, <2>4, <3>2 DEF TInv
      <4>2. /\ JobOK(proc'[p], clock) /\ (Owes(proc'[p]) => Owes(proc[p]))
            /\ proc'[p].req = proc[p].req /\ proc'[p].todo = Tail(proc[p].todo)
        BY <1>1, <2>4, <4>1, StepsOn DEF At
      <4>3. PICK L : Midway(p, L)
        BY <1>1, MidwayIs DEF At
      <4>4. "writeTrash" \notin Left(proc'[p]) => "writeTrash" \notin Left(proc[p])
        BY <1>1, <4>2, <4>3 DEF Midway, Left, At
      <4> QED BY <4>2, <4>4 DEF TInv, Cmd
    <3> QED BY <2>1, <3>1, <3>2
  <2>6. FilesOK' /\ Dated(trash', clock') /\ begun' <= MaxCommands
    <3>1. store' \in Maps(Values)
      BY <1>1, <2>2, NewStoreIs
    <3> QED BY <1>1, <2>2, <3>1 DEF TInv, FilesOK, Dated
  <2> QED BY <1>1, <2>4, <2>5, <2>6, JobsGo DEF Pays
<1> QED BY <1>2, <1>3 DEF WriteStore

LEMMA MetasAre ==
  /\ Blank \in Metas
  /\ \A m \in Metas, v \in Values \cup {None} : [m EXCEPT !.expires = v] \in Metas
  /\ \A m \in Metas, b \in BOOLEAN : [m EXCEPT !.used = b] \in Metas
  /\ \A m \in Metas, f \in Fields : [m EXCEPT !.target = f] \in Metas
  /\ \A o : \A m \in Metas, v \in Values : Apply(m, v, o) \in Metas
<1>1. Blank \in Metas
  BY DEF Blank, Metas
<1>2. \A m \in Metas, v \in Values \cup {None} : [m EXCEPT !.expires = v] \in Metas
  BY DEF Metas
<1>3. \A m \in Metas, b \in BOOLEAN : [m EXCEPT !.used = b] \in Metas
  BY DEF Metas
<1>4. \A m \in Metas, f \in Fields : [m EXCEPT !.target = f] \in Metas
  BY DEF Metas
<1>5. ASSUME NEW o, NEW m \in Metas, NEW v \in Values PROVE Apply(m, v, o) \in Metas
  <2>1. Apply(m, v, o) = [m EXCEPT !.expires = v] \/ Apply(m, v, o) = m
    BY DEF Apply, Metas
  <2> QED BY <1>2, <2>1
<1> QED BY <1>1, <1>2, <1>3, <1>4, <1>5

LEMMA MetaOfIs ==
  ASSUME NEW metas \in Maps(Metas), NEW f
  PROVE  MetaOf(metas, f) \in Metas /\ Cleared(metas, f) \in Metas
<1>1. MetaOf(metas, f) \in Metas
  BY MetasAre, MapIs DEF MetaOf
<1> QED BY <1>1, MetasAre DEF Cleared

(* A map in which some fields have a new value. *)
Rewrites(V, map, F, new) ==
  /\ DOMAIN new = DOMAIN map \cup F /\ new = [f \in DOMAIN new |-> new[f]]
  /\ \A f \in F : new[f] \in V
  /\ \A f \in DOMAIN map \ F : new[f] = map[f]

LEMMA Rewritten ==
  ASSUME NEW V, NEW map \in Maps(V), NEW F \in SUBSET Fields, NEW new, Rewrites(V, map, F, new)
  PROVE  new \in Maps(V)
<1>1. DOMAIN map \subseteq Fields /\ \A f \in DOMAIN map : map[f] \in V
  BY MapIs
<1>2. DOMAIN new \subseteq Fields /\ \A f \in DOMAIN new : new[f] \in V
  BY <1>1 DEF Rewrites
<1> QED BY <1>2, MapIs DEF Rewrites

LEMMA NewMetaIs ==
  ASSUME TInv, NEW p \in Procs, UpdateMeta(p)
  PROVE  meta' \in Maps(Metas)
<1>1. At(p, "updateMeta")
  BY DEF UpdateMeta
<1>2. PICK L : Midway(p, L)
  BY <1>1, MidwayIs DEF At
<1>3. /\ Cmd(p) \in Known \ {"init", "list", "empty"} /\ JobOK(proc[p], clock) /\ proc[p] \in Jobs
      /\ Left(proc[p]) = {"updateMeta"}
  BY <1>1, <1>2 DEF Midway, At, AfterStep, TInv
<1>4. PICK data, read, v, o : data = proc[p].data /\ read = proc[p].trash /\ v = proc[p].req.value /\ o = proc[p].req.option
  OBVIOUS
<1>5. /\ data \in Maps(Values) /\ read \in SUBSET Slips /\ Dated(read, clock) /\ clock \in Nat
      /\ Named(p) \in SUBSET Fields /\ meta \in Maps(Metas)
  BY <1>3, <1>4 DEF TInv, FilesOK, JobOK, Jobs, Reqs, Named
<1>6. /\ DOMAIN data \subseteq Fields /\ \A x \in DOMAIN data : data[x] \in Values
      /\ DOMAIN meta \subseteq Fields /\ \A x \in DOMAIN meta : meta[x] \in Metas
  BY <1>5, MapIs
<1>7. ASSUME Cmd(p) \in {"set", "rotate", "rename", "undo", "meta"} PROVE Field(p) \in Fields /\ Named(p) = {Field(p)}
  BY <1>3, <1>7 DEF JobOK, Asked, Cmd, Named, Field
<1>8. CASE Cmd(p) \in {"set", "rotate"}
  <2>1. v \in Values
    BY <1>3, <1>4, <1>8 DEF JobOK, Asked, Cmd
  <2>2. PICK before : before = IF Cmd(p) = "rotate" THEN Cleared(meta, Field(p)) ELSE MetaOf(meta, Field(p))
    OBVIOUS
  <2>3. before \in Metas
    BY <1>5, <2>2, MetaOfIs
  <2>4. meta' = Put(meta, {Field(p)}, Apply(before, v, o))
    BY <1>4, <1>8, <2>2 DEF UpdateMeta, WithNewValue, Cmd
  <2>5. Apply(before, v, o) \in Metas
    BY <2>1, <2>3, MetasAre
  <2> QED BY <1>5, <1>7, <1>8, <2>4, <2>5, PutIs
<1>9. CASE Cmd(p) = "import"
  <2>1. v \in Values
    BY <1>3, <1>4, <1>9 DEF JobOK, Asked, Cmd
  <2>2. PICK new : new = meta'
    OBVIOUS
  <2>3. PICK F : F = IF v \in Tokens THEN Named(p) ELSE Replaced(p)
    OBVIOUS
  <2>4. F \in SUBSET Fields
    BY <1>5, <2>3 DEF Replaced
  <2>5. new = Imported(p)
    BY <1>9, <2>2 DEF UpdateMeta, Cmd
  <2>6. /\ DOMAIN new = DOMAIN meta \cup F /\ new = [f \in DOMAIN new |-> new[f]]
        /\ \A f \in F : new[f] = Apply(IF f \in Replaced(p) THEN Cleared(meta, f) ELSE MetaOf(meta, f), v, "none")
        /\ \A f \in DOMAIN meta \ F : new[f] = meta[f]
    BY <1>4, <2>3, <2>5 DEF Imported
  <2>7. ASSUME NEW f \in F PROVE new[f] \in Metas
    <3>1. PICK b : b = IF f \in Replaced(p) THEN Cleared(meta, f) ELSE MetaOf(meta, f)
      OBVIOUS
    <3>2. b \in Metas
      BY <1>5, <3>1, MetaOfIs
    <3> QED BY <2>1, <2>6, <3>1, <3>2, MetasAre
  <2>10. Rewrites(Metas, meta, F, new)
    BY <2>6, <2>7 DEF Rewrites
  <2> QED BY <1>5, <2>2, <2>4, <2>10, Rewritten
<1>10. CASE Cmd(p) = "rename"
  <2>1. Field(p) \in Fields /\ proc[p].req.to \in Fields
    BY <1>3, <1>7, <1>10 DEF JobOK, Asked, Cmd
  <2>2. meta' = Renamed(meta, Field(p), proc[p].req.to)
    BY <1>10 DEF UpdateMeta, Cmd
  <2>3. Without(meta, {Field(p)}) \in Maps(Metas)
    BY <1>5, WithoutIs
  <2>4. Field(p) \in DOMAIN meta => Put(Without(meta, {Field(p)}), {proc[p].req.to}, meta[Field(p)]) \in Maps(Metas)
    BY <1>6, <2>1, <2>3, PutIs
  <2> QED BY <1>5, <2>2, <2>4 DEF Renamed
<1>11. CASE Cmd(p) \in {"rm", "purge"}
  <2>1. meta' = Without(meta, Named(p))
    BY <1>11 DEF UpdateMeta, Cmd, Named
  <2> QED BY <1>5, <2>1, WithoutIs
<1>12. CASE Cmd(p) = "undo"
  <2>1. PICK e \in proc[p].undone : proc[p].undone = {e}
    BY <1>3, <1>12 DEF JobOK, Informed, Cmd
  <2>2. e.meta \in SUBSET Metas /\ (CHOOSE x \in proc[p].undone : TRUE) = e
    BY <1>3, <2>1 DEF Jobs, Slips
  <2>3. PICK kept : kept = IF e.meta = {} THEN Blank ELSE CHOOSE m \in e.meta : TRUE
    OBVIOUS
  <2>4. kept \in Metas
    BY <2>2, <2>3, MetasAre
  <2>5. MetaOf(meta, Field(p)).used \in BOOLEAN
    BY <1>5, MetaOfIs DEF Metas
  <2>6. meta' = Put(meta, Named(p), [kept EXCEPT !.used = MetaOf(meta, Field(p)).used])
    BY <1>12, <2>2, <2>3 DEF UpdateMeta, WithKeptMeta, Cmd
  <2>7. [kept EXCEPT !.used = MetaOf(meta, Field(p)).used] \in Metas
    BY <2>4, <2>5, MetasAre
  <2> QED BY <1>5, <2>6, <2>7, PutIs
<1>13. CASE Cmd(p) = "restore"
  <2>1. PICK new : new = meta'
    OBVIOUS
  <2>2. PICK F : F = {f \in Picked(read, Named(p)) : Newest(Copies(read, f)).meta # {}}
    OBVIOUS
  <2>3. F \in SUBSET Fields
    BY <1>5, <2>2 DEF Picked
  <2>4. new = WithKeptMeta(p) /\ Cmd(p) # "undo"
    BY <1>13, <2>1 DEF UpdateMeta, Cmd
  <2>5. /\ DOMAIN new = DOMAIN meta \cup F /\ new = [f \in DOMAIN new |-> new[f]]
        /\ \A f \in F : new[f] = CHOOSE m \in Newest(Copies(read, f)).meta : TRUE
        /\ \A f \in DOMAIN meta \ F : new[f] = meta[f]
    BY <1>4, <2>2, <2>4 DEF WithKeptMeta
  <2>6. ASSUME NEW f \in F PROVE new[f] \in Metas
    <3>1. Newest(Copies(read, f)) \in Slips
      BY <1>5, <2>2, CopiesAre DEF Picked
    <3>2. Newest(Copies(read, f)).meta \in SUBSET Metas /\ Newest(Copies(read, f)).meta # {}
      BY <2>2, <3>1 DEF Slips
    <3> QED BY <2>5, <3>2
  <2>10. Rewrites(Metas, meta, F, new)
    BY <2>5, <2>6 DEF Rewrites
  <2> QED BY <1>5, <2>1, <2>3, <2>10, Rewritten
<1>14. CASE Cmd(p) = "use"
  <2>1. PICK new : new = meta'
    OBVIOUS
  <2>2. new = Used(Named(p))
    BY <1>14, <2>1 DEF UpdateMeta, Cmd, Named
  <2>3. /\ DOMAIN new = DOMAIN meta \cup Named(p) /\ new = [f \in DOMAIN new |-> new[f]]
        /\ \A f \in Named(p) : new[f] = [MetaOf(meta, f) EXCEPT !.used = TRUE]
        /\ \A f \in DOMAIN meta \ Named(p) : new[f] = meta[f]
    BY <2>2 DEF Used
  <2>4. ASSUME NEW f \in Named(p) PROVE new[f] \in Metas
    BY <1>5, <2>3, MetaOfIs, MetasAre
  <2>10. Rewrites(Metas, meta, Named(p), new)
    BY <2>3, <2>4 DEF Rewrites
  <2> QED BY <1>5, <2>1, <2>10, Rewritten
<1>15. CASE Cmd(p) = "meta"
  <2>1. Field(p) \in DOMAIN data
    BY <1>3, <1>4, <1>7, <1>15 DEF JobOK, Informed, Cmd, Named
  <2>2. PICK m : m = IF o = "expires"
                     THEN [MetaOf(meta, Field(p)) EXCEPT !.expires = data[Field(p)]]
                     ELSE [MetaOf(meta, Field(p)) EXCEPT !.target = Field(p)]
    OBVIOUS
  <2>3. m \in Metas
    BY <1>5, <1>6, <1>7, <1>15, <2>1, <2>2, MetaOfIs, MetasAre
  <2>4. meta' = Put(meta, {Field(p)}, m)
    BY <1>4, <1>15, <2>2 DEF UpdateMeta, Described, Cmd
  <2> QED BY <1>5, <1>7, <1>15, <2>3, <2>4, PutIs
<1>16. CASE Cmd(p) = "verify"
  <2>1. PICK F \in SUBSET Named(p) : Learned(p, F)
    BY <1>16 DEF UpdateMeta, Cmd, Named
  <2>2. PICK new : new = meta'
    OBVIOUS
  <2>3. /\ DOMAIN new = DOMAIN meta \cup F /\ new = [f \in DOMAIN new |-> new[f]]
        /\ \A f \in F : f \in DOMAIN data /\ new[f] = [MetaOf(meta, f) EXCEPT !.expires = data[f]]
        /\ \A f \in DOMAIN meta \ F : new[f] = meta[f]
    BY <1>4, <2>1, <2>2 DEF Learned
  <2>4. ASSUME NEW f \in F PROVE new[f] \in Metas
    BY <1>5, <1>6, <2>3, MetaOfIs, MetasAre
  <2>10. Rewrites(Metas, meta, F, new)
    BY <2>3, <2>4 DEF Rewrites
  <2> QED BY <1>5, <2>1, <2>2, <2>10, Rewritten
<1> QED BY <1>3, <1>8, <1>9, <1>10, <1>11, <1>12, <1>13, <1>14, <1>15, <1>16 DEF Known, Writers

LEMMA UpdateMetaTyped == ASSUME TInv, NEW p \in Procs, UpdateMeta(p) PROVE TInv'
<1>1. UNCHANGED <<store, exists, trash, hasTrash, begun, clock, weeks>> /\ At(p, "updateMeta")
  BY DEF UpdateMeta
<1>2. FilesOK' /\ Dated(trash', clock') /\ begun' <= MaxCommands
  BY <1>1, NewMetaIs DEF TInv, FilesOK, Dated
<1>3. CASE End(p)
  BY <1>1, <1>2, <1>3, EndGoes
<1>4. CASE ~End(p)
  <2>1. PICK r : r = Request("verify", {Field(p)}, None, None, "none")
    OBVIOUS
  <2>2. PICK job : job = [Idle EXCEPT !.req = r, !.todo = Plan["verify"]]
    OBVIOUS
  <2>3. Cmd(p) = "rotate" /\ proc' = [proc EXCEPT ![p] = job]
    BY <1>4, <2>1, <2>2 DEF UpdateMeta, Cmd
  <2>4. Field(p) \in Fields
    <3>1. PICK f \in Fields : Named(p) = {f}
      BY <2>3 DEF TInv, JobOK, Asked, Cmd, Named
    <3> QED BY <3>1 DEF Field
  <2>5. r \in Reqs /\ r.cmd = "verify"
    BY <2>1, <2>4 DEF Request, Reqs, Known
  <2>6. "verify" \in Known /\ Plan["verify"] \in Seq(Steps) /\ OnPlan("verify", Plan["verify"])
    BY PlanBegins DEF Known
  <2>7. /\ job \in Jobs /\ job.req = r /\ job.todo = Plan["verify"] /\ job.time = 0
        /\ job.trash = {} /\ job.undone = {}
    BY <2>2, <2>5, <2>6, IdleIs DEF Idle, Jobs
  <2>8. JobOK(job, clock) /\ ~Owes(job)
    BY <2>5, <2>6, <2>7 DEF JobOK, Asked, Informed, Dated, Owes, Movers, TInv
  <2>9. proc' \in [Procs -> Jobs] /\ proc'[p] = job /\ \A q \in Procs \ {p} : Same(proc[q], proc'[q])
    BY <2>3, <2>7 DEF TInv, Same
  <2> QED BY <1>1, <1>2, <2>5, <2>7, <2>8, <2>9, JobsGo DEF Pays
<1> QED BY <1>3, <1>4

LEMMA WeekTyped == ASSUME TInv, WeekPasses PROVE TInv'
<1>1. UNCHANGED <<store, exists, hasTrash, proc, begun, clock>> /\ weeks < MaxWeeks /\ weeks' = weeks + 1
  BY DEF WeekPasses
<1>2. trash' = {[e EXCEPT !.old = TRUE] : e \in trash}
  BY DEF WeekPasses
<1>3. trash' \in SUBSET Slips /\ Dated(trash', clock') /\ (~hasTrash => trash' = {})
  <2>1. \A e \in Slips : [e EXCEPT !.old = TRUE] \in Slips /\ [e EXCEPT !.old = TRUE].time = e.time
    BY DEF Slips
  <2> QED BY <1>1, <1>2, <2>1 DEF TInv, FilesOK, Dated
<1>4. meta' \in Maps(Metas)
  <2>1. PICK new : new = meta'
    OBVIOUS
  <2>2. DOMAIN new = DOMAIN meta /\ new = [f \in DOMAIN new |-> new[f]] /\ \A f \in DOMAIN meta : new[f] = [meta[f] EXCEPT !.used = FALSE]
    BY <2>1 DEF WeekPasses
  <2>3. DOMAIN meta \subseteq Fields /\ \A f \in DOMAIN meta : meta[f] \in Metas
    BY MapIs DEF TInv, FilesOK
  <2>4. DOMAIN new \subseteq Fields /\ \A f \in DOMAIN new : new[f] \in Metas
    BY <2>2, <2>3, MetasAre
  <2> QED BY <2>1, <2>2, <2>4, MapIs
<1>5. weeks' \in 0..MaxWeeks
  BY <1>1, SecretAssumption DEF TInv
<1>6. FilesOK'
  BY <1>1, <1>3, <1>4 DEF TInv, FilesOK
<1>7. proc' = proc /\ clock' = clock /\ begun' = begun /\ hasTrash' = hasTrash
  BY <1>1
<1> QED BY <1>3, <1>5, <1>6, <1>7 DEF TInv, Cmd, Owing

LEMMA InitTyped == ASSUME Init PROVE TInv
<1>1. \A p \in Procs : proc[p] = Idle
  BY DEF Init
<1>2. proc \in [Procs -> Jobs]
  BY IdleIs DEF Init
<1>3. Owing(proc) = {}
  BY <1>1, IdleIs DEF Owing
<1>4. IsFiniteSet(Owing(proc)) /\ Cardinality(Owing(proc)) = 0
  BY <1>3, FS_EmptySet
<1>5. FilesOK /\ Dated(trash, clock)
  BY NothingIs DEF Init, FilesOK, Dated
<1>6. Idle.req.cmd = "none"
  BY DEF Idle, Request
<1>7. begun = 0 /\ clock = 0 /\ weeks = 0
  BY DEF Init
<1> QED BY <1>1, <1>2, <1>4, <1>5, <1>6, <1>7, IdleIs, SecretAssumption DEF TInv, Cmd

LEMMA StepTyped == ASSUME TInv, [Next]_vars PROVE TInv'
<1>1. ASSUME NEW p \in Procs, Begin(p) \/ Stop(p) \/ ReadStore(p) \/ ReadMeta(p) PROVE TInv'
  BY <1>1, BeginTyped, StopTyped, ReadStoreTyped, ReadMetaTyped
<1>2. ASSUME NEW p \in Procs, ReadTrash(p) \/ RereadTrash(p) \/ WriteTrash(p) \/ DropCopy(p) PROVE TInv'
  BY <1>2, ReadTrashTyped, RereadTrashTyped, WriteTrashTyped, DropCopyTyped
<1>3. ASSUME NEW p \in Procs, WriteStore(p) \/ UpdateMeta(p) PROVE TInv'
  BY <1>3, WriteStoreTyped, UpdateMetaTyped
<1>4. CASE UNCHANGED vars
  BY <1>4 DEF vars, TInv, FilesOK, Cmd, Owing
<1> QED BY <1>1, <1>2, <1>3, <1>4, WeekTyped DEF Next

LEMMA TypesFollow == ASSUME TInv PROVE TypeOK
<1>1. clock \in 0..begun /\ begun \in 0..MaxCommands
  <2>1. Cardinality(Owing(proc)) \in Nat
    BY FS_CardinalityType DEF TInv
  <2> QED BY <2>1, SecretAssumption DEF TInv
<1>2. ASSUME NEW S \in SUBSET Slips, Dated(S, clock) PROVE S \subseteq Entries
  BY <1>1, <1>2, SecretAssumption DEF Slips, Entries, Dated
<1>3. ASSUME NEW p \in Procs
      PROVE  /\ proc[p].data \in Maps(Values) /\ proc[p].meta \in Maps(Metas)
             /\ proc[p].trash \subseteq Entries /\ proc[p].undone \subseteq Entries
             /\ proc[p].todo # <<>> => \E i \in DOMAIN Plan[Cmd(p)] :
                                         proc[p].todo = SubSeq(Plan[Cmd(p)], i, Len(Plan[Cmd(p)]))
             /\ Named(p) \subseteq Fields
  <2>1. proc[p] \in Jobs /\ JobOK(proc[p], clock)
    BY DEF TInv, JobOK
  <2>2. proc[p].trash \subseteq Entries /\ proc[p].undone \subseteq Entries
    BY <1>2, <2>1 DEF JobOK, Jobs
  <2> QED BY <2>1, <2>2 DEF JobOK, Jobs, OnPlan, Cmd, Named, Reqs
<1> QED BY <1>1, <1>2, <1>3 DEF TInv, FilesOK, TypeOK

(* Every file and every snapshot of one has its type in any number of       *)
(* processes, no command takes more deletion times than commands have       *)
(* begun, and the rest of a command is always the rest of its plan          *)
(* (sec.go, sec_trash.go, sec_meta.go, sec_lifecycle.go).                   *)
THEOREM SecretTypes == Spec => []TypeOK
<1>1. Init => TInv
  BY InitTyped
<1>2. TInv /\ [Next]_vars => TInv'
  BY StepTyped
<1>3. TInv => TypeOK
  BY TypesFollow
<1> QED BY <1>1, <1>2, <1>3, PTL DEF Spec

=============================================================================
