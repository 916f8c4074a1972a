---------------------------- MODULE SecretStore ----------------------------
(***************************************************************************)
(* The secret commands of bb (internal/bb/sec*.go) and the three files     *)
(* they share: the age-encrypted store and trash, and the plaintext        *)
(* metadata sidecar.  Each command is a process of its own; its steps are  *)
(* its reads of a file and its writes to one, in the order of the code,    *)
(* and it may stop (an error, a declined prompt, a kill) between any two.  *)
(*                                                                         *)
(* An encrypted file is replaced only if its ciphertext is still the one   *)
(* the command read (writeEncryptedJSON).  age never produces the same     *)
(* ciphertext twice, so this comparison is a flag per process: nobody has  *)
(* written the file since.  The sidecar is rewritten under its own lock.   *)
(*                                                                         *)
(* The fields are those of one service.  Retention is counted in weeks: an *)
(* entry of the trash is old once a week has passed.  The newest entry is  *)
(* the one with the latest deletion time, wherever it stands in the trash, *)
(* so the trash is a set: no two of its entries are of one field and time. *)
(***************************************************************************)
EXTENDS Naturals, Sequences, Functions

CONSTANTS Procs,        \* bb processes running at a time
          Fields,       \* fields of the service
          Values,       \* secret values
          Tokens,       \* the values whose expiry can be read from them (JWT)
          None,         \* no value, no field
          Commands,     \* the commands of this instance
          Options,      \* their options, among "none", "expires" and "verify"
          Failures,     \* whether a command may stop half-way
          MaxCommands,  \* bound on the commands of a behaviour
          MaxWeeks      \* bound on the weeks that pass

ASSUME SecretAssumption ==
  /\ Tokens \subseteq Values /\ None \notin Values /\ None \notin Fields
  /\ Failures \in BOOLEAN /\ MaxCommands \in Nat /\ MaxWeeks \in Nat

VARIABLES
  store,     \* the decrypted store: field -> value
  exists,    \* the store file exists
  trash,     \* the decrypted trash: its entries
  hasTrash,  \* the trash file exists
  meta,      \* the sidecar: field -> metadata
  proc,      \* the commands in flight
  begun,     \* how many commands have begun
  clock,     \* how many deletion times have been taken
  weeks      \* how many weeks have passed

vars == <<store, exists, trash, hasTrash, meta, proc, begun, clock, weeks>>

(* expires: the value the recorded expiry belongs to; used: today; target:  *)
(* the field a verify target was signed for.                                *)
Blank == [expires |-> None, used |-> FALSE, target |-> None]
Metas == [expires : Values \cup {None}, used : BOOLEAN, target : Fields \cup {None}]

(* meta is {} or holds the metadata kept with the value.                    *)
Entries == [field : Fields, value : Values, meta : SUBSET Metas,
            rotated : BOOLEAN, time : 1..MaxCommands, old : BOOLEAN]

Nothing == [f \in {} |-> None]

-----------------------------------------------------------------------------
(* Maps, the trash and the sidecar *)

Put(map, F, v) == [f \in DOMAIN map \cup F |-> IF f \in F THEN v ELSE map[f]]
Without(map, F) == Restrict(map, DOMAIN map \ F)

MetaOf(metas, f) == IF f \in DOMAIN metas THEN metas[f] ELSE Blank
KeptMeta(metas, f) == {metas[g] : g \in DOMAIN metas \cap {f}}

(* pruneSecretTrash *)
Prune(entries) == {e \in entries : ~e.old}

Copies(entries, f) == {e \in entries : e.field = f}
Rotations(entries, f) == {e \in Copies(entries, f) : e.rotated}
Newest(copies) == CHOOSE e \in copies : \A c \in copies : c.time <= e.time
Picked(entries, F) == {f \in F : Copies(entries, f) # {}}

DropKeys_Removed(entries, F) == {e \in entries : e.field \notin F \/ e.rotated}

DropKeys(entries, F) == {e \in entries : e.field \notin F}

DropEntry_Loose(entries, t) == {e \in entries : ~(e.field = t.field /\ e.rotated = t.rotated)}

(* dropTrashEntry compares everything but the metadata. *)
DropEntry(entries, t) ==
  {e \in entries : ~ /\ e.field = t.field /\ e.value = t.value
                     /\ e.rotated = t.rotated /\ e.time = t.time}

Apply_Unparsed(m, v, option) ==
  [m EXCEPT !.expires = IF option = "expires" THEN option ELSE IF v \in Tokens THEN v ELSE @]

(* The expiry metadata takes with a new value: an option wins over the *)
(* value's own claim, and neither leaves it as it was.                 *)
Apply(m, v, option) ==
  [m EXCEPT !.expires = IF option = "expires" \/ v \in Tokens THEN v ELSE @]

-----------------------------------------------------------------------------
(* The commands *)

Single == {{f} : f \in Fields}
Some   == Single \cup {Fields}

Request(cmd, F, to, v, option) ==
  [cmd |-> cmd, fields |-> F, to |-> to, value |-> v, option |-> option]

Requests ==
  {Request("init", {}, None, None, "none")}
  \cup {Request(c, F, None, v, o) :
          c \in {"set", "rotate"}, F \in Single, v \in Values, o \in Options \ {"verify"}}
  \cup {Request("import", F, None, v, o) : F \in Some, v \in Values, o \in {"none", "force"}}
  \cup {Request("rename", F, t, None, "none") : F \in Single, t \in Fields}
  \cup {Request(c, F, None, None, "none") : c \in {"rm", "purge", "restore", "use"}, F \in Some}
  \cup {Request("undo", F, None, None, "none") : F \in Single}
  \cup {Request("meta", F, None, None, o) : F \in Single, o \in Options \ {"none"}}
  \cup {Request("verify", F, None, None, "none") : F \in Some}
  \cup {Request(c, Fields, None, None, "none") : c \in {"list", "empty"}}

Plan_StoreFirst == [init |-> <<"writeStore">>,
         import  |-> <<"readStore", "readMeta", "writeStore", "readTrash", "writeTrash", "updateMeta">>,
         rm      |-> <<"readStore", "readMeta", "writeStore", "readTrash", "writeTrash", "updateMeta">>,
         rotate  |-> <<"readStore", "readStore", "readMeta", "writeStore", "readTrash", "writeTrash",
                       "updateMeta">>,
         undo    |-> <<"readTrash", "readStore", "readMeta", "writeStore", "writeTrash",
                       "rereadTrash", "dropCopy", "updateMeta">>,
         set     |-> <<"readStore", "writeStore", "updateMeta">>,
         rename  |-> <<"readStore", "writeStore", "updateMeta">>,
         purge   |-> <<"readStore", "readMeta", "writeStore", "readTrash", "writeTrash", "updateMeta">>,
         restore |-> <<"readTrash", "readStore", "writeStore", "writeTrash", "updateMeta">>,
         list    |-> <<"readTrash", "writeTrash">>,
         empty   |-> <<"readTrash", "writeTrash">>,
         meta    |-> <<"readStore", "updateMeta">>,
         use     |-> <<"readStore", "readMeta", "updateMeta">>,
         verify  |-> <<"readMeta", "readStore", "updateMeta">>]

(* The files a command reads and writes, in order. *)
Plan == [init    |-> <<"writeStore">>,
         set     |-> <<"readStore", "writeStore", "updateMeta">>,
         rename  |-> <<"readStore", "writeStore", "updateMeta">>,
         rm      |-> <<"readStore", "readMeta", "readTrash", "writeTrash", "writeStore", "updateMeta">>,
         purge   |-> <<"readStore", "readMeta", "readTrash", "writeTrash", "writeStore", "updateMeta">>,
         import  |-> <<"readStore", "readMeta", "readTrash", "writeTrash", "writeStore", "updateMeta">>,
         rotate  |-> <<"readStore", "readStore", "readMeta", "readTrash", "writeTrash", "writeStore",
                       "updateMeta">>,
         undo    |-> <<"readTrash", "readStore", "readMeta", "writeTrash", "writeStore",
                       "rereadTrash", "dropCopy", "updateMeta">>,
         restore |-> <<"readTrash", "readStore", "writeStore", "writeTrash", "updateMeta">>,
         list    |-> <<"readTrash", "writeTrash">>,
         empty   |-> <<"readTrash", "writeTrash">>,
         meta    |-> <<"readStore", "updateMeta">>,
         use     |-> <<"readStore", "readMeta", "updateMeta">>,
         verify  |-> <<"readMeta", "readStore", "updateMeta">>]

(* data, trash and meta are what the process last read of each file, time  *)
(* the deletion time it took, undone the rotated copy --undo brings back.  *)
Idle == [req |-> Request("none", {}, None, None, "none"), todo |-> <<>>, time |-> 0,
         data |-> Nothing, trash |-> {}, meta |-> Nothing, undone |-> {},
         sawStore |-> FALSE, sawTrash |-> FALSE]

Init ==
  /\ store = Nothing /\ exists = FALSE
  /\ trash = {} /\ hasTrash = FALSE
  /\ meta = Nothing
  /\ proc = [p \in Procs |-> Idle]
  /\ begun = 0 /\ clock = 0 /\ weeks = 0

Cmd(p)    == proc[p].req.cmd
Named(p)  == proc[p].req.fields
Field(p)  == CHOOSE f \in Named(p) : TRUE
At(p, step) == proc[p].todo # <<>> /\ Head(proc[p].todo) = step

End(p) == proc' = [proc EXCEPT ![p] = Idle]

(* secInit refuses a store that exists. *)
Begin(p) ==
  \E r \in Requests :
    /\ proc[p].todo = <<>>
    /\ begun < MaxCommands
    /\ r.cmd \in Commands
    /\ r.cmd = "init" => ~exists
    /\ r.cmd = "rename" => r.to \notin r.fields
    /\ begun' = begun + 1
    /\ proc' = [proc EXCEPT ![p] = [Idle EXCEPT !.req = r, !.todo = Plan[r.cmd],
                                                !.sawStore = r.cmd = "init"]]
    /\ UNCHANGED <<store, exists, trash, hasTrash, meta, clock, weeks>>

(* An error, a declined prompt, a held lock or a kill. *)
Stop(p) ==
  /\ Failures
  /\ proc[p].todo # <<>>
  /\ End(p)
  /\ UNCHANGED <<store, exists, trash, hasTrash, meta, begun, clock, weeks>>

-----------------------------------------------------------------------------
(* Reading *)

(* What makes a command give up on the store it read. *)
Refused(p) ==
  CASE Cmd(p) = "rename"  -> Field(p) \notin DOMAIN store \/ proc[p].req.to \in DOMAIN store
    [] Cmd(p) \in {"rm", "purge", "use"} -> Named(p) \cap DOMAIN store = {}
    [] Cmd(p) \in {"undo", "meta"} -> Field(p) \notin DOMAIN store
    [] Cmd(p) = "restore" -> Picked(proc[p].trash, Named(p)) \cap DOMAIN store # {}
    [] Cmd(p) = "import"  -> proc[p].req.option # "force" /\ Named(p) \cap DOMAIN store # {}
    [] Cmd(p) = "rotate"  -> \/ Field(p) \notin DOMAIN store
                             \/ store[Field(p)] = proc[p].req.value
                             \/ /\ Field(p) \in DOMAIN proc[p].data
                                /\ store[Field(p)] # proc[p].data[Field(p)]
    [] OTHER -> FALSE

ReadStore(p) ==
  /\ At(p, "readStore")
  /\ IF ~exists \/ Refused(p)
     THEN End(p)
     ELSE proc' = [proc EXCEPT ![p].data = store, ![p].sawStore = TRUE, ![p].todo = Tail(@),
                     ![p].req.fields = IF Cmd(p) \in {"rm", "purge", "use"}
                                       THEN @ \cap DOMAIN store ELSE @]
  /\ UNCHANGED <<store, exists, trash, hasTrash, meta, begun, clock, weeks>>

(* The fields a forced import replaces with another value. *)
Replaced(p) == {f \in Named(p) \cap DOMAIN proc[p].data : proc[p].data[f] # proc[p].req.value}

(* Recording a use writes nothing when it is recorded already; verifying   *)
(* needs a target; an import that replaces nothing skips the trash.  The   *)
(* commands that move a value to the trash take its deletion time next.    *)
ReadMeta(p) ==
  LET used    == \A f \in Named(p) : f \in DOMAIN meta /\ meta[f].used
      targets == {f \in Named(p) \cap DOMAIN meta : meta[f].target # None}
      ends    == (Cmd(p) = "use" /\ used) \/ (Cmd(p) = "verify" /\ targets = {})
      skip    == Cmd(p) = "import" /\ Replaced(p) = {}
      now     == IF Cmd(p) \in {"rm", "rotate", "undo", "import"} /\ ~skip THEN clock + 1 ELSE clock
  IN
  /\ At(p, "readMeta")
  /\ IF ends
     THEN End(p) /\ UNCHANGED clock
     ELSE /\ clock' = now
          /\ proc' = [proc EXCEPT ![p].meta = meta, ![p].time = now,
                        ![p].todo = IF skip THEN <<"writeStore", "updateMeta">> ELSE Tail(@)]
  /\ UNCHANGED <<store, exists, trash, hasTrash, meta, begun, weeks>>

ReadTrash(p) ==
  LET read == Prune(trash)
      ends == \/ Cmd(p) = "restore" /\ Picked(read, Named(p)) = {}
              \/ Cmd(p) = "undo" /\ Rotations(read, Field(p)) = {}
              \/ Cmd(p) = "list" /\ read = trash
              \/ Cmd(p) = "empty" /\ ~hasTrash
      skip == Cmd(p) = "purge" /\ ~hasTrash
  IN
  /\ At(p, "readTrash")
  /\ IF ends
     THEN End(p)
     ELSE proc' = [proc EXCEPT ![p].trash = read, ![p].sawTrash = TRUE,
                     ![p].undone = IF Cmd(p) = "undo" THEN {Newest(Rotations(read, Field(p)))} ELSE {},
                     ![p].todo = IF skip THEN Tail(Tail(@)) ELSE Tail(@)]
  /\ UNCHANGED <<store, exists, trash, hasTrash, meta, begun, clock, weeks>>

(* dropTrashEntry reads the trash again, expired entries and all. *)
RereadTrash(p) ==
  /\ At(p, "rereadTrash")
  /\ proc' = [proc EXCEPT ![p].trash = trash, ![p].sawTrash = TRUE, ![p].todo = Tail(@)]
  /\ UNCHANGED <<store, exists, trash, hasTrash, meta, begun, clock, weeks>>

-----------------------------------------------------------------------------
(* Writing *)

(* The entries for the values of F. *)
Deposit(p, F, rotated) ==
  {[field |-> f, value |-> proc[p].data[f], meta |-> KeptMeta(proc[p].meta, f),
    rotated |-> rotated, time |-> proc[p].time, old |-> FALSE] : f \in F}

NewTrash(p) ==
  LET read == proc[p].trash IN
  CASE Cmd(p) = "rm"      -> read \cup Deposit(p, Named(p), FALSE)
    [] Cmd(p) \in {"rotate", "undo"} -> read \cup Deposit(p, Named(p), TRUE)
    [] Cmd(p) = "import"  -> read \cup Deposit(p, Replaced(p), TRUE)
    [] Cmd(p) = "purge"   -> DropKeys(read, Named(p))
    [] Cmd(p) = "restore" -> DropKeys(read, Picked(read, Named(p)))
    [] Cmd(p) = "list"    -> read
    [] Cmd(p) = "empty"   -> {}

StaleTrash_Unnoticed(procs) == procs
StaleStore_Unnoticed(procs) == procs

(* The other commands' snapshots of a file are stale once it is written. *)
StaleTrash(procs) == [q \in Procs |-> [procs[q] EXCEPT !.sawTrash = FALSE]]
StaleStore(procs) == [q \in Procs |-> [procs[q] EXCEPT !.sawStore = FALSE]]

WriteTrash(p) ==
  /\ At(p, "writeTrash")
  /\ IF ~proc[p].sawTrash
     THEN End(p) /\ UNCHANGED <<trash, hasTrash>>
     ELSE /\ trash' = NewTrash(p) /\ hasTrash' = TRUE
          /\ proc' = StaleTrash([proc EXCEPT ![p].todo = Tail(@)])
  /\ UNCHANGED <<store, exists, meta, begun, clock, weeks>>

(* The copy --undo brought back leaves the trash; if it cannot, undo goes on. *)
DropCopy(p) ==
  /\ At(p, "dropCopy")
  /\ \/ /\ proc[p].sawTrash
        /\ \E copy \in proc[p].undone : trash' = DropEntry(proc[p].trash, copy)
        /\ proc' = StaleTrash([proc EXCEPT ![p].todo = Tail(@)])
     \/ /\ ~proc[p].sawTrash \/ Failures
        /\ proc' = [proc EXCEPT ![p].todo = Tail(@)]
        /\ UNCHANGED trash
  /\ UNCHANGED <<store, exists, hasTrash, meta, begun, clock, weeks>>

NewStore(p) ==
  LET data == proc[p].data
      read == proc[p].trash
      v    == proc[p].req.value
  IN
  CASE Cmd(p) = "init" -> Nothing
    [] Cmd(p) \in {"set", "rotate", "import"} -> Put(data, Named(p), v)
    [] Cmd(p) = "rename" -> Put(Without(data, Named(p)), {proc[p].req.to}, data[Field(p)])
    [] Cmd(p) \in {"rm", "purge"} -> Without(data, Named(p))
    [] Cmd(p) = "undo" -> Put(data, Named(p), (CHOOSE e \in proc[p].undone : TRUE).value)
    [] Cmd(p) = "restore" ->
         [f \in DOMAIN data \cup Picked(read, Named(p)) |->
            IF f \in DOMAIN data THEN data[f] ELSE Newest(Copies(read, f)).value]

(* set leaves the sidecar alone when it has no option and no claim to record. *)
WriteStore(p) ==
  LET r     == proc[p].req
      quiet == r.cmd = "set" /\ r.option = "none" /\ r.value \notin Tokens
  IN
  /\ At(p, "writeStore")
  /\ IF ~proc[p].sawStore
     THEN End(p) /\ UNCHANGED <<store, exists>>
     ELSE /\ store' = NewStore(p) /\ exists' = TRUE
          /\ proc' = StaleStore(IF quiet THEN [proc EXCEPT ![p] = Idle]
                                         ELSE [proc EXCEPT ![p].todo = Tail(@)])
  /\ UNCHANGED <<trash, hasTrash, meta, begun, clock, weeks>>

-----------------------------------------------------------------------------
(* The sidecar, rewritten under its lock *)

Cleared_Kept(metas, f) == MetaOf(metas, f)

Cleared(metas, f) == [MetaOf(metas, f) EXCEPT !.expires = None]

Renamed_Copied(metas, f, to) ==
  IF f \in DOMAIN metas THEN Put(metas, {to}, metas[f]) ELSE metas

(* renameSecretMeta *)
Renamed(metas, f, to) ==
  IF f \in DOMAIN metas THEN Put(Without(metas, {f}), {to}, metas[f]) ELSE metas

(* set and rotate: the expiry that goes with the new value. *)
WithNewValue(p) ==
  LET r == proc[p].req
      f == Field(p)
      before == IF r.cmd = "rotate" THEN Cleared(meta, f) ELSE MetaOf(meta, f)
  IN Put(meta, {f}, Apply(before, r.value, r.option))

(* import: the expiry of a replaced value goes, that of a token comes. *)
Imported(p) ==
  LET v == proc[p].req.value
      touched == IF v \in Tokens THEN Named(p) ELSE Replaced(p)
      before(f) == IF f \in Replaced(p) THEN Cleared(meta, f) ELSE MetaOf(meta, f)
  IN [f \in DOMAIN meta \cup touched |-> IF f \in touched THEN Apply(before(f), v, "none") ELSE meta[f]]

(* undo and restore: the metadata kept with the value. *)
WithKeptMeta(p) ==
  LET read   == proc[p].trash
      copy   == CHOOSE e \in proc[p].undone : TRUE
      undone == IF copy.meta = {} THEN Blank ELSE CHOOSE m \in copy.meta : TRUE
      kept(f) == Newest(Copies(read, f)).meta
      back   == {f \in Picked(read, Named(p)) : kept(f) # {}}
  IN
  IF Cmd(p) = "undo"
  THEN Put(meta, Named(p), [undone EXCEPT !.used = MetaOf(meta, Field(p)).used])
  ELSE [f \in DOMAIN meta \cup back |-> IF f \in back THEN CHOOSE m \in kept(f) : TRUE ELSE meta[f]]

Used(F) == [f \in DOMAIN meta \cup F |->
              IF f \in F THEN [MetaOf(meta, f) EXCEPT !.used = TRUE] ELSE meta[f]]

(* meta: an expiry for the value read, or a target signed for the field. *)
Described(p) ==
  LET f == Field(p) IN
  Put(meta, {f}, IF proc[p].req.option = "expires"
                 THEN [MetaOf(meta, f) EXCEPT !.expires = proc[p].data[f]]
                 ELSE [MetaOf(meta, f) EXCEPT !.target = f])

(* The fields verified with the value read, whose services report an expiry: *)
(* any of those with a target signed for that very field.                    *)
Learned(p, L) ==
  /\ L \subseteq {f \in Named(p) \cap DOMAIN proc[p].meta \cap DOMAIN proc[p].data :
                    proc[p].meta[f].target = f}
  /\ meta' = [f \in DOMAIN meta \cup L |->
                IF f \in L THEN [MetaOf(meta, f) EXCEPT !.expires = proc[p].data[f]] ELSE meta[f]]

UpdateMeta(p) ==
  LET r == proc[p].req
      f == Field(p)
      verifies == r.cmd = "rotate" /\ MetaOf(proc[p].meta, f).target # None
  IN
  /\ At(p, "updateMeta")
  /\ CASE r.cmd \in {"set", "rotate"} -> meta' = WithNewValue(p)
       [] r.cmd = "import" -> meta' = Imported(p)
       [] r.cmd = "rename" -> meta' = Renamed(meta, f, r.to)
       [] r.cmd \in {"rm", "purge"} -> meta' = Without(meta, r.fields)
       [] r.cmd \in {"undo", "restore"} -> meta' = WithKeptMeta(p)
       [] r.cmd = "use" -> meta' = Used(r.fields)
       [] r.cmd = "meta" -> meta' = Described(p)
       [] r.cmd = "verify" -> \E L \in SUBSET r.fields : Learned(p, L)
  /\ IF verifies
     THEN proc' = [proc EXCEPT ![p] = [Idle EXCEPT !.req = Request("verify", {f}, None, None, "none"),
                                                   !.todo = Plan["verify"]]]
     ELSE End(p)
  /\ UNCHANGED <<store, exists, trash, hasTrash, begun, clock, weeks>>

(* A week in which no command runs. *)
WeekPasses ==
  /\ weeks < MaxWeeks
  /\ \A p \in Procs : proc[p].todo = <<>>
  /\ weeks' = weeks + 1
  /\ trash' = {[e EXCEPT !.old = TRUE] : e \in trash}
  /\ meta' = [f \in DOMAIN meta |-> [meta[f] EXCEPT !.used = FALSE]]
  /\ UNCHANGED <<store, exists, hasTrash, proc, begun, clock>>

Next ==
  \/ \E p \in Procs : \/ Begin(p) \/ Stop(p)
                       \/ ReadStore(p) \/ ReadMeta(p) \/ ReadTrash(p) \/ RereadTrash(p)
                       \/ WriteTrash(p) \/ DropCopy(p) \/ WriteStore(p) \/ UpdateMeta(p)
  \/ WeekPasses

Spec == Init /\ [][Next]_vars

-----------------------------------------------------------------------------
(* Properties *)

Maps(V) == UNION {[F -> V] : F \in SUBSET Fields}

(* Every file and every snapshot of one has its type, and a command in      *)
(* flight has the rest of some plan left to do.                             *)
TypeOK ==
  /\ store \in Maps(Values) /\ meta \in Maps(Metas)
  /\ trash \subseteq Entries
  /\ exists \in BOOLEAN /\ hasTrash \in BOOLEAN
  /\ begun \in 0..MaxCommands /\ clock \in 0..begun /\ weeks \in 0..MaxWeeks
  /\ ~exists => store = Nothing
  /\ ~hasTrash => trash = {}
  /\ \A p \in Procs :
       /\ proc[p].data \in Maps(Values) /\ proc[p].meta \in Maps(Metas)
       /\ proc[p].trash \subseteq Entries /\ proc[p].undone \subseteq Entries
       /\ proc[p].todo # <<>> => \E i \in DOMAIN Plan[Cmd(p)] :
                                   proc[p].todo = SubSeq(Plan[Cmd(p)], i, Len(Plan[Cmd(p)]))
       /\ Named(p) \subseteq Fields

ValueOf(map, f) == IF f \in DOMAIN map THEN map[f] ELSE None

(* A field of the store changes only by a command that names it and that has *)
(* seen the value it replaces: writes conditional on the ciphertext read     *)
(* leave no room for a lost update (writeEncryptedJSON).                     *)
StoreWritesSeeWhatTheyReplace ==
  [][\A f \in Fields : ValueOf(store', f) # ValueOf(store, f) =>
       \E p \in Procs : /\ At(p, "writeStore")
                        /\ proc'[p].todo # proc[p].todo
                        /\ f \in Named(p) \cup {proc[p].req.to}
                        /\ ValueOf(proc[p].data, f) = ValueOf(store, f)]_vars

Young(entries, f, v) ==
  \E e \in entries : e.field = f /\ e.value = v /\ ~e.old

(* A value that rm, rotate, --undo or a forced import takes out of the store *)
(* is in the trash by then, whatever another bb process does to the trash in *)
(* between (the trash is written first, and conditionally).                  *)
KeepsReplacedValue ==
  \A p \in Procs, f \in DOMAIN store :
    /\ At(p, "writeStore") /\ Cmd(p) \in {"rm", "rotate", "undo", "import"}
    /\ ValueOf(store', f) # store[f]
    => Young(trash', f, store[f])
ReplacedValueKept == [][KeepsReplacedValue]_vars

(* "the previous value is kept for 7 days": a value put in the trash leaves  *)
(* it within the week only because it is the value of the store again.       *)
KeepsTrashForAWeek ==
  \A e \in trash :
    ~e.old /\ weeks' = weeks => Young(trash', e.field, e.value) \/ ValueOf(store, e.field) = e.value
TrashKeptForAWeek == [][KeepsTrashForAWeek]_vars

(* A purge leaves no copy in the trash that restore could bring back         *)
(* (purgeFromTrash runs before the field leaves the store).                  *)
PurgesForGood ==
  \A p \in Procs, f \in Fields :
    At(p, "writeStore") /\ Cmd(p) = "purge" /\ f \in DOMAIN store \ DOMAIN store'
    => \A e \in Copies(trash', f) : e.old
PurgeIsFinal == [][PurgesForGood]_vars

Quiet == \A p \in Procs : proc[p].todo = <<>>

(* Between commands the sidecar describes only fields the store holds        *)
(* (renameSecretMeta, dropSecretMeta).                                       *)
SidecarAligned == Quiet => DOMAIN meta \subseteq DOMAIN store

(* Between commands a recorded expiry belongs to the value of the store:     *)
(* rotation and a forced import clear the one of the value they replace, and *)
(* restore and --undo bring back the one kept with theirs.                   *)
ExpiryOfCurrentValue ==
  Quiet => \A f \in DOMAIN meta \cap DOMAIN store : meta[f].expires \in {None, store[f]}

(* Before rotate --undo ends, the newest rotated copy is the value it has    *)
(* just replaced, so that a second --undo returns to it.                     *)
UndoCanBeUndone ==
  \A p \in Procs : Cmd(p) = "undo" /\ At(p, "updateMeta") =>
    LET rotated == Rotations(trash, Field(p)) IN
    rotated # {} /\ Newest(rotated).value = proc[p].data[Field(p)]

=============================================================================
