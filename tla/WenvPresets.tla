---------------------------- MODULE WenvPresets ----------------------------
(***************************************************************************)
(* Environment presets (wenv.go): bb wenv's commands and manager, and the  *)
(* MCP server's wenv_set (mcp_serve.go), on one wenv.json.                 *)
(*                                                                         *)
(* A command reads the file, may ask, and writes what it read with its     *)
(* change; only the write is under the file's lock (writeJSON).  wenv_set  *)
(* reads and writes under the lock.  A value is a plain one or a reference *)
(* to the secret store.                                                    *)
(***************************************************************************)
EXTENDS Naturals, FiniteSets

CONSTANTS
    WenvProcs,   \* processes of bb wenv
    WenvNames,   \* presets
    PlainKeys,   \* variables
    SecretKeys   \* variables whose names look like secrets (isSecretLikeWenvKey)

WenvKeys == PlainKeys \cup SecretKeys
ASSUME WenvAssumption == PlainKeys \cap SecretKeys = {}

\* A preset is the values of some of the variables; a store, some of the presets.
WenvPreset == UNION {[keys -> {"plain", "reference"}] : keys \in SUBSET WenvKeys}
WenvStores == UNION {[names -> WenvPreset] : names \in SUBSET WenvNames}

VARIABLES
    wpFile,     \* wenv.json
    wpSecrets,  \* the referenced fields are in the secret store
    wpTerminal, \* a terminal is attached, or BB_ALLOW_SECRET_OUTPUT is set
    wpOps,      \* what each process is doing
    wpPrinted   \* what the last step printed for the shell to evaluate

wenvVars == <<wpFile, wpSecrets, wpTerminal, wpOps, wpPrinted>>

\* `store`: what a change will write, or what apply has read.  `presets`: those it
\* is a change of.
WenvOps == [pc : {"idle", "ask", "write", "preview", "output"}, store : WenvStores,
            presets : SUBSET WenvNames]
NoStore == [n \in {} |-> {}]
WenvIdle == [pc |-> "idle", store |-> NoStore, presets |-> {}]
NoOutput == [preset |-> {}, vars |-> NoStore, from |-> NoStore]

WenvTypeOK ==
    /\ wpFile \in WenvStores /\ wpSecrets \in BOOLEAN /\ wpTerminal \in BOOLEAN
    /\ wpOps \in [WenvProcs -> WenvOps]
    /\ wpPrinted.preset \in SUBSET WenvNames

WenvInit ==
    /\ wpFile = NoStore /\ wpSecrets \in BOOLEAN /\ wpTerminal \in BOOLEAN
    /\ wpOps = [p \in WenvProcs |-> WenvIdle] /\ wpPrinted = NoOutput

-----------------------------------------------------------------------------
(* Stores *)

\* A bug of ValidPreset: a plain value is refused for no variable.
ValidPreset_Any(vars) == TRUE

\* validateWenvValue, for every value
ValidPreset(vars) == \A k \in DOMAIN vars \cap SecretKeys : vars[k] = "reference"

With(f, x, v) == [y \in DOMAIN f \cup {x} |-> IF y = x THEN v ELSE f[y]]
Less(f, x) == [y \in DOMAIN f \ {x} |-> f[y]]
Joined(f, g) == [y \in DOMAIN f \cup DOMAIN g |-> IF y \in DOMAIN g THEN g[y] ELSE f[y]]

UsesSecrets(vars) == \E k \in DOMAIN vars : vars[k] = "reference"

-----------------------------------------------------------------------------
(* Changes *)

WenvAt(p, pc) == wpOps[p].pc = pc
WenvEnd(p) == wpOps' = [wpOps EXCEPT ![p] = WenvIdle]

\* A command that will write `store` instead of the store it read.
Changes(p, asks, store, presets) ==
    /\ wpOps[p] = WenvIdle
    /\ wpOps' = [wpOps EXCEPT ![p] = [pc |-> IF asks THEN "ask" ELSE "write", store |-> store,
                                      presets |-> presets]]
    /\ wpPrinted' = NoOutput /\ UNCHANGED <<wpFile, wpSecrets, wpTerminal>>

\* bb wenv set, and the manager's new preset
SetPreset(p, name, vars) ==
    /\ vars # NoStore /\ ValidPreset(vars)
    /\ Changes(p, FALSE, With(wpFile, name, vars), {name})

AddVariable(p, name, key, value) ==
    /\ ValidPreset([k \in {key} |-> value])
    /\ name \in DOMAIN wpFile /\ key \notin DOMAIN wpFile[name]
    /\ Changes(p, FALSE, With(wpFile, name, With(wpFile[name], key, value)), {name})

UpdateVariable(p, name, key, value) ==
    /\ ValidPreset([k \in {key} |-> value])
    /\ name \in DOMAIN wpFile /\ key \in DOMAIN wpFile[name]
    /\ Changes(p, FALSE, With(wpFile, name, With(wpFile[name], key, value)), {name})

\* A bug of Removable: the last variable too.
Removable_Last(vars, key) == key \in DOMAIN vars

\* wenvRemoveVariable leaves a preset its last variable.
Removable(vars, key) == key \in DOMAIN vars /\ Cardinality(DOMAIN vars) # 1

RemoveVariable(p, name, key) ==
    /\ name \in DOMAIN wpFile /\ Removable(wpFile[name], key)
    /\ Changes(p, TRUE, With(wpFile, name, Less(wpFile[name], key)), {name})

RenamePreset(p, from, to) ==
    /\ from \in DOMAIN wpFile /\ to \notin DOMAIN wpFile
    /\ Changes(p, TRUE, With(Less(wpFile, from), to, wpFile[from]), {from, to})

RemovePreset(p, name, yes) ==
    /\ name \in DOMAIN wpFile /\ Changes(p, ~yes, Less(wpFile, name), {name})

\* wenvImport refuses all when a preset of the same name differs; one that brings nothing
\* new writes back what it has read.
ImportPresets(p, presets) ==
    /\ \A n \in DOMAIN presets : ValidPreset(presets[n])
    /\ \A n \in DOMAIN wpFile \cap DOMAIN presets : wpFile[n] = presets[n]
    /\ Changes(p, FALSE, Joined(wpFile, presets), DOMAIN presets \ DOMAIN wpFile)

Confirmed(p, yes) ==
    /\ WenvAt(p, "ask")
    /\ IF yes THEN wpOps' = [wpOps EXCEPT ![p].pc = "write"] ELSE WenvEnd(p)
    /\ wpPrinted' = NoOutput /\ UNCHANGED <<wpFile, wpSecrets, wpTerminal>>

Writes(p) ==
    /\ WenvAt(p, "write") /\ wpFile' = wpOps[p].store /\ WenvEnd(p)
    /\ wpPrinted' = NoOutput /\ UNCHANGED <<wpSecrets, wpTerminal>>

\* mcpToolWenvSet
ServerSets(name, vars) ==
    /\ vars # NoStore /\ ValidPreset(vars)
    /\ wpFile' = With(wpFile, name, Joined(IF name \in DOMAIN wpFile THEN wpFile[name] ELSE NoStore, vars))
    /\ wpPrinted' = NoOutput /\ UNCHANGED <<wpSecrets, wpTerminal, wpOps>>

-----------------------------------------------------------------------------
(* apply and export *)

\* wenvApply previews, and asks unless told not to; wenvExport goes on at once.
Previews(p, name, yes) ==
    /\ name \in DOMAIN wpFile /\ wpOps[p] = WenvIdle
    /\ wpOps' = [wpOps EXCEPT ![p] = [pc |-> IF yes THEN "output" ELSE "preview",
                                      store |-> wpFile, presets |-> {name}]]
    /\ wpPrinted' = NoOutput /\ UNCHANGED <<wpFile, wpSecrets, wpTerminal>>

ApplyConfirmed(p, yes) ==
    /\ WenvAt(p, "preview")
    /\ IF yes THEN wpOps' = [wpOps EXCEPT ![p].pc = "output"] ELSE WenvEnd(p)
    /\ wpPrinted' = NoOutput /\ UNCHANGED <<wpFile, wpSecrets, wpTerminal>>

\* A bug of Applied: the file is read again after the answer.
Applied_Reread(p, name) == IF name \in DOMAIN wpFile THEN wpFile[name] ELSE wpOps[p].store[name]

\* The variables that are printed are those that were shown.
Applied(p, name) == wpOps[p].store[name]

\* requireSecretOutputConsent, and resolveWenvValues finds all it needs.
MayPrint(vars) == UsesSecrets(vars) => wpTerminal /\ wpSecrets

Outputs(p) ==
    /\ WenvAt(p, "output") /\ WenvEnd(p)
    /\ \E name \in wpOps[p].presets :
          wpPrinted' = IF MayPrint(Applied(p, name))
                       THEN [preset |-> {name}, vars |-> Applied(p, name), from |-> wpOps[p].store]
                       ELSE NoOutput
    /\ UNCHANGED <<wpFile, wpSecrets, wpTerminal>>

\* bb sec rm or add, in another process.
ReferencesChange ==
    /\ wpSecrets' = ~wpSecrets /\ wpPrinted' = NoOutput
    /\ UNCHANGED <<wpFile, wpTerminal, wpOps>>

WenvStops(p) ==
    /\ wpOps[p] # WenvIdle /\ WenvEnd(p)
    /\ wpPrinted' = NoOutput /\ UNCHANGED <<wpFile, wpSecrets, wpTerminal>>

WenvNext ==
    \/ \E p \in WenvProcs, name \in WenvNames :
          \/ \E vars \in WenvPreset : SetPreset(p, name, vars)
          \/ \E key \in WenvKeys, value \in {"plain", "reference"} :
                AddVariable(p, name, key, value) \/ UpdateVariable(p, name, key, value)
          \/ \E key \in WenvKeys : RemoveVariable(p, name, key)
          \/ \E to \in WenvNames : RenamePreset(p, name, to)
          \/ \E yes \in BOOLEAN : RemovePreset(p, name, yes) \/ Previews(p, name, yes)
    \/ \E p \in WenvProcs :
          \/ \E presets \in WenvStores : ImportPresets(p, presets)
          \/ \E yes \in BOOLEAN : Confirmed(p, yes) \/ ApplyConfirmed(p, yes)
          \/ Writes(p) \/ Outputs(p) \/ WenvStops(p)
    \/ \E name \in WenvNames, vars \in WenvPreset : ServerSets(name, vars)
    \/ ReferencesChange

WenvSpec == WenvInit /\ [][WenvNext]_wenvVars

-----------------------------------------------------------------------------
(* Properties *)

\* No preset ever holds a plain value for a variable that looks like a secret,
\* whoever wrote it and over whatever (validateWenvValue, wenv.go:205).
NoPlainSecrets ==
    \A n \in DOMAIN wpFile : \A k \in DOMAIN wpFile[n] \cap SecretKeys : wpFile[n][k] # "plain"

\* What apply prints for the shell to evaluate is the preset it showed, though the
\* file changed while it asked, and with values of the store only for a person who
\* may see them (wenvApply, wenv.go:271).
PrintedAsShown ==
    wpPrinted # NoOutput =>
        \E n \in wpPrinted.preset :
            /\ wpPrinted.vars = wpPrinted.from[n]
            /\ UsesSecrets(wpPrinted.vars) => wpTerminal /\ wpSecrets

\* No command sets out to empty a preset of its variables: they are taken away one by
\* one down to the last (wenv.go:639), and a legacy file that sets none is not imported
\* over a preset that does (wenv.go:912).
OneVariableStays ==
    [][\A p \in WenvProcs :
          wpOps[p] = WenvIdle /\ wpOps'[p].pc \in {"ask", "write"} =>
             \A n \in DOMAIN wpFile \cap DOMAIN wpOps'[p].store :
                DOMAIN wpFile[n] # {} => DOMAIN wpOps'[p].store[n] # {}]_wenvVars

\* A writer's change is of the presets it names, whatever others wrote since it read
\* the file ("Concurrent CLI writers therefore cannot silently discard one another's
\* update", docs/architecture.md:77-78).
OthersUpdatesKept ==
    [][\A p \in WenvProcs : wpOps[p].pc = "write" /\ wpOps'[p] = WenvIdle /\ wpFile' # wpFile =>
          \A n \in WenvNames \ wpOps[p].presets :
             /\ n \in DOMAIN wpFile <=> n \in DOMAIN wpFile'
             /\ n \in DOMAIN wpFile => wpFile'[n] = wpFile[n]]_wenvVars

\* Six commands write presets, and none of them leaves a plain value where a secret
\* belongs, or an empty preset where one set something (wenv.go:205, 639).
PresetsHold == []NoPlainSecrets /\ OneVariableStays
=============================================================================
