----------------------------- MODULE Workspace -----------------------------
(***************************************************************************)
(* `bb project` and `bb tm` (app.go, sessionizer.go, tm.go): a registry of *)
(* project directories under a file lock, and the tmux sessions that bb    *)
(* opens, attaches and kills while tmux's other clients do the same.       *)
(*                                                                         *)
(* A project's ID is made from its path.  The name of a session is a       *)
(* sequence, so that one may be a prefix of another: a project's is its    *)
(* name and its ID, and the one an older bb gave it is the ID alone.       *)
(* tmux gives a session an ID that it does not give again while the server *)
(* runs; here the server never exits.                                      *)
(***************************************************************************)
EXTENDS Naturals, Sequences, SequencesExt

CONSTANTS
    WsProcs,        \* processes of bb that take several steps
    WsNames,        \* names of projects
    WsPaths,        \* directories
    WsBase,         \* filepath.Base of each directory
    WsSessions,     \* names of sessions
    MaxWsSessions,  \* bound: sessions that are ever created
    NoWork          \* nothing done, no project

ASSUME WorkspaceAssumption ==
    /\ WsBase \in [WsPaths -> WsNames] /\ MaxWsSessions \in Nat
    /\ NoWork \notin WsNames \cup WsPaths

VARIABLES
    wsDirs,       \* the directories that exist
    wsProjects,   \* projects.json
    wsTmux,       \* the ID of the session of each name
    wsBorn,       \* sessions created so far
    wsOps,        \* what each process is doing
    wsDone        \* what the last step did of what a person had confirmed

workspaceVars == <<wsDirs, wsProjects, wsTmux, wsBorn, wsOps, wsDone>>

WsProjects == [path : WsPaths, name : WsNames]
WsRefs == WsPaths \cup WsNames

\* tmSessionName, and the name of an older bb's session
SessionOf(x) == <<x.name, x.path>>
LegacyOf(x)  == <<x.path>>

\* `id` is the session shown, 0 for one that was only named; `shown` the projects shown.
\* `held` records whether, since the answer, the session had that ID, or, since open
\* began, there was no legacy session to adopt.
WsIdle == [cmd |-> "none", pc |-> "idle", project |-> NoWork, name |-> <<>>, id |-> 0,
           inside |-> FALSE, exists |-> FALSE, ref |-> NoWork, shown |-> {}, held |-> FALSE]
WsOps == [cmd : {"none", "open", "attach", "kill", "layout", "remove", "prune", "import"},
          pc : {"idle", "has", "legacy", "rename", "again", "ask", "recheck", "act"},
          project : WsProjects \cup {NoWork}, name : WsSessions \cup {<<>>},
          id : 0..MaxWsSessions, inside : BOOLEAN, exists : BOOLEAN,
          ref : WsRefs \cup {NoWork}, shown : SUBSET WsProjects, held : BOOLEAN]
WsDones == [cmd : {"open", "attach", "kill", "remove", "prune"}, id : 0..MaxWsSessions,
            got : SUBSET (1..MaxWsSessions), shown : SUBSET WsProjects,
            gone : SUBSET WsProjects, held : BOOLEAN]

WorkspaceTypeOK ==
    /\ wsDirs \subseteq WsPaths /\ wsProjects \subseteq WsProjects
    /\ DOMAIN wsTmux \subseteq WsSessions /\ IsInjective(wsTmux)
    /\ wsBorn \in 0..MaxWsSessions /\ \A n \in DOMAIN wsTmux : wsTmux[n] \in 1..wsBorn
    /\ wsOps \in [WsProcs -> WsOps] /\ wsDone \in WsDones \cup {NoWork}

WorkspaceInit ==
    /\ wsDirs = WsPaths /\ wsProjects = {} /\ wsTmux = <<>> /\ wsBorn = 0
    /\ wsOps = [p \in WsProcs |-> WsIdle] /\ wsDone = NoWork

-----------------------------------------------------------------------------
(* Helpers *)

PathsOf(xs) == {x.path : x \in xs}
WsLive(n, tmux) == n \in DOMAIN tmux

WsWitness(o, tmux) ==
    [o EXCEPT !.held =
        \/ o.held
        \/ o.cmd = "open" /\ (~WsLive(LegacyOf(o.project), tmux) \/ WsLive(o.name, tmux))
        \/ o.cmd # "open" /\ o.pc \in {"recheck", "act"} /\ WsLive(o.name, tmux) /\ tmux[o.name] = o.id]

WsSet(p, o) == wsOps' = [q \in WsProcs |-> WsWitness(IF q = p THEN o ELSE wsOps[q], wsTmux')]
WsGoto(p, pc) == WsSet(p, [wsOps[p] EXCEPT !.pc = pc])
WsEnd(p) == WsSet(p, WsIdle)
WsAt(p, cmds, pc) == wsOps[p].cmd \in cmds /\ wsOps[p].pc = pc
WsBegin(p, o) == wsOps[p] = WsIdle /\ WsSet(p, o)

SameTmux == UNCHANGED <<wsTmux, wsBorn>>
SameRegistry == UNCHANGED <<wsDirs, wsProjects>>
WsQuiet == wsDone' = NoWork /\ SameTmux /\ SameRegistry

\* tmux new-session
Creates(n) ==
    /\ ~WsLive(n, wsTmux) /\ wsBorn < MaxWsSessions
    /\ wsBorn' = wsBorn + 1 /\ wsTmux' = [m \in DOMAIN wsTmux \cup {n} |->
                                             IF m = n THEN wsBorn' ELSE wsTmux[m]]
Without(n) == Restrict(wsTmux, DOMAIN wsTmux \ {n})

\* A session that -t means: the one of that name, else those that begin with it.
TargetsOf(n) ==
    IF WsLive(n, wsTmux) THEN {n} ELSE {m \in DOMAIN wsTmux : IsPrefix(n, m)}

-----------------------------------------------------------------------------
(* bb tm attach, kill and layout *)

\* The session is chosen from a list, or only named: then any ID is right.
AttachBegin(p, n, chosen) ==
    /\ WsQuiet /\ (chosen => WsLive(n, wsTmux))
    /\ WsBegin(p, [WsIdle EXCEPT !.cmd = "attach", !.pc = IF chosen THEN "ask" ELSE "recheck",
                                 !.name = n, !.id = IF chosen THEN wsTmux[n] ELSE 0])

KillBegin(p, n) ==
    /\ WsQuiet /\ WsLive(n, wsTmux)
    /\ WsBegin(p, [WsIdle EXCEPT !.cmd = "kill", !.pc = "ask", !.name = n, !.id = wsTmux[n]])

\* confirmTM, or the list of selectTMSession is open: chosen or cancelled
WsAnswer(p, yes) ==
    /\ WsQuiet /\ wsOps[p].pc = "ask"
    /\ IF yes THEN WsGoto(p, "recheck") ELSE WsEnd(p)

\* A bug of SameSession: a session of the same name passes for the one shown.
SameSession_Name(o) == WsLive(o.name, wsTmux)

\* tmExactSession, after the answer
SameSession(o) == WsLive(o.name, wsTmux) /\ o.id \in {0, wsTmux[o.name]}

SessionRecheck(p) ==
    /\ WsQuiet /\ WsAt(p, {"attach", "kill"}, "recheck")
    /\ IF SameSession(wsOps[p])
       THEN WsSet(p, [wsOps[p] EXCEPT !.pc = "act", !.id = IF @ = 0 THEN wsTmux[wsOps[p].name] ELSE @])
       ELSE WsEnd(p)

\* tmux gets the name alone; it refuses one that could mean several.
SessionAct(p) ==
    /\ WsAt(p, {"attach", "kill"}, "act") /\ SameRegistry /\ UNCHANGED wsBorn
    /\ LET o == wsOps[p]
           targets == TargetsOf(o.name)
       IN  IF \E n \in targets : targets = {n}
           THEN LET n == CHOOSE n \in targets : TRUE
                IN  /\ wsTmux' = IF o.cmd = "kill" THEN Without(n) ELSE wsTmux
                    /\ wsDone' = [cmd |-> o.cmd, id |-> o.id, got |-> {wsTmux[n]}, shown |-> {},
                                  gone |-> {}, held |-> o.held]
           ELSE wsDone' = NoWork /\ UNCHANGED wsTmux
    /\ WsEnd(p)

\* tmLayout: the name is free, then new-session; its panes are not modelled.
LayoutBegin(p, n) ==
    /\ WsQuiet /\ wsDirs # {} /\ ~WsLive(n, wsTmux)
    /\ WsBegin(p, [WsIdle EXCEPT !.cmd = "layout", !.pc = "act", !.name = n])
LayoutAct(p) ==
    /\ WsAt(p, {"layout"}, "act") /\ SameRegistry /\ wsDone' = NoWork
    /\ IF WsLive(wsOps[p].name, wsTmux) THEN SameTmux ELSE Creates(wsOps[p].name)
    /\ WsEnd(p)

-----------------------------------------------------------------------------
(* bb tm [--project]: open a project's session, adopting an older bb's *)

OpenBegin(p, x, inside) ==
    /\ WsQuiet /\ x \in wsProjects /\ SessionOf(x) \in WsSessions
    /\ WsBegin(p, [WsIdle EXCEPT !.cmd = "open", !.pc = "has", !.project = x,
                                 !.name = SessionOf(x), !.inside = inside])

OpenHas(p) ==
    /\ WsQuiet /\ WsAt(p, {"open"}, "has")
    /\ LET live == WsLive(wsOps[p].name, wsTmux)
       IN  WsSet(p, [wsOps[p] EXCEPT !.exists = live, !.pc = IF live THEN "act" ELSE "legacy"])

\* A bug of AfterLegacy: the legacy session is left as it is.
AfterLegacy_Ignored(live) == "act"

AfterLegacy(live) == IF live THEN "rename" ELSE "act"

OpenLegacy(p) ==
    /\ WsQuiet /\ WsAt(p, {"open"}, "legacy")
    /\ WsGoto(p, AfterLegacy(WsLive(LegacyOf(wsOps[p].project), wsTmux)))

Renames(old, new) ==
    /\ WsLive(old, wsTmux) /\ ~WsLive(new, wsTmux)
    /\ wsTmux' = [n \in (DOMAIN wsTmux \ {old}) \cup {new} |->
                     IF n = new THEN wsTmux[old] ELSE wsTmux[n]]

\* rename-session, which another client may have done first
OpenRename(p) ==
    /\ WsAt(p, {"open"}, "rename") /\ SameRegistry /\ wsDone' = NoWork /\ UNCHANGED wsBorn
    /\ LET o == wsOps[p]
           can == WsLive(LegacyOf(o.project), wsTmux) /\ ~WsLive(o.name, wsTmux)
       IN  /\ IF can THEN Renames(LegacyOf(o.project), o.name) ELSE UNCHANGED wsTmux
           /\ WsSet(p, [o EXCEPT !.exists = can, !.pc = IF can THEN "act" ELSE "again"])

OpenAgain(p) ==
    /\ WsQuiet /\ WsAt(p, {"open"}, "again")
    /\ WsSet(p, [wsOps[p] EXCEPT !.exists = WsLive(wsOps[p].name, wsTmux), !.pc = "act"])

\* Inside tmux a new session is created only if there was none, then switched to by its
\* exact name; outside, new-session -A does whichever is right.
OpenAct(p) ==
    /\ WsAt(p, {"open"}, "act") /\ SameRegistry
    /\ LET o == wsOps[p]
           live == WsLive(o.name, wsTmux)
       IN  \/ /\ live \/ (o.inside /\ o.exists)
              /\ SameTmux /\ wsDone' = NoWork
           \/ /\ ~(o.inside /\ o.exists) /\ Creates(o.name)
              /\ wsDone' = [cmd |-> "open", id |-> 0, got |-> {wsBorn'}, shown |-> {}, gone |-> {},
                            held |-> o.held]
    /\ WsEnd(p)

-----------------------------------------------------------------------------
(* bb project, bb tm dirs *)

\* project add; `name` is its base name unless one is given.
ProjectAdd(path, name) ==
    /\ path \in wsDirs /\ \A x \in wsProjects : x.name # name /\ x.path # path
    /\ wsProjects' = wsProjects \cup {[path |-> path, name |-> name]}
    /\ wsOps' = wsOps /\ wsDone' = NoWork /\ SameTmux /\ UNCHANGED wsDirs

\* matchingTMProjects: by ID or by name
Matching(ref) == {x \in wsProjects : ref \in {x.path, x.name}}

\* project remove takes every match, unasked.
ProjectRemove(ref) ==
    /\ Matching(ref) # {} /\ wsProjects' = wsProjects \ Matching(ref)
    /\ wsOps' = wsOps /\ wsDone' = NoWork /\ SameTmux /\ UNCHANGED wsDirs

RemoveBegin(p, ref) ==
    /\ WsQuiet /\ \E x \in wsProjects : Matching(ref) = {x}
    /\ WsBegin(p, [WsIdle EXCEPT !.cmd = "remove", !.pc = "ask", !.ref = ref, !.shown = Matching(ref)])

PruneBegin(p) ==
    /\ WsQuiet
    /\ LET stale == {x \in wsProjects : x.path \notin wsDirs}
       IN  stale # {} /\ WsBegin(p, [WsIdle EXCEPT !.cmd = "prune", !.pc = "ask", !.shown = stale])

\* A bug of RemovedBy: what the reference means by now goes.
RemovedBy_Ref(o) == Matching(o.ref)
\* What a confirmed removal takes: the project shown, if the reference still means it
\* alone; of the stale ones shown, those whose directory is still gone.
RemovedBy(o) ==
    IF o.cmd = "prune"
    THEN {x \in wsProjects : x.path \in PathsOf(o.shown) \ wsDirs}
    ELSE {x \in Matching(o.ref) : x.path \in PathsOf(o.shown) /\ Matching(o.ref) = {x}}

RegistryAct(p) ==
    /\ WsAt(p, {"remove", "prune"}, "recheck") /\ SameTmux /\ UNCHANGED wsDirs
    /\ LET o == wsOps[p]
           gone == RemovedBy(o)
       IN  /\ wsProjects' = wsProjects \ gone
           /\ wsDone' = [cmd |-> o.cmd, id |-> 0, got |-> {}, shown |-> o.shown, gone |-> gone,
                         held |-> FALSE]
    /\ WsEnd(p)

\* checkSessionizer: a candidate is a directory, under its base name, that is in no
\* conflict with the registry.
ImportBegin(p, paths) ==
    /\ WsQuiet /\ paths # {} /\ paths \subseteq wsDirs
    /\ WsBegin(p, [WsIdle EXCEPT !.cmd = "import", !.pc = "act",
                      !.shown = {x \in {[path |-> d, name |-> WsBase[d]] : d \in paths} :
                                    \A y \in wsProjects : y.path # x.path /\ y.name # x.name}])

\* A bug of Imports: what was registered since the check is added again.
Imports_Unchecked(candidates) == wsProjects \cup candidates
\* applySessionizer, under the lock
Imports(candidates) == wsProjects \cup {x \in candidates : x.path \notin PathsOf(wsProjects)}

\* It refuses a source that has changed since the check.
ImportAct(p) ==
    /\ WsAt(p, {"import"}, "act") /\ SameTmux /\ wsDone' = NoWork /\ UNCHANGED wsDirs
    /\ wsProjects' \in {wsProjects, Imports(wsOps[p].shown)}
    /\ WsEnd(p)

-----------------------------------------------------------------------------
(* Everybody else *)

SessionsChange ==
    /\ \/ \E n \in WsSessions : Creates(n)
       \/ \E n \in DOMAIN wsTmux : wsTmux' = Without(n) /\ UNCHANGED wsBorn
       \/ \E x \in wsProjects : Renames(LegacyOf(x), SessionOf(x)) /\ UNCHANGED wsBorn
    /\ DOMAIN wsTmux' \subseteq WsSessions
    /\ SameRegistry /\ wsDone' = NoWork
    /\ wsOps' = [p \in WsProcs |-> WsWitness(wsOps[p], wsTmux')]

DirectoryChanges(path) ==
    /\ wsDirs' = IF path \in wsDirs THEN wsDirs \ {path} ELSE wsDirs \cup {path}
    /\ SameTmux /\ wsDone' = NoWork /\ wsOps' = wsOps /\ UNCHANGED wsProjects

WsSteps(p) ==
    \/ \E yes \in BOOLEAN : WsAnswer(p, yes)
    \/ SessionRecheck(p) \/ SessionAct(p) \/ LayoutAct(p)
    \/ OpenHas(p) \/ OpenLegacy(p) \/ OpenRename(p) \/ OpenAgain(p) \/ OpenAct(p)
    \/ RegistryAct(p) \/ ImportAct(p) \/ PruneBegin(p)
    \/ \E n \in WsSessions : KillBegin(p, n) \/ LayoutBegin(p, n) \/ \E c \in BOOLEAN : AttachBegin(p, n, c)
    \/ \E x \in WsProjects, inside \in BOOLEAN : OpenBegin(p, x, inside)
    \/ \E ref \in WsRefs : RemoveBegin(p, ref)
    \/ \E paths \in SUBSET WsPaths : ImportBegin(p, paths)

WorkspaceNext ==
    \/ \E p \in WsProcs : WsSteps(p)
    \/ \E path \in WsPaths, name \in WsNames : ProjectAdd(path, name)
    \/ \E ref \in WsRefs : ProjectRemove(ref)
    \/ SessionsChange \/ \E path \in WsPaths : DirectoryChanges(path)

-----------------------------------------------------------------------------
(* Properties *)

\* tmux is told to attach or to kill a name only if the session that the person chose or
\* confirmed had that name, at some moment after they did ("A same-name replacement must
\* not inherit authorization", tm.go:395).
SessionActsWereAuthorised ==
    wsDone # NoWork /\ wsDone.cmd \in {"attach", "kill"} => wsDone.held

\* A session is made for a project beside its legacy one only if, since the command began,
\* there was no legacy session or already one of the new name ("so an upgrade keeps its
\* windows instead of leaving a second session behind", tm.go:205).
LegacySessionAdopted == wsDone # NoWork /\ wsDone.cmd = "open" => wsDone.held

\* A confirmed removal takes projects that were shown and, when pruning, whose directory is
\* gone now, whatever was registered and created while the person was asked (tm.go:440, 495).
ProjectsRemovedWereShown ==
    wsDone # NoWork /\ wsDone.cmd \in {"remove", "prune"} =>
        /\ PathsOf(wsDone.gone) \subseteq PathsOf(wsDone.shown)
        /\ wsDone.cmd = "prune" => PathsOf(wsDone.gone) \cap wsDirs = {}

\* A directory is registered once, whatever is added and imported at the same time.
PathsRegisteredOnce == \A x, y \in wsProjects : x.path = y.path => x = y

\* The registry and the sessions made for it: a directory has one record, and a project's
\* old session is carried over (app.go:249, sessionizer.go:129, tm.go:208).
ProjectsHold == PathsRegisteredOnce /\ LegacySessionAdopted

\* What the code cannot promise: between the second look and tmux's, the session may go,
\* and tmux then takes another whose name begins like it (tm.go:400 has no "=").
OnlyShownKilled == wsDone # NoWork /\ wsDone.cmd = "kill" => wsDone.got = {wsDone.id}

WorkspaceSpec == WorkspaceInit /\ [][WorkspaceNext]_workspaceVars
=============================================================================
