----------------------------- MODULE MCCommands -----------------------------
(***************************************************************************)
(* One instance of each of bb's commands and of the parts of its programs  *)
(* that keep state of their own: the Terraform workflow, the MCP server    *)
(* and registry, the presets, the projects and their tmux sessions, the    *)
(* browser's list and bb's own selector.  They share no state, so a        *)
(* behaviour runs one of them, which it chooses at the start; the others   *)
(* stay where they begin.                                                  *)
(***************************************************************************)
EXTENDS TerraformSession, TerraformReview, TerraformClean, McpServer, McpRegistry, WenvPresets,
        BrowserList, Workspace, SelectorWalk, TLC

CONSTANTS tf1, tf2  \* processes of bb tfx: tf1 runs anything, tf2 only begins sessions

VARIABLE command

SimplePaths == {<< <<"tags">>, <<"team">> >>, << <<"size">> >>}
ASSUME SimplePathsArePlain == PlainPaths(SimplePaths)
TagRules == {[paths |-> {<<"tags">>}, actions |-> {"update"}, match |-> "prefix"],
             [paths |-> {<<"*">>}, actions |-> {"update", "create"}, match |-> "glob"]}

\* Rules for a prefix, a longer one and the whole argv; "x" is an argument a rule refuses.
RulePrefixes == {<<"c">>, <<"c", "a">>, <<"c", "a", "b">>}
Argvs == {<<"c">>, <<"c", "a", "b">>, <<"c", "a", "x">>}

\* The server that is typed has a secret in its environment; one with a bearer secret is
\* adopted.
ServerOf(transport, env, bearer, targets) ==
    [transport |-> transport, secretEnv |-> env, bearerEnv |-> FALSE, bearerSecret |-> bearer,
     targets |-> targets]
Servers == {ServerOf("stdio", McpVars, FALSE, Clients)}

\* Both directories have the same base name; the sessions are a project's, its legacy one and
\* one whose name begins both.
SameBase == [path \in WsPaths |-> CHOOSE n \in WsNames : TRUE]
SomePath == CHOOSE path \in WsPaths : TRUE
SessionNames == LET base == SameBase[SomePath] IN {<<base, SomePath>>, <<SomePath>>, <<base>>}

\* A level of three choices over one to choose from, one only to be read and an empty one.
StageOf(count, readOnly, described) == [count |-> count, readOnly |-> readOnly, described |-> described]
TwoLevels ==
    (<<>> :> StageOf(3, FALSE, TRUE)) @@ (<<1>> :> StageOf(2, FALSE, FALSE))
        @@ (<<2>> :> StageOf(2, TRUE, TRUE)) @@ (<<1, 2>> :> StageOf(0, FALSE, FALSE))

commandsVars == <<command, terraformVars, reviewVars, cleanVars, allowVars, serverVars, registryVars,
                  wenvVars, listVars, workspaceVars, walkVars>>

Runs(name) == command = name /\ UNCHANGED command

\* What the commands that do not run keep as it is.
Keeps(name) ==
    /\ name # "session" => UNCHANGED terraformVars
    /\ name # "review" => UNCHANGED reviewVars
    /\ name # "clean" => UNCHANGED cleanVars
    /\ name # "server" => UNCHANGED <<allowVars, serverVars>>
    /\ name # "registry" => UNCHANGED registryVars
    /\ name # "presets" => UNCHANGED wenvVars
    /\ name # "list" => UNCHANGED listVars
    /\ name # "workspace" => UNCHANGED workspaceVars
    /\ name # "walk" => UNCHANGED walkVars

CommandsInit ==
    /\ command \in {"session", "review", "clean", "server", "registry", "presets", "list", "workspace",
                    "walk"}
    /\ TerraformInit /\ ReviewInit /\ CleanInit /\ AllowInit /\ ServerInit /\ RegistryInit
    /\ WenvInit /\ ListInit /\ WorkspaceInit /\ WalkInit
    /\ command # "session" => tfState = {}
    /\ command # "review" => rvRules = CHOOSE r \in ReviewRules : TRUE
    /\ command # "clean" => \A path \in CleanPaths : clPaths[path] = 0
    /\ command # "registry" => \A client \in Clients : mrClients[client] = "none"
    /\ command # "presets" => ~wpSecrets /\ ~wpTerminal
    /\ command # "walk" => svLine /\ svSize = CHOOSE size \in Sizes : TRUE

CommandsNext ==
    \/ /\ Runs("session") /\ TerraformNext /\ Keeps("session")
       /\ tfOps'[tf2].cmd \in {"session", NoTerraform}
    \/ Runs("review") /\ ReviewNext /\ Keeps("review")
    \/ Runs("clean") /\ CleanNext /\ Keeps("clean")
    \/ Runs("server") /\ ServerNext /\ Keeps("server")
    \/ Runs("registry") /\ RegistryNext /\ Keeps("registry")
    \/ Runs("presets") /\ WenvNext /\ Keeps("presets")
    \/ Runs("list") /\ ListNext /\ Keeps("list")
    \/ Runs("workspace") /\ WorkspaceNext /\ Keeps("workspace")
    \/ Runs("walk") /\ WalkNext /\ Keeps("walk")

CommandsSpec == CommandsInit /\ [][CommandsNext]_commandsVars

Interchangeable == Permutations(TerraformAccounts) \cup Permutations(McpProcs)

\* The state of the command that runs keeps its types.
CommandsTypeOK ==
    /\ command = "session" => TerraformTypeOK
    /\ command = "review" => ReviewTypeOK
    /\ command = "clean" => CleanTypeOK
    /\ command = "server" => AllowTypeOK /\ ServerTypeOK
    /\ command = "registry" => RegistryTypeOK
    /\ command = "presets" => WenvTypeOK
    /\ command = "list" => ListTypeOK
    /\ command = "workspace" => WorkspaceTypeOK
    /\ command = "walk" => WalkTypeOK

\* What is done is what the person was asked about: the plan whose hash was shown, under
\* the session it was shown in; addresses read again since; files that are still the ones
\* listed; the preset that was printed on the screen; the tmux session and the projects
\* that were shown (tfx.go:378, 420, 753, 1344, wenv.go:271, tm.go:395, 440).
ConfirmedIsWhatIsDone ==
    /\ AppliedPlanWasShown /\ AnswerWasAuthorised /\ StaleListNeverAuthorises
    /\ OnlyListedFilesRemoved /\ PrintedAsShown
    /\ SessionActsWereAuthorised /\ ProjectsRemovedWereShown

\* What review and clean say at the end is what happened: each root's class and the exit
\* code whatever failed in others, and the number of removals (tfx.go:1141, 1347).
ReportsAreTrue == RootsTruthfullyClassified /\ AttentionIsAsked /\ RemovedReportIsTrue

\* The files of presets and of projects keep what they promise with several commands at work:
\* no plain secret and a variable left; one record of each directory, whose old session is
\* carried over (wenv.go:205, 639, app.go:249, sessionizer.go:129, tm.go:208).
PresetsAndProjectsHold == PresetsHold /\ []ProjectsHold

\* In the browser's list and in bb's selector the row that enter would take is shown, and the
\* selector's walk comes out where it led (view.go:487, select.go:407, 566).
SelectionsHold == SelectionHolds /\ WalkHolds
=============================================================================
