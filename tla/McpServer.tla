----------------------------- MODULE McpServer -----------------------------
(***************************************************************************)
(* `bb mcp serve` (mcp_serve.go): one process that reads one request at a  *)
(* time from its input, answers it, and runs permitted commands with the   *)
(* secrets of a service or the environment of a preset, while the operator *)
(* changes the list of commands (McpAllow).                                *)
(***************************************************************************)
EXTENDS McpAllow

CONSTANTS
    MaxMcpRequests,  \* bound: requests
    NoCall           \* no command asked for

ASSUME McpServerAssumption ==
    /\ MaxMcpRequests \in Nat
    /\ NoCall \notin [tool : McpTools, target : McpServices \cup McpPresets, argv : McpArgvs]

VARIABLES
    msPhase,     \* what the server is doing with the request at hand
    msRequest,   \* that request
    msCall,      \* the command it asks for
    msRead,      \* requests read so far that want an answer
    msAnswered,  \* answers written so far
    msPermitted, \* the call was permitted at some moment since it was read
    msTimer,     \* the timer of the child
    msTimedOut,  \* timedOut
    msUses,      \* what the audit is for: commands that ran to their end, and refusals
    msAudit,     \* its entries
    msLost       \* uses without one: it could not be written, or Wait failed

serverVars == <<msPhase, msRequest, msCall, msRead, msAnswered, msPermitted, msTimer,
                 msTimedOut, msUses, msAudit, msLost>>

McpCalls == [tool : McpTools, target : McpServices \cup McpPresets, argv : McpArgvs]
McpCallsMade == {c \in McpCalls : c.target \in McpTargets(c.tool)}
McpRequests == {"none", "simple", "notification", "garbage", "exec"}
Uses == [runs : 0..MaxMcpRequests, refusals : 0..MaxMcpRequests]

ServerTypeOK ==
    /\ msPhase \in {"idle", "request", "resolve", "start", "running", "exited", "closed"}
    /\ msRequest \in McpRequests /\ msCall \in McpCallsMade \cup {NoCall}
    /\ msRead \in 0..MaxMcpRequests /\ msAnswered \in 0..MaxMcpRequests
    /\ msPermitted \in BOOLEAN
    /\ msTimer \in {"off", "armed", "fired"} /\ msTimedOut \in BOOLEAN
    /\ msUses \in Uses /\ msAudit \in Uses /\ msLost \in Uses

ServerInit ==
    /\ msPhase = "idle" /\ msRequest = "none" /\ msCall = NoCall
    /\ msRead = 0 /\ msAnswered = 0 /\ msPermitted = FALSE
    /\ msTimer = "off" /\ msTimedOut = FALSE
    /\ msUses = [runs |-> 0, refusals |-> 0]
    /\ msAudit = msUses /\ msLost = msUses

-----------------------------------------------------------------------------

CallAllowed(rules, scope, call) ==
    call # NoCall /\ Allowed(rules, scope, call.tool, call.target, call.argv)
\* Whether the call is permitted now or was since it was read.
StillPermitted == msPermitted' = (msPermitted \/ CallAllowed(maRules', maScope', msCall'))

ServerQuiet == UNCHANGED allowVars
ServerKeeps == ServerQuiet /\ UNCHANGED <<msRequest, msCall, msRead>>
Timing == <<msTimer, msTimedOut>>
Accounts == <<msUses, msAudit, msLost>>

\* mcpServeDispatch answers a request, and not a notification; what it cannot parse
\* is answered too.
WantsAnswer(request) == request # "notification"

\* A bug of Answer: a notification is answered as well.
Answer_Always ==
    /\ msPhase' = "idle" /\ msRequest' = "none" /\ msCall' = NoCall
    /\ msAnswered' = msAnswered + 1
    /\ msPermitted' = FALSE

\* The request at hand ends, with its answer.
Answer ==
    /\ msPhase' = "idle" /\ msRequest' = "none" /\ msCall' = NoCall
    /\ msAnswered' = IF WantsAnswer(msRequest) THEN msAnswered + 1 ELSE msAnswered
    /\ msPermitted' = FALSE

\* The next line of the input (mcpServe's scanner).
ReadRequest(request, call) ==
    /\ msPhase = "idle" /\ msRead < MaxMcpRequests
    /\ (request = "exec") <=> (call # NoCall)
    /\ msPhase' = "request" /\ msRequest' = request /\ msCall' = call
    /\ msRead' = msRead + (IF WantsAnswer(request) THEN 1 ELSE 0)
    /\ ServerQuiet /\ msPermitted' = CallAllowed(maRules, maScope, call)
    /\ UNCHANGED <<msAnswered, Timing, Accounts>>

\* Everything that runs no command.
HandleRequest ==
    /\ msPhase = "request" /\ msRequest # "exec"
    /\ Answer /\ ServerQuiet
    /\ UNCHANGED <<msRead, Timing, Accounts>>

\* One more use of a kind.
Counted(uses, kind) == [uses EXCEPT ![kind] = @ + 1]

\* appendMCPServeAudit says nothing when there is no state path, or the directory, the
\* file or the line cannot be written.
Appended(kind, written) ==
    /\ msAudit' = IF written THEN Counted(msAudit, kind) ELSE msAudit
    /\ msLost' = IF written THEN msLost ELSE Counted(msLost, kind)

\* A bug of Authorizes: a rule's bindings are not looked at.
Authorizes_AnyTarget(call) ==
    /\ \E w \in McpPrefixes : RulePermits(maRules, w, call.argv)
    /\ InScope(maScope, call.tool, call.target)

\* authorizeMCPExec reads the list.
Authorizes(call) == Allowed(maRules, maScope, call.tool, call.target, call.argv)

AuthorizeExec ==
    /\ msPhase = "request" /\ msRequest = "exec"
    /\ IF Authorizes(msCall)
       THEN /\ msPhase' = "resolve" /\ UNCHANGED <<msRequest, msCall, msAnswered, Accounts>>
            /\ ServerQuiet /\ StillPermitted
       ELSE /\ Answer /\ ServerQuiet /\ msUses' = Counted(msUses, "refusals")
            /\ \E written \in BOOLEAN : Appended("refusals", written)
    /\ UNCHANGED <<msRead, Timing>>

\* Unreadable arguments or an unreadable list; no such command in PATH, no such service
\* or preset, no such field; the command does not start.
ExecFails ==
    /\ msPhase \in {"request", "resolve", "start"} /\ msRequest = "exec"
    /\ Answer /\ ServerQuiet
    /\ UNCHANGED <<msRead, Timing, Accounts>>

\* The values are read.
ResolveExec ==
    /\ msPhase = "resolve" /\ msPhase' = "start"
    /\ ServerKeeps /\ StillPermitted
    /\ UNCHANGED <<msAnswered, Timing, Accounts>>

StartChild ==
    /\ msPhase = "start" /\ msPhase' = "running"
    /\ msTimer' = "armed" /\ msTimedOut' = FALSE
    /\ ServerKeeps /\ StillPermitted
    /\ UNCHANGED <<msAnswered, Accounts>>

\* The child ends; what it started may still hold its output, and Wait waits for
\* that too.
ChildExits ==
    /\ msPhase = "running" /\ msPhase' = "exited"
    /\ ServerKeeps /\ StillPermitted
    /\ UNCHANGED <<msAnswered, Timing, Accounts>>
OutputCloses ==
    /\ msPhase = "exited" /\ msPhase' = "closed"
    /\ ServerKeeps /\ StillPermitted
    /\ UNCHANGED <<msAnswered, Timing, Accounts>>

\* The timer kills the child, if it is there.
TimerFires ==
    /\ msTimer = "armed" /\ msPhase \in {"running", "exited", "closed"}
    /\ msTimer' = "fired" /\ msTimedOut' = TRUE
    /\ msPhase' = IF msPhase = "running" THEN "exited" ELSE msPhase
    /\ ServerKeeps /\ StillPermitted
    /\ UNCHANGED <<msAnswered, Accounts>>

\* A bug of AuditRun: only a run that did not time out is recorded.
AuditRun_InTime(waited, written) ==
    IF waited /\ msTimedOut THEN UNCHANGED <<msAudit, msLost>> ELSE Appended("runs", waited /\ written)

\* After the child has ended.  An error of Wait that is no exit status is answered at
\* once, and no entry tried.
AuditRun(waited, written) == Appended("runs", waited /\ written)

ChildWaited ==
    /\ msPhase = "closed" /\ msTimer' = "off" /\ msTimedOut' = FALSE
    /\ msUses' = Counted(msUses, "runs")
    /\ \E waited, written \in BOOLEAN : AuditRun(waited, written)
    /\ Answer /\ ServerQuiet
    /\ UNCHANGED <<msRead>>

\* The operator.
OperatorAllows ==
    /\ UNCHANGED <<msPhase, msRequest, msCall, msRead, msAnswered,
                   Timing, Accounts>>
    /\ AllowNext /\ StillPermitted

ServerNext ==
    \/ \E request \in McpRequests \ {"none"}, call \in McpCallsMade \cup {NoCall} :
          ReadRequest(request, call)
    \/ HandleRequest \/ AuthorizeExec \/ ExecFails \/ ResolveExec \/ StartChild
    \/ ChildExits \/ OutputCloses \/ TimerFires \/ ChildWaited
    \/ OperatorAllows

ServerSpec == AllowInit /\ ServerInit /\ [][ServerNext]_<<allowVars, serverVars>>

-----------------------------------------------------------------------------
(* Properties *)

\* A command runs only if in one state since its request was read, with the rules, the
\* bindings and the scope of one and the same list, this very command was let run with
\* this very target (authorizeMCPExec, mcp_serve.go:1254), whatever the operator changes
\* meanwhile.
RunsWerePermitted ==
    msPhase \in {"resolve", "start", "running", "exited", "closed"} => msPermitted

\* Between two requests every request read has had its one answer, the refused, the
\* failed and the unreadable ones as well, and a notification none.
AnsweredOnce == msPhase = "idle" => msAnswered = msRead

\* Between two requests the audit has an entry of its own for every command that ran and
\* every one refused, but for those whose entry could not be written and those for which
\* Wait gave no exit status; it has none for what did not run (mcp_serve.go:1342, 1432).
EveryRunAudited ==
    msPhase = "idle" =>
        \A kind \in {"runs", "refusals"} : msAudit[kind] + msLost[kind] = msUses[kind]

\* Every run is accounted for: permitted at some moment since its request was read,
\* answered once, and in the audit unless the audit failed or Wait did, also when it timed out or could not start
\* (mcp_serve.go:1254, 1318, 1432).
RunsAccountedFor == RunsWerePermitted /\ AnsweredOnce /\ EveryRunAudited
=============================================================================
