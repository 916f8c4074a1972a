---------------------------- MODULE McpRegistry ----------------------------
(***************************************************************************)
(* One server of bb's MCP registry (mcp.go, mcp_adopt.go, mcp_launch.go):  *)
(* added, edited, removed, synchronized to the clients, adopted from one   *)
(* of them, by processes that share the registry, the secret store and the *)
(* clients' own configuration.                                             *)
(*                                                                         *)
(* Fields of the one service are named like the variables they are for;    *)
(* the reference of a variable is to the field of its name.  mcp.json is   *)
(* changed under its lock, in one step; the secrets are written only if    *)
(* they still are as they were read (writeSecrets).                        *)
(***************************************************************************)
EXTENDS Naturals

CONSTANTS
    McpProcs,  \* processes of bb mcp
    McpVars,   \* environment variables
    McpSpecs,  \* the servers that are typed, at the prompts or as options
    NoServer

Clients == {"claude", "codex"}
Token   == "token"  \* the field of a bearer token

McpServers == [transport : {"stdio", "http"}, secretEnv : SUBSET McpVars, bearerEnv : BOOLEAN,
               bearerSecret : BOOLEAN, targets : SUBSET Clients]

ASSUME McpRegistryAssumption == McpSpecs \subseteq McpServers /\ Token \notin McpVars /\ NoServer \notin McpServers

VARIABLES
    mrServer,   \* the entry of the registry
    mrAdopted,  \* adopt wrote that entry, and nobody has since
    mrFields,   \* the fields in the store
    mrChanged,  \* fields that bb sec changed, until an adoption stores them that nobody else refers to
    mrClients,  \* what each client has under the server's name
    mrOps       \* what each process is doing

registryVars == <<mrServer, mrAdopted, mrFields, mrChanged, mrClients, mrOps>>

McpFields == McpVars \cup {Token}

\* `current`: nobody has written the secrets since this process read them.
McpOps == [cmd : {"idle", "sync", "adopt"},
           pc : {"idle", "ask", "store", "register", "unstore", "takeout", "check", "drop", "add"},
           client : Clients, server : McpServers \cup {NoServer}, current : BOOLEAN]
\* Its values are stored, its server is not registered.
TakesBack(op) == op.cmd = "adopt" /\ op.pc \in {"register", "unstore", "takeout"}

McpIdle == [cmd |-> "idle", pc |-> "idle", client |-> "claude", server |-> NoServer,
            current |-> FALSE]

RegistryTypeOK ==
    /\ mrServer \in McpServers \cup {NoServer} /\ mrAdopted \in BOOLEAN
    /\ mrFields \in SUBSET McpFields /\ mrChanged \in SUBSET McpFields
    /\ mrClients \in [Clients -> {"none", "literal", "bb"}]
    /\ mrOps \in [McpProcs -> McpOps]

\* A client may have the server by itself, with literal values.
RegistryInit ==
    /\ mrServer = NoServer /\ mrAdopted = FALSE /\ mrFields = {} /\ mrChanged = {}
    /\ mrClients \in [Clients -> {"none", "literal"}]
    /\ mrOps = [p \in McpProcs |-> McpIdle]

-----------------------------------------------------------------------------
(* Servers *)

\* validateMCPServer
ValidServer(s) ==
    /\ s.targets # {}
    /\ s.bearerSecret => ~s.bearerEnv /\ "codex" \notin s.targets
    /\ s.transport = "stdio" => ~s.bearerEnv /\ ~s.bearerSecret
    /\ s.transport = "http" => s.secretEnv = {}

ValidServers == {s \in McpServers : ValidServer(s)}

\* mcpSecretReferences
References(s) == s.secretEnv \cup (IF s.bearerSecret THEN {Token} ELSE {})

Options == {"transport", "secretEnv", "bearerEnv", "bearerSecret", "targets"}
Given(s, seen, options) == [x \in DOMAIN s |-> IF x \in seen THEN options[x] ELSE s[x]]

\* A bug of Edited: another transport leaves the options of the first one.
Edited_KeptOptions(s, seen, options) == Given(s, seen, options)

\* mcpEdit: the options given (several of them are like several edits), and a transport clears those of the other one.
Edited(s, seen, options) ==
    LET given == Given(s, seen, options)
    IN  CASE "transport" \notin seen -> given
          [] "transport" \in seen /\ given.transport = "stdio" ->
                 [given EXCEPT !.bearerEnv = FALSE, !.bearerSecret = FALSE]
          [] OTHER -> [given EXCEPT !.secretEnv = {}]

-----------------------------------------------------------------------------
(* Steps *)

McpAt(p, cmds, pc) == mrOps[p].cmd \in cmds /\ mrOps[p].pc = pc
McpGoto(p, pc) == mrOps' = [mrOps EXCEPT ![p].pc = pc]
McpEnd(p) == mrOps' = [mrOps EXCEPT ![p] = McpIdle]
McpBegin(p, op) == mrOps[p] = McpIdle /\ mrOps' = [mrOps EXCEPT ![p] = op]

\* updateMCP
WriteServer(s, adopted) == mrServer' = s /\ mrAdopted' = adopted
\* writeSecrets by p: nobody else's snapshot is current any more.
WriteFields(p, fields, op) ==
    /\ mrFields' = fields
    /\ mrOps' = [q \in McpProcs |-> IF q = p THEN op ELSE [mrOps[q] EXCEPT !.current = FALSE]]

-----------------------------------------------------------------------------
(* add, edit, rm *)

AddServer(s) ==
    /\ mrServer = NoServer /\ ValidServer(s) /\ WriteServer(s, FALSE)
    /\ UNCHANGED <<mrFields, mrChanged, mrClients, mrOps>>

EditServer(option, o) ==
    /\ mrServer # NoServer /\ ValidServer(Edited(mrServer, {option}, o))
    /\ WriteServer(Edited(mrServer, {option}, o), FALSE)
    /\ UNCHANGED <<mrFields, mrChanged, mrClients, mrOps>>

\* promptMCPSpec writes all of the answers it asked for, whatever is there by then.
PromptEdit(s) ==
    /\ mrServer # NoServer /\ ValidServer(s) /\ WriteServer(s, FALSE)
    /\ UNCHANGED <<mrFields, mrChanged, mrClients, mrOps>>

RemoveServer ==
    /\ mrServer # NoServer /\ WriteServer(NoServer, FALSE)
    /\ UNCHANGED <<mrFields, mrChanged, mrClients, mrOps>>

-----------------------------------------------------------------------------
(* sync: mcpSync, and the end of adopt *)

SyncReads(p, client) ==
    /\ mrServer # NoServer /\ client \in mrServer.targets
    /\ McpBegin(p, [McpIdle EXCEPT !.cmd = "sync", !.pc = "check", !.client = client])
    /\ UNCHANGED <<mrServer, mrAdopted, mrFields, mrChanged, mrClients>>

\* A bug of SyncChecks: the old registration goes first.
SyncChecks_AfterDrop(p) ==
    /\ McpAt(p, {"sync", "adopt"}, "check")
    /\ mrClients' = [mrClients EXCEPT ![mrOps[p].client] = "none"]
    /\ McpGoto(p, "drop")
    /\ UNCHANGED <<mrServer, mrAdopted, mrFields, mrChanged>>

\* The launcher's path is found, or the command fails here (RegistryStops).
SyncChecks(p) ==
    /\ McpAt(p, {"sync", "adopt"}, "check") /\ McpGoto(p, "drop")
    /\ UNCHANGED <<mrServer, mrAdopted, mrFields, mrChanged, mrClients>>

\* The client's `mcp remove`, whatever it says, and its `mcp add`, which refuses a
\* name that is there.
SyncDrops(p) ==
    /\ McpAt(p, {"sync", "adopt"}, "drop") /\ McpGoto(p, "add")
    /\ mrClients' = [mrClients EXCEPT ![mrOps[p].client] = "none"]
    /\ UNCHANGED <<mrServer, mrAdopted, mrFields, mrChanged>>
SyncAdds(p) ==
    /\ McpAt(p, {"sync", "adopt"}, "add") /\ McpEnd(p)
    /\ mrClients[mrOps[p].client] = "none"
    /\ mrClients' = [mrClients EXCEPT ![mrOps[p].client] = "bb"]
    /\ UNCHANGED <<mrServer, mrAdopted, mrFields, mrChanged>>

-----------------------------------------------------------------------------
(* adopt *)

\* A server of the client's own, with its literal values moved to fields.
AdoptedServers(client) ==
    {s \in ValidServers : s.targets = {client} /\ ~s.bearerEnv /\ References(s) # {}}

\* mcpAdopt reads the client's configuration, the registry and the secrets, and
\* asks; anything it cannot carry over refuses it.
AdoptReads(p, client, s) ==
    /\ mrClients[client] = "literal" /\ mrServer = NoServer
    /\ References(s) \cap mrFields = {}
    /\ McpBegin(p, [cmd |-> "adopt", pc |-> "ask", client |-> client, server |-> s,
                    current |-> TRUE])
    /\ UNCHANGED <<mrServer, mrAdopted, mrFields, mrChanged, mrClients>>

\* A bug of AfterConfirm: the server is registered first.
AfterConfirm_Register == "register"

\* The values are stored before the server that refers to them is registered.
AfterConfirm == "store"
AfterStore == IF AfterConfirm = "store" THEN "register" ELSE "check"
AfterRegister == IF AfterConfirm = "store" THEN "check" ELSE "store"

AdoptConfirmed(p) ==
    /\ McpAt(p, {"adopt"}, "ask") /\ McpGoto(p, AfterConfirm)
    /\ UNCHANGED <<mrServer, mrAdopted, mrFields, mrChanged, mrClients>>

\* What the server that was adopted, or an adoption that may yet take its own back, refers to.
StillHeld(p) ==
    LET held == {s \in {mrServer} : mrAdopted}
                  \cup {mrOps[q].server : q \in {o \in McpProcs \ {p} : TakesBack(mrOps[o])}}
    IN  UNION {References(s) : s \in held}

AdoptStores(p) ==
    /\ McpAt(p, {"adopt"}, "store")
    /\ LET refs == References(mrOps[p].server)
       IN  IF mrOps[p].current
           THEN /\ WriteFields(p, mrFields \cup refs, [mrOps[p] EXCEPT !.pc = AfterStore, !.current = FALSE])
                /\ mrChanged' = mrChanged \ (refs \ StillHeld(p))
           ELSE McpEnd(p) /\ UNCHANGED <<mrFields, mrChanged>>
    /\ UNCHANGED <<mrServer, mrAdopted, mrClients>>

\* The registry refuses a second server of the name, or cannot be written; what
\* was stored is then taken out again.
AdoptRegisters(p) ==
    /\ McpAt(p, {"adopt"}, "register")
    /\ \/ mrServer = NoServer /\ WriteServer(mrOps[p].server, TRUE) /\ McpGoto(p, AfterRegister)
       \/ McpGoto(p, "unstore") /\ UNCHANGED <<mrServer, mrAdopted>>
    /\ UNCHANGED <<mrFields, mrChanged, mrClients>>

AdoptUnstoreReads(p) ==
    /\ McpAt(p, {"adopt"}, "unstore")
    /\ mrOps' = [mrOps EXCEPT ![p].pc = "takeout", ![p].current = TRUE]
    /\ UNCHANGED <<mrServer, mrAdopted, mrFields, mrChanged, mrClients>>

\* A bug of TakenOut: the whole service goes.
TakenOut_Service(refs) == {}

TakenOut(refs) == mrFields \ refs

\* A failure of this write is not looked at.
AdoptTakesOut(p) ==
    /\ McpAt(p, {"adopt"}, "takeout")
    /\ IF mrOps[p].current
       THEN WriteFields(p, TakenOut(References(mrOps[p].server)), McpIdle)
       ELSE McpEnd(p) /\ UNCHANGED mrFields
    /\ UNCHANGED <<mrServer, mrAdopted, mrChanged, mrClients>>

-----------------------------------------------------------------------------
(* Everybody else *)

\* bb sec add, edit and rm
SecretChanges(f, fields) ==
    /\ f \in mrFields \cup fields /\ mrFields' = fields /\ mrChanged' = mrChanged \cup {f}
    /\ mrOps' = [q \in McpProcs |-> [mrOps[q] EXCEPT !.current = FALSE]]
    /\ UNCHANGED <<mrServer, mrAdopted, mrClients>>

\* An error, an answer that is not yes, an interrupt, a kill.
RegistryStops(p) ==
    /\ mrOps[p] # McpIdle /\ McpEnd(p)
    /\ UNCHANGED <<mrServer, mrAdopted, mrFields, mrChanged, mrClients>>

RegistryNext ==
    \/ \E s \in McpSpecs : AddServer(s) \/ PromptEdit(s)
    \/ \E option \in Options, o \in McpSpecs : EditServer(option, o)
    \/ RemoveServer
    \/ \E f \in McpFields : SecretChanges(f, mrFields \cup {f}) \/ SecretChanges(f, mrFields \ {f})
    \/ \E p \in McpProcs :
          \/ \E client \in Clients :
                \/ SyncReads(p, client)
                \/ \E s \in AdoptedServers(client) : AdoptReads(p, client, s)
          \/ SyncChecks(p) \/ SyncDrops(p) \/ SyncAdds(p)
          \/ AdoptConfirmed(p) \/ AdoptStores(p) \/ AdoptRegisters(p)
          \/ AdoptUnstoreReads(p) \/ AdoptTakesOut(p)
          \/ RegistryStops(p)

RegistrySpec == RegistryInit /\ [][RegistryNext]_registryVars

-----------------------------------------------------------------------------
(* Properties *)

\* `mcp edit` of a transport alone is never refused because of options the transport
\* it leaves had: the edit clears them (mcp.go:434-440).
TransportEditAccepted ==
    mrServer # NoServer =>
        \A t \in {"stdio", "http"} :
            ValidServer(Edited(mrServer, {"transport"}, [mrServer EXCEPT !.transport = t]))

\* What an adopted server refers to is in the store, wherever bb stopped or failed
\* meanwhile, unless bb sec changed that field while the server or an adoption under way
\* referred to it: the values come first, and an adoption that takes its own back takes
\* nothing that the registered one needs (mcp_adopt.go:534, 545).  After such a change it
\* may: it removes what a second adoption has stored since.
AdoptedReferencesResolve ==
    mrServer # NoServer /\ mrAdopted => References(mrServer) \subseteq mrFields \cup mrChanged

\* A client's registration goes only when all that can fail before it has been done,
\* and the add is what comes next ("Resolve everything that can fail before the old
\* registration is removed", mcp.go:580).
RegistrationKept ==
    [][\A c \in Clients : mrClients[c] # "none" /\ mrClients'[c] = "none" =>
          \E p \in McpProcs : mrOps'[p].client = c /\ mrOps'[p].pc = "add"]_registryVars

\* Taking a failed adoption back removes no field but those of that adoption, whatever
\* the service has come to hold meanwhile (mcp_adopt.go:547).
RollbackTakesItsOwn ==
    [][\A p \in McpProcs : mrOps[p].pc = "takeout" /\ mrOps'[p] = McpIdle =>
          mrFields \ mrFields' \subseteq References(mrOps[p].server)]_registryVars

\* Registry, store and client keep together: an edit of the transport is accepted, what an
\* adopted server refers to exists, a client is left without its registration only to get
\* the new one, and a rollback takes back its own fields (mcp.go:434, 580, mcp_adopt.go:534).
RegistryHolds ==
    /\ [](TransportEditAccepted /\ AdoptedReferencesResolve)
    /\ RegistrationKept /\ RollbackTakesItsOwn
=============================================================================
