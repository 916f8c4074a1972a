# A TLA+ model of bb

`bb` (binbox-cli) is one Go binary with a command per task: an AWS resource
browser, an encrypted secret store, MCP server management, Terraform guards,
tmux sessions, environment presets.  Most commands are a straight line from
flags to output.  What is hard is concentrated in a few places: the goroutines
of the AWS browser (its query coordinator, its engines, its message loop), the
files that several `bb` processes share (secrets, presets, registries, the AWS
snapshot), and the commands that show something, ask, and then do it, while the
world goes on.  This directory models those, checks them with TLC and proves
with TLAPS nearly all the safety that is checked.

Paths below are relative to `src/internal/bb/` unless they start with `src/`.


## 1. Inventory

| component | code | state | operations | what is hard |
|---|---|---|---|---|
| query coordinator | `awsbrowser/query.go` | flights by key, newest generation by lineage, failures, subscribers, slots | Subscribe, Refresh, Unsubscribe; per flight: start, page, complete, fail, finish | goroutines, two mutexes taken one after the other, cancellation, late results |
| session store | `awsbrowser/store.go` | query entries, staged pages, resource observations, relations | BeginLoad, BeginRefresh, CommitPage, CompleteQuery, FailQuery, Invalidate* | staged refreshes; called under the coordinator's lock but read without it |
| context registry | `awsbrowser/registry.go`, `runtime_factory.go`, `credentials.go` | one runtime per context, credential generation | Resolve (coalesced), Invalidate | a resolver cancelled while others wait for it; generations counted per provider instance |
| read guard | `awsbrowser/read_retry.go` | gate, verified identity, changed flag | guarded read, revalidation, one retry | credentials renewed during a read, perhaps for someone else's sake |
| browser integration | `awsbrowser/integration/*.go` | semaphores, one stream per search | route a query through registry, guard and provider; inventory search | partial results of fan-out searches |
| providers | `awsbrowser/providers/*.go` | none | one paginated AWS read each | pagination, error mapping |
| browser UI | `awsbrowser/model.go`, `messages.go`, `view.go` | stack of screens, running requests, switcher, selection | keys and messages | answers to questions no longer asked |
| target runtime | `aws_runtime.go`, `aws_query.go` | none | trace a host name, read several regions, bridge a search | partial failure, limits, a channel nobody reads |
| AWS snapshot | `awsbrowser/snapshot/*.go`, `aws_snapshot_runtime.go` | SQLite database, two file locks | sync, refs, automatic resolve | processes sharing a file, cancellation, damage, retention |
| secret store | `sec*.go` | encrypted store, encrypted trash, plaintext sidecar | init, set, rename, import, rotate, undo, rm, purge, restore, list, meta, use, verify | three files written one after another by processes that may stop |
| clipboard | `sec_clipboard.go` | system clipboard | copy, detached clear | the clipboard changes while the clearer sleeps |
| file storage | `storage.go` | `*.lock` files, temporary files | withFileLock, withFileLockContext, writeJSONAtomic | crashes between write and rename |
| MCP registry, launch, adopt | `mcp.go`, `mcp_launch.go`, `mcp_adopt.go` | registry file, client configurations | add, edit, rm, sync, launch, adopt with rollback | several stores, one of them a foreign tool's |
| MCP server | `mcp_serve.go`, `mcp_allow_bundles.go` | list of permitted commands, audit, the running child | allow, bind, unbind, scope; requests; run with a time limit | the list changes while a request is being served |
| Terraform workflow | `tfx.go`, `tfx_browse.go`, `tvx.go` | session file, plan files | session, plan, apply, destroy, state mv/rm, review, clean | what was reviewed is not what is applied |
| environment presets | `wenv.go`, `shell.go` | `wenv.json` | set, edit, remove, rename, import, apply, export, exec | read, ask, write without a lock over all three |
| workspace sessions | `tm.go`, `sessionizer.go`, `app.go`, `nvim*.go` | project registry, tmux (external) | project add/remove/import; session open, attach, kill, layout | tmux and the registry change between look and act |
| selector, prompts | `select.go`, `confirm.go` | levels, cursor, query | keys, resizes, lines | cursor and page after each of them |
| profiles, role assumption | `profile.go`, `assume.go`, `awsbrowser/profile_source*.go` | profile files | list, switch, assume | reload while reading |
| dispatch, help, completion | `app.go`, `completion.go`, ... | none | parse, print | none |
| agent deny rules | `sec_harden.go` | two clients' settings files | add rules | text rewriting |
| release tools | `src/scripts/install.sh`, `src/internal/releasearchive` | files being installed | download, verify, replace | interrupted replacement |

**How they interact.**  A screen or a command asks through a stream: the
message loop starts a request, whose goroutine subscribes to the coordinator,
or runs a search, a trace or a read of several regions, each of which subscribes
in turn.  A flight runs an executor, which resolves a runtime in the registry,
reads AWS through the guard, and hands pages to the coordinator's sink, which
writes the session store.  A context-changed failure flows back: it invalidates
the registry's runtime and the context's entries.  The snapshot is apart from
that path: `bb aws sync` and the browser's incoming-relations view collect
through the same executors, but write a database other `bb` processes read.
The other commands share no memory, only files: each reads a file, works or
prompts, and replaces it.  `mcp launch`, `mcp serve` and presets read secrets;
adopt writes the secret store and the registry; `wenv_set` of the MCP server
writes the presets.

**What makes each correct** (the hazards in `PROJECT.json` say where it could
go wrong): the coordinator never leaves a key loading with nobody behind it,
never lets a retired flight or an older generation into the cache, tells every
subscriber, frees its slots; a page is read with the credentials its key names;
an engine ends, lets go of what it holds, and calls certain only what it read; a
screen shows the answer to its own question, and asks nothing once left; the
secret commands lose no update, keep what they promise to keep, and leave three
files that describe the same values; the snapshot is one complete run, newest
last, and never passes a failed scope off as an empty one; what a person
confirmed is what is done; what a command reports is what happened.


## 2. Modules

| module | models |
|---|---|
| `SessionStore` | the query entries of `awsbrowser/store.go`, one operator per method |
| `QueryCoordinator` | `awsbrowser/query.go` over `SessionStore` |
| `QueryService` | what callers of the coordinator may rely on: the abstract specification |
| `QueryRefinement` | the mapping under which `QueryCoordinator` implements `QueryService` |
| `AwsContexts` | `awsbrowser/registry.go`, `runtime_factory.go`, `credentials.go` and `read_retry.go`, as `integration.go` uses them |
| `AwsSearch` | `awsbrowser/integration/search.go` and its stream in `aws_runtime.go` |
| `AwsTrace` | `dispatchTrace` of `aws_runtime.go` |
| `AwsFanout` | `dispatchMultiRegion` of `aws_runtime.go` |
| `BrowserModel` | the message loop of `awsbrowser/model.go` |
| `BrowserList` | the selection of a list of the browser |
| `SnapshotStore` | the tables of `awsbrowser/snapshot/store.go`, one operator per transaction |
| `SnapshotSync` | `aws_snapshot_runtime.go` and `snapshot/sync.go`: processes, file locks, repair |
| `SecretStore` | the commands of `sec*.go` and their three files |
| `TerraformSession`, `TerraformReview`, `TerraformClean` | the three machines of `tfx.go` |
| `McpAllow`, `McpServer` | `mcp_serve.go`: the list of permitted commands, and the server over it |
| `McpRegistry` | `mcp.go`, `mcp_adopt.go`: one server, its registrations and secrets |
| `WenvPresets` | `wenv.go` and the server's `wenv_set` |
| `Workspace` | `tm.go`, `sessionizer.go` and `bb project` of `app.go` |
| `SelectorWalk` | the staged selector of `select.go` |
| `QueryCoordinatorProofs` | theorems about `QueryCoordinator`: its cache and fences, its subscribers, attempts and refinement |
| `AwsContextsProofs` | theorems about `AwsContexts` |
| `SecretStoreProofs`, `SecretUsesProofs` | theorems about `SecretStore`: its types and lost updates; the promises of its uses (`MCSecretUses`) |
| `SnapshotProofs` | theorems about `SnapshotSync`: its locks and runs, its tables and answers |
| `AwsEnginesProofs` | theorems about the engines of `MCAwsEngines` |
| `BrowserModelProofs` | theorems about `BrowserModel` |
| `CommandsProofs` | theorems about the machines of `MCCommands` |
| `MC*` | constants and symmetry for TLC; `MCCommands` and `MCAwsEngines` hold one instance each of several machines |

### Query coordinator

`queries` is `SessionStore.queries`; `live`, `latest` and `failures` are the
coordinator's three maps; `flight` holds every `queryFlight` with the position
of its goroutine (`queued` at the semaphore, `executing` in `Execute`,
`completing`/`failing` before the last critical section, `completed` between the
store's completion and the read of its result, `finishing` before `finish`);
`client` holds each caller's subscription with the last update published on its
one-place channel.

An action is one critical section of `coordinator.mu`, or one read of the store
without it: `CheckCache` and `AnswerFromCache` are the two unlocked reads at the
start of `Subscribe`, `Subscribe`/`Refresh` its locked part (join, reject an
older generation, or allocate, which retires older flights and invalidates);
`Start`, `CompleteFlight`, `ReadResult`, `FailFlight`, `Finish` are `run` and
what it calls; `Page` and `Complete` are the sink.  The executor is external: it
pages, completes and returns in any order and any number of times, also after
its context is cancelled, as the tests' executors do.

**Refinement.**  `QueryService` has no flights, slots, store or locks: per key
what is shown (absent, loading, refreshing, a result, a failure), per lineage
the newest generation asked for, per client whether it asks or has been told.
A key changes only while somebody asks for it and only at the newest generation;
a refresh shows the old result until it replaces it whole; who stays is told
when nothing is loading.  `QueryRefinement` maps the store's states to these,
a client from its look at the cache to its closed channel to `asking`, and
`ImplementsService` is checked as a property of `QueryCoordinator`.

Left out: the contents of pages and resources (a page is its flight, its number
and whether it holds rows), relations and read projections, validation of keys.

### Contexts

`entry` is the registry's entry of one context (entries are independent);
`runtime` holds every runtime ever built, each named after the resolution that
built it: its provider's generation, the SDK's cached credentials and whether a
retrieval is under way, the guard's verified identity, changed flag and gate;
`query` holds each query's position from `Core.Subscribe` to the last page;
`profile` is the principal the AWS CLI exports credentials of.

A query resolves the context (`TakeRuntime`, or `StartResolution`, `Build`, a
call, `Memoize`), makes its key (`Identify`), passes the coordinator's
generation check (`Fence`), and in its executor resolves again and compares
(`Match`).  Every page is a `guardedRead`: `Acquire`, `Ensure`, `Bind`, a call,
`Returned`, with `revalidate` (`Revalidate`, a call, `Confirmed`) where the code
makes it.  A call is `NeedCredentials`, `Retrieved`, and then `Answer`,
`ExpiredToken` or `CallFails`; credentials may expire at any time, and the one
who was waiting for a retrieval may leave before it ends, which does not stop
it.  `Fail` is the coordinator's answer to a changed context; `GiveUp` is what
cancellation does to a query that waits.

All reads of the browser carry a key, so the answer that crosses a renewal is
always rejected: revalidation moves the identity to the new generation, and
`ValidateReadIdentity` then finds the key's generation gone.  The second attempt
that `guardedRead` (and `src/aws-plan/ARCHITECTURE.md:215`) has for it is in the
model, and is never reached.

Left out: how other errors are classified, the contents of credentials beyond
their principal, and queries that share a flight, which `QueryCoordinator` has.
A query's lineage is any of `Lineages`.

### Engines of `bb aws`

**Search** (`AwsSearch`).  `seWork` is where `processProfile` stands for each
profile: credentials, the account's semaphore, the SDK's, a query or the zones
of a domain and then each zone's records.  `seMain`, `seReady`, `seBuffer` are
`Stream`'s goroutine and the channel whose last unread update is replaced.
Statuses are the code's.

**Trace** (`AwsTrace`).  One goroutine, breadth first: `trQueue`, `trSeen`,
`trRows`, the two limits, the first failure, and the update in the channel;
`trAsked` keeps the targets in the order they were asked about.
`trLeftOut` records for the properties whether anything was left out.

**Several regions** (`AwsFanout`).  A worker per region, `currentReady`, the
semaphore, the bounded channel of events, the aggregator with its `states`, and
the browser's channel.  A subscription gives any updates that a flight of the
coordinator can publish.

### Browser

`BrowserModel`: `history` is the stack of frames, the last one shown;
`requests` are the goroutines of commands with the message each has under way;
`config` is what the switcher has applied.  A frame keeps, for the properties,
the question its rows answered and the identity they were read in (`shown`).  A key or a message is one action of
the loop.  A generation number is only ever compared with the one a message
carries, so a frame holds the request whose messages it still awaits and, apart
from it, the one whose context it can cancel.  `BrowserList` is the selection
of one list: rows arrive and are replaced while the person moves, filters and
opens; `blCrashed` is an index out of range.

Left out: rendering, the matching of filters, the layout of details, and the
sets of regions a list may read (a question is its kind and its profile).  A
verified choice is applied as what was verified, but the read that follows runs
by profile and region alone (`awsbrowser/model.go:1211`), so whose rows it
brings is what the answer says, not what was checked.

### AWS snapshot

`file` is what is on disk (absent, schema 1, current, newer, unreadable), `db`
the tables, `syncLock` and `pathLock` the holders of `snapshot.db.sync.lock` and
`snapshot.db.lock`, `proc` the commands in flight, `world` what AWS holds.
`Sync` is `TakeSyncLock`, `StartScope`/`EndScope` per scope under
`awsRuntimeConcurrency`, `EndCollection`, `TakePathLock`, `Open`,
`CommitCollection`; `Refs` is `Look`, `TakePathLock`, `Read`; `Resolve` is a
`Refs`, `Judge` (`awsAutoSnapshotReusable`), and if need be a `Sync` and another
`Refs`, with the locks free in between.  `Open` repairs: an unreadable database
is moved aside, an older one migrated, a newer one refused.  `Stop` is any error
or death of a process at any step; `Cancel` and `DropCollection` are a
cancelled collection, which ends only when the scopes it has started return.

Left out: accounts and the identity checks of a scope, what relations mean, the
search for paths, the collectors' translation of AWS answers, rendering, and a
clock that goes backwards.  Observation and relation rows are one table here:
both refer to a run and to resources.

### Secret store

`store`, `trash`, `meta` are the decrypted contents of the three files; `proc`
holds each running command with what it has read and the steps it has yet to
take.  `Plan` gives the files each command reads and writes in the code's order,
and one action per kind of step carries it out with the command's own
conditions (`Refused`, the early ends and the skipped writes in `ReadMeta` and
`ReadTrash`).  The conditional write of `writeEncryptedJSON` compares
ciphertexts; since age never produces one twice, that is a flag per process,
cleared when anyone writes the file.  The trash is a set of entries: the code
appends to a list, but takes out by a test of each entry alone, and of the
copies of a field takes the one with the latest deletion time; the times the
commands take differ, so where an entry stands in the list decides nothing.
Metadata updates are one locked read-modify-write.  A value's expiry may be read from the value itself (a JWT):
`Tokens` are those values.

Left out: the dotenv parser, verification requests (only what they record),
ciphertext backups, options that clear metadata, reports and wording, the
clipboard, more than one service.

### Commands

What these have in common: a process reads, shows, asks, and acts, each an
action of its own; between them other processes run and the world changes.  The
state a module keeps for its properties alone (`held`, `fresh`, `msPermitted`,
`rvTruth` and the like) records what a person was shown and whether that was
still so at some moment after the answer.

**Terraform.**  `TerraformSession`: the session file, the plan files, the
caller's identity, the clock and the state's addresses; `session`, `plan`,
`apply`, `destroy`, `state mv|rm` and `end` step by step, with the copy of the
plan whose hash is shown.  `TerraformReview`: init, plan, show, rules and
classification per root; the comparison of an update path by path, with
prefixes, wildcards and globs, is translated, and `rvTruth` is what the plan's
meaning says.  `TerraformClean`: the list, the question, and the removals one by
one with their second look.

**MCP.**  `McpAllow`: the rules, each known by its prefix, with bindings and
refused arguments; adding, merging, binding, unbinding, revoking, the scope.
`McpServer` EXTENDS it: a request at a time, authorised against the list as it
is then, its values resolved, the child started, timed, ended and answered,
while the operator changes the list; what is audited is written or lost
(`msAudit`, `msLost`).  `McpRegistry`: one server of two
clients; the prompts of `edit` overwrite what was written while they were open;
`sync` takes a registration out and puts it back; `adopt` moves a client's plain
values into the secret store and takes them out again when the registry refuses.

**Presets.**  `WenvPresets`: read, perhaps ask, write back the whole file, with
only the write under the lock, as `writeJSON` does; `apply` reads once, shows,
asks, and prints what it has read; `export` and `exec` resolve references to a
secret store that others change.

**Workspace.**  The project registry under its lock; confirmed removals and
prunes with their second look; an import whose check was made before the lock.
Sessions have names, which may be prefixes of each other as `tmux -t` reads
them, and IDs which tmux does not reuse while it runs; `wsOps` is the position
of a process of `bb`, `SessionsChange` everybody else's tmux.

**Selector.**  `svStack` is the levels of the walk with their query, matches,
cursor and page; a key is an action.  `svLine` chooses the line-oriented twin,
which walks the same stages.

Left out: the wording, parsers of legacy files, the clients' configuration
formats, output limits and redaction, panes of a layout, Neovim, yes/no prompts.


## 3. Runs

A property of a run is often a conjunction of parts, each a definition with its
own comment: `FlightsEnd`, say, is `CancelledFlightEnds` and
`ReturnedFlightClosesSubscribers`.  The run says the conjunction, the modules
say the parts.  Machines that share no state share a run: `MCAwsEngines`,
`MCCommands` and `MCSecretUses` choose one at the start, and the others stay as
they are, so that the state space is the sum and not the product.

| run | question | bounds, and why they are enough |
|---|---|---|
| `query_one_key` | can an entry be orphaned, mix attempts, or lose the last result during a refresh? | two callers and two flights with two pages: one flight abandoned while its successor runs is the smallest case of every such race, and two pages show a mix |
| `query_generations` | do late results of an old generation stay out, is the flight index exact, is every subscriber told, does an abandoned flight end, does the whole implement `QueryService`? | two generations, one slot, two callers: a retired flight, queued or running, beside its successor that waits for the slot |
| `query_replay` (violated) | are only stable failures replayed? | one page, one slot suffice |
| `contexts` | is a page ever read with other credentials than its key names, is a context resolved twice at once, is a query told of a change that did not happen, is a gate or a waiter left behind? | two queries of two pages, two principals of one account and one of another, one expiry and one change of the profile: a renewal at every point of a read and of a resolution, before and after the account changed; the two of one account are alike, so the profile begins as one of them or as the third |
| `contexts_late_generation` (violated) | is the generation in force ever rejected? | two expiries: one renewed within a runtime, one that makes its context change |
| `aws_engines` | do a search, a trace, a read of regions and a synchronisation end, whatever fails and whenever they are cancelled; is only what was read certain; are the limits kept? | three profiles in two accounts under semaphores of one, so that every acquisition may wait for every other; four targets, more than the two queries and three resources allowed; two regions and one slot (the code has two slots and any number of regions: what matters is that there are fewer slots than workers), of three updates each, more than the channel takes; one place and two synchronisers |
| `browser` | does a screen show only its own answer, in the identity it was read in; is a wait answered unless the screen is left and come back to; is a left screen's request cancelled? | two requests at once (their slots are used again), four frames, four screens opened in a session, two profiles of two accounts: left, back, opened again, with a late message at every point |
| `commands` | is what was confirmed what is done, is what is reported what happened, and do the files keep their promises? | per machine the fewest processes that race: two (Terraform: one that asks and one that changes the world, and two addresses, so that one may move to the other; MCP registry: two alike, of a stdio server with a secret that is typed, an http one with a bearer secret being adopted), or one and steps of everybody else (presets, tmux); three prefixes that contain each other, and two requests, of a service or a preset, while the list changes; three artifacts; three rows; two levels of choices with one that is read-only and one empty |
| `secret_uses` | can a write lose an update; is a replaced value in the trash first and for its week; do the three files agree? | three uses: two processes, any four of fourteen commands on one field, stopping anywhere (two fill the files, two race; for any number see `SecretStoreProofs`); two, four commands that promise to keep, on two fields that share the trash; one, five commands to their end on two fields |
| `secret_purge_race` (violated) | is a purge final against a rotation? | four commands: init, import, purge, rotate |
| `snapshot_safety` | are runs serial and whole, do the tables agree, is an answer ever wrong about a scope? | two processes, two groups, two commands, one tick, one change in AWS, one damage; `Retention` 2 as in the code; a collection at a place and its successor, or a reader during one, is every pair of actors |
| `snapshot_all_failed` (violated) | does a sync that failed everywhere keep the active run? | one group |

Bounds are named constants whose names begin with `Max`; the others are the
sizes of sets.  No run checks deadlock: in each a behaviour ends, when a bound
is used up and nothing is left running.  Symmetry is used only in runs without
liveness properties.

**Fairness.**  `QueryCoordinator!Fairness`: a goroutine that can run runs, and an
executor returns once its context is cancelled (the providers pass the context
to the SDK); nothing is assumed of callers, or of executors nobody cancelled, so
subscribers are only promised an answer once the executor has returned.
`AwsContexts!Fairness`: a query takes the steps that wait for nobody, and leaves
a wait once cancelled (each wait is a `select` on its context or a call that
takes it); nothing is assumed of AWS or the AWS CLI, nor that a query begins.
`SearchFairness`, `TraceFairness`, `FanFairness`: goroutines run, calls to AWS
return (each has a context with a deadline or ends with the browser's), and the
browser reads its stream unless it has cancelled it; a worker that waits for a
semaphore gets it if it is given back again and again (strong fairness: Go's
channels serve waiting senders in order).  `SnapshotSync!Fairness`: a command
goes on with its own steps, and a collector returns once cancelled.  The file
locks are polled, so no fairness among contenders is assumed: `RefsEnds` is
about the one lock whose holders take bounded steps and, in the instance, a
bounded number of them.  The message loop and the commands have safety
properties only: a person owes them no key.

### Findings

- `query_replay`: the last caller leaves between the store's completion and
  `finish`; `unsubscribe` records a cancellation for a value that is ready, and
  cached answers repeat it (`awsbrowser/query.go:279`).
- `contexts_late_generation`: generations are counted per provider instance
  (`awsbrowser/credentials.go:100`) and restart with a new runtime, the
  coordinator's `latest` only grows: the context in force is answered
  `cancelled` (`awsbrowser/query.go:233`).
- `secret_purge_race`: a purge does not look at the trash again after it has
  cleaned it (`sec.go:636`).
- `snapshot_all_failed`: failed scopes only mark their coverage, and a run in
  which all failed still replaces the active one
  (`awsbrowser/snapshot/sync.go:160`).

Met while modelling, without a run of their own.  Some are stated as
definitions that no run claims, since they do not hold:

*Queries and engines.*  A sibling operation's flight of an older generation
still commits after the invalidation; a load started on a stale miss hides a
completed value until it ends.  The trace says `trace_limit` also when its queue
holds nothing but targets already seen, lets an earlier failure hide the limit,
and reports nothing of rows it left out of a last page (`TruncationReported`;
`src/aws-plan/DESIGN.md:103`).  In a read of several regions a cancelled region
counts as one that found nothing (`EmptyWasRead`; `aws_runtime.go:819`).

*Contexts.*  `Invalidate` (`awsbrowser/registry.go:108`) drops whatever runtime
is memoized by then, also a healthy one resolved after the change: that costs a
resolution, and a query whose key names that runtime's later generation is then
told that its context changed.  `ChangesAreReal` allows it: the query's own
runtime, the one it reads from, is no longer what its key names.

*Browser.*  A screen that `forward` covers while it refreshes
(`awsbrowser/model.go:1859`) refreshes for ever when it is come back to; and so
does a context screen load that was left while it loaded, for the search or for
another context (`awsbrowser/model.go:653`, 1894).  `StrandedOnlyByReturning`
says that nothing but coming back to a screen strands it.  A refreshed trace asks a plain query of its
target (`awsbrowser/model.go:1237`), where `src/aws-plan/DESIGN.md:249` has
Ctrl+R refresh the current view; `ShownAnswersItsQuestion` excepts it.  A list left while it loads keeps the status "Loading"; a refresh that
is cancelled leaves a complete list that `ctrl+i` will not restore; Esc on a
loading list leaves it, where `src/aws-plan/DESIGN.md:246` has it cancel and
stay.  Rows that
arrive while a filter is on correct the selection by their number, not by that
of the rows the filter leaves (`awsbrowser/model.go:1328`); `enter` and the
preview then index out of range (`OpeningNeverFails`).  The group of the relation key `amis` is not in the order
of groups, and `:` cannot be typed in the search form.

*Secrets and snapshots.*  A use or a verification recorded late re-creates the
sidecar entry of a removed or replaced value; `restore` drops the rotated copies
of the field it brings back; `Resolve` may label another group's run as its own,
since the locks are free between its sync and its second read.

*Terraform.*  `session status` calls a session valid whose scope the mutations
refuse; a path whose key contains a dot is misread (`tfx.go:960`; the run uses
names without dots); a change from null to "known after apply" is not reported.

*MCP.*  Taking the last name out of the scope lifts the restriction; `edit`'s
prompts overwrite a concurrent edit; adopt's rollback deletes by field name,
also a value stored meanwhile: once `bb sec` has removed a field between two
adoptions of it, the rollback of the first takes out what the second has stored
and registered (`AdoptedReferencesResolve` excepts fields that `bb sec` changed
while they were referred to, and nothing else), and it ignores a failed write
although it says that nothing was adopted (`mcp_adopt.go:543`); sync registers the entry it has read,
however stale; the timer may call a child timed out that ended by itself, and
the wait lasts as long as a grandchild holds the output open.  The audit is best
effort: an entry that finds no path or directory, or cannot be opened or
written, is lost without a word (`mcp_serve.go:1432`); a child that ran is
answered without an entry when `Wait` fails other than by an exit status
(`mcp_serve.go:1342`); and an attempt that fails before the child starts, or
starting it, has none.  So "every attempt is appended" (`src/README.md:220`) does
not hold; `EveryRunAudited` says what does.

*Presets.*  Two processes that edit at once: the first change is lost
(`OthersUpdatesKept`; only `writeJSON` takes the lock), also when the second is an
import that brings nothing new (`wenv.go:920`).  The MCP server's `wenv_exec`
reads the preset twice; importing an empty legacy file makes an empty preset.

*Workspace.*  Between the second look and tmux's, the session may go, and tmux
then takes another whose name begins like it, since `attach` and `kill` pass the
bare name (`OnlyShownKilled`; `tm.go:400`).  IDs restart with the tmux server,
so after a restart a session of the same name may pass for the one shown; the
model's server keeps running.  An import checks names before it takes the lock
and only paths after, so two projects may share a name; `project remove <name>`
then removes both and reports one.


## 4. Proofs

Each theorem holds for all constants that satisfy the named assumptions (the two
about `review` add hypotheses of their own, below); TLC evaluates those in every
run.  They say that bounds are natural numbers, that
sets are of the kind their names say, and here and there what the code takes
for granted: a snapshot has a place to collect (`SnapshotAssumption`), "no
session" is not a session (`TerraformAssumption`), a stage of the selector that
has successors says what they are (`WalkAssumption`).

**Query coordinator** (`TypeCorrect`, `LoadsAreOwned`, `LateGenerationsFenced`,
`LiveFlightsIndexed`).  `IInv` is `TypeOK`, the three invariants, and two facts
they lean on: an open subscription names a flight, and a failing flight has a
failure kind.  None of the three is inductive alone.  A load is owned because
`canCommitLocked` lets only the indexed flight touch an entry, which needs
`LiveIndex`; the index survives a newer generation only because the fence
removed every older flight of the lineage; and the fence needs the index to
know that who commits is at the newest generation.

**Its callers** (`NobodyIsForgotten`, `LateCommitsRefused`, `AttemptsApart`,
`CoordinatorImplementsService`).  `SubsLinked` ties each open subscription to
the flight that lists it, in both directions; with it, a flight whose last
subscriber leaves is one nobody else waits for.  `PagesOwned` says which flight
an entry's pages and its last completed result come from, so that a refresh may
replace but never mix.  The refinement is proved step by step: `EntrySteps` and
`ChannelSteps` sort what an action does to an entry and to a channel into a few
kinds, `AInv` adds that a hit is settled and that a finishing flight's result is
no longer pending, and each action of the coordinator is then one action of
`QueryService` or none.  `QueryService` has no fairness, so this is
`ImplementsService` whole, for any number of callers, keys, flights and
generations.

**Contexts** (`TypeCorrect`, `ResolutionsCoalesced`, `PagesReadUnderKey`,
`ChangesHappened`).
`IInv` says of a runtime that its verified identity is one it `Had`: of an
earlier generation, or the present one with its principal; of a query that its
call is made while the identity is that of its key, that what AWS answered is no
older than that, and that no retrieval is under way when an identity is read
from an answer; and of the resolutions that they are one, and that a runtime is
known to nobody else (`Private`) until it is memoized.  A page is kept only if
the generation has not moved, which with `Had` leaves the credentials of the key
alone.  `Private` and the gate are why nobody else retrieves for a runtime in
the middle of this: `Alone` says two queries never use one runtime at once.
Every action that needs no more than the query itself is a case of `Quiet`, the
others of `MoveRuntime`, `MoveHidden` or `Renewal`.

That nobody is told of a change that did not happen is an action property, and
needs to know what a read has seen of its runtime.  `Reads` says that past its
start it works in a runtime not marked as changed, and asks AWS who it is only
when credentials were retrieved since the last answer (`Moved`); `Marked`, that a
mark stands for such a retrieval.  So whichever check sends a query away
(`Match`, `Ensure`, `Bind`, `Confirmed`), its runtime is not what its key names,
a case each in `GivesUpChanged`.  `Dropped` says the registry never hands out
again what it told a query was changed.

**Secret store** (`NoLostUpdate`, `SecretTypes`, `TrashKeeps`,
`FilesAgreeAlone`).  `NoLostUpdate`, an action property: `IInv` says a command
has the rest of a legal plan left, and that a snapshot whose flag is still set
is the store.  So a write that goes through differs from the store only in
fields the command names.

Types (`TInv`): what a command may rely on follows from the steps it has left
(`Left`), which `StepOff` works out once for every plan: a step is never
repeated but the reading of the store, a command that moves a value to the trash
has read the store and the sidecar before it writes the trash, and the trash
before it writes the store.  `Informed` ties data to that (a rotation past its
reading has the field it replaces), and `Owing` counts: each command that takes
a deletion time still to be taken owes one, and those taken and owed are no
more than the commands begun.  That is why times stay below the bound of their
type.

The trash keeps (`KInv`) for any number of processes that run only commands
which never mean to forget a value.  `Keeps`: from its write of the trash to its
write of the store a command whose snapshots still hold has the value it is
about to replace in the trash, young, at its own deletion time; another's write
of the trash keeps it, since that writer's snapshot has it.  The hard case is
`DropCopy`, the one step that takes a young entry away: `Later` and `Spare` say
that the copy is older than any entry a command in flight may still need, and
that its value is the store's, or was put in the trash again, later, by whoever
replaced it since.  That a purge alone forgets is `Purged` in `SInv`: from its
write of the trash on none of its fields is there, as long as nobody else runs.

The files agree (`AInv`) when commands run one at a time to their end.  The
sidecar fits the store until the command writes it (`Agree(store, meta)`); from
then until its last step the store is what the command makes of the data it read
(`NewStore`) and the sidecar fits those data, so that each command's own
rewriting of the sidecar brings them together again (`NewMetaAgrees`, a case per
command).  `TrashAgrees` carries the same promise for the metadata kept with a
value, which `restore` and `--undo` bring back.  `Newer` says what `--undo` put
in the trash is newer than all that is there, also after it dropped the copy it
used, hence what the next `--undo` finds.  Commands that stop half-way or meet
each other break this agreement, which is why the run and the theorem state it
for one use.

**Snapshot** (`TypeCorrect`, `SynchronisationsSerialised`, `TablesAgree`,
`AnswersTrue`, `ActiveRunSucceeded`).  `IInv` adds to the
types: `Held`, a lock is held exactly by a process inside the section it
guards; and `Ahead`, a synchronisation in progress was started after every kept
run was complete, and its own run is newer than they are.  `Ahead` is what
`CollectionsDoNotOverlap` lacks to be inductive, and `Held` is why it survives
another process's commit: that process would have to be inside as well.
`CommitKeeps` is the one fact about the tables the first two need: what is kept
was there before or is the committed run.

The answers need more of the tables (`TInv`): the active run is kept with its
coverage, rows belong to kept runs, of which there are at most `Retention`
(`RunsKept`, `RowsOwned`), and a run agrees with AWS in what it has read,
except for what has changed since it was started (`RunsTrue`).  A collection in
progress carries the same promise about what it has read so far (`Sound`): what
changes after it was read is newer than the start of the run.
An answer inherits it from the run it was read from.

**Engines** (`EnginesTyped`, `SearchesReportTruly`, `TracesKeepToTheirLimits`,
`FanoutsCoverEveryRegion`).  One invariant per engine over its own variables, as
for the commands below; the snapshot's `IInv` is the fourth.

- *Search* (`SearchInv`): only a profile that waits for a slot or asks holds any,
  and who is done has a status that follows from what was found and what was
  missed (`WorkSound`).  `MainSound`
  says that `Stream`'s goroutine has collected only what is done and, from its
  last step on, everything that was begun; `ChannelSound` follows that one update
  from the buffer, where it replaces an unread one, to its reader.
- *Trace* (`TraceInv`): what was asked about is in `trSeen` and not in the queue,
  and a trace that asks has room for what it answers.  A page is any sequence of
  relations.  What following them adds to the queue is a recursive function of
  how many have been followed; that there is one for every length
  (`FollowedExists`) is an induction, done as the search for a least length
  without one, since the library's rule cannot be instantiated.
- *Several regions* (`FanInv`): the aggregator has said of a region no more than
  what became of its query, events still in the channel included (`EventTrue`),
  and whoever has ended has said so or one of those events does (`Told`), unless
  the read was cancelled.

**Browser** (`BrowserTyped`, `ScreensLetGo`, `ScreensAnswered`),
for any number of frames, requests and profiles.  `IInv` says of a stack that
all but its top is *settled*: no frame waits for anything but a refresh or an
answer that is shown as loading (`Covered`).  Of the top it says that what it
waits for is under way (`Live`), and then either nothing is there to go forward
to or the keys are barred while a row is verified; that is what keeps `forward`
from covering a list that loads, and why returning to a screen that was covered
while it refreshed, or to a context screen left while it loaded, is the one way
to a screen that waits for ever (`Kept`).  `LinkOK` ties the request a frame holds
to the frame's kind and, for a list, to its own question and the identity it was
asked in, so that the rows a message brings are the list's and its context is
theirs; it is void once the request is over, since the slot is
then somebody else's.  `Held` says the converse: what runs and is not cancelled
is held by a frame.  `FrameOK` is what a frame keeps by itself; its clause that
a complete list only asks to refresh or to verify is why no late item makes an
incomplete one of it.  Every way out of a screen is one of three that leave what
is below the top settled (`TopReleased`, `TopOver`, `TopQuiet`), and every way
in is a frame put on a settled stack (`PushSettled`, `PushAsking`) or a top
that goes on (`TopGoesOn`).  Each action is then a few steps; the complete rows
of a list are followed along with it (`WholeKept`).

**Commands** (`ConfirmedOnlyIsDone`, `EveryRunAccountedFor`, `AllowListSound`,
`PresetsAndProjectsSound`, `RegistrySafe`, `SelectionsSound`,
`ReviewAndCleanReportTruly`, `ReviewMissesNothing`, `CommandsTypes`).
Each machine has an invariant over its own variables, and `CommandsInv` is their
conjunction; a step of one leaves the others' variables as they are.

- *Terraform*: the copy at hand is the plan that was shown, and from the answer
  on each check the code makes has become a witness that stays (`held`, `same`,
  `seen`).
- *Clean*: what has been removed is exactly the listed paths before the one at
  hand, and the one about to be removed has been the listed file since the
  answer.
- *Review*: `DottedIs` says what the string of a path is, by the first place where
  the recursive function that builds it could be another one; so the code compares
  the values at the very paths the names stand for (`UndottedIs`), and reports an
  update exactly if its meaning is outside the rules (`ReviewedIsOutside`).  `RvInv`
  keeps, of the root at hand, that what the code has noted is what the entries seen
  mean (`RvVerdict`), and of the roots before it that they were printed so.  Two
  hypotheses are stated with the theorem, on the paths a plan may have: no name has
  a dot (the code misreads those, section 3), and no value has a tree where another
  has a scalar.  The run's paths meet them (`SimplePathsArePlain`).  Without the
  second the code may report more than changed, since a null that becomes a tree
  also differs at its own path; `ReviewMissesNothing` needs only the first, and says
  that nothing is then reported as less than it is.
- *Workspace*: a process that is past its second look has a witness for what it
  saw; the candidates of an import are of different directories, and each writer
  looks for them in the registry under the lock; tmux's IDs are never above the
  number of sessions born, so a new session cannot pass for an old one.
- *Rules*: the prefixes of two rules that match one command are comparable
  (`PrefixesCompare`), and `NoOverlaps` says that the shorter then does not lift
  what the longer binds; additions are refused otherwise, and taking away
  cannot break it (`FewerOverlapNoMore`).
- *Server*: the request at hand is the one whose answer is owed, was permitted
  at some moment since it was read, no run is without an answer, and every use is
  in the audit or counted as lost (`Recorded`).
- *Presets*: neither the file nor what any process is about to write has a plain
  secret, so the order of the unlocked writes does not matter.
- *Registry*: what an adopted server refers to is `Provided` by the secret
  store from the moment the adopting process has stored it until its rollback;
  and of two that refer to one field, the registered server and adoptions that
  may yet be taken back, `bb sec` has changed that field (`Apart`), since an
  adoption of a field that is there is refused.  So a rollback takes nothing that
  another needs, but for such fields.
- *Selector*: `WkTrail` says the levels entered are those along the path, each
  with a value the one before offered; the cursor is in sight in each.

**Only model-checked.**  Liveness (`FlightsEnd`, `WaitsEnd`, `EnginesEnd` and the
`RefsEnds` of the snapshot) and everything about `ENABLED`: the installed
provers do not handle fairness.  Whatever else the passing runs check is stated
by a theorem, `ReportsAreTrue` with the hypotheses on paths given above.  No
module uses RECURSIVE.

Three things the proofs changed in the models.  The room for the first screen
(`MaxOpened` is not 0) is now an assumption of `BrowserModel`, without which its
types are not an invariant.  `ReleasedAll` and what a trace has asked about are
written as functions and sequences one can reason about.  And the invariants
above, once written down, were checked by TLC on the runs' instances before they
were proved.


## 5. What is left

All components of section 2 are modelled, their runs pass, the coordinator
implements its service, and the safety the runs check is proved.  Open, in the
order of what it would say:

1. liveness: from `FlightsEnd` to `RefsEnds` it rests on the bounded instances;
2. browser and coordinator in one model: at present the browser's requests may
   answer anything a stream can say, which covers the coordinator's behaviour
   but does not use it.


## 6. Not modelled, and why

- Providers, deny rules, dispatch, completion, the plain AWS command line,
  profiles and role assumption, the release tools: pure or sequential, with no
  state whose order could be wrong.
- The clipboard's clearer: its check and its clearing are calls of two external
  programs, and the code has nothing that could keep a copy out from between.
- Rendering, flag parsing, wording, redaction and the parsing of foreign files
  in the components that are modelled: data no property tells apart.
- Neovim's profiles, `tvx`, `tfx browse`, the shell hook of presets: one read
  and one child process each.
