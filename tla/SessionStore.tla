---------------------------- MODULE SessionStore ----------------------------
(***************************************************************************)
(* The in-memory query cache of the AWS browser                            *)
(* (internal/bb/awsbrowser/store.go) as operators on one cache entry.      *)
(*                                                                         *)
(* Every mutation of the store in the program happens while the query      *)
(* coordinator holds its own mutex, so each store method is one operator   *)
(* that the coordinator applies inside its critical sections; the unlocked *)
(* readers (Snapshot) simply read the entry.                               *)
(*                                                                         *)
(* An entry is [state, fetched, pages, staged, observed]:                  *)
(*   fetched   the entry's fetchedAt is set (some load completed);         *)
(*   pages     the visible pages, staged the ones a refresh collected;     *)
(*   observed  the newest flight whose mapped observations are visible in  *)
(*             the canonical resource map under this context and operation.*)
(* A page is [by, n, rows]: the flight that fetched it, its number, and    *)
(* whether it holds any resource.                                          *)
(***************************************************************************)
EXTENDS Naturals

(* "unknown" stands for the retryable failures (throttled, timed out,      *)
(* decode, incomplete), "forbidden" for the stable negative ones.          *)
FailureStates == {"forbidden", "cancelled", "unknown"}
LoadStates == {"not_loaded", "queued", "loading", "refreshing",
               "ready", "empty", "stale"} \cup FailureStates

(* A completed value a refresh keeps on display. *)
Readable == {"ready", "empty", "stale"}

(* The states a cached Subscribe answers from. *)
CacheTerminal == {"ready", "empty", "stale", "forbidden"}

(* A key that was never queued, or that was invalidated. *)
Absent == [state |-> "not_loaded", fetched |-> FALSE,
           pages |-> {}, staged |-> {}, observed |-> 0]

Busy(e) == e.state \in {"loading", "refreshing"}

Queue(e) == [e EXCEPT !.state = "queued"]

(* A bug of BeginLoad: an abandoned attempt's pages stay. *)
BeginLoad_KeepsPages(e) == [e EXCEPT !.state = "loading", !.fetched = FALSE]

BeginLoad(e) == [e EXCEPT !.state = "loading", !.fetched = FALSE,
                          !.pages = {}, !.staged = {}]

BeginRefresh(e) ==
  IF ~e.fetched \/ e.state \notin Readable
  THEN BeginLoad(e)
  ELSE [e EXCEPT !.state = "refreshing", !.staged = {}]

(* pages[page.Number] = page *)
PutPage(pages, page) == {q \in pages : q.n # page.n} \cup {page}

UpsertObservations(e, pages) ==
  IF \E p \in pages : p.rows
  THEN [e EXCEPT !.observed = (CHOOSE p \in pages : p.rows).by]
  ELSE e

(* A bug of CommitPage: a refresh page is shown before the refresh is over. *)
CommitPage_Unstaged(e, page) ==
  UpsertObservations([e EXCEPT !.pages = PutPage(e.pages, page)], {page})

CommitPage(e, page) ==
  IF e.state = "refreshing"
  THEN [e EXCEPT !.staged = PutPage(e.staged, page)]
  ELSE UpsertObservations([e EXCEPT !.pages = PutPage(e.pages, page)], {page})

CompleteQuery(e) ==
  LET visible == IF e.state = "refreshing" THEN e.staged ELSE e.pages
      kept    == IF e.state = "refreshing" THEN UpsertObservations(e, visible) ELSE e
  IN  [kept EXCEPT !.pages = visible, !.staged = {}, !.fetched = TRUE,
                   !.state = IF \E p \in visible : p.rows THEN "ready" ELSE "empty"]

(* Defined for queued, loading and refreshing entries. *)
FailQuery(e, failure) ==
  [e EXCEPT !.state = IF e.state = "refreshing" THEN "stale" ELSE failure,
            !.staged = {}]

CanFail(e) == e.state = "queued" \/ Busy(e)

(* Both invalidations drop the entry and its observations together. *)
InvalidateContext(queries, scope, gen) ==
  [k \in DOMAIN queries |->
     IF k.scope = scope /\ k.gen = gen THEN Absent ELSE queries[k]]

(* A bug of InvalidateGeneration: the comparison is the wrong way round. *)
InvalidateGeneration_Newer(queries, scope, gen) ==
  [k \in DOMAIN queries |->
     IF k.scope = scope /\ k.gen > gen THEN Absent ELSE queries[k]]

InvalidateGeneration(queries, scope, gen) ==
  [k \in DOMAIN queries |->
     IF k.scope = scope /\ k.gen # gen THEN Absent ELSE queries[k]]
=============================================================================
