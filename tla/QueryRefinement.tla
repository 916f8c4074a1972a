--------------------------- MODULE QueryRefinement ---------------------------
(***************************************************************************)
(* The coordinator implements QueryService: its fence is the lineages'     *)
(* newest generation, what it shows is the store's visible pages, and a    *)
(* client asks from its look at the cache until its channel is closed.     *)
(***************************************************************************)
EXTENDS QueryCoordinator

ShownState(state) ==
  CASE state = "not_loaded" -> "absent"
    [] state \in {"queued", "loading"} -> "loading"
    [] state = "refreshing" -> "refreshing"
    [] state \in Readable -> "result"
    [] OTHER -> "failed"

AskState(phase) ==
  CASE phase = "idle" -> "idle"
    [] phase \in {"missed", "open"} -> "asking"
    [] OTHER -> "told"

Service == INSTANCE QueryService WITH
  Pages <- PageRecords,
  fence <- latest,
  shown <- [k \in Keys |-> [state |-> ShownState(queries[k].state), pages |-> queries[k].pages]],
  asks  <- [c \in Clients |-> [state |-> AskState(client[c].phase), key |-> client[c].key]]

(* Whatever its flights, slots and locks do, callers see no more than what   *)
(* QueryService lets them see: only queries somebody waits for change, and   *)
(* only at their newest generation, a refresh replaces a result whole, and   *)
(* channels are closed when nothing is being loaded (query.go).              *)
ImplementsService == Service!ServiceSpec
=============================================================================
