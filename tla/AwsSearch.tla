----------------------------- MODULE AwsSearch -----------------------------
(***************************************************************************)
(* A search of one or all AWS profiles (integration/search.go), read by    *)
(* bb aws query (Submit) or by the browser's stream (dispatchSearch in     *)
(* aws_runtime.go).  The current profile is searched first; then a worker  *)
(* per profile that the AWS CLI lists, all under counting semaphores: one  *)
(* for credentials, one for SDK calls, and two of each account's own.      *)
(*                                                                         *)
(* A search is one query, or for a domain the hosted zones and then, for   *)
(* each zone that matches, its records.                                    *)
(***************************************************************************)
EXTENDS Naturals, Sequences, FiniteSets

CONSTANTS
    SearchCurrent,  \* the current profile
    SearchListed,   \* the other profiles
    SearchAccounts,
    SearchAccount,  \* the account of each profile
    SlotLimit,      \* the capacity of each semaphore
    MaxSearchZones  \* bound: hosted zones that match

SearchProfiles == SearchListed \cup {SearchCurrent}
ASSUME SearchAssumption ==
    /\ SearchCurrent \notin SearchListed
    /\ SearchAccount \in [SearchProfiles -> SearchAccounts]
    /\ SlotLimit \in Nat \ {0} /\ MaxSearchZones \in Nat

VARIABLES
    seDomain,   \* the search is for a domain
    seWork,     \* what processProfile is doing for each profile
    seListing,  \* secondaryScope: "running", "listed" or "failed"; "none" for one profile
    seMain,     \* what Stream's goroutine is doing
    seReady,    \* profiles whose results it has
    seBuffer,   \* the update in the channel
    seRead,     \* the last update the reader took
    seCancelled

searchVars == <<seDomain, seWork, seListing, seMain, seReady, seBuffer, seRead, seCancelled>>

SearchStatuses == {"none", "matched", "not_found", "failed", "cancelled", "not_searched"}
SearchWork == [pc : {"new", "credentials", "resolve", "acquire", "query", "done"},
               held : 0..3,                       \* slots held, of those of this query
               zones : 0..MaxSearchZones + 1,     \* queries still to make
               items : BOOLEAN, status : SearchStatuses,
               missed : BOOLEAN]                  \* something was not searched
NoUpdate == [profiles |-> {}, terminal |-> FALSE]

SearchTypeOK ==
    /\ seDomain \in BOOLEAN /\ seCancelled \in BOOLEAN
    /\ seWork \in [SearchProfiles -> SearchWork]
    /\ seListing \in {"none", "running", "listed", "failed"}
    /\ seMain \in {"current", "publish", "discover", "collect", "send", "finish", "closed"}
    /\ seReady \in SUBSET SearchProfiles
    /\ {seBuffer, seRead} \subseteq [profiles : SUBSET SearchProfiles, terminal : BOOLEAN]

SearchInit ==
    /\ seDomain \in BOOLEAN /\ seListing \in {"none", "running"}
    /\ seWork = [p \in SearchProfiles |->
                    [pc |-> IF p = SearchCurrent THEN "credentials" ELSE "new", held |-> 0,
                     zones |-> 1, items |-> FALSE, status |-> "none", missed |-> FALSE]]
    /\ seMain = "current" /\ seReady = {}
    /\ seBuffer = NoUpdate /\ seRead = NoUpdate /\ seCancelled = FALSE

-----------------------------------------------------------------------------
(* Semaphores *)

\* The slots of a query, in the order they are acquired.
SlotsOf(p) == IF seDomain THEN <<<<"route53", SearchAccount[p]>>, <<"sdk", SearchAccount[p]>>, <<"sdk">>>>
              ELSE <<<<"sdk", SearchAccount[p]>>, <<"sdk">>>>

SlotHeld(p, slot) == \E i \in 1..seWork[p].held : SlotsOf(p)[i] = slot
SlotFree(slot) == Cardinality({p \in SearchProfiles : SlotHeld(p, slot)}) < SlotLimit
CredentialsFree == Cardinality({p \in SearchProfiles : seWork[p].pc = "resolve"}) < SlotLimit

-----------------------------------------------------------------------------
(* processProfile *)

WorkAt(p, pc) == seWork[p].pc = pc
WorkKeeps == UNCHANGED <<seDomain, seListing, seMain, seReady, seBuffer, seRead, seCancelled>>
WorkGoes(p, work) == seWork' = [seWork EXCEPT ![p] = work] /\ WorkKeeps

\* A bug of SearchDone: the slots stay taken.
SearchDone_Held(work, status, missed) == [work EXCEPT !.pc = "done", !.status = status, !.missed = @ \/ missed]

\* The profile ends with a status; whatever it holds is released.
SearchDone(work, status, missed) ==
    [work EXCEPT !.pc = "done", !.held = 0, !.status = status, !.missed = @ \/ missed]

AcquireCredentials(p) ==
    /\ WorkAt(p, "credentials") /\ (seCancelled \/ CredentialsFree)
    /\ WorkGoes(p, IF seCancelled THEN SearchDone(seWork[p], "not_searched", TRUE)
                   ELSE [seWork[p] EXCEPT !.pc = "resolve"])

\* resolveOne
ResolveProfile(p, ok) ==
    /\ WorkAt(p, "resolve")
    /\ WorkGoes(p, IF ok THEN [seWork[p] EXCEPT !.pc = "acquire"]
                   ELSE SearchDone(seWork[p], IF seCancelled THEN "cancelled" ELSE "failed", TRUE))

\* acquireSearch gives up, and gives back, once the search is cancelled.
AcquireSlot(p) ==
    /\ WorkAt(p, "acquire")
    /\ LET w == seWork[p]
           slots == SlotsOf(p)
       IN  IF seCancelled THEN WorkGoes(p, SearchDone(w, "not_searched", TRUE))
           ELSE /\ SlotFree(slots[w.held + 1])
                /\ WorkGoes(p, [w EXCEPT !.held = @ + 1,
                                         !.pc = IF w.held + 1 = Len(slots) THEN "query" ELSE "acquire"])

\* A bug of RecordsFail: the zones that follow are searched, and their results stand.
RecordsFail_Next(w, status) == [w EXCEPT !.pc = IF w.zones = 1 THEN "done" ELSE "acquire", !.held = 0,
                                         !.zones = @ - 1, !.missed = TRUE,
                                         !.status = IF w.items THEN "matched" ELSE "not_found"]

\* A query that fails ends the profile's search with its status.
RecordsFail(w, status) == SearchDone(w, status, TRUE)

QueryFails(p) ==
    /\ WorkAt(p, "query")
    /\ WorkGoes(p, RecordsFail(seWork[p], IF seCancelled THEN "cancelled" ELSE "failed"))

\* The queries the answers leave: a domain's hosted zones that match.
QueryAnswers(p, found, zones) ==
    /\ WorkAt(p, "query")
    /\ LET w == seWork[p]
           first == seDomain /\ w.status = "none"
           left == IF first THEN zones ELSE w.zones - 1
           items == w.items \/ (found /\ ~first)
       IN  /\ found => ~first
           /\ ~first => zones = 0
           /\ WorkGoes(p, [w EXCEPT !.held = 0, !.zones = left, !.items = items,
                                    !.pc = IF left = 0 THEN "done" ELSE "acquire",
                                    !.status = IF left = 0 /\ items THEN "matched" ELSE "not_found"])

-----------------------------------------------------------------------------
(* Stream *)

MainKeeps == UNCHANGED <<seDomain, seWork, seListing, seRead, seCancelled>>
MainGoes(pc) == seMain' = pc

CurrentSearched ==
    /\ seMain = "current" /\ WorkAt(SearchCurrent, "done") /\ seReady' = {SearchCurrent}
    /\ MainGoes(IF seListing = "none" THEN "finish" ELSE "publish")
    /\ MainKeeps /\ UNCHANGED seBuffer

\* A progressive update, which a reader that has gone may not take.
PublishProgress ==
    /\ seMain \in {"publish", "send"}
    /\ MainGoes(IF seMain = "publish" THEN "discover" ELSE "collect")
    /\ \/ /\ seBuffer = NoUpdate
          /\ seBuffer' = [profiles |-> seReady, terminal |-> FALSE]
       \/ seCancelled /\ UNCHANGED seBuffer
    /\ MainKeeps /\ UNCHANGED seReady

ListProfiles(ok) ==
    /\ seListing = "running" /\ seListing' = IF ok THEN "listed" ELSE "failed"
    /\ UNCHANGED <<seDomain, seWork, seMain, seReady, seBuffer, seRead, seCancelled>>

Discovered ==
    /\ seMain = "discover" /\ seListing \in {"listed", "failed"}
    /\ LET others == IF seListing = "listed" THEN SearchListed ELSE {}
       IN  /\ MainGoes(IF others = {} THEN "finish" ELSE "collect")
           /\ seWork' = [p \in SearchProfiles |->
                            IF p \in others THEN [seWork[p] EXCEPT !.pc = "credentials"] ELSE seWork[p]]
    /\ UNCHANGED <<seDomain, seListing, seReady, seBuffer, seRead, seCancelled>>

CollectProfile(p) ==
    /\ seMain = "collect" /\ p \in SearchListed \ seReady /\ WorkAt(p, "done")
    /\ seReady' = seReady \cup {p}
    /\ MainGoes(IF seReady' = SearchProfiles THEN "finish" ELSE "send")
    /\ MainKeeps /\ UNCHANGED seBuffer

\* A bug of TerminalPlaced: it waits for the reader, or goes without.
TerminalPlaced_Dropped(update) == seBuffer' = IF seBuffer = NoUpdate THEN update ELSE seBuffer
\* A bug of TerminalPlaced: only a reader makes room.
TerminalPlaced_Blocking(update) == seBuffer = NoUpdate /\ seBuffer' = update

\* sendTerminalSearchUpdate: the last update waits for the reader, or, cancelled, takes
\* the place of one that was not read.
TerminalPlaced(update) == (seBuffer = NoUpdate \/ seCancelled) /\ seBuffer' = update

FinishSearch ==
    /\ seMain = "finish" /\ MainGoes("closed")
    /\ TerminalPlaced([profiles |-> seReady, terminal |-> TRUE])
    /\ MainKeeps /\ UNCHANGED seReady

-----------------------------------------------------------------------------
(* The reader *)

\* Submit reads to the end; the browser's bridge reads until it is cancelled.
ReadUpdate ==
    /\ seBuffer # NoUpdate /\ seRead' = seBuffer /\ seBuffer' = NoUpdate
    /\ UNCHANGED <<seDomain, seWork, seListing, seMain, seReady, seCancelled>>

CancelSearch ==
    /\ ~seCancelled /\ seMain # "closed" /\ seCancelled' = TRUE
    /\ UNCHANGED <<seDomain, seWork, seListing, seMain, seReady, seBuffer, seRead>>

SearchWorks(p) ==
    \/ AcquireCredentials(p) \/ AcquireSlot(p) \/ QueryFails(p)
    \/ \E ok \in BOOLEAN : ResolveProfile(p, ok)
    \/ \E found \in BOOLEAN, zones \in 0..MaxSearchZones : QueryAnswers(p, found, zones)
SearchStreams ==
    \/ CurrentSearched \/ PublishProgress \/ Discovered \/ FinishSearch
    \/ \E ok \in BOOLEAN : ListProfiles(ok)
    \/ \E p \in SearchListed : CollectProfile(p)

SearchNext ==
    \/ \E p \in SearchProfiles : SearchWorks(p)
    \/ SearchStreams \/ ReadUpdate \/ CancelSearch

\* A semaphore is a channel: whoever waits for a slot gets one of those that come
\* free.  Calls return, if need be by their deadline; a reader reads, unless it cancels.
SearchFairness ==
    /\ \A p \in SearchProfiles : SF_searchVars(SearchWorks(p))
    /\ WF_searchVars(SearchStreams)
    /\ WF_searchVars(~seCancelled /\ ReadUpdate)

SearchSpec == SearchInit /\ [][SearchNext]_searchVars /\ SearchFairness

-----------------------------------------------------------------------------
(* Properties *)

\* A profile is reported as matched or not found only if everything of it was searched:
\* its context, and a domain's every zone (searchProfile, search.go:303).
CertainWhenSearched ==
    \A p \in SearchProfiles :
        seWork[p].pc = "done" /\ seWork[p].status \in {"matched", "not_found"} =>
            ~seWork[p].missed /\ (seWork[p].status = "matched" <=> seWork[p].items)

\* A profile that is done leaves no slot taken, whether it was answered, failed or
\* was cancelled half-way through acquiring (acquireSearch, search.go:405).
DoneHoldsNothing == \A p \in SearchProfiles : WorkAt(p, "done") => seWork[p].held = 0

\* The stream ends with exactly one terminal update, which covers every profile, is the
\* last one, and is there for the reader even when it cancelled ("exactly one terminal
\* update", search.go:166).
EndsWithAll ==
    /\ seMain = "closed" =>
          \E update \in {seBuffer, seRead} :
              /\ update.terminal /\ \A p \in update.profiles : WorkAt(p, "done")
              /\ update.profiles = {p \in SearchProfiles : seWork[p].pc # "new"}
              /\ seBuffer \in {NoUpdate, update}
    /\ seMain # "closed" => ~seBuffer.terminal /\ ~seRead.terminal

\* A search ends, whatever fails and whenever it is cancelled, even if nobody reads it
\* any more: no worker waits for ever for a slot, nor the stream for a reader.
SearchEnds == <>(seMain = "closed" /\ \A p \in SearchProfiles : seWork[p].pc \in {"new", "done"})

\* A search reports what it has searched: a profile as matched or not found only if all
\* of it was read, all profiles in its last update, and nothing held by one that is done
\* (Stream, search.go:152).
SearchReportsWhatItSearched == CertainWhenSearched /\ DoneHoldsNothing /\ EndsWithAll
=============================================================================
