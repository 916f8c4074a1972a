---------------------------- MODULE BrowserModel ----------------------------
(***************************************************************************)
(* The screens of `bb aws browse` (awsbrowser/model.go, messages.go): a    *)
(* stack of frames, the requests their commands run in goroutines, and the *)
(* messages those deliver to the one loop that owns the stack.             *)
(*                                                                         *)
(* A key or a message is one action.  A generation number is only ever     *)
(* compared with the one a message carries, so a frame holds the request   *)
(* whose messages it awaits (None once its number has moved on) and, apart *)
(* from it, the request whose context and stream it can cancel.  What a    *)
(* message says is chosen when it is delivered: nobody sees it sooner.     *)
(* Rows are counted; a list's cursor and filter are in BrowserList.  A     *)
(* profile stands for a profile and its region, not for a set of regions.  *)
(***************************************************************************)
EXTENDS Naturals, Sequences, SequencesExt, FiniteSets

CONSTANTS
    Profiles,     \* the configured profiles (each with its region)
    Accounts,     \* the accounts AWS may say a profile belongs to
    MaxRequests,  \* bound: requests at once
    MaxOpened,    \* bound: screens and questions of a session
    MaxDepth,     \* bound: frames on the stack
    MaxRows,      \* bound: rows of a list
    None          \* no profile, no context, no request

ASSUME BrowserAssumption ==
    /\ Profiles # {} /\ None \notin Profiles
    /\ MaxRequests \in Nat \ {0} /\ MaxDepth \in Nat \ {0} /\ MaxRows \in Nat
    /\ MaxOpened \in Nat \ {0}          \* the screen it may begin with
    /\ None \notin 1..MaxRequests
    /\ None \notin [profile : Profiles, account : Accounts]

VARIABLES
    history,      \* Model.history, the frame shown last
    forwardHistory,
    requests,     \* what commands run, and the message each has under way
    config,       \* Model.config: the profile intents run in by default
    running,      \* the program has not quit
    opened        \* screens and questions so far, for the bound alone

vars == <<history, forwardHistory, requests, config, running, opened>>

Requests == 1..MaxRequests
Contexts == [profile : Profiles, account : Accounts]

\* A singleton is an `open` of one exact resource, whose list becomes its
\* overview.  Those two read one query, in the context of its key.
Kinds == {"open", "singleton", "search", "incoming", "trace"}
Plain(intent) == intent.kind \in {"open", "singleton"}

\* What an intent asks, and as which profile.
Intents == [kind : Kinds, profile : Profiles \cup {None}]

\* The rows a list shows, what asked for them, the context one query read them
\* in (other rows have each their own), and whether they are all.
Projections == [of : Intents \cup {None}, context : Contexts \cup {None},
                rows : 0..MaxRows, whole : BOOLEAN]
Nothing == [of |-> None, context |-> None, rows |-> 0, whole |-> FALSE]

\* One item of a stream: a state of the query and the rows it has so far.  A
\* stale result is a failed one with rows; an item marked Done in a state that
\* is not final is a loading one whose stream then closes.
Updates == {u \in [state : {"loading", "ready", "empty", "failed"}, rows : 0..MaxRows] :
              /\ u.state = "empty" => u.rows = 0
              /\ u.state = "ready" => u.rows > 0}
Terminal(u) == u.state # "loading"
Whole(u)    == u.state \in {"ready", "empty"}

Frame == [mode : {"list", "detail", "part", "search", "context"},
          intent : Intents \cup {None},
          awaits : Requests \cup {None}, asks : Requests \cup {None},
          refreshing : BOOLEAN, terminal : BOOLEAN,
          shown : Projections, context : Contexts \cup {None},
          navigating : BOOLEAN,             \* a snapshot row is being verified
          loading : BOOLEAN, known : BOOLEAN, query : BOOLEAN,
          choice : Profiles \cup {None}, verified : Contexts \cup {None}]

NewFrame(mode) ==
    [mode |-> mode, intent |-> None, awaits |-> None, asks |-> None,
     refreshing |-> FALSE, terminal |-> FALSE, shown |-> Nothing,
     context |-> None, navigating |-> FALSE,
     loading |-> FALSE, known |-> FALSE, query |-> FALSE, choice |-> None,
     verified |-> None]

\* A request: its command runs or its answer is queued ("running"), an item
\* of its stream is awaited or queued ("reading"), or the stream is open and
\* nobody reads it any more ("dropped").
Request == [call : {"dispatch", "choices", "resolve", "navigate"},
            phase : {"unused", "running", "reading", "dropped"},
            intent : Intents \cup {None}, profile : Profiles \cup {None},
            hint : Contexts \cup {None},     \* whom the snapshot's row names
            context : Contexts \cup {None},  \* the one its query reads in
            cancelled : BOOLEAN]

UnusedRequest ==
    [call |-> "dispatch", phase |-> "unused", intent |-> None, profile |-> None,
     hint |-> None, context |-> None, cancelled |-> FALSE]

TypeOK ==
    /\ history \in Seq(Frame) /\ Len(history) <= MaxDepth
    /\ forwardHistory \in Seq(Frame) /\ Len(forwardHistory) <= MaxDepth
    /\ requests \in [Requests -> Request]
    /\ config \in Profiles \cup {None}
    /\ running \in BOOLEAN
    /\ opened \in 0..MaxOpened

-----------------------------------------------------------------------------
(* Frames and requests *)

Home    == history = <<>>
Current == Last(history)
SetCurrent(f) == [history EXCEPT ![Len(history)] = f]

\* A bug of releaseFrame: the context is not cancelled while a command runs.
Released_Late(req) == IF req.phase = "running" THEN req ELSE [req EXCEPT !.cancelled = TRUE]

\* releaseFrame: cancel the frame's context, and its stream if it has one.
Released(req) == IF req.phase = "dropped" THEN UnusedRequest ELSE [req EXCEPT !.cancelled = TRUE]
Release(rs, f) == IF f.asks = None THEN rs ELSE [rs EXCEPT ![f.asks] = Released(@)]

\* finishFrame and finalizeRefresh: no message of the request is awaited.
FinishFrame(f) ==
    [f EXCEPT !.asks = None, !.awaits = None, !.refreshing = FALSE,
              !.navigating = FALSE]

\* The stack with its top finished, as every dispatch and new screen begins.
Finished    == IF Home THEN history ELSE SetCurrent(FinishFrame(Current))
ReleasedTop == IF Home THEN requests ELSE Release(requests, Current)

\* restorableHistoryFrame, judged before the frame is finished.
Restorable(f) ==
    /\ f.mode \notin {"search", "context"}
    /\ f.mode = "list" => f.terminal

\* A request nothing is under way of, and which no frame refers to.
Idle == {r \in Requests :
            /\ requests[r].phase = "unused"
            /\ \A f \in ToSet(history) \cup ToSet(forwardHistory) :
                  f.awaits # r /\ f.asks # r}
NextRequest == CHOOSE r \in Idle : \A s \in Idle : r <= s
Ask(rs, req) == [rs EXCEPT ![NextRequest] = [req EXCEPT !.phase = "running"]]

PushFrame(h, f) ==
    /\ Len(h) < MaxDepth
    /\ history' = Append(h, f) /\ forwardHistory' = <<>>

\* A bug of pushAndDispatch: the target is taken for the kind.
IntentFor_Unkinded(kind, inherited) == [kind |-> config, profile |-> config]

\* resolveIntentContext: an intent without a profile runs in the configured one.
IntentFor(kind, inherited) ==
    [kind |-> kind, profile |-> IF inherited # None THEN inherited.profile ELSE config]

\* pushAndDispatch, on a stack `h` whose top is finished and requests `rs`.
PushAndDispatch(h, rs, kind, inherited) ==
    LET intent == IntentFor(kind, inherited)
    IN  /\ Idle # {}
        /\ PushFrame(h, [NewFrame("list") EXCEPT
                !.intent = intent, !.context = inherited,
                !.awaits = NextRequest, !.asks = NextRequest])
        /\ requests' = Ask(rs, [UnusedRequest EXCEPT !.intent = intent])
        /\ UNCHANGED <<config, running>>

\* cancelAll releases every frame.
ReleasedAll == [r \in Requests |-> IF \E f \in ToSet(history) : f.asks = r
                                     THEN Released(requests[r]) ELSE requests[r]]

\* NewModel: with a profile the home screen, without one the context screen,
\* whose list of profiles Init asks for.
Init ==
    /\ forwardHistory = <<>> /\ running = TRUE
    /\ \/ /\ config \in Profiles /\ history = <<>>
          /\ requests = [r \in Requests |-> UnusedRequest]
       \/ /\ config = None
          /\ history = <<[NewFrame("context") EXCEPT
                            !.awaits = 1, !.asks = 1, !.loading = TRUE]>>
          /\ requests = [r \in Requests |->
                IF r = 1 THEN [UnusedRequest EXCEPT !.call = "choices", !.phase = "running"]
                ELSE UnusedRequest]
    /\ opened = Len(history)

-----------------------------------------------------------------------------
(* Messages *)

\* The generation of the frame on the screen is the message's.
Awaited(r) == ~Home /\ Current.awaits = r
Over(rs, r) == [rs EXCEPT ![r] = UnusedRequest]

Message(r, call, phase) ==
    running /\ requests[r].call = call /\ requests[r].phase = phase

\* The identities AWS may answer for a profile, the ambient one for None.
ContextsOf(profile) ==
    IF profile = None THEN Contexts ELSE {c \in Contexts : c.profile = profile}

\* The contexts the stream of an intent may read in: a query's key has one, for
\* as long as the stream lasts.
StreamContexts(intent) == IF Plain(intent) THEN ContextsOf(intent.profile) ELSE {None}

\* intentStartedMsg: a stream nobody awaits is cancelled.
IntentStarted(r) ==
    /\ Message(r, "dispatch", "running")
    /\ IF ~Awaited(r)
       THEN requests' = Over(requests, r) /\ UNCHANGED history
       ELSE \/ \E c \in StreamContexts(requests[r].intent) :
                  /\ requests' = [requests EXCEPT ![r].phase = "reading", ![r].context = c]
                  /\ UNCHANGED history
            \/ /\ requests' = Over(requests, r)
               /\ history' = SetCurrent(FinishFrame(Current))
    /\ UNCHANGED <<forwardHistory, config, running>>

\* The contexts an item may name: a query's are those of its key, once it has
\* one; a trace names that of its latest query, and always has a row to show;
\* a search and a collection name none.
ContextsNamed(req, item) ==
    CASE Plain(req.intent) -> {req.context} \cup
                              IF item.rows = 0 /\ item.state # "empty" THEN {None} ELSE {}
      [] req.intent.kind = "trace" ->
            IF item.rows = 0 THEN {} ELSE ContextsOf(req.intent.profile) \cup {None}
      [] OTHER -> {None}

ShowRows(f, req, item) ==
    [f EXCEPT !.shown = [of |-> req.intent, context |-> req.context,
                         rows |-> item.rows, whole |-> Whole(item)]]

\* The context of a frame is the last one an item named.
InContextOf(f, c) == IF c = None THEN f ELSE [f EXCEPT !.context = c]

\* A bug of applyIntentUpdate: a refresh shows the rows it has so far.
ApplyUpdate_Unstaged(f, req, item, c) ==
    IF item.rows # 0 \/ Whole(item) THEN ShowRows(InContextOf(f, c), req, item)
    ELSE InContextOf(f, c)

\* applyIntentUpdate: a refresh replaces what is shown, and the context with
\* it, only when it is whole.
ApplyUpdate(f, req, item, c) ==
    IF f.refreshing
    THEN IF Whole(item) THEN ShowRows(InContextOf(f, c), req, item) ELSE f
    ELSE IF item.rows # 0 \/ Whole(item) THEN ShowRows(InContextOf(f, c), req, item)
    ELSE InContextOf(f, c)

\* promoteSingletonSummary: the one row of an exact read becomes its overview.
Promote(f) ==
    IF f.intent.kind = "singleton" /\ f.shown.rows = 1
    THEN [f EXCEPT !.mode = "detail", !.shown = Nothing]
    ELSE f

\* A linked target that failed with nothing to show gives way to its parent.
Withdrawn(f, item) ==
    /\ item.state = "failed" /\ f.shown.rows = 0
    /\ f.intent.kind \in {"open", "singleton"} /\ Len(history) > 1

\* intentStreamMsg for the frame on the screen, which has become `f`.
StreamItem(r, f, item) ==
    LET g == [f EXCEPT !.terminal = TRUE]
    IN  \/ /\ Terminal(item) /\ Withdrawn(f, item)
           /\ history' = Front(history) /\ requests' = Over(requests, r)
        \/ /\ Terminal(item) /\ ~Withdrawn(f, item)
           /\ history' = SetCurrent(IF f.refreshing THEN FinishFrame(g)
                                    ELSE Promote(FinishFrame(g)))
           /\ requests' = Over(requests, r)
        \/ /\ ~Terminal(item)
           /\ history' = SetCurrent(f) /\ UNCHANGED requests

StreamClosed(r) ==
    /\ history' = SetCurrent(FinishFrame(Current)) /\ requests' = Over(requests, r)

\* A message for another frame is dropped and its stream is not read again.
StreamDropped(r) ==
    /\ \/ requests' = Over(requests, r)
       \/ /\ ~requests[r].cancelled
          /\ requests' = [requests EXCEPT ![r].phase = "dropped"]
    /\ UNCHANGED history

IntentStream(r) ==
    /\ Message(r, "dispatch", "reading")
    /\ IF Awaited(r)
       THEN \/ StreamClosed(r)
            \/ \E item \in Updates : \E c \in ContextsNamed(requests[r], item) :
                  StreamItem(r, ApplyUpdate(Current, requests[r], item, c), item)
       ELSE StreamDropped(r)
    /\ UNCHANGED <<forwardHistory, config, running>>

\* finishContextRequest
Answered(f) == [f EXCEPT !.asks = None, !.awaits = None, !.loading = FALSE]

\* contextChoicesMsg: an error or an empty list leaves nothing to choose.
ContextChoices(r) ==
    /\ Message(r, "choices", "running")
    /\ requests' = Over(requests, r)
    /\ IF ~Awaited(r) THEN UNCHANGED history
       ELSE \/ history' = SetCurrent(Answered(Current))
            \/ \E p \in Profiles :
                  history' = SetCurrent([Answered(Current) EXCEPT
                     !.known = TRUE, !.choice = p, !.verified = None])
    /\ UNCHANGED <<forwardHistory, config, running>>

\* contextResolvedMsg
ContextResolved(r) ==
    /\ Message(r, "resolve", "running")
    /\ requests' = Over(requests, r)
    /\ IF ~Awaited(r) THEN UNCHANGED history
       ELSE \E c \in ContextsOf(requests[r].profile) \cup {None} :
               history' = SetCurrent([Answered(Current) EXCEPT !.verified = c])
    /\ UNCHANGED <<forwardHistory, config, running>>

\* The identity AWS answered is the one the snapshot row was observed under.
SameIdentity(resolved, hint) == resolved = hint

\* snapshotNavigationResolvedMsg
NavigationResolved(r) ==
    /\ Message(r, "navigate", "running")
    /\ \/ /\ Awaited(r)
          /\ \E c \in ContextsOf(requests[r].profile) :
                /\ SameIdentity(c, requests[r].hint)
                /\ PushAndDispatch(SetCurrent(FinishFrame(Current)), Over(requests, r),
                                   "singleton", c)
       \/ /\ requests' = Over(requests, r)
          /\ history' = IF Awaited(r) THEN SetCurrent(FinishFrame(Current)) ELSE history
          /\ UNCHANGED <<forwardHistory, config, running>>

-----------------------------------------------------------------------------
(* Keys that work on every screen, but while a snapshot row is verified *)

Free == running /\ (~Home => ~Current.navigating)

\* ctrl+c, q, the command `quit`, and esc at home: cancelAll, and the program
\* ends.
Quit ==
    /\ running /\ running' = FALSE
    /\ requests' = ReleasedAll /\ history' = <<>> /\ forwardHistory' = <<>>
    /\ UNCHANGED config

\* cancelAll and an empty stack: the command `home`, and an applied context.
GoHome(profile) ==
    /\ requests' = ReleasedAll
    /\ history' = <<>> /\ forwardHistory' = <<>> /\ config' = profile
    /\ UNCHANGED running

CommandHome == Free /\ GoHome(config)

\* A catalogue entry: Enter at home, or an alias on the command line.
OpenCatalog == Free /\ PushAndDispatch(Finished, ReleasedTop, "open", None)

OpenSearch ==
    /\ Free /\ PushFrame(Finished, NewFrame("search"))
    /\ requests' = ReleasedTop /\ UNCHANGED <<config, running>>

OpenContext ==
    /\ Free /\ Idle # {}
    /\ PushFrame(Finished, [NewFrame("context") EXCEPT
            !.awaits = NextRequest, !.asks = NextRequest, !.loading = TRUE])
    /\ requests' = Ask(ReleasedTop, [UnusedRequest EXCEPT !.call = "choices"])
    /\ UNCHANGED <<config, running>>

\* pop: esc, left, ctrl+o and the command `back`
Back ==
    /\ Free /\ ~Home
    /\ history' = Front(history) /\ requests' = ReleasedTop
    /\ forwardHistory' = IF Restorable(Current)
                         THEN Append(forwardHistory, FinishFrame(Current))
                         ELSE forwardHistory
    /\ UNCHANGED <<config, running>>

\* forward leaves the frame it covers as it is.
Forward ==
    /\ Free /\ forwardHistory # <<>> /\ Len(history) < MaxDepth
    /\ history' = Append(history, Last(forwardHistory))
    /\ forwardHistory' = Front(forwardHistory)
    /\ UNCHANGED <<requests, config, running>>

\* refreshCurrent: a collection or a search is asked for again; anything else
\* becomes a plain query of its target, a trace too, in the context it was
\* answered in.
RefreshKind(kind) == IF kind = "trace" THEN "open" ELSE kind
RefreshIntent(f) ==
    IF f.intent.kind \in {"search", "incoming"} THEN f.intent
    ELSE [kind |-> RefreshKind(f.intent.kind),
          profile |-> IF f.context # None THEN f.context.profile ELSE f.intent.profile]

Refresh ==
    /\ Free /\ ~Home /\ Current.mode = "list" /\ Idle # {}
    /\ history' = SetCurrent([FinishFrame(Current) EXCEPT
            !.awaits = NextRequest, !.asks = NextRequest,
            !.refreshing = TRUE, !.terminal = FALSE])
    /\ requests' = Ask(ReleasedTop, [UnusedRequest EXCEPT !.intent = RefreshIntent(Current)])
    /\ UNCHANGED <<forwardHistory, config, running>>
-----------------------------------------------------------------------------
(* Keys of a list, and of the overview and the parts of a resource *)

OnMode(mode) == Free /\ ~Home /\ Current.mode = mode

\* esc during a refresh leaves the cached rows on the screen.
CancelRefresh ==
    /\ OnMode("list") /\ Current.refreshing
    /\ history' = Finished /\ requests' = ReleasedTop
    /\ UNCHANGED <<forwardHistory, config, running>>

\* A row of a search or a trace was read in a context of its own.
RowContexts(f) ==
    CASE f.shown.of.kind = "search" -> Contexts
      [] f.shown.of.kind = "trace" -> {f.context} \cup ContextsOf(f.intent.profile)
      [] OTHER -> {f.context}

\* enterCurrent on a list: the overview of the row, or a read of the exact
\* resource (hydrateListResource).
EnterRow ==
    /\ OnMode("list") /\ Current.shown.rows # 0
    /\ \E c \in RowContexts(Current) :
          PushFrame(Finished, [NewFrame("detail") EXCEPT !.context = c])
    /\ requests' = ReleasedTop /\ UNCHANGED <<config, running>>

HydrateRow ==
    /\ OnMode("list") /\ Current.shown.rows # 0
    /\ \E c \in RowContexts(Current) :
          PushAndDispatch(Finished, ReleasedTop, "singleton", c)

\* A snapshot row names the profile and the identity it was observed under,
\* which verifySnapshotNavigation asks AWS for unless it is the list's.
EnterSnapshotRow(hint) ==
    /\ OnMode("list") /\ Current.shown.rows # 0
    /\ Current.intent.kind = "incoming" /\ Idle # {}
    /\ IF Current.context = hint
       THEN PushAndDispatch(Finished, ReleasedTop, "singleton", hint)
       ELSE /\ history' = SetCurrent([FinishFrame(Current) EXCEPT
                  !.awaits = NextRequest, !.asks = NextRequest, !.navigating = TRUE])
            /\ requests' = Ask(ReleasedTop, [UnusedRequest EXCEPT
                  !.call = "navigate", !.profile = hint.profile, !.hint = hint])
            /\ UNCHANGED <<forwardHistory, config, running>>

\* esc and left while the row is verified
CancelNavigation ==
    /\ running /\ ~Home /\ Current.navigating
    /\ history' = Finished /\ requests' = ReleasedTop
    /\ UNCHANGED <<forwardHistory, config, running>>

\* enterCurrent on the overview: what relates to it, or a part of it.
EnterDetail ==
    /\ OnMode("detail")
    /\ \/ PushAndDispatch(Finished, ReleasedTop, "incoming", Current.context)
       \/ \E kind \in {"open", "singleton", "trace"} :
             PushAndDispatch(Finished, ReleasedTop, kind, Current.context)

\* A part of the overview, or the evidence of one of the relations.
ReadDetail ==
    /\ OnMode("detail") \/ OnMode("part")
    /\ PushFrame(history, [NewFrame("part") EXCEPT !.context = Current.context])
    /\ UNCHANGED <<requests, config, running>>

\* On the relations: the related resource.
EnterPart ==
    /\ OnMode("part")
    /\ \E kind \in {"open", "singleton"} :
          PushAndDispatch(Finished, ReleasedTop, kind, Current.context)

\* enter on the search form, which is left for its results
SubmitSearch ==
    /\ OnMode("search")
    /\ PushAndDispatch(Front(history), requests, "search", None)

-----------------------------------------------------------------------------
(* Keys of the context screen *)

Loaded == OnMode("context") /\ ~Current.loading

\* Another profile or region, or letters of a query that picks one of the
\* profiles or none: what was verified is forgotten.
ChooseProfile ==
    /\ Loaded
    /\ \E query \in BOOLEAN, p \in Profiles \cup {None} :
          /\ p \in Profiles => Current.known
          /\ p = None => query \/ ~Current.known
          /\ history' = SetCurrent([Current EXCEPT
                !.query = query, !.choice = p, !.verified = None])
    /\ UNCHANGED <<forwardHistory, requests, config, running>>

\* esc with a query, also while an answer is awaited
ClearQuery ==
    /\ OnMode("context") /\ Current.query
    /\ \E p \in IF Current.known THEN Profiles ELSE {None} :
          history' = SetCurrent([Current EXCEPT
            !.query = FALSE, !.choice = p, !.verified = None])
    /\ UNCHANGED <<forwardHistory, requests, config, running>>

\* The identity on the screen is the chosen profile's.
ChoiceVerified(f) == f.verified # None /\ f.verified.profile = f.choice

VerifyChoice ==
    /\ Loaded /\ Current.choice # None /\ ~ChoiceVerified(Current) /\ Idle # {}
    /\ history' = SetCurrent([Current EXCEPT
            !.awaits = NextRequest, !.asks = NextRequest, !.loading = TRUE, !.verified = None])
    /\ requests' = Ask(requests, [UnusedRequest EXCEPT
            !.call = "resolve", !.profile = Current.choice])
    /\ UNCHANGED <<forwardHistory, config, running>>

ApplyChoice ==
    /\ Loaded /\ Current.choice # None /\ ChoiceVerified(Current)
    /\ GoHome(Current.verified.profile)

-----------------------------------------------------------------------------
(* Specification *)

Messages == \E r \in Requests :
    \/ IntentStarted(r) \/ IntentStream(r)
    \/ ContextChoices(r) \/ ContextResolved(r) \/ NavigationResolved(r)

\* Keys that open a screen or ask for something ...
Openings ==
    \/ OpenCatalog \/ OpenSearch \/ OpenContext \/ Refresh
    \/ EnterRow \/ HydrateRow \/ (\E hint \in Contexts : EnterSnapshotRow(hint))
    \/ EnterDetail \/ ReadDetail \/ EnterPart \/ SubmitSearch \/ VerifyChoice

\* ... and those that do not.
Moves ==
    \/ Quit \/ CommandHome \/ Back \/ Forward
    \/ CancelRefresh \/ CancelNavigation \/ ChooseProfile \/ ClearQuery \/ ApplyChoice

Next ==
    \/ (Messages \/ Moves) /\ UNCHANGED opened
    \/ opened < MaxOpened /\ Openings /\ opened' = opened + 1

Spec == Init /\ [][Next]_vars

-----------------------------------------------------------------------------
(* Properties *)

Holders(r) == {i \in DOMAIN history : history[i].asks = r}

\* Whatever runs has not been cancelled only while a frame of the stack can
\* still cancel it: no way of leaving a screen (back, home, another screen, a
\* failed link, quitting) forgets a request or a stream.
NoRequestLeaks ==
    \A r \in Requests :
        requests[r].phase # "unused" /\ ~requests[r].cancelled => Holders(r) # {}

\* A screen that was left asks nothing: one below the top holds a request only
\* when forward covers its refresh or its verification, and a screen to go
\* forward to never does.
LeftScreensAskNothing ==
    /\ \A i \in 1..(Len(history) - 1) :
          history[i].asks # None => history[i].refreshing \/ history[i].loading
    /\ \A f \in ToSet(forwardHistory) : f.asks = None /\ f.awaits = None

\* The rows of a list came from its own question, asked as its own profile,
\* whatever older or other requests deliver in between.  The exception is in the
\* code: a refresh of a trace asks a plain query of its target (model.go:1240).
ShownAnswersItsQuestion ==
    \A f \in ToSet(history) \cup ToSet(forwardHistory) :
        f.shown.of # None =>
            /\ f.shown.of.kind \in {f.intent.kind, RefreshKind(f.intent.kind)}
            /\ f.intent.profile # None => f.shown.of.profile = f.intent.profile

\* The rows of a query are shown, refreshed and opened in the identity they were
\* read in: whoever the profile belongs to since, the screen never names one
\* account over another's rows, during a refresh and after it failed neither.
ShownInItsContext ==
    \A f \in ToSet(history) \cup ToSet(forwardHistory) :
        f.shown.of # None /\ Plain(f.shown.of) =>
            f.shown.context # None /\ f.context = f.shown.context

\* No refresh, cancelled, failed or late, takes the rows of a complete list:
\* they are only replaced by another complete answer.
CompleteStaysComplete ==
    [][\A i \in DOMAIN history \cap DOMAIN history' :
          history[i].shown.whole /\ history'[i].mode = "list" => history'[i].shown.whole]_vars

\* The screen waits, and what it waits for will not come.
Waits(f) == f.asks # None \/ f.loading \/ f.refreshing \/ f.navigating
Stranded ==
    /\ ~Home /\ Waits(Current)
    /\ Current.asks # None => requests[Current.asks].phase \notin {"running", "reading"}

\* A screen that waits has its answer under way, until it is left: the one way to
\* be stranded is to come back to a screen that was covered while it loaded (the
\* context screen) or refreshed (forward).  No message does it.
StrandedOnlyByReturning == [][Stranded' => Stranded \/ Len(history') < Len(history)]_vars

\* A screen that is left lets go of what it asked for (model.go:1880).
LeftScreensLetGo == NoRequestLeaks /\ LeftScreensAskNothing

\* A screen shows the answer to its own question in the identity it was read in, one it
\* waits for is still coming unless the screen was left meanwhile, and a complete answer
\* gives way only to another (model.go:204-330).
ScreensShowTheirAnswer ==
    /\ [](ShownAnswersItsQuestion /\ ShownInItsContext)
    /\ CompleteStaysComplete /\ StrandedOnlyByReturning
=============================================================================
