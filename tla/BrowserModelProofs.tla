------------------------- MODULE BrowserModelProofs -------------------------
(***************************************************************************)
(* What the message loop of bb aws browse promises, for any profiles and   *)
(* accounts, any number of requests under way, and stacks and lists of any *)
(* size.                                                                   *)
(*                                                                         *)
(* Every screen change is a frame put on a settled stack: one in which no  *)
(* screen waits for anything but a refresh or an answer that is shown as   *)
(* loading.  The invariant says of the stack that all but its top is       *)
(* settled, and of its top that what it waits for is still under way.      *)
(***************************************************************************)
EXTENDS BrowserModel, WellFoundedInduction, TLAPS

-----------------------------------------------------------------------------
(* The inductive invariant *)

\* A frame by itself: which frames ask, and what a list has to do with its intent.
FrameOK(f) ==
    /\ f \in Frame /\ f.awaits = f.asks
    /\ f.asks # None => f.mode = "list" \/ (f.mode = "context" /\ f.loading)
    /\ f.mode = "list" =>
          /\ f.intent \in Intents
          /\ f.intent.profile # None /\ f.context # None => f.context.profile = f.intent.profile
          /\ f.asks # None => f.refreshing \/ f.navigating \/ ~f.shown.whole
    /\ f.loading => f.mode = "context"
    /\ f.refreshing \/ f.navigating => f.mode = "list" /\ f.asks # None
    /\ f.mode # "list" => f.shown = Nothing
    /\ f.shown.of # None =>
          /\ f.shown.of.kind \in {f.intent.kind, RefreshKind(f.intent.kind)}
          /\ f.intent.profile # None => f.shown.of.profile = f.intent.profile
          /\ Plain(f.shown.of) => f.shown.context # None /\ f.context = f.shown.context

\* A question is the intent's own or its refresh, put as its profile if it has one.
Asks(intent, question) ==
    /\ question.kind \in {intent.kind, RefreshKind(intent.kind)}
    /\ intent.profile # None => question.profile = intent.profile

\* The request a frame holds is of the frame's own kind, unless it is over, its stream
\* reads in one context, and what the frame shows while it first loads is of that stream.
LinkOK(f, rs) ==
    f.asks # None /\ rs[f.asks].phase # "unused" =>
        /\ f.mode = "context" => rs[f.asks].call \in {"choices", "resolve"}
        /\ f.mode = "list" /\ f.navigating => rs[f.asks].call = "navigate"
        /\ f.mode = "list" /\ ~f.navigating =>
              /\ rs[f.asks].call = "dispatch" /\ Asks(f.intent, rs[f.asks].intent)
              /\ rs[f.asks].phase = "reading" /\ Plain(rs[f.asks].intent) =>
                    rs[f.asks].context \in ContextsOf(rs[f.asks].intent.profile)
              /\ ~f.refreshing /\ f.shown.of # None =>
                    /\ rs[f.asks].phase # "running" /\ f.shown.of = rs[f.asks].intent
                    /\ f.shown.context = rs[f.asks].context

\* A frame that may lie below another one.
Covered(f) == f.asks # None => f.refreshing \/ f.loading

Held(h, rs) ==
    \A r \in Requests :
        rs[r].phase # "unused" /\ ~rs[r].cancelled => \E i \in DOMAIN h : h[i].asks = r

Stack(h, rs) ==
    /\ rs \in [Requests -> Request] /\ h \in Seq(Frame) /\ Len(h) <= MaxDepth
    /\ \A i \in 1..Len(h) : FrameOK(h[i]) /\ LinkOK(h[i], rs)
    /\ \A i \in 1..Len(h) - 1 : Covered(h[i])
    /\ Held(h, rs)

Settled(h, rs) == Stack(h, rs) /\ \A i \in 1..Len(h) : Covered(h[i])

\* What the top waits for is under way, and no screen to go forward to would cover it.
Live(f, forward, rs) ==
    Covered(f) \/ (rs[f.asks].phase \in {"running", "reading"} /\ (f.navigating \/ forward = <<>>))

Behind(h, forward) ==
    /\ forward \in Seq(Frame) /\ Len(h) + Len(forward) <= MaxDepth
    /\ \A i \in 1..Len(forward) : FrameOK(forward[i]) /\ forward[i].asks = None /\ ~forward[i].loading

Screens ==
    /\ Stack(history, requests) /\ (~Home => Live(Current, forwardHistory, requests))
    /\ Behind(history, forwardHistory)
    /\ config \in Profiles \cup {None} /\ running \in BOOLEAN

IInv == Screens /\ opened \in 0..MaxOpened

\* What a step may not take away: the complete rows of a list.
WholeKept(h, h2) ==
    \A i \in DOMAIN h \cap DOMAIN h2 : h[i].shown.whole /\ h2[i].mode = "list" => h2[i].shown.whole

\* What every step keeps: those rows, and the answer of the screen that waits.
Kept == WholeKept(history, history') /\ (Stranded' => Stranded \/ Len(history') < Len(history))

-----------------------------------------------------------------------------
(* Stacks and frames *)

LEMMA LeastNumber == ASSUME NEW S \in SUBSET Nat, S # {} PROVE \E x \in S : \A y \in S : x <= y
<1>1. PICK x \in S : \A y \in S : ~(<<y, x>> \in OpToRel(<, Nat))
  BY NatLessThanWellFounded, WFMin
<1>2. \A y \in S : ~(y < x)
  BY <1>1 DEF OpToRel
<1> QED BY <1>2
(* The top of a stack, and what a stack is with another one. *)
LEMMA Top ==
  ASSUME NEW S, NEW h \in Seq(S), h # <<>>
  PROVE  /\ Front(h) \in Seq(S) /\ Len(h) \in Nat /\ Len(h) >= 1
         /\ Len(Front(h)) = Len(h) - 1
         /\ \A i \in 1..Len(h) - 1 : Front(h)[i] = h[i]
         /\ Last(h) = h[Len(h)] /\ Last(h) \in S
<1>1. Len(h) \in Nat /\ Len(h) >= 1
  OBVIOUS
<1>2. Front(h) \in Seq(S) /\ Len(Front(h)) = Len(h) - 1
  <2>1. Len(h) - 1 \in Nat /\ \A i \in 1..Len(h) - 1 : h[i] \in S
    BY <1>1
  <2>2. Front(h) = [i \in 1..Len(h) - 1 |-> h[i]]
    BY <1>1 DEF Front
  <2>3. [i \in 1..Len(h) - 1 |-> h[i]] \in Seq(S)
    BY <2>1
  <2>4. Len([i \in 1..Len(h) - 1 |-> h[i]]) = Len(h) - 1
    BY <2>1
  <2> QED BY <2>2, <2>3, <2>4
<1>3. \A i \in 1..Len(h) - 1 : Front(h)[i] = h[i]
  BY <1>1 DEF Front
<1>4. Last(h) = h[Len(h)] /\ Last(h) \in S
  BY <1>1 DEF Last
<1> QED BY <1>1, <1>2, <1>3, <1>4

LEMMA Topped ==
  ASSUME NEW S, NEW h \in Seq(S), h # <<>>, NEW f \in S
  PROVE  [h EXCEPT ![Len(h)] = f] = Append(Front(h), f)
<1>1. Front(h) \in Seq(S) /\ Len(h) \in Nat /\ Len(h) >= 1 /\ Len(Front(h)) = Len(h) - 1
      /\ \A i \in 1..Len(h) - 1 : Front(h)[i] = h[i]
  BY Top
<1> DEFINE x == [h EXCEPT ![Len(h)] = f]
           y == Append(Front(h), f)
<1>2. x \in Seq(S) /\ Len(x) = Len(h) /\ \A i \in 1..Len(h) : x[i] = IF i = Len(h) THEN f ELSE h[i]
  OBVIOUS
<1>3. y \in Seq(S) /\ Len(y) = Len(h) /\ \A i \in 1..Len(h) : y[i] = IF i = Len(h) THEN f ELSE h[i]
  BY <1>1
<1> HIDE DEF x, y
<1>4. x = y
  BY <1>2, <1>3
<1> QED BY <1>4 DEF x, y

LEMMA Pushed ==
  ASSUME NEW S, NEW h \in Seq(S), NEW f \in S
  PROVE  /\ Append(h, f) \in Seq(S) /\ Len(Append(h, f)) = Len(h) + 1 /\ Len(h) \in Nat
         /\ \A i \in 1..Len(h) : Append(h, f)[i] = h[i]
         /\ Append(h, f)[Len(h) + 1] = f /\ Last(Append(h, f)) = f /\ Append(h, f) # <<>>
         /\ DOMAIN h = 1..Len(h) /\ DOMAIN Append(h, f) = 1..Len(h) + 1
  BY DEF Last

LEMMA Mirrors == Nothing \in Projections /\ None \notin Requests /\ None \in Contexts \cup {None}
<1>1. Nothing \in Projections
  BY BrowserAssumption DEF Nothing, Projections
<1> QED BY <1>1, BrowserAssumption DEF Requests

LEMMA Unasking == ASSUME NEW f, f.asks = None PROVE Covered(f) /\ \A rs : LinkOK(f, rs)
  BY DEF Covered, LinkOK

(* A frame that is finished asks nothing, and shows what it showed. *)
LEMMA FinishIs ==
  ASSUME NEW f, f \in Frame
  PROVE  LET g == FinishFrame(f)
         IN  /\ g \in Frame /\ g.asks = None /\ g.awaits = None /\ g.mode = f.mode /\ g.shown = f.shown
             /\ g.intent = f.intent /\ g.context = f.context /\ g.loading = f.loading
             /\ g.refreshing = FALSE /\ g.navigating = FALSE
<1> DEFINE g == FinishFrame(f)
<1>1. g \in Frame
  BY DEF Frame, FinishFrame
<1>2. /\ g.asks = None /\ g.awaits = None /\ g.mode = f.mode /\ g.shown = f.shown /\ g.intent = f.intent
      /\ g.context = f.context /\ g.loading = f.loading /\ g.refreshing = FALSE /\ g.navigating = FALSE
  BY DEF Frame, FinishFrame
<1> QED BY <1>1, <1>2

LEMMA FinishOK ==
  ASSUME NEW f, FrameOK(f)
  PROVE  LET g == FinishFrame(f)
         IN  /\ FrameOK(g) /\ g \in Frame /\ g.asks = None
             /\ g.mode = f.mode /\ g.shown = f.shown /\ g.intent = f.intent /\ g.context = f.context
             /\ g.refreshing = FALSE /\ g.navigating = FALSE
             /\ f.mode # "context" => ~Waits(g) /\ ~g.loading
<1> DEFINE g == FinishFrame(f)
<1>1. f \in Frame
  BY DEF FrameOK
<1>2. /\ g \in Frame /\ g.asks = None /\ g.awaits = None /\ g.mode = f.mode /\ g.shown = f.shown
      /\ g.intent = f.intent /\ g.context = f.context /\ g.loading = f.loading
      /\ g.refreshing = FALSE /\ g.navigating = FALSE
  BY <1>1, FinishIs
<1> HIDE DEF g
<1>3. FrameOK(g)
  BY <1>2 DEF FrameOK
<1>4. f.mode # "context" => ~Waits(g) /\ ~g.loading
  BY <1>2 DEF FrameOK, Waits
<1> QED BY <1>2, <1>3, <1>4 DEF g

LEMMA AnsweredOK ==
  ASSUME NEW f, FrameOK(f), f.mode = "context"
  PROVE  LET g == Answered(f)
         IN  /\ FrameOK(g) /\ g \in Frame /\ g.asks = None /\ g.awaits = None /\ g.mode = "context"
             /\ g.shown = Nothing /\ ~Waits(g) /\ ~g.refreshing /\ ~g.navigating /\ ~g.loading
<1> DEFINE g == Answered(f)
<1>1. f \in Frame /\ f.shown = Nothing /\ ~f.refreshing /\ ~f.navigating
  BY DEF FrameOK
<1>2. g \in Frame
  BY <1>1 DEF Frame, Answered
<1>3. /\ g.asks = None /\ g.awaits = None /\ g.mode = "context" /\ g.shown = Nothing
      /\ ~g.refreshing /\ ~g.navigating /\ ~g.loading
  BY <1>1 DEF Frame, Answered
<1> HIDE DEF g
<1>4. FrameOK(g) /\ ~Waits(g)
  BY <1>2, <1>3 DEF FrameOK, Nothing, Waits
<1> QED BY <1>2, <1>3, <1>4 DEF g

(* A new screen but a list, with the context of what it was opened from. *)
LEMMA ScreenOK ==
  ASSUME NEW mode \in {"detail", "part", "search", "context"}, NEW c \in Contexts \cup {None}
  PROVE  LET g == [NewFrame(mode) EXCEPT !.context = c]
         IN  FrameOK(g) /\ g \in Frame /\ g.asks = None /\ g.mode = mode /\ ~Waits(g)
<1> DEFINE g == [NewFrame(mode) EXCEPT !.context = c]
<1>1. NewFrame(mode) \in Frame
  BY Mirrors DEF NewFrame, Frame
<1>2. g \in Frame
  BY <1>1 DEF Frame
<1>3. /\ g.asks = None /\ g.awaits = None /\ g.mode = mode /\ g.shown = Nothing
      /\ g.loading = FALSE /\ g.refreshing = FALSE /\ g.navigating = FALSE
  BY DEF NewFrame
<1> HIDE DEF g
<1>4. FrameOK(g) /\ ~Waits(g)
  BY <1>2, <1>3 DEF FrameOK, Nothing, Waits
<1> QED BY <1>2, <1>3, <1>4 DEF g

(* A new list, which asks its question in the context it inherits. *)
LEMMA ListOK ==
  ASSUME NEW r \in Requests, NEW intent \in Intents, NEW inherited \in Contexts \cup {None},
         inherited # None => intent.profile = inherited.profile,
         NEW g, g = [NewFrame("list") EXCEPT !.intent = intent, !.context = inherited,
                         !.awaits = r, !.asks = r]
  PROVE  /\ FrameOK(g) /\ g \in Frame /\ g.asks = r /\ g.mode = "list" /\ g.intent = intent
         /\ ~g.navigating /\ g.shown = Nothing
<1>1. NewFrame("list") \in Frame
  BY Mirrors DEF NewFrame, Frame
<1>2. g \in Frame
  BY <1>1 DEF Frame
<1>3. /\ g.asks = r /\ g.awaits = r /\ g.mode = "list" /\ g.shown = Nothing /\ g.intent = intent
      /\ g.context = inherited /\ g.navigating = FALSE /\ g.refreshing = FALSE /\ g.loading = FALSE
  BY DEF NewFrame
<1>4. FrameOK(g)
  BY <1>2, <1>3 DEF FrameOK, Nothing
<1> QED BY <1>2, <1>3, <1>4

(* The context screen, which asks for the profiles. *)
LEMMA ContextOK ==
  ASSUME NEW r \in Requests
  PROVE  LET g == [NewFrame("context") EXCEPT !.awaits = r, !.asks = r, !.loading = TRUE]
         IN  FrameOK(g) /\ g \in Frame /\ g.asks = r /\ g.mode = "context" /\ g.loading
<1> DEFINE g == [NewFrame("context") EXCEPT !.awaits = r, !.asks = r, !.loading = TRUE]
<1>1. NewFrame("context") \in Frame
  BY Mirrors DEF NewFrame, Frame
<1>2. g \in Frame
  BY <1>1 DEF Frame
<1>3. g.asks = r /\ g.awaits = r /\ g.mode = "context" /\ g.shown = Nothing /\ g.loading = TRUE
      /\ g.refreshing = FALSE /\ g.navigating = FALSE
  BY DEF NewFrame
<1> HIDE DEF g
<1>4. FrameOK(g)
  BY <1>2, <1>3 DEF FrameOK, Nothing
<1> QED BY <1>2, <1>3, <1>4 DEF g

-----------------------------------------------------------------------------
(* What the changes of the stack keep *)

\* Requests that end, are cancelled or go on, but do not begin.
Tame(rs, rs2) ==
    \A r \in Requests :
        rs2[r].phase = "unused"
            \/ /\ rs[r].phase # "unused" /\ rs2[r].call = rs[r].call /\ rs2[r].intent = rs[r].intent
               /\ \/ rs2[r].phase \in {rs[r].phase, "dropped"} /\ rs2[r].context = rs[r].context
                  \/ /\ rs[r].phase = "running" /\ rs2[r].phase = "reading"
                     /\ rs2[r].context \in StreamContexts(rs[r].intent)

LEMMA LinkKept ==
  ASSUME NEW f, FrameOK(f), NEW rs, NEW rs2, LinkOK(f, rs), Tame(rs, rs2)
  PROVE  LinkOK(f, rs2)
<1>1. f.asks # None => f.asks \in Requests
  BY DEF FrameOK, Frame
<1>2. f.asks # None => rs2[f.asks].phase = "unused" \/ rs[f.asks].phase # "unused"
  BY <1>1 DEF Tame
<1> QED BY <1>1, <1>2 DEF LinkOK, Tame, StreamContexts

LEMMA CurrentIs ==
  ASSUME Screens, ~Home
  PROVE  /\ history \in Seq(Frame) /\ history # <<>> /\ Current = history[Len(history)]
         /\ Len(history) \in 1..MaxDepth /\ Current \in Frame /\ FrameOK(Current)
         /\ LinkOK(Current, requests) /\ Live(Current, forwardHistory, requests)
         /\ Current.asks # None => Current.asks \in Requests
<1>1. history \in Seq(Frame) /\ history # <<>> /\ Len(history) <= MaxDepth
  BY DEF Screens, Stack, Home
<1>2. Current = history[Len(history)] /\ Current \in Frame /\ Len(history) \in 1..MaxDepth
  BY <1>1, Top, BrowserAssumption DEF Current
<1>3. FrameOK(Current) /\ LinkOK(Current, requests) /\ Live(Current, forwardHistory, requests)
  BY <1>1, <1>2 DEF Screens, Stack
<1> QED BY <1>1, <1>2, <1>3 DEF Frame

(* What is below the top is settled, once the top's request is over or cancelled. *)
LEMMA BelowTop ==
  ASSUME Screens, ~Home, NEW rs \in [Requests -> Request], Tame(requests, rs),
         \A r \in Requests : r # Current.asks => rs[r] = requests[r],
         Current.asks # None => rs[Current.asks].phase = "unused" \/ rs[Current.asks].cancelled
  PROVE  Settled(Front(history), rs)
<1>0. /\ history \in Seq(Frame) /\ history # <<>> /\ Len(history) \in 1..MaxDepth
      /\ Current = history[Len(history)] /\ MaxDepth \in Nat /\ Len(history) \in Nat
  BY CurrentIs, BrowserAssumption
<1> DEFINE h == Front(history)
<1>1. /\ h \in Seq(Frame) /\ Len(h) = Len(history) - 1 /\ Len(h) <= MaxDepth
      /\ \A i \in 1..Len(h) : h[i] = history[i] /\ i \in 1..Len(history) /\ i \in 1..Len(history) - 1
      /\ DOMAIN h = 1..Len(h) /\ DOMAIN history = 1..Len(history)
  BY <1>0, Top
<1> HIDE DEF h
<1>2. \A i \in 1..Len(h) : FrameOK(h[i]) /\ LinkOK(h[i], rs) /\ Covered(h[i])
  BY <1>1, LinkKept DEF Screens, Stack
<1>3. Held(h, rs)
  <2> SUFFICES ASSUME NEW r \in Requests, rs[r].phase # "unused", ~rs[r].cancelled
               PROVE  \E i \in DOMAIN h : h[i].asks = r
    BY DEF Held
  <2>1. r # Current.asks
    BY Mirrors
  <2>2. PICK i \in DOMAIN history : history[i].asks = r
    BY <2>1 DEF Screens, Stack, Held
  <2>3. i \in DOMAIN h
    BY <1>0, <1>1, <2>1, <2>2
  <2> QED BY <1>1, <2>2, <2>3
<1>4. \A i \in 1..Len(h) - 1 : i \in 1..Len(h)
  BY <1>1
<1> QED BY <1>1, <1>2, <1>3, <1>4 DEF Settled, Stack, h

LEMMA ReleaseIs ==
  ASSUME NEW rs \in [Requests -> Request], NEW r \in Requests
  PROVE  /\ UnusedRequest \in Request /\ Released(rs[r]) \in Request
         /\ \/ Released(rs[r]).phase = "unused"
            \/ /\ Released(rs[r]).phase = rs[r].phase /\ Released(rs[r]).call = rs[r].call
               /\ Released(rs[r]).intent = rs[r].intent /\ Released(rs[r]).cancelled
               /\ Released(rs[r]).context = rs[r].context
<1>1. rs[r] \in Request
  OBVIOUS
<1>2. UnusedRequest \in Request /\ UnusedRequest.phase = "unused"
  BY DEF UnusedRequest, Request
<1>3. CASE rs[r].phase = "dropped"
  BY <1>2, <1>3 DEF Released
<1>4. CASE rs[r].phase # "dropped"
  <2>1. Released(rs[r]) = [rs[r] EXCEPT !.cancelled = TRUE]
    BY <1>4 DEF Released
  <2>2. [rs[r] EXCEPT !.cancelled = TRUE] \in Request
    BY <1>1 DEF Request
  <2>3. /\ [rs[r] EXCEPT !.cancelled = TRUE].phase = rs[r].phase
        /\ [rs[r] EXCEPT !.cancelled = TRUE].call = rs[r].call
        /\ [rs[r] EXCEPT !.cancelled = TRUE].intent = rs[r].intent
        /\ [rs[r] EXCEPT !.cancelled = TRUE].context = rs[r].context
        /\ [rs[r] EXCEPT !.cancelled = TRUE].cancelled = TRUE
    BY <1>1 DEF Request
  <2> QED BY <1>2, <2>1, <2>2, <2>3
<1> QED BY <1>3, <1>4

(* The three ways in which the top lets go of what it asks. *)
LEMMA TopReleased == ASSUME Screens, ~Home PROVE Settled(Front(history), ReleasedTop)
<1>1. /\ requests \in [Requests -> Request]
      /\ Current.asks # None => Current.asks \in Requests
  BY CurrentIs DEF Screens, Stack
<1>2. CASE Current.asks = None
  <2>1. ReleasedTop = requests
    BY <1>2 DEF ReleasedTop, Release
  <2>2. Tame(requests, requests)
    BY DEF Tame
  <2> QED BY <1>1, <1>2, <2>1, <2>2, BelowTop
<1>3. CASE Current.asks # None
  <2> DEFINE r == Current.asks
             rs == [requests EXCEPT ![r] = Released(requests[r])]
  <2>1. ReleasedTop = rs /\ r \in Requests
    BY <1>1, <1>3 DEF ReleasedTop, Release
  <2>2. Released(requests[r]) \in Request
    BY <1>1, <2>1, ReleaseIs
  <2>3. rs \in [Requests -> Request] /\ rs[r] = Released(requests[r])
        /\ \A s \in Requests : s # r => rs[s] = requests[s]
    BY <1>1, <2>1, <2>2
  <2>4. \/ rs[r].phase = "unused"
        \/ /\ rs[r].phase = requests[r].phase /\ rs[r].call = requests[r].call
           /\ rs[r].intent = requests[r].intent /\ rs[r].cancelled /\ rs[r].context = requests[r].context
    BY <1>1, <2>1, <2>3, ReleaseIs
  <2> HIDE DEF rs
  <2>5. Tame(requests, rs)
    <3> SUFFICES ASSUME NEW s \in Requests, rs[s].phase # "unused"
                 PROVE  /\ requests[s].phase # "unused" /\ rs[s].call = requests[s].call
                        /\ rs[s].intent = requests[s].intent /\ rs[s].phase = requests[s].phase
                        /\ rs[s].context = requests[s].context
      BY DEF Tame
    <3>1. CASE s = r
      BY <2>4, <3>1
    <3>2. CASE s # r
      BY <2>3, <3>2
    <3> QED BY <3>1, <3>2
  <2> QED BY <2>1, <2>3, <2>4, <2>5, BelowTop
<1> QED BY <1>2, <1>3

LEMMA OverIs ==
  ASSUME NEW rs \in [Requests -> Request], NEW r \in Requests
  PROVE  /\ Over(rs, r) \in [Requests -> Request] /\ Over(rs, r)[r].phase = "unused"
         /\ \A s \in Requests : s # r => Over(rs, r)[s] = rs[s]
         /\ Tame(rs, Over(rs, r))
<1>1. UnusedRequest \in Request /\ UnusedRequest.phase = "unused"
  BY DEF UnusedRequest, Request
<1>2. /\ Over(rs, r) \in [Requests -> Request] /\ Over(rs, r)[r].phase = "unused"
      /\ \A s \in Requests : s # r => Over(rs, r)[s] = rs[s]
  BY <1>1 DEF Over
<1> QED BY <1>2 DEF Tame

LEMMA TopOver ==
  ASSUME Screens, ~Home, NEW r \in Requests, Awaited(r)
  PROVE  Settled(Front(history), Over(requests, r)) /\ Current.asks = r
<1>1. Current.asks = r
  BY CurrentIs DEF Awaited, FrameOK
<1>2. requests \in [Requests -> Request]
  BY DEF Screens, Stack
<1> QED BY <1>1, <1>2, OverIs, BelowTop

LEMMA TopQuiet ==
  ASSUME Screens, ~Home, Current.asks = None PROVE Settled(Front(history), requests)
<1>1. requests \in [Requests -> Request] /\ Tame(requests, requests)
  BY DEF Screens, Stack, Tame
<1> QED BY <1>1, BelowTop

(* A frame on a settled stack, which asks nothing that could be left behind. *)
LEMMA PushSettled ==
  ASSUME NEW h, NEW rs, Settled(h, rs), NEW g \in Frame, FrameOK(g), Covered(g), LinkOK(g, rs),
         Len(h) < MaxDepth
  PROVE  Settled(Append(h, g), rs)
<1> DEFINE k == Append(h, g)
<1>1. /\ h \in Seq(Frame) /\ rs \in [Requests -> Request] /\ Held(h, rs)
      /\ \A i \in 1..Len(h) : FrameOK(h[i]) /\ LinkOK(h[i], rs) /\ Covered(h[i])
  BY DEF Settled, Stack
<1>2. /\ k \in Seq(Frame) /\ Len(k) = Len(h) + 1 /\ Len(h) \in Nat /\ k[Len(h) + 1] = g
      /\ \A i \in 1..Len(h) : k[i] = h[i]
      /\ DOMAIN h = 1..Len(h) /\ DOMAIN k = 1..Len(h) + 1
  BY <1>1, Pushed
<1> HIDE DEF k
<1>3. \A i \in 1..Len(k) : FrameOK(k[i]) /\ LinkOK(k[i], rs) /\ Covered(k[i])
  <2> SUFFICES ASSUME NEW i \in 1..Len(k) PROVE FrameOK(k[i]) /\ LinkOK(k[i], rs) /\ Covered(k[i])
    OBVIOUS
  <2>1. CASE i = Len(h) + 1
    BY <1>2, <2>1
  <2>2. CASE i \in 1..Len(h)
    BY <1>1, <1>2, <2>2
  <2> QED BY <1>2, <2>1, <2>2
<1>4. Held(k, rs)
  <2> SUFFICES ASSUME NEW r \in Requests, rs[r].phase # "unused", ~rs[r].cancelled
               PROVE  \E i \in DOMAIN k : k[i].asks = r
    BY DEF Held
  <2>1. PICK i \in DOMAIN h : h[i].asks = r
    BY <1>1 DEF Held
  <2>2. i \in DOMAIN k /\ k[i] = h[i]
    BY <1>2
  <2> QED BY <2>1, <2>2
<1>5. Len(k) <= MaxDepth
  BY <1>2, BrowserAssumption
<1>6. \A i \in 1..Len(k) - 1 : i \in 1..Len(k)
  BY <1>2
<1> QED BY <1>1, <1>2, <1>3, <1>4, <1>5, <1>6 DEF Settled, Stack, k

(* A frame that asks, on a settled stack: its request is under way. *)
LEMMA PushAsking ==
  ASSUME NEW h, NEW rs, Settled(h, rs), Len(h) < MaxDepth, NextRequest \in Requests,
         \A i \in 1..Len(h) : h[i].asks # NextRequest,
         NEW req \in Request, NEW g \in Frame, FrameOK(g), g.asks = NextRequest,
         LinkOK(g, Ask(rs, req)),
         NEW forward, Covered(g) \/ g.navigating \/ forward = <<>>
  PROVE  Stack(Append(h, g), Ask(rs, req)) /\ Live(Last(Append(h, g)), forward, Ask(rs, req))
<1> DEFINE k == Append(h, g)
           n == NextRequest
           rs2 == Ask(rs, req)
<1>1. /\ h \in Seq(Frame) /\ rs \in [Requests -> Request] /\ Held(h, rs)
      /\ \A i \in 1..Len(h) : FrameOK(h[i]) /\ LinkOK(h[i], rs) /\ Covered(h[i])
  BY DEF Settled, Stack
<1>2. /\ k \in Seq(Frame) /\ Len(k) = Len(h) + 1 /\ Len(h) \in Nat /\ k[Len(h) + 1] = g
      /\ \A i \in 1..Len(h) : k[i] = h[i]
      /\ DOMAIN h = 1..Len(h) /\ DOMAIN k = 1..Len(h) + 1 /\ Last(k) = g
  BY <1>1, Pushed
<1>3. [req EXCEPT !.phase = "running"] \in Request /\ [req EXCEPT !.phase = "running"].phase = "running"
  BY DEF Request
<1>4. /\ rs2 \in [Requests -> Request] /\ rs2[n].phase = "running"
      /\ \A r \in Requests : r # n => rs2[r] = rs[r]
  BY <1>1, <1>3 DEF Ask
<1>5. g.asks = n /\ LinkOK(g, rs2)
  OBVIOUS
<1> HIDE DEF k, rs2, n
<1>6. ASSUME NEW i \in 1..Len(h) PROVE FrameOK(h[i]) /\ LinkOK(h[i], rs2) /\ Covered(h[i])
  <2>1. h[i].asks # n /\ FrameOK(h[i]) /\ LinkOK(h[i], rs) /\ Covered(h[i])
    BY <1>1 DEF n
  <2>2. h[i].asks # None => rs2[h[i].asks] = rs[h[i].asks]
    BY <1>4, <2>1 DEF FrameOK, Frame
  <2> QED BY <2>1, <2>2 DEF LinkOK
<1>7. \A i \in 1..Len(k) : FrameOK(k[i]) /\ LinkOK(k[i], rs2)
  <2> SUFFICES ASSUME NEW i \in 1..Len(k) PROVE FrameOK(k[i]) /\ LinkOK(k[i], rs2)
    OBVIOUS
  <2>1. CASE i = Len(h) + 1
    BY <1>2, <1>5, <2>1
  <2>2. CASE i \in 1..Len(h)
    BY <1>2, <1>6, <2>2
  <2> QED BY <1>2, <2>1, <2>2
<1>8. \A i \in 1..Len(k) - 1 : Covered(k[i])
  BY <1>2, <1>6
<1>9. Held(k, rs2)
  <2> SUFFICES ASSUME NEW r \in Requests, rs2[r].phase # "unused", ~rs2[r].cancelled
               PROVE  \E i \in DOMAIN k : k[i].asks = r
    BY DEF Held
  <2>1. CASE r = n
    <3>1. Len(h) + 1 \in DOMAIN k
      BY <1>2
    <3> QED BY <1>2, <1>5, <2>1, <3>1
  <2>2. CASE r # n
    <3>1. PICK i \in DOMAIN h : h[i].asks = r
      BY <1>1, <1>4, <2>2 DEF Held
    <3>2. i \in DOMAIN k /\ k[i] = h[i]
      BY <1>2
    <3> QED BY <3>1, <3>2
  <2> QED BY <2>1, <2>2
<1>10. Len(k) <= MaxDepth
  BY <1>2, BrowserAssumption
<1>11. Live(Last(k), forward, rs2)
  BY <1>2, <1>4, <1>5 DEF Live
<1> QED BY <1>2, <1>4, <1>7, <1>8, <1>9, <1>10, <1>11 DEF Stack, k, rs2

(* The next request is nobody's. *)
LEMMA NextIs ==
  ASSUME Screens, Idle # {}
  PROVE  NextRequest \in Requests /\ \A i \in 1..Len(history) : history[i].asks # NextRequest
<1>1. Idle \in SUBSET Nat
  BY BrowserAssumption DEF Idle, Requests
<1>2. \E r \in Idle : \A s \in Idle : r <= s
  BY <1>1, LeastNumber
<1>3. NextRequest \in Idle
  BY <1>2 DEF NextRequest
<1>4. DOMAIN history = 1..Len(history)
  BY DEF Screens, Stack
<1> QED BY <1>3, <1>4 DEF Idle, ToSet

(* The top, finished and let go of, on what is below it. *)
LEMMA FinishedIs ==
  ASSUME Screens, ~Home
  PROVE  Finished = Append(Front(history), FinishFrame(Current))
<1>1. history \in Seq(Frame) /\ history # <<>> /\ FrameOK(Current)
  BY CurrentIs
<1>2. FinishFrame(Current) \in Frame
  BY <1>1, FinishOK
<1> QED BY <1>1, <1>2, Topped DEF Finished, SetCurrent, Home

LEMMA FrontIs ==
  ASSUME Screens, ~Home
  PROVE  /\ Len(Front(history)) = Len(history) - 1 /\ Len(Front(history)) < MaxDepth
         /\ Len(history) \in Nat /\ Front(history) \in Seq(Frame)
         /\ \A i \in 1..Len(Front(history)) : Front(history)[i] = history[i] /\ i \in 1..Len(history)
<1>1. /\ history \in Seq(Frame) /\ history # <<>> /\ Len(history) \in 1..MaxDepth /\ Len(history) \in Nat
  BY CurrentIs, BrowserAssumption
<1>2. /\ Front(history) \in Seq(Frame) /\ Len(Front(history)) = Len(history) - 1
      /\ \A i \in 1..Len(history) - 1 : Front(history)[i] = history[i]
  BY <1>1, Top
<1> QED BY <1>1, <1>2, BrowserAssumption

LEMMA FinishedSettled ==
  ASSUME Screens
  PROVE  /\ Settled(Finished, ReleasedTop) /\ Len(Finished) = Len(history)
         /\ Idle # {} => \A i \in 1..Len(Finished) : Finished[i].asks # NextRequest
<1>1. CASE Home
  <2>1. Finished = <<>> /\ ReleasedTop = requests /\ history = <<>>
    BY <1>1 DEF Finished, ReleasedTop, Home
  <2>2. 1..Len(Finished) = {}
    BY <2>1
  <2>3. Stack(Finished, ReleasedTop)
    BY <2>1 DEF Screens
  <2> QED BY <2>1, <2>2, <2>3 DEF Settled
<1>2. CASE ~Home
  <2> DEFINE h == Front(history)
             g == FinishFrame(Current)
  <2>1. Settled(h, ReleasedTop) /\ Len(h) < MaxDepth /\ Len(h) = Len(history) - 1 /\ Len(history) \in Nat
        /\ \A i \in 1..Len(h) : h[i] = history[i] /\ i \in 1..Len(history)
        /\ h \in Seq(Frame)
    BY <1>2, TopReleased, FrontIs
  <2>2. FrameOK(g) /\ g \in Frame /\ g.asks = None
    BY <1>2, CurrentIs, FinishOK
  <2>3. Finished = Append(h, g)
    BY <1>2, FinishedIs
  <2> HIDE DEF h, g
  <2>4. Settled(Append(h, g), ReleasedTop)
    BY <2>1, <2>2, Unasking, PushSettled
  <2>5. Len(Append(h, g)) = Len(h) + 1 /\ \A i \in 1..Len(h) : Append(h, g)[i] = h[i]
        /\ Append(h, g)[Len(h) + 1] = g
    BY <2>1, <2>2, Pushed
  <2>6. ASSUME Idle # {}, NEW i \in 1..Len(history) PROVE Finished[i].asks # NextRequest
    <3>1. NextRequest \in Requests /\ \A j \in 1..Len(history) : history[j].asks # NextRequest
      BY <2>6, NextIs
    <3>2. CASE i = Len(h) + 1
      BY <2>2, <2>3, <2>5, <3>1, <3>2, Mirrors
    <3>3. CASE i \in 1..Len(h)
      BY <2>1, <2>3, <2>5, <3>1, <3>3
    <3> QED BY <2>1, <3>2, <3>3
  <2>7. Len(Finished) = Len(history)
    BY <2>1, <2>3, <2>5
  <2> QED BY <2>3, <2>4, <2>6, <2>7
<1> QED BY <1>1, <1>2

(* The top goes on with what it asks for. *)
LEMMA TopGoesOn ==
  ASSUME Screens, ~Home, NEW f \in Frame, FrameOK(f), f.asks = Current.asks,
         f.refreshing = Current.refreshing, f.loading = Current.loading, f.navigating = Current.navigating,
         NEW rs \in [Requests -> Request], Tame(requests, rs), LinkOK(f, rs),
         \A r \in Requests : r # Current.asks => rs[r] = requests[r],
         f.asks # None => rs[f.asks].phase = requests[f.asks].phase \/ rs[f.asks].phase = "reading"
  PROVE  /\ Stack(Append(Front(history), f), rs)
         /\ Live(Last(Append(Front(history), f)), forwardHistory, rs)
<1> DEFINE h == Front(history)
           k == Append(h, f)
<1>1. /\ h \in Seq(Frame) /\ Len(h) = Len(history) - 1 /\ Len(history) \in Nat /\ Len(history) <= MaxDepth
      /\ \A i \in 1..Len(h) : h[i] = history[i] /\ i \in 1..Len(history)
      /\ history \in Seq(Frame) /\ Current = history[Len(history)] /\ Live(Current, forwardHistory, requests)
  BY FrontIs, CurrentIs, BrowserAssumption
<1>2. /\ k \in Seq(Frame) /\ Len(k) = Len(h) + 1 /\ k[Len(h) + 1] = f
      /\ \A i \in 1..Len(h) : k[i] = h[i]
      /\ DOMAIN h = 1..Len(h) /\ DOMAIN k = 1..Len(h) + 1 /\ Last(k) = f
  BY <1>1, Pushed
<1> HIDE DEF h, k
<1>3. ASSUME NEW i \in 1..Len(h) PROVE FrameOK(h[i]) /\ LinkOK(h[i], rs) /\ Covered(h[i])
  <2>1. h[i] = history[i] /\ FrameOK(history[i]) /\ LinkOK(history[i], requests) /\ Covered(history[i])
    BY <1>1 DEF Screens, Stack
  <2> QED BY <2>1, LinkKept
<1>4. \A i \in 1..Len(k) : FrameOK(k[i]) /\ LinkOK(k[i], rs)
  <2> SUFFICES ASSUME NEW i \in 1..Len(k) PROVE FrameOK(k[i]) /\ LinkOK(k[i], rs)
    OBVIOUS
  <2>1. CASE i = Len(h) + 1
    BY <1>2, <2>1
  <2>2. CASE i \in 1..Len(h)
    BY <1>2, <1>3, <2>2
  <2> QED BY <1>1, <1>2, <2>1, <2>2
<1>5. \A i \in 1..Len(k) - 1 : Covered(k[i])
  BY <1>1, <1>2, <1>3
<1>6. Held(k, rs)
  <2> SUFFICES ASSUME NEW r \in Requests, rs[r].phase # "unused", ~rs[r].cancelled
               PROVE  \E i \in DOMAIN k : k[i].asks = r
    BY DEF Held
  <2>1. CASE r = Current.asks
    <3>1. Len(h) + 1 \in DOMAIN k
      BY <1>1, <1>2
    <3> QED BY <1>2, <2>1, <3>1
  <2>2. CASE r # Current.asks
    <3>1. PICK i \in DOMAIN history : history[i].asks = r
      BY <2>2 DEF Screens, Stack, Held
    <3>2. i \in DOMAIN k /\ k[i] = history[i]
      BY <1>1, <1>2, <2>2, <3>1
    <3> QED BY <3>1, <3>2
  <2> QED BY <2>1, <2>2
<1>7. Len(k) <= MaxDepth
  BY <1>1, <1>2
<1>8. Live(Last(k), forwardHistory, rs)
  BY <1>1, <1>2 DEF Live, Covered
<1> QED BY <1>2, <1>4, <1>5, <1>6, <1>7, <1>8 DEF Stack, h, k

(* A message for another screen leaves the top what it waits for. *)
LEMMA Elsewhere ==
  ASSUME Screens, NEW r \in Requests, ~Awaited(r), NEW rs \in [Requests -> Request], Tame(requests, rs),
         \A s \in Requests : s # r => rs[s] = requests[s],
         rs[r].phase # "unused" /\ ~rs[r].cancelled =>
            requests[r].phase # "unused" /\ ~requests[r].cancelled
  PROVE  Stack(history, rs) /\ (~Home => Live(Current, forwardHistory, rs))
<1>1. \A i \in 1..Len(history) : FrameOK(history[i]) /\ LinkOK(history[i], rs)
  BY LinkKept DEF Screens, Stack
<1>2. Held(history, rs)
  <2> SUFFICES ASSUME NEW s \in Requests, rs[s].phase # "unused", ~rs[s].cancelled
               PROVE  \E i \in DOMAIN history : history[i].asks = s
    BY DEF Held
  <2>1. requests[s].phase # "unused" /\ ~requests[s].cancelled
    BY DEF Screens
  <2> QED BY <2>1 DEF Screens, Stack, Held
<1>3. ASSUME ~Home PROVE Live(Current, forwardHistory, rs)
  <2>1. Current.asks # r /\ Live(Current, forwardHistory, requests)
        /\ (Current.asks # None => Current.asks \in Requests)
    BY <1>3, CurrentIs DEF Awaited, FrameOK
  <2> QED BY <2>1 DEF Live, Covered
<1> QED BY <1>1, <1>2, <1>3 DEF Screens, Stack

(* A stack that has come to rest. *)
LEMMA Rests ==
  ASSUME NEW h, NEW rs, Settled(h, rs), NEW forward
  PROVE  Stack(h, rs) /\ (h # <<>> => Live(Last(h), forward, rs))
<1>1. Stack(h, rs) /\ h \in Seq(Frame)
  BY DEF Settled, Stack
<1>2. ASSUME h # <<>> PROVE Live(Last(h), forward, rs)
  <2>1. Last(h) = h[Len(h)] /\ Len(h) \in Nat /\ Len(h) >= 1
    BY <1>1, <1>2, Top
  <2>2. Covered(h[Len(h)])
    BY <2>1 DEF Settled
  <2> QED BY <2>1, <2>2 DEF Live
<1> QED BY <1>1, <1>2

(* The state after a step is one of the invariant when its parts are. *)
LEMMA NewScreens ==
  ASSUME Stack(history', requests'), history' # <<>> => Live(Last(history'), forwardHistory', requests'),
         Behind(history', forwardHistory'), config' \in Profiles \cup {None}, running' \in BOOLEAN
  PROVE  Screens'
  BY DEF Screens, Home, Current

LEMMA BehindKept ==
  ASSUME NEW h, NEW forward, Behind(h, forward), NEW k, Len(h) \in Nat, Len(k) \in Nat, Len(k) <= Len(h)
  PROVE  Behind(k, forward)
<1>1. forward \in Seq(Frame) /\ Len(forward) \in Nat /\ Len(h) + Len(forward) <= MaxDepth
  BY DEF Behind
<1>2. Len(k) + Len(forward) <= MaxDepth
  BY <1>1, BrowserAssumption
<1> QED BY <1>2 DEF Behind

LEMMA NothingAhead ==
  ASSUME NEW h, Len(h) \in Nat, Len(h) <= MaxDepth PROVE Behind(h, <<>>)
<1>1. Len(<<>>) = 0 /\ <<>> \in Seq(Frame) /\ 1..0 = {}
  OBVIOUS
<1>2. Len(h) + 0 <= MaxDepth
  BY BrowserAssumption
<1> QED BY <1>1, <1>2 DEF Behind

(* What happens to the rows of a complete list. *)
LEMMA KeptTop ==
  ASSUME NEW h \in Seq(Frame), h # <<>>, NEW f \in Frame,
         Last(h).shown.whole /\ f.mode = "list" => f.shown.whole
  PROVE  WholeKept(h, Append(Front(h), f)) /\ \A g \in Frame : WholeKept(h, Append(Append(Front(h), f), g))
<1> DEFINE k == Append(Front(h), f)
<1>1. /\ Front(h) \in Seq(Frame) /\ Len(h) \in Nat /\ Len(h) >= 1 /\ Len(Front(h)) = Len(h) - 1
      /\ \A i \in 1..Len(h) - 1 : Front(h)[i] = h[i]
      /\ Last(h) = h[Len(h)] /\ DOMAIN h = 1..Len(h)
  BY Top
<1>2. /\ k \in Seq(Frame) /\ Len(k) = Len(h) /\ DOMAIN k = 1..Len(h) /\ k[Len(h)] = f
      /\ \A i \in 1..Len(h) - 1 : k[i] = h[i]
  BY <1>1, Pushed
<1> HIDE DEF k
<1>3. ASSUME NEW i \in 1..Len(h), h[i].shown.whole, k[i].mode = "list" PROVE k[i].shown.whole
  <2>1. CASE i = Len(h)
    BY <1>1, <1>2, <1>3, <2>1
  <2>2. CASE i \in 1..Len(h) - 1
    BY <1>2, <1>3, <2>2
  <2> QED BY <1>1, <2>1, <2>2
<1>4. WholeKept(h, k)
  BY <1>1, <1>2, <1>3 DEF WholeKept
<1>5. ASSUME NEW g \in Frame PROVE WholeKept(h, Append(k, g))
  <2>1. \A i \in 1..Len(h) : Append(k, g)[i] = k[i]
    BY <1>2, Pushed
  <2> QED BY <1>1, <1>3, <2>1 DEF WholeKept
<1> QED BY <1>4, <1>5 DEF k

LEMMA KeptAlong ==
  ASSUME NEW h \in Seq(Frame)
  PROVE  /\ WholeKept(h, h) /\ WholeKept(h, <<>>) /\ \A g \in Frame : WholeKept(h, Append(h, g))
         /\ h # <<>> => WholeKept(h, Front(h))
<1>1. DOMAIN h = 1..Len(h) /\ Len(h) \in Nat /\ DOMAIN <<>> = {}
  OBVIOUS
<1>2. WholeKept(h, h)
  BY DEF WholeKept
<1>3. WholeKept(h, <<>>)
  BY <1>1 DEF WholeKept
<1>4. ASSUME NEW g \in Frame PROVE WholeKept(h, Append(h, g))
  <2>1. \A i \in DOMAIN h : Append(h, g)[i] = h[i]
    BY <1>1, Pushed
  <2> QED BY <2>1 DEF WholeKept
<1>5. ASSUME h # <<>> PROVE WholeKept(h, Front(h))
  <2>1. \A i \in 1..Len(h) - 1 : Front(h)[i] = h[i]
    BY <1>5, Top
  <2>2. Len(Front(h)) = Len(h) - 1 /\ Front(h) \in Seq(Frame)
    BY <1>5, Top
  <2>3. DOMAIN Front(h) = 1..Len(h) - 1
    BY <2>2
  <2> QED BY <2>1, <2>3 DEF WholeKept
<1> QED BY <1>2, <1>3, <1>4, <1>5

LEMMA KeptFinished ==
  ASSUME Screens
  PROVE  WholeKept(history, Finished) /\ \A g \in Frame : WholeKept(history, Append(Finished, g))
<1>1. history \in Seq(Frame)
  BY DEF Screens, Stack
<1>2. CASE Home
  BY <1>1, <1>2, KeptAlong DEF Finished
<1>3. CASE ~Home
  <2> DEFINE f == FinishFrame(Current)
  <2>1. f \in Frame /\ f.shown = Current.shown /\ history # <<>> /\ Last(history) = Current
    BY <1>3, CurrentIs, FinishOK DEF Current
  <2>2. Finished = Append(Front(history), f)
    BY <1>3, FinishedIs
  <2> HIDE DEF f
  <2>3. Last(history).shown.whole /\ f.mode = "list" => f.shown.whole
    BY <2>1
  <2> QED BY <1>1, <2>1, <2>2, <2>3, KeptTop
<1> QED BY <1>2, <1>3

-----------------------------------------------------------------------------
(* Screens that open *)

LEMMA QuestionOf ==
  ASSUME Screens, NEW kind \in Kinds, NEW inherited \in Contexts \cup {None}
  PROVE  LET intent == IntentFor(kind, inherited)
         IN  intent \in Intents /\ (inherited # None => intent.profile = inherited.profile)
<1>1. config \in Profiles \cup {None}
  BY DEF Screens
<1>2. inherited # None => inherited.profile \in Profiles
  BY DEF Contexts
<1> QED BY <1>1, <1>2 DEF IntentFor, Intents

LEMMA Dispatching ==
  ASSUME NEW intent \in Intents
  PROVE  LET req == [UnusedRequest EXCEPT !.intent = intent]
         IN  req \in Request /\ req.call = "dispatch" /\ req.intent = intent
<1>1. UnusedRequest \in Request /\ UnusedRequest.call = "dispatch"
  BY DEF UnusedRequest, Request
<1>2. [UnusedRequest EXCEPT !.intent = intent] \in Request
  BY <1>1 DEF Request
<1>3. [UnusedRequest EXCEPT !.intent = intent].call = "dispatch" /\ [UnusedRequest EXCEPT !.intent = intent].intent = intent
  BY <1>1 DEF Request
<1> QED BY <1>2, <1>3

(* A frame that holds the next request is linked to it once it is asked. *)
LEMMA AskIs ==
  ASSUME NEW rs \in [Requests -> Request], NextRequest \in Requests, NEW req \in Request
  PROVE  /\ Ask(rs, req) \in [Requests -> Request] /\ Ask(rs, req)[NextRequest].call = req.call
         /\ Ask(rs, req)[NextRequest].intent = req.intent /\ Ask(rs, req)[NextRequest].phase = "running"
<1>1. [req EXCEPT !.phase = "running"] \in Request
  BY DEF Request
<1>2. [req EXCEPT !.phase = "running"].call = req.call /\ [req EXCEPT !.phase = "running"].intent = req.intent
      /\ [req EXCEPT !.phase = "running"].phase = "running"
  BY DEF Request
<1> QED BY <1>1, <1>2 DEF Ask

LEMMA Dispatched ==
  ASSUME Screens, NEW h, NEW rs, Settled(h, rs), Idle # {} => \A i \in 1..Len(h) : h[i].asks # NextRequest,
         NEW kind \in Kinds, NEW inherited \in Contexts \cup {None}, PushAndDispatch(h, rs, kind, inherited)
  PROVE  Screens' /\ ~Stranded' /\ \E g \in Frame : history' = Append(h, g)
<1> DEFINE intent == IntentFor(kind, inherited)
           g == [NewFrame("list") EXCEPT !.intent = intent, !.context = inherited,
                       !.awaits = NextRequest, !.asks = NextRequest]
           req == [UnusedRequest EXCEPT !.intent = intent]
<1>1. /\ Idle # {} /\ Len(h) < MaxDepth /\ history' = Append(h, g) /\ forwardHistory' = <<>>
      /\ requests' = Ask(rs, req) /\ config' = config /\ running' = running
  BY DEF PushAndDispatch, PushFrame
<1>2. NextRequest \in Requests /\ \A i \in 1..Len(h) : h[i].asks # NextRequest
  BY <1>1, NextIs
<1>3. intent \in Intents /\ (inherited # None => intent.profile = inherited.profile)
  BY QuestionOf
<1> HIDE DEF intent
<1>11. req \in Request /\ req.call = "dispatch" /\ req.intent = intent
  BY <1>3, Dispatching
<1>4. FrameOK(g) /\ g \in Frame /\ g.asks = NextRequest /\ g.mode = "list" /\ g.intent = intent
      /\ ~g.navigating /\ g.shown = Nothing
  <2>1. g = [NewFrame("list") EXCEPT !.intent = intent, !.context = inherited,
                 !.awaits = NextRequest, !.asks = NextRequest]
    OBVIOUS
  <2> HIDE DEF g
  <2>2. FrameOK(g) /\ g \in Frame
    BY <1>2, <1>3, <2>1, ListOK
  <2> QED BY <2>1, <2>2 DEF NewFrame
<1> HIDE DEF g, req
<1>5. rs \in [Requests -> Request] /\ h \in Seq(Frame)
  BY DEF Settled, Stack
<1>12. /\ Ask(rs, req)[NextRequest].call = "dispatch" /\ Ask(rs, req)[NextRequest].intent = intent
       /\ Ask(rs, req)[NextRequest].phase = "running"
  BY <1>2, <1>11, <1>5, AskIs
<1>6. LinkOK(g, Ask(rs, req))
  BY <1>12, <1>4 DEF LinkOK, Asks, Nothing
<1>13. ~Stranded'
  <2>1. Last(history') = g
    BY <1>1, <1>4, <1>5, Pushed
  <2> QED BY <1>1, <1>2, <1>4, <1>12, <2>1, Mirrors DEF Stranded, Current
<1>7. Stack(history', requests') /\ Live(Last(history'), <<>>, requests')
  BY <1>1, <1>2, <1>11, <1>4, <1>6, PushAsking
<1>8. Len(history') \in Nat /\ Len(history') <= MaxDepth
  BY <1>7 DEF Stack
<1>9. Behind(history', forwardHistory')
  BY <1>1, <1>8, NothingAhead
<1>10. config' \in Profiles \cup {None} /\ running' \in BOOLEAN
  BY <1>1 DEF Screens
<1> QED BY <1>1, <1>4, <1>7, <1>9, <1>10, <1>13, NewScreens

(* A screen that asks nothing, on a settled stack. *)
LEMMA Opened ==
  ASSUME Screens, NEW h, Settled(h, requests'), NEW g \in Frame, FrameOK(g), g.asks = None, ~Waits(g),
         PushFrame(h, g), config' = config, running' = running
  PROVE  Screens' /\ ~Stranded'
<1>1. Len(h) < MaxDepth /\ history' = Append(h, g) /\ forwardHistory' = <<>>
  BY DEF PushFrame
<1>2. Settled(history', requests')
  BY <1>1, Unasking, PushSettled
<1>3. Stack(history', requests') /\ (history' # <<>> => Live(Last(history'), forwardHistory', requests'))
  BY <1>2, Rests
<1>4. Len(history') \in Nat /\ Len(history') <= MaxDepth
  BY <1>3 DEF Stack
<1>5. Behind(history', forwardHistory')
  BY <1>1, <1>4, NothingAhead
<1>6. config' \in Profiles \cup {None} /\ running' \in BOOLEAN
  BY DEF Screens
<1>7. ~Stranded'
  <2>1. h \in Seq(Frame)
    BY DEF Settled, Stack
  <2> QED BY <1>1, <2>1, Pushed DEF Stranded, Current
<1> QED BY <1>3, <1>5, <1>6, <1>7, NewScreens

LEMMA DispatchFinished ==
  ASSUME Screens, NEW kind \in Kinds, NEW inherited \in Contexts \cup {None},
         PushAndDispatch(Finished, ReleasedTop, kind, inherited)
  PROVE  Screens' /\ Kept
<1>1. Screens' /\ ~Stranded' /\ \E g \in Frame : history' = Append(Finished, g)
  BY FinishedSettled, Dispatched
<1> QED BY <1>1, KeptFinished DEF Kept

LEMMA FinishedOpens ==
  ASSUME Screens, NEW g \in Frame, FrameOK(g), g.asks = None, ~Waits(g), PushFrame(Finished, g),
         requests' = ReleasedTop, config' = config, running' = running
  PROVE  Screens' /\ Kept
<1>1. Settled(Finished, requests')
  BY FinishedSettled
<1>2. Screens' /\ ~Stranded'
  BY <1>1, Opened
<1>3. history' = Append(Finished, g)
  BY DEF PushFrame
<1> QED BY <1>2, <1>3, KeptFinished DEF Kept

(* The top is another frame, which asks for something ... *)
LEMMA TopAsks ==
  ASSUME Screens, ~Home, NEW rs, Settled(Front(history), rs), Idle # {}, NEW req \in Request,
         NEW g \in Frame, FrameOK(g), g.asks = NextRequest, Covered(g) \/ g.navigating,
         Current.shown.whole /\ g.mode = "list" => g.shown.whole,
         g.mode = "context" => req.call \in {"choices", "resolve"},
         g.mode = "list" /\ g.navigating => req.call = "navigate",
         g.mode = "list" /\ ~g.navigating =>
            req.call = "dispatch" /\ Asks(g.intent, req.intent) /\ g.refreshing,
         history' = SetCurrent(g), requests' = Ask(rs, req),
         forwardHistory' = forwardHistory, config' = config, running' = running
  PROVE  Screens' /\ Kept
<1> DEFINE h == Front(history)
<1>1. /\ history \in Seq(Frame) /\ history # <<>> /\ Last(history) = Current
      /\ Len(history) \in Nat
  BY CurrentIs DEF Current
<1>2. history' = Append(h, g)
  BY <1>1, Topped DEF SetCurrent
<1>3. /\ Len(h) = Len(history) - 1 /\ Len(h) < MaxDepth
      /\ \A i \in 1..Len(h) : h[i] = history[i] /\ i \in 1..Len(history)
      /\ h \in Seq(Frame)
  BY FrontIs
<1>4. NextRequest \in Requests /\ \A i \in 1..Len(history) : history[i].asks # NextRequest
  BY NextIs
<1>5. \A i \in 1..Len(h) : h[i].asks # NextRequest
  BY <1>3, <1>4
<1>6. rs \in [Requests -> Request] /\ Settled(h, rs)
  BY DEF Settled, Stack
<1> HIDE DEF h
<1>7. LinkOK(g, Ask(rs, req))
  BY <1>4, <1>6, AskIs DEF LinkOK
<1>8. Stack(history', requests') /\ Live(Last(history'), forwardHistory', requests')
  BY <1>2, <1>3, <1>4, <1>5, <1>6, <1>7, PushAsking
<1>9. Len(history') = Len(history)
  BY <1>1, <1>2, <1>3, Pushed
<1>10. Behind(history', forwardHistory')
  BY <1>1, <1>9, BehindKept DEF Screens
<1>11. config' \in Profiles \cup {None} /\ running' \in BOOLEAN
  BY DEF Screens
<1>12. Screens'
  BY <1>8, <1>10, <1>11, NewScreens
<1>13. WholeKept(history, history')
  BY <1>1, <1>2, KeptTop DEF h
<1>14. Ask(rs, req)[NextRequest].phase = "running"
  BY <1>4, <1>6, AskIs
<1>15. ~Stranded'
  BY <1>2, <1>3, <1>14, Pushed, <1>4, Mirrors DEF Stranded, Current
<1> QED BY <1>12, <1>13, <1>15 DEF Kept

(* ... or for nothing any more. *)
LEMMA TopRests ==
  ASSUME Screens, ~Home, Settled(Front(history), requests'),
         NEW g \in Frame, FrameOK(g), g.asks = None, ~Waits(g),
         Current.shown.whole /\ g.mode = "list" => g.shown.whole,
         history' = SetCurrent(g), forwardHistory' = forwardHistory, config' = config, running' = running
  PROVE  Screens' /\ Kept
<1> DEFINE h == Front(history)
<1>1. /\ history \in Seq(Frame) /\ history # <<>> /\ Last(history) = Current
      /\ Len(history) \in Nat
  BY CurrentIs DEF Current
<1>2. history' = Append(h, g)
  BY <1>1, Topped DEF SetCurrent
<1>3. Len(h) = Len(history) - 1 /\ Len(h) < MaxDepth /\ h \in Seq(Frame) /\ Settled(h, requests')
  BY FrontIs
<1> HIDE DEF h
<1>4. Settled(history', requests')
  BY <1>2, <1>3, Unasking, PushSettled
<1>5. Stack(history', requests') /\ (history' # <<>> => Live(Last(history'), forwardHistory', requests'))
  BY <1>4, Rests
<1>6. Len(history') = Len(history)
  BY <1>1, <1>2, <1>3, Pushed
<1>7. Behind(history', forwardHistory')
  BY <1>1, <1>6, BehindKept DEF Screens
<1>8. config' \in Profiles \cup {None} /\ running' \in BOOLEAN
  BY DEF Screens
<1>9. Screens'
  BY <1>5, <1>7, <1>8, NewScreens
<1>10. WholeKept(history, history')
  BY <1>1, <1>2, KeptTop DEF h
<1>11. ~Stranded'
  BY <1>2, <1>3, Pushed DEF Stranded, Current
<1> QED BY <1>9, <1>10, <1>11 DEF Kept

(* ... or goes on with what it asks for. *)
LEMMA TopStays ==
  ASSUME Screens, ~Home, NEW f \in Frame, FrameOK(f), f.asks = Current.asks,
         f.refreshing = Current.refreshing, f.loading = Current.loading, f.navigating = Current.navigating,
         requests' \in [Requests -> Request], Tame(requests, requests'), LinkOK(f, requests'),
         \A r \in Requests : r # Current.asks => requests'[r] = requests[r],
         f.asks # None =>
            requests'[f.asks].phase = requests[f.asks].phase \/ requests'[f.asks].phase = "reading",
         Current.shown.whole /\ f.mode = "list" => f.shown.whole,
         history' = SetCurrent(f), forwardHistory' = forwardHistory, config' = config, running' = running
  PROVE  Screens' /\ Kept
<1>1. /\ history \in Seq(Frame) /\ history # <<>> /\ Last(history) = Current
      /\ Len(history) \in Nat
  BY CurrentIs DEF Current
<1>2. history' = Append(Front(history), f)
  BY <1>1, Topped DEF SetCurrent
<1>3. Stack(history', requests') /\ Live(Last(history'), forwardHistory', requests')
  BY <1>2, TopGoesOn
<1>4. Len(history') = Len(history)
  BY <1>1, <1>2, FrontIs, Pushed
<1>5. Behind(history', forwardHistory')
  BY <1>1, <1>4, BehindKept DEF Screens
<1>6. config' \in Profiles \cup {None} /\ running' \in BOOLEAN
  BY DEF Screens
<1>7. Screens'
  BY <1>3, <1>5, <1>6, NewScreens
<1>8. WholeKept(history, history')
  BY <1>1, <1>2, KeptTop
<1>9. Stranded' => Stranded
  <2>1. Last(history') = f
    BY <1>2, FrontIs, Pushed
  <2> QED BY <2>1 DEF Stranded, Current, Waits
<1> QED BY <1>7, <1>8, <1>9 DEF Kept

LEMMA OpenCatalogStep == ASSUME Screens, OpenCatalog PROVE Screens' /\ Kept
<1>1. PushAndDispatch(Finished, ReleasedTop, "open", None) /\ "open" \in Kinds
  BY DEF OpenCatalog, Kinds
<1> QED BY <1>1, DispatchFinished

LEMMA OpenSearchStep == ASSUME Screens, OpenSearch PROVE Screens' /\ Kept
<1> DEFINE g == NewFrame("search")
<1>1. PushFrame(Finished, g) /\ requests' = ReleasedTop /\ config' = config /\ running' = running
  BY DEF OpenSearch
<1>2. g \in Frame
  BY Mirrors DEF NewFrame, Frame
<1>3. /\ g.asks = None /\ g.awaits = None /\ g.mode = "search" /\ g.shown = Nothing
      /\ g.loading = FALSE /\ g.refreshing = FALSE /\ g.navigating = FALSE
  BY DEF NewFrame
<1> HIDE DEF g
<1>4. FrameOK(g) /\ ~Waits(g)
  BY <1>2, <1>3 DEF FrameOK, Nothing, Waits
<1> QED BY <1>1, <1>2, <1>3, <1>4, FinishedOpens

LEMMA OpenContextStep == ASSUME Screens, OpenContext PROVE Screens' /\ Kept
<1> DEFINE g == [NewFrame("context") EXCEPT !.awaits = NextRequest, !.asks = NextRequest, !.loading = TRUE]
           req == [UnusedRequest EXCEPT !.call = "choices"]
           h == Finished
           rs == ReleasedTop
<1>1. /\ Idle # {} /\ Len(h) < MaxDepth /\ history' = Append(h, g) /\ forwardHistory' = <<>>
      /\ requests' = Ask(rs, req) /\ config' = config /\ running' = running
  BY DEF OpenContext, PushFrame
<1>2. NextRequest \in Requests /\ Settled(h, rs) /\ \A i \in 1..Len(h) : h[i].asks # NextRequest
  BY <1>1, NextIs, FinishedSettled
<1>3. FrameOK(g) /\ g \in Frame /\ g.asks = NextRequest /\ g.mode = "context" /\ g.loading
  BY <1>2, ContextOK
<1>4. UnusedRequest \in Request
  BY DEF UnusedRequest, Request
<1>5. req \in Request /\ req.call = "choices"
  BY <1>4 DEF Request
<1> HIDE DEF g, req, h, rs
<1>6. rs \in [Requests -> Request]
  BY <1>2 DEF Settled, Stack
<1>7. LinkOK(g, Ask(rs, req)) /\ Covered(g)
  BY <1>2, <1>3, <1>5, <1>6, AskIs DEF LinkOK, Covered
<1>8. Stack(history', requests') /\ Live(Last(history'), forwardHistory', requests')
  BY <1>1, <1>2, <1>3, <1>5, <1>7, PushAsking
<1>9. Len(history') \in Nat /\ Len(history') <= MaxDepth
  BY <1>8 DEF Stack
<1>10. Behind(history', forwardHistory')
  BY <1>1, <1>9, NothingAhead
<1>11. config' \in Profiles \cup {None} /\ running' \in BOOLEAN
  BY <1>1 DEF Screens
<1>12. Screens'
  BY <1>8, <1>10, <1>11, NewScreens
<1>13. ~Stranded'
  <2>1. h \in Seq(Frame) /\ Ask(rs, req)[NextRequest].phase = "running"
    BY <1>2, <1>5, <1>6, AskIs DEF Settled, Stack
  <2> QED BY <1>1, <1>2, <1>3, <2>1, Pushed, Mirrors DEF Stranded, Current
<1> QED BY <1>1, <1>3, <1>12, <1>13, KeptFinished DEF h, Kept

LEMMA QuestionAgain ==
  ASSUME NEW f, FrameOK(f), f.mode = "list"
  PROVE  RefreshIntent(f) \in Intents /\ Asks(f.intent, RefreshIntent(f))
<1>1. /\ f \in Frame /\ f.intent \in Intents /\ f.context \in Contexts \cup {None}
      /\ f.intent.profile # None /\ f.context # None => f.context.profile = f.intent.profile
  BY DEF FrameOK, Frame
<1>2. CASE f.intent.kind \in {"search", "incoming"}
  <2>1. RefreshIntent(f) = f.intent
    BY <1>2 DEF RefreshIntent
  <2> QED BY <1>1, <2>1 DEF Asks
<1>3. CASE f.intent.kind \notin {"search", "incoming"}
  <2> DEFINE profile == IF f.context # None THEN f.context.profile ELSE f.intent.profile
             question == [kind |-> RefreshKind(f.intent.kind), profile |-> profile]
  <2>1. profile \in Profiles \cup {None} /\ (f.intent.profile # None => profile = f.intent.profile)
    BY <1>1 DEF Contexts, Intents
  <2>2. RefreshKind(f.intent.kind) \in Kinds
    BY <1>1 DEF RefreshKind, Intents, Kinds
  <2>3. RefreshIntent(f) = question
    BY <1>3 DEF RefreshIntent
  <2> HIDE DEF profile
  <2>4. question \in Intents /\ question.kind = RefreshKind(f.intent.kind) /\ question.profile = profile
    BY <2>1, <2>2 DEF Intents
  <2> QED BY <2>1, <2>3, <2>4 DEF Asks
<1> QED BY <1>2, <1>3

LEMMA RefreshStep == ASSUME Screens, Refresh PROVE Screens' /\ Kept
<1> DEFINE f == FinishFrame(Current)
           g == [FinishFrame(Current) EXCEPT !.awaits = NextRequest, !.asks = NextRequest,
                     !.refreshing = TRUE, !.terminal = FALSE]
           req == [UnusedRequest EXCEPT !.intent = RefreshIntent(Current)]
<1>1. /\ ~Home /\ Current.mode = "list" /\ Idle # {} /\ history' = SetCurrent(g)
      /\ requests' = Ask(ReleasedTop, req)
      /\ forwardHistory' = forwardHistory /\ config' = config /\ running' = running
  BY DEF Refresh
<1>2. NextRequest \in Requests /\ Settled(Front(history), ReleasedTop)
  BY <1>1, NextIs, TopReleased
<1>3. /\ FrameOK(Current) /\ FrameOK(f) /\ f \in Frame /\ f.mode = "list" /\ f.shown = Current.shown
      /\ f.intent = Current.intent
  BY <1>1, CurrentIs, FinishOK
<1>4. f.navigating = FALSE /\ ~f.loading
  BY <1>1, <1>3, CurrentIs, FinishOK
<1>5. RefreshIntent(Current) \in Intents /\ Asks(f.intent, RefreshIntent(Current))
  BY <1>1, <1>3, QuestionAgain
<1>6. req \in Request /\ req.call = "dispatch" /\ req.intent = RefreshIntent(Current)
  BY <1>5, Dispatching
<1> HIDE DEF f, req
<1> DEFINE g2 == [f EXCEPT !.awaits = NextRequest, !.asks = NextRequest, !.refreshing = TRUE, !.terminal = FALSE]
<1>7. g = g2
  BY DEF f
<1>8. g2 \in Frame
  BY <1>2, <1>3 DEF Frame
<1>9. /\ g2.asks = NextRequest /\ g2.awaits = NextRequest /\ g2.refreshing = TRUE /\ g2.navigating = f.navigating
      /\ g2.mode = f.mode /\ g2.shown = f.shown /\ g2.intent = f.intent /\ g2.context = f.context
      /\ g2.loading = f.loading
  BY <1>3 DEF Frame
<1> HIDE DEF g, g2
<1>10. FrameOK(g2)
  BY <1>2, <1>3, <1>4, <1>8, <1>9, Mirrors DEF FrameOK
<1>11. Covered(g2) /\ g2.mode = "list" /\ g2.navigating = FALSE /\ g2.refreshing /\ (Current.shown.whole => g2.shown.whole)
       /\ Asks(g2.intent, req.intent) /\ g2.asks = NextRequest
  BY <1>3, <1>4, <1>5, <1>6, <1>9 DEF Covered
<1> QED BY <1>1, <1>2, <1>6, <1>7, <1>8, <1>10, <1>11, TopAsks

LEMMA CancelRefreshStep == ASSUME Screens, CancelRefresh PROVE Screens' /\ Kept
<1>1. /\ ~Home /\ Current.mode = "list" /\ history' = Finished /\ requests' = ReleasedTop
      /\ forwardHistory' = forwardHistory /\ config' = config /\ running' = running
  BY DEF CancelRefresh, OnMode
<1>2. Finished = SetCurrent(FinishFrame(Current)) /\ Settled(Front(history), ReleasedTop)
  BY <1>1, TopReleased DEF Finished
<1>3. /\ FrameOK(FinishFrame(Current)) /\ FinishFrame(Current) \in Frame /\ FinishFrame(Current).asks = None
      /\ FinishFrame(Current).shown = Current.shown /\ ~Waits(FinishFrame(Current))
  BY <1>1, CurrentIs, FinishOK
<1> QED BY <1>1, <1>2, <1>3, TopRests

LEMMA CancelNavigationStep == ASSUME Screens, CancelNavigation PROVE Screens' /\ Kept
<1>1. /\ ~Home /\ Current.navigating /\ history' = Finished /\ requests' = ReleasedTop
      /\ forwardHistory' = forwardHistory /\ config' = config /\ running' = running
  BY DEF CancelNavigation
<1>2. Finished = SetCurrent(FinishFrame(Current)) /\ Settled(Front(history), ReleasedTop)
  BY <1>1, TopReleased DEF Finished
<1>4. Current.mode = "list"
  BY <1>1, CurrentIs DEF FrameOK
<1>3. /\ FrameOK(FinishFrame(Current)) /\ FinishFrame(Current) \in Frame /\ FinishFrame(Current).asks = None
      /\ FinishFrame(Current).shown = Current.shown /\ ~Waits(FinishFrame(Current))
  BY <1>1, <1>4, CurrentIs, FinishOK
<1> QED BY <1>1, <1>2, <1>3, TopRests

LEMMA EnterRowStep == ASSUME Screens, EnterRow PROVE Screens' /\ Kept
<1>1. ~Home /\ requests' = ReleasedTop /\ config' = config /\ running' = running
  BY DEF EnterRow, OnMode
<1>2. PICK c \in RowContexts(Current) : PushFrame(Finished, [NewFrame("detail") EXCEPT !.context = c])
  BY DEF EnterRow
<1>3. c \in Contexts \cup {None}
  BY <1>1, CurrentIs DEF RowContexts, ContextsOf, Frame
<1> DEFINE g == [NewFrame("detail") EXCEPT !.context = c]
<1>4. FrameOK(g) /\ g \in Frame /\ g.asks = None /\ ~Waits(g) /\ PushFrame(Finished, g)
  BY <1>2, <1>3, ScreenOK
<1> HIDE DEF g
<1> QED BY <1>1, <1>4, FinishedOpens

LEMMA HydrateRowStep == ASSUME Screens, HydrateRow PROVE Screens' /\ Kept
<1>1. ~Home
  BY DEF HydrateRow, OnMode
<1>2. PICK c \in RowContexts(Current) : PushAndDispatch(Finished, ReleasedTop, "singleton", c)
  BY DEF HydrateRow
<1>3. c \in Contexts \cup {None} /\ "singleton" \in Kinds
  BY <1>1, CurrentIs DEF RowContexts, ContextsOf, Frame, Kinds
<1> QED BY <1>2, <1>3, DispatchFinished

LEMMA EnterSnapshotRowStep ==
  ASSUME Screens, NEW hint \in Contexts, EnterSnapshotRow(hint)
  PROVE  Screens' /\ Kept
<1>1. ~Home /\ Current.mode = "list" /\ Idle # {}
  BY DEF EnterSnapshotRow, OnMode
<1>2. CASE Current.context = hint
  <2>1. PushAndDispatch(Finished, ReleasedTop, "singleton", hint) /\ "singleton" \in Kinds
    BY <1>2 DEF EnterSnapshotRow, Kinds
  <2> QED BY <2>1, DispatchFinished
<1>3. CASE Current.context # hint
  <2> DEFINE f == FinishFrame(Current)
             g == [FinishFrame(Current) EXCEPT !.awaits = NextRequest, !.asks = NextRequest, !.navigating = TRUE]
             req == [UnusedRequest EXCEPT !.call = "navigate", !.profile = hint.profile, !.hint = hint]
  <2>1. /\ history' = SetCurrent(g) /\ requests' = Ask(ReleasedTop, req)
        /\ forwardHistory' = forwardHistory /\ config' = config /\ running' = running
    BY <1>3 DEF EnterSnapshotRow
  <2>2. NextRequest \in Requests /\ Settled(Front(history), ReleasedTop)
    BY <1>1, NextIs, TopReleased
  <2>3. FrameOK(Current) /\ FrameOK(f) /\ f \in Frame /\ f.mode = "list" /\ f.shown = Current.shown
        /\ f.refreshing = FALSE /\ ~f.loading
    BY <1>1, CurrentIs, FinishOK
  <2>4. UnusedRequest \in Request /\ hint.profile \in Profiles
    BY DEF UnusedRequest, Request, Contexts
  <2>5. req \in Request
    BY <2>4 DEF Request
  <2>6. req.call = "navigate"
    BY <2>4 DEF Request
  <2> HIDE DEF f, req
  <2> DEFINE g2 == [f EXCEPT !.awaits = NextRequest, !.asks = NextRequest, !.navigating = TRUE]
  <2>7. g = g2
    BY DEF f
  <2>8. g2 \in Frame
    BY <2>2, <2>3 DEF Frame
  <2>9. /\ g2.asks = NextRequest /\ g2.awaits = NextRequest /\ g2.navigating = TRUE
        /\ g2.mode = f.mode /\ g2.shown = f.shown /\ g2.intent = f.intent /\ g2.context = f.context
        /\ g2.refreshing = f.refreshing /\ g2.loading = f.loading
    BY <2>3 DEF Frame
  <2> HIDE DEF g, g2
  <2>10. FrameOK(g2)
    BY <2>2, <2>3, <2>8, <2>9, Mirrors DEF FrameOK
  <2>11. g2.mode = "list" /\ (Current.shown.whole => g2.shown.whole)
    BY <2>3, <2>9
  <2> QED BY <1>1, <2>1, <2>2, <2>5, <2>6, <2>7, <2>8, <2>9, <2>10, <2>11, TopAsks
<1> QED BY <1>2, <1>3

LEMMA EnterDetailStep == ASSUME Screens, EnterDetail PROVE Screens' /\ Kept
<1>1. ~Home
  BY DEF EnterDetail, OnMode
<1>2. Current.context \in Contexts \cup {None}
  BY <1>1, CurrentIs DEF Frame
<1>3. CASE PushAndDispatch(Finished, ReleasedTop, "incoming", Current.context)
  <2>1. "incoming" \in Kinds
    BY DEF Kinds
  <2> QED BY <1>2, <1>3, <2>1, DispatchFinished
<1>4. CASE \E kind \in {"open", "singleton", "trace"} :
              PushAndDispatch(Finished, ReleasedTop, kind, Current.context)
  <2>1. {"open", "singleton", "trace"} \subseteq Kinds
    BY DEF Kinds
  <2> QED BY <1>2, <1>4, <2>1, DispatchFinished
<1> QED BY <1>3, <1>4 DEF EnterDetail

LEMMA EnterPartStep == ASSUME Screens, EnterPart PROVE Screens' /\ Kept
<1>1. ~Home
  BY DEF EnterPart, OnMode
<1>2. PICK kind \in {"open", "singleton"} : PushAndDispatch(Finished, ReleasedTop, kind, Current.context)
  BY DEF EnterPart
<1>3. Current.context \in Contexts \cup {None} /\ kind \in Kinds
  BY <1>1, CurrentIs DEF Frame, Kinds
<1> QED BY <1>2, <1>3, DispatchFinished

LEMMA ReadDetailStep == ASSUME Screens, ReadDetail PROVE Screens' /\ Kept
<1> DEFINE g == [NewFrame("part") EXCEPT !.context = Current.context]
<1>1. /\ ~Home /\ Current.mode \in {"detail", "part"} /\ PushFrame(history, g)
      /\ requests' = requests /\ config' = config /\ running' = running
  BY DEF ReadDetail, OnMode
<1>2. Current.context \in Contexts \cup {None} /\ FrameOK(Current) /\ Current.asks = None
  BY <1>1, CurrentIs DEF Frame, FrameOK
<1>3. FrameOK(g) /\ g \in Frame /\ g.asks = None /\ ~Waits(g)
  BY <1>2, ScreenOK
<1> HIDE DEF g
<1>4. Settled(Front(history), requests)
  BY <1>1, <1>2, TopQuiet
<1>5. Settled(history, requests)
  <2>1. Stack(history, requests) /\ \A i \in 1..Len(history) - 1 : Covered(history[i])
    BY DEF Screens, Stack
  <2>2. Covered(history[Len(history)]) /\ Len(history) \in Nat
    BY <1>1, <1>2, CurrentIs DEF Covered
  <2>3. \A i \in 1..Len(history) : i = Len(history) \/ i \in 1..Len(history) - 1
    BY <2>2
  <2> QED BY <2>1, <2>2, <2>3 DEF Settled
<1>6. Screens' /\ ~Stranded'
  BY <1>1, <1>3, <1>5, Opened
<1>7. history' = Append(history, g) /\ history \in Seq(Frame)
  BY <1>1 DEF PushFrame, Screens, Stack
<1> QED BY <1>3, <1>6, <1>7, KeptAlong DEF Kept

LEMMA SubmitSearchStep == ASSUME Screens, SubmitSearch PROVE Screens' /\ Kept
<1>1. /\ ~Home /\ Current.mode = "search" /\ PushAndDispatch(Front(history), requests, "search", None)
      /\ "search" \in Kinds
  BY DEF SubmitSearch, OnMode, Kinds
<1>2. FrameOK(Current) /\ Current.asks = None /\ Current.shown = Nothing /\ Current = Last(history)
      /\ history \in Seq(Frame) /\ history # <<>>
  BY <1>1, CurrentIs DEF FrameOK, Current
<1>3. Settled(Front(history), requests)
  BY <1>1, <1>2, TopQuiet
<1>4. Idle # {} => \A i \in 1..Len(Front(history)) : Front(history)[i].asks # NextRequest
  BY <1>1, FrontIs, NextIs
<1>5. Screens' /\ ~Stranded' /\ \E g \in Frame : history' = Append(Front(history), g)
  BY <1>1, <1>3, <1>4, Dispatched
<1>6. ~Last(history).shown.whole
  BY <1>2 DEF Nothing
<1> QED BY <1>2, <1>5, <1>6, KeptTop DEF Kept

LEMMA VerifyChoiceStep == ASSUME Screens, VerifyChoice PROVE Screens' /\ Kept
<1> DEFINE f == Current
           g == [Current EXCEPT !.awaits = NextRequest, !.asks = NextRequest, !.loading = TRUE, !.verified = None]
           req == [UnusedRequest EXCEPT !.call = "resolve", !.profile = Current.choice]
<1>1. /\ ~Home /\ f.mode = "context" /\ ~f.loading /\ Idle # {}
      /\ history' = SetCurrent(g) /\ requests' = Ask(requests, req)
      /\ forwardHistory' = forwardHistory /\ config' = config /\ running' = running
  BY DEF VerifyChoice, Loaded, OnMode
<1>2. FrameOK(f) /\ f \in Frame /\ f.asks = None /\ f.shown = Nothing /\ ~f.refreshing /\ ~f.navigating
  BY <1>1, CurrentIs DEF FrameOK
<1>3. NextRequest \in Requests /\ Settled(Front(history), requests)
  BY <1>1, <1>2, NextIs, TopQuiet
<1>4. UnusedRequest \in Request /\ f.choice \in Profiles \cup {None}
  BY <1>2 DEF UnusedRequest, Request, Frame
<1>5. req \in Request
  BY <1>4 DEF Request
<1>6. req.call = "resolve"
  BY <1>4 DEF Request
<1> HIDE DEF f, req
<1> DEFINE g2 == [f EXCEPT !.awaits = NextRequest, !.asks = NextRequest, !.loading = TRUE, !.verified = None]
<1>7. g = g2
  BY DEF f
<1>8. g2 \in Frame
  <2> DEFINE g1 == [f EXCEPT !.verified = None]
  <2>1. f \in Frame
    BY <1>2
  <2>2. g1 \in Frame
    BY <2>1 DEF Frame
  <2>3. g2 = [g1 EXCEPT !.awaits = NextRequest, !.asks = NextRequest, !.loading = TRUE]
    BY <2>1 DEF Frame
  <2> HIDE DEF g1, g2
  <2>4. [g1 EXCEPT !.awaits = NextRequest, !.asks = NextRequest, !.loading = TRUE] \in Frame
    BY <1>3, <2>2 DEF Frame
  <2> QED BY <2>3, <2>4
<1>9. /\ g2.asks = NextRequest /\ g2.awaits = NextRequest /\ g2.loading = TRUE
      /\ g2.mode = f.mode /\ g2.shown = f.shown
      /\ g2.refreshing = f.refreshing /\ g2.navigating = f.navigating
  BY <1>2 DEF Frame
<1> HIDE DEF g, g2
<1>10. FrameOK(g2)
  BY <1>1, <1>2, <1>8, <1>9 DEF FrameOK, Nothing
<1>11. Covered(g2) /\ g2.mode = "context"
  BY <1>1, <1>9 DEF Covered
<1> QED BY <1>1, <1>3, <1>5, <1>6, <1>7, <1>8, <1>9, <1>10, <1>11, TopAsks

-----------------------------------------------------------------------------
(* Screens that are left, and those on which something is chosen *)

LEMMA AllReleased == ASSUME Screens PROVE Settled(<<>>, ReleasedAll)
<1> DEFINE rs == ReleasedAll
<1>1. requests \in [Requests -> Request] /\ Held(history, requests)
  BY DEF Screens, Stack
<1>2. rs = [r \in Requests |-> IF \E f \in ToSet(history) : f.asks = r THEN Released(requests[r]) ELSE requests[r]]
  BY DEF ReleasedAll
<1>3. \A r \in Requests : rs[r] = IF \E f \in ToSet(history) : f.asks = r THEN Released(requests[r]) ELSE requests[r]
  BY <1>2
<1>4. ASSUME NEW r \in Requests PROVE rs[r] \in Request
  <2>1. requests[r] \in Request /\ Released(requests[r]) \in Request
    BY <1>1, ReleaseIs
  <2> QED BY <1>3, <2>1
<1>5. rs \in [Requests -> Request]
  BY <1>2, <1>3, <1>4
<1>6. ASSUME NEW r \in Requests PROVE rs[r].phase = "unused" \/ rs[r].cancelled
  <2>1. CASE \E f \in ToSet(history) : f.asks = r
    BY <1>1, <1>3, <2>1, ReleaseIs
  <2>2. CASE ~\E f \in ToSet(history) : f.asks = r
    <3>1. rs[r] = requests[r]
      BY <1>3, <2>2
    <3>2. ~\E i \in DOMAIN history : history[i].asks = r
      BY <2>2 DEF ToSet
    <3> QED BY <1>1, <3>1, <3>2 DEF Held
  <2> QED BY <2>1, <2>2
<1> HIDE DEF rs
<1>7. Held(<<>>, rs)
  BY <1>6 DEF Held
<1>8. <<>> \in Seq(Frame) /\ Len(<<>>) = 0 /\ 1..0 = {} /\ 1..0 - 1 = {} /\ 0 <= MaxDepth
  BY BrowserAssumption
<1>9. Stack(<<>>, rs)
  BY <1>5, <1>7, <1>8 DEF Stack
<1> QED BY <1>8, <1>9 DEF Settled, rs

LEMMA LetGo ==
  ASSUME Screens, requests' = ReleasedAll, history' = <<>>, forwardHistory' = <<>>,
         config' \in Profiles \cup {None}, running' \in BOOLEAN
  PROVE  Screens' /\ Kept
<1>1. Stack(history', requests')
  BY AllReleased DEF Settled
<1>2. Behind(history', forwardHistory')
  <2>1. Len(history') = 0 /\ 0 <= MaxDepth /\ 0 \in Nat
    BY BrowserAssumption
  <2> QED BY <2>1, NothingAhead
<1>3. Screens'
  BY <1>1, <1>2, NewScreens
<1>4. history \in Seq(Frame)
  BY DEF Screens, Stack
<1>5. ~Stranded'
  BY DEF Stranded, Home
<1> QED BY <1>3, <1>4, <1>5, KeptAlong DEF Kept

LEMMA QuitStep == ASSUME Screens, Quit PROVE Screens' /\ Kept
<1>1. config' \in Profiles \cup {None} /\ running' \in BOOLEAN
  BY DEF Screens, Quit
<1> QED BY <1>1, LetGo DEF Quit

LEMMA CommandHomeStep == ASSUME Screens, CommandHome PROVE Screens' /\ Kept
<1>1. config' \in Profiles \cup {None} /\ running' \in BOOLEAN
  BY DEF Screens, CommandHome, GoHome
<1> QED BY <1>1, LetGo DEF CommandHome, GoHome

LEMMA ApplyChoiceStep == ASSUME Screens, ApplyChoice PROVE Screens' /\ Kept
<1>1. ~Home /\ ChoiceVerified(Current) /\ GoHome(Current.verified.profile)
  BY DEF ApplyChoice, Loaded, OnMode
<1>2. Current.verified \in Contexts
  BY <1>1, CurrentIs DEF ChoiceVerified, Frame
<1>3. Current.verified.profile \in Profiles
  BY <1>2 DEF Contexts
<1>4. config' \in Profiles \cup {None} /\ running' \in BOOLEAN
  BY <1>1, <1>3 DEF Screens, GoHome
<1> QED BY <1>1, <1>4, LetGo DEF GoHome

LEMMA BackStep == ASSUME Screens, Back PROVE Screens' /\ Kept
<1> DEFINE h == Front(history)
           g == FinishFrame(Current)
           k == Append(forwardHistory, g)
<1>1. /\ ~Home /\ history' = h /\ requests' = ReleasedTop /\ config' = config /\ running' = running
      /\ (forwardHistory' = k /\ Restorable(Current)) \/ forwardHistory' = forwardHistory
  BY DEF Back
<1>2. /\ history \in Seq(Frame) /\ history # <<>> /\ Len(history) \in Nat /\ Len(h) = Len(history) - 1
      /\ h \in Seq(Frame) /\ Settled(h, ReleasedTop)
  BY <1>1, CurrentIs, FrontIs, TopReleased
<1>3. Stack(history', requests') /\ (history' # <<>> => Live(Last(history'), forwardHistory', requests'))
  BY <1>1, <1>2, Rests
<1>4. FrameOK(g) /\ g \in Frame /\ g.asks = None /\ (Restorable(Current) => ~g.loading)
  BY <1>1, CurrentIs, FinishOK DEF Restorable
<1>5. /\ forwardHistory \in Seq(Frame) /\ Len(history) + Len(forwardHistory) <= MaxDepth
      /\ \A i \in 1..Len(forwardHistory) : 
            FrameOK(forwardHistory[i]) /\ forwardHistory[i].asks = None /\ ~forwardHistory[i].loading
  BY DEF Screens, Behind
<1>6. /\ k \in Seq(Frame) /\ Len(k) = Len(forwardHistory) + 1 /\ k[Len(forwardHistory) + 1] = g
      /\ Len(forwardHistory) \in Nat /\ \A i \in 1..Len(forwardHistory) : k[i] = forwardHistory[i]
  BY <1>4, <1>5, Pushed
<1> HIDE DEF h, g, k
<1>7. ASSUME Restorable(Current) PROVE Behind(h, k)
  <2>1. ASSUME NEW i \in 1..Len(k) PROVE FrameOK(k[i]) /\ k[i].asks = None /\ ~k[i].loading
    <3>1. CASE i = Len(forwardHistory) + 1
      BY <1>4, <1>6, <1>7, <3>1
    <3>2. CASE i \in 1..Len(forwardHistory)
      BY <1>5, <1>6, <3>2
    <3> QED BY <1>6, <3>1, <3>2
  <2>2. Len(h) + Len(k) <= MaxDepth
    BY <1>2, <1>5, <1>6, BrowserAssumption
  <2> QED BY <1>6, <2>1, <2>2 DEF Behind
<1>8. Behind(h, forwardHistory)
  <2>1. Len(h) \in Nat /\ Len(h) <= Len(history)
    BY <1>2
  <2> QED BY <1>2, <2>1, BehindKept DEF Screens
<1>9. config' \in Profiles \cup {None} /\ running' \in BOOLEAN
  BY <1>1 DEF Screens
<1>10. Screens'
  BY <1>1, <1>3, <1>7, <1>8, <1>9, NewScreens
<1>11. Len(history') < Len(history)
  BY <1>1, <1>2
<1> QED BY <1>1, <1>2, <1>10, <1>11, KeptAlong DEF h, Kept

LEMMA ForwardStep == ASSUME Screens, Forward PROVE Screens' /\ Kept
<1> DEFINE f == Last(forwardHistory)
           k == Front(forwardHistory)
<1>1. /\ forwardHistory # <<>> /\ Len(history) < MaxDepth /\ history' = Append(history, f)
      /\ forwardHistory' = k /\ requests' = requests /\ config' = config /\ running' = running
      /\ ~Home => ~Current.navigating
  BY DEF Forward, Free
<1>2. /\ forwardHistory \in Seq(Frame) /\ Len(history) + Len(forwardHistory) <= MaxDepth
      /\ \A i \in 1..Len(forwardHistory) : 
            FrameOK(forwardHistory[i]) /\ forwardHistory[i].asks = None /\ ~forwardHistory[i].loading
      /\ history \in Seq(Frame)
  BY DEF Screens, Behind, Stack
<1>3. /\ k \in Seq(Frame) /\ Len(forwardHistory) \in Nat /\ Len(forwardHistory) >= 1
      /\ Len(k) = Len(forwardHistory) - 1 /\ \A i \in 1..Len(forwardHistory) - 1 : k[i] = forwardHistory[i]
      /\ f = forwardHistory[Len(forwardHistory)] /\ f \in Frame
  BY <1>1, <1>2, Top
<1> HIDE DEF f, k
<1>4. FrameOK(f) /\ f.asks = None /\ ~Waits(f)
  BY <1>2, <1>3 DEF FrameOK, Waits
<1>5. Settled(history, requests)
  <2>1. Stack(history, requests) /\ \A i \in 1..Len(history) - 1 : Covered(history[i])
    BY DEF Screens, Stack
  <2>2. ASSUME ~Home PROVE Covered(history[Len(history)])
    BY <1>1, <2>2, CurrentIs DEF Live
  <2>3. Home => 1..Len(history) = {}
    BY DEF Home
  <2>4. Len(history) \in Nat /\ \A i \in 1..Len(history) : i = Len(history) \/ i \in 1..Len(history) - 1
    BY <1>2
  <2> QED BY <2>1, <2>2, <2>3, <2>4 DEF Settled
<1>6. Settled(history', requests')
  BY <1>1, <1>3, <1>4, <1>5, Unasking, PushSettled
<1>7. Stack(history', requests') /\ (history' # <<>> => Live(Last(history'), forwardHistory', requests'))
  BY <1>6, Rests
<1>8. Len(history') = Len(history) + 1 /\ Len(history) \in Nat
  BY <1>1, <1>2, <1>3, Pushed
<1>9. Behind(history', forwardHistory')
  <2>1. \A i \in 1..Len(k) : FrameOK(k[i]) /\ k[i].asks = None /\ ~k[i].loading
    BY <1>2, <1>3
  <2>2. Len(history') + Len(k) <= MaxDepth
    BY <1>2, <1>3, <1>8, BrowserAssumption
  <2> QED BY <1>1, <1>3, <2>1, <2>2 DEF Behind
<1>10. config' \in Profiles \cup {None} /\ running' \in BOOLEAN
  BY <1>1 DEF Screens
<1>11. Screens'
  BY <1>7, <1>9, <1>10, NewScreens
<1>12. ~Stranded'
  BY <1>1, <1>2, <1>3, <1>4, Pushed DEF Stranded, Current
<1> QED BY <1>1, <1>2, <1>3, <1>11, <1>12, KeptAlong DEF Kept

(* What the keys of the context screen leave as it is. *)
LEMMA ChosenOK ==
  ASSUME NEW f, FrameOK(f), f.mode = "context", NEW g \in Frame,
         g.asks = f.asks, g.awaits = f.awaits, g.mode = f.mode, g.loading = f.loading, g.shown = f.shown,
         g.refreshing = f.refreshing, g.navigating = f.navigating
  PROVE  FrameOK(g)
<1>1. f \in Frame /\ f.shown = Nothing
  BY DEF FrameOK
<1> QED BY <1>1 DEF FrameOK, Nothing

LEMMA ChooseProfileStep == ASSUME Screens, ChooseProfile PROVE Screens' /\ Kept
<1>1. /\ ~Home /\ Current.mode = "context" /\ ~Current.loading /\ requests' = requests
      /\ forwardHistory' = forwardHistory /\ config' = config /\ running' = running
  BY DEF ChooseProfile, Loaded, OnMode
<1>2. PICK query \in BOOLEAN, p \in Profiles \cup {None} :
         history' = SetCurrent([Current EXCEPT !.query = query, !.choice = p, !.verified = None])
  BY DEF ChooseProfile
<1> DEFINE f == Current
           g == [f EXCEPT !.query = query, !.choice = p, !.verified = None]
<1>3. FrameOK(f) /\ f.asks = None /\ f \in Frame /\ f.mode = "context"
      /\ ~f.loading /\ ~f.refreshing /\ ~f.navigating
  BY <1>1, CurrentIs DEF FrameOK
<1>4. Settled(Front(history), requests')
  BY <1>1, <1>3, TopQuiet
<1>5. history' = SetCurrent(g)
  BY <1>2
<1> HIDE DEF f
<1>6. g \in Frame
  <2> DEFINE g1 == [f EXCEPT !.query = query]
  <2>1. f \in Frame
    BY <1>3
  <2>2. g1 \in Frame
    BY <2>1 DEF Frame
  <2>3. g = [g1 EXCEPT !.choice = p, !.verified = None]
    BY <2>1 DEF Frame
  <2> HIDE DEF g1, g
  <2>4. [g1 EXCEPT !.choice = p, !.verified = None] \in Frame
    BY <2>2 DEF Frame
  <2> QED BY <2>3, <2>4
<1>7. /\ g.asks = f.asks /\ g.awaits = f.awaits /\ g.mode = f.mode /\ g.loading = f.loading
      /\ g.shown = f.shown /\ g.refreshing = f.refreshing /\ g.navigating = f.navigating
  BY <1>3 DEF Frame
<1> HIDE DEF g
<1>8. FrameOK(g)
  BY <1>3, <1>6, <1>7, ChosenOK
<1>9. g.asks = None /\ g.mode # "list" /\ ~Waits(g)
  BY <1>3, <1>7 DEF Waits
<1> QED BY <1>1, <1>4, <1>5, <1>6, <1>8, <1>9, TopRests

LEMMA ClearQueryStep == ASSUME Screens, ClearQuery PROVE Screens' /\ Kept
<1>1. /\ ~Home /\ Current.mode = "context" /\ requests' = requests
      /\ forwardHistory' = forwardHistory /\ config' = config /\ running' = running
  BY DEF ClearQuery, OnMode
<1>2. PICK p \in Profiles \cup {None} :
         history' = SetCurrent([Current EXCEPT !.query = FALSE, !.choice = p, !.verified = None])
  BY DEF ClearQuery
<1> DEFINE f == Current
           g == [f EXCEPT !.query = FALSE, !.choice = p, !.verified = None]
<1>3. FrameOK(f) /\ LinkOK(f, requests) /\ f \in Frame /\ f.mode = "context"
  BY <1>1, CurrentIs
<1>4. history' = SetCurrent(g)
  BY <1>2
<1> HIDE DEF f
<1>5. g \in Frame
  BY <1>3 DEF Frame
<1>6. /\ g.asks = f.asks /\ g.awaits = f.awaits /\ g.mode = f.mode /\ g.loading = f.loading
      /\ g.refreshing = f.refreshing /\ g.navigating = f.navigating /\ g.shown = f.shown
  BY <1>3 DEF Frame
<1> HIDE DEF g
<1>7. FrameOK(g)
  BY <1>3, <1>5, <1>6, ChosenOK
<1>8. LinkOK(g, requests)
  BY <1>3, <1>6 DEF LinkOK
<1>9. requests' \in [Requests -> Request] /\ Tame(requests, requests')
  BY <1>1 DEF Tame, Screens, Stack
<1> QED BY <1>1, <1>3, <1>4, <1>5, <1>6, <1>7, <1>8, <1>9, TopStays DEF f

-----------------------------------------------------------------------------
(* Messages *)

LEMMA AwaitedIs ==
  ASSUME Screens, NEW r \in Requests, Awaited(r)
  PROVE  /\ ~Home /\ Current.asks = r /\ r # None /\ FrameOK(Current) /\ Current \in Frame
         /\ LinkOK(Current, requests) /\ Current.mode \in {"list", "context"}
<1>1. ~Home /\ Current.awaits = r /\ r # None
  BY Mirrors DEF Awaited
<1>2. FrameOK(Current) /\ LinkOK(Current, requests) /\ Current \in Frame
  BY <1>1, CurrentIs
<1> QED BY <1>1, <1>2 DEF FrameOK

(* The request of a message is over, and the screen that awaits it has its answer. *)
LEMMA MessageRests ==
  ASSUME Screens, NEW r \in Requests, Awaited(r), requests' = Over(requests, r),
         NEW g \in Frame, FrameOK(g), g.asks = None, ~Waits(g),
         Current.shown.whole /\ g.mode = "list" => g.shown.whole,
         history' = SetCurrent(g), forwardHistory' = forwardHistory, config' = config, running' = running
  PROVE  Screens' /\ Kept
<1>1. ~Home
  BY DEF Awaited
<1>2. Settled(Front(history), requests')
  BY <1>1, TopOver
<1> QED BY <1>1, <1>2, TopRests

(* A message nobody awaits. *)
LEMMA MessageElsewhere ==
  ASSUME Screens, NEW r \in Requests, ~Awaited(r), requests' \in [Requests -> Request], Tame(requests, requests'),
         \A s \in Requests : s # r => requests'[s] = requests[s],
         requests'[r].phase # "unused" /\ ~requests'[r].cancelled =>
            requests[r].phase # "unused" /\ ~requests[r].cancelled,
         history' = history, forwardHistory' = forwardHistory, config' = config, running' = running
  PROVE  Screens' /\ Kept
<1>1. Stack(history, requests') /\ (~Home => Live(Current, forwardHistory, requests'))
  BY Elsewhere
<1>2. Behind(history, forwardHistory) /\ config \in Profiles \cup {None} /\ running \in BOOLEAN
  BY DEF Screens
<1>3. Screens'
  BY <1>1, <1>2 DEF Screens, Home, Current
<1>4. history \in Seq(Frame)
  BY DEF Screens, Stack
<1>5. ASSUME Stranded' PROVE Stranded
  <2>1. ~Home
    BY <1>5 DEF Stranded, Home
  <2>2. Current.asks # r /\ (Current.asks # None => Current.asks \in Requests)
    BY <2>1, CurrentIs DEF Awaited, FrameOK
  <2>3. Current' = Current
    BY DEF Current
  <2> QED BY <1>5, <2>1, <2>2, <2>3 DEF Stranded
<1> QED BY <1>3, <1>4, <1>5, KeptAlong DEF Kept

LEMMA MessageOver ==
  ASSUME Screens, NEW r \in Requests, ~Awaited(r), requests' = Over(requests, r),
         history' = history, forwardHistory' = forwardHistory, config' = config, running' = running
  PROVE  Screens' /\ Kept
<1>1. requests \in [Requests -> Request]
  BY DEF Screens, Stack
<1> QED BY <1>1, OverIs, MessageElsewhere

LEMMA FinishedOver ==
  ASSUME Screens, NEW r \in Requests, Awaited(r), Current.mode = "list", requests' = Over(requests, r),
         history' = SetCurrent(FinishFrame(Current)),
         forwardHistory' = forwardHistory, config' = config, running' = running
  PROVE  Screens' /\ Kept
<1>1. ~Home
  BY DEF Awaited
<1>2. /\ FrameOK(FinishFrame(Current)) /\ FinishFrame(Current) \in Frame /\ FinishFrame(Current).asks = None
      /\ FinishFrame(Current).shown = Current.shown /\ ~Waits(FinishFrame(Current))
  BY <1>1, CurrentIs, FinishOK
<1> QED BY <1>2, MessageRests

(* The stream of a request opens, in a context of its question ... *)
LEMMA ReadingStarts ==
  ASSUME NEW rs \in [Requests -> Request], NEW r \in Requests, rs[r].phase = "running",
         NEW c \in Contexts \cup {None}, c \in StreamContexts(rs[r].intent)
  PROVE  LET rs2 == [rs EXCEPT ![r].phase = "reading", ![r].context = c]
         IN  /\ rs2 \in [Requests -> Request] /\ rs2[r].phase = "reading"
             /\ Tame(rs, rs2) /\ \A s \in Requests : s # r => rs2[s] = rs[s]
<1> DEFINE rs2 == [rs EXCEPT ![r].phase = "reading", ![r].context = c]
           req == [rs[r] EXCEPT !.phase = "reading", !.context = c]
<1>1. rs[r] \in Request
  OBVIOUS
<1>2. req \in Request
  BY <1>1 DEF Request
<1>3. req.phase = "reading" /\ req.call = rs[r].call /\ req.intent = rs[r].intent /\ req.context = c
  BY <1>1 DEF Request
<1>4. rs2 = [rs EXCEPT ![r] = req]
  OBVIOUS
<1> HIDE DEF req
<1>5. rs2 \in [Requests -> Request] /\ rs2[r] = req /\ \A s \in Requests : s # r => rs2[s] = rs[s]
  BY <1>2, <1>4
<1> HIDE DEF rs2
<1>6. Tame(rs, rs2)
  <2> SUFFICES ASSUME NEW s \in Requests, rs2[s].phase # "unused"
               PROVE  /\ rs[s].phase # "unused" /\ rs2[s].call = rs[s].call /\ rs2[s].intent = rs[s].intent
                      /\ \/ rs2[s].phase \in {rs[s].phase, "dropped"} /\ rs2[s].context = rs[s].context
                         \/ /\ rs[s].phase = "running" /\ rs2[s].phase = "reading"
                            /\ rs2[s].context \in StreamContexts(rs[s].intent)
    BY DEF Tame
  <2>1. CASE s = r
    BY <1>3, <1>5, <2>1
  <2>2. CASE s # r
    BY <1>5, <2>2
  <2> QED BY <2>1, <2>2
<1> QED BY <1>3, <1>5, <1>6 DEF rs2

(* ... and one nobody reads stays open. *)
LEMMA NobodyReads ==
  ASSUME NEW rs \in [Requests -> Request], NEW r \in Requests, rs[r].phase # "unused"
  PROVE  LET rs2 == [rs EXCEPT ![r].phase = "dropped"]
         IN  /\ rs2 \in [Requests -> Request] /\ rs2[r].phase = "dropped" /\ rs2[r].cancelled = rs[r].cancelled
             /\ Tame(rs, rs2) /\ \A s \in Requests : s # r => rs2[s] = rs[s]
<1> DEFINE rs2 == [rs EXCEPT ![r].phase = "dropped"]
           req == [rs[r] EXCEPT !.phase = "dropped"]
<1>1. rs[r] \in Request
  OBVIOUS
<1>2. req \in Request
  BY <1>1 DEF Request
<1>3. /\ req.phase = "dropped" /\ req.call = rs[r].call /\ req.intent = rs[r].intent
      /\ req.cancelled = rs[r].cancelled /\ req.context = rs[r].context
  BY <1>1 DEF Request
<1>4. rs2 = [rs EXCEPT ![r] = req]
  OBVIOUS
<1> HIDE DEF req
<1>5. rs2 \in [Requests -> Request] /\ rs2[r] = req /\ \A s \in Requests : s # r => rs2[s] = rs[s]
  BY <1>2, <1>4
<1> HIDE DEF rs2
<1>6. Tame(rs, rs2)
  BY <1>3, <1>5 DEF Tame
<1> QED BY <1>3, <1>5, <1>6 DEF rs2

LEMMA IntentStartedStep ==
  ASSUME Screens, NEW r \in Requests, IntentStarted(r)
  PROVE  Screens' /\ Kept
<1>1. /\ requests[r].call = "dispatch" /\ requests[r].phase = "running"
      /\ forwardHistory' = forwardHistory /\ config' = config /\ running' = running
      /\ requests \in [Requests -> Request]
  BY DEF IntentStarted, Message, Screens, Stack
<1>2. CASE ~Awaited(r)
  BY <1>1, <1>2, MessageOver DEF IntentStarted
<1>3. CASE /\ Awaited(r) /\ history' = history
           /\ \E c \in StreamContexts(requests[r].intent) :
                 requests' = [requests EXCEPT ![r].phase = "reading", ![r].context = c]
  <2>0. PICK c \in StreamContexts(requests[r].intent) :
           requests' = [requests EXCEPT ![r].phase = "reading", ![r].context = c]
    BY <1>3
  <2>1. /\ ~Home /\ history \in Seq(Frame) /\ history # <<>> /\ Current \in Frame /\ FrameOK(Current)
        /\ LinkOK(Current, requests) /\ Current.asks = r
    BY <1>3, CurrentIs DEF Awaited, FrameOK
  <2>5. c \in Contexts \cup {None}
    BY DEF StreamContexts, ContextsOf
  <2>2. /\ requests' \in [Requests -> Request] /\ requests'[r].phase = "reading"
        /\ Tame(requests, requests') /\ \A s \in Requests : s # r => requests'[s] = requests[s]
    <3> DEFINE rs2 == [requests EXCEPT ![r].phase = "reading", ![r].context = c]
    <3>1. /\ rs2 \in [Requests -> Request] /\ rs2[r].phase = "reading"
          /\ Tame(requests, rs2) /\ \A s \in Requests : s # r => rs2[s] = requests[s]
      BY <1>1, <2>5, ReadingStarts
    <3>2. requests' = rs2
      BY <2>0
    <3> HIDE DEF rs2
    <3> QED BY <3>1, <3>2
  <2>3. LinkOK(Current, requests')
    BY <2>1, <2>2, LinkKept
  <2>4. history = SetCurrent(Current)
    BY <2>1, CurrentIs DEF SetCurrent
  <2> QED BY <1>1, <1>3, <2>1, <2>2, <2>3, <2>4, TopStays
<1>4. CASE Awaited(r) /\ requests' = Over(requests, r) /\ history' = SetCurrent(FinishFrame(Current))
  <2>1. Current.mode = "list"
    BY <1>1, <1>4, AwaitedIs DEF LinkOK
  <2> QED BY <1>1, <1>4, <2>1, FinishedOver
<1> QED BY <1>2, <1>3, <1>4 DEF IntentStarted

LEMMA ContextResolvedStep ==
  ASSUME Screens, NEW r \in Requests, ContextResolved(r)
  PROVE  Screens' /\ Kept
<1>1. /\ requests[r].call = "resolve" /\ requests[r].phase = "running" /\ requests' = Over(requests, r)
      /\ forwardHistory' = forwardHistory /\ config' = config /\ running' = running
  BY DEF ContextResolved, Message
<1>2. CASE ~Awaited(r)
  BY <1>1, <1>2, MessageOver DEF ContextResolved
<1>3. CASE Awaited(r)
  <2>1. PICK c \in ContextsOf(requests[r].profile) \cup {None} :
           history' = SetCurrent([Answered(Current) EXCEPT !.verified = c])
    BY <1>3 DEF ContextResolved
  <2>2. c \in Contexts \cup {None}
    BY DEF ContextsOf
  <2>3. Current.mode = "context" /\ FrameOK(Current)
    BY <1>1, <1>3, AwaitedIs DEF LinkOK
  <2> DEFINE a == Answered(Current)
             g == [Answered(Current) EXCEPT !.verified = c]
             g2 == [a EXCEPT !.verified = c]
  <2>4. FrameOK(a) /\ a \in Frame /\ a.asks = None /\ a.awaits = None /\ a.mode = "context" /\ a.shown = Nothing
        /\ ~a.loading /\ ~a.refreshing /\ ~a.navigating
    BY <2>3, AnsweredOK
  <2>5. history' = SetCurrent(g2)
    BY <2>1
  <2> HIDE DEF a
  <2>6. g2 \in Frame
    BY <2>2, <2>4 DEF Frame
  <2>7. g2.asks = None /\ g2.awaits = None /\ g2.mode = "context" /\ g2.shown = Nothing
        /\ ~g2.loading /\ ~g2.refreshing /\ ~g2.navigating
    BY <2>4 DEF Frame
  <2> HIDE DEF g2
  <2>8. FrameOK(g2) /\ ~Waits(g2)
    BY <2>6, <2>7 DEF FrameOK, Nothing, Waits
  <2> QED BY <1>1, <1>3, <2>5, <2>6, <2>7, <2>8, MessageRests
<1> QED BY <1>2, <1>3

LEMMA ContextChoicesStep ==
  ASSUME Screens, NEW r \in Requests, ContextChoices(r)
  PROVE  Screens' /\ Kept
<1>1. /\ requests[r].call = "choices" /\ requests[r].phase = "running" /\ requests' = Over(requests, r)
      /\ forwardHistory' = forwardHistory /\ config' = config /\ running' = running
  BY DEF ContextChoices, Message
<1>2. CASE ~Awaited(r)
  BY <1>1, <1>2, MessageOver DEF ContextChoices
<1>3. CASE Awaited(r)
  <2> DEFINE a == Answered(Current)
  <2>3. Current.mode = "context" /\ FrameOK(Current)
    BY <1>1, <1>3, AwaitedIs DEF LinkOK
  <2>4. FrameOK(a) /\ a \in Frame /\ a.asks = None /\ a.awaits = None /\ a.mode = "context" /\ a.shown = Nothing
        /\ ~a.loading /\ ~a.refreshing /\ ~a.navigating
    BY <2>3, AnsweredOK
  <2>5. CASE history' = SetCurrent(a)
    BY <1>1, <1>3, <2>4, <2>5, MessageRests DEF Waits
  <2>6. CASE \E p \in Profiles :
                history' = SetCurrent([Answered(Current) EXCEPT !.known = TRUE, !.choice = p, !.verified = None])
    <3>1. PICK p \in Profiles :
             history' = SetCurrent([Answered(Current) EXCEPT !.known = TRUE, !.choice = p, !.verified = None])
      BY <2>6
    <3> DEFINE g2 == [a EXCEPT !.known = TRUE, !.choice = p, !.verified = None]
    <3>2. history' = SetCurrent(g2)
      BY <3>1
    <3> HIDE DEF a
    <3>3. g2 \in Frame
      BY <2>4 DEF Frame
    <3>4. g2.asks = None /\ g2.awaits = None /\ g2.mode = "context" /\ g2.shown = Nothing
          /\ ~g2.loading /\ ~g2.refreshing /\ ~g2.navigating
      BY <2>4 DEF Frame
    <3> HIDE DEF g2
    <3>5. FrameOK(g2) /\ ~Waits(g2)
      BY <3>3, <3>4 DEF FrameOK, Nothing, Waits
    <3> QED BY <1>1, <1>3, <3>2, <3>3, <3>4, <3>5, MessageRests
  <2> QED BY <1>3, <2>5, <2>6 DEF ContextChoices
<1> QED BY <1>2, <1>3

LEMMA NavigationResolvedStep ==
  ASSUME Screens, NEW r \in Requests, NavigationResolved(r)
  PROVE  Screens' /\ Kept
<1>1. CASE /\ Awaited(r)
           /\ \E c \in ContextsOf(requests[r].profile) :
                 /\ SameIdentity(c, requests[r].hint)
                 /\ PushAndDispatch(SetCurrent(FinishFrame(Current)), Over(requests, r),
                                    "singleton", c)
  <2>1. PICK c \in ContextsOf(requests[r].profile) :
           PushAndDispatch(SetCurrent(FinishFrame(Current)), Over(requests, r), "singleton", c)
    BY <1>1 DEF SameIdentity
  <2>2. c \in Contexts /\ "singleton" \in Kinds
    BY DEF ContextsOf, Kinds
  <2> DEFINE h == Front(history)
             g == FinishFrame(Current)
             rs == Over(requests, r)
  <2>3. ~Home /\ Settled(h, rs) /\ Current.asks = r
    BY <1>1, TopOver, AwaitedIs
  <2>4. FrameOK(g) /\ g \in Frame /\ g.asks = None /\ g.shown = Current.shown
    BY <2>3, CurrentIs, FinishOK
  <2>5. /\ history \in Seq(Frame) /\ history # <<>> /\ Last(history) = Current
        /\ Len(h) < MaxDepth /\ Len(h) \in Nat /\ h \in Seq(Frame)
        /\ \A i \in 1..Len(h) : h[i] = history[i] /\ i \in 1..Len(history)
    BY <2>3, CurrentIs, FrontIs DEF Current
  <2> HIDE DEF g, h, rs
  <2>6. SetCurrent(g) = Append(h, g)
    BY <2>4, <2>5, Topped DEF SetCurrent, h
  <2>7. Settled(Append(h, g), rs)
    BY <2>3, <2>4, <2>5, Unasking, PushSettled
  <2>8. ASSUME Idle # {}, NEW i \in 1..Len(Append(h, g)) PROVE Append(h, g)[i].asks # NextRequest
    <3>1. NextRequest \in Requests /\ \A j \in 1..Len(history) : history[j].asks # NextRequest
      BY <2>8, NextIs
    <3>2. Len(Append(h, g)) = Len(h) + 1 /\ Append(h, g)[Len(h) + 1] = g
          /\ \A j \in 1..Len(h) : Append(h, g)[j] = h[j]
      BY <2>4, <2>5, Pushed
    <3>3. CASE i = Len(h) + 1
      BY <2>4, <3>1, <3>2, <3>3, Mirrors
    <3>4. CASE i \in 1..Len(h)
      BY <2>5, <3>1, <3>2, <3>4
    <3> QED BY <2>5, <3>2, <3>3, <3>4
  <2>9. PushAndDispatch(Append(h, g), rs, "singleton", c)
    BY <2>1, <2>6 DEF g, rs
  <2>10. Screens' /\ ~Stranded' /\ \E x \in Frame : history' = Append(Append(h, g), x)
    BY <2>2, <2>7, <2>8, <2>9, Dispatched
  <2>11. Last(history).shown.whole /\ g.mode = "list" => g.shown.whole
    BY <2>4, <2>5
  <2> QED BY <2>4, <2>5, <2>10, <2>11, KeptTop DEF h, Kept
<1>2. CASE /\ requests' = Over(requests, r)
           /\ history' = IF Awaited(r) THEN SetCurrent(FinishFrame(Current)) ELSE history
           /\ forwardHistory' = forwardHistory /\ config' = config /\ running' = running
  <2>1. CASE Awaited(r)
    <3>1. requests[r].call = "navigate" /\ requests[r].phase = "running"
      BY DEF NavigationResolved, Message
    <3>2. Current.mode = "list"
      BY <2>1, <3>1, AwaitedIs DEF LinkOK
    <3> QED BY <1>2, <2>1, <3>2, FinishedOver
  <2>2. CASE ~Awaited(r)
    BY <1>2, <2>2, MessageOver
  <2> QED BY <2>1, <2>2
<1> QED BY <1>1, <1>2 DEF NavigationResolved

(* An item of a stream, as the list that awaits it shows it. *)
LEMMA ShowIs ==
  ASSUME NEW f \in Frame, NEW req \in Request, NEW item \in Updates
  PROVE  LET g == ShowRows(f, req, item)
         IN  /\ g \in Frame /\ g.asks = f.asks /\ g.awaits = f.awaits /\ g.mode = f.mode /\ g.intent = f.intent
             /\ g.context = f.context
             /\ g.refreshing = f.refreshing /\ g.loading = f.loading /\ g.navigating = f.navigating
             /\ g.shown.of = req.intent /\ g.shown.context = req.context /\ (g.shown.whole <=> Whole(item))
<1>1. item.rows \in 0..MaxRows /\ req.intent \in Intents \cup {None} /\ req.context \in Contexts \cup {None}
  BY DEF Updates, Request
<1>2. PICK whole \in BOOLEAN : whole = Whole(item)
  <2>1. Whole(item) \in BOOLEAN
    BY DEF Whole
  <2> QED BY <2>1
<1> DEFINE projection == [of |-> req.intent, context |-> req.context, rows |-> item.rows, whole |-> whole]
           g == [f EXCEPT !.shown = projection]
<1>3. /\ projection \in Projections /\ projection.of = req.intent /\ projection.context = req.context
      /\ projection.whole = whole
  BY <1>1 DEF Projections
<1>4. ShowRows(f, req, item) = g
  BY <1>2 DEF ShowRows
<1> HIDE DEF projection
<1>5. g \in Frame
  BY <1>3 DEF Frame
<1>6. /\ g.asks = f.asks /\ g.awaits = f.awaits /\ g.mode = f.mode /\ g.intent = f.intent
      /\ g.context = f.context
      /\ g.refreshing = f.refreshing /\ g.loading = f.loading /\ g.navigating = f.navigating
      /\ g.shown = projection
  BY DEF Frame
<1> HIDE DEF g
<1>7. g.shown.of = req.intent /\ g.shown.context = req.context /\ (g.shown.whole <=> Whole(item))
  BY <1>2, <1>3, <1>6
<1> QED BY <1>4, <1>5, <1>6, <1>7

LEMMA InContext ==
  ASSUME NEW f \in Frame, NEW c \in Contexts \cup {None}
  PROVE  LET g == InContextOf(f, c)
         IN  /\ g \in Frame /\ g.asks = f.asks /\ g.awaits = f.awaits /\ g.mode = f.mode /\ g.intent = f.intent
             /\ g.context = (IF c = None THEN f.context ELSE c)
             /\ g.refreshing = f.refreshing /\ g.loading = f.loading /\ g.navigating = f.navigating
             /\ g.shown = f.shown
<1>1. CASE c = None
  BY <1>1 DEF InContextOf
<1>2. CASE c # None
  <2> DEFINE g == [f EXCEPT !.context = c]
  <2>1. g \in Frame
    BY DEF Frame
  <2>2. /\ g.asks = f.asks /\ g.awaits = f.awaits /\ g.mode = f.mode /\ g.intent = f.intent
        /\ g.context = c
        /\ g.refreshing = f.refreshing /\ g.loading = f.loading /\ g.navigating = f.navigating
        /\ g.shown = f.shown
    BY DEF Frame
  <2>3. InContextOf(f, c) = g
    BY <1>2 DEF InContextOf
  <2> HIDE DEF g
  <2> QED BY <1>2, <2>1, <2>2, <2>3
<1> QED BY <1>1, <1>2

(* The contexts an item names are of its question, and those of a query are of its key. *)
LEMMA NamedIs ==
  ASSUME NEW req \in Request, Plain(req.intent) => req.context \in ContextsOf(req.intent.profile),
         NEW item \in Updates, NEW c \in ContextsNamed(req, item)
  PROVE  /\ c \in Contexts \cup {None}
         /\ c # None /\ req.intent.profile # None => c.profile = req.intent.profile
         /\ Plain(req.intent) => /\ req.context # None /\ c \in {req.context, None}
                                 /\ item.rows # 0 \/ Whole(item) => c = req.context
<1>1. /\ item.rows \in 0..MaxRows
      /\ item.state = "ready" => item.rows > 0
  BY DEF Updates
<1>2. CASE Plain(req.intent)
  <2>1. req.context \in Contexts /\ (req.intent.profile # None => req.context.profile = req.intent.profile)
    BY <1>2 DEF ContextsOf
  <2>2. req.context # None
    BY <2>1, BrowserAssumption DEF Contexts
  <2>3. ContextsNamed(req, item) = {req.context} \cup IF item.rows = 0 /\ item.state # "empty" THEN {None} ELSE {}
    BY <1>2 DEF ContextsNamed, Plain
  <2>4. item.rows # 0 \/ Whole(item) => c = req.context
    BY <1>1, <2>3 DEF Whole
  <2> QED BY <1>2, <2>1, <2>2, <2>3, <2>4
<1>3. CASE ~Plain(req.intent) /\ req.intent.kind = "trace"
  <2>1. c \in ContextsOf(req.intent.profile) \cup {None}
    BY <1>3 DEF ContextsNamed
  <2> QED BY <1>3, <2>1 DEF ContextsOf
<1>4. CASE ~Plain(req.intent) /\ req.intent.kind # "trace"
  <2>1. c = None
    BY <1>4 DEF ContextsNamed
  <2> QED BY <1>4, <2>1
<1> QED BY <1>2, <1>3, <1>4

\* What an item of the stream of `req` may have made of the list `f`.
Itemized(f, g, req, item) ==
    /\ g \in Frame /\ g.asks = f.asks /\ g.awaits = f.awaits /\ g.mode = f.mode /\ g.intent = f.intent
    /\ g.refreshing = f.refreshing /\ g.loading = f.loading /\ g.navigating = f.navigating
    /\ g.shown.of # None =>
          /\ Asks(f.intent, g.shown.of)
          /\ Plain(g.shown.of) => g.shown.context # None /\ g.context = g.shown.context
          /\ ~f.refreshing => g.shown.of = req.intent /\ g.shown.context = req.context
    /\ f.intent.profile # None /\ g.context # None => g.context.profile = f.intent.profile
    /\ f.shown.whole => g.shown.whole
    /\ ~Terminal(item) /\ ~f.refreshing => ~g.shown.whole

LEMMA ItemApplied ==
  ASSUME NEW f, FrameOK(f), f.mode = "list", f.asks # None, ~f.navigating,
         NEW req \in Request, Asks(f.intent, req.intent),
         Plain(req.intent) => req.context \in ContextsOf(req.intent.profile),
         ~f.refreshing /\ f.shown.of # None => f.shown.of = req.intent /\ f.shown.context = req.context,
         NEW item \in Updates, NEW c \in ContextsNamed(req, item)
  PROVE  Itemized(f, ApplyUpdate(f, req, item, c), req, item)
<1>1. /\ f \in Frame /\ f.context \in Contexts \cup {None} /\ (f.refreshing \/ ~f.shown.whole)
      /\ f.intent.profile # None /\ f.context # None => f.context.profile = f.intent.profile
      /\ f.shown.of # None => /\ Asks(f.intent, f.shown.of)
                              /\ Plain(f.shown.of) => f.shown.context # None /\ f.context = f.shown.context
  BY DEF FrameOK, Frame, Asks
<1>2. /\ c \in Contexts \cup {None}
      /\ c # None /\ req.intent.profile # None => c.profile = req.intent.profile
      /\ Plain(req.intent) => /\ req.context # None /\ c \in {req.context, None}
                              /\ item.rows # 0 \/ Whole(item) => c = req.context
  BY NamedIs
<1>3. f.intent.profile # None /\ c # None => c.profile = f.intent.profile
  BY <1>2 DEF Asks
<1>4. Whole(item) => Terminal(item)
  BY DEF Whole, Terminal
<1> DEFINE g == InContextOf(f, c)
           sg == ShowRows(g, req, item)
<1>5. /\ g \in Frame /\ g.asks = f.asks /\ g.awaits = f.awaits /\ g.mode = f.mode /\ g.intent = f.intent
      /\ g.context = (IF c = None THEN f.context ELSE c)
      /\ g.refreshing = f.refreshing /\ g.loading = f.loading /\ g.navigating = f.navigating
      /\ g.shown = f.shown
  BY <1>1, <1>2, InContext
<1>6. f.intent.profile # None /\ g.context # None => g.context.profile = f.intent.profile
  BY <1>1, <1>3, <1>5
<1> HIDE DEF g
<1>7. /\ sg \in Frame /\ sg.asks = g.asks /\ sg.awaits = g.awaits /\ sg.mode = g.mode /\ sg.intent = g.intent
      /\ sg.context = g.context
      /\ sg.refreshing = g.refreshing /\ sg.loading = g.loading /\ sg.navigating = g.navigating
      /\ sg.shown.of = req.intent /\ sg.shown.context = req.context /\ (sg.shown.whole <=> Whole(item))
  BY <1>5, ShowIs
<1> HIDE DEF sg
<1>8. ASSUME item.rows # 0 \/ Whole(item), f.refreshing => Whole(item) PROVE Itemized(f, sg, req, item)
  <2>1. Plain(req.intent) => req.context # None /\ g.context = req.context
    BY <1>2, <1>5, <1>8
  <2> QED BY <1>1, <1>4, <1>5, <1>6, <1>7, <1>8, <2>1 DEF Itemized
<1>9. ASSUME ~f.refreshing PROVE Itemized(f, g, req, item)
  <2>1. f.shown.of # None /\ Plain(f.shown.of) => g.context = f.shown.context
    BY <1>1, <1>2, <1>5, <1>9
  <2> QED BY <1>1, <1>5, <1>6, <1>9, <2>1 DEF Itemized
<1>10. CASE f.refreshing /\ Whole(item)
  BY <1>8, <1>10 DEF ApplyUpdate, sg, g
<1>11. CASE f.refreshing /\ ~Whole(item)
  <2>1. ApplyUpdate(f, req, item, c) = f
    BY <1>11 DEF ApplyUpdate
  <2>2. Itemized(f, f, req, item)
    BY <1>1, <1>11 DEF Itemized
  <2> QED BY <2>1, <2>2
<1>12. CASE ~f.refreshing /\ (item.rows # 0 \/ Whole(item))
  BY <1>8, <1>12 DEF ApplyUpdate, sg, g
<1>13. CASE ~f.refreshing /\ ~(item.rows # 0 \/ Whole(item))
  BY <1>9, <1>13 DEF ApplyUpdate, g
<1> QED BY <1>10, <1>11, <1>12, <1>13

(* The list that goes on with its stream, and the one that has all of it. *)
LEMMA ItemizedOK ==
  ASSUME NEW f, FrameOK(f), f.mode = "list", NEW g, NEW req, NEW item, Itemized(f, g, req, item),
         NEW x \in Frame, x.awaits = x.asks, x.mode = "list", x.intent = g.intent,
         x.context = g.context, x.shown = g.shown, x.loading = g.loading,
         x.refreshing \/ x.navigating => x.asks # None,
         x.asks # None => x.refreshing \/ ~x.shown.whole
  PROVE  FrameOK(x)
<1>1. f.intent \in Intents /\ ~f.loading
  BY DEF FrameOK
<1>2. /\ x.intent = f.intent /\ ~x.loading
      /\ x.shown.of # None =>
            /\ Asks(f.intent, x.shown.of)
            /\ Plain(x.shown.of) => x.shown.context # None /\ x.context = x.shown.context
      /\ f.intent.profile # None /\ x.context # None => x.context.profile = f.intent.profile
  BY <1>1 DEF Itemized
<1> QED BY <1>1, <1>2 DEF FrameOK, Asks

LEMMA AllOfIt ==
  ASSUME NEW g \in Frame
  PROVE  LET x == FinishFrame([g EXCEPT !.terminal = TRUE])
         IN  /\ x \in Frame /\ x.asks = None /\ x.awaits = None /\ x.mode = g.mode /\ x.intent = g.intent
             /\ x.context = g.context /\ x.shown = g.shown /\ x.loading = g.loading
             /\ x.refreshing = FALSE /\ x.navigating = FALSE
<1> DEFINE t == [g EXCEPT !.terminal = TRUE]
           x == FinishFrame(t)
<1>1. t \in Frame
  BY DEF Frame
<1>2. /\ t.mode = g.mode /\ t.intent = g.intent /\ t.context = g.context /\ t.shown = g.shown
      /\ t.loading = g.loading
  BY DEF Frame
<1> HIDE DEF t
<1>3. /\ x \in Frame /\ x.asks = None /\ x.awaits = None /\ x.mode = t.mode /\ x.shown = t.shown
      /\ x.intent = t.intent /\ x.context = t.context /\ x.loading = t.loading
      /\ x.refreshing = FALSE /\ x.navigating = FALSE
  BY <1>1, FinishIs
<1> HIDE DEF x
<1> QED BY <1>2, <1>3 DEF x, t

LEMMA PromoteOK ==
  ASSUME NEW f, FrameOK(f), f.asks = None, ~Waits(f)
  PROVE  /\ FrameOK(Promote(f)) /\ Promote(f) \in Frame /\ Promote(f).asks = None /\ ~Waits(Promote(f))
         /\ Promote(f).mode = "list" => Promote(f).shown = f.shown
<1>1. f \in Frame /\ f.awaits = None /\ ~f.loading /\ ~f.refreshing /\ ~f.navigating
  BY DEF FrameOK, Waits
<1> DEFINE g == [f EXCEPT !.mode = "detail", !.shown = Nothing]
<1>2. g \in Frame
  BY <1>1, Mirrors DEF Frame
<1>3. /\ g.mode = "detail" /\ g.shown = Nothing /\ g.asks = None /\ g.awaits = None
      /\ ~g.loading /\ ~g.refreshing /\ ~g.navigating
  BY <1>1 DEF Frame
<1> HIDE DEF g
<1>4. FrameOK(g) /\ ~Waits(g)
  BY <1>2, <1>3 DEF FrameOK, Nothing, Waits
<1>5. Promote(f) = g \/ Promote(f) = f
  BY DEF Promote, g
<1> QED BY <1>1, <1>2, <1>3, <1>4, <1>5

LEMMA StreamItemStep ==
  ASSUME Screens, NEW r \in Requests, Awaited(r), Current.mode = "list", ~Current.navigating, requests[r].phase = "reading",
         NEW item \in Updates, NEW f, Itemized(Current, f, requests[r], item), StreamItem(r, f, item),
         forwardHistory' = forwardHistory, config' = config, running' = running
  PROVE  Screens' /\ Kept
<1>1. /\ ~Home /\ Current.asks = r /\ r # None /\ FrameOK(Current) /\ Current \in Frame
      /\ LinkOK(Current, requests) /\ history \in Seq(Frame) /\ history # <<>> /\ Len(history) \in Nat
  BY AwaitedIs, CurrentIs
<1>2. /\ f \in Frame /\ f.asks = Current.asks /\ f.awaits = Current.awaits /\ f.mode = "list"
      /\ f.intent = Current.intent /\ f.refreshing = Current.refreshing /\ f.loading = Current.loading
      /\ f.navigating = Current.navigating /\ (Current.shown.whole => f.shown.whole)
  BY DEF Itemized
<1> DEFINE x == FinishFrame([f EXCEPT !.terminal = TRUE])
<1>3. CASE Terminal(item) /\ history' = Front(history) /\ requests' = Over(requests, r)
  <2>1. Settled(history', requests')
    BY <1>3, <1>1, TopOver
  <2>2. Stack(history', requests') /\ (history' # <<>> => Live(Last(history'), forwardHistory', requests'))
    BY <2>1, Rests
  <2>3. Len(history') = Len(history) - 1 /\ Len(history') \in Nat
    BY <1>1, <1>3, FrontIs
  <2>4. Len(history') <= Len(history)
    BY <1>1, <2>3
  <2>5. Behind(history', forwardHistory')
    BY <1>1, <2>3, <2>4, BehindKept DEF Screens
  <2>6. config' \in Profiles \cup {None} /\ running' \in BOOLEAN
    BY DEF Screens
  <2>7. Screens'
    BY <2>2, <2>5, <2>6, NewScreens
  <2>8. Len(history') < Len(history)
    BY <1>1, <2>3
  <2> QED BY <1>1, <1>3, <2>7, <2>8, KeptAlong DEF Kept
<1>4. CASE /\ Terminal(item) /\ requests' = Over(requests, r)
           /\ history' = SetCurrent(IF f.refreshing THEN x ELSE Promote(x))
  <2>1. /\ x \in Frame /\ x.asks = None /\ x.awaits = None /\ x.mode = f.mode /\ x.intent = f.intent
        /\ x.context = f.context /\ x.shown = f.shown /\ x.loading = f.loading
        /\ x.refreshing = FALSE /\ x.navigating = FALSE
    BY <1>2, AllOfIt
  <2> HIDE DEF x
  <2>2. FrameOK(x) /\ ~Waits(x)
    <3>1. FrameOK(x)
      BY <1>1, <1>2, <2>1, ItemizedOK
    <3> QED BY <1>2, <2>1, <3>1 DEF Waits, FrameOK
  <2>3. /\ FrameOK(Promote(x)) /\ Promote(x) \in Frame /\ Promote(x).asks = None /\ ~Waits(Promote(x))
        /\ Promote(x).mode = "list" => Promote(x).shown = x.shown
    BY <2>1, <2>2, PromoteOK
  <2>4. CASE f.refreshing
    <3>1. history' = SetCurrent(x) /\ (Current.shown.whole => x.shown.whole)
      BY <1>2, <1>4, <2>1, <2>4
    <3> QED BY <1>4, <2>1, <2>2, <3>1, MessageRests
  <2>5. CASE ~f.refreshing
    <3>1. history' = SetCurrent(Promote(x))
          /\ (Current.shown.whole /\ Promote(x).mode = "list" => Promote(x).shown.whole)
      BY <1>2, <1>4, <2>1, <2>3, <2>5
    <3> QED BY <1>4, <2>3, <3>1, MessageRests
  <2> QED BY <2>4, <2>5
<1>5. CASE ~Terminal(item) /\ history' = SetCurrent(f) /\ requests' = requests
  <2>1. f.awaits = f.asks /\ (f.asks # None => f.refreshing \/ ~f.shown.whole)
    BY <1>1, <1>2, <1>5 DEF Itemized, FrameOK
  <2>2. FrameOK(f)
    <3>1. f.refreshing \/ f.navigating => f.asks # None
      BY <1>1, <1>2 DEF FrameOK
    <3> QED BY <1>1, <1>2, <2>1, <3>1, ItemizedOK
  <2>3. LinkOK(f, requests')
    BY <1>1, <1>2, <1>5 DEF LinkOK, Itemized
  <2>4. requests' \in [Requests -> Request] /\ Tame(requests, requests')
    BY <1>5 DEF Tame, Screens, Stack
  <2> QED BY <1>1, <1>2, <1>5, <2>2, <2>3, <2>4, TopStays
<1> QED BY <1>3, <1>4, <1>5 DEF StreamItem

LEMMA IntentStreamStep ==
  ASSUME Screens, NEW r \in Requests, IntentStream(r)
  PROVE  Screens' /\ Kept
<1>1. /\ requests[r].call = "dispatch" /\ requests[r].phase = "reading"
      /\ forwardHistory' = forwardHistory /\ config' = config /\ running' = running
      /\ requests \in [Requests -> Request]
  BY DEF IntentStream, Message, Screens, Stack
<1>2. CASE ~Awaited(r)
  <2>1. StreamDropped(r)
    BY <1>2 DEF IntentStream
  <2>2. CASE requests' = Over(requests, r)
    BY <1>1, <1>2, <2>1, <2>2, MessageOver DEF StreamDropped
  <2>3. CASE ~requests[r].cancelled /\ requests' = [requests EXCEPT ![r].phase = "dropped"]
    <3> DEFINE rs2 == [requests EXCEPT ![r].phase = "dropped"]
    <3>3. requests[r].phase # "unused"
      BY <1>1
    <3>4. /\ rs2 \in [Requests -> Request] /\ rs2[r].phase = "dropped" /\ rs2[r].cancelled = requests[r].cancelled
          /\ Tame(requests, rs2) /\ \A s \in Requests : s # r => rs2[s] = requests[s]
      BY <1>1, <3>3, NobodyReads
    <3>5. requests' = rs2
      BY <2>3
    <3> HIDE DEF rs2
    <3>1. /\ requests' \in [Requests -> Request] /\ requests'[r].cancelled = requests[r].cancelled
          /\ Tame(requests, requests') /\ \A s \in Requests : s # r => requests'[s] = requests[s]
      BY <3>4, <3>5
    <3>2. history' = history /\ requests[r].phase # "unused" /\ ~requests[r].cancelled
      BY <1>1, <2>1, <2>3 DEF StreamDropped
    <3> QED BY <1>1, <1>2, <3>1, <3>2, MessageElsewhere
  <2> QED BY <2>1, <2>2, <2>3 DEF StreamDropped
<1>3. CASE Awaited(r)
  <2>1. /\ Current.asks = r /\ r # None /\ FrameOK(Current) /\ LinkOK(Current, requests)
        /\ Current.mode \in {"list", "context"}
    BY <1>3, AwaitedIs
  <2>2. /\ Current.mode = "list" /\ ~Current.navigating /\ Current.asks # None
        /\ Asks(Current.intent, requests[r].intent) /\ requests[r] \in Request
        /\ Plain(requests[r].intent) => requests[r].context \in ContextsOf(requests[r].intent.profile)
        /\ ~Current.refreshing /\ Current.shown.of # None =>
              Current.shown.of = requests[r].intent /\ Current.shown.context = requests[r].context
    BY <1>1, <2>1 DEF LinkOK
  <2>3. CASE StreamClosed(r)
    BY <1>1, <1>3, <2>2, <2>3, FinishedOver DEF StreamClosed
  <2>4. CASE \E item \in Updates : \E c \in ContextsNamed(requests[r], item) :
                StreamItem(r, ApplyUpdate(Current, requests[r], item, c), item)
    <3>1. PICK item \in Updates : \E c \in ContextsNamed(requests[r], item) :
             StreamItem(r, ApplyUpdate(Current, requests[r], item, c), item)
      BY <2>4
    <3>2. PICK c \in ContextsNamed(requests[r], item) :
             StreamItem(r, ApplyUpdate(Current, requests[r], item, c), item)
      BY <3>1
    <3>3. Itemized(Current, ApplyUpdate(Current, requests[r], item, c), requests[r], item)
      BY <2>1, <2>2, ItemApplied
    <3> QED BY <1>1, <1>3, <2>2, <3>2, <3>3, StreamItemStep
  <2> QED BY <1>3, <2>3, <2>4 DEF IntentStream
<1> QED BY <1>2, <1>3

-----------------------------------------------------------------------------
(* The invariant holds *)

LEMMA InitScreens == Init => IInv
<1> SUFFICES ASSUME Init PROVE IInv
  OBVIOUS
<1>1. /\ forwardHistory = <<>> /\ running = TRUE /\ opened = Len(history)
  BY DEF Init
<1>2. UnusedRequest \in Request /\ UnusedRequest.phase = "unused"
  BY DEF UnusedRequest, Request
<1>3. CASE config \in Profiles /\ history = <<>> /\ requests = [r \in Requests |-> UnusedRequest]
  <2>1. /\ history \in Seq(Frame) /\ Len(history) = 0 /\ 1..Len(history) = {} /\ 1..Len(history) - 1 = {}
        /\ 0 <= MaxDepth /\ 0 \in 0..MaxOpened
    BY <1>3, BrowserAssumption
  <2>2. requests \in [Requests -> Request] /\ \A r \in Requests : requests[r].phase = "unused"
    BY <1>2, <1>3
  <2>3. Stack(history, requests)
    BY <2>1, <2>2 DEF Stack, Held
  <2>4. Behind(history, forwardHistory)
    BY <1>1, <2>1, NothingAhead
  <2> QED BY <1>1, <1>3, <2>1, <2>3, <2>4 DEF IInv, Screens, Home
<1>4. CASE /\ config = None
           /\ history = <<[NewFrame("context") EXCEPT !.awaits = 1, !.asks = 1, !.loading = TRUE]>>
           /\ requests = [r \in Requests |->
                 IF r = 1 THEN [UnusedRequest EXCEPT !.call = "choices", !.phase = "running"]
                 ELSE UnusedRequest]
  <2> DEFINE g == [NewFrame("context") EXCEPT !.awaits = 1, !.asks = 1, !.loading = TRUE]
             req == [UnusedRequest EXCEPT !.call = "choices", !.phase = "running"]
  <2>1. 1 \in Requests
    BY BrowserAssumption DEF Requests
  <2>2. FrameOK(g) /\ g \in Frame /\ g.asks = 1 /\ g.mode = "context" /\ g.loading
    BY <2>1, ContextOK
  <2>3. req \in Request
    BY <1>2 DEF Request
  <2>4. req.call = "choices" /\ req.phase = "running"
    BY <1>2 DEF Request
  <2>5. history = <<g>> /\ requests = [r \in Requests |-> IF r = 1 THEN req ELSE UnusedRequest]
    BY <1>4
  <2> HIDE DEF g, req
  <2>6. /\ requests \in [Requests -> Request] /\ requests[1] = req
        /\ \A r \in Requests : r # 1 => requests[r].phase = "unused"
    BY <1>2, <2>1, <2>3, <2>5
  <2>7. /\ history \in Seq(Frame) /\ Len(history) = 1 /\ history[1] = g /\ DOMAIN history = {1}
        /\ 1..Len(history) = {1} /\ 1..Len(history) - 1 = {} /\ 1 <= MaxDepth /\ history # <<>>
        /\ Last(history) = g /\ 1 \in 0..MaxOpened
    BY <2>2, <2>5, BrowserAssumption DEF Last
  <2>8. LinkOK(g, requests) /\ Covered(g)
    BY <2>2, <2>4, <2>6 DEF LinkOK, Covered
  <2>9. Held(history, requests)
    BY <2>2, <2>6, <2>7 DEF Held
  <2>10. Stack(history, requests)
    BY <2>2, <2>6, <2>7, <2>8, <2>9 DEF Stack
  <2>11. Behind(history, forwardHistory)
    <3>1. Len(history) \in Nat /\ Len(history) <= MaxDepth
      BY <2>7
    <3> QED BY <1>1, <3>1, NothingAhead
  <2> QED BY <1>1, <1>4, <2>7, <2>8, <2>10, <2>11 DEF IInv, Screens, Live, Current
<1> QED BY <1>1, <1>3, <1>4 DEF Init

LEMMA StutterKept == ASSUME IInv, UNCHANGED vars PROVE IInv' /\ Kept
<1>1. history \in Seq(Frame)
  BY DEF IInv, Screens, Stack
<1>2. history' = history /\ requests' = requests
  BY DEF vars
<1>3. Stranded' => Stranded
  BY <1>2 DEF Stranded, Home, Current
<1> QED BY <1>1, <1>2, <1>3, KeptAlong DEF Kept, IInv, Screens, Home, Current, vars

LEMMA NextKept == ASSUME IInv, Next PROVE IInv' /\ Kept
<1>1. Screens /\ opened \in 0..MaxOpened
  BY DEF IInv
<1>2. ASSUME Messages PROVE Screens' /\ Kept
  BY <1>1, <1>2, IntentStartedStep, IntentStreamStep, ContextChoicesStep, ContextResolvedStep,
     NavigationResolvedStep DEF Messages
<1>3. ASSUME Moves PROVE Screens' /\ Kept
  BY <1>1, <1>3, QuitStep, CommandHomeStep, BackStep, ForwardStep, CancelRefreshStep,
     CancelNavigationStep, ChooseProfileStep, ClearQueryStep, ApplyChoiceStep DEF Moves
<1>4. ASSUME Openings PROVE Screens' /\ Kept
  BY <1>1, <1>4, OpenCatalogStep, OpenSearchStep, OpenContextStep, RefreshStep, EnterRowStep,
     HydrateRowStep, EnterSnapshotRowStep, EnterDetailStep, ReadDetailStep, EnterPartStep,
     SubmitSearchStep, VerifyChoiceStep DEF Openings
<1>5. CASE (Messages \/ Moves) /\ opened' = opened
  BY <1>1, <1>2, <1>3, <1>5 DEF IInv
<1>6. CASE opened < MaxOpened /\ Openings /\ opened' = opened + 1
  <2>1. opened' \in 0..MaxOpened
    BY <1>1, <1>6, BrowserAssumption
  <2> QED BY <1>4, <1>6, <2>1 DEF IInv
<1> QED BY <1>5, <1>6 DEF Next

LEMMA ScreensKept == Spec => []IInv
<1>1. IInv /\ [Next]_vars => IInv'
  BY NextKept, StutterKept
<1> QED BY InitScreens, <1>1, PTL DEF Spec

LEMMA ScreensPromise ==
  IInv => TypeOK /\ LeftScreensLetGo /\ ShownAnswersItsQuestion /\ ShownInItsContext
<1> SUFFICES ASSUME IInv
             PROVE  TypeOK /\ LeftScreensLetGo /\ ShownAnswersItsQuestion /\ ShownInItsContext
  OBVIOUS
<1>1. /\ history \in Seq(Frame) /\ Len(history) <= MaxDepth /\ requests \in [Requests -> Request]
      /\ \A i \in 1..Len(history) : FrameOK(history[i])
      /\ \A i \in 1..Len(history) - 1 : Covered(history[i])
      /\ Held(history, requests)
  BY DEF IInv, Screens, Stack
<1>2. /\ forwardHistory \in Seq(Frame) /\ Len(history) + Len(forwardHistory) <= MaxDepth
      /\ \A i \in 1..Len(forwardHistory) : FrameOK(forwardHistory[i]) /\ forwardHistory[i].asks = None
  BY DEF IInv, Screens, Behind
<1>3. Len(history) \in Nat /\ Len(forwardHistory) \in Nat
      /\ DOMAIN history = 1..Len(history) /\ DOMAIN forwardHistory = 1..Len(forwardHistory)
  BY <1>1, <1>2
<1>4. TypeOK
  <2>1. Len(forwardHistory) <= MaxDepth
    BY <1>2, <1>3, BrowserAssumption
  <2> QED BY <1>1, <1>2, <2>1 DEF TypeOK, IInv, Screens
<1>5. \A f \in ToSet(history) \cup ToSet(forwardHistory) : FrameOK(f)
  BY <1>1, <1>2, <1>3 DEF ToSet
<1>6. NoRequestLeaks
  <2> SUFFICES ASSUME NEW r \in Requests, requests[r].phase # "unused", ~requests[r].cancelled
               PROVE  Holders(r) # {}
    BY DEF NoRequestLeaks
  <2> QED BY <1>1 DEF Held, Holders
<1>7. LeftScreensAskNothing
  <2>1. \A i \in 1..Len(history) - 1 :
           history[i].asks # None => history[i].refreshing \/ history[i].loading
    BY <1>1 DEF Covered
  <2>2. \A f \in ToSet(forwardHistory) : f.asks = None /\ f.awaits = None
    BY <1>2, <1>3 DEF ToSet, FrameOK
  <2> QED BY <2>1, <2>2 DEF LeftScreensAskNothing
<1>8. ShownAnswersItsQuestion
  BY <1>5 DEF ShownAnswersItsQuestion, FrameOK
<1>9. ShownInItsContext
  BY <1>5 DEF ShownInItsContext, FrameOK
<1> QED BY <1>4, <1>6, <1>7, <1>8, <1>9 DEF LeftScreensLetGo

-----------------------------------------------------------------------------
(* Theorems *)

\* The screens, the screens to go forward to and the requests are what they seem in every
\* state (model.go:57-130), with no more frames than the stack takes.
THEOREM BrowserTyped == Spec => []TypeOK
BY ScreensKept, ScreensPromise, PTL

\* Every way of leaving a screen (back, home, a new screen, a failed link, a promoted
\* summary, quitting) lets go of what it asked for: what still runs and is not cancelled
\* belongs to a frame of the stack, and a frame that was left asks nothing but a refresh
\* or a verification that forward has covered (model.go:1880).
THEOREM ScreensLetGo == Spec => []LeftScreensLetGo
BY ScreensKept, ScreensPromise, PTL

\* Whatever older or other requests deliver in between, a list shows rows that answer its
\* own question (a refreshed trace: a plain query of its target), those of a query in the
\* identity they were read in; no refresh takes the rows of a complete list but for another
\* complete answer; and a screen that waits has its answer under way, unless it was covered
\* while it loaded or refreshed and is come back to (model.go:204-330).
THEOREM ScreensAnswered == Spec => ScreensShowTheirAnswer
<1>1. IInv /\ [Next]_vars =>
         /\ [\A i \in DOMAIN history \cap DOMAIN history' :
                history[i].shown.whole /\ history'[i].mode = "list" => history'[i].shown.whole]_vars
         /\ [Stranded' => Stranded \/ Len(history') < Len(history)]_vars
  BY NextKept DEF Kept, WholeKept
<1> QED BY ScreensKept, ScreensPromise, <1>1, PTL
        DEF Spec, ScreensShowTheirAnswer, CompleteStaysComplete, StrandedOnlyByReturning

=============================================================================
