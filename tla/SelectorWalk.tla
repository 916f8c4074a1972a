---------------------------- MODULE SelectorWalk ----------------------------
(***************************************************************************)
(* bb's selector (select.go): a walk through levels of choices, in one     *)
(* full-screen program or, for pipes and dumb terminals, line by line.     *)
(*                                                                         *)
(* A stage is what selectStages shows at a path of chosen values: how many *)
(* choices it has, whether they are only to be read, and whether they have *)
(* descriptions, which take a second line each.  A query leaves some of    *)
(* the choices, in the order of their rank.                                *)
(***************************************************************************)
EXTENDS Integers, Sequences, SequencesExt

CONSTANTS
    WalkStages,  \* the stage of each path that has one
    MaxRows      \* bound: lines the terminal leaves for choices

ASSUME WalkAssumption ==
    /\ <<>> \in DOMAIN WalkStages /\ MaxRows \in Nat \ {0}
    /\ \A path \in DOMAIN WalkStages :
          /\ path \in Seq(Nat)
          /\ WalkStages[path] \in [count : Nat, readOnly : BOOLEAN, described : BOOLEAN]

VARIABLES
    svLine,      \* the line-oriented selector is used
    svSize,      \* the terminal: its lines for choices, and whether it shows descriptions
    svStack,     \* the levels entered, the one shown last
    svPath,      \* the values chosen
    svOutcome    \* stageOutcome

walkVars == <<svLine, svSize, svStack, svPath, svOutcome>>

ValuesAt(path) == 1..WalkStages[path].count
Rankings(path) == {m \in SeqOf(ValuesAt(path), WalkStages[path].count) : IsInjective(m)}
InOrder(path) == [i \in ValuesAt(path) |-> i]

NoOutcome == [end |-> "none", path |-> <<>>]
Sizes == [rows : 1..MaxRows, wide : BOOLEAN]

\* newBubbleSelectorModel
NewLevel(path) == [at |-> path, query |-> FALSE, matches |-> InOrder(path), cursor |-> 0, offset |-> 0]

WalkTypeOK ==
    /\ svLine \in BOOLEAN /\ svSize \in Sizes
    /\ svPath \in DOMAIN WalkStages \/ svOutcome.end = "chosen"
    /\ \A i \in DOMAIN svStack :
          LET l == svStack[i]
          IN  /\ l.at \in DOMAIN WalkStages /\ l.matches \in Rankings(l.at)
              /\ l.query \in BOOLEAN /\ l.cursor \in Nat /\ l.offset \in Nat
              /\ ~l.query => l.matches = InOrder(l.at)
    /\ svOutcome.end \in {"none", "chosen", "cancelled", "interrupted", "failed"}

WalkInit ==
    /\ svLine \in BOOLEAN /\ svSize \in Sizes
    /\ svStack = <<NewLevel(<<>>)>> /\ svPath = <<>> /\ svOutcome = NoOutcome

-----------------------------------------------------------------------------
(* One level *)

\* pageSize
PageOf(level, size) ==
    IF size.wide /\ WalkStages[level.at].described /\ size.rows > 1 THEN size.rows \div 2 ELSE size.rows

AtMost(a, b) == IF a < b THEN a ELSE b
AtLeast(a, b) == IF a > b THEN a ELSE b

\* A bug of EnsureVisible: a page further down is left where it is.
EnsureVisible_UpOnly(level, size) == [level EXCEPT !.offset = AtMost(@, level.cursor)]

\* ensureVisible
EnsureVisible(level, size) ==
    LET page == PageOf(level, size)
        up   == AtMost(level.offset, level.cursor)
        down == IF level.cursor >= up + page THEN level.cursor - page + 1 ELSE up
    IN  [level EXCEPT !.offset = AtMost(down, AtLeast(0, Len(level.matches) - page))]

\* move
Moved(level, delta, size) ==
    IF level.matches = <<>> THEN level
    ELSE EnsureVisible([level EXCEPT !.cursor = AtMost(AtLeast(0, @ + delta), Len(level.matches) - 1)], size)

\* refreshMatches
Searched(level, query, matches) ==
    [level EXCEPT !.query = query, !.matches = matches, !.cursor = 0, !.offset = 0]

Top == svStack[Len(svStack)]
WalkShown == svOutcome = NoOutcome
Screen == WalkShown /\ ~svLine
TopBecomes(level) ==
    /\ svStack' = [svStack EXCEPT ![Len(svStack)] = level]
    /\ UNCHANGED <<svLine, svSize, svPath, svOutcome>>

WalkKey(delta) == Screen /\ TopBecomes(Moved(Top, delta, svSize))
WalkPage(up) == WalkKey(IF up THEN -PageOf(Top, svSize) ELSE PageOf(Top, svSize))
WalkHome == Screen /\ TopBecomes(EnsureVisible([Top EXCEPT !.cursor = 0], svSize))
WalkLast ==
    /\ Screen /\ Top.matches # <<>>
    /\ TopBecomes(EnsureVisible([Top EXCEPT !.cursor = Len(Top.matches) - 1], svSize))

\* A query typed or shortened; of blanks alone it leaves everything.
WalkType(query, matches) ==
    /\ Screen /\ matches \in Rankings(Top.at) /\ (~query => Top.query /\ matches = InOrder(Top.at))
    /\ TopBecomes(Searched(Top, query, matches))

\* A bug of Resized: only the level shown hears of it.
Resized_Top(stack, size) == [stack EXCEPT ![Len(stack)] = EnsureVisible(@, size)]
\* WindowSizeMsg reaches every level.
Resized(stack, size) == [i \in DOMAIN stack |-> EnsureVisible(stack[i], size)]

WalkResize(size) ==
    /\ Screen /\ svSize' = size /\ svStack' = Resized(svStack, size)
    /\ UNCHANGED <<svLine, svPath, svOutcome>>

-----------------------------------------------------------------------------
(* The walk *)

Ends(end, path) == svOutcome' = [end |-> end, path |-> path]

\* A bug of PathLeft: the value stays chosen.
PathLeft_Kept(path) == path
PathLeft(path) == Front(path)

\* esc, or an empty answer: back one level, out of the first.
Back ==
    /\ UNCHANGED <<svLine, svSize>>
    /\ IF Len(svStack) = 1 THEN Ends("cancelled", <<>>) /\ UNCHANGED <<svStack, svPath>>
       ELSE svStack' = Front(svStack) /\ svPath' = PathLeft(svPath) /\ UNCHANGED svOutcome

\* A value chosen: the next level, or the end where there is none or it is empty.
Chosen(value) ==
    /\ UNCHANGED <<svLine, svSize>>
    /\ svPath' = Append(svPath, value)
    /\ IF svPath' \in DOMAIN WalkStages /\ WalkStages[svPath'].count > 0
       THEN svStack' = Append(svStack, EnsureVisible(NewLevel(svPath'), svSize)) /\ UNCHANGED svOutcome
       ELSE UNCHANGED svStack /\ Ends("chosen", svPath')

ReadOnly == WalkStages[Top.at].readOnly

WalkEnter == Screen /\ ~ReadOnly /\ Top.matches # <<>> /\ Chosen(Top.matches[Top.cursor + 1])

\* esc clears a query first.
WalkEscape ==
    /\ Screen
    /\ IF Top.query THEN TopBecomes(Searched(Top, FALSE, InOrder(Top.at))) ELSE Back

WalkInterrupt == Screen /\ Ends("interrupted", <<>>) /\ UNCHANGED <<svLine, svSize, svStack, svPath>>

\* selectOnePlain and showStagePlain: a choice's number or name, nothing to go back, or
\* what is neither; only reading ignores what is typed.
WalkAnswer ==
    /\ WalkShown /\ svLine
    /\ \/ Back
       \/ ~ReadOnly /\ \E value \in ValuesAt(Top.at) : Chosen(value)
       \/ ~ReadOnly /\ Ends("failed", <<>>) /\ UNCHANGED <<svLine, svSize, svStack, svPath>>

WalkNext ==
    \/ \E delta \in {-1, 1} : WalkKey(delta)
    \/ \E up \in BOOLEAN : WalkPage(up)
    \/ WalkHome \/ WalkLast
    \/ \E query \in BOOLEAN, matches \in Rankings(Top.at) : WalkType(query, matches)
    \/ \E size \in Sizes : WalkResize(size)
    \/ WalkEnter \/ WalkEscape \/ WalkInterrupt \/ WalkAnswer

-----------------------------------------------------------------------------
(* Properties *)

\* Whatever was typed, entered and left, the path that comes out leads through levels that
\* may be chosen from, by choices of theirs, to where no level follows; both selectors
\* walk the same graph (select.go:566).
OutcomeIsAPath ==
    svOutcome.end = "chosen" =>
        /\ svOutcome.path \notin DOMAIN WalkStages \/ WalkStages[svOutcome.path].count = 0
        /\ \A i \in DOMAIN svOutcome.path :
              LET at == SubSeq(svOutcome.path, 1, i - 1)
              IN  /\ at \in DOMAIN WalkStages /\ ~WalkStages[at].readOnly
                  /\ svOutcome.path[i] \in ValuesAt(at)

\* The cursor of every level, also of those not shown, is on a row that its page shows:
\* nothing that enter would take, now or after going back, is out of sight (select.go:407,
\* 693).
CursorInSight ==
    \A i \in DOMAIN svStack :
        LET l == svStack[i]
        IN  l.matches # <<>> =>
                /\ l.cursor < Len(l.matches)
                /\ l.offset <= l.cursor /\ l.cursor < l.offset + PageOf(l, svSize)

\* A level that is gone back to has its query and its cursor as they were left ("pops back
\* to the previous one with its query and cursor intact", select.go:569).
LevelsKept ==
    [][\A i \in DOMAIN svStack \cap DOMAIN svStack' :
          i < Len(svStack) \/ Len(svStack') > Len(svStack) =>
             /\ svStack'[i].query = svStack[i].query /\ svStack'[i].matches = svStack[i].matches
             /\ svStack'[i].cursor = svStack[i].cursor]_walkVars

\* A walk comes out where it led, shows what it is about to choose, and goes back to what
\* was left.
WalkHolds == [](OutcomeIsAPath /\ CursorInSight) /\ LevelsKept

WalkSpec == WalkInit /\ [][WalkNext]_walkVars
=============================================================================
