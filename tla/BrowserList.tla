---------------------------- MODULE BrowserList ----------------------------
(***************************************************************************)
(* The cursor of a resource list (awsbrowser/model.go): rows arrive and    *)
(* are replaced while the person moves, filters and opens.  Rows are       *)
(* counted; what a filter matches is the number of rows it leaves.         *)
(***************************************************************************)
EXTENDS Integers

CONSTANT MaxListRows  \* bound: rows of a list

ASSUME ListAssumption == MaxListRows \in Nat

VARIABLES
    blRows, blMatches,    \* the rows, and how many of them the filter leaves
    blFilter,             \* filterActive, and whether filterValue is something
    blSelected,           \* the selected row, from 0
    blRefreshing,         \* a refresh is going on
    blCrashed             \* an index was out of range: the program ends

listVars == <<blRows, blMatches, blFilter, blSelected, blRefreshing, blCrashed>>

ListTypeOK ==
    /\ blRows \in 0..MaxListRows /\ blMatches \in 0..blRows
    /\ blFilter \in [active : BOOLEAN, value : BOOLEAN]
    /\ ~blFilter.value => blMatches = blRows
    /\ blSelected \in 0..MaxListRows
    /\ blRefreshing \in BOOLEAN /\ blCrashed \in BOOLEAN

ListInit ==
    /\ blRows = 0 /\ blMatches = 0 /\ blFilter = [active |-> FALSE, value |-> FALSE]
    /\ blSelected = 0 /\ blRefreshing = FALSE /\ blCrashed = FALSE

-----------------------------------------------------------------------------

\* model.go's clamp, its builtins min and max
Clamp(value, low, high) == IF value < low THEN low ELSE IF value > high THEN high ELSE value
LastOf(count) == IF count = 0 THEN 0 ELSE count - 1
\* A bug of Corrected: one past the last row is left.
Corrected_PastLast(selected, rows) == IF selected > rows THEN LastOf(rows) ELSE selected

\* applyIntentUpdate's correction of the selection
Corrected(selected, rows) == IF selected >= rows THEN LastOf(rows) ELSE selected

Move(delta) ==
    /\ blSelected' = Clamp(blSelected + delta, 0, LastOf(blMatches))
    /\ UNCHANGED <<blRows, blMatches, blFilter, blRefreshing, blCrashed>>

\* A bug of MoveTo: the end is the last of all rows.
MoveTo_LastRow(end) ==
    /\ blSelected' = IF end THEN LastOf(blRows) ELSE 0
    /\ UNCHANGED <<blRows, blMatches, blFilter, blRefreshing, blCrashed>>

MoveTo(end) ==
    /\ blSelected' = IF end THEN LastOf(blMatches) ELSE 0
    /\ UNCHANGED <<blRows, blMatches, blFilter, blRefreshing, blCrashed>>

\* Another filter: typed ('/' first, or at once), shortened, or cleared by esc.
FilterChanges(filter, matches) ==
    /\ filter # blFilter \/ filter.value
    /\ matches \in 0..blRows /\ (~filter.value => matches = blRows)
    /\ blFilter' = filter /\ blMatches' = matches
    /\ blSelected' = IF blFilter.value \/ filter.value THEN 0 ELSE blSelected
    /\ UNCHANGED <<blRows, blRefreshing, blCrashed>>

\* refreshCurrent keeps the rows and the selection; a refresh may end without a
\* result, or be cancelled.
RefreshStarts ==
    /\ ~blRefreshing /\ blRefreshing' = TRUE
    /\ UNCHANGED <<blRows, blMatches, blFilter, blSelected, blCrashed>>
RefreshEnds ==
    /\ blRefreshing /\ blRefreshing' = FALSE
    /\ UNCHANGED <<blRows, blMatches, blFilter, blSelected, blCrashed>>

\* applyIntentUpdate: other rows, of a partial result while loading or of the
\* whole one of a refresh; the filter stays and leaves some of them.
RowsArrive(rows, matches) ==
    /\ matches \in 0..rows /\ (~blFilter.value => matches = rows)
    /\ blRows' = rows /\ blMatches' = matches
    /\ blSelected' = Corrected(blSelected, rows)
    /\ blRefreshing' = FALSE
    /\ UNCHANGED <<blFilter, blCrashed>>

\* enterCurrent, openSelectedSnapshotEvidence, and the preview of a wide view index
\* the rows the filter leaves, if there are any.
OpenSelected ==
    /\ blMatches # 0
    /\ blCrashed' = (blSelected >= blMatches)
    /\ UNCHANGED <<blRows, blMatches, blFilter, blSelected, blRefreshing>>

ListNext ==
    /\ ~blCrashed
    /\ \/ \E delta \in {-MaxListRows, -1, 1, MaxListRows} : Move(delta)
       \/ \E end \in BOOLEAN : MoveTo(end)
       \/ \E filter \in [active : BOOLEAN, value : BOOLEAN], matches \in 0..MaxListRows :
             FilterChanges(filter, matches)
       \/ RefreshStarts \/ RefreshEnds
       \/ \E rows \in 0..MaxListRows, matches \in 0..MaxListRows : RowsArrive(rows, matches)
       \/ OpenSelected

ListSpec == ListInit /\ [][ListNext]_listVars

-----------------------------------------------------------------------------
(* Properties *)

SelectedIsShown == blSelected < blMatches \/ blSelected = 0

\* Nothing the person does takes the selection off the rows the filter shows: only
\* rows that arrive can (move, moveTo and resetFilteredSelection, model.go:1535,
\* 1563, 1780).
KeysKeepSelectionShown ==
    [][blRows' = blRows /\ (blMatches' = blMatches \/ blFilter' # blFilter) /\ SelectedIsShown
       => SelectedIsShown']_listVars

\* Without a filter, opening the selected row never fails, whatever arrives.
UnfilteredOpenSucceeds == ~blFilter.value /\ blRows # 0 => blSelected < blRows

\* What Enter opens is a row of the list ("`Enter`: opens the detail route of the
\* list's resource", aws-plan/DESIGN.md:243): the program never fails instead.
OpeningNeverFails == ~blCrashed

\* The selection of a list is a row of it, and one that the filter shows, as long as it
\* is the person who moves it (model.go:1535, 1780).
SelectionHolds == []UnfilteredOpenSucceeds /\ KeysKeepSelectionShown
=============================================================================
