-------------------------------- MODULE Grid --------------------------------
(***************************************************************************)
(* The board of a match as the turns of a tick use it: cells with one      *)
(* content each, the window of cells around a unit, the distances the code *)
(* measures, and the search for a path.                                    *)
(***************************************************************************)
EXTENDS Integers, Sequences, FiniteSets, FiniteSetsExt, SequencesExt

CONSTANTS
  Rows, Cols     \* bound: size of the board

ASSUME SizeAssumption == {Rows, Cols} \subseteq Nat

Cell == (0..Rows - 1) \X (0..Cols - 1)

Nobody == <<"nobody">>
NoPath == << <<-1, -1>> >>

AbsDiff(x, y) == IF x < y THEN y - x ELSE x - y

Distance(a, b) == Max({AbsDiff(a[1], b[1]), AbsDiff(a[2], b[2])})

Adjacent(a, b) == Distance(a, b) = 1

SpanUnshifted(at, size, view) ==
  Max({0, at - view \div 2})..Min({at + view \div 2, size - 1})

\* The rows, or columns, of Board::center_view around at: shifted at the border of
\* the board, and one more than view in the middle when view is even.
Span(at, size, view) ==
  LET half == view \div 2
      low  == Max({0, at - half})
      high == IF low = 0 THEN Min({view - 1, size - 1}) ELSE Min({at + half, size - 1})
  IN  (IF high = size - 1 THEN size - view ELSE low)..high

CenterView(x, view) == Span(x[1], Rows, view[1]) \X Span(x[2], Cols, view[2])

\* The cell from which the search for a target measures: the middle of the
\* window, which at the border is not where the unit stands.
Middle(x, view) ==
  LET MiddleOf(span) == Min(span) + Cardinality(span) \div 2
  IN  <<MiddleOf(Span(x[1], Rows, view[1])), MiddleOf(Span(x[2], Cols, view[2]))>>

\* Among the cells of S those closest to a; the code takes the first of them
\* in its window.
Steps(a, b) == AbsDiff(a[1], b[1]) + AbsDiff(a[2], b[2])
Closest(a, S) == {x \in S : \A y \in S : Steps(a, x) <= Steps(a, y)}

\* Whatever stands on the goal is overwritten.
MovedOn(cells, a, b) == [cells EXCEPT ![a] = Nobody, ![b] = cells[a]]

\* The ways of n steps from a over open cells, without a detour around a
\* single cell.
WaysFrom(a, open) ==
  LET ways[n \in 0..Rows * Cols] ==
        IF n = 0 THEN {<<a>>}
        ELSE UNION {{Append(w, x) : x \in {y \in open :
                       /\ Adjacent(y, Last(w))
                       /\ \A i \in 1..n - 1 : Distance(y, w[i]) > 1}} : w \in ways[n - 1]}
  IN  ways

\* find_path_on_board: a shortest way over open cells to one next to the goal,
\* without start and goal; A* and its order among equals are left open, and so
\* is its limit of 100 cells, which a small board does not reach.
FindPath(a, goal, open) ==
  IF Distance(a, goal) <= 1 THEN {<<a>>}
  ELSE LET ways == WaysFrom(a, open)
           Arriving(n) == {w \in ways[n] : Adjacent(Last(w), goal)}
           lengths == {n \in 1..Rows * Cols : Arriving(n) # {}}
       IN  IF lengths = {} THEN {NoPath} ELSE {Tail(w) : w \in Arriving(Min(lengths))}

=============================================================================
