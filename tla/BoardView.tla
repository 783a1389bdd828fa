----------------------------- MODULE BoardView -----------------------------
(***************************************************************************)
(* What a client gets to see of the board: the window around its champion, *)
(* each cell as one value, run-length encoded by the server and decoded    *)
(* by the client into a grid of a fixed size.  An animation that is drawn  *)
(* on a cell hides its content; those are left to Projectiles.             *)
(***************************************************************************)
EXTENDS Grid

CONSTANT View    \* rows and columns of the client's grid

ASSUME ViewAssumption == View \in (1..Rows) \X (1..Cols) /\ {View[1] % 2, View[2] % 2} = {1}

\* The eighths of its health a minion has left: the ceiling, at least one.
HealthLevel(health, full) == Max({1, Min({8, (8 * health + full - 1) \div full})})

MinionValue(team, level) == <<"minion", team, level>>

\* EncodedCellValue: champions and towers show neither name nor side; levels are
\* those of the minions that have a record.
EncodedValue(content, terrain, levels) ==
  IF content = Nobody THEN <<terrain>>
  ELSE IF content[1] = "minion"
  THEN IF content[2] \in DOMAIN levels THEN MinionValue(content[3], levels[content[2]])
       ELSE <<"placeholder">>
  ELSE IF content[1] = "base" THEN <<"base", content[3]>>
  ELSE <<content[1]>>

\* The cells of the window, row by row.
Flattened(x) ==
  LET rows  == Span(x[1], Rows, View[1])
      cols  == Span(x[2], Cols, View[2])
      width == Cardinality(cols)
  IN  [i \in 1..Cardinality(rows) * width |->
         <<Min(rows) + ((i - 1) \div width), Min(cols) + ((i - 1) % width)>>]

\* The loop of run_length_encode after i cells: the runs that are complete, and how
\* many cells the run of the i-th has so far.
Runs(values) ==
  LET loop[i \in 1..Len(values)] ==
        LET before == loop[i - 1]
        IN  IF i = 1 THEN [rle |-> <<>>, count |-> 1]
            ELSE IF values[i] = values[i - 1] THEN [before EXCEPT !.count = @ + 1]
            ELSE [rle |-> Append(before.rle, <<values[i - 1], before.count>>), count |-> 1]
  IN  loop

RunLengthEncode(values) ==
  LET last == Runs(values)[Len(values)]
  IN  IF values = <<>> THEN <<>> ELSE Append(last.rle, <<Last(values), last.count>>)

\* DecodeRLE, before its copy into the grid: the values of the first k runs.
Decoded(runs) ==
  LET decoded[k \in 0..Len(runs)] ==
        IF k = 0 THEN <<>> ELSE decoded[k - 1] \o [i \in 1..runs[k][2] |-> runs[k][1]]
  IN  decoded

DecodeRLE(runs) == Decoded(runs)[Len(runs)]

=============================================================================
