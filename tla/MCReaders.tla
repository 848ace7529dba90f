----------------------------- MODULE MCReaders -----------------------------
(* A small instance of Readers for TLC.                                    *)
EXTENDS Readers, TLC

CONSTANTS ColumnA, ColumnB, MaxLines, i1, i2, i3

(* Lines of one or two bytes, normalized forms of up to three, every kind  *)
(* of line, and headers that are and are not valid.                        *)
RowLine(s, o) == [kind |-> "row", size |-> s, out |-> o]
Other(k) == [kind |-> k, size |-> 1, out |-> 1]
Lines == {RowLine(1, 1), RowLine(2, 1), RowLine(1, 2), RowLine(1, 3)}
            \cup {Other(k) : k \in {"invalid", "blank", "ragged", "broken"}}
Headers == {<<>>, <<ColumnA>>, <<ColumnA, ColumnB>>, <<ColumnA, ColumnA>>, <<Blank>>}

SmallSources ==
    [format: Format, header: {<<ColumnA>>}, lines: SeqOf(Lines, MaxLines)]
        \cup [format: {"csv", "xlsx"}, header: Headers, lines: SeqOf({RowLine(1, 1)}, 1)]

(* Pages of a walk, pages far enough for the offset to wrap to a negative  *)
(* and to a positive number, and numbers below and beyond the range.       *)
SomePages == {1, 2, 3, 7, 15}
SomeSizes == {0, 1, 7}

(* Two instances of one service and one of another.                        *)
SomeServices == [i \in Instances |-> IF i = i3 THEN 2 ELSE 1]
=============================================================================
