--------------------------- MODULE MCTableTracking ---------------------------
(* A table with two rank pairs and one board that grows to the turn. *)
EXTENDS TableTracking

CONSTANTS r1, r2, nocards, none, v1, m1, c1, c2, c3, c4

MCRanks == {r1, r2}
MCCards == {c1, c2, c3, c4}
MCViews == {v1}
MCMarks == {m1}
MCReadings == Frame
MCBoards == {<<>>, <<c1, c2, c3>>, <<c1, c2, c3, c4>>}

=============================================================================
