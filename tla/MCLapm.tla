------------------------------- MODULE MCLapm -------------------------------
(* Small instances of Lapm for TLC.                                         *)
EXTENDS Lapm

\* An endpoint-indexed constant: its value at the originator, at the answerer.
Pair(o, a) == [e \in Endpoints |-> IF e = Originator THEN o ELSE a]

Both1 == Pair(1, 1)
Both2 == Pair(2, 2)
Orig1Ans2 == Pair(1, 2)
Orig0Ans3 == Pair(0, 3)
Orig2Ans1 == Pair(2, 1)
Orig1Ans3 == Pair(1, 3)
BothFalse == Pair(FALSE, FALSE)
BothTrue == Pair(TRUE, TRUE)
=============================================================================
