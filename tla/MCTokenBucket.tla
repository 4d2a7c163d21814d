---- MODULE MCTokenBucket ----
(* Instances of TokenBucket for TLC. *)
EXTENDS TokenBucket, TLC

CONSTANTS p1, p2, o1, o2

\* RetryAfter is truncated under ThreeInTwo: less than a tick brings the
\* two parts of a token.
ThreeInTwo == [req |-> 3, win |-> 2, burst |-> 1]
OneInTwo   == [req |-> 1, win |-> 2, burst |-> 0]
OneInOne   == [req |-> 1, win |-> 1, burst |-> 1]
TwoInOne   == [req |-> 2, win |-> 1, burst |-> 1]
NoneInTwo  == [req |-> 0, win |-> 2, burst |-> 1]

ChangedLimits == {OneInOne, NoneInTwo}
NoLimits == {}

InvalidBatch == {-1}
NoBatches == {}

Symmetry == Permutations(Procs) \cup Permutations(Objects)

\* What the program's own state tells apart: no history that the run's
\* property does not read, and no fields of unreachable objects.
Live(f) == [o \in Objects |-> IF o \in Fresh THEN NoObject ELSE f[o]]

Program == <<clock, custom, table, Live(heap), mu, pc, call, closing, dropping>>

View == <<Program, Live(seen), advice, mark, Live(units)>>

\* Bounds: Close begins and ends in the first tick, and the observer starts
\* to count in the first or in the last one.
BoundedSpec ==
    /\ Init /\ mark \in {0, MaxTime}
    /\ [][Next /\ (closing' # {} => clock' = 0)]_vars
====
