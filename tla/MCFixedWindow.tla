---- MODULE MCFixedWindow ----
(* Instances of FixedWindow for TLC. *)
EXTENDS FixedWindow, TLC

CONSTANTS p1, p2, o1, o2

TwoPerTwo == [req |-> 2, win |-> 2]
OnePerTwo == [req |-> 1, win |-> 2]
NoneInTwo == [req |-> 0, win |-> 2]

OtherLimits == {OnePerTwo, TwoPerTwo, NoneInTwo}

Batches == {-1, 2}

Symmetry == Permutations(Procs) \cup Permutations(Objects)

\* What the program's own state tells apart: no history that the run's
\* property does not read, and no fields of unreachable objects.
Live(f) == [o \in Objects |-> IF o \in Fresh THEN NoObject ELSE f[o]]

Program == <<clock, custom, table, Live(heap), mu, pc, call, closing>>

View == <<Program, inForce, advice, mark, Live(units)>>

\* Bounds: Close begins and ends in the first tick, and the observer counts
\* in the last one.
BoundedSpec ==
    /\ Init /\ mark = MaxTime
    /\ [][Next /\ (closing' # {} => clock' = 0)]_vars
====
