---- MODULE MCSlidingWindow ----
(* Instances of SlidingWindow for TLC. *)
EXTENDS SlidingWindow, TLC

CONSTANTS p1, p2, o1, o2

OnePerOne == [req |-> 1, win |-> 1]
OnePerTwo == [req |-> 1, win |-> 2]
TwoPerOne == [req |-> 2, win |-> 1]
TwoPerTwo == [req |-> 2, win |-> 2]
NoneInTwo == [req |-> 0, win |-> 2]

LowerLimit == {OnePerTwo, NoneInTwo}
NoLimits == {}

NoBatches == {}
InvalidBatch == {-1}
BatchOfTwo == {2}

Symmetry == Permutations(Procs) \cup Permutations(Objects)

\* What the program's own state tells apart: of a log the order of its
\* entries, no fields of unreachable objects, and no history that the
\* run's property does not read.
Visited == IF visit = NoVisit THEN {} ELSE {visit.ptr}

Live(f) == [o \in Objects |-> IF o \in Fresh \ Visited THEN NoObject ELSE f[o]]

Slice(l) ==
    {[pos |-> Cardinality({f \in l.timestamps : f.pos <= e.pos}), at |-> e.at] :
        e \in l.timestamps}

Slices == [o \in Objects |-> Slice(heap[o])]

Program ==
    <<clock, custom, table, Live(Slices), mu, pc, call, closing, visit>>

View == <<Program, advice, mark, Live(units)>>

\* Bounds: Close begins and ends in the first tick, and the observer counts
\* in the last one.
BoundedSpec ==
    /\ Init /\ mark = MaxTime
    /\ [][Next /\ (closing' # {} => clock' = 0)]_vars

BoundedFairSpec == BoundedSpec /\ Fairness
====
