---- MODULE MCRedisLimiter ----
(* Instances of RedisLimiter for TLC. *)
EXTENDS RedisLimiter, TLC

CONSTANTS p1, p2, x1, x2, x3, n1, n2

OnePerTwo == [req |-> 1, win |-> 2]

TwoPerTwo == [req |-> 2, win |-> 2]

OtherLimit == {TwoPerTwo, [req |-> 0, win |-> 2]}
NoLimits == {}
NoBatches == {}
Batches == {-1, 1}

OneNode == [x \in PhysicalKeys |-> n1]
ByAlgorithm == [x \in PhysicalKeys |-> IF x[1] = "sliding" THEN n1 ELSE n2]

Symmetry == Permutations(Nonces)

\* A call whose last attempt has left the net can only return, and an answer
\* lets an earlier attempt's do so; an advice that comes due after the last
\* tick tells nothing.
View ==
    LET seenCall(c) ==
          IF c = NoCall THEN c
          ELSE IF c.try = MaxTries /\ [req |-> c.req, try |-> c.try] \notin net
          THEN <<c.req.nonce, c.req.sent>>
          ELSE [c EXCEPT !.answer = IF c.try = MaxTries \/ @ = "none"
                                    THEN "none" ELSE "allowed"]
        due(a) == IF a = NoAdvice \/ a.at > mark + Skew THEN NoAdvice ELSE a
    IN  <<clock, offset, custom, logs, counters, net, reset, mark, units,
          [p \in Procs |-> seenCall(call[p])], [k \in Keys |-> due(advice[k])]>>

\* Bounds: one process's clock is ahead of the other's, and in the first tick
\* its limit changes before it is used, or a Reset begins and ends.  The observer
\* counts in a later tick, in the last one if there is a Reset, and time stops
\* there.
BoundedSpec ==
    /\ Init /\ mark > 0
    /\ offset[p1] = 0 /\ offset[p2] = Skew
    /\ [][/\ Next
          /\ clock' <= mark
          /\ (reset' # NoReset =>
                 clock' = 0 /\ mark = MaxTime /\ custom'[p2] = custom'[p1])
          /\ (custom' # custom =>
                 /\ clock = 0 /\ Underway = {} /\ net = {}
                 /\ custom'[p1] = custom[p1])]_vars
====
