---- MODULE FixedWindow ----
(***************************************************************************)
(* pkg/ratelimiter/fixed_window.go: a counter per key that starts over at  *)
(* the first call a window or more after its start.                        *)
(***************************************************************************)
EXTENDS LimiterCalls

CONSTANT NoAdvice   \* no standing RetryAfter

ASSUME ObjectAssumption == NoObject \notin [count : Nat, start : Nat]

VARIABLES
    heap,       \* the fields of every fixedWindow object
    inForce,    \* history: limits that GetLimit could have returned
    units,      \* history: units each object admitted in the interval
    advice      \* history: the standing RetryAfter of every key

vars == <<base, heap, inForce, units, advice>>

history == <<inForce, units, advice>>

fixedWindow == [count : Nat, start : Time]

Advice == [lim : Limits, at : Nat]

Init ==
    /\ BaseInit
    /\ heap = [o \in Objects |-> [count |-> 0, start |-> 0]]
    /\ inForce = [k \in Keys |-> {DefaultLimit}]
    /\ units = [o \in Objects |-> 0]
    /\ advice = [k \in Keys |-> NoAdvice]

Prepare(p) == Approach(p) /\ UNCHANGED <<heap, history>>

Create(p, o) ==
    /\ StoreNew(p, o)
    /\ heap' = [heap EXCEPT ![o] = [count |-> 0, start |-> call[p].now]]
    /\ units' = [units EXCEPT ![o] = 0]
    /\ UNCHANGED <<inForce, advice>>

window(p) == heap[call[p].ptr]

\* Mutant: > for >=.
ExpiredLate(p) == call[p].now - window(p).start > call[p].lim.win

Expired(p) == call[p].now - window(p).start >= call[p].lim.win

\* Mutant: the counter is cleared and the old start kept.
RestartedInPlace(p) == [count |-> 0, start |-> window(p).start]

Restarted(p) == [count |-> 0, start |-> call[p].now]

Roll(p) ==
    /\ Within(p, "update", "check")
    /\ heap' = [heap EXCEPT ![call[p].ptr] =
                   IF Expired(p) THEN Restarted(p) ELSE @]
    /\ UNCHANGED history

\* Mutant: the test of AllowWithInfo, which ignores the batch size.
FitsOne(p) == window(p).count < call[p].lim.req

Fits(p) == window(p).count + call[p].n <= call[p].lim.req

Pass(p) ==
    /\ Within(p, "check", "commit")
    /\ Fits(p)
    /\ UNCHANGED <<heap, history>>

\* When the RetryAfter of a denial has gone by: time.Until(resetAt), 0 at
\* the least, counts from the moment of the denial.
RetryAt(p) ==
    LET resetAt == window(p).start + call[p].lim.win
    IN  IF resetAt > clock THEN resetAt ELSE clock

\* AllowWithInfo's answer is about the key when its object is still mapped.
Advised(p) ==
    IF call[p].info /\ table[call[p].key] = call[p].ptr
    THEN [advice EXCEPT ![call[p].key] =
             [lim |-> call[p].lim, at |-> RetryAt(p)]]
    ELSE advice

Deny(p) ==
    /\ Return(p, "check")
    /\ ~Fits(p)
    /\ advice' = Advised(p)
    /\ UNCHANGED <<heap, inForce, units>>

\* Ticks of an interval from mark on that is shorter than any window by
\* the age a clock reading may have.
InInterval(t) ==
    mark <= t /\ \A l \in Limits : t - mark < l.win - MaxStale

Commit(p) ==
    /\ Return(p, "commit")
    /\ heap' = [heap EXCEPT ![call[p].ptr].count = @ + call[p].n]
    /\ units' = IF InInterval(clock)
                THEN [units EXCEPT ![call[p].ptr] = @ + call[p].n]
                ELSE units
    /\ advice' = [advice EXCEPT ![call[p].key] = NoAdvice]
    /\ UNCHANGED inForce

Void(k) == advice' = [advice EXCEPT ![k] = NoAdvice]

Reset(k) == Delete(k) /\ Void(k) /\ UNCHANGED <<heap, inForce, units>>

SetLimit(k, l) ==
    /\ StoreLimit(k, l)
    /\ inForce' = [inForce EXCEPT ![k] = @ \cup {l}]
    /\ Void(k)
    /\ UNCHANGED <<heap, units>>

Close ==
    \/ CloseBegin /\ UNCHANGED <<heap, history>>
    \/ \E k \in Keys :
          /\ CloseObject(k) \/ CloseLimit(k)
          /\ Void(k)
          /\ UNCHANGED <<heap, inForce, units>>

Step(p) ==
    \/ Prepare(p)
    \/ \E o \in Fresh : Create(p, o)
    \/ Roll(p)
    \/ Pass(p)
    \/ Deny(p)
    \/ Commit(p)

Admin ==
    \/ \E k \in Keys : Reset(k) \/ \E l \in LimitArgs : SetLimit(k, l)
    \/ Close

PassTime == Tick /\ UNCHANGED <<heap, history>>

Next == (\E p \in Procs : Step(p)) \/ Admin \/ PassTime

Spec == Init /\ [][Next]_vars

----------------------------------------------------------------------------

\* Types.  A counter is never negative: AllowN lets no batch of zero or
\* fewer units reach it.
TypeOK ==
    /\ BaseTypeOK
    /\ heap \in [Objects -> fixedWindow]
    /\ inForce \in [Keys -> SUBSET Limits]
    /\ units \in [Objects -> Nat]
    /\ advice \in [Keys -> Advice \cup {NoAdvice}]

\* However calls, limit changes and resets interleave, the counter behind a
\* key never exceeds every limit that has been in force for the key: the
\* check and the increment of AllowN and AllowWithInfo stay one unit.
QuotaHeld ==
    \A k \in Keys : table[k] # NoObject =>
        \E l \in inForce[k] : heap[table[k]].count <= l.req

\* The boundary burst has a ceiling in real time: in an interval shorter
\* than a window, less the age a clock reading may have, one window object
\* admits at most two limits' worth of units, whatever the order in which
\* the calls that read the clock reach the mutex (AllowN, AllowWithInfo).
BurstBound ==
    \A o \in Objects : \E l, m \in Limits : units[o] <= l.req + m.req

\* RetryAfter is honest: a single request made when the time AllowWithInfo
\* named has come, under the limit that was told and with nobody served
\* since, is not denied again.
RetryPromise ==
    [][\A p \in Procs :
          Deny(p) => ~ /\ call[p].ptr = table[call[p].key]
                       /\ call[p].n = 1
                       /\ advice[call[p].key] # NoAdvice
                       /\ call[p].lim = advice[call[p].key].lim
                       /\ call[p].now >= advice[call[p].key].at]_vars

\* The concurrent code implements the atomic counter of WindowCounter:
\* calls that hold an object Reset or Close has unmapped change no key.
cellOf == [k \in Keys |-> IF table[k] = NoObject
                          THEN NoObject
                          ELSE heap[table[k]]]

Counter == INSTANCE WindowCounter WITH
               cell <- cellOf, Closed <- NoObject, Times <- Time

CountsPerKey == Counter!CounterSpec
====
