---- MODULE TokenBucket ----
(***************************************************************************)
(* pkg/ratelimiter/token_bucket.go: a bucket per key that is refilled when *)
(* it is used.  Calls reach the mutex of a bucket in any order, so the     *)
(* time since the last refill may be negative; the code then takes tokens  *)
(* away and moves the refill time back.                                    *)
(*                                                                         *)
(* Fractions of a token are exact: a token of a bucket with limit l counts *)
(* l.win parts, and a tick refills l.req parts.  Rounding of floating      *)
(* point numbers is not modelled, except that RetryAfter is truncated.     *)
(***************************************************************************)
EXTENDS LimiterCalls

CONSTANT NoAdvice   \* no standing RetryAfter

\* SetLimit accepts any BurstSize; no caller gives a negative one.
ASSUME BurstAssumption == \A l \in LimitArgs \cup {DefaultLimit} : l.burst \in Nat

ASSUME AdviceAssumption == NoAdvice \notin Nat

ASSUME ObjectAssumption ==
    NoObject \notin [credit : Int, lim : Limits, asOf : Int]

VARIABLES
    heap,       \* the fields of every tokenBucket object
    dropping,   \* keys whose SetLimit has stored the limit but not yet
                \* deleted the bucket
    seen,       \* history: the latest clock reading a bucket was used with
    units,      \* history: units each object admitted from mark on
    advice      \* history: when the standing RetryAfter of a key has passed

vars == <<base, heap, dropping, seen, units, advice>>

history == <<seen, units, advice>>

capacity(l) == l.win * (IF l.burst = 0 THEN l.req ELSE l.burst)

tokenBucket == [tokens : Int, lim : Limits, last : Time]

Init ==
    /\ BaseInit
    /\ heap = [o \in Objects |-> [tokens |-> 0, lim |-> DefaultLimit, last |-> 0]]
    /\ dropping = {}
    /\ seen = [o \in Objects |-> 0]
    /\ units = [o \in Objects |-> 0]
    /\ advice = [k \in Keys |-> NoAdvice]

Prepare(p) == Approach(p) /\ UNCHANGED <<heap, dropping, history>>

FullBucket(p) == [tokens |-> capacity(call[p].lim), lim |-> call[p].lim,
                  last |-> call[p].now]

Create(p, o) ==
    /\ StoreNew(p, o)
    /\ heap' = [heap EXCEPT ![o] = FullBucket(p)]
    /\ seen' = [seen EXCEPT ![o] = call[p].now]
    /\ units' = [units EXCEPT ![o] = 0]
    /\ UNCHANGED <<dropping, advice>>

bucket(p) == heap[call[p].ptr]

elapsed(p) == call[p].now - bucket(p).last

Capped(l, tokens) == IF tokens > capacity(l) THEN capacity(l) ELSE tokens

\* Mutant: no cap.
RefillUncapped(p) == bucket(p).tokens + elapsed(p) * bucket(p).lim.req

\* Mutant: a negative elapsed time counts as zero.
RefillForward(p) ==
    Capped(bucket(p).lim, bucket(p).tokens
              + (IF elapsed(p) > 0 THEN elapsed(p) ELSE 0) * bucket(p).lim.req)

Refilled(p) ==
    Capped(bucket(p).lim, bucket(p).tokens + elapsed(p) * bucket(p).lim.req)

Refill(p) ==
    /\ Within(p, "update", "check")
    /\ heap' = [heap EXCEPT ![call[p].ptr].tokens = Refilled(p),
                            ![call[p].ptr].last = call[p].now]
    /\ seen' = [seen EXCEPT ![call[p].ptr] =
                   IF call[p].now > @ THEN call[p].now ELSE @]
    /\ UNCHANGED <<dropping, units, advice>>

cost(p) == call[p].n * bucket(p).lim.win

\* Mutant: > for >=.
EnoughAndMore(p) == bucket(p).tokens > cost(p)

\* Mutant: the last unit is not asked for.
EnoughButOne(p) == bucket(p).tokens >= (call[p].n - 1) * bucket(p).lim.win

Enough(p) == bucket(p).tokens >= cost(p)

Pass(p) ==
    /\ Within(p, "check", "commit")
    /\ Enough(p)
    /\ UNCHANGED <<heap, dropping, history>>

\* When the RetryAfter of a denial has gone by: the time until one token is
\* there, truncated to a whole number, from the moment of the denial.
RetryAt(p) ==
    clock + (bucket(p).lim.win - bucket(p).tokens) \div bucket(p).lim.req

Advised(p) ==
    IF call[p].info /\ table[call[p].key] = call[p].ptr
    THEN [advice EXCEPT ![call[p].key] = RetryAt(p)]
    ELSE advice

Deny(p) ==
    /\ Return(p, "check")
    /\ ~Enough(p)
    /\ advice' = Advised(p)
    /\ UNCHANGED <<heap, dropping, seen, units>>

Consume(p) ==
    /\ Return(p, "commit")
    /\ heap' = [heap EXCEPT ![call[p].ptr].tokens = @ - cost(p)]
    /\ units' = IF clock >= mark
                THEN [units EXCEPT ![call[p].ptr] = @ + call[p].n]
                ELSE units
    /\ advice' = [advice EXCEPT ![call[p].key] = NoAdvice]
    /\ UNCHANGED <<dropping, seen>>

Void(k) == advice' = [advice EXCEPT ![k] = NoAdvice]

Reset(k) == Delete(k) /\ Void(k) /\ UNCHANGED <<heap, dropping, seen, units>>

\* Bound: one SetLimit at a time on a key.
SetLimitStore(k, l) ==
    /\ StoreLimit(k, l)
    /\ k \notin dropping
    /\ dropping' = dropping \cup {k}
    /\ UNCHANGED <<heap, history>>

SetLimitDelete(k) ==
    /\ k \in dropping
    /\ Delete(k)
    /\ dropping' = dropping \ {k}
    /\ Void(k)
    /\ UNCHANGED <<heap, seen, units>>

Close ==
    \/ CloseBegin /\ UNCHANGED <<heap, dropping, history>>
    \/ \E k \in Keys : /\ CloseObject(k)
                       /\ Void(k)
                       /\ UNCHANGED <<heap, dropping, seen, units>>
    \/ \E k \in Keys : CloseLimit(k) /\ UNCHANGED <<heap, dropping, history>>

Step(p) ==
    \/ Prepare(p)
    \/ \E o \in Fresh : Create(p, o)
    \/ Refill(p)
    \/ Pass(p)
    \/ Deny(p)
    \/ Consume(p)

Admin ==
    \/ \E k \in Keys :
          \/ Reset(k)
          \/ \E l \in LimitArgs : SetLimitStore(k, l)
          \/ SetLimitDelete(k)
    \/ Close

PassTime == Tick /\ UNCHANGED <<heap, dropping, history>>

Next == (\E p \in Procs : Step(p)) \/ Admin \/ PassTime

Spec == Init /\ [][Next]_vars

----------------------------------------------------------------------------

\* Types.  Tokens may be negative: a call with an old clock reading takes
\* tokens away.
TypeOK ==
    /\ BaseTypeOK
    /\ heap \in [Objects -> tokenBucket]
    /\ dropping \subseteq Keys
    /\ seen \in [Objects -> Time]
    /\ units \in [Objects -> Nat]
    /\ advice \in [Keys -> Nat \cup {NoAdvice}]

\* The rate limit in real time, from any moment on: what a bucket admits is
\* within its capacity and the refill of the time gone by, whatever the
\* order in which calls reach its mutex; a clock reading may be MaxStale
\* ticks old (AllowN, AllowWithInfo).
RateBound ==
    \A o \in Objects :
        clock >= mark =>
            units[o] * heap[o].lim.win
              <= capacity(heap[o].lim)
                 + heap[o].lim.req * (clock - mark + MaxStale)

\* How far below zero a bucket can be, and with it the Remaining that
\* AllowWithInfo reports: a late reading takes back the refill of the ticks
\* it is late, once however many late calls there are, and no call is
\* charged what it does not find.
DebtBound ==
    \A o \in Objects :
        heap[o].tokens + MaxStale * heap[o].lim.req >= 0

\* RetryAfter is honest: a single request that reads the clock after the
\* time AllowWithInfo named, with nobody served since, is not denied again,
\* unless a call with a later reading has overtaken it.
RetryPromise ==
    [][\A p \in Procs :
          Deny(p) => ~ /\ call[p].ptr = table[call[p].key]
                       /\ call[p].n = 1
                       /\ advice[call[p].key] # NoAdvice
                       /\ call[p].now > advice[call[p].key]
                       /\ call[p].now >= seen[call[p].ptr]]_vars

\* The bucket implements an account that accrues every tick once and in
\* order.  Its credit is what the bucket would hold at the latest reading.
accountOf ==
    [k \in Keys |->
        IF table[k] = NoObject THEN NoObject
        ELSE LET b == heap[table[k]]
                 asOf == seen[table[k]]
             IN  [credit |-> b.tokens + (asOf - b.last) * b.lim.req,
                  lim |-> b.lim, asOf |-> asOf]]

Account == INSTANCE TokenAccount WITH
               account <- accountOf, Closed <- NoObject, Times <- Time

AccruesOnce == Account!AccountSpec

\* What SetLimit's comment says ("Reset the bucket to apply new limits"):
\* once SetLimit has returned, the bucket of the key has the key's limit.
NewLimitApplies ==
    \A k \in Keys :
        table[k] # NoObject /\ custom[k] # NoLimit /\ k \notin dropping
          => heap[table[k]].lim = custom[k]
====
