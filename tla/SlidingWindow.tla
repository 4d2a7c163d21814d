---- MODULE SlidingWindow ----
(***************************************************************************)
(* pkg/ratelimiter/sliding_window.go: a log per key of the times at which  *)
(* units were admitted, pruned to the window when it is used, and the      *)
(* goroutine that sweeps the map and removes old logs.                     *)
(*                                                                         *)
(* A log is the set of its entries; pos is the order in which they were    *)
(* appended, which need not be the order of their times.                   *)
(***************************************************************************)
EXTENDS LimiterCalls, FiniteSets

CONSTANTS
    NoAdvice,   \* no standing RetryAfter
    NoVisit     \* the cleaner is between two keys

VARIABLES
    heap,       \* the entries of every requestLog object
    visit,      \* the key the cleaner is at
    units,      \* history: units each object admitted in the interval
    swept,      \* history: those of the key's objects the cleaner removed
    advice      \* history: the standing RetryAfter of every key

vars == <<base, heap, visit, units, swept, advice>>

history == <<units, swept, advice>>

requestLog == [timestamps : SUBSET [pos : Nat, at : Time], appended : Nat]

ASSUME ObjectAssumption == NoObject \notin requestLog

Visit == [at : {"lock", "judge", "delete"}, key : Keys, ptr : Objects,
          lim : Limits]

Advice == [lim : Limits, at : Nat, size : Nat]

Init ==
    /\ BaseInit
    /\ heap = [o \in Objects |-> [timestamps |-> {}, appended |-> 0]]
    /\ visit = NoVisit
    /\ units = [o \in Objects |-> 0]
    /\ swept = [k \in Keys |-> 0]
    /\ advice = [k \in Keys |-> NoAdvice]

----------------------------------------------------------------------------
(* The cleaner. *)

\* The minute between sweeps and the order in which sync.Map.Range meets the
\* keys are left out: the cleaner may be at any key of the map at any time.
SweepVisit(k) ==
    /\ visit = NoVisit
    /\ table[k] # NoObject
    /\ visit' = [at |-> "lock", key |-> k, ptr |-> table[k], lim |-> DefaultLimit]
    /\ UNCHANGED <<base, heap, history>>

\* The cleaner locks the log and looks up the limit.
SweepLock ==
    /\ visit # NoVisit /\ visit.at = "lock"
    /\ mu[visit.ptr] = NoProc
    /\ visit' = [visit EXCEPT !.at = "judge", !.lim = GetLimit(visit.key)]
    /\ UNCHANGED <<base, heap, history>>

\* The mutex of o is the cleaner's.
Judged(o) == visit # NoVisit /\ visit.at = "judge" /\ visit.ptr = o

\* Mutant: After for Before.
LastIsYoung(log, windowStart) ==
    \E e \in log : /\ \A f \in log : f.pos <= e.pos
                   /\ e.at > windowStart

LastIsOld(log, windowStart) ==
    \E e \in log : /\ \A f \in log : f.pos <= e.pos
                   /\ e.at < windowStart

\* The cleaner reads the clock, looks at the last timestamp and unlocks.
SweepJudge ==
    /\ visit # NoVisit /\ visit.at = "judge"
    /\ visit' = IF LastIsOld(heap[visit.ptr].timestamps, clock - visit.lim.win)
                THEN [visit EXCEPT !.at = "delete"]
                ELSE NoVisit
    /\ UNCHANGED <<base, heap, history>>

Void(k) == advice' = [advice EXCEPT ![k] = NoAdvice]

\* The cleaner deletes whatever log the key has by now.
SweepDelete ==
    /\ visit # NoVisit /\ visit.at = "delete"
    /\ Delete(visit.key)
    /\ visit' = NoVisit
    /\ swept' = [swept EXCEPT ![visit.key] =
                    IF table[visit.key] = NoObject THEN @
                    ELSE @ + units[table[visit.key]]]
    /\ Void(visit.key)
    /\ UNCHANGED <<heap, units>>

Sweep ==
    \/ \E k \in Keys : SweepVisit(k)
    \/ SweepLock
    \/ SweepJudge
    \/ SweepDelete

----------------------------------------------------------------------------
(* Calls. *)

Prepare(p) ==
    /\ Approach(p)
    /\ pc[p] = "lock" => ~Judged(call[p].ptr)
    /\ UNCHANGED <<heap, visit, history>>

Create(p, o) ==
    /\ StoreNew(p, o)
    /\ visit # NoVisit => o # visit.ptr
    /\ heap' = [heap EXCEPT ![o] = [timestamps |-> {}, appended |-> 0]]
    /\ units' = [units EXCEPT ![o] = 0]
    /\ UNCHANGED <<visit, swept, advice>>

log(p) == heap[call[p].ptr]

windowStart(p) == call[p].now - call[p].lim.win

\* Mutant: a timestamp at the very start of the window is kept.
ValidAtEdge(p) == {e \in log(p).timestamps : e.at >= windowStart(p)}

ValidTimestamps(p) == {e \in log(p).timestamps : e.at > windowStart(p)}

Prune(p) ==
    /\ Within(p, "update", "check")
    /\ heap' = [heap EXCEPT ![call[p].ptr].timestamps = ValidTimestamps(p)]
    /\ UNCHANGED <<visit, history>>

len(p) == Cardinality(log(p).timestamps)

Fits(p) == len(p) + call[p].n <= call[p].lim.req

Pass(p) ==
    /\ Within(p, "check", "commit")
    /\ Fits(p)
    /\ UNCHANGED <<heap, visit, history>>

oldestInWindow(p) ==
    CHOOSE t \in Time : /\ \E e \in log(p).timestamps : e.at = t
                        /\ \A e \in log(p).timestamps : t <= e.at

\* When the RetryAfter of a denial has gone by: time.Until(resetAt), 0 at
\* the least, counts from the moment of the denial.
RetryAt(p) ==
    LET resetAt == oldestInWindow(p) + call[p].lim.win
    IN  IF resetAt > clock THEN resetAt ELSE clock

Advised(p) ==
    IF call[p].info /\ table[call[p].key] = call[p].ptr
    THEN [advice EXCEPT ![call[p].key] =
             [lim |-> call[p].lim, at |-> RetryAt(p), size |-> len(p)]]
    ELSE advice

Deny(p) ==
    /\ Return(p, "check")
    /\ ~Fits(p)
    /\ advice' = Advised(p)
    /\ UNCHANGED <<heap, visit, units, swept>>

\* Ticks of an interval from mark on that is shorter than any window by
\* the age a clock reading may have.
InInterval(t) ==
    mark <= t /\ \A l \in Limits : t - mark < l.win - MaxStale

Appended(p) ==
    LET l == log(p)
    IN  [timestamps |-> l.timestamps
            \cup {[pos |-> l.appended + i, at |-> call[p].now] : i \in 1..call[p].n},
         appended |-> l.appended + call[p].n]

Commit(p) ==
    /\ Return(p, "commit")
    /\ heap' = [heap EXCEPT ![call[p].ptr] = Appended(p)]
    /\ units' = IF InInterval(clock)
                THEN [units EXCEPT ![call[p].ptr] = @ + call[p].n]
                ELSE units
    /\ advice' = [advice EXCEPT ![call[p].key] = NoAdvice]
    /\ UNCHANGED <<visit, swept>>

----------------------------------------------------------------------------

Forget(k) == swept' = [swept EXCEPT ![k] = 0] /\ Void(k)

Reset(k) == Delete(k) /\ Forget(k) /\ UNCHANGED <<heap, visit, units>>

SetLimit(k, l) ==
    /\ StoreLimit(k, l)
    /\ Void(k)
    /\ UNCHANGED <<heap, visit, units, swept>>

Close ==
    \/ CloseBegin /\ UNCHANGED <<heap, visit, history>>
    \/ \E k \in Keys : /\ CloseObject(k) \/ CloseLimit(k)
                       /\ Forget(k)
                       /\ UNCHANGED <<heap, visit, units>>

Step(p) ==
    \/ Prepare(p)
    \/ \E o \in Fresh : Create(p, o)
    \/ Prune(p)
    \/ Pass(p)
    \/ Deny(p)
    \/ Commit(p)

Admin ==
    \/ \E k \in Keys : Reset(k) \/ \E l \in LimitArgs : SetLimit(k, l)
    \/ Close

PassTime == Tick /\ UNCHANGED <<heap, visit, history>>

Next == (\E p \in Procs : Step(p)) \/ Admin \/ Sweep \/ PassTime

Spec == Init /\ [][Next]_vars

\* Go runs every runnable goroutine, and sync.Mutex hands the lock to a
\* waiter that has starved for a millisecond: a call that keeps finding the
\* mutex free does not wait for ever.  The cleaner's ticker fires for ever,
\* and each Range visits every key that the map keeps.
Fairness ==
    /\ \A p \in Procs :
          /\ WF_vars(pc[p] # "idle" /\ Step(p))
          /\ SF_vars(pc[p] = "lock" /\ Step(p))
    /\ WF_vars(Sweep)
    /\ SF_vars(SweepLock)
    /\ \A k \in Keys : SF_vars(SweepVisit(k))

FairSpec == Spec /\ Fairness

----------------------------------------------------------------------------

\* Types.
TypeOK ==
    /\ BaseTypeOK
    /\ heap \in [Objects -> requestLog]
    /\ visit \in Visit \cup {NoVisit}
    /\ units \in [Objects -> Nat]
    /\ swept \in [Keys -> Nat]
    /\ advice \in [Keys -> Advice \cup {NoAdvice}]

\* No boundary burst: in an interval shorter than a window, less the age a
\* clock reading may have, one log admits at most one limit's worth of
\* units, although calls append their timestamps out of order (AllowN,
\* AllowWithInfo).
WindowBound ==
    \A o \in Objects : \E l \in Limits : units[o] <= l.req

\* RetryAfter is honest: when the time AllowWithInfo named has come, and under
\* the limit that was told with nobody served since, a single request is
\* denied only by a log that has become shorter.  So a log that was just full
\* serves it, and one that was overfull, since the limit was lowered, makes it
\* wait no more often than it has units too many.
RetryPromise ==
    [][\A p \in Procs :
          /\ Deny(p)
          /\ call[p].ptr = table[call[p].key]
          /\ call[p].n = 1
          /\ advice[call[p].key] # NoAdvice
          /\ call[p].lim = advice[call[p].key].lim
          /\ call[p].now >= advice[call[p].key].at
          => len(p) < advice[call[p].key].size]_vars

\* The concurrent code, cleaner included, implements the atomic log of
\* WindowLog: no call counts or appends to entries that another call has
\* changed under its hands, and calls that hold a log which Reset, Close or
\* the cleaner has unmapped change no key.
logOf == [k \in Keys |-> IF table[k] = NoObject
                         THEN NoObject
                         ELSE heap[table[k]]]

KeyLog == INSTANCE WindowLog WITH logs <- logOf, Closed <- NoObject,
                                  Times <- Time

LogPerKey == KeyLog!LogSpec

\* What the Limit type says, "the maximum number of requests allowed in the
\* time window", of a key rather than of a log: the cleaner's work does not
\* give the key a new quota.  Reset and Close do.
KeyWindowBound ==
    \A k \in Keys : table[k] # NoObject =>
        \E l \in Limits : units[table[k]] + swept[k] <= l.req

OldLog(k) ==
    /\ table[k] # NoObject
    /\ \A e \in heap[table[k]].timestamps : e.at < clock - GetLimit(k).win

\* The sweeps reclaim a log whose timestamps are all before the window,
\* unless the log is used again.
OldLogsGo ==
    \A k \in Keys :
        OldLog(k) /\ heap[table[k]].timestamps # {}
          ~> ~OldLog(k) \/ heap[table[k]].timestamps = {}

\* What the cleaner's doc says, "periodically removes old logs to prevent
\* memory leaks": no log without a live timestamp stays for ever.
NoLogLeaks == \A k \in Keys : OldLog(k) ~> ~OldLog(k)

\* Every call returns: neither a path of a call nor the cleaner leaves the
\* mutex of a log locked.
CallsReturn == \A p \in Procs : pc[p] # "idle" ~> pc[p] = "idle"
====
