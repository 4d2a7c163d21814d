---- MODULE LimiterCalls ----
(***************************************************************************)
(* What the three in-process limiters of pkg/ratelimiter have in common:   *)
(* the life of a call to AllowN or AllowWithInfo, the sync.Map from keys   *)
(* to objects (windows, buckets, logs), the custom limits, and Close.  The *)
(* code is written out in each of fixed_window.go, token_bucket.go and     *)
(* sliding_window.go; each limiter's module adds the fields of its objects *)
(* and what is done to them.                                               *)
(*                                                                         *)
(* A call looks up its limit, reads the clock and fetches its object       *)
(* BEFORE it takes the object's mutex: each of the three may be stale when *)
(* it is used.  Reset, SetLimit and Close change the maps and take no      *)
(* mutex.  A sync.Map operation, a mutex operation and a clock reading are *)
(* one step each.  An object that is no longer in the map lives on while a *)
(* call holds a pointer to it.                                             *)
(*                                                                         *)
(* Bounds: the clock stops at MaxTime; a call is not descheduled for more  *)
(* than MaxStale ticks between its clock reading and its return.           *)
(***************************************************************************)
EXTENDS Integers

CONSTANTS
    Keys,           \* client keys
    Procs,          \* goroutines that serve requests
    Objects,        \* heap addresses of windows, buckets or logs
    NoObject,       \* no entry in the map, no pointer fetched yet
    NoProc,         \* the mutex is free
    NoLimit,        \* no custom limit
    NoCall,         \* a goroutine outside the limiter
    DefaultLimit,   \* config.DefaultLimit
    LimitArgs,      \* limits given to SetLimit, invalid ones included
    CountArgs,      \* batch sizes given to AllowN, invalid ones included
    MaxTime,        \* bound: last tick of the clock
    MaxStale        \* bound: age of a clock reading while its call runs

ValidLimit(l) == l.req > 0 /\ l.win > 0

Limits == {DefaultLimit} \cup {l \in LimitArgs : ValidLimit(l)}

\* The constructors do not validate the default limit; the server's flags
\* and every test give a positive one.
ASSUME LimitAssumption ==
    /\ \A l \in LimitArgs \cup {DefaultLimit} : l.req \in Int /\ l.win \in Int
    /\ ValidLimit(DefaultLimit)

ASSUME CountAssumption == CountArgs \subseteq Int

ASSUME TimeAssumption == MaxTime \in Nat /\ MaxStale \in Nat

ASSUME NullAssumption ==
    NoObject \notin Objects /\ NoProc \notin Procs /\ NoLimit \notin Limits

VARIABLES
    clock,      \* the real time, in ticks
    custom,     \* customLimits
    table,      \* the sync.Map of the limiter: key -> object
    mu,         \* the holder of every object's mutex
    pc,         \* the next step of every goroutine
    call,       \* the local variables of every call
    closing,    \* the entries a running Close has still to delete
    mark        \* history: the tick at which an observer starts to count

base == <<clock, custom, table, mu, pc, call, closing, mark>>

Time == 0..MaxTime

Amounts == {n \in CountArgs : n > 0} \cup {1}

Call == [key : Keys, n : Amounts, info : BOOLEAN, lim : Limits,
         now : Time, ptr : Objects \cup {NoObject}]

CloseItems == {"object", "limit"} \X Keys

Critical == {"update", "check", "commit"}

AfterLoad == {"lock"} \cup Critical

Reading == {"load"} \cup AfterLoad

PCs == {"idle", "clock"} \cup Reading

BaseTypeOK ==
    /\ clock \in Time
    /\ custom \in [Keys -> Limits \cup {NoLimit}]
    /\ table \in [Keys -> Objects \cup {NoObject}]
    /\ mu \in [Objects -> Procs \cup {NoProc}]
    /\ pc \in [Procs -> PCs]
    /\ call \in [Procs -> Call \cup {NoCall}]
    /\ closing \subseteq CloseItems
    /\ mark \in Time

BaseInit ==
    /\ clock = 0
    /\ custom = [k \in Keys |-> NoLimit]
    /\ table = [k \in Keys |-> NoObject]
    /\ mu = [o \in Objects |-> NoProc]
    /\ pc = [p \in Procs |-> "idle"]
    /\ call = [p \in Procs |-> NoCall]
    /\ closing = {}
    /\ mark \in Time

----------------------------------------------------------------------------
(* A call, step by step. *)

GetLimit(k) == IF custom[k] # NoLimit THEN custom[k] ELSE DefaultLimit

Goto(p, from, to) == pc[p] = from /\ pc' = [pc EXCEPT ![p] = to]

Enter(p, k, n, info) ==
    /\ Goto(p, "idle", "clock")
    /\ call' = [call EXCEPT ![p] = [key |-> k, n |-> n, info |-> info,
                   lim |-> GetLimit(k), now |-> 0, ptr |-> NoObject]]
    /\ UNCHANGED <<clock, custom, table, mu, closing, mark>>

\* Mutant: the batch size is not checked.
EnterAnyN(p, k, n) == Enter(p, k, n, FALSE)

\* AllowN has accepted n and has looked up the limit.
BeginAllowN(p, k, n) == n > 0 /\ Enter(p, k, n, FALSE)

BeginAllowWithInfo(p, k) == Enter(p, k, 1, TRUE)

Begin(p) ==
    \E k \in Keys :
        \/ \E n \in CountArgs : BeginAllowN(p, k, n)
        \/ BeginAllowWithInfo(p, k)

ReadClock(p) ==
    /\ Goto(p, "clock", "load")
    /\ call' = [call EXCEPT ![p].now = clock]
    /\ UNCHANGED <<clock, custom, table, mu, closing, mark>>

LoadFound(p) ==
    /\ Goto(p, "load", "lock")
    /\ table[call[p].key] # NoObject
    /\ call' = [call EXCEPT ![p].ptr = table[call[p].key]]
    /\ UNCHANGED <<clock, custom, table, mu, closing, mark>>

Mapped == {table[k] : k \in Keys}

Held == {call[p].ptr : p \in {q \in Procs : pc[q] \in AfterLoad}}

Fresh == Objects \ (Mapped \cup Held)

StoreNew(p, o) ==
    /\ Goto(p, "load", "lock")
    /\ table[call[p].key] = NoObject
    /\ table' = [table EXCEPT ![call[p].key] = o]
    /\ call' = [call EXCEPT ![p].ptr = o]
    /\ UNCHANGED <<clock, custom, mu, closing, mark>>

\* Mutant: the critical section is entered without the mutex.
LockAnyway(p) ==
    /\ Goto(p, "lock", "update")
    /\ mu' = [mu EXCEPT ![call[p].ptr] = p]
    /\ UNCHANGED <<clock, custom, table, call, closing, mark>>

Lock(p) ==
    /\ Goto(p, "lock", "update")
    /\ mu[call[p].ptr] = NoProc
    /\ mu' = [mu EXCEPT ![call[p].ptr] = p]
    /\ UNCHANGED <<clock, custom, table, call, closing, mark>>

\* A step inside the critical section.
Within(p, from, to) ==
    /\ Goto(p, from, to)
    /\ UNCHANGED <<clock, custom, table, mu, call, closing, mark>>

\* Mutant: a return that leaves the mutex locked.
ReturnLocked(p, from) ==
    /\ Goto(p, from, "idle")
    /\ call' = [call EXCEPT ![p] = NoCall]
    /\ UNCHANGED <<clock, custom, table, mu, closing, mark>>

\* The deferred Unlock runs on every return.
Return(p, from) ==
    /\ Goto(p, from, "idle")
    /\ mu' = [mu EXCEPT ![call[p].ptr] = NoProc]
    /\ call' = [call EXCEPT ![p] = NoCall]
    /\ UNCHANGED <<clock, custom, table, closing, mark>>

\* The steps of a call that touch no field of an object.
Approach(p) == Begin(p) \/ ReadClock(p) \/ LoadFound(p) \/ Lock(p)

----------------------------------------------------------------------------
(* Reset, SetLimit, Close, and time. *)

Delete(k) ==
    /\ table' = [table EXCEPT ![k] = NoObject]
    /\ UNCHANGED <<clock, custom, mu, pc, call, closing, mark>>

\* Mutant: SetLimit does not validate the limit.
StoreAnyLimit(k, l) ==
    /\ custom' = [custom EXCEPT ![k] = l]
    /\ UNCHANGED <<clock, table, mu, pc, call, closing, mark>>

StoreLimit(k, l) ==
    /\ ValidLimit(l)
    /\ custom' = [custom EXCEPT ![k] = l]
    /\ UNCHANGED <<clock, table, mu, pc, call, closing, mark>>

\* Close ranges over the objects, then over the custom limits, and deletes
\* what it meets; calls may go on meanwhile.
CloseBegin ==
    /\ closing = {}
    /\ closing' = CloseItems
    /\ UNCHANGED <<clock, custom, table, mu, pc, call, mark>>

CloseObject(k) ==
    /\ <<"object", k>> \in closing
    /\ closing' = closing \ {<<"object", k>>}
    /\ table' = [table EXCEPT ![k] = NoObject]
    /\ UNCHANGED <<clock, custom, mu, pc, call, mark>>

CloseLimit(k) ==
    /\ <<"limit", k>> \in closing
    /\ \A j \in Keys : <<"object", j>> \notin closing
    /\ closing' = closing \ {<<"limit", k>>}
    /\ custom' = [custom EXCEPT ![k] = NoLimit]
    /\ UNCHANGED <<clock, table, mu, pc, call, mark>>

Tick ==
    /\ clock < MaxTime
    /\ \A p \in Procs : pc[p] \in Reading => clock - call[p].now < MaxStale
    /\ clock' = clock + 1
    /\ UNCHANGED <<custom, table, mu, pc, call, closing, mark>>

----------------------------------------------------------------------------

\* Every step of every in-process limiter, as seen in these variables.
BaseNext ==
    \/ \E p \in Procs :
          \/ Approach(p)
          \/ \E o \in Fresh : StoreNew(p, o)
          \/ \E from, to \in Critical : Within(p, from, to)
          \/ \E from \in Critical : Return(p, from)
    \/ \E k \in Keys :
          \/ Delete(k) \/ CloseObject(k) \/ CloseLimit(k)
          \/ \E l \in LimitArgs : StoreLimit(k, l)
    \/ CloseBegin
    \/ Tick
====
