---- MODULE SlidingWindowProofs ----
(***************************************************************************)
(* Theorems about SlidingWindow for every number of keys and goroutines,   *)
(* every limit and every length of time.  A log keeps what it admitted in  *)
(* an interval that is shorter than a window, so its length, which a call  *)
(* tests, is at least what the interval has admitted so far.               *)
(***************************************************************************)
EXTENDS SlidingWindow, LimiterCallsProofs, SetLemmas

\* The types of what the sliding-window limiter adds.
OwnTypes ==
    /\ heap \in [Objects -> requestLog]
    /\ visit \in Visit \cup {NoVisit}
    /\ units \in [Objects -> Nat]
    /\ swept \in [Keys -> Nat]
    /\ advice \in [Keys -> Advice \cup {NoAdvice}]

\* A log is finite, and no entry has a position that is still to come.
Logs ==
    \A o \in Objects :
        /\ IsFiniteSet(heap[o].timestamps)
        /\ \A e \in heap[o].timestamps : e.pos <= heap[o].appended

\* AllowWithInfo asks for a single unit.
Single == \A p \in Procs : pc[p] # "idle" /\ call[p].info => call[p].n = 1

Structure == BaseInv /\ OwnTypes /\ Logs /\ Single

Deciding == {"check", "commit"}

\* A call that decides has pruned the log to its own window,
Pruned ==
    \A p \in Procs : pc[p] \in Deciding =>
        \A e \in log(p).timestamps : e.at > windowStart(p)

\* and what it has checked still holds when it appends.
Checked == \A p \in Procs : pc[p] = "commit" => Fits(p)

----------------------------------------------------------------------------
(* Data. *)

\* The entries that one call appends.
Entries(b, n, t) == {[pos |-> b + i, at |-> t] : i \in 1..n}

\* They are as many as the units it asks for.
LEMMA EntriesCount ==
    ASSUME NEW b \in Nat, NEW n \in Nat, NEW t
    PROVE  IsFiniteSet(Entries(b, n, t)) /\ Cardinality(Entries(b, n, t)) = n
  <1> DEFINE S == Entries(b, n, t)
             f == [i \in 1..n |-> [pos |-> b + i, at |-> t]]
  <1>1. f \in [1..n -> S] /\ \A e \in S : \E i \in 1..n : f[i] = e
    BY DEF Entries
  <1>2. \A i, j \in 1..n : f[i] = f[j] => i = j
    <2> SUFFICES ASSUME NEW i \in 1..n, NEW j \in 1..n, f[i] = f[j] PROVE i = j
      OBVIOUS
    <2>1. f[i].pos = b + i /\ f[j].pos = b + j
      OBVIOUS
    <2> QED
      BY <2>1
  <1> HIDE DEF S, f
  <1>3. IsFiniteSet(S) /\ Cardinality(S) = n
    BY <1>1, <1>2, CountByNumbers
  <1> QED
    BY <1>3 DEF S

\* The length of a log after the append.
LEMMA AppendCount ==
    ASSUME NEW T, IsFiniteSet(T), NEW b \in Nat, NEW n \in Nat, NEW t,
           \A e \in T : e.pos <= b /\ e.pos \in Nat
    PROVE  /\ IsFiniteSet(T \cup Entries(b, n, t))
           /\ Cardinality(T \cup Entries(b, n, t)) = Cardinality(T) + n
  <1>1. T \cap Entries(b, n, t) = {}
    <2> SUFFICES ASSUME NEW i \in 1..n, [pos |-> b + i, at |-> t] \in T PROVE FALSE
      BY DEF Entries
    <2> QED
      OBVIOUS
  <1>2. IsFiniteSet(Entries(b, n, t)) /\ Cardinality(Entries(b, n, t)) = n
    BY EntriesCount
  <1> QED
    BY <1>1, <1>2, CountTogether

----------------------------------------------------------------------------
(* The structure. *)

\* Every step of the limiter is a step of LimiterCalls.
LEMMA StepIsBaseStep == OwnTypes /\ [Next]_vars => [BaseNext]_base
  <1> SUFFICES ASSUME OwnTypes, [Next]_vars PROVE [BaseNext]_base
    OBVIOUS
  <1>1. ASSUME NEW p \in Procs, Step(p) PROVE [BaseNext]_base
    BY <1>1 DEF Step, Prepare, Create, Prune, Pass, Deny, Commit, BaseNext, Critical
  <1>2. CASE Admin \/ PassTime
    BY <1>2 DEF Admin, Reset, SetLimit, Close, PassTime, BaseNext
  <1>3. CASE Sweep
    <2>1. CASE SweepDelete
      <3>1. visit.key \in Keys /\ Delete(visit.key)
        BY <2>1 DEF SweepDelete, OwnTypes, Visit
      <3> QED
        BY <3>1 DEF BaseNext
    <2> QED
      BY <1>3, <2>1 DEF Sweep, SweepVisit, SweepLock, SweepJudge
  <1> QED
    BY <1>1, <1>2, <1>3 DEF Next, vars

\* Init establishes the structure.
LEMMA StructureInit == Init => Structure
  <1> SUFFICES ASSUME Init PROVE Structure
    OBVIOUS
  <1>1. BaseInv
    BY BaseInitial DEF Init
  <1>2. [timestamps |-> {}, appended |-> 0] \in requestLog
    BY DEF requestLog
  <1>3. OwnTypes
    BY <1>2 DEF Init, OwnTypes
  <1> QED
    BY <1>1, <1>3, FS_EmptySet DEF Init, BaseInit, Structure, Logs, Single

\* The time that a denial names is a number: a log that denies a single unit
\* has an entry, and among its entries an oldest one.
LEMMA DenialTime ==
    ASSUME Structure, NEW p \in Procs, Deny(p), call[p].info
    PROVE  /\ RetryAt(p) \in Nat /\ len(p) \in Nat
           /\ len(p) >= call[p].lim.req
           /\ \E e \in log(p).timestamps : e.at + call[p].lim.win <= RetryAt(p)
  <1> DEFINE T == log(p).timestamps
             ats == {e.at : e \in T}
  <1>1. /\ pc[p] = "check" /\ ~Fits(p) /\ call[p].n = 1
        /\ call[p] \in Call /\ call[p].ptr \in Objects
    BY DEF Deny, Return, Goto, Structure, BaseInv, Single, Shaped, AfterLoad,
           Critical
  <1>2. T \in SUBSET [pos : Nat, at : Time] /\ IsFiniteSet(T)
    BY <1>1 DEF Structure, OwnTypes, Logs, log, requestLog
  <1>3. len(p) \in Nat /\ call[p].lim.req \in Nat /\ call[p].lim.req > 0
        /\ call[p].lim.win \in Nat
    BY <1>1, <1>2, FS_CardinalityType, LimitNumbers DEF len, Call
  <1>4. len(p) >= call[p].lim.req
    BY <1>1, <1>3 DEF Fits
  <1>5. T # {}
    BY <1>2, <1>3, <1>4, FS_EmptySet DEF len
  <1>6. ats \subseteq Nat /\ ats # {} /\ ats \subseteq Time
    BY <1>2, <1>5, TimeAssumption DEF Time
  <1>7. PICK t \in ats : \A u \in ats : t <= u
    BY <1>6, Least
  <1>8. t \in Time /\ (\E e \in T : e.at = t) /\ \A e \in T : t <= e.at
    BY <1>6, <1>7
  <1>9. /\ oldestInWindow(p) \in Time
        /\ \E e \in T : e.at = oldestInWindow(p)
    BY <1>8 DEF oldestInWindow
  <1>10. clock \in Nat /\ oldestInWindow(p) \in Nat
    BY <1>9, TimeAssumption DEF Structure, BaseInv, BaseTypeOK, Time
  <1>11. RetryAt(p) \in Nat /\ RetryAt(p) >= oldestInWindow(p) + call[p].lim.win
    BY <1>3, <1>10 DEF RetryAt
  <1> QED
    BY <1>3, <1>4, <1>9, <1>11

\* What an append makes of a log.
LEMMA AppendEffect ==
    ASSUME Structure, NEW p \in Procs, pc[p] \in Critical
    PROVE  /\ call[p] \in Call /\ call[p].ptr \in Objects /\ call[p].n \in Nat
           /\ Appended(p) \in requestLog
           /\ Appended(p).timestamps = log(p).timestamps
                 \cup Entries(log(p).appended, call[p].n, call[p].now)
           /\ IsFiniteSet(Appended(p).timestamps)
           /\ Cardinality(Appended(p).timestamps) = len(p) + call[p].n
           /\ \A e \in Appended(p).timestamps : e.pos <= Appended(p).appended
  <1> DEFINE T == log(p).timestamps
             b == log(p).appended
             E == Entries(b, call[p].n, call[p].now)
  <1>1. /\ call[p] \in Call /\ call[p].ptr \in Objects /\ call[p].n \in Nat
        /\ call[p].now \in Time
    BY AmountNumbers DEF Structure, BaseInv, Shaped, AfterLoad, Critical, Call
  <1>2. /\ T \in SUBSET [pos : Nat, at : Time] /\ b \in Nat /\ IsFiniteSet(T)
        /\ \A e \in T : e.pos <= b /\ e.pos \in Nat
    BY <1>1 DEF Structure, OwnTypes, Logs, log, requestLog
  <1>3. Appended(p) = [timestamps |-> T \cup E, appended |-> b + call[p].n]
    BY DEF Appended, Entries
  <1>4. \A e \in E : e \in [pos : Nat, at : Time] /\ e.pos <= b + call[p].n
    BY <1>1, <1>2 DEF Entries
  <1>5. IsFiniteSet(T \cup E) /\ Cardinality(T \cup E) = Cardinality(T) + call[p].n
    BY <1>1, <1>2, AppendCount
  <1>6. \A e \in T : e.pos <= b + call[p].n
    BY <1>1, <1>2
  <1> HIDE DEF T, b, E
  <1>7. Appended(p) \in requestLog
    BY <1>1, <1>2, <1>3, <1>4 DEF requestLog
  <1> QED
    BY <1>1, <1>3, <1>4, <1>5, <1>6, <1>7 DEF len, T, b, E

\* What pruning makes of a log.
LEMMA PruneEffect ==
    ASSUME Structure, NEW p \in Procs, pc[p] \in Critical
    PROVE  /\ call[p] \in Call /\ call[p].ptr \in Objects
           /\ ValidTimestamps(p) \subseteq log(p).timestamps
           /\ [log(p) EXCEPT !.timestamps = ValidTimestamps(p)] \in requestLog
           /\ IsFiniteSet(ValidTimestamps(p))
  <1>1. call[p] \in Call /\ call[p].ptr \in Objects
    BY DEF Structure, BaseInv, Shaped, AfterLoad, Critical
  <1>2. log(p) \in requestLog /\ IsFiniteSet(log(p).timestamps)
    BY <1>1 DEF Structure, OwnTypes, Logs, log
  <1>3. ValidTimestamps(p) \in SUBSET log(p).timestamps
    BY DEF ValidTimestamps
  <1>4. IsFiniteSet(ValidTimestamps(p))
    BY <1>2, <1>3, FS_Subset
  <1> QED
    BY <1>1, <1>2, <1>3, <1>4 DEF requestLog

\* Every step keeps the types, the positions of the entries, and the single
\* unit of AllowWithInfo.
LEMMA OwnTypesStep == Structure /\ [Next]_vars => OwnTypes' /\ Logs'
  <1> SUFFICES ASSUME Structure, [Next]_vars PROVE OwnTypes' /\ Logs'
    OBVIOUS
  <1> USE DEF OwnTypes, Logs
  <1>t. /\ heap \in [Objects -> requestLog] /\ units \in [Objects -> Nat]
        /\ advice \in [Keys -> Advice \cup {NoAdvice}]
        /\ swept \in [Keys -> Nat] /\ visit \in Visit \cup {NoVisit}
        /\ \A p \in Procs : pc[p] \in Reading => call[p] \in Call
        /\ \A o \in Objects :
              /\ IsFiniteSet(heap[o].timestamps)
              /\ \A e \in heap[o].timestamps : e.pos <= heap[o].appended
    BY DEF Structure, BaseInv, Shaped, Reading, AfterLoad, Critical
  <1>1. ASSUME NEW p \in Procs, NEW o \in Fresh, Create(p, o)
        PROVE  OwnTypes' /\ Logs'
    <2>1. [timestamps |-> {}, appended |-> 0] \in requestLog
      BY DEF requestLog
    <2> QED
      BY <1>1, <1>t, <2>1, FS_EmptySet DEF Create, Fresh
  <1>2. ASSUME NEW p \in Procs, Prune(p) PROVE OwnTypes' /\ Logs'
    <2> DEFINE l == [log(p) EXCEPT !.timestamps = ValidTimestamps(p)]
    <2>1. /\ pc[p] \in Critical /\ heap' = [heap EXCEPT ![call[p].ptr] = l]
          /\ UNCHANGED <<visit, history>>
      BY <1>2 DEF Prune, Within, Goto, Critical, log
    <2>2. /\ call[p].ptr \in Objects /\ l \in requestLog
          /\ IsFiniteSet(l.timestamps)
          /\ l.timestamps \subseteq log(p).timestamps
          /\ l.appended = log(p).appended
      BY <2>1, <1>t, PruneEffect DEF log, requestLog
    <2> HIDE DEF l
    <2> QED
      BY <2>1, <2>2, <1>t DEF history, log
  <1>3. ASSUME NEW p \in Procs, Deny(p) PROVE OwnTypes' /\ Logs'
    <2>1. call[p] \in Call
      BY <1>3, <1>t DEF Deny, Return, Goto, Reading, AfterLoad, Critical
    <2>2. Advised(p) \in [Keys -> Advice \cup {NoAdvice}]
      <3>1. CASE call[p].info
        <4>1. [lim |-> call[p].lim, at |-> RetryAt(p), size |-> len(p)] \in Advice
          BY <1>3, <2>1, <3>1, DenialTime DEF Advice, Call
        <4> QED
          BY <1>t, <4>1 DEF Advised
      <3> QED
        BY <1>t, <3>1 DEF Advised
    <2> QED
      BY <1>3, <1>t, <2>2 DEF Deny
  <1>4. ASSUME NEW p \in Procs, Commit(p) PROVE OwnTypes' /\ Logs'
    <2>1. /\ pc[p] \in Critical /\ heap' = [heap EXCEPT ![call[p].ptr] = Appended(p)]
          /\ UNCHANGED <<visit, swept>>
          /\ units' \in {[units EXCEPT ![call[p].ptr] = @ + call[p].n], units}
          /\ advice' = [advice EXCEPT ![call[p].key] = NoAdvice]
      BY <1>4 DEF Commit, Return, Goto, Critical
    <2>2. /\ call[p].ptr \in Objects /\ call[p].n \in Nat
          /\ Appended(p) \in requestLog
          /\ IsFiniteSet(Appended(p).timestamps)
          /\ \A e \in Appended(p).timestamps : e.pos <= Appended(p).appended
      BY <2>1, AppendEffect
    <2>3. heap' \in [Objects -> requestLog] /\ Logs'
      BY <2>1, <2>2, <1>t
    <2>4. units' \in [Objects -> Nat]
      BY <2>1, <2>2, <1>t
    <2>5. advice' \in [Keys -> Advice \cup {NoAdvice}]
      BY <2>1, <1>t
    <2> QED
      BY <2>1, <2>3, <2>4, <2>5, <1>t
  <1>5. CASE Admin
    BY <1>5, <1>t DEF Admin, Reset, SetLimit, Close, Forget, Void, history
  <1>6. CASE Sweep
    <2>1. ASSUME NEW k \in Keys, SweepVisit(k) PROVE OwnTypes' /\ Logs'
      <3>1. [at |-> "lock", key |-> k, ptr |-> table[k], lim |-> DefaultLimit] \in Visit
        BY <2>1 DEF SweepVisit, Structure, BaseInv, BaseTypeOK, Visit, Limits
      <3> QED
        BY <2>1, <3>1, <1>t DEF SweepVisit, history
    <2>2. CASE SweepLock
      <3>1. visit' \in Visit
        BY <2>2, <1>t, LookedUp DEF SweepLock, Structure, BaseInv, Visit
      <3> QED
        BY <2>2, <3>1, <1>t DEF SweepLock, history
    <2>3. CASE SweepJudge
      <3>1. visit' \in Visit \cup {NoVisit}
        BY <2>3, <1>t DEF SweepJudge, Visit
      <3> QED
        BY <2>3, <3>1, <1>t DEF SweepJudge, history
    <2>4. CASE SweepDelete
      <3>1. visit.key \in Keys
        BY <2>4, <1>t DEF SweepDelete, Visit
      <3>2. swept' \in [Keys -> Nat]
        BY <2>4, <3>1, <1>t DEF SweepDelete, Structure, BaseInv, BaseTypeOK
      <3> QED
        BY <2>4, <3>1, <3>2, <1>t DEF SweepDelete, Void
    <2> QED
      BY <1>6, <2>1, <2>2, <2>3, <2>4 DEF Sweep
  <1>7. CASE UNCHANGED <<heap, visit, history>>
    BY <1>7, <1>t DEF history
  <1> QED
    BY <1>1, <1>2, <1>3, <1>4, <1>5, <1>6, <1>7
       DEF Next, Step, Prepare, Pass, PassTime, vars, history

LEMMA SingleStep == Structure /\ [Next]_vars => Single'
  <1> SUFFICES ASSUME Structure, [Next]_vars PROVE Single'
    OBVIOUS
  <1>1. ASSUME \A q \in Procs : pc'[q] # "idle" =>
                  pc[q] # "idle" /\ call'[q].info = call[q].info
                    /\ call'[q].n = call[q].n
        PROVE  Single'
    BY <1>1 DEF Structure, Single
  <1>2. ASSUME NEW p \in Procs, Begin(p) PROVE Single'
    BY <1>2
       DEF Begin, BeginAllowN, BeginAllowWithInfo, Enter, Goto, Structure,
           Single, BaseInv, BaseTypeOK
  <1>3. ASSUME NEW p \in Procs, ReadClock(p) \/ LoadFound(p)
                                  \/ \E o \in Fresh : StoreNew(p, o)
        PROVE  Single'
    <2>1. call[p] \in Call /\ pc[p] # "idle"
      BY <1>3 DEF ReadClock, LoadFound, StoreNew, Goto, Structure, BaseInv, Shaped
    <2> QED
      BY <1>1, <1>3, <2>1
         DEF ReadClock, LoadFound, StoreNew, Goto, Call, Structure, BaseInv,
             BaseTypeOK
  <1>4. ASSUME NEW p \in Procs, Lock(p) \/ Prune(p) \/ Pass(p) \/ Deny(p) \/ Commit(p)
        PROVE  Single'
    BY <1>1, <1>4
       DEF Lock, Prune, Pass, Deny, Commit, Within, Return, Goto, Structure,
           BaseInv, BaseTypeOK
  <1>5. CASE Admin \/ Sweep \/ PassTime \/ UNCHANGED vars
    <2>1. UNCHANGED <<pc, call>>
      BY <1>5
         DEF Admin, Reset, Delete, SetLimit, StoreLimit, Close, CloseBegin,
             CloseObject, CloseLimit, Sweep, SweepVisit, SweepLock, SweepJudge,
             SweepDelete, PassTime, Tick, vars, base
    <2> QED
      BY <1>1, <2>1
  <1> QED
    BY <1>2, <1>3, <1>4, <1>5 DEF Next, Step, Prepare, Approach, Create

\* The structure is an invariant of the limiter.
THEOREM StructureInvariant == Spec => []Structure
  <1>1. Structure /\ [Next]_vars => Structure'
    BY BaseStep, StepIsBaseStep, OwnTypesStep, SingleStep DEF Structure
  <1> QED
    BY <1>1, StructureInit, PTL DEF Spec

\* Every variable keeps its type; in particular every RetryAfter counts from
\* an entry that is in the log (AllowWithInfo).
THEOREM TypesCorrect == Spec => []TypeOK
  <1>1. Structure => TypeOK
    BY DEF Structure, BaseInv, OwnTypes, TypeOK
  <1> QED
    BY <1>1, StructureInvariant, PTL

----------------------------------------------------------------------------
(* What a step does to the logs and to the calls that decide. *)

\* The calls that decide go on where they were, with other objects than o.
Others(p, o) ==
    \A q \in Procs : q # p /\ pc'[q] \in Deciding =>
        /\ pc'[q] = pc[q] /\ call'[q] = call[q]
        /\ call[q].ptr \in Objects /\ call[q].ptr # o

\* A step on the way to a decision, and a denial.
Quiet(p) ==
    /\ UNCHANGED <<clock, mark, table, heap, units>>
    /\ \A q \in Procs : pc'[q] \in Deciding =>
          /\ pc[q] \in Deciding /\ call'[q] = call[q]
          /\ pc'[q] = "commit" => pc[q] = "commit" \/ Fits(q)

Created(p, o) ==
    /\ o \in Objects /\ \A k \in Keys : table[k] # o
    /\ heap'[o].timestamps = {} /\ units'[o] = 0
    /\ \A x \in Objects : x # o => heap'[x] = heap[x] /\ units'[x] = units[x]
    /\ table[call[p].key] = NoObject /\ call[p].key \in Keys
    /\ \A k \in Keys : k # call[p].key => table'[k] = table[k]
    /\ UNCHANGED <<clock, mark, advice>>
    /\ pc'[p] \notin Deciding /\ Others(p, o)

Cut(p) ==
    /\ call[p] \in Call /\ call[p].ptr \in Objects /\ pc[p] \in Critical
    /\ heap'[call[p].ptr].timestamps = ValidTimestamps(p)
    /\ \A x \in Objects : x # call[p].ptr => heap'[x] = heap[x]
    /\ UNCHANGED <<clock, mark, table, call, units, advice>>
    /\ pc'[p] = "check" /\ Others(p, call[p].ptr)

Grown(p) ==
    /\ call[p] \in Call /\ call[p].ptr \in Objects /\ pc[p] = "commit"
    /\ heap'[call[p].ptr] = Appended(p)
    /\ \A x \in Objects : x # call[p].ptr =>
          heap'[x] = heap[x] /\ units'[x] = units[x]
    /\ units'[call[p].ptr] =
          IF InInterval(clock) THEN units[call[p].ptr] + call[p].n
                               ELSE units[call[p].ptr]
    /\ advice' = [advice EXCEPT ![call[p].key] = NoAdvice]
    /\ UNCHANGED <<clock, mark, table>>
    /\ pc'[p] = "idle" /\ Others(p, call[p].ptr)

\* Administration, the cleaner and time: no log changes, and an entry of the
\* map only with the advice for its key.
Aside ==
    /\ UNCHANGED <<heap, units, mark, pc, call>>
    /\ clock' \in {clock, clock + 1}
    /\ \A k \in Keys :
          \/ advice'[k] = NoAdvice
          \/ advice'[k] = advice[k] /\ table'[k] = table[k]

LEMMA QuietEffect ==
    ASSUME Structure, NEW p \in Procs, Prepare(p) \/ Pass(p) \/ Deny(p)
    PROVE  Quiet(p)
  <1> USE DEF Structure, BaseInv, BaseTypeOK, Quiet, Deciding
  <1>1. CASE Prepare(p)
    BY <1>1 DEF Prepare, Approach, Begin, BeginAllowN, BeginAllowWithInfo,
                Enter, ReadClock, LoadFound, Lock, Goto, history
  <1>2. CASE Pass(p)
    BY <1>2 DEF Pass, Within, Goto, history
  <1>3. CASE Deny(p)
    BY <1>3 DEF Deny, Return, Goto
  <1> QED
    BY <1>1, <1>2, <1>3

LEMMA CreateEffect ==
    ASSUME Structure, NEW p \in Procs, NEW o \in Fresh, Create(p, o)
    PROVE  Created(p, o)
  <1>1. o \in Objects /\ \A k \in Keys : table[k] # o
    BY DEF Fresh, Mapped
  <1>2. /\ pc[p] = "load" /\ pc' = [pc EXCEPT ![p] = "lock"]
        /\ call' = [call EXCEPT ![p].ptr = o]
        /\ heap' = [heap EXCEPT ![o] = [timestamps |-> {}, appended |-> 0]]
        /\ units' = [units EXCEPT ![o] = 0]
        /\ table[call[p].key] = NoObject
        /\ table' = [table EXCEPT ![call[p].key] = o]
        /\ UNCHANGED <<clock, mark, advice>>
    BY DEF Create, StoreNew, Goto
  <1>3. call[p].key \in Keys
    BY <1>2 DEF Structure, BaseInv, Shaped, Call
  <1>4. \A q \in Procs : pc[q] \in AfterLoad => call[q].ptr \in Objects \ {o}
    BY DEF Fresh, Held, Structure, BaseInv, Shaped
  <1>5. pc'[p] \notin Deciding /\ Others(p, o)
    BY <1>2, <1>4
       DEF Structure, BaseInv, BaseTypeOK, Others, Deciding, AfterLoad, Critical
  <1>6. /\ heap'[o].timestamps = {} /\ units'[o] = 0
        /\ \A x \in Objects : x # o => heap'[x] = heap[x] /\ units'[x] = units[x]
        /\ \A k \in Keys : k # call[p].key => table'[k] = table[k]
    BY <1>1, <1>2, <1>3 DEF Structure, BaseInv, BaseTypeOK, OwnTypes
  <1> QED
    BY <1>1, <1>2, <1>3, <1>5, <1>6 DEF Created

\* In the critical section a goroutine is alone with its object.
LEMMA Apart ==
    ASSUME Structure, NEW p \in Procs, pc[p] \in Critical,
           \A q \in Procs : q # p => pc'[q] = pc[q] /\ call'[q] = call[q]
    PROVE  Others(p, call[p].ptr)
  BY Exclusive
     DEF Others, Structure, BaseInv, Shaped, Deciding, AfterLoad, Critical

LEMMA CutEffect ==
    ASSUME Structure, NEW p \in Procs, Prune(p) PROVE Cut(p)
  <1>1. /\ pc[p] = "update" /\ pc' = [pc EXCEPT ![p] = "check"]
        /\ heap' = [heap EXCEPT ![call[p].ptr].timestamps = ValidTimestamps(p)]
        /\ UNCHANGED <<clock, mark, table, call, units, advice>>
    BY DEF Prune, Within, Goto, history
  <1>2. pc[p] \in Critical /\ pc'[p] = "check"
    BY <1>1 DEF Critical, Structure, BaseInv, BaseTypeOK
  <1>3. call[p] \in Call /\ call[p].ptr \in Objects
    BY <1>2, PruneEffect
  <1>4. Others(p, call[p].ptr)
    BY <1>1, <1>2, Apart DEF Structure, BaseInv, BaseTypeOK
  <1>5. /\ heap'[call[p].ptr].timestamps = ValidTimestamps(p)
        /\ \A x \in Objects : x # call[p].ptr => heap'[x] = heap[x]
    BY <1>1, <1>3 DEF Structure, OwnTypes, requestLog
  <1> QED
    BY <1>1, <1>2, <1>3, <1>4, <1>5 DEF Cut

LEMMA GrowEffect ==
    ASSUME Structure, NEW p \in Procs, Commit(p) PROVE Grown(p)
  <1>1. /\ pc[p] = "commit" /\ pc' = [pc EXCEPT ![p] = "idle"]
        /\ call' = [call EXCEPT ![p] = NoCall]
        /\ heap' = [heap EXCEPT ![call[p].ptr] = Appended(p)]
        /\ units' = IF InInterval(clock)
                    THEN [units EXCEPT ![call[p].ptr] = @ + call[p].n]
                    ELSE units
        /\ advice' = [advice EXCEPT ![call[p].key] = NoAdvice]
        /\ UNCHANGED <<clock, mark, table>>
    BY DEF Commit, Return, Goto
  <1>2. pc[p] \in Critical /\ pc'[p] = "idle"
    BY <1>1 DEF Critical, Structure, BaseInv, BaseTypeOK
  <1>3. call[p] \in Call /\ call[p].ptr \in Objects
    BY <1>2, AppendEffect
  <1>4. Others(p, call[p].ptr)
    BY <1>1, <1>2, Apart DEF Structure, BaseInv, BaseTypeOK
  <1>5. /\ heap'[call[p].ptr] = Appended(p)
        /\ \A x \in Objects : x # call[p].ptr => heap'[x] = heap[x]
    BY <1>1, <1>3 DEF Structure, OwnTypes
  <1>6. /\ units'[call[p].ptr] =
              IF InInterval(clock) THEN units[call[p].ptr] + call[p].n
                                   ELSE units[call[p].ptr]
        /\ \A x \in Objects : x # call[p].ptr => units'[x] = units[x]
    BY <1>1, <1>3 DEF Structure, OwnTypes
  <1> QED
    BY <1>1, <1>2, <1>3, <1>4, <1>5, <1>6 DEF Grown

LEMMA AsideEffect ==
    ASSUME Structure, Admin \/ Sweep \/ PassTime \/ UNCHANGED vars PROVE Aside
  <1> USE DEF Structure, BaseInv, BaseTypeOK, OwnTypes, Aside
  <1>1. CASE Admin
    BY <1>1 DEF Admin, Reset, Delete, SetLimit, StoreLimit, Close, CloseBegin,
                CloseObject, CloseLimit, Forget, Void, history
  <1>2. CASE Sweep
    BY <1>2 DEF Sweep, SweepVisit, SweepLock, SweepJudge, SweepDelete, Delete,
                Void, base, history
  <1>3. CASE PassTime \/ UNCHANGED vars
    BY <1>3 DEF PassTime, Tick, vars, base, history
  <1> QED
    BY <1>1, <1>2, <1>3

\* The kinds of steps.
LEMMA LogCases ==
    ASSUME Structure, [Next]_vars
    PROVE  \/ \E p \in Procs : Prepare(p) \/ Pass(p) \/ Deny(p)
           \/ \E p \in Procs, o \in Fresh : Create(p, o)
           \/ \E p \in Procs : Prune(p)
           \/ \E p \in Procs : Commit(p)
           \/ Aside
  BY AsideEffect DEF Next, Step

\* Every step keeps what a call has pruned and checked.
LEMMA DecidingStep ==
    Structure /\ Pruned /\ Checked /\ [Next]_vars => Pruned' /\ Checked'
  <1> SUFFICES ASSUME Structure, Pruned, Checked, [Next]_vars
               PROVE  Pruned' /\ Checked'
    OBVIOUS
  <1> USE DEF Pruned, Checked, Fits, len, log, windowStart, Deciding
  <1>1. ASSUME NEW p \in Procs, Prepare(p) \/ Pass(p) \/ Deny(p)
        PROVE  Pruned' /\ Checked'
    BY <1>1, QuietEffect DEF Quiet
  <1>2. ASSUME NEW p \in Procs, NEW o \in Fresh, Create(p, o)
        PROVE  Pruned' /\ Checked'
    BY <1>2, CreateEffect DEF Created, Others
  <1>3. ASSUME NEW p \in Procs, Prune(p) PROVE Pruned' /\ Checked'
    BY <1>3, CutEffect DEF Cut, Others, ValidTimestamps
  <1>4. ASSUME NEW p \in Procs, Commit(p) PROVE Pruned' /\ Checked'
    BY <1>4, GrowEffect DEF Grown, Others
  <1>5. CASE Aside
    BY <1>5 DEF Aside
  <1> QED
    BY <1>1, <1>2, <1>3, <1>4, <1>5, LogCases

----------------------------------------------------------------------------
(* The bound of a window. *)

\* Entries from the time of the readings of calls that append in the
\* observed interval.
Recent(T) == {e \in T : e.at >= mark - MaxStale}

\* While the interval lasts, a log still holds all that it has admitted in it.
KeptIn(o) ==
    /\ clock < mark => units[o] = 0
    /\ InInterval(clock) => units[o] <= Cardinality(Recent(heap[o].timestamps))
    /\ \E l \in Limits : units[o] <= l.req

Kept == \A o \in Objects : KeptIn(o)

LEMMA KeptStep == Structure /\ Checked /\ Kept /\ [Next]_vars => Kept'
  <1> SUFFICES ASSUME Structure, Checked, Kept, [Next]_vars PROVE Kept'
    OBVIOUS
  <1>t. /\ clock \in Nat /\ mark \in Nat /\ MaxStale \in Nat
        /\ \A o \in Objects :
              /\ units[o] \in Nat
              /\ heap[o].timestamps \in SUBSET [pos : Nat, at : Time]
              /\ IsFiniteSet(heap[o].timestamps)
    BY TimeAssumption
       DEF Structure, BaseInv, BaseTypeOK, OwnTypes, Logs, requestLog, Time
  <1>l. \A l \in Limits : l.req \in Nat /\ l.win \in Nat
    BY LimitNumbers
  <1>r. ASSUME NEW o \in Objects
        PROVE  /\ IsFiniteSet(Recent(heap[o].timestamps))
               /\ Cardinality(Recent(heap[o].timestamps)) \in Nat
               /\ Cardinality(Recent(heap[o].timestamps))
                    <= Cardinality(heap[o].timestamps)
    <2>1. Recent(heap[o].timestamps) \in SUBSET heap[o].timestamps
      BY DEF Recent
    <2> QED
      BY <2>1, <1>t, FS_Subset, FS_CardinalityType
  \* An object that a step leaves alone, time included.
  <1>0. ASSUME NEW o \in Objects, UNCHANGED <<clock, mark>>, heap'[o] = heap[o],
               units'[o] = units[o]
        PROVE  KeptIn(o)'
    BY <1>0 DEF Kept, KeptIn, InInterval, Recent
  <1>1. ASSUME NEW p \in Procs, Prepare(p) \/ Pass(p) \/ Deny(p) PROVE Kept'
    <2>1. UNCHANGED <<clock, mark, heap, units>>
      BY <1>1, QuietEffect DEF Quiet
    <2> QED
      BY <2>1, <1>0 DEF Kept
  <1>2. ASSUME NEW p \in Procs, NEW o \in Fresh, Create(p, o) PROVE Kept'
    <2>1. Created(p, o)
      BY <1>2, CreateEffect
    <2>2. Recent(heap[o].timestamps)' = {} /\ units'[o] = 0
      BY <2>1 DEF Created, Recent
    <2>3. Cardinality(Recent(heap[o].timestamps)') = 0
      BY <2>2, FS_EmptySet
    <2>4. DefaultLimit \in Limits
      BY DEF Limits
    <2>5. KeptIn(o)'
      BY <2>2, <2>3, <2>4, <1>l DEF KeptIn
    <2>6. \A x \in Objects : x # o => KeptIn(x)'
      BY <2>1, <1>0 DEF Created
    <2> QED
      BY <2>5, <2>6 DEF Kept
  <1>3. ASSUME NEW p \in Procs, Prune(p) PROVE Kept'
    <2>1. Cut(p)
      BY <1>3, CutEffect
    <2>2. PICK o \in Objects : o = call[p].ptr
      BY <2>1 DEF Cut
    <2> DEFINE T == heap[o].timestamps
    <2>3. /\ UNCHANGED <<clock, mark, units>>
          /\ heap'[o].timestamps = {e \in T : e.at > windowStart(p)}
      BY <2>1, <2>2 DEF Cut, ValidTimestamps, log
    <2>4. InInterval(clock) => Recent(T)' = Recent(T)
      <3>1. ASSUME InInterval(clock), NEW e \in T, e.at >= mark - MaxStale
            PROVE  e.at > windowStart(p)
        <4>1. /\ call[p].now \in Nat /\ call[p].now <= clock
              /\ call[p].lim \in Limits /\ call[p].lim.win \in Nat
          BY <2>1, <1>l, TimeAssumption
             DEF Cut, Structure, BaseInv, Punctual, Reading, AfterLoad,
                 Critical, Call, Time
        <4>2. clock - mark < call[p].lim.win - MaxStale
          BY <3>1, <4>1 DEF InInterval
        <4>3. e.at \in Nat
          BY <3>1, <1>t, TimeAssumption DEF Time
        <4> QED
          BY <3>1, <4>1, <4>2, <4>3, <1>t DEF windowStart
      <3> QED
        BY <2>3, <3>1 DEF Recent
    <2>5. KeptIn(o)'
      BY <2>3, <2>4 DEF Kept, KeptIn, InInterval
    <2>6. \A x \in Objects : x # o => KeptIn(x)'
      BY <2>1, <2>2, <1>0 DEF Cut
    <2> QED
      BY <2>5, <2>6 DEF Kept
  <1>4. ASSUME NEW p \in Procs, Commit(p) PROVE Kept'
    <2>1. Grown(p)
      BY <1>4, GrowEffect
    <2>2. PICK o \in Objects : o = call[p].ptr
      BY <2>1 DEF Grown
    <2>3. PICK n \in Nat, b \in Nat, t \in Nat, l \in Limits :
             n = call[p].n /\ b = heap[o].appended /\ t = call[p].now
               /\ l = call[p].lim
      BY <2>1, <2>2, AmountNumbers, TimeAssumption
         DEF Grown, Call, Time, Structure, OwnTypes, requestLog
    <2> DEFINE T == heap[o].timestamps
               E == Entries(b, n, t)
    <2>4. /\ UNCHANGED <<clock, mark>> /\ heap'[o].timestamps = T \cup E
          /\ units'[o] = IF InInterval(clock) THEN units[o] + n ELSE units[o]
      BY <2>1, <2>2, <2>3, AppendEffect DEF Grown, log, Critical
    <2>5. ASSUME InInterval(clock) PROVE KeptIn(o)'
      <3>1. clock - t <= MaxStale /\ mark <= clock
        BY <2>1, <2>3, <2>5
           DEF Grown, Structure, BaseInv, Punctual, Reading, AfterLoad,
               Critical, InInterval
      <3>2. t >= mark - MaxStale
        BY <3>1, <1>t
      <3>3. Recent(T \cup E) = Recent(T) \cup E
        BY <3>2 DEF Recent, Entries
      <3>4. \A e \in Recent(T) : e.pos <= b /\ e.pos \in Nat
        BY <2>3, <1>t DEF Recent, Structure, Logs
      <3>5. Cardinality(Recent(T) \cup E) = Cardinality(Recent(T)) + n
        BY <3>4, <1>r, AppendCount
      <3>6. /\ units[o] <= Cardinality(Recent(T)) /\ units[o] \in Nat
            /\ Cardinality(Recent(T)) \in Nat
            /\ Cardinality(Recent(T)) <= Cardinality(T)
            /\ Cardinality(T) \in Nat
        BY <2>5, <1>r, <1>t, FS_CardinalityType DEF Kept, KeptIn
      <3>7. Cardinality(T) + n <= l.req /\ l.req \in Nat
        BY <2>1, <2>2, <2>3, <1>l DEF Grown, Checked, Fits, len, log
      <3>8. Recent(T)' = Recent(T \cup E)
        BY <2>4 DEF Recent
      <3>9. /\ units'[o] = units[o] + n
            /\ Cardinality(Recent(T)') = Cardinality(Recent(T)) + n
        BY <2>4, <2>5, <3>3, <3>5, <3>8
      <3>10. Recent(heap[o].timestamps)' = Recent(T)'
        OBVIOUS
      <3>11. ~ (clock' < mark')
        BY <2>4, <3>1, <1>t
      <3> HIDE DEF T, E
      <3>12. units'[o] <= Cardinality(Recent(T)') /\ units'[o] <= l.req
        BY <3>6, <3>7, <3>9
      <3> QED
        BY <3>10, <3>11, <3>12, <2>3 DEF KeptIn
    <2>6. ASSUME ~InInterval(clock) PROVE KeptIn(o)'
      <3>1. ~InInterval(clock)' /\ units'[o] = units[o] /\ KeptIn(o)
        BY <2>4, <2>6 DEF Kept, InInterval
      <3> QED
        BY <3>1, <2>4 DEF KeptIn
    <2>7. \A x \in Objects : x # o => KeptIn(x)'
      BY <2>1, <2>2, <1>0 DEF Grown
    <2> QED
      BY <2>5, <2>6, <2>7 DEF Kept
  <1>5. CASE Aside
    <2>1. UNCHANGED <<heap, units, mark>> /\ clock' \in {clock, clock + 1}
      BY <1>5 DEF Aside
    <2>2. InInterval(clock)' /\ ~ (clock < mark) => InInterval(clock)
      BY <2>1, <1>t, <1>l DEF InInterval
    <2>3. ASSUME NEW o \in Objects PROVE KeptIn(o)'
      <3>1. Recent(heap[o].timestamps)' = Recent(heap[o].timestamps)
        BY <2>1 DEF Recent
      <3>2. KeptIn(o)
        BY DEF Kept
      <3> QED
        BY <2>1, <2>2, <3>1, <3>2, <1>t, <1>r DEF KeptIn
    <2> QED
      BY <2>3 DEF Kept
  <1> QED
    BY <1>1, <1>2, <1>3, <1>4, <1>5, LogCases

LEMMA KeptInit == Init => Pruned /\ Checked /\ Kept
  <1> SUFFICES ASSUME Init PROVE Pruned /\ Checked /\ Kept
    OBVIOUS
  <1>1. DefaultLimit \in Limits /\ DefaultLimit.req \in Nat
    BY LimitNumbers DEF Limits
  <1>2. \A o \in Objects : heap[o].timestamps = {} /\ units[o] = 0
    BY DEF Init
  <1>3. \A o \in Objects : Cardinality(Recent(heap[o].timestamps)) = 0
    BY <1>2, FS_EmptySet DEF Recent
  <1>4. \A p \in Procs : pc[p] = "idle"
    BY DEF Init, BaseInit
  <1> QED
    BY <1>1, <1>2, <1>3, <1>4 DEF Pruned, Checked, Kept, KeptIn, Deciding

\* One log admits at most one limit's worth of units in less than a window,
\* for any number of goroutines and any delay up to MaxStale between the clock
\* reading of a call and its critical section: there is no boundary burst.
THEOREM WindowIsBounded == Spec => []WindowBound
  <1>1. Kept => WindowBound
    BY DEF Kept, KeptIn, WindowBound
  <1> QED
    BY <1>1, KeptInit, DecidingStep, KeptStep, StructureInvariant, PTL DEF Spec
----------------------------------------------------------------------------
(* RetryAfter. *)

\* A log with the entries T is shorter than it was when an advice was told, or
\* gets so when the advice comes due and an entry expires.
Hope(T, a) ==
    /\ Cardinality(T) <= a.size
    /\ \/ Cardinality(T) < a.size
       \/ \E e \in T : e.at + a.lim.win <= a.at

\* An advice that stands is about the log that its key has.
Hopeful ==
    \A k \in Keys : advice[k] # NoAdvice =>
        /\ table[k] \in Objects
        /\ Hope(heap[table[k]].timestamps, advice[k])

\* A log that loses entries gains room: the advice stays good whatever limit
\* a later call prunes the log with.
LEMMA HopeShrinks ==
    ASSUME NEW T, IsFiniteSet(T), NEW S \in SUBSET T, NEW a \in Advice, Hope(T, a)
    PROVE  Hope(S, a)
  <1>1. /\ Cardinality(S) \in Nat /\ Cardinality(T) \in Nat
        /\ Cardinality(S) <= Cardinality(T)
        /\ Cardinality(S) = Cardinality(T) => S = T
    BY FS_Subset, FS_CardinalityType
  <1>2. a.size \in Nat
    BY DEF Advice
  <1>3. CASE S = T
    BY <1>3
  <1>4. CASE S # T
    BY <1>1, <1>2, <1>4 DEF Hope
  <1> QED
    BY <1>3, <1>4

\* Every step keeps the advice that stands good.
LEMMA HopefulStep == Structure /\ Hopeful /\ [Next]_vars => Hopeful'
  <1> SUFFICES ASSUME Structure, Hopeful, [Next]_vars PROVE Hopeful'
    OBVIOUS
  <1>t. /\ advice \in [Keys -> Advice \cup {NoAdvice}]
        /\ table \in [Keys -> Objects \cup {NoObject}]
        /\ \A o \in Objects : IsFiniteSet(heap[o].timestamps)
    BY DEF Structure, BaseInv, BaseTypeOK, OwnTypes, Logs
  <1>1. ASSUME UNCHANGED <<table, heap, advice>> PROVE Hopeful'
    BY <1>1 DEF Hopeful, Hope
  <1>2. ASSUME NEW p \in Procs, Deny(p) PROVE Hopeful'
    <2>1. /\ pc[p] = "check" /\ call[p] \in Call /\ call[p].ptr \in Objects
          /\ advice' = Advised(p) /\ UNCHANGED <<heap, table>>
      BY <1>2 DEF Deny, Return, Goto, Structure, BaseInv, Shaped, AfterLoad, Critical
    <2>2. CASE call[p].info /\ table[call[p].key] = call[p].ptr
      <3> DEFINE k == call[p].key
                 a == [lim |-> call[p].lim, at |-> RetryAt(p), size |-> len(p)]
      <3>1. k \in Keys /\ advice' = [advice EXCEPT ![k] = a]
        BY <2>1, <2>2 DEF Advised, Call
      <3>2. Hope(heap[table[k]].timestamps, a)
        BY <1>2, <2>1, <2>2, DenialTime, LimitNumbers DEF Hope, len, log, Call
      <3> HIDE DEF k, a
      <3>3. table[k] \in Objects
        BY <2>1, <2>2 DEF k
      <3> QED
        BY <2>1, <3>1, <3>2, <3>3, <1>t DEF Hopeful, Hope
    <2> QED
      BY <2>1, <2>2, <1>1 DEF Advised
  <1>3. ASSUME NEW p \in Procs, NEW o \in Fresh, Create(p, o) PROVE Hopeful'
    <2>1. Created(p, o) /\ NoObject \notin Objects
      BY <1>3, CreateEffect, NullAssumption
    <2>2. advice[call[p].key] = NoAdvice
      BY <2>1 DEF Created, Hopeful
    <2> SUFFICES ASSUME NEW k \in Keys, advice'[k] # NoAdvice
                 PROVE  /\ table'[k] \in Objects
                        /\ Hope(heap'[table'[k]].timestamps, advice'[k])
      BY DEF Hopeful, Hope
    <2>3. /\ advice'[k] = advice[k] /\ table'[k] = table[k]
          /\ table[k] \in Objects /\ heap'[table[k]] = heap[table[k]]
      BY <2>1, <2>2 DEF Created, Hopeful
    <2> QED
      BY <2>3 DEF Hopeful
  <1>4. ASSUME NEW p \in Procs, Prune(p) PROVE Hopeful'
    <2>1. Cut(p) /\ ValidTimestamps(p) \in SUBSET log(p).timestamps
      BY <1>4, CutEffect DEF ValidTimestamps
    <2> SUFFICES ASSUME NEW k \in Keys, advice'[k] # NoAdvice
                 PROVE  /\ table'[k] \in Objects
                        /\ Hope(heap'[table'[k]].timestamps, advice'[k])
      BY DEF Hopeful, Hope
    <2> DEFINE T == heap[table[k]].timestamps
    <2>2. /\ advice'[k] = advice[k] /\ table'[k] = table[k]
          /\ table[k] \in Objects /\ advice[k] \in Advice
          /\ Hope(T, advice[k])
      BY <2>1, <1>t DEF Cut, Hopeful
    <2>3. heap'[table[k]].timestamps \in SUBSET T /\ IsFiniteSet(T)
      BY <2>1, <2>2, <1>t DEF Cut, log
    <2> QED
      BY <2>2, <2>3, HopeShrinks
  <1>5. ASSUME NEW p \in Procs, Commit(p) PROVE Hopeful'
    <2>1. Grown(p) /\ pc[p] \in AfterLoad
      BY <1>5, GrowEffect DEF Grown, AfterLoad, Critical
    <2> SUFFICES ASSUME NEW k \in Keys, advice'[k] # NoAdvice
                 PROVE  /\ table'[k] \in Objects
                        /\ Hope(heap'[table'[k]].timestamps, advice'[k])
      BY DEF Hopeful, Hope
    <2>2. k # call[p].key /\ advice'[k] = advice[k] /\ table'[k] = table[k]
      BY <2>1, <1>t DEF Grown, Call
    <2>3. table[k] # call[p].ptr
      BY <2>1, <2>2 DEF Structure, BaseInv, CallsApart
    <2> QED
      BY <2>1, <2>2, <2>3 DEF Grown, Hopeful
  <1>6. CASE Aside
    BY <1>6 DEF Aside, Hopeful, Hope
  <1>7. ASSUME NEW p \in Procs, Prepare(p) \/ Pass(p) PROVE Hopeful'
    <2>1. UNCHANGED <<heap, table, advice>>
      BY <1>7, QuietEffect DEF Quiet, Prepare, Pass, history
    <2> QED
      BY <2>1, <1>1
  <1> QED
    BY <1>2, <1>3, <1>4, <1>5, <1>6, <1>7, LogCases

LEMMA HopefulInit == Init => Hopeful
  BY DEF Init, Hopeful

\* RetryAfter is honest: the entry that the time in AllowWithInfo's answer
\* counts from has left the window by then, whoever pruned the log meanwhile
\* and with whichever limit, so that the log is shorter than it was.
THEOREM RetryAfterIsHonest == Spec => RetryPromise
  <1>1. Structure /\ Pruned /\ Hopeful /\ [Next]_vars =>
          [\A p \in Procs :
              /\ Deny(p)
              /\ call[p].ptr = table[call[p].key]
              /\ call[p].n = 1
              /\ advice[call[p].key] # NoAdvice
              /\ call[p].lim = advice[call[p].key].lim
              /\ call[p].now >= advice[call[p].key].at
              => len(p) < advice[call[p].key].size]_vars
    <2> SUFFICES ASSUME Structure, Pruned, Hopeful, NEW p \in Procs, Deny(p),
                        call[p].ptr = table[call[p].key],
                        advice[call[p].key] # NoAdvice,
                        call[p].lim = advice[call[p].key].lim,
                        call[p].now >= advice[call[p].key].at
                 PROVE  len(p) < advice[call[p].key].size
      OBVIOUS
    <2> DEFINE k == call[p].key
               T == log(p).timestamps
    <2>1. pc[p] = "check" /\ call[p] \in Call /\ call[p].ptr \in Objects
      BY DEF Deny, Return, Goto, Structure, BaseInv, Shaped, AfterLoad, Critical
    <2>2. /\ k \in Keys /\ call[p].now \in Nat
          /\ call[p].lim.req \in Nat /\ call[p].lim.win \in Nat
      BY <2>1, LimitNumbers, TimeAssumption DEF Call, Time
    <2>3. advice[k].at \in Nat /\ advice[k].size \in Nat
      BY <2>2 DEF Structure, OwnTypes, Advice
    <2>4. /\ \A e \in T : e.at \in Nat
          /\ IsFiniteSet(T) /\ Cardinality(T) \in Nat
      BY <2>1, TimeAssumption, FS_CardinalityType
         DEF Structure, OwnTypes, Logs, log, requestLog, Time
    <2>5. Hope(T, advice[k])
      BY <2>2 DEF Hopeful, log
    <2>6. \A e \in T : e.at > call[p].now - call[p].lim.win
      BY <2>1 DEF Pruned, Deciding, windowStart
    <2> QED
      BY <2>2, <2>3, <2>4, <2>5, <2>6 DEF Hope, len
  <1> QED
    BY <1>1, KeptInit, HopefulInit, DecidingStep, HopefulStep,
       StructureInvariant, PTL DEF Spec, RetryPromise

----------------------------------------------------------------------------
(* The refinement of WindowLog. *)

\* What a call in the critical section brings to the log of its key.
LEMMA CallIsProper ==
    ASSUME Structure, NEW p \in Procs, pc[p] \in Critical
    PROVE  /\ call[p].ptr \in Objects /\ call[p].key \in Keys
           /\ call[p].lim \in Limits /\ call[p].n \in Amounts
           /\ call[p].now \in KeyLog!Readings
           /\ \A k \in Keys : table[k] = call[p].ptr => k = call[p].key
  <1>1. call[p] \in Call /\ call[p].ptr \in Objects
    BY DEF Structure, BaseInv, Shaped, AfterLoad, Critical
  <1>2. call[p].now <= clock /\ clock - call[p].now <= MaxStale
    BY DEF Structure, BaseInv, Punctual, Reading, AfterLoad
  <1>3. \A k \in Keys : table[k] = call[p].ptr => k = call[p].key
    BY DEF Structure, BaseInv, CallsApart, AfterLoad
  <1> QED
    BY <1>1, <1>2, <1>3 DEF Call, KeyLog!Readings

\* The log of a key is that of its object.
LEMMA LogOfKey ==
    ASSUME Structure
    PROVE  \A k \in Keys :
              /\ logOf[k] = NoObject <=> table[k] = NoObject
              /\ table[k] # NoObject =>
                    table[k] \in Objects /\ logOf[k] = heap[table[k]]
  <1>1. \A o \in Objects : heap[o] # NoObject
    BY ObjectAssumption DEF Structure, OwnTypes
  <1> QED
    BY <1>1 DEF logOf, Structure, BaseInv, BaseTypeOK

\* When one log changes, and the map does not, no other key sees it.
LEMMA OneLogChanges ==
    ASSUME Structure, NEW o \in Objects, NEW v, heap' = [heap EXCEPT ![o] = v],
           UNCHANGED table
    PROVE  /\ (\A j \in Keys : table[j] # o) => logOf' = logOf
           /\ \A k \in Keys : table[k] = o => logOf' = [logOf EXCEPT ![k] = v]
  <1> USE DEF Structure, BaseInv, BaseTypeOK, OwnTypes
  <1>1. ASSUME \A j \in Keys : table[j] # o PROVE logOf' = logOf
    <2>1. \A j \in Keys : table[j] # NoObject => heap'[table[j]] = heap[table[j]]
      BY <1>1
    <2> QED
      BY <2>1 DEF logOf
  <1>2. ASSUME NEW k \in Keys, table[k] = o
        PROVE  logOf' = [logOf EXCEPT ![k] = v]
    <2>1. \A j \in Keys : j # k => table[j] # o
      BY <1>2, NullAssumption DEF KeysApart
    <2>2. \A j \in Keys : j # k /\ table[j] # NoObject =>
             heap'[table[j]] = heap[table[j]]
      BY <2>1
    <2>3. heap'[o] = v /\ o # NoObject
      BY NullAssumption
    <2> QED
      BY <1>2, <2>2, <2>3 DEF logOf
  <1> QED
    BY <1>1, <1>2

\* A call's pruning forgets what lies before its window, or stutters.
LEMMA PruneRefines ==
    ASSUME Structure, NEW p \in Procs, Prune(p)
    PROVE  KeyLog!LogNext \/ UNCHANGED KeyLog!lvars
  <1> DEFINE k == call[p].key
             l == call[p].lim
             t == call[p].now
             o == call[p].ptr
             v == [heap[o] EXCEPT !.timestamps = ValidTimestamps(p)]
  <1>1. /\ pc[p] \in Critical /\ heap' = [heap EXCEPT ![o] = v]
        /\ UNCHANGED <<table, clock>>
    BY DEF Prune, Within, Goto, Critical
  <1>2. /\ o \in Objects /\ k \in Keys /\ l \in Limits /\ t \in KeyLog!Readings
        /\ \A j \in Keys : table[j] = o => j = k
    BY <1>1, CallIsProper
  <1>3. CASE table[k] = o
    <2>1. logOf[k] = heap[o] /\ logOf[k] # NoObject
      BY <1>2, <1>3, LogOfKey, NullAssumption
    <2>2. v = [logOf[k] EXCEPT !.timestamps = KeyLog!InWindow(k, l, t)]
      BY <2>1 DEF ValidTimestamps, windowStart, log, KeyLog!InWindow
    <2> HIDE DEF v, k, l, t, o
    <2>3. logOf' = [logOf EXCEPT ![k] = v]
      BY <1>1, <1>2, <1>3, OneLogChanges
    <2>4. KeyLog!Forget(k, l, t)
      BY <1>1, <2>1, <2>2, <2>3 DEF KeyLog!Forget
    <2> QED
      BY <1>2, <2>4 DEF KeyLog!LogNext
  <1>4. CASE table[k] # o
    <2> HIDE DEF v, k, l, t, o
    <2>1. logOf' = logOf
      BY <1>1, <1>2, <1>4, OneLogChanges
    <2> QED
      BY <1>1, <2>1 DEF KeyLog!lvars
  <1> QED
    BY <1>3, <1>4

\* A call that appends has pruned, and what it has counted is still so: it
\* admits in one step, or stutters.
LEMMA CommitRefines ==
    ASSUME Structure, Pruned, Checked, NEW p \in Procs, Commit(p)
    PROVE  KeyLog!LogNext \/ UNCHANGED KeyLog!lvars
  <1> DEFINE k == call[p].key
             l == call[p].lim
             t == call[p].now
             n == call[p].n
             o == call[p].ptr
             v == Appended(p)
  <1>1. /\ pc[p] = "commit" /\ heap' = [heap EXCEPT ![o] = v]
        /\ UNCHANGED <<table, clock>>
    BY DEF Commit, Return, Goto
  <1>2. /\ o \in Objects /\ k \in Keys /\ l \in Limits /\ n \in Amounts
        /\ t \in KeyLog!Readings
        /\ \A j \in Keys : table[j] = o => j = k
    BY <1>1, CallIsProper DEF Critical
  <1>3. CASE table[k] = o
    <2>1. logOf[k] = heap[o] /\ logOf[k] # NoObject
      BY <1>2, <1>3, LogOfKey, NullAssumption
    <2>2. \A e \in heap[o].timestamps : e.at > t - l.win
      BY <1>1 DEF Pruned, Deciding, log, windowStart
    <2>3. KeyLog!InWindow(k, l, t) = heap[o].timestamps
      BY <2>1, <2>2 DEF KeyLog!InWindow
    \* The instance has a copy of Cardinality of its own.
    <2>c. KeyLog!Cardinality(heap[o].timestamps) = Cardinality(heap[o].timestamps)
      BY DEF KeyLog!Cardinality, Cardinality
    <2>4. KeyLog!Cardinality(KeyLog!InWindow(k, l, t)) + n <= l.req
      BY <1>1, <2>3, <2>c DEF Checked, Fits, len, log
    <2>5. v = [timestamps |-> KeyLog!InWindow(k, l, t) \cup KeyLog!Batch(k, n, t),
               appended |-> logOf[k].appended + n]
      BY <2>1, <2>3 DEF Appended, log, KeyLog!Batch
    <2> HIDE DEF v, k, l, t, n, o
    <2>6. logOf' = [logOf EXCEPT ![k] = v]
      BY <1>1, <1>2, <1>3, OneLogChanges
    <2>7. logOf' = [logOf EXCEPT ![k] =
                       [timestamps |-> KeyLog!InWindow(k, l, t)
                                          \cup KeyLog!Batch(k, n, t),
                        appended |-> @.appended + n]]
      BY <2>5, <2>6
    <2>8. KeyLog!Admit(k, l, n, t)
      BY <1>1, <2>1, <2>4, <2>7 DEF KeyLog!Admit
    <2> QED
      BY <1>2, <2>8 DEF KeyLog!LogNext
  <1>4. CASE table[k] # o
    <2> HIDE DEF v, k, l, t, n, o
    <2>1. logOf' = logOf
      BY <1>1, <1>2, <1>4, OneLogChanges
    <2> QED
      BY <1>1, <2>1 DEF KeyLog!lvars
  <1> QED
    BY <1>3, <1>4

\* Every step changes the log of one key at most, as WindowLog says.
LEMMA RefinementStep ==
    Structure /\ Pruned /\ Checked /\ [Next]_vars
      => [KeyLog!LogNext]_KeyLog!lvars
  <1> SUFFICES ASSUME Structure, Pruned, Checked, [Next]_vars
               PROVE  KeyLog!LogNext \/ UNCHANGED KeyLog!lvars
    OBVIOUS
  <1>0. ASSUME UNCHANGED <<heap, table, clock>>
        PROVE  UNCHANGED KeyLog!lvars
    BY <1>0 DEF KeyLog!lvars, logOf
  <1>1. ASSUME NEW p \in Procs, Prepare(p) \/ Pass(p) \/ Deny(p)
        PROVE  UNCHANGED KeyLog!lvars
    BY <1>0, <1>1, QuietEffect DEF Quiet
  <1>2. ASSUME NEW p \in Procs, NEW o \in Fresh, Create(p, o)
        PROVE  KeyLog!LogNext
    <2> DEFINE k == call[p].key
               new == [timestamps |-> {}, appended |-> 0]
    <2>1. /\ o \in Objects /\ k \in Keys /\ table[k] = NoObject
          /\ \A j \in Keys : table[j] # o
      BY <1>2, CreateEffect DEF Created
    <2>2. /\ heap' = [heap EXCEPT ![o] = new]
          /\ table' = [table EXCEPT ![k] = o]
          /\ UNCHANGED clock
      BY <1>2 DEF Create, StoreNew
    <2> HIDE DEF k, new
    <2>3. /\ heap'[o] = new /\ table'[k] = o /\ o # NoObject
          /\ \A j \in Keys : j # k => table'[j] = table[j]
          /\ \A j \in Keys : table[j] # NoObject => heap'[table[j]] = heap[table[j]]
      BY <2>1, <2>2, NullAssumption
         DEF Structure, BaseInv, BaseTypeOK, OwnTypes
    <2>4. logOf' = [logOf EXCEPT ![k] = new]
      BY <2>1, <2>3 DEF logOf
    <2>5. KeyLog!Open(k)
      BY <2>1, <2>2, <2>4, LogOfKey DEF KeyLog!Open, new
    <2> QED
      BY <2>1, <2>5 DEF KeyLog!LogNext
  <1>3. ASSUME NEW p \in Procs, Prune(p)
        PROVE  KeyLog!LogNext \/ UNCHANGED KeyLog!lvars
    BY <1>3, PruneRefines
  <1>4. ASSUME NEW p \in Procs, Commit(p)
        PROVE  KeyLog!LogNext \/ UNCHANGED KeyLog!lvars
    BY <1>4, CommitRefines
  <1>5. ASSUME NEW k \in Keys, table' = [table EXCEPT ![k] = NoObject],
               UNCHANGED <<heap, clock>>
        PROVE  KeyLog!LogNext
    <2>1. KeyLog!Drop(k)
      BY <1>5 DEF KeyLog!Drop, logOf, Structure, BaseInv, BaseTypeOK
    <2> QED
      BY <2>1 DEF KeyLog!LogNext
  <1>6. CASE Admin
    BY <1>0, <1>5, <1>6
       DEF Admin, Reset, Delete, SetLimit, StoreLimit, Close, CloseBegin,
           CloseObject, CloseLimit, Forget, history
  <1>7. CASE Sweep
    <2>1. CASE SweepDelete
      <3>1. visit.key \in Keys
        BY <2>1 DEF SweepDelete, Structure, OwnTypes, Visit
      <3> QED
        BY <1>5, <2>1, <3>1 DEF SweepDelete, Delete
    <2> QED
      BY <1>0, <1>7, <2>1 DEF Sweep, SweepVisit, SweepLock, SweepJudge, base
  <1>8. CASE PassTime
    <2>1. KeyLog!Pass
      BY <1>8 DEF PassTime, Tick, KeyLog!Pass, logOf
    <2> QED
      BY <2>1 DEF KeyLog!LogNext
  <1>9. CASE UNCHANGED vars
    BY <1>0, <1>9 DEF vars, base
  <1> QED
    BY <1>1, <1>2, <1>3, <1>4, <1>6, <1>7, <1>8, <1>9 DEF Next, Step

\* The goroutines, mutexes, sync.Map and cleaner of the sliding window
\* implement the atomic log of WindowLog: what a call admits is within a
\* limit together with all that lies in its window, and only the whole log
\* is ever lost.
THEOREM ImplementsLog == Spec => LogPerKey
  <1>1. Init => KeyLog!LogInit
    BY DEF Init, BaseInit, KeyLog!LogInit, logOf
  <1> QED
    BY <1>1, KeptInit, DecidingStep, RefinementStep, StructureInvariant, PTL
       DEF Spec, LogPerKey, KeyLog!LogSpec
----------------------------------------------------------------------------
(* The cleaner and the bound of a key. *)

\* What the cleaner takes for granted when it deletes: the key's log is still
\* old, under the limit that was looked up, and no call is about to use it.
Tidy ==
    SweepDelete =>
        LET o == table[visit.key]
        IN  o # NoObject =>
               /\ o \notin Held
               /\ \A e \in heap[o].timestamps : e.at < clock - visit.lim.win

TidySpec == Init /\ [][Next /\ Tidy]_vars

Over == clock >= mark /\ ~InInterval(clock)

\* The cleaner has removed nothing that was admitted in the interval before
\* its end, and nothing is admitted in it afterwards.
SweptLate ==
    \A k \in Keys :
        /\ swept[k] # 0 => Over
        /\ swept[k] # 0 /\ table[k] # NoObject => units[table[k]] = 0
        /\ \E l \in Limits : swept[k] <= l.req

LEMMA SweptStep ==
    Structure /\ Kept /\ SweptLate /\ [Next /\ Tidy]_vars => SweptLate'
  <1> SUFFICES ASSUME Structure, Kept, SweptLate, [Next /\ Tidy]_vars
               PROVE  SweptLate'
    OBVIOUS
  <1>t. /\ clock \in Nat /\ mark \in Nat /\ MaxStale \in Nat
        /\ table \in [Keys -> Objects \cup {NoObject}] /\ NoObject \notin Objects
        /\ units \in [Objects -> Nat] /\ swept \in [Keys -> Nat]
        /\ \A l \in Limits : l.req \in Nat /\ l.req > 0 /\ l.win \in Nat
    BY TimeAssumption, NullAssumption, LimitNumbers
       DEF Structure, BaseInv, BaseTypeOK, OwnTypes, Time
  \* A key that is forgotten starts over.
  <1>s. ASSUME NEW k \in Keys, swept'[k] = 0
        PROVE  /\ swept'[k] # 0 => Over'
               /\ swept'[k] # 0 /\ table'[k] # NoObject => units'[table'[k]] = 0
               /\ \E l \in Limits : swept'[k] <= l.req
    <2>1. DefaultLimit \in Limits
      BY DEF Limits
    <2> QED
      BY <1>s, <2>1, <1>t
  <1>0. ASSUME UNCHANGED <<swept, clock, mark>>,
               \A k \in Keys :
                  \/ table'[k] = NoObject
                  \/ table'[k] \in Objects /\ units'[table'[k]] = 0
                  \/ table'[k] = table[k] /\ units'[table'[k]] = units[table[k]]
        PROVE  SweptLate'
    <2>1. Over' = Over
      BY <1>0 DEF Over, InInterval
    <2> QED
      BY <1>0, <2>1 DEF SweptLate
  <1>1. ASSUME NEW p \in Procs, Prepare(p) \/ Prune(p) \/ Pass(p) \/ Deny(p)
        PROVE  SweptLate'
    <2>1. UNCHANGED <<swept, clock, mark, table, units>>
      BY <1>1 DEF Prepare, Approach, Begin, BeginAllowN, BeginAllowWithInfo,
                  Enter, ReadClock, LoadFound, Lock, Prune, Pass, Within, Deny,
                  Return, history
    <2> QED
      BY <2>1, <1>0
  <1>2. ASSUME NEW p \in Procs, NEW o \in Fresh, Create(p, o) PROVE SweptLate'
    <2>1. /\ UNCHANGED <<swept, clock, mark>>
          /\ table' = [table EXCEPT ![call[p].key] = o]
          /\ units' = [units EXCEPT ![o] = 0]
          /\ o \in Objects /\ \A k \in Keys : table[k] # o
      BY <1>2 DEF Create, StoreNew, Fresh, Mapped
    <2> QED
      BY <2>1, <1>0, <1>t
  <1>3. ASSUME NEW p \in Procs, Commit(p) PROVE SweptLate'
    <2>1. UNCHANGED <<swept, clock, mark, table>>
      BY <1>3 DEF Commit, Return
    <2>2. CASE UNCHANGED units
      BY <2>1, <2>2, <1>0
    <2>3. CASE ~UNCHANGED units
      <3>1. InInterval(clock)
        BY <1>3, <2>3 DEF Commit
      <3>2. \A k \in Keys : swept'[k] = 0
        BY <2>1, <3>1 DEF SweptLate, Over
      <3> QED
        BY <3>2, <1>s DEF SweptLate
    <2> QED
      BY <2>2, <2>3
  <1>4. ASSUME NEW k \in Keys, table' = [table EXCEPT ![k] = NoObject],
               swept' = [swept EXCEPT ![k] = 0], UNCHANGED <<clock, mark, units>>
        PROVE  SweptLate'
    <2>1. \A j \in Keys : j # k => table'[j] = table[j] /\ swept'[j] = swept[j]
      BY <1>4, <1>t
    <2>2. swept'[k] = 0 /\ Over' = Over
      BY <1>4, <1>t DEF Over, InInterval
    <2> QED
      BY <1>4, <1>s, <2>1, <2>2 DEF SweptLate
  <1>5. ASSUME NEW k \in Keys, CloseLimit(k), Forget(k), UNCHANGED units
        PROVE  SweptLate'
    <2>1. /\ UNCHANGED <<clock, mark, table, units>>
          /\ swept' = [swept EXCEPT ![k] = 0]
      BY <1>5 DEF CloseLimit, Forget
    <2>2. \A j \in Keys : j # k => swept'[j] = swept[j]
      BY <2>1, <1>t
    <2>3. swept'[k] = 0 /\ Over' = Over
      BY <2>1, <1>t DEF Over, InInterval
    <2> QED
      BY <2>1, <1>s, <2>2, <2>3 DEF SweptLate
  <1>6. CASE Admin
    <2>1. ASSUME NEW k \in Keys, NEW l \in LimitArgs, SetLimit(k, l)
          PROVE  SweptLate'
      BY <2>1, <1>0 DEF SetLimit, StoreLimit
    <2>2. ASSUME CloseBegin, UNCHANGED history PROVE SweptLate'
      BY <2>2, <1>0 DEF CloseBegin, history
    <2> QED
      BY <1>4, <1>5, <1>6, <2>1, <2>2
         DEF Admin, Reset, Delete, Close, CloseObject, Forget
  <1>7. CASE SweepDelete /\ Tidy
    <2> DEFINE k == visit.key
    <2>1. /\ k \in Keys /\ visit.lim \in Limits
          /\ UNCHANGED <<clock, mark, units>>
          /\ table' = [table EXCEPT ![k] = NoObject]
      BY <1>7 DEF SweepDelete, Delete, Structure, OwnTypes, Visit
    <2>2. CASE table[k] = NoObject
      <3>1. UNCHANGED <<swept, table>>
        BY <1>7, <2>1, <2>2, <1>t DEF SweepDelete
      <3> QED
        BY <2>1, <3>1, <1>0
    <2>3. CASE table[k] # NoObject
      <3>1. PICK o \in Objects : o = table[k]
        BY <2>1, <2>3, <1>t
      <3>2. /\ swept' = [swept EXCEPT ![k] = @ + units[o]]
            /\ \A e \in heap[o].timestamps : e.at < clock - visit.lim.win
        BY <1>7, <2>3, <3>1 DEF SweepDelete, Tidy
      <3>3. KeptIn(o) /\ units[o] \in Nat /\ swept[k] \in Nat
        BY <2>1, <1>t DEF Kept
      <3>4. units[o] # 0 => Over
        <4> SUFFICES ASSUME units[o] # 0, InInterval(clock) PROVE FALSE
          BY <3>3, <1>t DEF Over, KeptIn
        <4>1. mark <= clock /\ clock - mark < visit.lim.win - MaxStale
          BY <2>1 DEF InInterval
        <4>2. \A e \in heap[o].timestamps : e.at \in Nat
          BY TimeAssumption DEF Structure, OwnTypes, requestLog, Time
        <4>3. visit.lim.win \in Nat
          BY <2>1, <1>t
        <4>4. Recent(heap[o].timestamps) = {}
          BY <3>2, <4>1, <4>2, <4>3, <1>t DEF Recent
        <4>5. Cardinality(Recent(heap[o].timestamps)) = 0
          BY <4>4, FS_EmptySet
        <4> QED
          BY <3>3, <4>5 DEF KeptIn
      <3>5. swept[k] = 0 \/ units[o] = 0
        BY <2>1, <2>3, <3>1 DEF SweptLate
      <3>6. swept'[k] = swept[k] + units[o] /\ table'[k] = NoObject
        BY <2>1, <3>2, <1>t
      <3>7. \A j \in Keys : j # k => table'[j] = table[j] /\ swept'[j] = swept[j]
        BY <2>1, <3>2, <1>t
      <3>8. Over' = Over
        BY <2>1 DEF Over, InInterval
      <3> HIDE DEF k
      <3>9. /\ swept'[k] # 0 => Over'
            /\ \E l \in Limits : swept'[k] <= l.req
        <4>1. CASE units[o] = 0
          BY <2>1, <3>3, <3>6, <3>8, <4>1 DEF SweptLate
        <4>2. CASE swept[k] = 0
          BY <3>3, <3>4, <3>6, <3>8, <4>2 DEF KeptIn
        <4> QED
          BY <3>5, <4>1, <4>2
      <3>10. ASSUME NEW j \in Keys
             PROVE  /\ swept'[j] # 0 => Over'
                    /\ swept'[j] # 0 /\ table'[j] # NoObject => units'[table'[j]] = 0
                    /\ \E l \in Limits : swept'[j] <= l.req
        <4>1. CASE j = k
          BY <3>6, <3>9, <4>1
        <4>2. CASE j # k
          BY <2>1, <3>7, <3>8, <4>2 DEF SweptLate
        <4> QED
          BY <4>1, <4>2
      <3> QED
        BY <3>10 DEF SweptLate
    <2> QED
      BY <2>2, <2>3
  <1>8. CASE Sweep /\ Tidy
    BY <1>0, <1>7, <1>8 DEF Sweep, SweepVisit, SweepLock, SweepJudge, base, history
  <1>9. CASE PassTime
    <2>1. UNCHANGED <<swept, mark, table, units>> /\ clock' = clock + 1
      BY <1>9 DEF PassTime, Tick, history
    <2>2. Over => Over'
      BY <2>1, <1>t DEF Over, InInterval
    <2> QED
      BY <2>1, <2>2 DEF SweptLate
  <1>10. CASE UNCHANGED vars
    BY <1>0, <1>10 DEF vars, base
  <1> QED
    BY <1>1, <1>2, <1>3, <1>6, <1>8, <1>9, <1>10 DEF Next, Step

\* If the cleaner deletes a log only while it is old and no call holds it, the
\* limit bounds what a key is admitted in less than a window, however many
\* logs it has had: the gap between the cleaner's judgement and its deletion,
\* and the calls that have fetched the log before, are all that breaks it.
THEOREM TidySweepsKeepTheBound == TidySpec => []KeyWindowBound
  <1>1. Init => SweptLate
    <2> SUFFICES ASSUME Init, NEW k \in Keys
                 PROVE  swept[k] = 0 /\ \E l \in Limits : 0 <= l.req
      BY DEF SweptLate
    <2>1. DefaultLimit \in Limits
      BY DEF Limits
    <2>2. swept[k] = 0
      BY DEF Init
    <2> QED
      BY <2>1, <2>2, LimitNumbers
  <1>2. [Next /\ Tidy]_vars => [Next]_vars
    OBVIOUS
  <1>3. Structure /\ Kept /\ SweptLate => KeyWindowBound
    <2> SUFFICES ASSUME Structure, Kept, SweptLate, NEW k \in Keys,
                        table[k] # NoObject
                 PROVE  \E l \in Limits : units[table[k]] + swept[k] <= l.req
      BY DEF KeyWindowBound
    <2>1. /\ table[k] \in Objects /\ units[table[k]] \in Nat /\ swept[k] \in Nat
          /\ \A l \in Limits : l.req \in Nat
      BY LimitNumbers DEF Structure, BaseInv, BaseTypeOK, OwnTypes
    <2>2. CASE swept[k] = 0
      BY <2>1, <2>2 DEF Kept, KeptIn
    <2>3. CASE swept[k] # 0
      BY <2>1, <2>3 DEF SweptLate
    <2> QED
      BY <2>2, <2>3
  <1>4. TidySpec => Spec
    BY <1>2, PTL DEF TidySpec, Spec
  <1> QED
    BY <1>1, <1>2, <1>3, <1>4, KeptInit, DecidingStep, KeptStep, SweptStep,
       StructureInvariant, PTL DEF TidySpec
====
