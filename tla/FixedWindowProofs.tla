---- MODULE FixedWindowProofs ----
(***************************************************************************)
(* Theorems about FixedWindow for every number of keys, goroutines and     *)
(* windows, every limit and every length of time.  The invariant is built  *)
(* in layers, each proved with the help of the ones before it: calls, map  *)
(* and mutexes (LimiterCallsProofs), the limits on record, the quota, the  *)
(* advice given, and the burst at a boundary.                              *)
(***************************************************************************)
EXTENDS FixedWindow, LimiterCallsProofs

\* The types of what the fixed-window limiter adds.
OwnTypes ==
    /\ heap \in [Objects -> fixedWindow]
    /\ inForce \in [Keys -> SUBSET Limits]
    /\ units \in [Objects -> Nat]
    /\ advice \in [Keys -> Advice \cup {NoAdvice}]

\* Every limit that a key or a call uses is on record as in force.
Known ==
    /\ \A k \in Keys : {GetLimit(k), DefaultLimit} \subseteq inForce[k]
    /\ \A p \in Procs : pc[p] # "idle" => call[p].lim \in inForce[call[p].key]

\* What a call has checked still holds when it counts.
Checked == \A p \in Procs : pc[p] = "commit" => Fits(p)

Structure == BaseInv /\ OwnTypes /\ Known

\* Every step of the limiter is a step of LimiterCalls.
LEMMA StepIsBaseStep == [Next]_vars => [BaseNext]_base
  BY DEF Next, Step, Prepare, Create, Roll, Pass, Deny, Commit, Admin, Reset,
         SetLimit, Close, PassTime, BaseNext, vars, Critical

\* Init establishes the structure.
LEMMA StructureInit == Init => Structure
  <1> SUFFICES ASSUME Init PROVE Structure
    OBVIOUS
  <1>1. 0 \in Time /\ DefaultLimit \in Limits
    BY TimeAssumption DEF Time, Limits
  <1> QED
    BY <1>1, BaseInitial
       DEF Init, BaseInit, Structure, OwnTypes, Known, GetLimit, fixedWindow

\* Every step keeps the types of the fields and of the history.
LEMMA OwnTypesStep == BaseInv /\ OwnTypes /\ [Next]_vars => OwnTypes'
  <1> SUFFICES ASSUME BaseInv, OwnTypes, [Next]_vars PROVE OwnTypes'
    OBVIOUS
  <1> USE DEF OwnTypes, BaseInv, BaseTypeOK, Shaped, Reading, AfterLoad,
              Critical
  <1>1. ASSUME NEW p \in Procs, NEW o \in Fresh, Create(p, o) PROVE OwnTypes'
    <2>1. o \in Objects /\ call[p] \in Call
      BY <1>1 DEF Create, StoreNew, Goto, Fresh
    <2>2. [count |-> 0, start |-> call[p].now] \in fixedWindow
      BY <2>1 DEF Call, fixedWindow
    <2> QED
      BY <1>1, <2>1, <2>2 DEF Create
  <1>2. ASSUME NEW p \in Procs, Roll(p) PROVE OwnTypes'
    <2>1. Restarted(p) \in fixedWindow
      BY <1>2 DEF Roll, Within, Goto, Restarted, Call, fixedWindow
    <2> QED
      BY <1>2, <2>1 DEF Roll, history
  <1>3. ASSUME NEW p \in Procs, Deny(p) PROVE OwnTypes'
    <2>1. call[p] \in Call /\ window(p) \in fixedWindow
      BY <1>3 DEF Deny, Return, Goto, window
    <2>2. RetryAt(p) \in Nat
      BY <2>1, LimitNumbers, TimeAssumption DEF RetryAt, Call, fixedWindow, Time
    <2> QED
      BY <1>3, <2>1, <2>2 DEF Deny, Advised, Advice, Call
  <1>4. ASSUME NEW p \in Procs, Commit(p) PROVE OwnTypes'
    <2>1. /\ call[p].ptr \in Objects /\ call[p].n \in Nat
          /\ heap[call[p].ptr] \in fixedWindow
      BY <1>4, AmountNumbers DEF Commit, Return, Goto, Call
    <2> DEFINE counted == [heap[call[p].ptr] EXCEPT !.count = @ + call[p].n]
    <2>2. counted \in fixedWindow
      BY <2>1 DEF fixedWindow
    <2>3. heap' = [heap EXCEPT ![call[p].ptr] = counted]
      BY <1>4 DEF Commit
    <2> HIDE DEF counted
    <2>4. heap' \in [Objects -> fixedWindow]
      BY <2>1, <2>2, <2>3
    <2>5. units' \in [Objects -> Nat]
      BY <1>4, <2>1 DEF Commit
    <2>6. UNCHANGED inForce /\ advice' \in [Keys -> Advice \cup {NoAdvice}]
      BY <1>4 DEF Commit
    <2> QED
      BY <2>4, <2>5, <2>6
  <1>5. CASE Admin
    BY <1>5 DEF Admin, Reset, SetLimit, StoreLimit, Limits, Close, Void, history
  <1>6. CASE UNCHANGED <<heap, history>>
    BY <1>6 DEF history
  <1> QED
    BY <1>1, <1>2, <1>3, <1>4, <1>5, <1>6
       DEF Next, Step, Prepare, Pass, PassTime, vars, history

\* Every step keeps the limits of keys and calls on record.
LEMMA KnownStep == BaseInv /\ OwnTypes /\ Known /\ [Next]_vars => Known'
  <1> SUFFICES ASSUME BaseInv, OwnTypes, Known, [Next]_vars PROVE Known'
    OBVIOUS
  <1> USE DEF BaseInv, BaseTypeOK, OwnTypes, Known
  <1>1. ASSUME NEW p \in Procs, Begin(p), UNCHANGED inForce PROVE Known'
    <2>1. PICK k \in Keys :
             /\ call'[p].key = k /\ call'[p].lim = GetLimit(k)
             /\ \A q \in Procs : q # p =>
                   call'[q] = call[q] /\ pc'[q] = pc[q]
             /\ UNCHANGED custom
      BY <1>1 DEF Begin, BeginAllowN, BeginAllowWithInfo, Enter, Goto
    <2> QED
      BY <1>1, <2>1 DEF GetLimit
  \* Steps that set no limit and start no call.
  <1>2. ASSUME UNCHANGED <<custom, inForce>>,
               \A q \in Procs : pc'[q] # "idle" =>
                   /\ pc[q] # "idle"
                   /\ call'[q].key = call[q].key
                   /\ call'[q].lim = call[q].lim
        PROVE  Known'
    BY <1>2 DEF GetLimit
  <1>3. ASSUME NEW p \in Procs, ReadClock(p) \/ LoadFound(p)
                                  \/ \E o \in Fresh : StoreNew(p, o),
               UNCHANGED inForce
        PROVE  Known'
    <2>1. call[p] \in Call
      BY <1>3 DEF ReadClock, LoadFound, StoreNew, Goto, Shaped
    <2> QED
      BY <1>2, <1>3, <2>1 DEF ReadClock, LoadFound, StoreNew, Goto, Call
  <1>4. ASSUME NEW p \in Procs, Lock(p), UNCHANGED inForce PROVE Known'
    BY <1>2, <1>4 DEF Lock, Goto
  <1>5. ASSUME NEW p \in Procs, Roll(p) \/ Pass(p) PROVE Known'
    BY <1>2, <1>5 DEF Roll, Pass, Within, Goto, history
  <1>6. ASSUME NEW p \in Procs, Deny(p) \/ Commit(p) PROVE Known'
    BY <1>2, <1>6 DEF Deny, Commit, Return, Goto
  <1>7. ASSUME NEW k \in Keys, NEW l \in LimitArgs, SetLimit(k, l) PROVE Known'
    <2>1. /\ custom' = [custom EXCEPT ![k] = l]
          /\ inForce' = [inForce EXCEPT ![k] = @ \cup {l}]
          /\ UNCHANGED <<pc, call>>
      BY <1>7 DEF SetLimit, StoreLimit
    <2>2. \A j \in Keys : inForce[j] \subseteq inForce'[j]
      BY <2>1
    <2>3. \A q \in Procs : pc[q] # "idle" => call[q].key \in Keys
      BY DEF Shaped, Call
    <2> QED
      BY <2>1, <2>2, <2>3 DEF GetLimit
  <1>8. CASE Close
    <2>1. /\ UNCHANGED <<pc, call, inForce>>
          /\ \A k \in Keys : custom'[k] \in {custom[k], NoLimit}
      BY <1>8 DEF Close, CloseBegin, CloseObject, CloseLimit, history
    <2> QED
      BY <2>1 DEF GetLimit
  <1>9. ASSUME NEW k \in Keys, Reset(k) PROVE Known'
    BY <1>2, <1>9 DEF Reset, Delete
  <1>10. CASE PassTime \/ UNCHANGED vars
    BY <1>2, <1>10 DEF PassTime, Tick, vars, base, history
  <1> QED
    BY <1>1, <1>3, <1>4, <1>5, <1>6, <1>7, <1>8, <1>9, <1>10
       DEF Next, Step, Prepare, Approach, Create, Admin, history

\* The structure is an invariant of the limiter.
THEOREM StructureInvariant == Spec => []Structure
  <1>1. Structure /\ [Next]_vars => Structure'
    BY BaseStep, StepIsBaseStep, OwnTypesStep, KnownStep DEF Structure
  <1> QED
    BY <1>1, StructureInit, PTL DEF Spec

\* Every variable keeps its type; in particular no counter becomes negative.
THEOREM TypesCorrect == Spec => []TypeOK
  <1>1. Structure => TypeOK
    BY DEF Structure, BaseInv, OwnTypes, TypeOK
  <1> QED
    BY <1>1, StructureInvariant, PTL

----------------------------------------------------------------------------

(* What the steps do, value by value. *)

\* Steps that lead to a decision leave the objects and the map alone.
Quiet(p) ==
    /\ UNCHANGED <<heap, table, inForce, units, clock, mark>>
    /\ UNCHANGED advice \/ Deny(p)
    /\ \A q \in Procs :
          /\ pc'[q] = "check" => pc[q] = "check" /\ call'[q] = call[q]
          /\ pc'[q] = "commit" =>
                /\ pc[q] = "commit" \/ (pc[q] = "check" /\ Fits(q))
                /\ call'[q] = call[q]

\* A new object is nobody's, and it starts empty.
Created(p, o) ==
    /\ o \in Objects /\ call[p] \in Call /\ call[p].key \in Keys
    /\ pc[p] = "load"
    /\ \A k \in Keys : table[k] # o
    /\ heap'[o].count = 0 /\ heap'[o].start = call[p].now
    /\ units'[o] = 0
    /\ \A x \in Objects : x # o => heap'[x] = heap[x] /\ units'[x] = units[x]
    /\ table[call[p].key] = NoObject
    /\ table'[call[p].key] = o
    /\ \A k \in Keys : k # call[p].key => table'[k] = table[k]
    /\ UNCHANGED <<clock, mark, inForce, advice>>
    /\ \A q \in Procs : pc'[q] \in Critical =>
          /\ q # p /\ pc'[q] = pc[q] /\ call'[q] = call[q]
          /\ call[q].ptr \in Objects \ {o}

\* Roll restarts the window of its call, or leaves every window as it is.
RolledOver(p) ==
    /\ pc[p] = "update" /\ call[p] \in Call /\ call[p].ptr \in Objects
    /\ \/ heap'[call[p].ptr] = heap[call[p].ptr] /\ ~Expired(p)
       \/ /\ Expired(p)
          /\ heap'[call[p].ptr].count = 0
          /\ heap'[call[p].ptr].start = call[p].now
    /\ \A o \in Objects : o # call[p].ptr => heap'[o] = heap[o]
    /\ UNCHANGED <<clock, mark, table, call, inForce, units, advice>>
    /\ \A q \in Procs :
          pc'[q] \in Critical => /\ q # p => pc'[q] = pc[q]
                                 /\ q = p => pc'[q] = "check"
                                 /\ pc[q] \in Critical
                                 /\ call[q].ptr \in Objects
                                 /\ q # p => call[q].ptr # call[p].ptr

\* Commit adds the units of a checked call to its window.
Committed(p) ==
    /\ pc[p] = "commit" /\ call[p] \in Call /\ call[p].ptr \in Objects
    /\ \A o \in Objects : o # call[p].ptr => heap'[o] = heap[o]
    /\ heap'[call[p].ptr].count = heap[call[p].ptr].count + call[p].n
    /\ heap'[call[p].ptr].start = heap[call[p].ptr].start
    /\ heap'[call[p].ptr].count <= call[p].lim.req
    /\ call[p].lim \in inForce[call[p].key]
    /\ UNCHANGED <<clock, mark, table, inForce>>
    /\ advice' = [advice EXCEPT ![call[p].key] = NoAdvice]
    /\ \A q \in Procs : pc'[q] \in Critical =>
          /\ q # p /\ pc'[q] = pc[q] /\ call'[q] = call[q]
          /\ call[q].ptr \in Objects
          /\ call[q].ptr # call[p].ptr

\* The effect of the steps that lead to a decision, and of a denial.
LEMMA QuietEffect ==
    ASSUME Structure, NEW p \in Procs, Prepare(p) \/ Pass(p) \/ Deny(p)
    PROVE  Quiet(p)
  <1> USE DEF Structure, BaseInv, BaseTypeOK, Quiet
  <1>1. CASE Prepare(p)
    BY <1>1 DEF Prepare, Approach, Begin, BeginAllowN, BeginAllowWithInfo,
                Enter, ReadClock, LoadFound, Lock, Goto, history
  <1>2. CASE Pass(p)
    BY <1>2 DEF Pass, Within, Goto, history
  <1>3. CASE Deny(p)
    BY <1>3 DEF Deny, Return, Goto
  <1> QED
    BY <1>1, <1>2, <1>3

\* The effect of LoadOrStore when it stores.
LEMMA CreateEffect ==
    ASSUME Structure, NEW p \in Procs, NEW o \in Fresh, Create(p, o)
    PROVE  Created(p, o)
  <1> USE DEF Structure, BaseInv
  <1>1. o \in Objects /\ \A k \in Keys : table[k] # o
    BY DEF Fresh, Mapped
  <1>2. pc[p] = "load" /\ pc' = [pc EXCEPT ![p] = "lock"]
    BY DEF Create, StoreNew, Goto
  <1>3. call[p] \in Call /\ call[p].key \in Keys
    BY <1>2 DEF Shaped, Call
  <1>4. /\ heap' = [heap EXCEPT ![o] = [count |-> 0, start |-> call[p].now]]
        /\ units' = [units EXCEPT ![o] = 0]
        /\ table[call[p].key] = NoObject
        /\ table' = [table EXCEPT ![call[p].key] = o]
        /\ call' = [call EXCEPT ![p].ptr = o]
        /\ UNCHANGED <<clock, mark, inForce, advice>>
    BY DEF Create, StoreNew
  <1>5. \A q \in Procs : pc'[q] \in Critical =>
           /\ q # p /\ pc'[q] = pc[q] /\ call'[q] = call[q]
           /\ call[q].ptr \in Objects \ {o}
    <2>1. \A q \in Procs : pc[q] \in AfterLoad => call[q].ptr \in Objects \ {o}
      BY DEF Fresh, Held, Shaped
    <2> QED
      BY <1>2, <1>4, <2>1 DEF BaseTypeOK, Critical, AfterLoad
  <1>6. /\ heap'[o].count = 0 /\ heap'[o].start = call[p].now
        /\ units'[o] = 0 /\ table'[call[p].key] = o
        /\ \A x \in Objects : x # o =>
              heap'[x] = heap[x] /\ units'[x] = units[x]
        /\ \A k \in Keys : k # call[p].key => table'[k] = table[k]
    BY <1>1, <1>3, <1>4 DEF BaseTypeOK, OwnTypes
  <1> QED
    BY <1>1, <1>2, <1>3, <1>4, <1>5, <1>6 DEF Created

\* The effect of the test for a new window.
LEMMA RollEffect ==
    ASSUME Structure, NEW p \in Procs, Roll(p)
    PROVE  RolledOver(p)
  <1> USE DEF Structure, BaseInv
  <1>1. /\ pc[p] = "update" /\ pc' = [pc EXCEPT ![p] = "check"]
        /\ heap' = [heap EXCEPT ![call[p].ptr] =
                       IF Expired(p) THEN Restarted(p) ELSE @]
        /\ UNCHANGED <<clock, mark, table, call, inForce, units, advice>>
    BY DEF Roll, Within, Goto, history
  <1>2. call[p] \in Call /\ call[p].ptr \in Objects
    BY <1>1 DEF Shaped, AfterLoad, Critical
  <1>3. \A q \in Procs :
          pc'[q] \in Critical => /\ q # p => pc'[q] = pc[q]
                                 /\ q = p => pc'[q] = "check"
                                 /\ pc[q] \in Critical
                                 /\ call[q].ptr \in Objects
                                 /\ q # p => call[q].ptr # call[p].ptr
    BY <1>1, Exclusive DEF BaseTypeOK, Shaped, AfterLoad, Critical
  <1>4. \A o \in Objects : o # call[p].ptr => heap'[o] = heap[o]
    BY <1>1 DEF OwnTypes
  <1>5. \/ heap'[call[p].ptr] = heap[call[p].ptr] /\ ~Expired(p)
        \/ /\ Expired(p)
           /\ heap'[call[p].ptr].count = 0
           /\ heap'[call[p].ptr].start = call[p].now
    BY <1>1, <1>2 DEF OwnTypes, Restarted, Expired
  <1> QED
    BY <1>1, <1>2, <1>3, <1>4, <1>5 DEF RolledOver

\* The effect of counting an admitted call.
LEMMA CommitEffect ==
    ASSUME Structure, Checked, NEW p \in Procs, Commit(p)
    PROVE  Committed(p)
  <1> USE DEF Structure, BaseInv
  <1>1. /\ pc[p] = "commit" /\ pc' = [pc EXCEPT ![p] = "idle"]
        /\ call' = [call EXCEPT ![p] = NoCall]
        /\ UNCHANGED <<clock, mark, table, inForce>>
        /\ heap' = [heap EXCEPT ![call[p].ptr].count = @ + call[p].n]
        /\ advice' = [advice EXCEPT ![call[p].key] = NoAdvice]
    BY DEF Commit, Return, Goto
  <1>2. call[p] \in Call /\ call[p].ptr \in Objects
    BY <1>1 DEF Shaped, AfterLoad, Critical
  <1>3. heap[call[p].ptr] \in fixedWindow
    BY <1>2 DEF OwnTypes
  <1> DEFINE counted == [heap[call[p].ptr] EXCEPT !.count = @ + call[p].n]
  <1>4. /\ counted.count = heap[call[p].ptr].count + call[p].n
        /\ counted.start = heap[call[p].ptr].start
    BY <1>3 DEF fixedWindow
  <1>5. heap[call[p].ptr].count + call[p].n <= call[p].lim.req
    BY <1>1 DEF Checked, Fits, window
  <1>6. heap' = [heap EXCEPT ![call[p].ptr] = counted]
    BY <1>1
  <1> HIDE DEF counted
  <1>7. /\ \A o \in Objects : o # call[p].ptr => heap'[o] = heap[o]
        /\ heap'[call[p].ptr] = counted
    BY <1>2, <1>6 DEF OwnTypes
  <1>8. \A q \in Procs : pc'[q] \in Critical =>
           /\ q # p /\ pc'[q] = pc[q] /\ call'[q] = call[q]
           /\ call[q].ptr \in Objects
           /\ call[q].ptr # call[p].ptr
    BY <1>1, Exclusive DEF BaseTypeOK, Shaped, AfterLoad, Critical
  <1>9. call[p].lim \in inForce[call[p].key]
    BY <1>1 DEF Known
  <1>10. /\ heap'[call[p].ptr].count = heap[call[p].ptr].count + call[p].n
         /\ heap'[call[p].ptr].start = heap[call[p].ptr].start
         /\ heap'[call[p].ptr].count <= call[p].lim.req
    BY <1>4, <1>5, <1>7
  <1> QED
    BY <1>1, <1>2, <1>7, <1>8, <1>9, <1>10 DEF Committed

----------------------------------------------------------------------------

\* The quota survives every step: one case for each way a step can touch a
\* counter, the map or the record of limits.
LEMMA QuotaStep ==
    Structure /\ Checked /\ QuotaHeld /\ [Next]_vars => Checked' /\ QuotaHeld'
  <1> SUFFICES ASSUME Structure, Checked, QuotaHeld, [Next]_vars
               PROVE  Checked' /\ QuotaHeld'
    OBVIOUS
  <1>a. \A q \in Procs : pc[q] \in AfterLoad => call[q].ptr \in Objects
    BY DEF Structure, BaseInv, Shaped
  <1>b. \A k \in Keys : /\ table[k] \in Objects \cup {NoObject}
                        /\ DefaultLimit \in inForce[k]
    BY DEF Structure, BaseInv, BaseTypeOK, Known
  <1>c. \A k \in Keys : \A q \in Procs :
           pc[q] \in AfterLoad /\ table[k] = call[q].ptr => call[q].key = k
    BY DEF Structure, BaseInv, CallsApart
  <1>n. DefaultLimit.req \in Nat
    BY LimitNumbers DEF Limits
  <1> USE DEF AfterLoad, Critical
  \* Steps that leave the objects and the map alone.
  <1>1. ASSUME UNCHANGED <<heap, table>>,
               \A k \in Keys : inForce[k] \subseteq inForce'[k],
               \A q \in Procs : pc'[q] = "commit" =>
                   /\ pc[q] = "commit" \/ (pc[q] = "check" /\ Fits(q))
                   /\ call'[q] = call[q]
        PROVE  Checked' /\ QuotaHeld'
    BY <1>1 DEF Checked, QuotaHeld, Fits, window
  <1>2. ASSUME NEW p \in Procs, Prepare(p) \/ Pass(p) \/ Deny(p)
        PROVE  Checked' /\ QuotaHeld'
    <2>1. Quiet(p)
      BY <1>2, QuietEffect
    <2> QED
      BY <1>1, <2>1 DEF Quiet
  <1>3. ASSUME NEW p \in Procs, NEW o \in Fresh, Create(p, o)
        PROVE  Checked' /\ QuotaHeld'
    <2>0. Created(p, o)
      BY <1>3, CreateEffect
    <2>1. Checked'
      BY <2>0 DEF Created, Checked, Fits, window
    <2>2. ASSUME NEW k \in Keys, table'[k] # NoObject
          PROVE  \E l \in inForce'[k] : heap'[table'[k]].count <= l.req
      <3>1. CASE k = call[p].key
        BY <2>0, <3>1, <1>n, <1>b DEF Created
      <3>2. CASE k # call[p].key
        BY <2>0, <2>2, <3>2, <1>b DEF Created, QuotaHeld
      <3> QED
        BY <3>1, <3>2
    <2> QED
      BY <2>1, <2>2 DEF QuotaHeld
  <1>4. ASSUME NEW p \in Procs, Roll(p) PROVE Checked' /\ QuotaHeld'
    <2>0. RolledOver(p)
      BY <1>4, RollEffect
    <2>1. Checked'
      BY <2>0 DEF RolledOver, Checked, Fits, window
    <2>2. ASSUME NEW k \in Keys, table'[k] # NoObject
          PROVE  \E l \in inForce'[k] : heap'[table'[k]].count <= l.req
      BY <2>0, <2>2, <1>n, <1>b DEF RolledOver, QuotaHeld
    <2> QED
      BY <2>1, <2>2 DEF QuotaHeld
  <1>5. ASSUME NEW p \in Procs, Commit(p) PROVE Checked' /\ QuotaHeld'
    <2>0. Committed(p)
      BY <1>5, CommitEffect
    <2>1. Checked'
      BY <2>0 DEF Committed, Checked, Fits, window
    <2>2. ASSUME NEW k \in Keys, table'[k] # NoObject
          PROVE  \E l \in inForce'[k] : heap'[table'[k]].count <= l.req
      <3>1. CASE table[k] = call[p].ptr
        BY <2>0, <3>1, <1>c DEF Committed
      <3>2. CASE table[k] # call[p].ptr
        BY <2>0, <2>2, <3>2, <1>b DEF Committed, QuotaHeld
      <3> QED
        BY <3>1, <3>2
    <2> QED
      BY <2>1, <2>2 DEF QuotaHeld
  <1>6. CASE Admin
    <2>1. /\ UNCHANGED <<heap, pc, call>>
          /\ \A k \in Keys : /\ table'[k] \in {table[k], NoObject}
                             /\ inForce[k] \subseteq inForce'[k]
      <3> USE DEF Structure, BaseInv, BaseTypeOK, OwnTypes
      <3>1. ASSUME NEW k \in Keys, NEW l \in LimitArgs, SetLimit(k, l)
            PROVE  /\ UNCHANGED <<heap, pc, call, table>>
                   /\ \A j \in Keys : inForce[j] \subseteq inForce'[j]
        BY <3>1 DEF SetLimit, StoreLimit
      <3>2. ASSUME (\E k \in Keys : Reset(k)) \/ Close
            PROVE  /\ UNCHANGED <<heap, pc, call, inForce>>
                   /\ \A j \in Keys : table'[j] \in {table[j], NoObject}
        BY <3>2 DEF Reset, Delete, Close, CloseBegin, CloseObject, CloseLimit,
                    history
      <3> QED
        BY <1>6, <3>1, <3>2 DEF Admin
    <2> QED
      BY <2>1 DEF Checked, Fits, window, QuotaHeld
  <1>7. CASE PassTime \/ UNCHANGED vars
    BY <1>1, <1>7 DEF PassTime, Tick, vars, base, history
  <1> QED
    BY <1>2, <1>3, <1>4, <1>5, <1>6, <1>7 DEF Next, Step

\* No key has a counter at the start.
LEMMA QuotaInit == Init => Checked /\ QuotaHeld
  BY DEF Init, BaseInit, Checked, QuotaHeld

\* The counter behind a key never exceeds every limit the key has had, for
\* any number of goroutines, keys and windows: the check and the increment
\* under the mutex are one unit whatever Reset, SetLimit and Close do to the
\* maps in between (AllowN, AllowWithInfo).
THEOREM QuotaIsHeld == Spec => []QuotaHeld
  BY QuotaInit, QuotaStep, StructureInvariant, PTL DEF Spec

----------------------------------------------------------------------------

\* A call that is about to decide sees a window it need not restart.
Rolled ==
    \A p \in Procs : pc[p] = "check" => window(p).count = 0 \/ ~Expired(p)

\* While a RetryAfter stands, the window of the key is the one it was read
\* from: either untouched since, or restarted with nobody served.
AdviceKept ==
    \A k \in Keys : advice[k] # NoAdvice =>
        /\ table[k] \in Objects
        /\ \/ heap[table[k]].count = 0
           \/ heap[table[k]].start + advice[k].lim.win <= advice[k].at

\* Every step keeps what a denial has told true until somebody is served.
LEMMA RetryStep ==
    Structure /\ Checked /\ Rolled /\ AdviceKept /\ [Next]_vars
      => Rolled' /\ AdviceKept'
  <1> SUFFICES ASSUME Structure, Checked, Rolled, AdviceKept, [Next]_vars
               PROVE  Rolled' /\ AdviceKept'
    OBVIOUS
  <1>a. \A q \in Procs : pc[q] \in AfterLoad => call[q].ptr \in Objects
    BY DEF Structure, BaseInv, Shaped
  <1>c. \A k \in Keys : \A q \in Procs :
           pc[q] \in AfterLoad /\ table[k] = call[q].ptr => call[q].key = k
    BY DEF Structure, BaseInv, CallsApart
  <1>t. advice \in [Keys -> Advice \cup {NoAdvice}]
    BY DEF Structure, OwnTypes
  <1> USE DEF AfterLoad, Critical
  \* Steps that leave the objects alone and unmap some of them at most.
  <1>1. ASSUME UNCHANGED heap,
               \A k \in Keys : advice'[k] # NoAdvice =>
                   advice'[k] = advice[k] /\ table'[k] = table[k],
               \A q \in Procs : pc'[q] = "check" =>
                   pc[q] = "check" /\ call'[q] = call[q]
        PROVE  Rolled' /\ AdviceKept'
    BY <1>1 DEF Rolled, AdviceKept, Expired, window
  <1>2. ASSUME NEW p \in Procs, Prepare(p) \/ Pass(p), ~Deny(p)
        PROVE  Rolled' /\ AdviceKept'
    <2>1. Quiet(p)
      BY <1>2, QuietEffect
    <2> QED
      BY <1>1, <1>2, <2>1 DEF Quiet
  <1>3. ASSUME NEW p \in Procs, NEW o \in Fresh, Create(p, o)
        PROVE  Rolled' /\ AdviceKept'
    <2>0. Created(p, o)
      BY <1>3, CreateEffect
    <2>1. Rolled'
      BY <2>0 DEF Created, Rolled, Expired, window
    <2>2. AdviceKept'
      BY <2>0, NullAssumption DEF Created, AdviceKept
    <2> QED
      BY <2>1, <2>2
  <1>4. ASSUME NEW p \in Procs, Roll(p) PROVE Rolled' /\ AdviceKept'
    <2>0. RolledOver(p)
      BY <1>4, RollEffect
    <2>1. Rolled'
      BY <2>0 DEF RolledOver, Rolled, Expired, window
    <2>2. AdviceKept'
      BY <2>0 DEF RolledOver, AdviceKept
    <2> QED
      BY <2>1, <2>2
  <1>5. ASSUME NEW p \in Procs, Deny(p) PROVE Rolled' /\ AdviceKept'
    <2>0. Quiet(p)
      BY <1>5, QuietEffect
    <2>1. /\ pc[p] = "check" /\ call[p] \in Call /\ call[p].ptr \in Objects
          /\ heap[call[p].ptr] \in fixedWindow /\ clock \in Time
      BY <1>5 DEF Deny, Return, Goto, Structure, BaseInv, BaseTypeOK, OwnTypes,
                  Shaped
    <2>2. heap[call[p].ptr].start + call[p].lim.win <= RetryAt(p)
      BY <2>1, LimitNumbers, TimeAssumption
         DEF RetryAt, Call, window, fixedWindow, Time
    <2>3. ASSUME NEW k \in Keys, advice'[k] # NoAdvice
          PROVE  /\ table[k] \in Objects
                 /\ \/ heap[table[k]].count = 0
                    \/ heap[table[k]].start + advice'[k].lim.win
                         <= advice'[k].at
      <3>1. CASE advice'[k] = advice[k]
        BY <2>3, <3>1 DEF AdviceKept
      <3>2. CASE advice'[k] # advice[k]
        <4>1. /\ k = call[p].key /\ table[k] = call[p].ptr
              /\ advice'[k] = [lim |-> call[p].lim, at |-> RetryAt(p)]
          BY <1>5, <1>t, <3>2 DEF Deny, Advised
        <4> QED
          BY <2>1, <2>2, <4>1
      <3> QED
        BY <3>1, <3>2
    <2> QED
      BY <2>0, <2>3 DEF Quiet, Rolled, AdviceKept, Expired, window
  <1>6. ASSUME NEW p \in Procs, Commit(p) PROVE Rolled' /\ AdviceKept'
    <2>0. Committed(p)
      BY <1>6, CommitEffect
    <2>1. Rolled'
      BY <2>0 DEF Committed, Rolled, Expired, window
    <2>2. \A k \in Keys : advice'[k] # NoAdvice =>
             advice'[k] = advice[k] /\ table[k] # call[p].ptr
      BY <2>0, <1>c, <1>t DEF Committed
    <2> QED
      BY <2>0, <2>1, <2>2 DEF Committed, AdviceKept
  <1>7. CASE Admin
    <2>1. /\ UNCHANGED <<heap, pc, call>>
          /\ \A k \in Keys : advice'[k] # NoAdvice =>
                advice'[k] = advice[k] /\ table'[k] = table[k]
      BY <1>7, <1>t
         DEF Structure, BaseInv, BaseTypeOK, Admin, Reset, Delete, SetLimit,
             StoreLimit, Close, CloseBegin, CloseObject, CloseLimit, Void,
             history
    <2> QED
      BY <1>1, <2>1
  <1>8. CASE PassTime \/ UNCHANGED vars
    BY <1>1, <1>8 DEF PassTime, Tick, vars, base, history
  <1> QED
    BY <1>2, <1>3, <1>4, <1>5, <1>6, <1>7, <1>8 DEF Next, Step

\* RetryAfter of AllowWithInfo is honest for every limit and any number of
\* goroutines: a single request made when its time has come, with nobody
\* served in between, is allowed.
THEOREM RetryAfterIsHonest == Spec => RetryPromise
  <1>1. Init => Rolled /\ AdviceKept
    BY DEF Init, BaseInit, Rolled, AdviceKept
  <1>2. Structure /\ Rolled /\ AdviceKept /\ [Next]_vars =>
          [\A p \in Procs :
             Deny(p) => ~ /\ call[p].ptr = table[call[p].key]
                          /\ call[p].n = 1
                          /\ advice[call[p].key] # NoAdvice
                          /\ call[p].lim = advice[call[p].key].lim
                          /\ call[p].now >= advice[call[p].key].at]_vars
    <2> SUFFICES ASSUME Structure, Rolled, AdviceKept, NEW p \in Procs, Deny(p),
                        call[p].ptr = table[call[p].key], call[p].n = 1,
                        advice[call[p].key] # NoAdvice,
                        call[p].lim = advice[call[p].key].lim,
                        call[p].now >= advice[call[p].key].at
                 PROVE  FALSE
      OBVIOUS
    <2> DEFINE k == call[p].key
               o == table[k]
    <2>1. /\ pc[p] = "check" /\ ~Fits(p)
          /\ call[p] \in Call /\ o \in Objects /\ heap[o] \in fixedWindow
          /\ advice[k] \in Advice
      BY DEF Deny, Return, Goto, Structure, BaseInv, OwnTypes, Shaped,
             AfterLoad, Critical, Call
    <2>2. /\ call[p].now \in Nat /\ heap[o].start \in Nat
          /\ heap[o].count \in Nat
          /\ advice[k].at \in Nat
          /\ call[p].lim.win \in Nat /\ call[p].lim.req \in Nat
          /\ call[p].lim.req > 0
      BY <2>1, LimitNumbers, TimeAssumption
         DEF Call, fixedWindow, Time, Advice
    <2>3. heap[o].count = 0
      BY <2>1, <2>2 DEF Rolled, AdviceKept, Expired, Call, window
    <2> QED
      BY <2>1, <2>2, <2>3 DEF Fits, window
  <1> QED
    BY <1>1, <1>2, QuotaInit, QuotaStep, RetryStep, StructureInvariant, PTL
       DEF Spec, RetryPromise

----------------------------------------------------------------------------

\* Every counter is within some limit, mapped or not.
Bounded == \A o \in Objects : \E l \in Limits : heap[o].count <= l.req

\* Units admitted in the observed interval: all by the window that is open;
\* or some by the one before it, and then the open window started so late
\* that the interval ends before it does; or the interval is over.
Burst ==
    \A o \in Objects :
        /\ clock < mark => units[o] = 0
        /\ \/ units[o] <= heap[o].count
           \/ /\ heap[o].start >= mark - MaxStale
              /\ \E l \in Limits : units[o] <= l.req + heap[o].count
           \/ /\ clock >= mark /\ ~InInterval(clock)
              /\ \E l, m \in Limits : units[o] <= l.req + m.req

\* A clock that has left the observed interval does not return to it.
LEMMA IntervalEnds ==
    ASSUME BaseInv, BaseInv', UNCHANGED mark, clock <= clock', clock >= mark,
           ~InInterval(clock)
    PROVE  ~InInterval(clock')
  <1>1. clock \in Nat /\ clock' \in Nat /\ mark \in Nat /\ MaxStale \in Nat
    BY TimeAssumption DEF BaseInv, BaseTypeOK, Time
  <1>2. \A l \in Limits : l.win \in Nat
    BY LimitNumbers
  <1>3. PICK l \in Limits : ~(clock - mark < l.win - MaxStale)
    BY <1>1 DEF InInterval
  <1>4. ~(clock' - mark < l.win - MaxStale)
    BY <1>1, <1>2, <1>3
  <1>5. mark' = mark
    OBVIOUS
  <1> QED
    BY <1>4, <1>5 DEF InInterval

\* With every counter bounded, the accounting of the interval implies that
\* two limits bound it.
LEMMA BurstIsBounded == Structure /\ Bounded /\ Burst => BurstBound
  <1> SUFFICES ASSUME Structure, Bounded, Burst, NEW o \in Objects
               PROVE  \E l, m \in Limits : units[o] <= l.req + m.req
    BY DEF BurstBound
  <1>1. heap[o].count \in Nat /\ units[o] \in Nat
    BY DEF Structure, OwnTypes, fixedWindow
  <1>2. \A l \in Limits : l.req \in Nat
    BY LimitNumbers
  <1>3. PICK m \in Limits : heap[o].count <= m.req
    BY DEF Bounded
  <1>4. CASE units[o] <= heap[o].count
    <2>1. units[o] <= m.req + m.req
      BY <1>1, <1>2, <1>3, <1>4
    <2> QED
      BY <2>1
  <1>5. CASE \E l \in Limits : units[o] <= l.req + heap[o].count
    BY <1>1, <1>2, <1>3, <1>5
  <1> QED
    BY <1>4, <1>5 DEF Burst

\* Every step keeps every counter bounded.
LEMMA BoundedStep ==
    Structure /\ Checked /\ Bounded /\ [Next]_vars => Bounded'
  <1> SUFFICES ASSUME Structure, Checked, Bounded, [Next]_vars PROVE Bounded'
    OBVIOUS
  <1>n. DefaultLimit \in Limits /\ DefaultLimit.req \in Nat
    BY LimitNumbers DEF Limits
  <1>1. ASSUME NEW p \in Procs, NEW o \in Fresh, Create(p, o) PROVE Bounded'
    <2>1. Created(p, o)
      BY <1>1, CreateEffect
    <2> QED
      BY <2>1, <1>n DEF Created, Bounded
  <1>2. ASSUME NEW p \in Procs, Roll(p) PROVE Bounded'
    <2>1. RolledOver(p)
      BY <1>2, RollEffect
    <2> QED
      BY <2>1, <1>n DEF RolledOver, Bounded
  <1>3. ASSUME NEW p \in Procs, Commit(p) PROVE Bounded'
    <2>1. Committed(p)
      BY <1>3, CommitEffect
    <2>2. call[p].lim \in Limits
      BY <2>1 DEF Committed, Call
    <2> QED
      BY <2>1, <2>2 DEF Committed, Bounded
  <1>4. CASE UNCHANGED heap
    BY <1>4 DEF Bounded
  <1> QED
    BY <1>1, <1>2, <1>3, <1>4
       DEF Next, Step, Prepare, Pass, Deny, Admin, Reset, SetLimit, Close,
           PassTime, vars, history

\* Every step keeps the account of the observed interval: a window that
\* started in it cannot be restarted in it.
LEMMA BurstStep ==
    /\ Structure /\ Structure' /\ Checked /\ Bounded /\ Bounded' /\ Burst
    /\ [Next]_vars
    => Burst'
  <1> SUFFICES ASSUME Structure, Structure', Checked, Bounded, Bounded', Burst,
                      [Next]_vars
               PROVE  Burst'
    OBVIOUS
  <1>t. /\ clock \in Nat /\ clock' \in Nat /\ mark \in Nat /\ MaxStale \in Nat
        /\ \A o \in Objects :
              /\ heap[o].count \in Nat /\ heap[o].start \in Nat
              /\ heap'[o].count \in Nat /\ heap'[o].start \in Nat
              /\ units[o] \in Nat /\ units'[o] \in Nat
    BY TimeAssumption
       DEF Structure, BaseInv, BaseTypeOK, OwnTypes, fixedWindow, Time
  <1>l. \A l \in Limits : l.req \in Nat /\ l.win \in Nat
    BY LimitNumbers
  <1>b. \A o \in Objects : \E l, m \in Limits : units[o] <= l.req + m.req
    BY BurstIsBounded DEF BurstBound
  \* An object whose fields and units a step leaves alone, time included.
  <1>1. ASSUME NEW o \in Objects, UNCHANGED <<clock, mark>>,
               heap'[o] = heap[o], units'[o] = units[o]
        PROVE  /\ clock' < mark' => units'[o] = 0
               /\ \/ units'[o] <= heap'[o].count
                  \/ /\ heap'[o].start >= mark' - MaxStale
                     /\ \E l \in Limits : units'[o] <= l.req + heap'[o].count
                  \/ /\ clock' >= mark' /\ ~InInterval(clock)'
                     /\ \E l, m \in Limits : units'[o] <= l.req + m.req
    BY <1>1 DEF Burst, InInterval
  <1>2. ASSUME NEW p \in Procs, NEW o \in Fresh, Create(p, o) PROVE Burst'
    <2>1. Created(p, o)
      BY <1>2, CreateEffect
    <2> QED
      BY <2>1, <1>1 DEF Created, Burst
  <1>3. ASSUME NEW p \in Procs, Roll(p) PROVE Burst'
    <2> DEFINE o == call[p].ptr
    <2>1. RolledOver(p)
      BY <1>3, RollEffect
    <2>2. /\ call[p].now \in Nat /\ call[p].lim \in Limits
          /\ call[p].now <= clock /\ clock - call[p].now <= MaxStale
      BY <2>1, TimeAssumption
         DEF RolledOver, Structure, BaseInv, Punctual, Reading, AfterLoad,
             Critical, Call, Time
    <2>3. CASE heap'[o] = heap[o]
      BY <2>1, <2>3, <1>1 DEF RolledOver, Burst
    <2>4. CASE heap'[o] # heap[o]
      <3>1. /\ o \in Objects /\ heap'[o].count = 0 /\ heap'[o].start = call[p].now
            /\ call[p].now - heap[o].start >= call[p].lim.win
            /\ UNCHANGED <<clock, mark, units>>
        BY <2>1, <2>4 DEF RolledOver, Expired, window
      <3> HIDE DEF o
      <3>2. CASE clock < mark
        BY <2>1, <3>1, <3>2, <1>1, <1>t DEF RolledOver, Burst, o
      <3>3. CASE clock >= mark /\ ~InInterval(clock)
        <4>1. ~InInterval(clock)'
          BY <3>1, <3>3 DEF InInterval
        <4> QED
          BY <2>1, <3>1, <3>3, <4>1, <1>1, <1>t, <1>b DEF RolledOver, Burst, o
      <3>4. CASE InInterval(clock)
        <4>1. clock >= mark /\ clock - mark < call[p].lim.win - MaxStale
          BY <2>2, <3>4 DEF InInterval
        <4>2. call[p].now >= mark - MaxStale
          BY <2>2, <4>1, <1>t
        <4>3. ~(heap[o].start >= mark - MaxStale)
          BY <2>2, <3>1, <4>1, <1>t, <1>l
        <4>4. units[o] <= heap[o].count
          BY <3>1, <3>4, <4>3 DEF Burst
        <4>5. PICK l \in Limits : units[o] <= l.req
          BY <3>1, <4>4, <1>t, <1>l DEF Bounded
        <4>6. units'[o] <= l.req + heap'[o].count
          BY <3>1, <4>5, <1>l
        <4>7. heap'[o].start >= mark' - MaxStale /\ ~(clock' < mark')
          BY <3>1, <4>1, <4>2, <1>t
        <4> QED
          BY <2>1, <3>1, <4>6, <4>7, <1>1 DEF RolledOver, Burst, o
      <3> QED
        BY <3>2, <3>3, <3>4, <1>t
    <2> QED
      BY <2>3, <2>4
  <1>4. ASSUME NEW p \in Procs, Commit(p) PROVE Burst'
    <2> DEFINE o == call[p].ptr
    <2>1. Committed(p)
      BY <1>4, CommitEffect
    <2>2. /\ o \in Objects /\ call[p].n \in Nat
          /\ heap'[o].count = heap[o].count + call[p].n
          /\ heap'[o].start = heap[o].start
          /\ UNCHANGED <<clock, mark>>
      BY <2>1, AmountNumbers DEF Committed, Call
    <2>3. /\ units'[o] = IF InInterval(clock) THEN units[o] + call[p].n
                                              ELSE units[o]
          /\ \A x \in Objects : x # o => units'[x] = units[x]
      BY <1>4, <2>2 DEF Commit, Structure, OwnTypes
    <2>4. \A x \in Objects : x # o => heap'[x] = heap[x]
      BY <2>1 DEF Committed
    <2> HIDE DEF o
    <2>5. InInterval(clock)' <=> InInterval(clock)
      BY <2>2 DEF InInterval
    <2>6. InInterval(clock) => clock >= mark
      BY <1>t DEF InInterval
    <2>7. clock' < mark' => units'[o] = 0
      BY <2>2, <2>3, <2>6, <1>t DEF Burst
    <2>8. CASE units[o] <= heap[o].count
      <3>1. units'[o] <= heap'[o].count
        BY <2>2, <2>3, <2>8, <1>t
      <3> QED
        BY <2>2, <2>3, <2>4, <2>7, <3>1, <1>1 DEF Burst
    <2>9. CASE /\ heap[o].start >= mark - MaxStale
               /\ \E l \in Limits : units[o] <= l.req + heap[o].count
      <3>1. PICK l \in Limits : units[o] <= l.req + heap[o].count
        BY <2>9
      <3>2. units'[o] <= l.req + heap'[o].count
        BY <2>2, <2>3, <3>1, <1>t, <1>l
      <3> QED
        BY <2>2, <2>3, <2>4, <2>7, <2>9, <3>2, <1>1 DEF Burst
    <2>10. CASE clock >= mark /\ ~InInterval(clock)
      BY <2>2, <2>3, <2>4, <2>5, <2>7, <2>10, <1>1, <1>b DEF Burst
    <2> QED
      BY <2>2, <2>8, <2>9, <2>10 DEF Burst
  <1>5. CASE Tick /\ UNCHANGED <<heap, units>>
    <2>1. clock' = clock + 1 /\ mark' = mark
      BY <1>5 DEF Tick
    <2>2. clock >= mark /\ ~InInterval(clock) => ~InInterval(clock)'
      <3>1. ASSUME clock >= mark, ~InInterval(clock)
            PROVE  ~InInterval(clock')
        BY <2>1, <3>1, <1>t, IntervalEnds DEF Structure
      <3> QED
        BY <2>1, <3>1 DEF InInterval
    <2> QED
      BY <1>5, <2>1, <2>2, <1>t DEF Burst
  <1>6. CASE UNCHANGED <<heap, units, clock, mark>>
    BY <1>1, <1>6 DEF Burst
  <1>7. ASSUME NEW p \in Procs, Prepare(p) \/ Pass(p) \/ Deny(p) PROVE Burst'
    <2>1. Quiet(p)
      BY <1>7, QuietEffect
    <2> QED
      BY <2>1, <1>6 DEF Quiet
  <1>8. CASE Admin
    BY <1>6, <1>8
       DEF Admin, Reset, Delete, SetLimit, StoreLimit, Close, CloseBegin,
           CloseObject, CloseLimit, history
  <1> QED
    BY <1>2, <1>3, <1>4, <1>5, <1>6, <1>7, <1>8
       DEF Next, Step, PassTime, vars, base, history

\* The burst at a window boundary is bounded in real time by two limits, for
\* any number of goroutines and any delay up to MaxStale between the clock
\* reading of a call and its critical section.
THEOREM BurstIsTwoLimits == Spec => []BurstBound
  <1>1. Init => Bounded /\ Burst
    <2> SUFFICES ASSUME Init PROVE Bounded /\ Burst
      OBVIOUS
    <2>1. DefaultLimit \in Limits /\ DefaultLimit.req \in Nat
      BY LimitNumbers DEF Limits
    <2> QED
      BY <2>1 DEF Init, Bounded, Burst
  <1>2. Structure /\ Bounded /\ Burst => BurstBound
    BY BurstIsBounded
  <1> QED
    BY <1>1, <1>2, QuotaInit, QuotaStep, BoundedStep, BurstStep,
       StructureInvariant, PTL DEF Spec

----------------------------------------------------------------------------

\* A step moves the counter of one key at most, or puts a limit in force:
\* it is a step of WindowCounter or changes nothing that module sees.
LEMMA RefinementStep ==
    Structure /\ Structure' /\ Checked /\ [Next]_vars
      => [Counter!CounterNext]_Counter!cvars
  <1> SUFFICES ASSUME Structure, Structure', Checked, [Next]_vars
               PROVE  [Counter!CounterNext]_Counter!cvars
    OBVIOUS
  <1>n. /\ \A k \in Keys : cellOf[k] = NoObject <=> table[k] = NoObject
        /\ \A k \in Keys : table[k] # NoObject =>
              table[k] \in Objects /\ cellOf[k] = heap[table[k]]
    <2>1. \A o \in Objects : heap[o] \in [count : Nat, start : Nat]
      BY TimeAssumption DEF Structure, OwnTypes, fixedWindow, Time
    <2> QED
      BY <2>1, ObjectAssumption DEF cellOf, Structure, BaseInv, BaseTypeOK
  <1>c. \A k \in Keys : \A q \in Procs :
           pc[q] \in AfterLoad /\ table[k] = call[q].ptr => call[q].key = k
    BY DEF Structure, BaseInv, CallsApart
  <1>i. \A q \in Procs : pc[q] # "idle" => call[q].lim \in inForce[call[q].key]
    BY DEF Structure, Known
  <1>1. ASSUME UNCHANGED <<heap, table, inForce>>
        PROVE  UNCHANGED Counter!cvars
    BY <1>1 DEF Counter!cvars, cellOf
  <1>2. ASSUME NEW p \in Procs, Prepare(p) \/ Pass(p) \/ Deny(p)
        PROVE  UNCHANGED Counter!cvars
    BY <1>1, <1>2, QuietEffect DEF Quiet
  <1>3. ASSUME NEW p \in Procs, NEW o \in Fresh, Create(p, o)
        PROVE  Counter!CounterNext
    <2> DEFINE k == call[p].key
               t == call[p].now
    <2>1. /\ k \in Keys /\ t \in Time /\ o \in Objects
          /\ \A j \in Keys : table[j] # o
      BY <1>3, CreateEffect DEF Created, Call
    <2>2. /\ heap' = [heap EXCEPT ![o] = [count |-> 0, start |-> t]]
          /\ table[k] = NoObject
          /\ table' = [table EXCEPT ![k] = o]
          /\ inForce' = inForce
      BY <1>3 DEF Create, StoreNew
    <2> HIDE DEF k, t
    <2>3. cellOf' = [cellOf EXCEPT ![k] = [count |-> 0, start |-> t]]
      BY <2>1, <2>2, NullAssumption
         DEF cellOf, Structure, BaseInv, BaseTypeOK, OwnTypes
    <2>4. Counter!Open(k, t)
      BY <1>n, <2>1, <2>2, <2>3 DEF Counter!Open
    <2> QED
      BY <2>1, <2>4 DEF Counter!CounterNext
  <1>4. ASSUME NEW p \in Procs, Roll(p)
        PROVE  Counter!CounterNext \/ UNCHANGED Counter!cvars
    <2> DEFINE k == call[p].key
               l == call[p].lim
               t == call[p].now
               o == call[p].ptr
               fresh == [count |-> 0, start |-> t]
    <2>1. /\ pc[p] = "update" /\ o \in Objects
          /\ k \in Keys /\ l \in Limits /\ t \in Time
          /\ UNCHANGED <<table, inForce>>
      BY <1>4, RollEffect DEF RolledOver, Call
    <2>2. l \in inForce[k] /\ \A j \in Keys : table[j] = o => j = k
      BY <2>1, <1>c, <1>i DEF AfterLoad, Critical
    <2>3. CASE ~Expired(p)
      <3>1. heap' = heap
        BY <1>4, <2>1, <2>3 DEF Roll, Structure, OwnTypes
      <3> QED
        BY <1>1, <2>1, <3>1
    <2>4. CASE Expired(p)
      <3>1. /\ t - heap[o].start >= l.win
            /\ heap' = [heap EXCEPT ![o] = fresh]
        BY <1>4, <2>4 DEF Roll, Restarted, Expired, window
      <3>2. /\ t \in Nat /\ heap[o].start \in Nat /\ l.win \in Nat
        BY <2>1, LimitNumbers, TimeAssumption
           DEF Structure, OwnTypes, fixedWindow, Time
      <3>3. t >= heap[o].start + l.win
        BY <3>1, <3>2
      <3> HIDE DEF k, l, t, o, fresh
      <3>4. CASE table[k] = o
        <4>1. cellOf' = [cellOf EXCEPT ![k] = fresh]
          BY <1>n, <2>1, <2>2, <3>1, <3>4, NullAssumption
             DEF cellOf, Structure, OwnTypes
        <4>2. Counter!StartOver(k, l, t)
          BY <1>n, <2>1, <3>3, <3>4, <4>1, NullAssumption
             DEF Counter!StartOver, fresh
        <4> QED
          BY <2>1, <2>2, <4>2 DEF Counter!CounterNext
      <3>5. CASE table[k] # o
        <4>1. cellOf' = cellOf
          BY <1>n, <2>1, <2>2, <3>1, <3>5 DEF cellOf, Structure, OwnTypes
        <4> QED
          BY <2>1, <4>1 DEF Counter!cvars
      <3> QED
        BY <3>4, <3>5
    <2> QED
      BY <2>3, <2>4
  <1>5. ASSUME NEW p \in Procs, Commit(p)
        PROVE  Counter!CounterNext \/ UNCHANGED Counter!cvars
    <2> DEFINE k == call[p].key
               l == call[p].lim
               n == call[p].n
               o == call[p].ptr
               counted == [heap[o] EXCEPT !.count = @ + n]
    <2>1. /\ pc[p] = "commit" /\ o \in Objects
          /\ k \in Keys /\ n \in Amounts /\ l \in inForce[k]
          /\ UNCHANGED <<table, inForce>>
      BY <1>5, CommitEffect DEF Committed, Call
    <2>2. \A j \in Keys : table[j] = o => j = k
      BY <2>1, <1>c DEF AfterLoad, Critical
    <2>3. heap[o].count + n <= l.req
      BY <2>1 DEF Checked, Fits, window
    <2>4. heap' = [heap EXCEPT ![o] = counted]
      BY <1>5 DEF Commit
    <2> HIDE DEF k, l, n, o
    <2>5. CASE table[k] = o
      <3>1. cellOf[k] = heap[o] /\ table[k] # NoObject
        BY <1>n, <2>1, <2>5, NullAssumption
      <3>2. cellOf' = [cellOf EXCEPT ![k] = counted]
        <4> HIDE DEF counted
        <4> QED
          BY <1>n, <2>1, <2>2, <2>4, <2>5, NullAssumption
             DEF cellOf, Structure, OwnTypes
      <3>3. cellOf' = [cellOf EXCEPT ![k].count = @ + n]
        BY <3>1, <3>2
      <3>4. Counter!Admit(k, l, n)
        BY <1>n, <2>1, <2>3, <3>1, <3>3 DEF Counter!Admit
      <3> QED
        BY <2>1, <3>4 DEF Counter!CounterNext
    <2>6. CASE table[k] # o
      <3> HIDE DEF counted
      <3>1. cellOf' = cellOf
        BY <1>n, <2>1, <2>2, <2>4, <2>6 DEF cellOf, Structure, OwnTypes
      <3> QED
        BY <2>1, <3>1 DEF Counter!cvars
    <2> QED
      BY <2>5, <2>6
  <1>6. ASSUME NEW k \in Keys, table' = [table EXCEPT ![k] = NoObject],
               UNCHANGED <<heap, inForce>>
        PROVE  Counter!CounterNext
    <2>1. Counter!Drop(k)
      BY <1>6 DEF Counter!Drop, cellOf, Structure, BaseInv, BaseTypeOK
    <2> QED
      BY <2>1 DEF Counter!CounterNext
  <1>7. ASSUME NEW k \in Keys, NEW l \in LimitArgs, SetLimit(k, l)
        PROVE  Counter!CounterNext
    <2>1. l \in Limits
      BY <1>7 DEF SetLimit, StoreLimit, Limits
    <2>2. Counter!Enforce(k, l)
      BY <1>7 DEF SetLimit, StoreLimit, Counter!Enforce, cellOf
    <2> QED
      BY <2>1, <2>2 DEF Counter!CounterNext
  <1>8. CASE UNCHANGED <<heap, table, inForce>>
    BY <1>1, <1>8
  <1>9. CASE Admin
    BY <1>6, <1>7, <1>8, <1>9
       DEF Admin, Reset, Delete, Close, CloseBegin, CloseObject, CloseLimit,
           history
  <1> QED
    BY <1>2, <1>3, <1>4, <1>5, <1>8, <1>9
       DEF Next, Step, PassTime, Tick, history, vars, base

\* The goroutines, mutexes and sync.Map of FixedWindowLimiter implement the
\* atomic counter of WindowCounter, for every value of the constants.
THEOREM ImplementsCounter == Spec => CountsPerKey
  <1>1. Init => Counter!CounterInit
    BY DEF Init, BaseInit, Counter!CounterInit, cellOf
  <1> QED
    BY <1>1, QuotaInit, QuotaStep, RefinementStep, StructureInvariant, PTL
       DEF Spec, CountsPerKey, Counter!CounterSpec
====
