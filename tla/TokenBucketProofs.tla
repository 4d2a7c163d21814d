---- MODULE TokenBucketProofs ----
(***************************************************************************)
(* Theorems about TokenBucket for every number of keys, goroutines and     *)
(* buckets, every limit and every length of time.  What a bucket would     *)
(* hold at the latest reading it was used with (its potential) is what     *)
(* late readings cannot change; the invariants are stated about it.        *)
(***************************************************************************)
EXTENDS TokenBucket, LimiterCallsProofs

\* The types of what the token-bucket limiter adds.
OwnTypes ==
    /\ heap \in [Objects -> tokenBucket]
    /\ dropping \subseteq Keys
    /\ seen \in [Objects -> Time]
    /\ units \in [Objects -> Nat]
    /\ advice \in [Keys -> Nat \cup {NoAdvice}]

\* AllowWithInfo asks for one token.
Single == \A p \in Procs : pc[p] # "idle" /\ call[p].info => call[p].n = 1

Structure == BaseInv /\ OwnTypes /\ Single

\* A limit is made of positive numbers, and its capacity is at least a token.
LEMMA CapacityNumbers ==
    ASSUME NEW l \in Limits
    PROVE  /\ l.req \in Nat /\ l.win \in Nat /\ l.req > 0 /\ l.win > 0
           /\ capacity(l) \in Nat /\ capacity(l) >= l.win
  <1>1. l.req \in Nat /\ l.win \in Nat /\ l.req > 0 /\ l.win > 0
    BY LimitNumbers
  <1>2. l.burst \in Nat
    BY BurstAssumption DEF Limits
  <1> DEFINE b == IF l.burst = 0 THEN l.req ELSE l.burst
  <1>3. b \in Nat /\ b > 0
    BY <1>1, <1>2
  <1> HIDE DEF b
  <1>4. l.win * b \in Nat /\ l.win * b >= l.win
    BY <1>1, <1>3
  <1> QED
    BY <1>1, <1>4 DEF capacity, b

\* Every step of the limiter is a step of LimiterCalls.
LEMMA StepIsBaseStep == [Next]_vars => [BaseNext]_base
  BY DEF Next, Step, Prepare, Create, Refill, Pass, Deny, Consume, Admin,
         Reset, SetLimitStore, SetLimitDelete, Close, PassTime, BaseNext,
         vars, Critical

\* Init establishes the structure.
LEMMA StructureInit == Init => Structure
  <1> SUFFICES ASSUME Init PROVE Structure
    OBVIOUS
  <1>1. 0 \in Time /\ DefaultLimit \in Limits
    BY TimeAssumption DEF Time, Limits
  <1> QED
    BY <1>1, BaseInitial
       DEF Init, BaseInit, Structure, OwnTypes, Single, tokenBucket

\* A goroutine in the critical section has a call, and a bucket, with their
\* types.
LEMMA Working ==
    ASSUME BaseInv, OwnTypes, NEW p \in Procs, pc[p] \in Critical
    PROVE  /\ call[p] \in Call /\ call[p].ptr \in Objects
           /\ call[p].key \in Keys
           /\ call[p].n \in Nat /\ call[p].n > 0
           /\ call[p].now \in Nat /\ call[p].now <= clock
           /\ clock - call[p].now <= MaxStale
           /\ bucket(p) \in tokenBucket
           /\ bucket(p).tokens \in Int /\ bucket(p).lim \in Limits
           /\ bucket(p).last \in Nat
           /\ clock \in Nat
  BY AmountNumbers, TimeAssumption
     DEF BaseInv, BaseTypeOK, Shaped, Punctual, OwnTypes, AfterLoad, Reading,
         Critical, Call, tokenBucket, bucket, Time

\* The bucket of a call is replaced by one with these tokens and this time;
\* no other bucket changes.
Rewritten(p, tokens, last) ==
    /\ heap' \in [Objects -> tokenBucket]
    /\ heap'[call[p].ptr].tokens = tokens
    /\ heap'[call[p].ptr].last = last
    /\ heap'[call[p].ptr].lim = bucket(p).lim
    /\ \A o \in Objects : o # call[p].ptr => heap'[o] = heap[o]

\* Refill writes the tokens and the time.
LEMMA RefillWrites ==
    ASSUME BaseInv, OwnTypes, NEW p \in Procs, Refill(p)
    PROVE  Rewritten(p, Refilled(p), call[p].now)
  <1>1. pc[p] \in Critical
    BY DEF Refill, Within, Goto, Critical
  <1>2. /\ call[p] \in Call /\ call[p].ptr \in Objects
        /\ bucket(p) \in tokenBucket /\ bucket(p).lim \in Limits
        /\ bucket(p).tokens \in Int /\ bucket(p).last \in Nat
        /\ call[p].now \in Nat /\ call[p].now \in Time
    BY <1>1, Working DEF Call
  <1>3. capacity(bucket(p).lim) \in Nat /\ bucket(p).lim.req \in Nat
    BY <1>2, CapacityNumbers
  <1>4. Refilled(p) \in Int
    BY <1>2, <1>3 DEF Refilled, Capped, elapsed
  <1> DEFINE b == [bucket(p) EXCEPT !.tokens = Refilled(p)]
             c == [b EXCEPT !.last = call[p].now]
  <1>5. b \in tokenBucket /\ b.tokens = Refilled(p) /\ b.lim = bucket(p).lim
    BY <1>2, <1>4 DEF tokenBucket
  <1> HIDE DEF b
  <1>6. /\ c \in tokenBucket /\ c.tokens = b.tokens /\ c.lim = b.lim
        /\ c.last = call[p].now
    BY <1>2, <1>5 DEF tokenBucket
  <1>7. heap' = [heap EXCEPT ![call[p].ptr] = c]
    BY <1>2 DEF Refill, OwnTypes, b, bucket
  <1> HIDE DEF c
  <1> QED
    BY <1>2, <1>5, <1>6, <1>7 DEF Rewritten, OwnTypes

\* Consume takes the cost.
LEMMA ConsumeWrites ==
    ASSUME BaseInv, OwnTypes, NEW p \in Procs, Consume(p)
    PROVE  /\ cost(p) \in Nat
           /\ Rewritten(p, bucket(p).tokens - cost(p), bucket(p).last)
  <1>1. pc[p] \in Critical
    BY DEF Consume, Return, Goto, Critical
  <1>2. /\ call[p].ptr \in Objects /\ call[p].n \in Nat
        /\ bucket(p) \in tokenBucket /\ bucket(p).lim \in Limits
        /\ bucket(p).tokens \in Int /\ bucket(p).last \in Time
    BY <1>1, Working DEF tokenBucket
  <1>3. cost(p) \in Nat
    BY <1>2, CapacityNumbers DEF cost
  <1> DEFINE c == [bucket(p) EXCEPT !.tokens = @ - cost(p)]
  <1>4. /\ c \in tokenBucket /\ c.tokens = bucket(p).tokens - cost(p)
        /\ c.lim = bucket(p).lim /\ c.last = bucket(p).last
    BY <1>2, <1>3 DEF tokenBucket
  <1>5. heap' = [heap EXCEPT ![call[p].ptr] = c]
    BY DEF Consume, bucket
  <1> HIDE DEF c
  <1> QED
    BY <1>2, <1>3, <1>4, <1>5 DEF Rewritten, OwnTypes

\* The RetryAfter of a denied single request is a moment to come.
LEMMA RetryAtNumbers ==
    ASSUME BaseInv, OwnTypes, NEW p \in Procs, Deny(p), call[p].n = 1
    PROVE  RetryAt(p) \in Nat
  <1>1. pc[p] \in Critical /\ ~Enough(p)
    BY DEF Deny, Return, Goto, Critical
  <1>2. /\ bucket(p).tokens \in Int /\ bucket(p).lim \in Limits
        /\ clock \in Nat
    BY <1>1, Working
  <1>3. /\ bucket(p).lim.req \in Nat /\ bucket(p).lim.req > 0
        /\ bucket(p).lim.win \in Nat
    BY <1>2, CapacityNumbers
  <1> DEFINE d == bucket(p).lim.win - bucket(p).tokens
  <1>4. d \in Nat
    BY <1>1, <1>2, <1>3 DEF Enough, cost
  <1> HIDE DEF d
  <1>5. d \div bucket(p).lim.req \in Nat
    BY <1>3, <1>4
  <1> QED
    BY <1>2, <1>5 DEF RetryAt, d

\* Every step keeps the types of the fields and of the history.
LEMMA OwnTypesStep ==
    BaseInv /\ OwnTypes /\ Single /\ [Next]_vars => OwnTypes'
  <1> SUFFICES ASSUME BaseInv, OwnTypes, Single, [Next]_vars PROVE OwnTypes'
    OBVIOUS
  <1>1. ASSUME NEW p \in Procs, NEW o \in Fresh, Create(p, o) PROVE OwnTypes'
    <2>1. o \in Objects /\ call[p] \in Call
      BY <1>1 DEF Create, StoreNew, Goto, Fresh, BaseInv, Shaped
    <2>2. /\ call[p].lim \in Limits /\ call[p].now \in Time
          /\ capacity(call[p].lim) \in Int
      BY <2>1, CapacityNumbers DEF Call
    <2>3. FullBucket(p) \in tokenBucket
      BY <2>2 DEF FullBucket, tokenBucket
    <2> QED
      BY <1>1, <2>1, <2>2, <2>3 DEF Create, OwnTypes
  <1>2. ASSUME NEW p \in Procs, Refill(p) PROVE OwnTypes'
    <2>1. call[p].now \in Time
      BY <1>2, Working DEF Refill, Within, Goto, Critical, Call
    <2>2. heap' \in [Objects -> tokenBucket]
      BY <1>2, RefillWrites DEF Rewritten
    <2> QED
      BY <1>2, <2>1, <2>2 DEF Refill, OwnTypes
  <1>3. ASSUME NEW p \in Procs, Deny(p) PROVE OwnTypes'
    <2>1. call[p].info => RetryAt(p) \in Nat
      BY <1>3, RetryAtNumbers DEF Deny, Return, Goto, Single
    <2> QED
      BY <1>3, <2>1 DEF Deny, Advised, OwnTypes
  <1>4. ASSUME NEW p \in Procs, Consume(p) PROVE OwnTypes'
    <2>1. call[p].n \in Nat /\ call[p].ptr \in Objects
      BY <1>4, Working DEF Consume, Return, Goto, Critical
    <2>2. heap' \in [Objects -> tokenBucket]
      BY <1>4, ConsumeWrites DEF Rewritten
    <2>3. units' \in [Objects -> Nat]
      BY <1>4, <2>1 DEF Consume, OwnTypes
    <2>4. /\ UNCHANGED <<dropping, seen>>
          /\ advice' \in [Keys -> Nat \cup {NoAdvice}]
      BY <1>4 DEF Consume, OwnTypes
    <2> QED
      BY <2>2, <2>3, <2>4 DEF OwnTypes
  <1>5. CASE Admin
    BY <1>5 DEF Admin, Reset, SetLimitStore, SetLimitDelete, Close, Void,
                history, OwnTypes
  <1>6. CASE UNCHANGED <<heap, dropping, history>>
    BY <1>6 DEF history, OwnTypes
  <1> QED
    BY <1>1, <1>2, <1>3, <1>4, <1>5, <1>6
       DEF Next, Step, Prepare, Pass, PassTime, vars, history

\* Only Begin chooses the batch size of a call.
LEMMA SingleStep == BaseInv /\ Single /\ [Next]_vars => Single'
  <1> SUFFICES ASSUME BaseInv, Single, [Next]_vars PROVE Single'
    OBVIOUS
  <1> USE DEF BaseInv, BaseTypeOK, Single
  <1>1. ASSUME NEW p \in Procs, Begin(p) PROVE Single'
    BY <1>1 DEF Begin, BeginAllowN, BeginAllowWithInfo, Enter, Goto
  <1>2. ASSUME \A q \in Procs : pc'[q] # "idle" =>
                   /\ pc[q] # "idle"
                   /\ call'[q].n = call[q].n /\ call'[q].info = call[q].info
        PROVE  Single'
    BY <1>2
  <1>3. ASSUME NEW p \in Procs, ReadClock(p) \/ LoadFound(p)
                                  \/ \E o \in Fresh : StoreNew(p, o)
        PROVE  Single'
    <2>1. call[p] \in Call
      BY <1>3 DEF ReadClock, LoadFound, StoreNew, Goto, Shaped
    <2> QED
      BY <1>2, <1>3, <2>1 DEF ReadClock, LoadFound, StoreNew, Goto, Call
  <1>4. ASSUME NEW p \in Procs, Lock(p) \/ Refill(p) \/ Pass(p) PROVE Single'
    BY <1>2, <1>4 DEF Lock, Refill, Pass, Within, Goto
  <1>5. ASSUME NEW p \in Procs, Deny(p) \/ Consume(p) PROVE Single'
    BY <1>2, <1>5 DEF Deny, Consume, Return, Goto
  <1>6. CASE Admin \/ PassTime \/ UNCHANGED vars
    BY <1>6 DEF Admin, Reset, SetLimitStore, SetLimitDelete, Close, Delete,
                StoreLimit, CloseBegin, CloseObject, CloseLimit, PassTime,
                Tick, vars, base
  <1> QED
    BY <1>1, <1>3, <1>4, <1>5, <1>6
       DEF Next, Step, Prepare, Approach, Create

\* The structure is an invariant of the limiter.
THEOREM StructureInvariant == Spec => []Structure
  <1>1. Structure /\ [Next]_vars => Structure'
    BY BaseStep, StepIsBaseStep, OwnTypesStep, SingleStep DEF Structure
  <1> QED
    BY <1>1, StructureInit, PTL DEF Spec

\* Every variable keeps its type, tokens being integers that a late clock
\* reading can make negative.
THEOREM TypesCorrect == Spec => []TypeOK
  <1>1. Structure => TypeOK
    BY DEF Structure, BaseInv, OwnTypes, TypeOK
  <1> QED
    BY <1>1, StructureInvariant, PTL

----------------------------------------------------------------------------

(* What a step does to one bucket. *)

Kept(o) ==
    heap'[o] = heap[o] /\ seen'[o] = seen[o] /\ units'[o] = units[o]

Opened(o, p) ==
    /\ pc[p] = "load" /\ call[p] \in Call
    /\ heap'[o].tokens = capacity(call[p].lim)
    /\ heap'[o].lim = call[p].lim
    /\ heap'[o].last = call[p].now
    /\ seen'[o] = call[p].now
    /\ units'[o] = 0
    /\ \A k \in Keys : table[k] # o
    /\ clock' = clock

Refueled(o, p) ==
    /\ pc[p] = "update" /\ call[p].ptr = o
    /\ heap'[o].tokens = Refilled(p)
    /\ heap'[o].lim = heap[o].lim
    /\ heap'[o].last = call[p].now
    /\ seen'[o] = IF call[p].now > seen[o] THEN call[p].now ELSE seen[o]
    /\ units'[o] = units[o]
    /\ clock' = clock

Charged(o, p) ==
    /\ pc[p] = "commit" /\ call[p].ptr = o
    /\ heap'[o].tokens = heap[o].tokens - cost(p)
    /\ heap'[o].lim = heap[o].lim
    /\ heap'[o].last = heap[o].last
    /\ seen'[o] = seen[o]
    /\ units'[o] = IF clock >= mark THEN units[o] + call[p].n ELSE units[o]
    /\ clock' = clock

\* Every step leaves a bucket alone, opens it, refills it or charges it.
LEMMA BucketCases ==
    ASSUME Structure, [Next]_vars
    PROVE  /\ mark' = mark
           /\ clock' \in {clock, clock + 1}
           /\ \A o \in Objects :
                 Kept(o) \/ \E p \in Procs :
                               Opened(o, p) \/ Refueled(o, p) \/ Charged(o, p)
  <1> USE DEF Structure
  <1>1. ASSUME NEW p \in Procs, NEW x \in Fresh, Create(p, x)
        PROVE  /\ UNCHANGED <<mark, clock>>
               /\ \A o \in Objects : Kept(o) \/ Opened(o, p)
    <2>1. /\ pc[p] = "load" /\ x \in Objects /\ \A k \in Keys : table[k] # x
          /\ heap' = [heap EXCEPT ![x] = FullBucket(p)]
          /\ seen' = [seen EXCEPT ![x] = call[p].now]
          /\ units' = [units EXCEPT ![x] = 0]
          /\ UNCHANGED <<mark, clock>>
      BY <1>1 DEF Create, StoreNew, Goto, Fresh, Mapped
    <2>2. call[p] \in Call
      BY <2>1 DEF BaseInv, Shaped
    <2> QED
      BY <2>1, <2>2 DEF Kept, Opened, OwnTypes, FullBucket
  <1>2. ASSUME NEW p \in Procs, Refill(p)
        PROVE  /\ UNCHANGED <<mark, clock>>
               /\ \A o \in Objects : Kept(o) \/ Refueled(o, p)
    <2>1. /\ pc[p] = "update" /\ call[p].ptr \in Objects
          /\ UNCHANGED <<mark, clock, units>>
          /\ seen' = [seen EXCEPT ![call[p].ptr] =
                          IF call[p].now > @ THEN call[p].now ELSE @]
      BY <1>2, Working DEF Refill, Within, Goto, Critical
    <2>2. Rewritten(p, Refilled(p), call[p].now)
      BY <1>2, RefillWrites
    <2> QED
      BY <2>1, <2>2 DEF Kept, Refueled, OwnTypes, Rewritten, bucket
  <1>3. ASSUME NEW p \in Procs, Consume(p)
        PROVE  /\ UNCHANGED <<mark, clock>>
               /\ \A o \in Objects : Kept(o) \/ Charged(o, p)
    <2>1. /\ pc[p] = "commit" /\ call[p].ptr \in Objects
          /\ UNCHANGED <<mark, clock, seen>>
          /\ units' = IF clock >= mark
                      THEN [units EXCEPT ![call[p].ptr] = @ + call[p].n]
                      ELSE units
      BY <1>3, Working DEF Consume, Return, Goto, Critical
    <2>2. Rewritten(p, bucket(p).tokens - cost(p), bucket(p).last)
      BY <1>3, ConsumeWrites
    <2> QED
      BY <2>1, <2>2 DEF Kept, Charged, OwnTypes, Rewritten, bucket
  <1>4. ASSUME UNCHANGED <<heap, seen, units, mark>>, clock' \in {clock, clock + 1}
        PROVE  /\ mark' = mark
               /\ clock' \in {clock, clock + 1}
               /\ \A o \in Objects : Kept(o)
    BY <1>4 DEF Kept
  <1>5. ASSUME NEW p \in Procs, Prepare(p) \/ Pass(p) \/ Deny(p)
        PROVE  UNCHANGED <<heap, seen, units, mark, clock>>
    BY <1>5 DEF Prepare, Approach, Begin, BeginAllowN, BeginAllowWithInfo,
                Enter, ReadClock, LoadFound, Lock, Pass, Within, Deny, Return,
                history
  <1>6. CASE Admin
    <2>1. UNCHANGED <<heap, seen, units, mark, clock>>
      BY <1>6 DEF Admin, Reset, SetLimitStore, SetLimitDelete, Close, Delete,
                  StoreLimit, CloseBegin, CloseObject, CloseLimit, history
    <2> QED
      BY <1>4, <2>1
  <1>7. CASE PassTime \/ UNCHANGED vars
    BY <1>4, <1>7 DEF PassTime, Tick, vars, base, history
  <1> QED
    BY <1>1, <1>2, <1>3, <1>4, <1>5, <1>6, <1>7 DEF Next, Step

----------------------------------------------------------------------------

(* The decision of a call. *)

\* A call that decides or pays has brought its bucket up to its reading.
Settled ==
    \A p \in Procs : pc[p] \in {"check", "commit"} =>
        bucket(p).last = call[p].now /\ call[p].now <= seen[call[p].ptr]

\* What a call has checked still holds when it pays.
Checked == \A p \in Procs : pc[p] = "commit" => Enough(p)

\* The mutex keeps the bucket of a call as the call has found it.
LEMMA DecisionStep ==
    Structure /\ Settled /\ Checked /\ [Next]_vars => Settled' /\ Checked'
  <1> SUFFICES ASSUME Structure, Settled, Checked, [Next]_vars
               PROVE  Settled' /\ Checked'
    OBVIOUS
  <1>a. \A q \in Procs : pc[q] \in Critical => call[q].ptr \in Objects
    BY Working DEF Structure
  \* Steps after which a call in the critical section has what it had.
  <1>1. ASSUME \A q \in Procs : pc'[q] \in {"check", "commit"} =>
                   /\ pc[q] \in {"check", "commit"}
                   /\ pc'[q] = "commit" => pc[q] = "commit" \/ Enough(q)
                   /\ call'[q] = call[q]
                   /\ heap'[call[q].ptr] = heap[call[q].ptr]
                   /\ seen'[call[q].ptr] = seen[call[q].ptr]
        PROVE  Settled' /\ Checked'
    BY <1>1 DEF Settled, Checked, Enough, cost, bucket
  <1>2. ASSUME NEW p \in Procs, Prepare(p) \/ Pass(p) \/ Deny(p)
        PROVE  Settled' /\ Checked'
    <2>1. CASE Prepare(p)
      BY <1>1, <2>1 DEF Prepare, Approach, Begin, BeginAllowN,
            BeginAllowWithInfo, Enter, ReadClock, LoadFound, Lock, Goto, history,
            Structure, BaseInv, BaseTypeOK
    <2>2. CASE Pass(p)
      BY <1>1, <2>2 DEF Pass, Within, Goto, history, Structure, BaseInv,
                        BaseTypeOK
    <2>3. CASE Deny(p)
      BY <1>1, <2>3 DEF Deny, Return, Goto, Structure, BaseInv, BaseTypeOK
    <2> QED
      BY <1>2, <2>1, <2>2, <2>3
  <1>3. ASSUME NEW p \in Procs, NEW o \in Fresh, Create(p, o)
        PROVE  Settled' /\ Checked'
    <2>1. \A q \in Procs : pc[q] \in AfterLoad => call[q].ptr # o
      BY DEF Fresh, Held
    <2>2. \A q \in Procs : pc'[q] \in Critical =>
             pc'[q] = pc[q] /\ call'[q] = call[q] /\ call[q].ptr # o
      BY <1>3, <2>1 DEF Create, StoreNew, Goto, Structure, BaseInv, BaseTypeOK,
                        Critical, AfterLoad
    <2> QED
      BY <1>1, <1>3, <1>a, <2>2 DEF Create, Structure, OwnTypes, Critical
  <1>4. ASSUME NEW p \in Procs, Refill(p) PROVE Settled' /\ Checked'
    <2>1. /\ pc[p] = "update" /\ pc' = [pc EXCEPT ![p] = "check"]
          /\ call' = call
          /\ seen' = [seen EXCEPT ![call[p].ptr] =
                          IF call[p].now > @ THEN call[p].now ELSE @]
      BY <1>4 DEF Refill, Within, Goto
    <2>2. Rewritten(p, Refilled(p), call[p].now)
      BY <1>4, RefillWrites DEF Structure
    <2>3. call[p].ptr \in Objects /\ call[p].now \in Nat
      BY <2>1, Working DEF Structure, Critical
    <2>4. seen[call[p].ptr] \in Nat
      BY <2>3, TimeAssumption DEF Structure, OwnTypes, Time
    <2>5. ASSUME NEW q \in Procs, q # p, pc'[q] \in {"check", "commit"}
          PROVE  /\ pc[q] = pc'[q] /\ call'[q] = call[q]
                 /\ call[q].ptr # call[p].ptr /\ call[q].ptr \in Objects
                 /\ heap'[call[q].ptr] = heap[call[q].ptr]
                 /\ seen'[call[q].ptr] = seen[call[q].ptr]
      <3>1. pc[q] = pc'[q]
        BY <2>1, <2>5 DEF Structure, BaseInv, BaseTypeOK
      <3>2. call[q].ptr # call[p].ptr /\ call[q].ptr \in Objects
        BY <2>1, <2>5, <3>1, <1>a, Exclusive DEF Structure, Critical
      <3> QED
        BY <2>1, <2>2, <3>1, <3>2 DEF Rewritten, Structure, OwnTypes
    <2>6. /\ pc'[p] = "check"
          /\ heap'[call[p].ptr].last = call[p].now
          /\ call[p].now <= seen'[call[p].ptr]
      BY <2>1, <2>2, <2>3, <2>4
         DEF Rewritten, Structure, BaseInv, BaseTypeOK, OwnTypes
    <2> QED
      BY <2>1, <2>5, <2>6 DEF Settled, Checked, Enough, cost, bucket
  <1>5. ASSUME NEW p \in Procs, Consume(p) PROVE Settled' /\ Checked'
    <2>1. /\ pc[p] = "commit" /\ pc' = [pc EXCEPT ![p] = "idle"]
          /\ call' = [call EXCEPT ![p] = NoCall]
          /\ UNCHANGED seen
      BY <1>5 DEF Consume, Return, Goto
    <2>2. \A q \in Procs : pc'[q] \in Critical =>
             /\ pc'[q] = pc[q] /\ call'[q] = call[q]
             /\ call[q].ptr \in Objects /\ call[q].ptr # call[p].ptr
      BY <2>1, <1>a, Exclusive DEF Structure, BaseInv, BaseTypeOK, Critical
    <2>3. \A o \in Objects : o # call[p].ptr => heap'[o] = heap[o]
      BY <1>5, ConsumeWrites DEF Rewritten, Structure
    <2> QED
      BY <1>1, <2>1, <2>2, <2>3 DEF Critical
  <1>6. CASE Admin \/ PassTime \/ UNCHANGED vars
    <2>1. UNCHANGED <<heap, seen, pc, call>>
      BY <1>6 DEF Admin, Reset, SetLimitStore, SetLimitDelete, Close, Delete,
                  StoreLimit, CloseBegin, CloseObject, CloseLimit, PassTime,
                  Tick, history, vars, base
    <2> QED
      BY <1>1, <2>1
  <1> QED
    BY <1>2, <1>3, <1>4, <1>5, <1>6 DEF Next, Step

----------------------------------------------------------------------------

(* The potential of a bucket. *)

\* What the bucket would hold at the latest reading it was used with.
pot(o) == heap[o].tokens + (seen[o] - heap[o].last) * heap[o].lim.req

\* The potential is never negative and never more than the capacity.
Metered ==
    \A o \in Objects :
        /\ heap[o].last <= seen[o] /\ seen[o] <= clock
        /\ 0 <= pot(o) /\ pot(o) <= capacity(heap[o].lim)

\* The numbers of a bucket.
LEMMA BucketNumbers ==
    ASSUME OwnTypes, NEW o \in Objects
    PROVE  /\ heap[o].tokens \in Int /\ heap[o].last \in Nat
           /\ heap[o].lim \in Limits /\ seen[o] \in Nat /\ units[o] \in Nat
           /\ heap[o].lim.req \in Nat /\ heap[o].lim.req > 0
           /\ heap[o].lim.win \in Nat /\ heap[o].lim.win > 0
           /\ capacity(heap[o].lim) \in Nat
           /\ capacity(heap[o].lim) >= heap[o].lim.win
           /\ pot(o) \in Int
  <1>1. /\ heap[o].tokens \in Int /\ heap[o].last \in Nat
        /\ heap[o].lim \in Limits /\ seen[o] \in Nat /\ units[o] \in Nat
    BY TimeAssumption DEF OwnTypes, tokenBucket, Time
  <1>2. /\ heap[o].lim.req \in Nat /\ heap[o].lim.req > 0
        /\ heap[o].lim.win \in Nat /\ heap[o].lim.win > 0
        /\ capacity(heap[o].lim) \in Nat
        /\ capacity(heap[o].lim) >= heap[o].lim.win
    BY <1>1, CapacityNumbers
  <1> QED
    BY <1>1, <1>2 DEF pot

\* The potential after a refill.
LEMMA RefuelEffect ==
    ASSUME Structure, Metered, NEW o \in Objects, NEW p \in Procs, Refueled(o, p)
    PROVE  /\ heap'[o].lim = heap[o].lim
           /\ \/ seen'[o] = seen[o] /\ pot(o)' = pot(o)
                 /\ call[p].now <= seen[o]
              \/ LET brought == (call[p].now - seen[o]) * heap[o].lim.req
                 IN  /\ call[p].now > seen[o] /\ seen'[o] = call[p].now
                     /\ brought \in Nat
                     /\ pot(o)' = Capped(heap[o].lim, pot(o) + brought)
                     /\ 0 <= pot(o)' /\ pot(o)' <= capacity(heap[o].lim)
           /\ heap'[o].last <= seen'[o] /\ seen'[o] <= clock
  <1>1. /\ pc[p] = "update" /\ call[p].ptr = o
        /\ heap'[o].tokens = Refilled(p) /\ heap'[o].lim = heap[o].lim
        /\ heap'[o].last = call[p].now
        /\ seen'[o] = IF call[p].now > seen[o] THEN call[p].now ELSE seen[o]
    BY DEF Refueled
  <1>2. call[p].now \in Nat /\ call[p].now <= clock /\ clock \in Nat
    BY <1>1, Working DEF Structure, Critical
  <1>3. /\ heap[o].tokens \in Int /\ heap[o].last \in Nat /\ seen[o] \in Nat
        /\ heap[o].lim.req \in Nat /\ capacity(heap[o].lim) \in Nat
    BY BucketNumbers DEF Structure
  <1>4. /\ heap[o].last <= seen[o] /\ seen[o] <= clock
        /\ 0 <= pot(o) /\ pot(o) <= capacity(heap[o].lim)
    BY DEF Metered
  <1> DEFINE req == heap[o].lim.req
             cap == capacity(heap[o].lim)
             tokens == heap[o].tokens
             gone == (seen[o] - heap[o].last) * req
             spent == (call[p].now - heap[o].last) * req
             back == (seen[o] - call[p].now) * req
             brought == (call[p].now - seen[o]) * req
  <1>5. Refilled(p) = Capped(heap[o].lim, tokens + spent)
    BY <1>1 DEF Refilled, elapsed, bucket
  <1>6. pot(o) = tokens + gone
    BY DEF pot
  <1>7. /\ gone \in Int /\ spent \in Int /\ back \in Int /\ brought \in Int
        /\ gone = spent + back /\ spent = gone + brought
    BY <1>2, <1>3
  <1>8. CASE call[p].now <= seen[o]
    <2>1. seen'[o] = seen[o]
      BY <1>1, <1>2, <1>3, <1>8
    <2>2. back \in Nat
      BY <1>2, <1>3, <1>8
    <2>3. pot(o)' = Refilled(p) + back
      BY <1>1, <2>1 DEF pot
    <2> HIDE DEF gone, spent, back, brought
    <2>4. ~ (tokens + spent > cap)
      BY <1>3, <1>4, <1>6, <1>7, <2>2
    <2>5. pot(o)' = tokens + spent + back
      BY <1>5, <2>3, <2>4 DEF Capped
    <2>6. pot(o)' = pot(o)
      BY <1>3, <1>6, <1>7, <2>5
    <2> QED
      BY <1>1, <1>4, <1>8, <2>1, <2>6
  <1>9. CASE call[p].now > seen[o]
    <2>1. seen'[o] = call[p].now
      BY <1>1, <1>9
    <2>2. brought \in Nat
      BY <1>2, <1>3, <1>9
    <2>3. (call[p].now - call[p].now) * req = 0
      BY <1>2, <1>3
    <2>4. pot(o)' = Refilled(p) + (call[p].now - call[p].now) * req
      BY <1>1, <2>1 DEF pot
    <2> HIDE DEF gone, spent, back, brought
    <2>5. tokens + spent = pot(o) + brought
      BY <1>3, <1>6, <1>7
    <2>6. Refilled(p) \in Int
      BY <1>3, <1>5, <1>7 DEF Capped
    <2>7. pot(o)' = Capped(heap[o].lim, pot(o) + brought)
      BY <1>5, <2>3, <2>4, <2>5, <2>6
    <2>8. 0 <= pot(o)' /\ pot(o)' <= cap
      BY <1>3, <1>4, <1>6, <1>7, <2>2, <2>7 DEF Capped
    <2> QED
      BY <1>1, <1>2, <1>9, <2>1, <2>2, <2>7, <2>8 DEF brought
  <1> QED
    BY <1>2, <1>3, <1>8, <1>9

\* The potential after a call has paid.
LEMMA ChargeEffect ==
    ASSUME Structure, Metered, Checked, NEW o \in Objects, NEW p \in Procs,
           Charged(o, p)
    PROVE  /\ heap'[o].lim = heap[o].lim /\ seen'[o] = seen[o]
           /\ heap'[o].last = heap[o].last
           /\ cost(p) \in Nat /\ cost(p) = call[p].n * heap[o].lim.win
           /\ cost(p) <= pot(o)
           /\ pot(o)' = pot(o) - cost(p)
  <1>1. /\ pc[p] = "commit" /\ call[p].ptr = o
        /\ heap'[o].tokens = heap[o].tokens - cost(p)
        /\ heap'[o].lim = heap[o].lim /\ heap'[o].last = heap[o].last
        /\ seen'[o] = seen[o]
    BY DEF Charged
  <1>2. /\ heap[o].tokens \in Int /\ heap[o].last \in Nat /\ seen[o] \in Nat
        /\ heap[o].lim.req \in Nat /\ heap[o].lim.win \in Nat
    BY BucketNumbers DEF Structure
  <1>3. call[p].n \in Nat
    BY <1>1, Working DEF Structure, Critical
  <1>4. cost(p) \in Nat /\ cost(p) = call[p].n * heap[o].lim.win
    BY <1>1, <1>2, <1>3 DEF cost, bucket
  <1>5. heap[o].tokens >= cost(p)
    BY <1>1 DEF Checked, Enough, bucket
  <1> DEFINE ahead == (seen[o] - heap[o].last) * heap[o].lim.req
  <1>6. ahead \in Nat
    BY <1>2 DEF Metered
  <1>7. pot(o) = heap[o].tokens + ahead
    BY DEF pot
  <1>8. pot(o)' = heap[o].tokens - cost(p) + ahead
    BY <1>1 DEF pot
  <1> HIDE DEF ahead
  <1>9. cost(p) <= pot(o) /\ pot(o)' = pot(o) - cost(p)
    BY <1>2, <1>4, <1>5, <1>6, <1>7, <1>8
  <1> QED
    BY <1>1, <1>4, <1>9

\* What holds of a bucket that has just been opened.
LEMMA OpenEffect ==
    ASSUME Structure, NEW o \in Objects, NEW p \in Procs, Opened(o, p)
    PROVE  /\ heap'[o].last = seen'[o] /\ seen'[o] <= clock
           /\ heap'[o].lim \in Limits
           /\ pot(o)' = capacity(heap'[o].lim)
           /\ capacity(heap'[o].lim) \in Nat
           /\ units'[o] = 0
  <1>1. /\ pc[p] = "load" /\ call[p] \in Call
        /\ heap'[o].tokens = capacity(call[p].lim)
        /\ heap'[o].lim = call[p].lim
        /\ heap'[o].last = call[p].now /\ seen'[o] = call[p].now
        /\ units'[o] = 0
    BY DEF Opened
  <1>2. call[p].now \in Nat /\ call[p].now <= clock
    BY <1>1, TimeAssumption DEF Structure, BaseInv, Punctual, Reading, Call, Time
  <1>3. /\ call[p].lim \in Limits /\ capacity(call[p].lim) \in Nat
        /\ call[p].lim.req \in Nat
    BY <1>1, CapacityNumbers DEF Call
  <1>4. (call[p].now - call[p].now) * call[p].lim.req = 0
    BY <1>2, <1>3
  <1>5. pot(o)' = capacity(call[p].lim) + (call[p].now - call[p].now) * call[p].lim.req
    BY <1>1 DEF pot
  <1> QED
    BY <1>1, <1>2, <1>3, <1>4, <1>5

\* The potential stays between nothing and the capacity.
LEMMA MeteredStep ==
    Structure /\ Metered /\ Checked /\ [Next]_vars => Metered'
  <1> SUFFICES ASSUME Structure, Metered, Checked, [Next]_vars,
                      NEW o \in Objects
               PROVE  /\ heap'[o].last <= seen'[o] /\ seen'[o] <= clock'
                      /\ 0 <= pot(o)' /\ pot(o)' <= capacity(heap'[o].lim)
    BY DEF Metered, pot, capacity
  <1>1. /\ clock \in Nat /\ clock' \in {clock, clock + 1}
        /\ Kept(o) \/ \E p \in Procs :
                         Opened(o, p) \/ Refueled(o, p) \/ Charged(o, p)
    BY BucketCases, TimeAssumption DEF Structure, BaseInv, BaseTypeOK, Time
  <1>2. /\ heap[o].last \in Nat /\ seen[o] \in Nat /\ pot(o) \in Int
        /\ capacity(heap[o].lim) \in Nat
        /\ heap[o].last <= seen[o] /\ seen[o] <= clock
        /\ 0 <= pot(o) /\ pot(o) <= capacity(heap[o].lim)
    BY BucketNumbers DEF Structure, Metered
  <1>3. CASE Kept(o)
    <2>1. pot(o)' = pot(o) /\ heap'[o] = heap[o] /\ seen'[o] = seen[o]
      BY <1>3 DEF Kept, pot
    <2> QED
      BY <1>1, <1>2, <2>1
  <1>4. ASSUME NEW p \in Procs, Opened(o, p)
        PROVE  /\ heap'[o].last <= seen'[o] /\ seen'[o] <= clock'
               /\ 0 <= pot(o)' /\ pot(o)' <= capacity(heap'[o].lim)
    <2>1. seen'[o] \in Nat
      BY <1>4, TimeAssumption DEF Opened, Call, Time
    <2> QED
      BY <1>1, <1>4, <2>1, OpenEffect
  <1>5. ASSUME NEW p \in Procs, Refueled(o, p)
        PROVE  /\ heap'[o].last <= seen'[o] /\ seen'[o] <= clock'
               /\ 0 <= pot(o)' /\ pot(o)' <= capacity(heap'[o].lim)
    <2>1. clock' = clock
      BY <1>5 DEF Refueled
    <2> QED
      BY <1>2, <1>5, <2>1, RefuelEffect
  <1>6. ASSUME NEW p \in Procs, Charged(o, p)
        PROVE  /\ heap'[o].last <= seen'[o] /\ seen'[o] <= clock'
               /\ 0 <= pot(o)' /\ pot(o)' <= capacity(heap'[o].lim)
    <2>1. clock' = clock
      BY <1>6 DEF Charged
    <2> QED
      BY <1>2, <1>6, <2>1, ChargeEffect
  <1> QED
    BY <1>1, <1>3, <1>4, <1>5, <1>6

----------------------------------------------------------------------------

(* The rate. *)

\* What was admitted since the mark, and what is still there, was in the
\* bucket or was brought by the time up to the latest reading.
Accounted ==
    \A o \in Objects :
        /\ clock < mark => units[o] = 0
        /\ \/ units[o] = 0
           \/ units[o] * heap[o].lim.win + pot(o)
                <= capacity(heap[o].lim)
                   + heap[o].lim.req * (seen[o] - mark + MaxStale)

\* Every step keeps the account: time brings what the bound grows by, and a
\* payment moves tokens from the bucket to the admitted units.
LEMMA AccountedStep ==
    /\ Structure /\ Metered /\ Settled /\ Checked /\ Accounted /\ [Next]_vars
    => Accounted'
  <1> SUFFICES ASSUME Structure, Metered, Settled, Checked, Accounted,
                      [Next]_vars, NEW o \in Objects
               PROVE  /\ clock' < mark => units'[o] = 0
                      /\ \/ units'[o] = 0
                         \/ units'[o] * heap'[o].lim.win + pot(o)'
                              <= capacity(heap'[o].lim)
                                 + heap'[o].lim.req * (seen'[o] - mark + MaxStale)
    BY BucketCases DEF Accounted, pot, capacity
  <1>1. /\ clock' \in {clock, clock + 1}
        /\ Kept(o) \/ \E p \in Procs :
                         Opened(o, p) \/ Refueled(o, p) \/ Charged(o, p)
    BY BucketCases
  <1>2. /\ clock \in Nat /\ mark \in Nat /\ MaxStale \in Nat
        /\ seen[o] \in Nat /\ units[o] \in Nat
        /\ heap[o].lim.req \in Nat /\ heap[o].lim.win \in Nat
        /\ capacity(heap[o].lim) \in Nat /\ pot(o) \in Int
    BY BucketNumbers, TimeAssumption DEF Structure, BaseInv, BaseTypeOK, Time
  <1> DEFINE req == heap[o].lim.req
             win == heap[o].lim.win
             bound == capacity(heap[o].lim) + req * (seen[o] - mark + MaxStale)
  <1>3. /\ clock < mark => units[o] = 0
        /\ units[o] = 0 \/ units[o] * win + pot(o) <= bound
    BY DEF Accounted
  <1>4. CASE Kept(o)
    <2>1. /\ pot(o)' = pot(o) /\ heap'[o] = heap[o] /\ seen'[o] = seen[o]
          /\ units'[o] = units[o]
      BY <1>4 DEF Kept, pot
    <2>2. clock' < mark => clock < mark
      BY <1>1, <1>2
    <2> QED
      BY <1>3, <2>1, <2>2
  <1>5. ASSUME NEW p \in Procs, Opened(o, p) PROVE units'[o] = 0
    BY <1>5 DEF Opened
  <1>6. ASSUME NEW p \in Procs, Refueled(o, p)
        PROVE  /\ clock' < mark => units'[o] = 0
               /\ \/ units'[o] = 0
                  \/ units'[o] * heap'[o].lim.win + pot(o)'
                       <= capacity(heap'[o].lim)
                          + heap'[o].lim.req * (seen'[o] - mark + MaxStale)
    <2>1. clock' = clock /\ units'[o] = units[o] /\ heap'[o].lim = heap[o].lim
      BY <1>6, RefuelEffect DEF Refueled
    <2>2. CASE seen'[o] = seen[o] /\ pot(o)' = pot(o)
      BY <1>3, <2>1, <2>2
    <2>3. CASE call[p].now > seen[o]
      <3> DEFINE brought == (call[p].now - seen[o]) * req
      <3>1. /\ seen'[o] = call[p].now /\ brought \in Nat
            /\ pot(o)' = Capped(heap[o].lim, pot(o) + brought)
        BY <1>2, <1>6, <2>3, RefuelEffect, Working
           DEF Refueled, Structure, Critical
      <3>2. call[p].now \in Nat
        BY <1>6, Working DEF Refueled, Structure, Critical
      <3>3. req * (call[p].now - mark + MaxStale)
              = req * (seen[o] - mark + MaxStale) + brought
        BY <1>2, <3>2
      <3>4. /\ req * (seen[o] - mark + MaxStale) \in Int
            /\ units[o] * win \in Int
        BY <1>2
      <3> HIDE DEF brought
      <3>5. pot(o)' \in Int /\ pot(o)' <= pot(o) + brought
        BY <1>2, <3>1 DEF Capped
      <3>6. CASE units[o] * win + pot(o) <= bound
        <4>1. units[o] * win + pot(o)'
                <= capacity(heap[o].lim) + req * (seen[o] - mark + MaxStale)
                   + brought
          BY <1>2, <3>1, <3>4, <3>5, <3>6
        <4>2. units[o] * win + pot(o)'
                <= capacity(heap[o].lim) + req * (call[p].now - mark + MaxStale)
          BY <1>2, <3>1, <3>3, <3>4, <4>1
        <4> QED
          BY <1>3, <2>1, <3>1, <4>2
      <3> QED
        BY <1>3, <2>1, <3>6
    <2> QED
      BY <1>6, <2>2, <2>3, RefuelEffect
  <1>7. ASSUME NEW p \in Procs, Charged(o, p)
        PROVE  /\ clock' < mark => units'[o] = 0
               /\ \/ units'[o] = 0
                  \/ units'[o] * heap'[o].lim.win + pot(o)'
                       <= capacity(heap'[o].lim)
                          + heap'[o].lim.req * (seen'[o] - mark + MaxStale)
    <2>1. /\ heap'[o].lim = heap[o].lim /\ seen'[o] = seen[o]
          /\ cost(p) \in Nat /\ cost(p) = call[p].n * win
          /\ pot(o)' = pot(o) - cost(p)
      BY <1>7, ChargeEffect
    <2>2. /\ pc[p] = "commit" /\ call[p].ptr = o /\ clock' = clock
          /\ units'[o] = IF clock >= mark THEN units[o] + call[p].n
                         ELSE units[o]
      BY <1>7 DEF Charged
    <2>3. /\ call[p].n \in Nat /\ call[p].now \in Nat
          /\ clock - call[p].now <= MaxStale
          /\ call[p].now <= seen[o]
      BY <2>2, Working DEF Structure, Critical, Settled
    <2>4. CASE clock < mark
      BY <1>2, <1>3, <2>2, <2>4
    <2>5. CASE clock >= mark
      <3>1. req * (seen[o] - mark + MaxStale) \in Nat
        <4>1. seen[o] - mark + MaxStale \in Nat
          BY <1>2, <2>3, <2>5
        <4> QED
          BY <1>2, <4>1
      <3>2. units[o] = 0 \/ units[o] * win + pot(o) <= bound
        BY <1>3
      <3>3. pot(o) <= capacity(heap[o].lim)
        BY DEF Metered
      <3>4. units[o] * win + pot(o) <= bound
        <4>1. units[o] = 0 => units[o] * win = 0
          BY <1>2
        <4>2. CASE units[o] = 0
          BY <1>2, <3>1, <3>3, <4>1, <4>2
        <4> QED
          BY <3>2, <4>2
      <3>5. (units[o] + call[p].n) * win = units[o] * win + cost(p)
        BY <1>2, <2>1, <2>3
      <3>6. units[o] * win \in Int
        BY <1>2
      <3>7. (units[o] + call[p].n) * win + (pot(o) - cost(p)) <= bound
        BY <1>2, <2>1, <3>1, <3>4, <3>5, <3>6
      <3>8. ~ (clock' < mark)
        BY <1>2, <2>2, <2>5
      <3> QED
        BY <2>1, <2>2, <2>5, <3>7, <3>8
    <2> QED
      BY <1>2, <2>4, <2>5
  <1> QED
    BY <1>1, <1>4, <1>5, <1>6, <1>7

\* Everything the theorems below need.
Books == Structure /\ Settled /\ Checked /\ Metered /\ Accounted

\* No bucket has been used at the start.
LEMMA BooksInit == Init => Books
  <1> SUFFICES ASSUME Init PROVE Books
    OBVIOUS
  <1>1. Structure
    BY StructureInit
  <1>2. Settled /\ Checked
    BY DEF Init, BaseInit, Settled, Checked
  <1>3. ASSUME NEW o \in Objects
        PROVE  /\ heap[o].last = 0 /\ seen[o] = 0 /\ units[o] = 0 /\ clock = 0
               /\ pot(o) = 0 /\ capacity(heap[o].lim) \in Nat
    <2>1. /\ heap[o] = [tokens |-> 0, lim |-> DefaultLimit, last |-> 0]
          /\ seen[o] = 0 /\ units[o] = 0 /\ clock = 0
      BY DEF Init, BaseInit
    <2>2. capacity(heap[o].lim) \in Nat /\ heap[o].lim.req \in Nat
      BY <1>1, BucketNumbers DEF Structure
    <2>3. (0 - 0) * heap[o].lim.req = 0
      BY <2>2
    <2> QED
      BY <2>1, <2>2, <2>3 DEF pot
  <1> QED
    BY <1>1, <1>2, <1>3 DEF Books, Metered, Accounted

\* The books are kept.
LEMMA BooksInvariant == Spec => []Books
  <1>1. Books /\ [Next]_vars => Books'
    BY BaseStep, StepIsBaseStep, OwnTypesStep, SingleStep, DecisionStep,
       MeteredStep, AccountedStep DEF Books, Structure
  <1> QED
    BY <1>1, BooksInit, PTL DEF Spec

\* From any moment on, a bucket admits no more than its capacity and the
\* refill of the time gone by and of the age a reading may have, for any
\* limits and any number of goroutines, whatever the order in which they
\* reach the mutex (AllowN, AllowWithInfo).
THEOREM RateIsHeld == Spec => []RateBound
  <1>1. Books => RateBound
    <2> SUFFICES ASSUME Books, NEW o \in Objects, clock >= mark
                 PROVE  units[o] * heap[o].lim.win
                          <= capacity(heap[o].lim)
                             + heap[o].lim.req * (clock - mark + MaxStale)
      BY DEF RateBound
    <2>1. /\ clock \in Nat /\ mark \in Nat /\ MaxStale \in Nat
          /\ seen[o] \in Nat /\ units[o] \in Nat /\ pot(o) \in Int
          /\ heap[o].lim.req \in Nat /\ heap[o].lim.win \in Nat
          /\ capacity(heap[o].lim) \in Nat
      BY BucketNumbers, TimeAssumption
         DEF Books, Structure, BaseInv, BaseTypeOK, Time
    <2>2. seen[o] <= clock /\ 0 <= pot(o)
      BY DEF Books, Metered
    <2> DEFINE req == heap[o].lim.req
               late == (clock - seen[o]) * req
               early == req * (seen[o] - mark + MaxStale)
               span == req * (clock - mark + MaxStale)
    <2>3. late \in Nat /\ early \in Int /\ span \in Nat /\ span = early + late
      <3>1. clock - mark + MaxStale \in Nat /\ clock - seen[o] \in Nat
        BY <2>1, <2>2
      <3> QED
        BY <2>1, <3>1
    <2>4. CASE units[o] = 0
      <3>1. units[o] * heap[o].lim.win = 0
        BY <2>1, <2>4
      <3> QED
        BY <2>1, <2>3, <3>1
    <2>5. CASE units[o] * heap[o].lim.win + pot(o)
                 <= capacity(heap[o].lim) + early
      <3>1. units[o] * heap[o].lim.win \in Int
        BY <2>1
      <3> HIDE DEF late, early, span
      <3>2. units[o] * heap[o].lim.win <= capacity(heap[o].lim) + span
        BY <2>1, <2>2, <2>3, <2>5, <3>1
      <3> QED
        BY <3>2 DEF span
    <2> QED
      BY <2>4, <2>5 DEF Books, Accounted
  <1> QED
    BY <1>1, BooksInvariant, PTL

----------------------------------------------------------------------------

(* The debt. *)

\* No bucket is further behind the latest reading it was used with than a
\* call may be late.
Abreast == \A o \in Objects : seen[o] - heap[o].last <= MaxStale

LEMMA AbreastStep ==
    Structure /\ Metered /\ Abreast /\ [Next]_vars => Abreast'
  <1> SUFFICES ASSUME Structure, Metered, Abreast, [Next]_vars,
                      NEW o \in Objects
               PROVE  seen'[o] - heap'[o].last <= MaxStale
    BY DEF Abreast
  <1>1. \/ Kept(o)
        \/ \E p \in Procs : Opened(o, p) \/ Refueled(o, p) \/ Charged(o, p)
    BY BucketCases
  <1>2. MaxStale \in Nat /\ seen[o] - heap[o].last <= MaxStale
    BY TimeAssumption DEF Abreast
  <1>3. CASE Kept(o)
    BY <1>2, <1>3 DEF Kept
  <1>4. ASSUME NEW p \in Procs, Opened(o, p)
        PROVE  seen'[o] - heap'[o].last <= MaxStale
    BY <1>2, <1>4, TimeAssumption DEF Opened, Call, Time
  <1>5. ASSUME NEW p \in Procs, Refueled(o, p)
        PROVE  seen'[o] - heap'[o].last <= MaxStale
    <2>1. /\ call[p].now \in Nat /\ clock \in Nat
          /\ clock - call[p].now <= MaxStale
      BY <1>5, Working DEF Refueled, Structure, Critical
    <2>2. heap'[o].last = call[p].now
      BY <1>5 DEF Refueled
    <2>3. seen'[o] \in {seen[o], call[p].now} /\ seen[o] \in Nat
      BY <1>5, BucketNumbers DEF Refueled, Structure
    <2>4. seen'[o] <= clock
      BY <1>5, RefuelEffect
    <2> QED
      BY <1>2, <2>1, <2>2, <2>3, <2>4
  <1>6. ASSUME NEW p \in Procs, Charged(o, p)
        PROVE  seen'[o] - heap'[o].last <= MaxStale
    BY <1>2, <1>6 DEF Charged
  <1> QED
    BY <1>1, <1>3, <1>4, <1>5, <1>6

\* A bucket owes no more than what the refill brings in the time a reading
\* may be late: its potential is never negative, and the refill time is at
\* most that far behind the latest reading.
THEOREM DebtIsBounded == Spec => []DebtBound
  <1>1. Init => Abreast
    BY TimeAssumption DEF Init, Abreast
  <1>2. Books /\ Abreast /\ [Next]_vars => Abreast'
    BY AbreastStep DEF Books
  <1>3. Books /\ Abreast => DebtBound
    <2> SUFFICES ASSUME Books, Abreast, NEW o \in Objects
                 PROVE  heap[o].tokens + MaxStale * heap[o].lim.req >= 0
      BY DEF DebtBound
    <2> DEFINE late == seen[o] - heap[o].last
               req == heap[o].lim.req
    <2>1. /\ heap[o].tokens \in Int /\ late \in Int /\ req \in Nat
          /\ MaxStale \in Nat
      BY BucketNumbers, TimeAssumption DEF Books, Structure
    <2>2. late <= MaxStale /\ 0 <= heap[o].tokens + late * req
      BY DEF Abreast, Books, Metered, pot
    <2> HIDE DEF late, req
    <2>3. late * req <= MaxStale * req
      BY <2>1, <2>2
    <2>4. late * req \in Int /\ MaxStale * req \in Int
      BY <2>1
    <2>5. heap[o].tokens + MaxStale * req >= 0
      BY <2>1, <2>2, <2>3, <2>4
    <2> QED
      BY <2>5 DEF req
  <1> QED
    BY <1>1, <1>2, <1>3, BooksInvariant, PTL DEF Spec

----------------------------------------------------------------------------

(* The promise of RetryAfter. *)

\* What a bucket will hold at tick t, if nobody is served until then.
due(o, t) ==
    IF t > seen[o] THEN pot(o) + (t - seen[o]) * heap[o].lim.req ELSE pot(o)

\* While a RetryAfter stands, the bucket of the key will hold a token in the
\* first tick after it, or holds one already.
Promised ==
    \A k \in Keys : advice[k] # NoAdvice =>
        /\ table[k] \in Objects
        /\ due(table[k], advice[k] + 1) >= heap[table[k]].lim.win

\* A refill does not take back what was promised.
LEMMA RefillKeepsPromise ==
    ASSUME Books, NEW o \in Objects, NEW p \in Procs, Refueled(o, p),
           NEW t \in Nat, due(o, t) >= heap[o].lim.win
    PROVE  due(o, t)' >= heap'[o].lim.win
  <1>1. /\ seen[o] \in Nat /\ pot(o) \in Int
        /\ heap[o].lim.req \in Nat /\ heap[o].lim.win \in Nat
        /\ capacity(heap[o].lim) \in Nat
        /\ capacity(heap[o].lim) >= heap[o].lim.win
    BY BucketNumbers DEF Books, Structure
  <1>2. call[p].now \in Nat
    BY Working DEF Refueled, Books, Structure, Critical
  <1>3. heap'[o].lim = heap[o].lim
    BY DEF Refueled
  <1>4. CASE seen'[o] = seen[o] /\ pot(o)' = pot(o)
    <2>1. due(o, t)' = due(o, t)
      BY <1>3, <1>4 DEF due
    <2> QED
      BY <1>3, <2>1
  <1>5. CASE call[p].now > seen[o]
    <2> DEFINE req == heap[o].lim.req
               win == heap[o].lim.win
               brought == (call[p].now - seen[o]) * req
               coming == (t - call[p].now) * req
               all == (t - seen[o]) * req
    <2>1. /\ seen'[o] = call[p].now /\ brought \in Nat
          /\ pot(o)' = Capped(heap[o].lim, pot(o) + brought)
      BY <1>1, <1>2, <1>5, RefuelEffect DEF Books, Refueled
    <2>2. all = brought + coming /\ all \in Int /\ coming \in Int
      BY <1>1, <1>2
    <2>3. due(o, t)' = IF t > call[p].now THEN pot(o)' + coming ELSE pot(o)'
      BY <1>3, <2>1 DEF due
    <2>4. due(o, t) = IF t > seen[o] THEN pot(o) + all ELSE pot(o)
      BY DEF due
    <2>5. t > call[p].now => coming >= 0
      BY <1>1, <1>2
    <2>6. t <= call[p].now => coming <= 0
      BY <1>1, <1>2
    <2> HIDE DEF brought, coming, all
    <2>7. pot(o)' = capacity(heap[o].lim) \/ pot(o)' = pot(o) + brought
      BY <2>1 DEF Capped
    <2>8. CASE pot(o)' = capacity(heap[o].lim)
      BY <1>1, <1>3, <2>2, <2>3, <2>5, <2>8
    <2>9. CASE pot(o)' = pot(o) + brought
      BY <1>1, <1>2, <1>3, <1>5, <2>1, <2>2, <2>3, <2>4, <2>5, <2>6, <2>9
    <2> QED
      BY <2>7, <2>8, <2>9
  <1> QED
    BY <1>4, <1>5, RefuelEffect DEF Books

\* One tick more than the truncated quotient is enough.
LEMMA WaitCovers ==
    \A x \in Nat, y \in Nat :
        y > 0 => x \div y \in Nat /\ (x \div y + 1) * y >= x
  OBVIOUS

\* A denied single request names a moment after which there is a token.
LEMMA DenialPromises ==
    ASSUME Books, NEW p \in Procs, Deny(p), call[p].n = 1
    PROVE  due(call[p].ptr, RetryAt(p) + 1) >= bucket(p).lim.win
  <1> DEFINE o == call[p].ptr
             req == bucket(p).lim.req
             win == bucket(p).lim.win
             lack == win - bucket(p).tokens
             wait == lack \div req
             t == clock + wait + 1
  <1>1. pc[p] = "check" /\ ~Enough(p)
    BY DEF Deny, Return, Goto
  <1>2. /\ o \in Objects /\ bucket(p).last <= seen[o] /\ seen[o] <= clock
        /\ bucket(p) = heap[o]
    BY <1>1, Working DEF Books, Structure, Metered, Critical, bucket
  <1>3. /\ bucket(p).tokens \in Int /\ bucket(p).last \in Nat
        /\ seen[o] \in Nat /\ clock \in Nat
        /\ req \in Nat /\ req > 0 /\ win \in Nat
    BY <1>2, BucketNumbers, TimeAssumption
       DEF Books, Structure, BaseInv, BaseTypeOK, Time
  <1>4. lack \in Nat
    BY <1>1, <1>3 DEF Enough, cost
  <1>5. wait \in Nat /\ (wait + 1) * req >= lack
    <2> HIDE DEF lack, req
    <2> QED
      BY <1>3, <1>4, WaitCovers
  <1>6. RetryAt(p) + 1 = t
    BY DEF RetryAt
  <1> HIDE DEF wait
  <1>7. due(o, t) = pot(o) + (t - seen[o]) * req
    BY <1>2, <1>3, <1>5 DEF due
  <1>8. pot(o) = bucket(p).tokens + (seen[o] - bucket(p).last) * req
    BY <1>2 DEF pot
  <1>9. (seen[o] - bucket(p).last) * req + (t - seen[o]) * req
          = (clock - bucket(p).last) * req + (wait + 1) * req
    <2> HIDE DEF req
    <2> QED
      BY <1>3, <1>5
  <1>10. (clock - bucket(p).last) * req \in Nat
    <2>1. clock - bucket(p).last \in Nat
      BY <1>2, <1>3
    <2> QED
      BY <1>3, <2>1
  <1>11. due(o, t) = bucket(p).tokens + (clock - bucket(p).last) * req
                       + (wait + 1) * req
    <2> DEFINE x == (seen[o] - bucket(p).last) * req
               y == (t - seen[o]) * req
               z == (clock - bucket(p).last) * req
               u == (wait + 1) * req
    <2>1. x \in Int /\ y \in Int /\ z \in Int /\ u \in Int
      <3> HIDE DEF req
      <3> QED
        BY <1>3, <1>5
    <2> HIDE DEF x, y, z, u
    <2>2. due(o, t) = bucket(p).tokens + x + y /\ x + y = z + u
      BY <1>7, <1>8, <1>9 DEF x, y, z, u
    <2>3. due(o, t) = bucket(p).tokens + z + u
      BY <1>3, <2>1, <2>2
    <2> QED
      BY <2>3 DEF z, u
  <1>12. (wait + 1) * req \in Int
    BY <1>3, <1>5
  <1>13. due(o, t) >= win
    BY <1>3, <1>5, <1>10, <1>11, <1>12
  <1> QED
    BY <1>6, <1>13

\* Every step keeps what a denial has told true until somebody is served.
LEMMA PromisedStep == Books /\ Promised /\ [Next]_vars => Promised'
  <1> SUFFICES ASSUME Books, Promised, [Next]_vars PROVE Promised'
    OBVIOUS
  <1>t. advice \in [Keys -> Nat \cup {NoAdvice}]
    BY DEF Books, Structure, OwnTypes
  \* Keys whose advice, entry and bucket stay.
  <1>1. ASSUME NEW k \in Keys, advice[k] # NoAdvice, advice'[k] = advice[k],
               table'[k] = table[k], heap'[table[k]] = heap[table[k]],
               seen'[table[k]] = seen[table[k]]
        PROVE  /\ table'[k] \in Objects
               /\ due(table[k], advice[k] + 1)' >= heap'[table'[k]].lim.win
    BY <1>1 DEF Promised, due, pot
  <1>2. ASSUME UNCHANGED <<heap, seen>>,
               \A k \in Keys : advice'[k] # NoAdvice =>
                   advice'[k] = advice[k] /\ table'[k] = table[k]
        PROVE  Promised'
    BY <1>1, <1>2 DEF Promised
  <1>3. ASSUME NEW p \in Procs, Prepare(p) \/ Pass(p) PROVE Promised'
    BY <1>2, <1>3
       DEF Prepare, Approach, Begin, BeginAllowN, BeginAllowWithInfo, Enter,
           ReadClock, LoadFound, Lock, Pass, Within, history
  <1>4. ASSUME NEW p \in Procs, NEW o \in Fresh, Create(p, o) PROVE Promised'
    <2>1. /\ o \in Objects /\ \A k \in Keys : table[k] # o
          /\ table[call[p].key] = NoObject
          /\ table' = [table EXCEPT ![call[p].key] = o]
          /\ heap' = [heap EXCEPT ![o] = FullBucket(p)]
          /\ seen' = [seen EXCEPT ![o] = call[p].now]
          /\ advice' = advice
      BY <1>4 DEF Create, StoreNew, Fresh, Mapped
    <2>2. ASSUME NEW k \in Keys, advice[k] # NoAdvice
          PROVE  /\ table'[k] = table[k]
                 /\ heap'[table[k]] = heap[table[k]]
                 /\ seen'[table[k]] = seen[table[k]]
      <3>1. table[k] \in Objects
        BY <2>2 DEF Promised
      <3> QED
        BY <2>1, <3>1, NullAssumption
           DEF Books, Structure, BaseInv, BaseTypeOK, OwnTypes
    <2> QED
      BY <1>1, <2>1, <2>2 DEF Promised
  <1>5. ASSUME NEW p \in Procs, Refill(p) PROVE Promised'
    <2>1. UNCHANGED <<table, advice>>
      BY <1>5 DEF Refill, Within
    <2>2. ASSUME NEW k \in Keys, advice[k] # NoAdvice
          PROVE  /\ table'[k] \in Objects
                 /\ due(table[k], advice[k] + 1)' >= heap'[table'[k]].lim.win
      <3> DEFINE o == table[k]
      <3>1. /\ o \in Objects /\ advice[k] + 1 \in Nat
            /\ due(o, advice[k] + 1) >= heap[o].lim.win
        BY <2>2, <1>t DEF Promised
      <3>2. Kept(o) \/ Refueled(o, p)
        <4>1. Rewritten(p, Refilled(p), call[p].now)
          BY <1>5, RefillWrites DEF Books, Structure
        <4>2. /\ pc[p] = "update" /\ UNCHANGED <<units, clock>>
              /\ seen' = [seen EXCEPT ![call[p].ptr] =
                              IF call[p].now > @ THEN call[p].now ELSE @]
          BY <1>5 DEF Refill, Within, Goto
        <4> QED
          BY <3>1, <4>1, <4>2
             DEF Kept, Refueled, Rewritten, bucket, Books, Structure, OwnTypes
      <3>3. CASE Kept(o)
        BY <1>1, <2>1, <2>2, <3>3 DEF Kept
      <3>4. CASE Refueled(o, p)
        BY <2>1, <3>1, <3>4, RefillKeepsPromise
      <3> QED
        BY <3>2, <3>3, <3>4
    <2> QED
      BY <2>1, <2>2 DEF Promised
  <1>6. ASSUME NEW p \in Procs, Deny(p) PROVE Promised'
    <2>1. /\ UNCHANGED <<heap, seen, table>> /\ advice' = Advised(p)
          /\ pc[p] = "check"
      BY <1>6 DEF Deny, Return, Goto
    <2>2. call[p].ptr \in Objects
      BY <2>1, Working DEF Books, Structure, Critical
    <2>3. ASSUME NEW k \in Keys, advice'[k] # NoAdvice
          PROVE  /\ table[k] \in Objects
                 /\ due(table[k], advice'[k] + 1) >= heap[table[k]].lim.win
      <3>1. CASE advice'[k] = advice[k]
        BY <2>3, <3>1 DEF Promised
      <3>2. CASE advice'[k] # advice[k]
        <4>1. /\ k = call[p].key /\ table[k] = call[p].ptr
              /\ advice'[k] = RetryAt(p) /\ call[p].info
          BY <2>1, <1>t, <3>2 DEF Advised
        <4>2. call[p].n = 1
          BY <2>1, <4>1 DEF Books, Structure, Single
        <4> QED
          BY <1>6, <2>2, <4>1, <4>2, DenialPromises DEF bucket
      <3> QED
        BY <3>1, <3>2
    <2>4. \A k \in Keys : due(table[k], advice'[k] + 1)
                             = due(table[k], advice[k] + 1)'
      BY <2>1 DEF due, pot
    <2> QED
      BY <2>1, <2>3, <2>4 DEF Promised
  <1>7. ASSUME NEW p \in Procs, Consume(p) PROVE Promised'
    <2>1. /\ pc[p] = "commit" /\ UNCHANGED <<table, seen>>
          /\ advice' = [advice EXCEPT ![call[p].key] = NoAdvice]
      BY <1>7 DEF Consume, Return, Goto
    <2>2. \A o \in Objects : o # call[p].ptr => heap'[o] = heap[o]
      BY <1>7, ConsumeWrites DEF Rewritten, Books, Structure
    <2>3. ASSUME NEW k \in Keys, advice'[k] # NoAdvice
          PROVE  advice'[k] = advice[k] /\ heap'[table[k]] = heap[table[k]]
      <3>1. k # call[p].key /\ advice'[k] = advice[k]
        BY <2>1, <2>3, <1>t
      <3>2. table[k] # call[p].ptr
        BY <2>1, <3>1
           DEF Books, Structure, BaseInv, CallsApart, AfterLoad, Critical
      <3>3. table[k] \in Objects
        BY <2>3, <3>1 DEF Promised
      <3> QED
        BY <2>2, <3>1, <3>2, <3>3
    <2> QED
      BY <1>1, <2>1, <2>3 DEF Promised
  <1>8. CASE Admin
    <2>1. /\ UNCHANGED <<heap, seen>>
          /\ \A k \in Keys : advice'[k] # NoAdvice =>
                advice'[k] = advice[k] /\ table'[k] = table[k]
      BY <1>8, <1>t
         DEF Books, Structure, BaseInv, BaseTypeOK, Admin, Reset, Delete,
             SetLimitStore, SetLimitDelete, StoreLimit, Close, CloseBegin,
             CloseObject, CloseLimit, Void, history
    <2> QED
      BY <1>2, <2>1
  <1>9. CASE PassTime \/ UNCHANGED vars
    BY <1>2, <1>9 DEF PassTime, Tick, vars, base, history
  <1> QED
    BY <1>3, <1>4, <1>5, <1>6, <1>7, <1>8, <1>9 DEF Next, Step

\* RetryAfter of AllowWithInfo is honest for all limits and any number of
\* goroutines, although it is truncated: a single request that reads the
\* clock after it, with nobody served since, is denied only if a call with a
\* later reading has been there before.
THEOREM RetryAfterIsHonest == Spec => RetryPromise
  <1>1. Init => Promised
    BY DEF Init, BaseInit, Promised
  <1>2. Books /\ Promised /\ [Next]_vars =>
          [\A p \in Procs :
             Deny(p) => ~ /\ call[p].ptr = table[call[p].key]
                          /\ call[p].n = 1
                          /\ advice[call[p].key] # NoAdvice
                          /\ call[p].now > advice[call[p].key]
                          /\ call[p].now >= seen[call[p].ptr]]_vars
    <2> SUFFICES ASSUME Books, Promised, NEW p \in Procs, Deny(p),
                        call[p].ptr = table[call[p].key], call[p].n = 1,
                        advice[call[p].key] # NoAdvice,
                        call[p].now > advice[call[p].key],
                        call[p].now >= seen[call[p].ptr]
                 PROVE  FALSE
      OBVIOUS
    <2> DEFINE o == call[p].ptr
               k == call[p].key
    <2>1. pc[p] = "check" /\ ~Enough(p)
      BY DEF Deny, Return, Goto
    <2>2. /\ o \in Objects /\ k \in Keys /\ call[p].now \in Nat
          /\ bucket(p) = heap[o]
      BY <2>1, Working DEF Books, Structure, Critical, bucket
    <2>3. /\ heap[o].tokens \in Int /\ heap[o].last \in Nat
          /\ seen[o] \in Nat /\ heap[o].lim.req \in Nat
          /\ heap[o].lim.win \in Nat
          /\ advice[k] \in Nat
      BY <2>2, BucketNumbers DEF Books, Structure, OwnTypes
    <2>4. heap[o].last = call[p].now /\ seen[o] = call[p].now
      BY <2>1, <2>2, <2>3 DEF Books, Settled
    <2>5. ~ (advice[k] + 1 > seen[o])
      BY <2>2, <2>3, <2>4
    <2>6. pot(o) >= heap[o].lim.win
      BY <2>2, <2>5 DEF Promised, due
    <2>7. (seen[o] - heap[o].last) * heap[o].lim.req = 0
      BY <2>2, <2>3, <2>4
    <2>8. heap[o].tokens >= heap[o].lim.win
      BY <2>3, <2>6, <2>7 DEF pot
    <2> QED
      BY <2>1, <2>2, <2>3, <2>8 DEF Enough, cost
  <1> QED
    BY <1>1, <1>2, BooksInvariant, PromisedStep, PTL DEF Spec, RetryPromise

----------------------------------------------------------------------------

(* The refinement of TokenAccount. *)

\* The account of a bucket.
Entry(o) == [credit |-> pot(o), lim |-> heap[o].lim, asOf |-> seen[o]]

\* The refinement mapping in terms of the potential.
LEMMA AccountIsEntry ==
    accountOf = [k \in Keys |-> IF table[k] = NoObject THEN NoObject
                                ELSE Entry(table[k])]
  BY DEF accountOf, Entry, pot

\* The account of a mapped bucket is open, and of an unmapped one closed.
LEMMA EntryNumbers ==
    ASSUME Structure, NEW k \in Keys
    PROVE  /\ accountOf[k] = NoObject <=> table[k] = NoObject
           /\ table[k] # NoObject =>
                 /\ table[k] \in Objects
                 /\ accountOf[k] = Entry(table[k])
  <1>1. CASE table[k] = NoObject
    BY <1>1, AccountIsEntry
  <1>2. CASE table[k] # NoObject
    <2>1. table[k] \in Objects
      BY <1>2 DEF Structure, BaseInv, BaseTypeOK
    <2>2. Entry(table[k]) \in [credit : Int, lim : Limits, asOf : Int]
      BY <2>1, BucketNumbers DEF Entry, Structure
    <2> QED
      BY <1>2, <2>1, <2>2, AccountIsEntry, ObjectAssumption
  <1> QED
    BY <1>1, <1>2

\* A change of one bucket changes the account of its key alone.
LEMMA OneEntryChanges ==
    ASSUME Structure, NEW k \in Keys, NEW o \in Objects, table' = table,
           \A j \in Keys : table[j] = o => j = k,
           \A x \in Objects : x # o => Entry(x)' = Entry(x)
    PROVE  /\ table[k] = o => accountOf' = [accountOf EXCEPT ![k] = Entry(o)']
           /\ table[k] # o => accountOf' = accountOf
  <1> DEFINE new == Entry(o)'
             old(j) == IF table[j] = NoObject THEN NoObject ELSE Entry(table[j])
             next(j) == IF table[j] = NoObject THEN NoObject
                        ELSE Entry(table[j])'
  <1>1. accountOf = [j \in Keys |-> old(j)] /\ accountOf' = [j \in Keys |-> next(j)]
    BY DEF accountOf, Entry, pot
  <1>2. ASSUME NEW j \in Keys, table[j] # o PROVE next(j) = old(j)
    <2>1. CASE table[j] = NoObject
      BY <2>1
    <2>2. CASE table[j] \in Objects
      BY <1>2, <2>2 DEF Entry, pot
    <2> QED
      BY <2>1, <2>2 DEF Structure, BaseInv, BaseTypeOK
  <1>3. ASSUME NEW j \in Keys, table[j] = o PROVE next(j) = new
    <2>1. table[j] # NoObject
      BY <1>3, NullAssumption
    <2> QED
      BY <1>3, <2>1 DEF Entry, pot
  <1> HIDE DEF new, old, next
  <1>4. CASE table[k] = o
    <2>1. \A j \in Keys : next(j) = IF j = k THEN new ELSE old(j)
      BY <1>2, <1>3, <1>4
    <2>2. accountOf' = [accountOf EXCEPT ![k] = new]
      BY <1>1, <2>1
    <2> QED
      BY <1>4, <2>2 DEF new
  <1>5. CASE table[k] # o
    <2>1. \A j \in Keys : next(j) = old(j)
      BY <1>2, <1>5
    <2> QED
      BY <1>1, <1>5, <2>1
  <1> QED
    BY <1>4, <1>5

\* Every step opens, accrues, spends from or drops one account, or changes
\* no account: a refill with a late reading is no step of TokenAccount.
LEMMA RefinementStep ==
    Books /\ [Next]_vars => [Account!AccountNext]_accountOf
  <1> SUFFICES ASSUME Books, [Next]_vars
               PROVE  Account!AccountNext \/ UNCHANGED accountOf
    OBVIOUS
  <1> USE DEF Books
  <1>c. \A k \in Keys : \A q \in Procs :
           pc[q] \in AfterLoad /\ table[k] = call[q].ptr => call[q].key = k
    BY DEF Structure, BaseInv, CallsApart
  <1>1. ASSUME UNCHANGED <<heap, seen, table>> PROVE UNCHANGED accountOf
    BY <1>1 DEF accountOf
  <1>2. ASSUME NEW p \in Procs, Prepare(p) \/ Pass(p) \/ Deny(p)
        PROVE  UNCHANGED accountOf
    BY <1>1, <1>2
       DEF Prepare, Approach, Begin, BeginAllowN, BeginAllowWithInfo, Enter,
           ReadClock, LoadFound, Lock, Pass, Within, Deny, Return, history
  <1>3. ASSUME NEW p \in Procs, NEW o \in Fresh, Create(p, o)
        PROVE  Account!AccountNext
    <2> DEFINE k == call[p].key
               l == call[p].lim
               t == call[p].now
    <2>1. /\ pc[p] = "load" /\ o \in Objects /\ \A j \in Keys : table[j] # o
          /\ table[k] = NoObject
          /\ table' = [table EXCEPT ![k] = o]
          /\ heap' = [heap EXCEPT ![o] = FullBucket(p)]
          /\ seen' = [seen EXCEPT ![o] = t]
      BY <1>3 DEF Create, StoreNew, Goto, Fresh, Mapped
    <2>2. /\ k \in Keys /\ l \in Limits /\ t \in Time /\ t \in Nat
          /\ capacity(l) \in Nat /\ l.req \in Nat
      BY <2>1, CapacityNumbers, TimeAssumption
         DEF Structure, BaseInv, Shaped, Call, Time
    <2> HIDE DEF k, l, t
    <2> DEFINE opened == [credit |-> capacity(l), lim |-> l, asOf |-> t]
               old(j) == IF table[j] = NoObject THEN NoObject
                         ELSE Entry(table[j])
               next(j) == IF table'[j] = NoObject THEN NoObject
                          ELSE [credit |-> heap'[table'[j]].tokens
                                  + (seen'[table'[j]] - heap'[table'[j]].last)
                                      * heap'[table'[j]].lim.req,
                                lim |-> heap'[table'[j]].lim,
                                asOf |-> seen'[table'[j]]]
    <2>3. /\ accountOf = [j \in Keys |-> old(j)]
          /\ accountOf' = [j \in Keys |-> next(j)]
      BY DEF accountOf, Entry, pot
    <2>4. next(k) = opened
      <3>1. /\ table'[k] = o /\ o # NoObject /\ seen'[o] = t
            /\ heap'[o].tokens = capacity(l) /\ heap'[o].lim = l
            /\ heap'[o].last = t
        BY <2>1, <2>2, NullAssumption
           DEF Structure, BaseInv, BaseTypeOK, OwnTypes, FullBucket, l, t
      <3>2. capacity(l) + (t - t) * l.req = capacity(l)
        BY <2>2
      <3> QED
        BY <3>1, <3>2
    <2>5. ASSUME NEW j \in Keys, j # k PROVE next(j) = old(j)
      <3>1. table'[j] = table[j] /\ table[j] # o
        BY <2>1, <2>5 DEF Structure, BaseInv, BaseTypeOK
      <3>2. CASE table[j] = NoObject
        BY <3>1, <3>2
      <3>3. CASE table[j] \in Objects
        <4>1. heap'[table[j]] = heap[table[j]] /\ seen'[table[j]] = seen[table[j]]
          BY <2>1, <3>1, <3>3 DEF Structure, OwnTypes
        <4> QED
          BY <3>1, <4>1 DEF Entry, pot
      <3> QED
        BY <3>2, <3>3 DEF Structure, BaseInv, BaseTypeOK
    <2>6. old(k) = NoObject
      BY <2>1
    <2> HIDE DEF opened, old, next
    <2>7. /\ accountOf[k] = NoObject
          /\ accountOf' = [accountOf EXCEPT ![k] = opened]
      BY <2>2, <2>3, <2>4, <2>5, <2>6
    <2>8. Account!Open(k, l, t)
      BY <2>7 DEF Account!Open, Account!Full, capacity, opened
    <2> QED
      BY <2>2, <2>8 DEF Account!AccountNext
  <1>4. ASSUME NEW p \in Procs, Refill(p)
        PROVE  Account!AccountNext \/ UNCHANGED accountOf
    <2>0. PICK o \in Objects, k \in Keys, t \in Time :
             call[p].ptr = o /\ call[p].key = k /\ call[p].now = t
      BY <1>4, Working DEF Refill, Within, Goto, Structure, Critical, Call
    <2>1. /\ pc[p] = "update" /\ UNCHANGED <<table, clock, units>>
          /\ seen' = [seen EXCEPT ![o] = IF t > @ THEN t ELSE @]
      BY <1>4, <2>0 DEF Refill, Within, Goto
    <2>2. t \in Nat /\ \A j \in Keys : table[j] = o => j = k
      BY <2>0, <2>1, <1>c, TimeAssumption DEF Critical, AfterLoad, Time
    <2>3. Rewritten(p, Refilled(p), t)
      BY <1>4, <2>0, RefillWrites DEF Structure
    <2>4. Refueled(o, p)
      BY <2>0, <2>1, <2>3 DEF Refueled, Rewritten, bucket, Structure, OwnTypes
    <2>5. \A x \in Objects : x # o => Entry(x)' = Entry(x)
      BY <2>0, <2>1, <2>3 DEF Rewritten, Entry, pot, Structure, OwnTypes
    <2>6. /\ table[k] = o => accountOf' = [accountOf EXCEPT ![k] = Entry(o)']
          /\ table[k] # o => accountOf' = accountOf
      BY <2>1, <2>2, <2>5, OneEntryChanges
    <2>7. CASE table[k] # o
      BY <2>6, <2>7
    <2>8. CASE table[k] = o
      <3>1. accountOf[k] = Entry(o) /\ accountOf[k] # NoObject
        BY <2>2, <2>8, EntryNumbers, NullAssumption
      <3>2. CASE seen'[o] = seen[o] /\ pot(o)' = pot(o)
        <4>1. Entry(o)' = Entry(o)
          BY <2>4, <3>2 DEF Entry, Refueled
        <4>2. accountOf' = [accountOf EXCEPT ![k] = accountOf[k]]
          BY <2>6, <2>8, <3>1, <4>1
        <4>3. accountOf = [accountOf EXCEPT ![k] = accountOf[k]]
          BY DEF accountOf
        <4> QED
          BY <4>2, <4>3
      <3>3. CASE t > seen[o]
        <4> DEFINE brought == (t - seen[o]) * heap[o].lim.req
        <4>1. /\ seen'[o] = t /\ heap'[o].lim = heap[o].lim
              /\ pot(o)' = Capped(heap[o].lim, pot(o) + brought)
          <5>1. seen[o] \in Nat
            BY <2>2, BucketNumbers DEF Structure
          <5> QED
            BY <2>0, <2>2, <2>4, <3>3, <5>1, RefuelEffect
        <4>2. Entry(o)' = [credit |-> Capped(heap[o].lim, pot(o) + brought),
                           lim |-> heap[o].lim, asOf |-> t]
          BY <4>1 DEF Entry
        <4>3. /\ accountOf[k].credit = pot(o)
              /\ accountOf[k].lim = heap[o].lim
              /\ accountOf[k].asOf = seen[o]
          BY <3>1 DEF Entry
        <4>4. Account!Accrue(k, t)
          BY <2>6, <2>8, <3>1, <3>3, <4>2, <4>3
             DEF Account!Accrue, Account!Full, Capped, capacity
        <4> QED
          BY <2>2, <4>4 DEF Account!AccountNext
      <3> QED
        BY <2>0, <2>2, <2>4, <3>2, <3>3, RefuelEffect
    <2> QED
      BY <2>7, <2>8
  <1>5. ASSUME NEW p \in Procs, Consume(p)
        PROVE  Account!AccountNext \/ UNCHANGED accountOf
    <2>0. PICK o \in Objects, k \in Keys, n \in Amounts :
             call[p].ptr = o /\ call[p].key = k /\ call[p].n = n
      BY <1>5, Working DEF Consume, Return, Goto, Structure, Critical, Call
    <2>1. /\ pc[p] = "commit" /\ UNCHANGED <<table, clock, seen>>
          /\ units' = IF clock >= mark THEN [units EXCEPT ![o] = @ + n] ELSE units
      BY <1>5, <2>0 DEF Consume, Return, Goto
    <2>2. \A j \in Keys : table[j] = o => j = k
      BY <2>0, <2>1, <1>c DEF Critical, AfterLoad
    <2>3. Rewritten(p, bucket(p).tokens - cost(p), bucket(p).last)
      BY <1>5, ConsumeWrites DEF Structure
    <2>4. Charged(o, p)
      BY <2>0, <2>1, <2>3 DEF Charged, Rewritten, bucket, Structure, OwnTypes
    <2>5. \A x \in Objects : x # o => Entry(x)' = Entry(x)
      BY <2>0, <2>1, <2>3 DEF Rewritten, Entry, pot, Structure, OwnTypes
    <2>6. /\ table[k] = o => accountOf' = [accountOf EXCEPT ![k] = Entry(o)']
          /\ table[k] # o => accountOf' = accountOf
      BY <2>1, <2>2, <2>5, OneEntryChanges
    <2>7. CASE table[k] # o
      BY <2>6, <2>7
    <2>8. CASE table[k] = o
      <3>1. accountOf[k] = Entry(o) /\ accountOf[k] # NoObject
        BY <2>2, <2>8, EntryNumbers, NullAssumption
      <3>2. /\ heap'[o].lim = heap[o].lim /\ seen'[o] = seen[o]
            /\ cost(p) = n * heap[o].lim.win /\ cost(p) <= pot(o)
            /\ pot(o)' = pot(o) - cost(p)
            /\ cost(p) \in Int /\ pot(o) \in Int
        BY <2>0, <2>2, <2>4, ChargeEffect, BucketNumbers DEF Structure
      <3>3. Entry(o)' = [credit |-> pot(o) - n * heap[o].lim.win,
                         lim |-> heap[o].lim, asOf |-> seen[o]]
        BY <3>2 DEF Entry
      <3>4. /\ accountOf[k].credit = pot(o)
            /\ accountOf[k].lim = heap[o].lim
            /\ accountOf[k].asOf = seen[o]
        BY <3>1 DEF Entry
      <3>5. pot(o) >= n * heap[o].lim.win
        BY <3>2
      <3>6. Account!Spend(k, n)
        BY <2>6, <2>8, <3>1, <3>3, <3>4, <3>5 DEF Account!Spend
      <3> QED
        BY <2>2, <3>6 DEF Account!AccountNext
    <2> QED
      BY <2>7, <2>8
  <1>6. ASSUME NEW k \in Keys, table' = [table EXCEPT ![k] = NoObject],
               UNCHANGED <<heap, seen>>
        PROVE  Account!AccountNext
    <2>1. Account!Drop(k)
      BY <1>6 DEF Account!Drop, accountOf, Structure, BaseInv, BaseTypeOK
    <2> QED
      BY <2>1 DEF Account!AccountNext
  <1>7. CASE Admin
    BY <1>1, <1>6, <1>7
       DEF Admin, Reset, SetLimitStore, SetLimitDelete, Delete, StoreLimit,
           Close, CloseBegin, CloseObject, CloseLimit, history
  <1>8. CASE PassTime \/ UNCHANGED vars
    BY <1>1, <1>8 DEF PassTime, Tick, vars, base, history
  <1> QED
    BY <1>2, <1>3, <1>4, <1>5, <1>7, <1>8 DEF Next, Step

\* TokenBucketLimiter implements TokenAccount for every value of the
\* constants: although calls refill with readings in any order and take
\* tokens away with late ones, every tick is accrued exactly once.
THEOREM ImplementsAccount == Spec => AccruesOnce
  <1>1. Init => Account!AccountInit
    BY DEF Init, BaseInit, Account!AccountInit, accountOf
  <1> QED
    BY <1>1, BooksInvariant, RefinementStep, PTL
       DEF Spec, AccruesOnce, Account!AccountSpec
----------------------------------------------------------------------------
(* The bucket of a key whose limit was changed. *)

\* A call that has looked up its limit and may still store a bucket.
Opening(p, k) == pc[p] \in {"clock", "load"} /\ call[p].key = k

\* What SetLimit takes for granted when it deletes the bucket: no call can
\* store another one with the limit from before.
Calm ==
    \A k \in Keys : SetLimitDelete(k) =>
        \A p \in Procs : Opening(p, k) => call[p].lim = GetLimit(k)

CalmSpec == Init /\ [][Next /\ Calm]_vars

\* After SetLimit the key has no bucket but of its own limit, and no call
\* brings one.
AppliedIn(k) ==
    custom[k] # NoLimit /\ k \notin dropping =>
        /\ table[k] # NoObject => heap[table[k]].lim = custom[k]
        /\ \A p \in Procs : Opening(p, k) => call[p].lim = custom[k]

Applied == \A k \in Keys : AppliedIn(k)

LEMMA AppliedStep == Structure /\ Applied /\ [Next /\ Calm]_vars => Applied'
  <1> SUFFICES ASSUME Structure, Applied, [Next /\ Calm]_vars PROVE Applied'
    OBVIOUS
  <1>t. /\ BaseInv /\ OwnTypes
        /\ table \in [Keys -> Objects \cup {NoObject}] /\ NoObject \notin Objects
        /\ custom \in [Keys -> Limits \cup {NoLimit}]
        /\ pc \in [Procs -> PCs] /\ call \in [Procs -> Call \cup {NoCall}]
        /\ heap \in [Objects -> tokenBucket]
        /\ \A p \in Procs : pc[p] # "idle" => call[p] \in Call
    BY NullAssumption DEF Structure, BaseInv, BaseTypeOK, OwnTypes, Shaped
  \* No limit, no entry and no bucket's limit changes, and no call begins.
  <1>0. ASSUME UNCHANGED <<custom, dropping>>,
               \A k \in Keys : table'[k] \in {table[k], NoObject},
               \A o \in Objects : heap'[o].lim = heap[o].lim,
               \A p \in Procs, k \in Keys :
                  Opening(p, k)' => Opening(p, k) /\ call'[p].lim = call[p].lim
        PROVE  Applied'
    <2> SUFFICES ASSUME NEW k \in Keys PROVE AppliedIn(k)'
      BY DEF Applied
    <2>1. AppliedIn(k)
      BY DEF Applied
    <2>2. table'[k] # NoObject => table'[k] = table[k] /\ table[k] \in Objects
      BY <1>0, <1>t
    <2> QED
      BY <1>0, <2>1, <2>2 DEF AppliedIn
  <1>1. ASSUME NEW p \in Procs, Begin(p), UNCHANGED <<heap, dropping>>
        PROVE  Applied'
    <2>1. PICK j \in Keys, n \in CountArgs \cup {1}, info \in BOOLEAN :
               Enter(p, j, n, info)
      BY <1>1 DEF Begin, BeginAllowN, BeginAllowWithInfo
    <2>2. /\ UNCHANGED <<custom, dropping, table, heap>>
          /\ call'[p].key = j /\ call'[p].lim = GetLimit(j)
          /\ \A q \in Procs : q # p => pc'[q] = pc[q] /\ call'[q] = call[q]
      BY <1>1, <1>t, <2>1 DEF Enter, Goto
    <2>3. ASSUME NEW k \in Keys PROVE AppliedIn(k)'
      BY <2>2 DEF Applied, AppliedIn, Opening, GetLimit
    <2> QED
      BY <2>3 DEF Applied
  <1>2. ASSUME NEW p \in Procs, ReadClock(p), UNCHANGED <<heap, dropping>>
        PROVE  Applied'
    <2>1. /\ pc[p] = "clock" /\ pc' = [pc EXCEPT ![p] = "load"]
          /\ call' = [call EXCEPT ![p].now = clock]
          /\ UNCHANGED <<custom, table>>
      BY <1>2 DEF ReadClock, Goto
    <2>2. /\ call'[p].key = call[p].key /\ call'[p].lim = call[p].lim
          /\ \A q \in Procs : q # p => pc'[q] = pc[q] /\ call'[q] = call[q]
      BY <1>t, <2>1 DEF Call
    <2> QED
      BY <1>0, <1>2, <2>1, <2>2 DEF Opening
  \* A call that goes on has no bucket to open.
  <1>3. ASSUME NEW p \in Procs,
               pc'[p] \notin {"clock", "load"},
               \A q \in Procs : q # p => pc'[q] = pc[q] /\ call'[q] = call[q],
               UNCHANGED <<custom, dropping, table>>,
               \A o \in Objects : heap'[o].lim = heap[o].lim
        PROVE  Applied'
    BY <1>0, <1>3 DEF Opening
  <1>4. ASSUME NEW p \in Procs, LoadFound(p) \/ Lock(p), UNCHANGED <<heap, dropping>>
        PROVE  Applied'
    <2>1. /\ pc'[p] \in {"lock", "update"}
          /\ \A q \in Procs : q # p => pc'[q] = pc[q] /\ call'[q] = call[q]
          /\ UNCHANGED <<custom, table>>
      BY <1>4, <1>t DEF LoadFound, Lock, Goto
    <2> QED
      BY <1>3, <1>4, <2>1
  <1>5. ASSUME NEW p \in Procs, NEW o \in Fresh, Create(p, o) PROVE Applied'
    <2>1. /\ pc[p] = "load" /\ pc' = [pc EXCEPT ![p] = "lock"]
          /\ call' = [call EXCEPT ![p].ptr = o]
          /\ table' = [table EXCEPT ![call[p].key] = o]
          /\ heap' = [heap EXCEPT ![o] = FullBucket(p)]
          /\ UNCHANGED <<custom, dropping>>
      BY <1>5 DEF Create, StoreNew, Goto
    <2>2. /\ o \in Objects /\ \A k \in Keys : table[k] # o
          /\ call[p] \in Call /\ call[p].key \in Keys
      BY <1>t, <2>1 DEF Fresh, Mapped, Call
    <2>3. /\ \A q \in Procs : q # p => pc'[q] = pc[q] /\ call'[q] = call[q]
          /\ pc'[p] = "lock"
          /\ table'[call[p].key] = o /\ heap'[o].lim = call[p].lim
          /\ \A k \in Keys : k # call[p].key => table'[k] = table[k]
          /\ \A x \in Objects : x # o => heap'[x] = heap[x]
      BY <1>t, <2>1, <2>2 DEF FullBucket
    <2>4. Opening(p, call[p].key)
      BY <2>1 DEF Opening
    <2>5. ASSUME NEW k \in Keys PROVE AppliedIn(k)'
      <3>1. AppliedIn(k)
        BY DEF Applied
      <3>2. CASE k = call[p].key
        BY <2>1, <2>3, <2>4, <3>1, <3>2 DEF AppliedIn, Opening
      <3>3. CASE k # call[p].key
        BY <1>t, <2>1, <2>2, <2>3, <3>1, <3>3 DEF AppliedIn, Opening
      <3> QED
        BY <3>2, <3>3
    <2> QED
      BY <2>5 DEF Applied
  <1>6. ASSUME NEW p \in Procs, Refill(p) \/ Pass(p) \/ Deny(p) \/ Consume(p)
        PROVE  Applied'
    <2>1. /\ pc'[p] \in {"check", "commit", "idle"}
          /\ \A q \in Procs : q # p => pc'[q] = pc[q] /\ call'[q] = call[q]
          /\ UNCHANGED <<custom, dropping, table>>
      BY <1>6, <1>t DEF Refill, Pass, Deny, Consume, Within, Return, Goto, history
    <2>2. \A o \in Objects : heap'[o].lim = heap[o].lim
      <3>1. CASE Refill(p)
        BY <1>t, <3>1, RefillWrites DEF Rewritten, bucket
      <3>2. CASE Consume(p)
        BY <1>t, <3>2, ConsumeWrites DEF Rewritten, bucket
      <3>3. CASE Pass(p) \/ Deny(p)
        BY <3>3 DEF Pass, Deny
      <3> QED
        BY <1>6, <3>1, <3>2, <3>3
    <2> QED
      BY <1>3, <2>1, <2>2
  <1>7. ASSUME NEW k \in Keys, NEW l \in LimitArgs, SetLimitStore(k, l)
        PROVE  Applied'
    <2>1. /\ custom' = [custom EXCEPT ![k] = l] /\ dropping' = dropping \cup {k}
          /\ UNCHANGED <<table, heap, pc, call>>
      BY <1>7 DEF SetLimitStore, StoreLimit
    <2>2. ASSUME NEW j \in Keys PROVE AppliedIn(j)'
      BY <1>t, <2>1 DEF Applied, AppliedIn, Opening
    <2> QED
      BY <2>2 DEF Applied
  <1>8. ASSUME NEW k \in Keys, SetLimitDelete(k), Calm PROVE Applied'
    <2>1. /\ table' = [table EXCEPT ![k] = NoObject] /\ dropping' = dropping \ {k}
          /\ UNCHANGED <<custom, heap, pc, call>>
      BY <1>8 DEF SetLimitDelete, Delete
    <2>2. \A p \in Procs : Opening(p, k) => call[p].lim = GetLimit(k)
      BY <1>8 DEF Calm
    <2>3. ASSUME NEW j \in Keys PROVE AppliedIn(j)'
      <3>1. CASE j = k
        BY <1>t, <2>1, <2>2, <3>1 DEF AppliedIn, Opening, GetLimit
      <3>2. CASE j # k
        BY <1>t, <2>1, <3>2 DEF Applied, AppliedIn, Opening
      <3> QED
        BY <3>1, <3>2
    <2> QED
      BY <2>3 DEF Applied
  <1>9. ASSUME NEW k \in Keys, CloseLimit(k), UNCHANGED <<heap, dropping>>
        PROVE  Applied'
    <2>1. /\ custom' = [custom EXCEPT ![k] = NoLimit]
          /\ UNCHANGED <<table, pc, call>>
      BY <1>9 DEF CloseLimit
    <2>2. ASSUME NEW j \in Keys PROVE AppliedIn(j)'
      BY <1>t, <1>9, <2>1 DEF Applied, AppliedIn, Opening
    <2> QED
      BY <2>2 DEF Applied
  <1>10. ASSUME UNCHANGED <<custom, dropping, heap, pc, call>>,
                \/ UNCHANGED table
                \/ \E k \in Keys : table' = [table EXCEPT ![k] = NoObject]
         PROVE  Applied'
    <2>1. \A k \in Keys : table'[k] \in {table[k], NoObject}
      BY <1>10, <1>t
    <2> QED
      BY <1>0, <1>10, <2>1 DEF Opening
  <1>11. CASE Admin /\ Calm
    BY <1>7, <1>8, <1>9, <1>10, <1>11
       DEF Admin, Reset, Delete, Close, CloseBegin, CloseObject, history
  <1>12. CASE PassTime \/ UNCHANGED vars
    BY <1>10, <1>12 DEF PassTime, Tick, vars, base, history
  <1>13. ASSUME NEW p \in Procs, Prepare(p) PROVE Applied'
    BY <1>1, <1>2, <1>4, <1>13 DEF Prepare, Approach
  <1> QED
    BY <1>5, <1>6, <1>11, <1>12, <1>13 DEF Next, Step

\* If no call stands between the lookup of an older limit and the store of its
\* bucket when SetLimit deletes the bucket of the key, then the key has no
\* bucket but of the new limit: these calls are all that keeps the old limit in
\* force.
THEOREM CalmLimitApplies == CalmSpec => []NewLimitApplies
  <1>1. Init => Applied
    BY DEF Init, BaseInit, Applied, AppliedIn
  <1>2. [Next /\ Calm]_vars => [Next]_vars
    OBVIOUS
  <1>3. CalmSpec => Spec
    BY <1>2, PTL DEF CalmSpec, Spec
  <1>4. Applied => NewLimitApplies
    BY DEF Applied, AppliedIn, NewLimitApplies
  <1> QED
    BY <1>1, <1>3, <1>4, AppliedStep, StructureInvariant, PTL DEF CalmSpec
====
