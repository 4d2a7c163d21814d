---- MODULE LimiterCallsProofs ----
(***************************************************************************)
(* What every step of an in-process limiter keeps true of the calls, the   *)
(* map and the mutexes, whatever the limiter does to its objects.  The     *)
(* proofs about the single limiters build on BaseStep.                     *)
(***************************************************************************)
EXTENDS LimiterCalls, TLAPS

\* A call under way has its local variables, and a pointer once it has
\* fetched one.
Shaped ==
    \A p \in Procs :
        /\ pc[p] # "idle" => call[p] \in Call
        /\ pc[p] \in AfterLoad => call[p].ptr \in Objects

\* A goroutine in the critical section holds the mutex of its object.
Owned == \A p \in Procs : pc[p] \in Critical => mu[call[p].ptr] = p

\* No two keys share an object.
KeysApart ==
    \A j, k \in Keys : table[j] = table[k] /\ table[j] # NoObject => j = k

\* A call that holds the object of a key was made for that key.
CallsApart ==
    \A p \in Procs, k \in Keys :
        pc[p] \in AfterLoad /\ table[k] = call[p].ptr => call[p].key = k

\* A clock reading is of the past, and not too old while its call runs.
Punctual ==
    \A p \in Procs : pc[p] \in Reading =>
        call[p].now <= clock /\ clock - call[p].now <= MaxStale

BaseInv ==
    BaseTypeOK /\ Shaped /\ Owned /\ KeysApart /\ CallsApart /\ Punctual

\* A limit that is in force is a pair of positive numbers: SetLimit's checks.
LEMMA LimitNumbers ==
    \A l \in Limits : l.req \in Nat /\ l.win \in Nat /\ l.req > 0 /\ l.win > 0
  BY LimitAssumption DEF Limits, ValidLimit

\* A batch that AllowN accepts is a positive number.
LEMMA AmountNumbers == \A n \in Amounts : n \in Nat /\ n > 0
  BY CountAssumption DEF Amounts

\* In the critical section a goroutine has its object to itself.
LEMMA Exclusive ==
    ASSUME BaseInv, NEW p \in Procs, NEW q \in Procs, p # q,
           pc[p] \in Critical, pc[q] \in Critical
    PROVE  call[p].ptr # call[q].ptr
  BY DEF BaseInv, Owned

\* The limiter starts with no call under way and empty maps.
LEMMA BaseInitial == BaseInit => BaseInv
  <1> SUFFICES ASSUME BaseInit PROVE BaseInv
    OBVIOUS
  <1>1. 0 \in Time
    BY TimeAssumption DEF Time
  <1> QED
    BY <1>1 DEF BaseInit, BaseInv, BaseTypeOK, Shaped, Owned, KeysApart,
                CallsApart, Punctual, PCs, Reading, AfterLoad, Critical

\* What the lookup of a limit returns is a limit.
LEMMA LookedUp ==
    ASSUME BaseTypeOK, NEW k \in Keys PROVE GetLimit(k) \in Limits
  BY DEF BaseTypeOK, GetLimit, Limits

----------------------------------------------------------------------------

\* The kinds of steps by what they do to the local variables and the map.
\* A call that starts:
LEMMA EnterKeeps ==
    ASSUME BaseInv, NEW p \in Procs, NEW k \in Keys, NEW n \in Amounts,
           NEW info \in BOOLEAN, Enter(p, k, n, info)
    PROVE  BaseInv'
  <1> DEFINE c == [key |-> k, n |-> n, info |-> info, lim |-> GetLimit(k),
                   now |-> 0, ptr |-> NoObject]
  <1> USE DEF BaseInv, PCs, Reading, AfterLoad, Critical
  <1>1. 0 \in Time
    BY TimeAssumption DEF Time
  <1>2. c \in Call
    BY <1>1, LookedUp DEF Call
  <1>3. /\ call' = [call EXCEPT ![p] = c]
        /\ pc[p] = "idle" /\ pc' = [pc EXCEPT ![p] = "clock"]
        /\ UNCHANGED <<clock, custom, table, mu, closing, mark>>
    BY DEF Enter, Goto
  <1> HIDE DEF c
  <1>4. BaseTypeOK' /\ Shaped'
    BY <1>2, <1>3 DEF BaseTypeOK, Shaped
  <1>5. Owned' /\ KeysApart' /\ CallsApart' /\ Punctual'
    BY <1>3 DEF BaseTypeOK, Owned, KeysApart, CallsApart, Punctual
  <1> QED
    BY <1>4, <1>5

\* A call that reads the clock or fetches its object:
LEMMA FetchKeeps ==
    ASSUME BaseInv, NEW p \in Procs,
           \/ ReadClock(p)
           \/ LoadFound(p)
           \/ \E o \in Fresh : StoreNew(p, o)
    PROVE  BaseInv'
  <1> USE NullAssumption DEF BaseInv, PCs, Reading, AfterLoad, Critical
  <1>0. call[p] \in Call
    BY DEF Shaped, BaseTypeOK, ReadClock, LoadFound, StoreNew, Goto
  <1>1. CASE ReadClock(p)
    <2> DEFINE c == [call[p] EXCEPT !.now = clock]
    <2>1. /\ c \in Call /\ c.now = clock
      BY <1>0 DEF Call, BaseTypeOK
    <2>2. /\ call' = [call EXCEPT ![p] = c]
          /\ pc[p] = "clock" /\ pc' = [pc EXCEPT ![p] = "load"]
          /\ UNCHANGED <<clock, custom, table, mu, closing, mark>>
      BY <1>1 DEF ReadClock, Goto
    <2> HIDE DEF c
    <2>3. BaseTypeOK' /\ Shaped'
      BY <2>1, <2>2 DEF BaseTypeOK, Shaped
    <2>4. Owned' /\ KeysApart' /\ CallsApart'
      BY <2>2 DEF BaseTypeOK, Owned, KeysApart, CallsApart
    <2>5. Punctual'
      BY <2>1, <2>2, TimeAssumption DEF BaseTypeOK, Punctual, Time
    <2> QED
      BY <2>3, <2>4, <2>5
  <1>2. ASSUME NEW o \in Objects,
               \/ LoadFound(p) /\ o = table[call[p].key]
               \/ o \in Fresh /\ StoreNew(p, o)
        PROVE  BaseInv'
    <2> DEFINE c == [call[p] EXCEPT !.ptr = o]
    <2>1. /\ c \in Call /\ c.ptr = o
          /\ c.key = call[p].key /\ c.now = call[p].now
          /\ c.key \in Keys
      BY <1>0 DEF Call
    <2>2. /\ call' = [call EXCEPT ![p] = c]
          /\ pc[p] = "load" /\ pc' = [pc EXCEPT ![p] = "lock"]
          /\ UNCHANGED <<clock, custom, mu, closing, mark>>
      BY <1>2 DEF LoadFound, StoreNew, Goto
    <2>3. \/ table' = table /\ table[c.key] = o
          \/ /\ table' = [table EXCEPT ![c.key] = o]
             /\ \A k \in Keys : table[k] # o
             /\ \A q \in Procs : pc[q] \in AfterLoad => call[q].ptr # o
      BY <1>2, <2>1 DEF LoadFound, StoreNew, Fresh, Mapped, Held
    <2> HIDE DEF c
    <2>4. BaseTypeOK' /\ Shaped'
      BY <2>1, <2>2, <2>3 DEF BaseTypeOK, Shaped
    <2>5. Owned' /\ Punctual'
      BY <2>1, <2>2 DEF BaseTypeOK, Owned, Punctual
    <2>6. KeysApart' /\ CallsApart'
      BY <2>1, <2>2, <2>3 DEF BaseTypeOK, KeysApart, CallsApart
    <2> QED
      BY <2>4, <2>5, <2>6
  <1>3. CASE LoadFound(p)
    BY <1>0, <1>2, <1>3 DEF LoadFound, BaseTypeOK, Call
  <1> QED
    BY <1>1, <1>2, <1>3 DEF Fresh

\* A call that takes the mutex, works under it, or gives it back:
LEMMA CriticalKeeps ==
    ASSUME BaseInv, NEW p \in Procs,
           \/ Lock(p)
           \/ \E from, to \in Critical : Within(p, from, to)
           \/ \E from \in Critical : Return(p, from)
    PROVE  BaseInv'
  <1> USE NullAssumption DEF BaseInv, PCs, Reading, AfterLoad, Critical
  <1>1. CASE Lock(p)
    <2>1. /\ pc[p] = "lock" /\ pc' = [pc EXCEPT ![p] = "update"]
          /\ mu[call[p].ptr] = NoProc
          /\ mu' = [mu EXCEPT ![call[p].ptr] = p]
          /\ UNCHANGED <<clock, custom, table, call, closing, mark>>
      BY <1>1 DEF Lock, Goto
    <2>2. BaseTypeOK' /\ Shaped'
      BY <2>1 DEF BaseTypeOK, Shaped
    <2>3. Owned' /\ KeysApart' /\ CallsApart' /\ Punctual'
      BY <2>1 DEF BaseTypeOK, Shaped, Owned, KeysApart, CallsApart, Punctual
    <2> QED
      BY <2>2, <2>3
  <1>2. ASSUME NEW from \in Critical, NEW to \in Critical, Within(p, from, to)
        PROVE  BaseInv'
    <2>1. /\ pc[p] = from /\ pc' = [pc EXCEPT ![p] = to]
          /\ UNCHANGED <<clock, custom, table, mu, call, closing, mark>>
      BY <1>2 DEF Within, Goto
    <2> QED
      BY <2>1 DEF BaseTypeOK, Shaped, Owned, KeysApart, CallsApart, Punctual
  <1>3. ASSUME NEW from \in Critical, Return(p, from) PROVE BaseInv'
    <2>1. /\ pc[p] = from /\ pc' = [pc EXCEPT ![p] = "idle"]
          /\ mu' = [mu EXCEPT ![call[p].ptr] = NoProc]
          /\ call' = [call EXCEPT ![p] = NoCall]
          /\ UNCHANGED <<clock, custom, table, closing, mark>>
      BY <1>3 DEF Return, Goto
    <2>2. BaseTypeOK' /\ Shaped'
      BY <2>1 DEF BaseTypeOK, Shaped
    <2>3. Owned'
      BY <1>3, <2>1, Exclusive DEF BaseTypeOK, Shaped, Owned
    <2>4. KeysApart' /\ CallsApart' /\ Punctual'
      BY <2>1 DEF BaseTypeOK, KeysApart, CallsApart, Punctual
    <2> QED
      BY <2>2, <2>3, <2>4
  <1> QED
    BY <1>1, <1>2, <1>3

\* Reset, SetLimit, Close, and the passing of time:
LEMMA AdminKeeps ==
    ASSUME BaseInv,
           \/ \E k \in Keys :
                 \/ Delete(k) \/ CloseObject(k) \/ CloseLimit(k)
                 \/ \E l \in LimitArgs : StoreLimit(k, l)
           \/ CloseBegin \/ Tick
    PROVE  BaseInv'
  <1> USE DEF BaseInv, BaseTypeOK, Shaped, Owned, KeysApart, CallsApart,
              Punctual
  <1>1. ASSUME NEW k \in Keys, Delete(k) \/ CloseObject(k) PROVE BaseInv'
    <2>1. /\ table' = [table EXCEPT ![k] = NoObject]
          /\ closing' \subseteq closing
          /\ UNCHANGED <<clock, custom, mu, pc, call, mark>>
      BY <1>1 DEF Delete, CloseObject
    <2>2. CallsApart'
      BY <2>1, NullAssumption
    <2> QED
      BY <2>1, <2>2
  <1>2. ASSUME NEW k \in Keys,
               CloseLimit(k) \/ \E l \in LimitArgs : StoreLimit(k, l)
        PROVE  BaseInv'
    BY <1>2 DEF CloseLimit, StoreLimit, Limits
  <1>3. CASE CloseBegin
    BY <1>3 DEF CloseBegin
  <1>4. CASE Tick
    <2>1. \A p \in Procs : pc[p] \in Reading => call[p].now \in Int
      BY TimeAssumption DEF Reading, AfterLoad, Critical, Call, Time
    <2> QED
      BY <1>4, <2>1, TimeAssumption DEF Tick, Time
  <1> QED
    BY <1>1, <1>2, <1>3, <1>4

\* Every step of an in-process limiter keeps calls, map and mutexes in order.
LEMMA BaseStep == BaseInv /\ [BaseNext]_base => BaseInv'
  <1> SUFFICES ASSUME BaseInv, [BaseNext]_base PROVE BaseInv'
    OBVIOUS
  <1>1. ASSUME NEW p \in Procs, Begin(p) PROVE BaseInv'
    BY <1>1, EnterKeeps DEF Begin, BeginAllowN, BeginAllowWithInfo, Amounts
  <1>2. CASE UNCHANGED base
    BY <1>2 DEF base, BaseInv, BaseTypeOK, Shaped, Owned, KeysApart,
                CallsApart, Punctual
  <1> QED
    BY <1>1, <1>2, FetchKeeps, CriticalKeeps, AdminKeeps DEF BaseNext, Approach
====
