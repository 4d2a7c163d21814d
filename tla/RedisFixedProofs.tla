---- MODULE RedisFixedProofs ----
(***************************************************************************)
(* The bound of RedisLimiter's fixed windows, for limits of one window     *)
(* size: how many windows an interval can meet, and how often the counter  *)
(* of one can start again.                                                 *)
(***************************************************************************)
EXTENDS RedisProofs

Win == DefaultLimit.win

\* The limits differ in their requests only.
OneWindow == \A l \in Limits : l.win = Win

\* The latest clock reading with which a script runs in the interval, and the
\* index it has.
Last == mark + Win - MaxStale - 1

Newest == Last \div Win

Fixed(k) == units[k]["fixed"]

Count(k, i) == IF i \in Indices THEN counters[k][i].count ELSE 0

----------------------------------------------------------------------------
(* Arithmetic. *)

LEMMA Bounds ==
    ASSUME NEW x \in Nat, NEW w \in Nat, w > 0
    PROVE  /\ x \div w \in Nat /\ (x \div w) * w <= x
           /\ x < (x \div w) * w + w
  OBVIOUS

LEMMA Mono ==
    ASSUME NEW i \in Int, NEW j \in Int, NEW w \in Nat, i < j
    PROVE  i * w + w <= j * w
  <1>1. (j - i - 1) \in Nat
    OBVIOUS
  <1>2. (j - i - 1) * w >= 0
    BY <1>1
  <1>3. (j - i - 1) * w = j * w - i * w - w
    OBVIOUS
  <1>4. j * w \in Int /\ i * w \in Int
    OBVIOUS
  <1> QED
    BY <1>2, <1>3, <1>4

\* Two times less than a window apart lie in one window or in neighbours.
LEMMA Near ==
    ASSUME NEW x \in Nat, NEW y \in Nat, NEW w \in Nat, w > 0, x <= y, y < x + w
    PROVE  x \div w = y \div w \/ x \div w = (y \div w) - 1
  <1> DEFINE i == x \div w
             q == y \div w
  <1>1. i \in Nat /\ i * w <= x /\ x < i * w + w
    BY Bounds
  <1>2. q \in Nat /\ q * w <= y /\ y < q * w + w
    BY Bounds
  <1> HIDE DEF i, q
  <1>3. i * w \in Int /\ q * w \in Int /\ (i + 1) * w = i * w + w
    BY <1>1, <1>2
  <1>4. ~ (q < i)
    BY <1>1, <1>2, <1>3, Mono
  <1>5. ~ (i + 1 < q)
    <2>1. ASSUME i + 1 < q PROVE FALSE
      <3>1. (i + 1) * w + w <= q * w
        BY <1>1, <1>2, <2>1, Mono
      <3> QED
        BY <1>1, <1>2, <1>3, <3>1
    <2> QED
      BY <2>1
  <1> QED
    BY <1>1, <1>2, <1>4, <1>5 DEF i, q

\* The largest of three limits.
LEMMA Greatest ==
    ASSUME NEW l1 \in Limits, NEW l2 \in Limits, NEW l3 \in Limits
    PROVE  \E l \in Limits : l1.req <= l.req /\ l2.req <= l.req /\ l3.req <= l.req
  <1>1. l1.req \in Nat /\ l2.req \in Nat /\ l3.req \in Nat
    BY LimitNumbers
  <1> QED
    BY <1>1

LEMMA Numbers ==
    ASSUME TypeOK, OneWindow
    PROVE  /\ clock \in Nat /\ mark \in Nat /\ MaxStale \in Nat /\ Skew \in Nat
           /\ Win \in Nat /\ Win > 0
           /\ \A t \in Int :
                 InInterval(t) <=> mark <= t /\ t - mark < Win - MaxStale - Skew
           /\ OneTick <=> Win - MaxStale - Skew = 1
  <1>1. DefaultLimit \in Limits
    BY LimitNumbers DEF Limits
  <1>2. /\ clock \in Nat /\ mark \in Nat /\ MaxStale \in Nat /\ Skew \in Nat
        /\ Win \in Nat /\ Win > 0
    BY <1>1, LimitNumbers, BoundNumbers DEF TypeOK, Time, Win
  <1> QED
    BY <1>1, <1>2 DEF OneWindow, InInterval, OneTick

\* What is known of a counter.
LEMMA CounterTypes ==
    ASSUME TypeOK, NEW k \in Keys
    PROVE  /\ \A i \in Indices : counters[k][i].count \in Nat /\ counters[k][i].until \in Nat
           /\ \A i : Count(k, i) \in Nat
           /\ Fixed(k) \in Nat
  BY DEF TypeOK, Count, Fixed, Algorithms
----------------------------------------------------------------------------
(* What a step does to the counters. *)

\* The step has nothing to do with fixed windows.
Apart ==
    /\ UNCHANGED <<clock, mark, counters>>
    /\ \A k \in Keys : Fixed(k)' = Fixed(k)

\* The script admits the request r.
Filled(r) ==
    LET c == counters[r.key][Index(r)]
    IN  /\ c.count < r.lim.req
        /\ counters' = [counters EXCEPT ![r.key][Index(r)] =
              [count |-> c.count + 1,
               until |-> IF c.count = 0 THEN clock + r.lim.win ELSE c.until]]
        /\ units' = IF InInterval(clock)
                    THEN [units EXCEPT ![r.key]["fixed"] = @ + 1] ELSE units
        /\ UNCHANGED <<clock, mark>>

\* Reset deletes a counter of k.
Cleared(k, i) ==
    /\ counters' = [counters EXCEPT ![k][i] = NoCounter]
    /\ units' = [units EXCEPT ![k]["fixed"] = 0]
    /\ UNCHANGED <<clock, mark>>

Aged ==
    /\ clock' = clock + 1
    /\ counters' = [k \in Keys |->
          [i \in Indices |-> Unexpired(counters[k][i], NoCounter)]]
    /\ UNCHANGED <<mark, units>>

\* The fixed window's script takes single units.
Singles == \A r \in Requests : r.op = "fixed" => r.n = 1

LEMMA SinglesInvariant == Spec => []Singles
  <1>1. Init => Singles
    BY DEF Init, Singles, Requests, Underway
  <1>2. TypeOK /\ Singles /\ [Next]_vars => Singles'
    <2> SUFFICES ASSUME TypeOK, Singles, [Next]_vars PROVE Singles'
      OBVIOUS
    <2>1. ASSUME NEW r \in Request, Begun(r) PROVE Singles'
      BY <2>1, BegunRequests DEF Singles, Begun
    <2>2. ASSUME Requests' \subseteq Requests PROVE Singles'
      BY <2>2 DEF Singles
    <2> QED
      BY <2>1, <2>2, StepCases
  <1> QED
    BY <1>1, <1>2, TypesCorrect, PTL DEF Spec

LEMMA SameUnits ==
    ASSUME TypeOK, NEW j \in Keys, NEW v \in Nat, NEW k \in Keys
    PROVE  [units EXCEPT ![j]["sliding"] = v][k]["fixed"] = Fixed(k)
  BY DEF TypeOK, Algorithms, Fixed

LEMMA CounterCases ==
    ASSUME Structure, Singles, [Next]_vars
    PROVE  \/ Apart
           \/ \E r \in Request : r \in Requests /\ Filled(r)
           \/ \E k \in Keys, i \in Indices : Cleared(k, i)
           \/ Aged
  <1> DEFINE Goal == \/ Apart
                     \/ \E r \in Request : r \in Requests /\ Filled(r)
                     \/ \E k \in Keys, i \in Indices : Cleared(k, i)
                     \/ Aged
  <1>t. TypeOK
    BY DEF Structure
  <1>1. ASSUME NEW m \in net, Execute(m), RunSliding(m) PROVE Apart
    <2>1. m.req \in Request /\ m.req.key \in Keys /\ m.req.n \in Nat
      BY <1>1, <1>t, ExecuteTypes, RequestFields
    <2>2. UNCHANGED <<clock, mark, counters>>
      BY <1>1 DEF Execute, RunSliding
    <2>3. \/ units' = units
          \/ units' = [units EXCEPT ![m.req.key]["sliding"] = @ + m.req.n]
      BY <1>1, SlidingCases DEF Admitted, Refused
    <2>4. units[m.req.key]["sliding"] + m.req.n \in Nat
      BY <2>1, <1>t DEF TypeOK, Algorithms
    <2>5. ASSUME NEW k \in Keys PROVE Fixed(k)' = Fixed(k)
      <3>1. CASE units' = units
        BY <3>1 DEF Fixed
      <3>2. CASE units' = [units EXCEPT ![m.req.key]["sliding"] = @ + m.req.n]
        <4>1. units' = [units EXCEPT ![m.req.key]["sliding"] =
                                        units[m.req.key]["sliding"] + m.req.n]
          BY <3>2
        <4> QED
          BY <2>1, <2>4, <4>1, <1>t, SameUnits DEF Fixed
      <3> QED
        BY <2>3, <3>1, <3>2
    <2> QED
      BY <2>2, <2>5 DEF Apart
  <1>2. ASSUME NEW m \in net, Execute(m), RunFixed(m) PROVE Goal
    <2>1. m.req \in Request /\ m.req \in Requests /\ m.req.op = "fixed"
      BY <1>2, <1>t, ExecuteTypes DEF Requests, RunFixed
    <2>2. m.req.n = 1 /\ UNCHANGED <<clock, mark>>
      BY <1>2, <2>1 DEF Singles, Execute
    <2>3. CASE FixedFits(m.req)
      BY <1>2, <2>1, <2>2, <2>3 DEF RunFixed, FixedFits, Counted, Filled
    <2>4. CASE ~FixedFits(m.req)
      BY <1>2, <2>2, <2>4 DEF RunFixed, Apart, Fixed
    <2> QED
      BY <2>3, <2>4
  <1>3. CASE ResetStep
    <2>1. CASE ResetReturn
      BY <2>1 DEF ResetReturn, Apart, Fixed, history
    <2>2. CASE ResetDelete
      <3>1. PICK x \in reset.left \cup Found(reset.key, reset.node) :
              Deleted(reset.key, x) /\ UNCHANGED <<clock, mark>>
        BY <2>2 DEF ResetDelete
      <3>2. reset.key \in Keys /\ x \in PhysicalKeys
        BY <1>3, <1>t, <3>1 DEF ResetStep, Found, TypeOK
      <3>3. CASE x[1] = "sliding"
        <4>1. UNCHANGED counters /\ units' = [units EXCEPT ![reset.key]["sliding"] = 0]
          BY <3>1, <3>3 DEF Deleted
        <4> QED
          BY <3>1, <3>2, <4>1, <1>t, SameUnits DEF Apart, Fixed
      <3>4. CASE x[1] # "sliding"
        <4>1. x[1] = "fixed" /\ x[2] \in Indices
          BY <3>2, <3>4 DEF PhysicalKeys
        <4> QED
          BY <3>1, <3>2, <3>4, <4>1 DEF Deleted, Cleared
      <3> QED
        BY <3>3, <3>4
    <2> QED
      BY <1>3, <2>1, <2>2 DEF ResetStep
  <1>4. CASE Tick
    BY <1>4 DEF Tick, Aged, history
  <1>5. ASSUME NEW r \in Request, Begun(r) PROVE Apart
    BY <1>5 DEF Begun, Apart, Fixed, history
  <1>6. ASSUME \/ \E p \in Procs : Retry(p) \/ Finish(p)
               \/ \E p \in Procs, k \in Keys, l \in LimitArgs : SetLimit(p, k, l)
               \/ \E k \in Keys : ResetBegin(k)
               \/ UNCHANGED vars
        PROVE  Apart
    BY <1>6 DEF Retry, Finish, SetLimit, ResetBegin, Apart, Fixed, vars, history
  <1> QED
    BY <1>1, <1>2, <1>3, <1>4, <1>5, <1>6, <1>t, BeginCases
       DEF Next, Client, Receive, GiveUp, Execute
----------------------------------------------------------------------------
(* The counters. *)

\* A counter that is in use holds no more than some limit, and lives to the end
\* of its window by the clock of any process.
WithinLimit ==
    \A k \in Keys, i \in Indices : \E l \in Limits : counters[k][i].count <= l.req

Lasting ==
    \A k \in Keys, i \in Indices :
        counters[k][i].count > 0 => i * Win + Win <= counters[k][i].until + Skew

LEMMA IndexBounds ==
    ASSUME Structure, OneWindow, NEW r \in Request, r \in Requests
    PROVE  /\ Index(r) \in Indices /\ r.key \in Keys /\ r.lim.win = Win
           /\ Index(r) * Win <= clock + Skew
           /\ InInterval(clock) => Index(r) \in {Newest, Newest - 1}
  <1>1. /\ r.now \in Nat /\ r.sent \in Nat /\ r.lim \in Limits /\ r.key \in Keys
        /\ clock \in Nat /\ mark \in Nat /\ MaxStale \in Nat /\ Skew \in Nat
        /\ Win \in Nat /\ Win > 0 /\ clock <= MaxTime /\ MaxTime \in Nat
    BY RequestFields, Numbers, BoundNumbers DEF Structure, TypeOK, Time
  <1>2. /\ r.sent <= clock /\ clock - r.sent <= MaxStale
        /\ r.sent <= r.now /\ r.now <= r.sent + Skew
    BY DEF Structure, Punctual
  <1>3. r.lim.win = Win /\ Index(r) = r.now \div Win
    BY <1>1 DEF OneWindow, Index
  <1>4. /\ Index(r) \in Nat /\ Index(r) <= r.now /\ Index(r) * Win <= r.now
        /\ Index(r) * Win \in Int
    BY <1>1, <1>3, Bounds, Quotient
  <1>5. Index(r) \in Indices /\ Index(r) * Win <= clock + Skew
    BY <1>1, <1>2, <1>4 DEF Indices
  <1>6. ASSUME InInterval(clock) PROVE Index(r) \in {Newest, Newest - 1}
    <2>1. mark <= clock /\ clock - mark < Win - MaxStale - Skew
      BY <1>1, <1>6, Numbers DEF Structure
    <2>2. Last \in Nat /\ r.now <= Last /\ Last < r.now + Win
      BY <1>1, <1>2, <2>1 DEF Last
    <2> QED
      BY <1>1, <1>3, <2>2, Near DEF Newest
  <1> QED
    BY <1>1, <1>3, <1>5, <1>6

\* What filling a counter does to it and its neighbours.
LEMMA FilledEffect ==
    ASSUME Structure, OneWindow, NEW r \in Request, r \in Requests, Filled(r)
    PROVE  /\ counters'[r.key][Index(r)].count = counters[r.key][Index(r)].count + 1
           /\ counters'[r.key][Index(r)].count <= r.lim.req
           /\ IF counters[r.key][Index(r)].count = 0
              THEN counters'[r.key][Index(r)].until = clock + Win
              ELSE counters'[r.key][Index(r)].until = counters[r.key][Index(r)].until
           /\ \A k \in Keys, i \in Indices :
                 k # r.key \/ i # Index(r) => counters'[k][i] = counters[k][i]
           /\ \A k \in Keys :
                 Fixed(k)' = IF k = r.key /\ InInterval(clock)
                             THEN Fixed(k) + 1 ELSE Fixed(k)
  <1> DEFINE c == counters[r.key][Index(r)]
             v == [count |-> c.count + 1,
                   until |-> IF c.count = 0 THEN clock + r.lim.win ELSE c.until]
  <1>1. /\ Index(r) \in Indices /\ r.key \in Keys /\ r.lim.win = Win
        /\ r.lim.req \in Nat /\ c.count \in Nat /\ c.until \in Nat
        /\ clock \in Nat /\ Win \in Nat
    BY IndexBounds, RequestFields, CounterTypes, Numbers DEF Structure
  <1>2. /\ c.count < r.lim.req
        /\ counters' = [counters EXCEPT ![r.key][Index(r)] = v]
        /\ units' = IF InInterval(clock)
                    THEN [units EXCEPT ![r.key]["fixed"] = @ + 1] ELSE units
    BY DEF Filled
  <1>3. /\ counters \in [Keys -> [Indices -> [count : Nat, until : Nat]]]
        /\ v \in [count : Nat, until : Nat]
        /\ units \in [Keys -> [Algorithms -> Nat]] /\ "fixed" \in Algorithms
    BY <1>1 DEF Structure, TypeOK, Algorithms
  <1>4. /\ counters'[r.key][Index(r)] = v
        /\ \A k \in Keys, i \in Indices :
              k # r.key \/ i # Index(r) => counters'[k][i] = counters[k][i]
    <2> HIDE DEF v
    <2> QED
      BY <1>1, <1>2, <1>3, NestedUpdate
  <1>5. \A k \in Keys : Fixed(k)' = IF k = r.key /\ InInterval(clock)
                                    THEN Fixed(k) + 1 ELSE Fixed(k)
    BY <1>1, <1>2, <1>3 DEF Fixed
  <1> QED
    BY <1>1, <1>2, <1>4, <1>5

LEMMA CountersInvariant ==
    ASSUME OneWindow
    PROVE  Spec => [](WithinLimit /\ Lasting)
  <1>1. Init => WithinLimit /\ Lasting
    <2>1. DefaultLimit \in Limits /\ 0 <= DefaultLimit.req
      BY LimitNumbers DEF Limits
    <2> QED
      BY <2>1 DEF Init, WithinLimit, Lasting, NoCounter
  <1>2. Structure /\ Singles /\ WithinLimit /\ Lasting /\ [Next]_vars
          => (WithinLimit /\ Lasting)'
    <2> SUFFICES ASSUME Structure, Singles, WithinLimit, Lasting, [Next]_vars
                 PROVE  WithinLimit' /\ Lasting'
      OBVIOUS
    <2>t. /\ TypeOK /\ clock \in Nat /\ Skew \in Nat /\ Win \in Nat
          /\ counters \in [Keys -> [Indices -> [count : Nat, until : Nat]]]
          /\ \E l \in Limits : 0 <= l.req
      <3>1. DefaultLimit \in Limits /\ 0 <= DefaultLimit.req
        BY LimitNumbers DEF Limits
      <3> QED
        BY <3>1, Numbers DEF Structure, TypeOK
    <2>1. ASSUME \A k \in Keys, i \in Indices :
                    counters'[k][i] = counters[k][i] \/ counters'[k][i] = NoCounter
          PROVE  WithinLimit' /\ Lasting'
      BY <2>1, <2>t DEF WithinLimit, Lasting, NoCounter
    <2>2. ASSUME NEW r \in Request, r \in Requests, Filled(r)
          PROVE  WithinLimit' /\ Lasting'
      <3> DEFINE j == Index(r)
      <3>1. /\ j \in Indices /\ r.key \in Keys /\ r.lim \in Limits
            /\ j * Win <= clock + Skew
        BY <2>2, IndexBounds, RequestFields
      <3>2. /\ counters'[r.key][j].count <= r.lim.req
            /\ IF counters[r.key][j].count = 0
               THEN counters'[r.key][j].until = clock + Win
               ELSE counters'[r.key][j].until = counters[r.key][j].until
            /\ \A k \in Keys, i \in Indices :
                  k # r.key \/ i # j => counters'[k][i] = counters[k][i]
        BY <2>2, FilledEffect
      <3>3. counters[r.key][j].count \in Nat /\ j * Win \in Int
        <4> HIDE DEF j
        <4>1. j \in Int
          BY <3>1, BoundNumbers DEF Indices
        <4> QED
          BY <2>t, <3>1, <4>1
      <3>4. j * Win + Win <= counters'[r.key][j].until + Skew
        <4> HIDE DEF j
        <4>1. CASE counters[r.key][j].count = 0
          BY <3>1, <3>2, <3>3, <4>1, <2>t
        <4>2. CASE counters[r.key][j].count # 0
          BY <3>1, <3>2, <3>3, <4>2, <2>t DEF Lasting
        <4> QED
          BY <4>1, <4>2
      <3>5. ASSUME NEW k \in Keys, NEW i \in Indices
            PROVE  /\ \E l \in Limits : counters'[k][i].count <= l.req
                   /\ counters'[k][i].count > 0
                        => i * Win + Win <= counters'[k][i].until + Skew
        <4> HIDE DEF j
        <4>1. CASE k = r.key /\ i = j
          BY <3>1, <3>2, <3>4, <4>1
        <4>2. CASE k # r.key \/ i # j
          BY <3>2, <4>2 DEF WithinLimit, Lasting
        <4> QED
          BY <4>1, <4>2
      <3> QED
        BY <3>5 DEF WithinLimit, Lasting
    <2>3. ASSUME NEW k \in Keys, NEW i \in Indices, Cleared(k, i)
          PROVE  WithinLimit' /\ Lasting'
      <3>1. \A x \in Keys, y \in Indices :
               counters'[x][y] = counters[x][y] \/ counters'[x][y] = NoCounter
        BY <2>3, <2>t DEF Cleared
      <3> QED
        BY <2>1, <3>1
    <2>4. CASE Aged
      BY <2>1, <2>4 DEF Aged, Unexpired
    <2>5. CASE Apart
      BY <2>1, <2>5 DEF Apart
    <2> QED
      BY <2>2, <2>3, <2>4, <2>5, CounterCases
  <1> QED
    BY <1>1, <1>2, StructureInvariant, SinglesInvariant, PTL DEF Spec
----------------------------------------------------------------------------
(* The bound. *)

Times == IF OneTick THEN 2 ELSE 3

Bounded(k) == \E l \in Limits : Fixed(k) <= Times * l.req

\* While the interval lasts, what it has admitted is in the counters of the two
\* windows that it can meet, but for one life of the older one that has ended
\* since the mark; its successor outlives the interval.
Tally(k) ==
    \/ Fixed(k) <= Count(k, Newest) + Count(k, Newest - 1)
    \/ /\ clock > mark
       /\ Count(k, Newest - 1) = 0 \/ mark + Win <= counters[k][Newest - 1].until
       /\ \E l \in Limits :
             Fixed(k) <= Count(k, Newest) + Count(k, Newest - 1) + l.req

Tallied ==
    \A k \in Keys :
        /\ clock < mark => Fixed(k) = 0
        /\ IF InInterval(clock) THEN Tally(k) ELSE Bounded(k)

LEMMA CountWithinLimit ==
    ASSUME TypeOK, WithinLimit, NEW k \in Keys, NEW i
    PROVE  \E l \in Limits : Count(k, i) <= l.req
  <1>1. DefaultLimit \in Limits /\ 0 <= DefaultLimit.req
    BY LimitNumbers DEF Limits
  <1> QED
    BY <1>1 DEF WithinLimit, Count

LEMMA TallyBounds ==
    ASSUME TypeOK, OneWindow, WithinLimit, Tallied, NEW k \in Keys
    PROVE  Bounded(k)
  <1> SUFFICES ASSUME InInterval(clock) PROVE Bounded(k)
    BY DEF Tallied
  <1> DEFINE a == Count(k, Newest)
             b == Count(k, Newest - 1)
  <1>1. PICK l1 \in Limits : a <= l1.req
    BY CountWithinLimit
  <1>2. PICK l2 \in Limits : b <= l2.req
    BY CountWithinLimit
  <1>3. a \in Nat /\ b \in Nat /\ Fixed(k) \in Nat
    BY CounterTypes
  <1>4. Tally(k)
    BY DEF Tallied
  <1>5. clock > mark => ~OneTick
    BY Numbers
  <1>6. \A l \in Limits : l.req \in Nat
    BY LimitNumbers
  <1>7. CASE Fixed(k) <= a + b
    <2>1. PICK l \in Limits : l1.req <= l.req /\ l2.req <= l.req
      BY Greatest
    <2>2. Fixed(k) <= 2 * l.req /\ Fixed(k) <= 3 * l.req
      <3> HIDE DEF a, b
      <3> QED
        BY <1>1, <1>2, <1>3, <1>6, <1>7, <2>1
    <2> QED
      BY <2>2 DEF Bounded, Times
  <1>8. CASE clock > mark /\ \E l \in Limits : Fixed(k) <= a + b + l.req
    <2>1. PICK l3 \in Limits : Fixed(k) <= a + b + l3.req
      BY <1>8
    <2>2. PICK l \in Limits : l1.req <= l.req /\ l2.req <= l.req /\ l3.req <= l.req
      BY Greatest
    <2>3. Fixed(k) <= 3 * l.req
      <3> HIDE DEF a, b
      <3> QED
        BY <1>1, <1>2, <1>3, <1>6, <2>1, <2>2
    <2> QED
      BY <1>5, <1>8, <2>3 DEF Bounded, Times
  <1> QED
    BY <1>4, <1>7, <1>8 DEF Tally

LEMMA TalliedStep ==
    ASSUME OneWindow, Structure, Singles, WithinLimit, Lasting, Tallied, [Next]_vars
    PROVE  Tallied'
  <1>t. /\ TypeOK /\ clock \in Nat /\ mark \in Nat /\ MaxStale \in Nat /\ Skew \in Nat
        /\ Win \in Nat /\ Win > 0
        /\ \A t \in Int :
              InInterval(t) <=> mark <= t /\ t - mark < Win - MaxStale - Skew
        /\ counters \in [Keys -> [Indices -> [count : Nat, until : Nat]]]
        /\ units \in [Keys -> [Algorithms -> Nat]]
        /\ \A k \in Keys : Fixed(k) \in Nat /\ \A i : Count(k, i) \in Nat
    BY Numbers, CounterTypes DEF Structure, TypeOK
  <1>i. UNCHANGED mark => Newest' = Newest
    BY DEF Newest, Last
  <1>0. ASSUME UNCHANGED <<clock, mark>>, NEW k \in Keys,
               counters'[k] = counters[k], Fixed(k)' = Fixed(k)
        PROVE  /\ clock' < mark' => Fixed(k)' = 0
               /\ IF InInterval(clock)' THEN Tally(k)' ELSE Bounded(k)'
    <2>1. \A i : Count(k, i)' = Count(k, i)
      BY <1>0 DEF Count
    <2>2. Newest' = Newest /\ (InInterval(clock)' <=> InInterval(clock))
      BY <1>0, <1>i DEF InInterval
    <2>3. counters'[k][Newest' - 1] = counters[k][Newest - 1]
      BY <1>0, <2>2
    <2>4. CASE InInterval(clock)
      <3>1. Tally(k) /\ clock' = clock /\ mark' = mark
        BY <1>0, <2>4 DEF Tallied
      <3> QED
        BY <1>0, <2>1, <2>2, <2>3, <2>4, <3>1 DEF Tally, Tallied
    <2>5. CASE ~InInterval(clock)
      BY <1>0, <2>2, <2>5 DEF Tallied, Bounded, Times, OneTick
    <2> QED
      BY <2>4, <2>5
  <1>1. ASSUME NEW r \in Request, r \in Requests, Filled(r) PROVE Tallied'
    <2> DEFINE j == Index(r)
    <2>1. /\ j \in Indices /\ r.key \in Keys
          /\ InInterval(clock) => j \in {Newest, Newest - 1}
      BY <1>1, IndexBounds
    <2>2. /\ counters'[r.key][j].count = counters[r.key][j].count + 1
          /\ IF counters[r.key][j].count = 0
             THEN counters'[r.key][j].until = clock + Win
             ELSE counters'[r.key][j].until = counters[r.key][j].until
          /\ \A k \in Keys, i \in Indices :
                k # r.key \/ i # j => counters'[k][i] = counters[k][i]
          /\ \A k \in Keys :
                Fixed(k)' = IF k = r.key /\ InInterval(clock)
                            THEN Fixed(k) + 1 ELSE Fixed(k)
      BY <1>1, FilledEffect
    <2>3. UNCHANGED <<clock, mark>> /\ (InInterval(clock)' <=> InInterval(clock))
          /\ Newest' = Newest
      BY <1>1, <1>i DEF Filled, InInterval
    <2>4. Newest \in Int
      BY <1>t DEF Newest, Last
    <2>5. /\ Count(r.key, Newest)' = IF Newest = j THEN Count(r.key, Newest) + 1
                                      ELSE Count(r.key, Newest)
          /\ Count(r.key, Newest - 1)' = IF Newest - 1 = j THEN Count(r.key, Newest - 1) + 1
                                          ELSE Count(r.key, Newest - 1)
      BY <2>1, <2>2, <2>3 DEF Count
    <2>6. ASSUME InInterval(clock) PROVE Tally(r.key)'
      <3> DEFINE a == Count(r.key, Newest)
                 b == Count(r.key, Newest - 1)
      <3>1. /\ Count(r.key, Newest)' + Count(r.key, Newest - 1)' = a + b + 1
            /\ Fixed(r.key)' = Fixed(r.key) + 1
        BY <2>1, <2>2, <2>4, <2>5, <2>6, <1>t
      <3>2. CASE Fixed(r.key) <= a + b
        BY <2>1, <2>3, <3>1, <3>2, <1>t DEF Tally
      <3>3. CASE /\ clock > mark
                 /\ b = 0 \/ mark + Win <= counters[r.key][Newest - 1].until
                 /\ \E l \in Limits : Fixed(r.key) <= a + b + l.req
        <4>1. PICK l \in Limits : Fixed(r.key) <= a + b + l.req
          BY <3>3
        <4>2. Fixed(r.key)' <= Count(r.key, Newest)' + Count(r.key, Newest - 1)' + l.req
          <5>1. a \in Nat /\ b \in Nat /\ l.req \in Nat /\ Fixed(r.key) \in Nat
            BY <2>1, <1>t, LimitNumbers
          <5> HIDE DEF a, b
          <5> QED
            BY <3>1, <4>1, <5>1
        <4>3. \/ Count(r.key, Newest - 1)' = 0
              \/ mark + Win <= counters'[r.key][Newest - 1].until
          <5>1. CASE j = Newest - 1
            <6>1. b = counters[r.key][j].count
              BY <2>1, <5>1 DEF Count
            <6>2. CASE b = 0
              BY <2>2, <3>3, <5>1, <6>1, <6>2, <1>t
            <6>3. CASE b # 0
              BY <2>2, <3>3, <5>1, <6>1, <6>3
            <6> QED
              BY <6>2, <6>3
          <5>2. CASE j # Newest - 1
            <6>1. Count(r.key, Newest - 1)' = b
              BY <2>5, <5>2
            <6>2. Newest - 1 \in Indices
                    => counters'[r.key][Newest - 1] = counters[r.key][Newest - 1]
              BY <2>1, <2>2, <5>2
            <6> QED
              BY <3>3, <6>1, <6>2 DEF Count
          <5> QED
            BY <5>1, <5>2
        <4> QED
          BY <2>3, <3>3, <4>2, <4>3 DEF Tally
      <3>4. Tally(r.key)
        BY <2>1, <2>6 DEF Tallied
      <3> QED
        BY <3>2, <3>3, <3>4 DEF Tally
    <2>7. ASSUME NEW k \in Keys, k # r.key PROVE counters'[k] = counters[k]
      BY <1>1, <2>1, <2>7, <1>t DEF Filled
    <2>8. ASSUME NEW k \in Keys
          PROVE  /\ clock' < mark' => Fixed(k)' = 0
                 /\ IF InInterval(clock)' THEN Tally(k)' ELSE Bounded(k)'
      <3>1. CASE k # r.key
        BY <1>0, <2>2, <2>3, <2>7, <3>1
      <3>2. CASE k = r.key /\ InInterval(clock)
        BY <2>3, <2>6, <3>2, <1>t
      <3>3. CASE k = r.key /\ ~InInterval(clock)
        BY <2>2, <2>3, <3>3 DEF Tallied, Bounded, Times, OneTick
      <3> QED
        BY <3>1, <3>2, <3>3
    <2> QED
      BY <2>8 DEF Tallied
  <1>2. ASSUME NEW k \in Keys, NEW i \in Indices, Cleared(k, i) PROVE Tallied'
    <2>1. UNCHANGED <<clock, mark>>
          /\ counters' = [counters EXCEPT ![k][i] = NoCounter]
          /\ units' = [units EXCEPT ![k]["fixed"] = 0]
      BY <1>2 DEF Cleared
    <2>2. Fixed(k)' = 0 /\ \A x \in Keys : x # k => Fixed(x)' = Fixed(x)
                                               /\ counters'[x] = counters[x]
      BY <2>1, <1>t DEF Fixed, Algorithms
    <2>3. \A x : Count(k, x)' \in Nat
      BY <2>1, <1>t DEF Count, NoCounter
    <2>4. Tally(k)' /\ Bounded(k)'
      <3>1. 0 <= Count(k, Newest)' + Count(k, Newest - 1)'
        BY <2>3
      <3>2. \E l \in Limits : 0 <= Times' * l.req
        <4>1. DefaultLimit \in Limits /\ DefaultLimit.req \in Nat
          BY LimitNumbers DEF Limits
        <4> QED
          BY <4>1 DEF Times, OneTick
      <3> QED
        BY <2>1, <2>2, <3>1, <3>2, <1>i DEF Tally, Bounded
    <2>5. ASSUME NEW x \in Keys
          PROVE  /\ clock' < mark' => Fixed(x)' = 0
                 /\ IF InInterval(clock)' THEN Tally(x)' ELSE Bounded(x)'
      BY <1>0, <2>1, <2>2, <2>4
    <2> QED
      BY <2>5 DEF Tallied
  <1>3. CASE Aged
    <2>1. /\ clock' = clock + 1 /\ UNCHANGED <<mark, units>> /\ Newest' = Newest
          /\ \A k \in Keys, i \in Indices :
                counters'[k][i] = Unexpired(counters[k][i], NoCounter)
      BY <1>3, <1>i DEF Aged
    <2>2. \A k \in Keys : Fixed(k)' = Fixed(k)
      BY <2>1 DEF Fixed
    <2>3. /\ Newest \in Int /\ Newest * Win \in Int
          /\ InInterval(clock) => Last < Newest * Win + Win
      <3>1. InInterval(clock) => Last \in Nat
        BY <1>t DEF Last
      <3>2. Newest \in Int
        BY <1>t DEF Newest, Last
      <3>3. Newest * Win \in Int
        BY <3>2, <1>t
      <3>4. InInterval(clock) => Last < Newest * Win + Win
        BY <3>1, <1>t, Bounds DEF Newest
      <3> QED
        BY <3>2, <3>3, <3>4
    <2>4. ASSUME NEW k \in Keys
          PROVE  /\ clock' < mark' => Fixed(k)' = 0
                 /\ IF InInterval(clock)' THEN Tally(k)' ELSE Bounded(k)'
      <3> DEFINE a == Count(k, Newest)
                 b == Count(k, Newest - 1)
      <3>0. /\ clock' < mark' => Fixed(k)' = 0
            /\ InInterval(clock)' <=> InInterval(clock + 1)
        BY <2>1, <2>2, <1>t DEF Tallied, InInterval
      <3>1. CASE ~InInterval(clock + 1)
        <4>1. Bounded(k)
          BY <1>t, TallyBounds
        <4> QED
          BY <2>2, <3>0, <3>1, <4>1 DEF Bounded, Times, OneTick
      <3>2. CASE InInterval(clock + 1) /\ clock < mark
        <4>1. Fixed(k)' = 0
          BY <2>2, <3>2 DEF Tallied
        <4>2. Count(k, Newest)' \in Nat /\ Count(k, Newest - 1)' \in Nat
          <5>1. \A i \in Indices : counters'[k][i].count \in Nat
            BY <2>1, <1>t DEF Unexpired, NoCounter
          <5> QED
            BY <5>1 DEF Count
        <4> QED
          BY <3>0, <3>2, <4>1, <4>2 DEF Tally
      <3>3. CASE InInterval(clock + 1) /\ mark <= clock
        <4>1. InInterval(clock) /\ clock + 1 - mark < Win - MaxStale - Skew
          BY <3>3, <1>t
        <4>2. Tally(k) /\ a \in Nat /\ b \in Nat /\ Fixed(k) \in Nat
          BY <4>1, <1>t DEF Tallied
        <4>3. Count(k, Newest)' = a
          <5>1. ASSUME Newest \in Indices, counters[k][Newest].count > 0
                PROVE  counters[k][Newest].until > clock + 1
            <6>1. Newest * Win + Win <= counters[k][Newest].until + Skew
              BY <5>1 DEF Lasting
            <6>2. Last = mark + Win - MaxStale - 1
              BY DEF Last
            <6>3. counters[k][Newest].until \in Nat
              BY <5>1, <1>t
            <6> HIDE DEF a, b
            <6> QED
              BY <2>3, <4>1, <6>1, <6>2, <6>3, <1>t
          <5>2. ASSUME Newest \in Indices
                PROVE  counters'[k][Newest].count = counters[k][Newest].count
            BY <2>1, <5>1, <5>2, <1>t DEF Unexpired, NoCounter
          <5> QED
            BY <2>1, <5>2 DEF Count
        <4>4. \/ Count(k, Newest - 1)' = b
                 /\ (b # 0 => counters'[k][Newest' - 1] = counters[k][Newest - 1])
              \/ /\ Count(k, Newest - 1)' = 0
                 /\ b # 0 => counters[k][Newest - 1].until <= clock + 1
          BY <2>1, <1>t DEF Count, Unexpired, NoCounter
        <4>5. PICK l2 \in Limits : b <= l2.req
          BY <1>t, CountWithinLimit
        <4>6. clock' > mark' /\ \A l \in Limits : l.req \in Nat
          BY <2>1, <3>3, <1>t, LimitNumbers
        <4>7. ASSUME \/ Count(k, Newest - 1)' = 0
                     \/ mark' + Win <= counters'[k][Newest' - 1].until,
                     \E l \in Limits :
                        Fixed(k)' <= Count(k, Newest)' + Count(k, Newest - 1)' + l.req
              PROVE  Tally(k)'
          BY <4>6, <4>7 DEF Tally
        <4>8. ASSUME Fixed(k) <= a + b PROVE Tally(k)'
          <5>1. CASE Count(k, Newest - 1)' = b
            <6>1. Fixed(k)' <= Count(k, Newest)' + Count(k, Newest - 1)'
              BY <2>2, <4>3, <4>8, <5>1
            <6> QED
              BY <6>1 DEF Tally
          <5>2. CASE Count(k, Newest - 1)' = 0
            <6>1. Fixed(k)' <= Count(k, Newest)' + Count(k, Newest - 1)' + l2.req
              <7> HIDE DEF a, b
              <7> QED
                BY <2>2, <4>2, <4>3, <4>5, <4>6, <4>8, <5>2
            <6> QED
              BY <4>7, <5>2, <6>1
          <5> QED
            BY <4>4, <5>1, <5>2
        <4>9. ASSUME clock > mark,
                     b = 0 \/ mark + Win <= counters[k][Newest - 1].until,
                     \E l \in Limits : Fixed(k) <= a + b + l.req
              PROVE  Tally(k)'
          <5>1. \/ Count(k, Newest - 1)' = b /\ b = 0
                \/ /\ Count(k, Newest - 1)' = b /\ b # 0
                   /\ mark' + Win <= counters'[k][Newest' - 1].until
            <6>1. CASE b = 0
              BY <4>4, <6>1
            <6>2. CASE b # 0
              <7>1. Newest - 1 \in Indices /\ counters[k][Newest - 1].until \in Nat
                BY <6>2, <1>t DEF Count
              <7>2. counters[k][Newest - 1].until > clock + 1
                BY <4>1, <4>9, <6>2, <7>1, <1>t
              <7> QED
                BY <2>1, <4>4, <4>9, <6>2, <7>1, <7>2, <1>t
            <6> QED
              BY <6>1, <6>2
          <5>2. \E l \in Limits :
                   Fixed(k)' <= Count(k, Newest)' + Count(k, Newest - 1)' + l.req
            BY <2>2, <4>3, <4>9, <5>1
          <5> QED
            BY <4>7, <5>1, <5>2
        <4>10. Tally(k)'
          BY <4>2, <4>8, <4>9 DEF Tally
        <4> QED
          BY <3>0, <3>3, <4>10
      <3> QED
        BY <3>1, <3>2, <3>3, <1>t
    <2> QED
      BY <2>4 DEF Tallied
  <1>4. CASE Apart
    BY <1>0, <1>4 DEF Apart, Tallied
  <1> QED
    BY <1>1, <1>2, <1>3, <1>4, CounterCases

LEMMA TalliedInit == ASSUME Init, OneWindow PROVE Tallied
  <1>1. DefaultLimit \in Limits /\ DefaultLimit.req \in Nat
    BY LimitNumbers DEF Limits
  <1> SUFFICES ASSUME NEW k \in Keys
               PROVE  Fixed(k) = 0 /\ Tally(k) /\ Bounded(k)
    BY DEF Tallied
  <1>2. Fixed(k) = 0 /\ \A i : Count(k, i) = 0
    BY DEF Init, Fixed, Algorithms, Count, NoCounter
  <1>3. 0 <= Times * DefaultLimit.req
    BY <1>1 DEF Times
  <1> QED
    BY <1>1, <1>2, <1>3 DEF Tally, Bounded

\* The fixed windows hold across processes and attempts: clocks that differ
\* make two windows overlap, and the older one's counter may expire once while
\* it is still in use, but no more than that.
THEOREM FixedWindowIsBounded ==
    ASSUME OneWindow
    PROVE  Spec => []FixedBound
  <1>1. Init => Tallied
    BY TalliedInit
  <1>2. Structure /\ Singles /\ WithinLimit /\ Lasting /\ Tallied /\ [Next]_vars => Tallied'
    BY TalliedStep
  <1>3. Structure /\ WithinLimit /\ Tallied => FixedBound
    BY TallyBounds DEF Structure, Bounded, Times, Fixed, FixedBound
  <1> QED
    BY <1>1, <1>2, <1>3, StructureInvariant, SinglesInvariant, CountersInvariant, PTL
       DEF Spec
====
