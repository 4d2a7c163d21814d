---- MODULE RedisProofs ----
(***************************************************************************)
(* Theorems about RedisLimiter for every number of processes, attempts and *)
(* keys, every limit, and every length of time: the types, the bound of    *)
(* the sliding window, its RetryAfter, and Reset on one node.              *)
(***************************************************************************)
EXTENDS RedisLimiter, SetLemmas

Requests == {m.req : m \in net} \cup {call[p].req : p \in Underway}

\* A request was sent lately, with a reading of a clock that is not too far
\* ahead.
Punctual ==
    \A r \in Requests :
        /\ r.sent <= clock /\ clock - r.sent <= MaxStale
        /\ r.sent <= r.now /\ r.now <= r.sent + Skew

\* A nonce belongs to one request,
Distinct == \A r, s \in Requests : r.nonce = s.nonce => r = s

\* and if an entry bears the nonce of a request under way, then the whole
\* batch is in the log of its key, with the time of the request.
Whole(r, k) ==
    \A e \in logs[k].members : e.nonce = r.nonce =>
        k = r.key /\ e.score = r.now /\ Members(r) \subseteq logs[k].members

Owned == \A r \in Requests, k \in Keys : Whole(r, k)

Finite == \A k \in Keys : IsFiniteSet(logs[k].members)

Structure == TypeOK /\ Punctual /\ Distinct /\ Owned /\ Finite

----------------------------------------------------------------------------
(* Data. *)

\* A limit that is in force is a pair of positive numbers: SetLimit's checks.
LEMMA LimitNumbers ==
    \A l \in Limits : l.req \in Nat /\ l.win \in Nat /\ l.req > 0 /\ l.win > 0
  BY RedisAssumption DEF Limits, ValidLimit

\* A batch that AllowN accepts is a positive number.
LEMMA AmountNumbers == \A n \in Amounts : n \in Nat /\ n > 0
  BY RedisAssumption DEF Amounts

LEMMA BoundNumbers ==
    MaxTime \in Nat /\ MaxStale \in Nat /\ Skew \in Nat /\ MaxTries \in Nat /\ MaxTries > 0
  BY RedisAssumption

\* The index of a window is not beyond the time it is computed from.
LEMMA Quotient ==
    ASSUME NEW a \in Nat, NEW b \in Nat, b > 0
    PROVE  a \div b \in Nat /\ a \div b <= a
  OBVIOUS

\* An update of a function of functions.
LEMMA NestedUpdate ==
    ASSUME NEW A, NEW B, NEW V, NEW f \in [A -> [B -> V]],
           NEW a \in A, NEW b \in B, NEW v \in V
    PROVE  /\ [f EXCEPT ![a][b] = v] \in [A -> [B -> V]]
           /\ [f EXCEPT ![a][b] = v][a][b] = v
           /\ \A x \in A, y \in B :
                 x # a \/ y # b => [f EXCEPT ![a][b] = v][x][y] = f[x][y]
  OBVIOUS

\* The fields of a request.
LEMMA RequestFields ==
    ASSUME NEW r \in Request
    PROVE  /\ r.key \in Keys /\ r.op \in Algorithms /\ r.lim \in Limits
           /\ r.n \in Nat /\ r.n > 0 /\ r.now \in Nat
           /\ r.sent \in Nat /\ r.nonce \in Nonces
           /\ r.lim.req \in Nat /\ r.lim.req > 0
           /\ r.lim.win \in Nat /\ r.lim.win > 0
  BY LimitNumbers, AmountNumbers, BoundNumbers DEF Request, Time

\* The members that one request writes are as many as its units.
LEMMA MembersCount ==
    ASSUME NEW r \in Request
    PROVE  /\ IsFiniteSet(Members(r)) /\ Cardinality(Members(r)) = r.n
           /\ Members(r) \subseteq Member
  <1> DEFINE S == Members(r)
             f == [i \in 1..r.n |-> [nonce |-> r.nonce, i |-> i, score |-> r.now]]
  <1>r. r.n \in Nat /\ r.now \in Nat /\ r.nonce \in Nonces
    BY RequestFields
  <1>1. f \in [1..r.n -> S] /\ \A e \in S : \E i \in 1..r.n : f[i] = e
    BY DEF Members
  <1>2. \A i, j \in 1..r.n : f[i] = f[j] => i = j
    <2> SUFFICES ASSUME NEW i \in 1..r.n, NEW j \in 1..r.n, f[i] = f[j]
                 PROVE  i = j
      OBVIOUS
    <2>1. f[i].i = i /\ f[j].i = j
      OBVIOUS
    <2> QED
      BY <2>1
  <1>3. S \subseteq Member
    BY <1>r DEF Members, Member
  <1> HIDE DEF S, f
  <1>4. IsFiniteSet(S) /\ Cardinality(S) = r.n
    BY <1>r, <1>1, <1>2, CountByNumbers
  <1> QED
    BY <1>3, <1>4 DEF S
----------------------------------------------------------------------------
(* Types. *)

\* What a call sends.
Begun(r) ==
    /\ r \in Request
    /\ r.sent = clock /\ r.now <= clock + Skew /\ clock <= r.now
    /\ r.nonce \notin UsedNonces /\ (r.op = "fixed" => r.n = 1)
    /\ net' = net \cup {[req |-> r, try |-> 1]}
    /\ \E p \in Procs :
          call' = [call EXCEPT ![p] = [req |-> r, try |-> 1, answer |-> "none"]]
    /\ UNCHANGED <<clock, offset, custom, logs, counters, reset, history>>

LEMMA BeginEffect ==
    ASSUME TypeOK, NEW p \in Procs, NEW op \in Algorithms, NEW k \in Keys,
           NEW n \in Amounts, Begin(p, op, k, n), op = "fixed" => n = 1
    PROVE  \E r \in Request : Begun(r)
  <1>1. PICK x \in Nonces \ UsedNonces :
          LET r == [op |-> op, key |-> k, n |-> n, lim |-> custom[p][k],
                    now |-> clock + offset[p], sent |-> clock, nonce |-> x]
          IN  /\ call' = [call EXCEPT ![p] =
                             [req |-> r, try |-> 1, answer |-> "none"]]
              /\ net' = net \cup {[req |-> r, try |-> 1]}
              /\ UNCHANGED <<clock, offset, custom, logs, counters, reset, history>>
    BY DEF Begin
  <1> DEFINE r == [op |-> op, key |-> k, n |-> n, lim |-> custom[p][k],
                   now |-> clock + offset[p], sent |-> clock, nonce |-> x]
  <1>2. /\ clock \in Time /\ clock \in Nat /\ offset[p] \in 0..Skew
        /\ custom[p][k] \in Limits
    BY BoundNumbers DEF TypeOK, Time
  <1>3. r \in Request /\ clock <= r.now /\ r.now <= clock + Skew
    BY <1>2, BoundNumbers DEF Request
  <1> QED
    BY <1>1, <1>3 DEF Begun

\* Every call begins in the same way.
LEMMA BeginCases ==
    ASSUME TypeOK, NEW p \in Procs, NEW k \in Keys,
           \/ \E n \in CountArgs : BeginAllowN(p, k, n)
           \/ BeginAllowWithInfo(p, k)
           \/ BeginFixedWindow(p, k)
    PROVE  \E r \in Request : Begun(r)
  <1>1. \A n \in CountArgs : n > 0 => n \in Amounts
    BY DEF Amounts
  <1>2. 1 \in Amounts /\ {"sliding", "fixed"} = Algorithms
    BY DEF Amounts, Algorithms
  <1> QED
    BY <1>1, <1>2, BeginEffect DEF BeginAllowN, BeginAllowWithInfo, BeginFixedWindow

\* What an entry is after pruning.
LEMMA ValidEntries ==
    ASSUME TypeOK, Finite, NEW r \in Request
    PROVE  /\ Valid(r) \in SUBSET logs[r.key].members
           /\ Valid(r) \subseteq Member /\ IsFiniteSet(Valid(r))
           /\ Cardinality(Valid(r)) \in Nat
           /\ \A e \in Valid(r) : e.score \in Nat
  <1>1. r.key \in Keys
    BY RequestFields
  <1>2. Valid(r) \in SUBSET logs[r.key].members
    BY DEF Valid
  <1>3. logs[r.key].members \subseteq Member /\ IsFiniteSet(logs[r.key].members)
    BY <1>1 DEF TypeOK, Finite
  <1>4. IsFiniteSet(Valid(r)) /\ Cardinality(Valid(r)) \in Nat
    BY <1>2, <1>3, FS_Subset, FS_CardinalityType
  <1> QED
    BY <1>2, <1>3, <1>4 DEF Member

\* The time that the denial of a single unit names: an entry is valid, and
\* the time counts from the oldest one.
LEMMA DenialTime ==
    ASSUME TypeOK, Finite, NEW r \in Request, Cardinality(Valid(r)) >= r.lim.req
    PROVE  /\ RetryAt(r) \in Nat
           /\ \E e \in Valid(r) : e.score + r.lim.win <= RetryAt(r)
  <1> DEFINE scores == {e.score : e \in Valid(r)}
  <1>1. Valid(r) # {}
    <2>1. Cardinality({}) = 0 /\ r.lim.req > 0 /\ r.lim.req \in Nat
      BY FS_EmptySet, RequestFields
    <2>2. ASSUME Valid(r) = {} PROVE 0 >= r.lim.req
      BY <2>1, <2>2
    <2> QED
      BY <2>1, <2>2
  <1>2. scores \subseteq Nat /\ scores # {}
    BY <1>1, ValidEntries
  <1>3. PICK t \in scores : \A u \in scores : t <= u
    BY <1>2, Least
  <1>4. \A e \in Valid(r) : t <= e.score
    BY <1>3
  <1>5. oldest(r) \in scores
    BY <1>3, <1>4 DEF oldest
  <1>6. oldest(r) \in Nat /\ \E e \in Valid(r) : e.score = oldest(r)
    BY <1>2, <1>5
  <1>7. /\ RetryAt(r) \in Nat /\ RetryAt(r) >= oldest(r) + r.lim.win
    BY <1>6, RequestFields DEF RetryAt
  <1> QED
    BY <1>6, <1>7

\* A single unit is denied by a log that has as many as its limit, or more.
LEMMA Denied ==
    ASSUME TypeOK, Finite, NEW r \in Request, ~SlidingFits(r), r.n = 1
    PROVE  Cardinality(Valid(r)) \in Nat /\ Cardinality(Valid(r)) >= r.lim.req
  <1>1. Cardinality(Valid(r)) \in Nat
    BY ValidEntries, FS_CardinalityType
  <1> QED
    BY <1>1, RequestFields DEF SlidingFits

\* The outcomes of the two scripts.
Admitted(r) ==
    /\ SlidingFits(r)
    /\ logs' = [logs EXCEPT ![r.key] = [members |-> Valid(r) \cup Members(r),
                                        until |-> clock + r.lim.win]]
    /\ units' \in {units, [units EXCEPT ![r.key]["sliding"] = @ + r.n]}
    /\ units' # units =>
          InInterval(clock) /\ ~ (Members(r) \subseteq logs[r.key].members)
    /\ advice' = [advice EXCEPT ![r.key] = NoAdvice]
    /\ UNCHANGED <<counters, clock, mark>>

Refused(r) ==
    /\ ~SlidingFits(r)
    /\ \/ Valid(r) = {} /\ logs' = [logs EXCEPT ![r.key] = NoLog]
       \/ Valid(r) # {} /\ logs' = [logs EXCEPT ![r.key] =
                              [members |-> Valid(r), until |-> logs[r.key].until]]
    /\ advice' = Advised(r)
    /\ UNCHANGED <<counters, units, clock, mark>>

FixedRun(r) ==
    /\ \/ UNCHANGED counters
       \/ \E t \in {clock + r.lim.win, counters[r.key][Index(r)].until} :
             counters' = [counters EXCEPT ![r.key][Index(r)] =
                             [count |-> @.count + 1, until |-> t]]
    /\ units' \in {units, [units EXCEPT ![r.key]["fixed"] = @ + r.n]}
    /\ UNCHANGED <<logs, advice, clock, mark>>

LEMMA SlidingCases ==
    ASSUME NEW m, Execute(m), RunSliding(m)
    PROVE  Admitted(m.req) \/ Refused(m.req)
  <1>1. m.req.op = "sliding" /\ UNCHANGED <<counters, clock, mark>>
    BY DEF Execute, RunSliding
  <1>2. CASE SlidingFits(m.req)
    <2>1. /\ logs' = [logs EXCEPT ![m.req.key] =
                         [members |-> Valid(m.req) \cup Members(m.req),
                          until |-> clock + m.req.lim.win]]
          /\ IF Members(m.req) \subseteq logs[m.req.key].members
             THEN UNCHANGED units ELSE Counted(m.req)
          /\ advice' = [advice EXCEPT ![m.req.key] = NoAdvice]
      BY <1>2 DEF RunSliding
    <2> QED
      BY <1>1, <1>2, <2>1 DEF Admitted, Counted
  <1>3. CASE ~SlidingFits(m.req)
    BY <1>1, <1>3 DEF RunSliding, Refused
  <1> QED
    BY <1>2, <1>3

LEMMA FixedCases ==
    ASSUME NEW m, Execute(m), RunFixed(m) PROVE FixedRun(m.req)
  <1>1. m.req.op = "fixed" /\ UNCHANGED <<logs, advice, clock, mark>>
    BY DEF Execute, RunFixed
  <1>2. CASE FixedFits(m.req)
    BY <1>1, <1>2 DEF RunFixed, FixedRun, Counted
  <1>3. CASE ~FixedFits(m.req)
    BY <1>1, <1>3 DEF RunFixed, FixedRun
  <1> QED
    BY <1>2, <1>3

\* What a script does to the variables that it does not compute with.
LEMMA ExecuteTypes ==
    ASSUME TypeOK, NEW m \in net, Execute(m)
    PROVE  /\ m.req \in Request
           /\ net' \subseteq Attempt /\ call' \in [Procs -> Call \cup {NoCall}]
           /\ UNCHANGED <<clock, offset, custom, mark>>
  <1>1. m \in Attempt /\ m.req \in Request
    BY DEF TypeOK, Attempt
  <1>2. PICK answer \in {"allowed", "denied"} : Reply(m, answer)
    BY DEF Execute, RunSliding, RunFixed
  <1>3. ASSUME NEW p \in Procs PROVE call'[p] \in Call \cup {NoCall}
    <2>1. call[p] \in Call \cup {NoCall}
      BY DEF TypeOK
    <2> QED
      BY <1>2, <2>1 DEF Reply, Call, Answers
  <1>4. call' \in [Procs -> Call \cup {NoCall}]
    BY <1>2, <1>3 DEF Reply
  <1> QED
    BY <1>1, <1>4 DEF Execute, TypeOK

LEMMA NotedTypes ==
    ASSUME TypeOK, NEW k, NEW x \in PhysicalKeys, Noted(k, x) \/ UNCHANGED reset
    PROVE  reset' \in [key : Keys, node : Nodes, left : SUBSET PhysicalKeys,
                       written : SUBSET PhysicalKeys] \cup {NoReset}
  <1> DEFINE R == [key : Keys, node : Nodes, left : SUBSET PhysicalKeys,
                   written : SUBSET PhysicalKeys]
  <1>1. \/ UNCHANGED reset
        \/ /\ reset # NoReset
           /\ reset' = [reset EXCEPT !.written = @ \cup {x}]
    BY DEF Noted
  <1>2. reset \in R \cup {NoReset}
    BY DEF TypeOK
  <1>3. ASSUME reset \in R PROVE [reset EXCEPT !.written = @ \cup {x}] \in R
    BY <1>3
  <1> QED
    BY <1>1, <1>2, <1>3

LEMMA TypesStep == TypeOK /\ Punctual /\ Finite /\ [Next]_vars => TypeOK'
  <1> SUFFICES ASSUME TypeOK, Punctual, Finite, [Next]_vars PROVE TypeOK'
    OBVIOUS
  <1>t. TypeOK
    OBVIOUS
  <1>1. ASSUME NEW r \in Request, Begun(r) PROVE TypeOK'
    <2>1. 1 \in 1..MaxTries
      BY BoundNumbers
    <2>2. [req |-> r, try |-> 1] \in Attempt
      BY <2>1 DEF Attempt
    <2>3. [req |-> r, try |-> 1, answer |-> "none"] \in Call
      BY <2>1 DEF Call, Answers
    <2> QED
      BY <1>1, <2>2, <2>3 DEF Begun, TypeOK, history
  <1>2. ASSUME NEW p \in Procs, Retry(p) PROVE TypeOK'
    <2>1. call[p] \in Call /\ call[p].try + 1 \in 1..MaxTries
      BY <1>2, BoundNumbers DEF Retry, TypeOK, Call
    <2>2. [req |-> call[p].req, try |-> call[p].try + 1] \in Attempt
      BY <2>1 DEF Attempt, Call
    <2>3. [call[p] EXCEPT !.try = @ + 1, !.answer = "none"] \in Call
      BY <2>1 DEF Call, Answers
    <2>4. call' = [call EXCEPT ![p] = [call[p] EXCEPT !.try = @ + 1, !.answer = "none"]]
      BY <1>2 DEF Retry
    <2> QED
      BY <1>2, <2>2, <2>3, <2>4 DEF Retry, TypeOK, history
  <1>3. ASSUME NEW p \in Procs, Finish(p) PROVE TypeOK'
    BY <1>3 DEF Finish, TypeOK, history
  <1>4. ASSUME NEW p \in Procs, NEW k \in Keys, NEW l \in LimitArgs, SetLimit(p, k, l)
        PROVE  TypeOK'
    BY <1>4 DEF SetLimit, Limits, TypeOK, history
  <1>5. ASSUME NEW m \in net, Execute(m), RunSliding(m) PROVE TypeOK'
    <2>1. PICK r \in Request : r = m.req
      BY <1>5, ExecuteTypes
    <2>2. /\ r.key \in Keys /\ clock + r.lim.win \in Nat
          /\ logs[r.key].until \in Nat /\ r.n \in Nat /\ r.lim \in Limits
      BY RequestFields, BoundNumbers DEF TypeOK, Time
    <2>3. Valid(r) \cup Members(r) \subseteq Member /\ Valid(r) \subseteq Member
      BY ValidEntries, MembersCount
    <2>4. Admitted(r) \/ Refused(r)
      BY <1>5, <2>1, SlidingCases
    <2>5. PICK l \in [members : SUBSET Member, until : Nat] :
             logs' = [logs EXCEPT ![r.key] = l]
      <3>1. NoLog \in [members : SUBSET Member, until : Nat]
        BY DEF NoLog
      <3> QED
        BY <2>2, <2>3, <2>4, <3>1 DEF Admitted, Refused
    <2>6. units' \in [Keys -> [Algorithms -> Nat]]
      <3>1. /\ units \in [Keys -> [Algorithms -> Nat]] /\ "sliding" \in Algorithms
            /\ units[r.key]["sliding"] + r.n \in Nat
        BY <2>2 DEF Algorithms, TypeOK
      <3>2. [units EXCEPT ![r.key]["sliding"] = @ + r.n] \in [Keys -> [Algorithms -> Nat]]
        BY <2>2, <3>1, NestedUpdate
      <3> QED
        BY <2>4, <3>1, <3>2 DEF Admitted, Refused
    <2>7. advice' \in [Keys -> Advice \cup {NoAdvice}]
      <3>1. ASSUME ~SlidingFits(r), r.n = 1
            PROVE  [lim |-> r.lim, at |-> RetryAt(r),
                    size |-> Cardinality(Valid(r))] \in Advice
        BY <2>2, <3>1, Denied, DenialTime DEF Advice
      <3> QED
        BY <2>4, <3>1 DEF Admitted, Refused, Advised, TypeOK
    <2>8. counters' \in [Keys -> [Indices -> [count : Nat, until : Nat]]]
      BY <2>4 DEF Admitted, Refused, TypeOK
    <2>9. reset' \in [key : Keys, node : Nodes, left : SUBSET PhysicalKeys,
                      written : SUBSET PhysicalKeys] \cup {NoReset}
      <3>1. <<"sliding", 0>> \in PhysicalKeys
        BY DEF PhysicalKeys
      <3> QED
        BY <1>5, <3>1, NotedTypes DEF RunSliding
    <2> QED
      BY <1>5, <2>5, <2>6, <2>7, <2>8, <2>9, ExecuteTypes DEF TypeOK
  <1>6. ASSUME NEW m \in net, Execute(m), RunFixed(m) PROVE TypeOK'
    <2>1. PICK r \in Request : r = m.req /\ r \in Requests
      BY <1>6, ExecuteTypes DEF Requests
    <2>2. Index(r) \in Indices
      <3>1. /\ r.now \in Nat /\ r.lim.win \in Nat /\ r.lim.win > 0
            /\ clock \in Nat /\ clock <= MaxTime /\ r.sent \in Nat
        BY RequestFields, BoundNumbers DEF TypeOK, Time
      <3>2. r.sent <= clock /\ r.now <= r.sent + Skew
        BY <2>1 DEF Punctual
      <3>3. Index(r) \in Nat /\ Index(r) <= r.now
        BY <3>1, Quotient DEF Index
      <3> QED
        BY <3>1, <3>2, <3>3, BoundNumbers DEF Indices
    <2>3. /\ r.key \in Keys /\ clock + r.lim.win \in Nat /\ r.n \in Nat
          /\ counters[r.key][Index(r)] \in [count : Nat, until : Nat]
      BY <2>2, RequestFields, BoundNumbers DEF TypeOK, Time
    <2>4. FixedRun(r)
      BY <1>6, <2>1, FixedCases
    <2>5. counters' \in [Keys -> [Indices -> [count : Nat, until : Nat]]]
      <3>1. \A t \in Nat : [count |-> counters[r.key][Index(r)].count + 1, until |-> t]
                             \in [count : Nat, until : Nat]
        BY <2>3
      <3>2. /\ counters \in [Keys -> [Indices -> [count : Nat, until : Nat]]]
            /\ counters[r.key][Index(r)].until \in Nat
        BY <2>3 DEF TypeOK
      <3>3. \A t \in Nat :
               [counters EXCEPT ![r.key][Index(r)] = [count |-> @.count + 1, until |-> t]]
                  \in [Keys -> [Indices -> [count : Nat, until : Nat]]]
        BY <2>2, <2>3, <3>1, <3>2, NestedUpdate
      <3>4. CASE UNCHANGED counters
        BY <3>2, <3>4
      <3>5. ASSUME ~UNCHANGED counters
            PROVE  \E t \in Nat : counters' =
                      [counters EXCEPT ![r.key][Index(r)] =
                          [count |-> @.count + 1, until |-> t]]
        BY <2>3, <2>4, <3>2, <3>5 DEF FixedRun
      <3> QED
        BY <3>3, <3>4, <3>5
    <2>6. units' \in [Keys -> [Algorithms -> Nat]]
      <3>1. /\ units \in [Keys -> [Algorithms -> Nat]] /\ "fixed" \in Algorithms
            /\ units[r.key]["fixed"] + r.n \in Nat
        BY <2>3 DEF Algorithms, TypeOK
      <3>2. [units EXCEPT ![r.key]["fixed"] = @ + r.n] \in [Keys -> [Algorithms -> Nat]]
        BY <2>3, <3>1, NestedUpdate
      <3> QED
        BY <2>4, <3>1, <3>2 DEF FixedRun
    <2>7. reset' \in [key : Keys, node : Nodes, left : SUBSET PhysicalKeys,
                      written : SUBSET PhysicalKeys] \cup {NoReset}
      <3>1. <<"fixed", Index(r)>> \in PhysicalKeys
        BY <2>2 DEF PhysicalKeys
      <3> QED
        BY <1>6, <2>1, <3>1, NotedTypes DEF RunFixed
    <2> QED
      BY <1>6, <2>4, <2>5, <2>6, <2>7, ExecuteTypes DEF FixedRun, TypeOK
  <1>7. ASSUME NEW k \in Keys, ResetBegin(k) PROVE TypeOK'
    BY <1>7 DEF ResetBegin, Found, TypeOK, history
  <1>8. CASE ResetStep
    <2>1. CASE ResetDelete
      <3>1. PICK x \in reset.left \cup Found(reset.key, reset.node) :
              /\ Deleted(reset.key, x)
              /\ reset' = [reset EXCEPT !.left = @ \ {x}, !.written = @ \ {x}]
              /\ UNCHANGED <<clock, offset, custom, net, call, mark, advice>>
        BY <2>1 DEF ResetDelete
      <3>2. /\ reset.key \in Keys /\ reset.left \subseteq PhysicalKeys
            /\ x \in PhysicalKeys
            /\ reset' \in [key : Keys, node : Nodes, left : SUBSET PhysicalKeys,
                           written : SUBSET PhysicalKeys]
        BY <1>8, <3>1 DEF ResetStep, Found, TypeOK
      <3>3. /\ x[1] \in Algorithms
            /\ x[1] # "sliding" => x[2] \in Indices
        BY <3>2 DEF PhysicalKeys, Algorithms
      <3>4. /\ NoLog \in [members : SUBSET Member, until : Nat]
            /\ NoCounter \in [count : Nat, until : Nat]
        BY DEF NoLog, NoCounter
      <3>5. /\ logs' \in [Keys -> [members : SUBSET Member, until : Nat]]
            /\ counters' \in [Keys -> [Indices -> [count : Nat, until : Nat]]]
        <4>1. ASSUME x[1] # "sliding"
              PROVE  [counters EXCEPT ![reset.key][x[2]] = NoCounter]
                        \in [Keys -> [Indices -> [count : Nat, until : Nat]]]
          BY <4>1, <3>2, <3>3, <3>4, NestedUpdate DEF TypeOK
        <4>2. CASE x[1] = "sliding"
          <5>1. logs' = [logs EXCEPT ![reset.key] = NoLog] /\ UNCHANGED counters
            BY <3>1, <4>2 DEF Deleted
          <5> QED
            BY <3>2, <3>4, <5>1 DEF TypeOK
        <4> QED
          BY <3>1, <4>1, <4>2 DEF Deleted, TypeOK
      <3>6. units' \in [Keys -> [Algorithms -> Nat]]
        BY <3>1, <3>2, <3>3 DEF Deleted, TypeOK
      <3> QED
        BY <3>1, <3>2, <3>5, <3>6 DEF TypeOK
    <2>2. CASE ResetReturn
      BY <2>2 DEF ResetReturn, TypeOK, history
    <2> QED
      BY <1>8, <2>1, <2>2 DEF ResetStep
  <1>9. CASE Tick
    <2>1. clock' \in Time
      BY <1>9, BoundNumbers DEF Tick, TypeOK, Time
    <2>2. \A k \in Keys : Unexpired(logs[k], NoLog)
                            \in [members : SUBSET Member, until : Nat]
      BY DEF Unexpired, NoLog, TypeOK
    <2>3. \A k \in Keys, i \in Indices :
             Unexpired(counters[k][i], NoCounter) \in [count : Nat, until : Nat]
      BY DEF Unexpired, NoCounter, TypeOK
    <2> QED
      BY <1>9, <2>1, <2>2, <2>3 DEF Tick, TypeOK, history
  <1>10. CASE UNCHANGED vars
    BY <1>10 DEF vars, TypeOK
  <1> QED
    BY <1>1, <1>2, <1>3, <1>4, <1>5, <1>6, <1>7, <1>8, <1>9, <1>10, BeginCases
       DEF Next, Client, Receive, GiveUp, Execute
----------------------------------------------------------------------------
(* What a step does to the requests under way and to the logs. *)

Still == UNCHANGED <<clock, mark, logs, units, advice>>

\* Reset deletes the log of k, or a counter of it.
Erased(k) ==
    /\ \/ UNCHANGED logs /\ \A j \in Keys : units'[j]["sliding"] = units[j]["sliding"]
       \/ /\ logs' = [logs EXCEPT ![k] = NoLog]
          /\ \A j \in Keys : units'[j]["sliding"] = IF j = k THEN 0 ELSE units[j]["sliding"]
    /\ UNCHANGED <<clock, mark, advice>>

Ticked ==
    /\ clock' = clock + 1
    /\ \A r \in Requests' : clock - r.sent < MaxStale
    /\ logs' = [k \in Keys |-> Unexpired(logs[k], NoLog)]
    /\ UNCHANGED <<mark, units, advice>>

LEMMA RequestsKept ==
    ASSUME TypeOK, \A m \in net' : m.req \in Requests,
           \A p \in Procs : call'[p] # NoCall =>
              call[p] # NoCall /\ call'[p].req = call[p].req
    PROVE  Requests' \subseteq Requests
  BY DEF Requests, Underway

LEMMA StepCases ==
    ASSUME TypeOK, [Next]_vars
    PROVE  \/ \E r \in Request : Begun(r)
           \/ /\ Requests' \subseteq Requests
              /\ \/ Still
                 \/ \E r \in Request : r \in Requests
                       /\ (Admitted(r) \/ Refused(r) \/ FixedRun(r))
                 \/ \E k \in Keys : Erased(k)
                 \/ Ticked
  <1> DEFINE Goal == \/ \E r \in Request : Begun(r)
                     \/ /\ Requests' \subseteq Requests
                        /\ \/ Still
                           \/ \E r \in Request : r \in Requests
                                 /\ (Admitted(r) \/ Refused(r) \/ FixedRun(r))
                           \/ \E k \in Keys : Erased(k)
                           \/ Ticked
  <1>t. /\ call \in [Procs -> Call \cup {NoCall}]
        /\ \A m \in net : m.req \in Requests
        /\ \A p \in Procs : call[p] # NoCall => call[p].req \in Requests
    BY DEF TypeOK, Requests, Underway
  <1>1. ASSUME NEW p \in Procs, Retry(p) PROVE Goal
    <2>1. call' = [call EXCEPT ![p] = [call[p] EXCEPT !.try = @ + 1, !.answer = "none"]]
      BY <1>1 DEF Retry
    <2>2. call[p] \in Call /\ call[p] # NoCall
      BY <1>1, <1>t DEF Retry
    <2>3. \A q \in Procs : call'[q] # NoCall =>
             call[q] # NoCall /\ call'[q].req = call[q].req
      BY <2>1, <2>2, <1>t DEF Call
    <2>4. \A m \in net' : m.req \in Requests
      BY <1>1, <2>2, <1>t DEF Retry
    <2> QED
      BY <1>1, <2>3, <2>4, RequestsKept DEF Retry, Still, history
  <1>2. ASSUME NEW p \in Procs, Finish(p) PROVE Goal
    <2>1. \A q \in Procs : call'[q] # NoCall =>
             call[q] # NoCall /\ call'[q].req = call[q].req
      BY <1>2, <1>t DEF Finish
    <2> QED
      BY <1>2, <2>1, <1>t, RequestsKept DEF Finish, Still, history
  <1>3. ASSUME UNCHANGED <<net, call>> PROVE Requests' \subseteq Requests
    BY <1>3, <1>t, RequestsKept
  <1>4. ASSUME NEW m \in net, Execute(m) PROVE Goal
    <2>1. m.req \in Request /\ m.req \in Requests
      BY <1>4, <1>t, ExecuteTypes
    <2>2. PICK answer \in {"allowed", "denied"} : Reply(m, answer)
      BY <1>4 DEF Execute, RunSliding, RunFixed
    <2>3. ASSUME NEW q \in Procs, call'[q] # NoCall
          PROVE  call[q] # NoCall /\ call'[q].req = call[q].req
      <3>1. call[q] # NoCall => call[q] \in Call
        BY <1>t
      <3> QED
        BY <2>2, <2>3, <3>1 DEF Reply, Call
    <2>4. \A x \in net' : x.req \in Requests
      BY <1>4, <1>t DEF Execute
    <2>5. Requests' \subseteq Requests
      BY <2>3, <2>4, RequestsKept
    <2>6. Admitted(m.req) \/ Refused(m.req) \/ FixedRun(m.req)
      BY <1>4, SlidingCases, FixedCases DEF Execute
    <2> QED
      BY <2>1, <2>5, <2>6
  <1>5. CASE ResetStep
    <2>1. CASE ResetReturn
      BY <2>1, <1>3 DEF ResetReturn, Still, history
    <2>2. CASE ResetDelete
      <3>1. PICK x \in reset.left \cup Found(reset.key, reset.node) :
              Deleted(reset.key, x) /\ UNCHANGED <<clock, net, call, mark, advice>>
        BY <2>2 DEF ResetDelete
      <3>2. /\ reset.key \in Keys /\ x \in PhysicalKeys
            /\ units \in [Keys -> [Algorithms -> Nat]] /\ "sliding" \in Algorithms
        BY <1>5, <3>1 DEF ResetStep, Found, TypeOK, Algorithms
      <3>3. x[1] \in Algorithms
        BY <3>2 DEF PhysicalKeys, Algorithms
      <3>4. /\ units'[reset.key][x[1]] = 0
            /\ \A j \in Keys, a \in Algorithms :
                  j # reset.key \/ a # x[1] => units'[j][a] = units[j][a]
        BY <3>1, <3>2, <3>3, NestedUpdate DEF Deleted
      <3>5. CASE x[1] = "sliding"
        <4>1. logs' = [logs EXCEPT ![reset.key] = NoLog]
          BY <3>1, <3>5 DEF Deleted
        <4> QED
          BY <3>1, <3>2, <3>4, <3>5, <4>1, <1>3 DEF Erased
      <3>6. CASE x[1] # "sliding"
        <4>1. UNCHANGED logs
          BY <3>1, <3>6 DEF Deleted
        <4> QED
          BY <3>1, <3>2, <3>4, <3>6, <4>1, <1>3 DEF Erased
      <3> QED
        BY <3>5, <3>6
    <2> QED
      BY <1>5, <2>1, <2>2 DEF ResetStep
  <1>6. CASE Tick
    <2>1. Requests' \subseteq Requests
      BY <1>6, <1>t, RequestsKept DEF Tick
    <2>2. \A r \in Requests' : clock - r.sent < MaxStale
      BY <1>6 DEF Tick, Requests, Underway
    <2> QED
      BY <1>6, <2>1, <2>2 DEF Tick, Ticked, history
  <1>7. ASSUME \/ \E p \in Procs, k \in Keys, l \in LimitArgs : SetLimit(p, k, l)
               \/ \E k \in Keys : ResetBegin(k)
               \/ UNCHANGED vars
        PROVE  Goal
    BY <1>7, <1>3 DEF SetLimit, ResetBegin, Still, vars, history
  <1> QED
    BY <1>1, <1>2, <1>4, <1>5, <1>6, <1>7, BeginCases
       DEF Next, Client, Receive, GiveUp

\* What a call that begins adds to the requests, and that nobody has its nonce.
LEMMA BegunRequests ==
    ASSUME TypeOK, NEW r \in Request, Begun(r)
    PROVE  /\ Requests' \subseteq Requests \cup {r}
           /\ \A s \in Requests : s.nonce # r.nonce
           /\ \A k \in Keys : \A e \in logs[k].members : e.nonce # r.nonce
  <1>1. PICK p \in Procs :
          call' = [call EXCEPT ![p] = [req |-> r, try |-> 1, answer |-> "none"]]
    BY DEF Begun
  <1>2. net' = net \cup {[req |-> r, try |-> 1]}
    BY DEF Begun
  <1>3. Requests' \subseteq Requests \cup {r}
    BY <1>1, <1>2 DEF Requests, Underway, TypeOK
  <1>4. \A s \in Requests : s.nonce # r.nonce
    BY DEF Begun, UsedNonces, Requests
  <1>5. ASSUME NEW k \in Keys, NEW e \in logs[k].members PROVE e.nonce # r.nonce
    <2>1. e.nonce \in UNION {{x.nonce : x \in logs[j].members} : j \in Keys}
      OBVIOUS
    <2> QED
      BY <2>1 DEF Begun, UsedNonces
  <1> QED
    BY <1>3, <1>4, <1>5
----------------------------------------------------------------------------
(* The structure. *)

LEMMA StructureInit == Init => Structure
  <1> SUFFICES ASSUME Init PROVE Structure
    OBVIOUS
  <1>1. Requests = {} /\ \A k \in Keys : logs[k].members = {}
    BY DEF Init, Requests, Underway, NoLog
  <1>2. TypeOK
    <2>1. DefaultLimit \in Limits /\ 0 \in Time
      BY BoundNumbers DEF Limits, Time
    <2>2. /\ NoLog \in [members : SUBSET Member, until : Nat]
          /\ NoCounter \in [count : Nat, until : Nat]
      BY DEF NoLog, NoCounter
    <2> QED
      BY <2>1, <2>2 DEF Init, TypeOK
  <1> QED
    BY <1>1, <1>2, FS_EmptySet DEF Structure, Punctual, Distinct, Owned, Whole, Finite

\* Requests stay lately sent: time does not pass one by.
LEMMA PunctualStep ==
    ASSUME TypeOK, Punctual, [Next]_vars PROVE Punctual'
  <1>n. clock \in Nat /\ MaxStale \in Nat /\ Skew \in Nat
    BY BoundNumbers DEF TypeOK, Time
  <1>1. ASSUME NEW r \in Request, Begun(r) PROVE Punctual'
    <2>1. r.sent = clock /\ clock <= r.now /\ r.now <= clock + Skew /\ clock' = clock
      BY <1>1 DEF Begun
    <2> QED
      BY <1>1, <2>1, <1>n, BegunRequests DEF Punctual
  <1>2. ASSUME Requests' \subseteq Requests, UNCHANGED clock PROVE Punctual'
    BY <1>2 DEF Punctual
  <1>3. ASSUME Requests' \subseteq Requests, Ticked PROVE Punctual'
    <2> SUFFICES ASSUME NEW r \in Requests'
                 PROVE  /\ r.sent <= clock' /\ clock' - r.sent <= MaxStale
                        /\ r.sent <= r.now /\ r.now <= r.sent + Skew
      BY DEF Punctual
    <2>1. r \in Requests /\ clock' = clock + 1 /\ clock - r.sent < MaxStale
      BY <1>3 DEF Ticked
    <2>2. r.sent \in Nat
      BY <2>1, RequestFields DEF Requests, Underway, TypeOK, Attempt, Call
    <2> QED
      BY <2>1, <2>2, <1>n DEF Punctual
  <1> QED
    BY <1>1, <1>2, <1>3, StepCases DEF Still, Admitted, Refused, FixedRun, Erased

LEMMA DistinctStep ==
    ASSUME TypeOK, Distinct, [Next]_vars PROVE Distinct'
  <1>1. ASSUME NEW r \in Request, Begun(r) PROVE Distinct'
    BY <1>1, BegunRequests DEF Distinct
  <1>2. ASSUME Requests' \subseteq Requests PROVE Distinct'
    BY <1>2 DEF Distinct
  <1> QED
    BY <1>1, <1>2, StepCases

\* Entries go in whole batches: those of a request have one time, and are
\* pruned, expire and are deleted together.
LEMMA OwnedStep ==
    ASSUME Structure, [Next]_vars PROVE Owned' /\ Finite'
  <1> USE DEF Structure
  <1>t. /\ logs \in [Keys -> [members : SUBSET Member, until : Nat]]
        /\ \A k \in Keys : IsFiniteSet(logs[k].members)
    BY DEF TypeOK, Finite
  <1>1. ASSUME NEW r \in Request, Begun(r) PROVE Owned' /\ Finite'
    <2>1. UNCHANGED logs
      BY <1>1 DEF Begun
    <2> QED
      BY <1>1, <2>1, BegunRequests DEF Owned, Whole, Finite, Members
  <1>2. ASSUME Requests' \subseteq Requests,
               \A k \in Keys : \/ logs'[k].members = logs[k].members
                               \/ logs'[k].members = {}
        PROVE  Owned' /\ Finite'
    <2>1. Finite'
      BY <1>2, <1>t, FS_EmptySet DEF Finite
    <2>2. ASSUME NEW x \in Requests', NEW k \in Keys PROVE Whole(x, k)'
      <3>1. Whole(x, k)
        BY <1>2, <2>2 DEF Owned
      <3> QED
        BY <1>2, <3>1 DEF Whole, Members
    <2> QED
      BY <2>1, <2>2 DEF Owned
  <1>3. ASSUME Requests' \subseteq Requests, NEW r \in Request, r \in Requests,
               NEW E, IsFiniteSet(E), E = {} \/ E = Members(r),
               logs'[r.key].members = Valid(r) \cup E,
               \A k \in Keys : k # r.key => logs'[k] = logs[k]
        PROVE  Owned' /\ Finite'
    <2>0. r.key \in Keys
      BY RequestFields
    <2>1. IsFiniteSet(Valid(r) \cup E)
      BY <1>3, ValidEntries, FS_Union
    <2>2. Finite'
      BY <1>3, <2>1, <1>t DEF Finite
    <2>3. ASSUME NEW x \in Requests', NEW e \in Valid(r) \cup E, e.nonce = x.nonce
          PROVE  /\ r.key = x.key /\ e.score = x.now
                 /\ Members(x) \subseteq Valid(r) \cup E
      <3>1. x \in Requests
        BY <1>3
      <3>2. CASE e \in Valid(r)
        <4>1. /\ r.key = x.key /\ e.score = x.now
              /\ Members(x) \subseteq logs[r.key].members
          BY <2>0, <2>3, <3>1, <3>2 DEF Owned, Whole, Valid
        <4>2. \A y \in Members(x) : y.score = e.score
          BY <4>1 DEF Members
        <4>3. Members(x) \subseteq Valid(r)
          BY <3>2, <4>1, <4>2 DEF Valid
        <4> QED
          BY <4>1, <4>3
      <3>3. CASE e \in E
        <4>1. e.nonce = r.nonce /\ e.score = r.now /\ E = Members(r)
          BY <1>3, <3>3 DEF Members
        <4>2. x = r
          BY <1>3, <2>3, <3>1, <4>1 DEF Distinct
        <4> QED
          BY <4>1, <4>2
      <3> QED
        BY <3>2, <3>3
    <2>4. ASSUME NEW x \in Requests', NEW k \in Keys PROVE Whole(x, k)'
      <3>1. CASE k = r.key
        BY <1>3, <2>3, <3>1 DEF Whole, Members
      <3>2. CASE k # r.key
        BY <1>3, <2>4, <3>2 DEF Owned, Whole, Members
      <3> QED
        BY <3>1, <3>2
    <2> QED
      BY <2>2, <2>4 DEF Owned
  <1>4. ASSUME Requests' \subseteq Requests, NEW r \in Request, r \in Requests,
               Admitted(r) \/ Refused(r)
        PROVE  Owned' /\ Finite'
    <2>1. r.key \in Keys
      BY RequestFields
    <2>2. \A k \in Keys : k # r.key => logs'[k] = logs[k]
      BY <1>4, <1>t DEF Admitted, Refused
    <2>3. \/ logs'[r.key].members = Valid(r) \cup Members(r)
          \/ logs'[r.key].members = Valid(r) \cup {}
      <3>1. CASE Admitted(r)
        BY <2>1, <3>1, <1>t DEF Admitted
      <3>2. CASE Refused(r)
        BY <2>1, <3>2, <1>t DEF Refused, NoLog
      <3> QED
        BY <1>4, <3>1, <3>2
    <2> QED
      BY <1>3, <1>4, <2>2, <2>3, MembersCount, FS_EmptySet
  <1>5. ASSUME Requests' \subseteq Requests, NEW k \in Keys, Erased(k)
        PROVE  Owned' /\ Finite'
    BY <1>2, <1>5, <1>t DEF Erased, NoLog
  <1>6. ASSUME Requests' \subseteq Requests, Ticked PROVE Owned' /\ Finite'
    BY <1>2, <1>6, <1>t DEF Ticked, Unexpired, NoLog
  <1> QED
    BY <1>1, <1>2, <1>4, <1>5, <1>6, StepCases DEF Still, FixedRun

\* The structure is an invariant of the limiter.
THEOREM StructureInvariant == Spec => []Structure
  <1>1. Structure /\ [Next]_vars => Structure'
    BY TypesStep, PunctualStep, DistinctStep, OwnedStep DEF Structure
  <1> QED
    BY <1>1, StructureInit, PTL DEF Spec

\* Every variable keeps its type; in particular every index of a window is
\* one that the clocks can reach, and every RetryAfter counts from an entry.
THEOREM TypesCorrect == Spec => []TypeOK
  <1>1. Structure => TypeOK
    BY DEF Structure
  <1> QED
    BY <1>1, StructureInvariant, PTL
----------------------------------------------------------------------------
(* The bound of the sliding window. *)

\* Entries from the times of requests that run in the observed interval.
Recent(T) == {e \in T : e.score >= mark - MaxStale}

Sliding(k) == units[k]["sliding"]

\* While the interval lasts, the log holds all that it has admitted in it, and
\* does not expire.
KeptIn(k) ==
    /\ clock < mark => Sliding(k) = 0
    /\ InInterval(clock) =>
          /\ Sliding(k) <= Cardinality(Recent(logs[k].members))
          /\ Sliding(k) = 0 \/ \E l \in Limits : mark + l.win <= logs[k].until
    /\ \E l \in Limits : Sliding(k) <= l.req

Kept == \A k \in Keys : KeptIn(k)

\* What has been admitted in the interval is valid for every request in it.
LEMMA RecentIsValid ==
    ASSUME Structure, InInterval(clock), NEW r \in Request, r \in Requests
    PROVE  /\ Recent(logs[r.key].members) \subseteq Valid(r)
           /\ \A e \in Members(r) : e.score >= mark - MaxStale
           /\ mark <= clock
  <1>1. /\ r.now \in Nat /\ r.sent \in Nat /\ r.lim \in Limits /\ r.lim.win \in Nat
        /\ r.key \in Keys
        /\ clock \in Nat /\ mark \in Nat /\ MaxStale \in Nat /\ Skew \in Nat
    BY RequestFields, BoundNumbers DEF Structure, TypeOK, Time
  <1>2. /\ clock - mark < r.lim.win - MaxStale - Skew /\ mark <= clock
        /\ r.sent <= clock /\ clock - r.sent <= MaxStale
        /\ r.sent <= r.now /\ r.now <= r.sent + Skew
    BY <1>1 DEF InInterval, Structure, Punctual
  <1>3. ASSUME NEW e \in logs[r.key].members, e.score >= mark - MaxStale
        PROVE  e.score > r.now - r.lim.win
    <2>1. e.score \in Nat
      BY <1>1 DEF Structure, TypeOK, Member
    <2> QED
      BY <1>1, <1>2, <1>3, <2>1
  <1>4. r.now >= mark - MaxStale
    BY <1>1, <1>2
  <1> QED
    BY <1>2, <1>3, <1>4 DEF Recent, Valid, Members

\* Recent entries of a log are finitely many.
LEMMA RecentCount ==
    ASSUME NEW T, IsFiniteSet(T)
    PROVE  /\ IsFiniteSet(Recent(T)) /\ Cardinality(Recent(T)) \in Nat
           /\ Cardinality(Recent(T)) <= Cardinality(T) /\ Cardinality(T) \in Nat
  <1>1. Recent(T) \in SUBSET T
    BY DEF Recent
  <1> QED
    BY <1>1, FS_Subset, FS_CardinalityType

LEMMA KeptStep == Structure /\ Kept /\ [Next]_vars => Kept'
  <1> SUFFICES ASSUME Structure, Kept, [Next]_vars PROVE Kept'
    OBVIOUS
  <1>t. /\ TypeOK /\ clock \in Nat /\ mark \in Nat /\ MaxStale \in Nat /\ Skew \in Nat
        /\ logs \in [Keys -> [members : SUBSET Member, until : Nat]]
        /\ units \in [Keys -> [Algorithms -> Nat]] /\ "sliding" \in Algorithms
        /\ \A k \in Keys : IsFiniteSet(logs[k].members) /\ Sliding(k) \in Nat
    BY BoundNumbers DEF Structure, TypeOK, Time, Finite, Algorithms, Sliding
  <1>0. ASSUME UNCHANGED <<clock, mark>>, NEW k \in Keys,
               logs'[k] = logs[k], Sliding(k)' = Sliding(k)
        PROVE  KeptIn(k)'
    BY <1>0 DEF Kept, KeptIn, InInterval, Recent
  <1>e. ASSUME UNCHANGED mark, NEW k \in Keys, Sliding(k)' = 0,
               IsFiniteSet(logs'[k].members)
        PROVE  KeptIn(k)'
    <2>1. Cardinality(Recent(logs[k].members)') \in Nat
      BY <1>e, RecentCount DEF Recent
    <2>2. \E l \in Limits : 0 <= l.req
      BY LimitNumbers DEF Limits
    <2> QED
      BY <1>e, <2>1, <2>2 DEF KeptIn
  <1>1. ASSUME NEW r \in Request, r \in Requests, Admitted(r) PROVE Kept'
    <2> DEFINE k == r.key
               T == logs[k].members
    <2>1. /\ k \in Keys /\ r.n \in Nat /\ r.lim \in Limits /\ r.lim.req \in Nat
          /\ r.lim.win \in Nat
      BY RequestFields
    <2>2. /\ UNCHANGED <<clock, mark>>
          /\ logs' = [logs EXCEPT ![k] = [members |-> Valid(r) \cup Members(r),
                                          until |-> clock + r.lim.win]]
          /\ units' \in {units, [units EXCEPT ![k]["sliding"] = Sliding(k) + r.n]}
          /\ units' # units => InInterval(clock) /\ ~ (Members(r) \subseteq T)
          /\ Cardinality(Valid(r)) + r.n <= r.lim.req
      BY <1>1 DEF Admitted, SlidingFits, Sliding
    <2>3. /\ logs'[k] = [members |-> Valid(r) \cup Members(r),
                         until |-> clock + r.lim.win]
          /\ \A x \in Keys : x # k => logs'[x] = logs[x]
      BY <2>1, <2>2, <1>t
    <2>4. /\ Sliding(k)' \in {Sliding(k), Sliding(k) + r.n}
          /\ units' = units => Sliding(k)' = Sliding(k)
          /\ \A x \in Keys : x # k => Sliding(x)' = Sliding(x)
      <3>1. Sliding(k) + r.n \in Nat
        BY <2>1, <1>t
      <3> QED
        BY <2>1, <2>2, <3>1, <1>t, NestedUpdate DEF Sliding
    <2>5. \A x \in Keys : x # k => KeptIn(x)'
      BY <2>2, <2>3, <2>4, <1>0
    <2>6. ASSUME ~InInterval(clock) PROVE KeptIn(k)'
      BY <2>1, <2>2, <2>4, <2>6, <1>t DEF Kept, KeptIn, InInterval
    <2>7. ASSUME InInterval(clock) PROVE KeptIn(k)'
      <3>1. /\ Recent(T) \subseteq Valid(r) /\ mark <= clock
            /\ \A e \in Members(r) : e.score >= mark - MaxStale
        BY <1>1, <2>7, RecentIsValid
      <3>2. Valid(r) \in SUBSET T /\ IsFiniteSet(Valid(r)) /\ Cardinality(Valid(r)) \in Nat
        BY <1>t, ValidEntries DEF Structure
      <3>3. Recent(logs[k].members)' = Recent(T) \cup Members(r)
        BY <2>2, <2>3, <3>1, <3>2 DEF Recent
      <3>4. /\ IsFiniteSet(Recent(T)) /\ Cardinality(Recent(T)) \in Nat
            /\ Cardinality(Recent(T)) <= Cardinality(Valid(r))
        BY <2>1, <3>1, <3>2, <1>t, RecentCount, FS_Subset
      <3>5. IsFiniteSet(Members(r)) /\ Cardinality(Members(r)) = r.n
        BY MembersCount
      <3>6. Sliding(k) <= Cardinality(Recent(T))
        BY <2>1, <2>7 DEF Kept, KeptIn
      <3>7. mark + r.lim.win <= clock + r.lim.win
        BY <2>1, <3>1, <1>t
      <3>8. CASE units' = units
        <4>1. /\ IsFiniteSet(Recent(T) \cup Members(r))
              /\ Cardinality(Recent(T)) <= Cardinality(Recent(T) \cup Members(r))
              /\ Cardinality(Recent(T) \cup Members(r)) \in Nat
          BY <3>4, <3>5, FS_Union, FS_Subset, FS_CardinalityType
        <4>2. Sliding(k)' <= Cardinality(Recent(logs[k].members)')
          BY <2>1, <2>4, <3>3, <3>4, <3>6, <3>8, <4>1, <1>t
        <4>3. \E l \in Limits : Sliding(k)' <= l.req
          BY <2>1, <2>4, <3>8 DEF Kept, KeptIn
        <4> QED
          BY <2>1, <2>2, <2>3, <3>1, <3>7, <4>2, <4>3, <1>t DEF KeptIn
      <3>9. CASE units' # units
        <4>1. Recent(T) \cap Members(r) = {}
          <5>1. ASSUME NEW e \in T, e \in Members(r) PROVE FALSE
            <6>1. e.nonce = r.nonce
              BY <5>1 DEF Members
            <6>2. Members(r) \subseteq T
              BY <1>1, <2>1, <5>1, <6>1 DEF Structure, Owned, Whole
            <6> QED
              BY <2>2, <3>9, <6>2
          <5> QED
            BY <5>1 DEF Recent
        <4>2. Cardinality(Recent(T) \cup Members(r)) = Cardinality(Recent(T)) + r.n
          BY <3>4, <3>5, <4>1, CountTogether
        <4>3. Sliding(k)' <= Sliding(k) + r.n /\ Sliding(k)' \in Nat
          BY <2>1, <2>4, <1>t
        <4>4. Sliding(k)' <= Cardinality(Recent(logs[k].members)')
          BY <2>1, <3>3, <3>4, <3>6, <4>2, <4>3, <1>t
        <4>5. Sliding(k)' <= r.lim.req
          BY <2>1, <2>2, <3>2, <3>4, <3>6, <4>3, <1>t
        <4> QED
          BY <2>1, <2>2, <2>3, <3>1, <3>7, <4>4, <4>5, <1>t DEF KeptIn
      <3> QED
        BY <3>8, <3>9
    <2> QED
      BY <2>5, <2>6, <2>7 DEF Kept
  <1>2. ASSUME NEW r \in Request, r \in Requests, Refused(r) PROVE Kept'
    <2> DEFINE k == r.key
               T == logs[k].members
    <2>1. k \in Keys
      BY RequestFields
    <2>2. /\ UNCHANGED <<clock, mark, units>>
          /\ \A x \in Keys : x # k => logs'[x] = logs[x]
          /\ logs'[k].members = Valid(r)
          /\ Valid(r) # {} => logs'[k].until = logs[k].until
      <3>1. CASE Valid(r) = {}
        <4>1. logs' = [logs EXCEPT ![k] = NoLog] /\ UNCHANGED <<clock, mark, units>>
          BY <1>2, <3>1 DEF Refused
        <4> QED
          BY <2>1, <3>1, <4>1, <1>t DEF NoLog
      <3>2. CASE Valid(r) # {}
        <4>1. /\ logs' = [logs EXCEPT ![k] =
                            [members |-> Valid(r), until |-> logs[k].until]]
              /\ UNCHANGED <<clock, mark, units>>
          BY <1>2, <3>2 DEF Refused
        <4> QED
          BY <2>1, <4>1, <1>t
      <3> QED
        BY <3>1, <3>2
    <2>3. \A x \in Keys : x # k => KeptIn(x)'
      BY <2>2, <1>0 DEF Sliding
    <2>4. ASSUME InInterval(clock), Sliding(k) # 0 PROVE KeptIn(k)'
      <3>1. Recent(T) \subseteq Valid(r) /\ Valid(r) \subseteq T
        BY <1>2, <2>4, RecentIsValid DEF Valid
      <3>2. Recent(logs[k].members)' = Recent(T)
        BY <2>2, <3>1 DEF Recent
      <3>3. Recent(T) # {}
        <4>1. Sliding(k) <= Cardinality(Recent(T)) /\ Sliding(k) \in Nat
          BY <2>1, <2>4, <1>t DEF Kept, KeptIn
        <4>2. Cardinality({}) = 0
          BY FS_EmptySet
        <4> QED
          BY <2>4, <4>1, <4>2
      <3>4. logs'[k].until = logs[k].until
        BY <2>2, <3>1, <3>3
      <3> QED
        BY <2>1, <2>2, <2>4, <3>2, <3>4 DEF Kept, KeptIn, Sliding
    <2>5. ASSUME NEW x \in Keys, Sliding(x) = 0 PROVE KeptIn(x)'
      <3>1. IsFiniteSet(logs'[x].members)
        BY <2>2, <1>t, ValidEntries DEF Structure
      <3>2. UNCHANGED mark /\ Sliding(x)' = 0
        BY <2>2, <2>5 DEF Sliding
      <3> QED
        BY <3>1, <3>2, <1>e
    <2>6. CASE ~InInterval(clock)
      BY <2>1, <2>2, <2>6 DEF Kept, KeptIn, Sliding, InInterval
    <2> QED
      BY <2>3, <2>4, <2>5, <2>6 DEF Kept
  <1>3. ASSUME NEW r \in Request, FixedRun(r) PROVE Kept'
    <2>1. /\ r.key \in Keys /\ r.n \in Nat /\ "fixed" \in Algorithms
          /\ units[r.key]["fixed"] + r.n \in Nat
      BY RequestFields, <1>t DEF Algorithms
    <2>2. \A k \in Keys : Sliding(k)' = Sliding(k)
      <3>1. CASE units' = units
        BY <3>1 DEF Sliding
      <3>2. CASE units' # units
        <4>1. units' = [units EXCEPT ![r.key]["fixed"] = @ + r.n]
          BY <1>3, <3>2 DEF FixedRun
        <4> QED
          BY <2>1, <4>1, <1>t, NestedUpdate DEF Sliding
      <3> QED
        BY <3>1, <3>2
    <2> QED
      BY <1>3, <2>2, <1>0 DEF FixedRun, Kept
  <1>4. ASSUME NEW x \in Keys, Erased(x) PROVE Kept'
    <2>1. ASSUME NEW k \in Keys PROVE KeptIn(k)'
      <3>1. CASE logs'[k] = logs[k] /\ Sliding(k)' = Sliding(k)
        BY <1>4, <3>1, <1>0 DEF Erased
      <3>2. CASE logs'[k] = NoLog /\ Sliding(k)' = 0
        BY <1>4, <3>2, <1>e, FS_EmptySet DEF Erased, NoLog
      <3> QED
        BY <1>4, <3>1, <3>2, <1>t DEF Erased, Sliding
    <2> QED
      BY <2>1 DEF Kept
  <1>5. CASE Ticked
    <2>1. ASSUME NEW k \in Keys PROVE KeptIn(k)'
      <3>1. /\ clock' = clock + 1 /\ UNCHANGED <<mark, units>>
            /\ logs'[k] = Unexpired(logs[k], NoLog)
        BY <1>5 DEF Ticked
      <3>2. CASE Sliding(k) = 0
        <4>1. IsFiniteSet(logs'[k].members)
          BY <3>1, <1>t, FS_EmptySet DEF Unexpired, NoLog
        <4> QED
          BY <3>1, <3>2, <4>1, <1>e DEF Sliding
      <3>3. CASE Sliding(k) # 0 /\ InInterval(clock + 1)
        <4>1. mark <= clock
          BY <3>3, <1>t DEF Kept, KeptIn
        <4>2. InInterval(clock)
          BY <3>3, <4>1, <1>t, LimitNumbers DEF InInterval
        <4>3. PICK l \in Limits : mark + l.win <= logs[k].until
          BY <3>3, <4>2 DEF Kept, KeptIn
        <4>4. logs[k].until > clock + 1
          BY <3>3, <4>3, <1>t, LimitNumbers DEF InInterval
        <4>5. logs'[k] = logs[k]
          BY <3>1, <4>4 DEF Unexpired
        <4> QED
          BY <3>1, <3>3, <4>1, <4>2, <4>3, <4>5, <1>t
             DEF Kept, KeptIn, Sliding, Recent
      <3>4. CASE Sliding(k) # 0 /\ ~InInterval(clock + 1)
        <4>1. mark <= clock
          BY <3>4, <1>t DEF Kept, KeptIn
        <4>2. ~InInterval(clock)' /\ ~ (clock' < mark')
          BY <3>1, <3>4, <4>1, <1>t DEF InInterval
        <4> QED
          BY <3>1, <4>2 DEF Kept, KeptIn, Sliding
      <3> QED
        BY <3>2, <3>3, <3>4
    <2> QED
      BY <2>1 DEF Kept
  <1>6. CASE Still \/ \E r \in Request : Begun(r)
    BY <1>6, <1>0 DEF Still, Begun, Kept, Sliding, history
  <1> QED
    BY <1>1, <1>2, <1>3, <1>4, <1>5, <1>6, <1>t, StepCases

LEMMA KeptInit == Init => Kept
  <1> SUFFICES ASSUME Init, NEW k \in Keys PROVE KeptIn(k)
    BY DEF Kept
  <1>1. Sliding(k) = 0 /\ logs[k].members = {}
    BY DEF Init, Sliding, Algorithms, NoLog
  <1>2. Recent(logs[k].members) = {} /\ Cardinality({}) = 0
    BY <1>1, FS_EmptySet DEF Recent
  <1>3. DefaultLimit \in Limits /\ 0 <= DefaultLimit.req
    BY LimitNumbers DEF Limits
  <1> QED
    BY <1>1, <1>2, <1>3 DEF KeptIn

\* The sliding window holds across any number of processes, whose clocks
\* differ by at most Skew, and of attempts, some of them late or run twice: in
\* less than a window the script admits at most one limit's worth of a key.
THEOREM SlidingWindowIsBounded == Spec => []SlidingBound
  <1>1. Kept => SlidingBound
    BY DEF Kept, KeptIn, Sliding, SlidingBound
  <1> QED
    BY <1>1, KeptInit, KeptStep, StructureInvariant, PTL DEF Spec
----------------------------------------------------------------------------
(* RetryAfter. *)

\* A log with the entries T is shorter than it was when an advice was told, or
\* gets so when the advice comes due and an entry expires.
Hope(T, a) ==
    /\ Cardinality(T) <= a.size
    /\ \/ Cardinality(T) < a.size
       \/ \E e \in T : e.score + a.lim.win <= a.at

Hopeful ==
    \A k \in Keys : advice[k] # NoAdvice => Hope(logs[k].members, advice[k])

\* A log that loses entries, in whatever way, keeps an advice good.
LEMMA HopeShrinks ==
    ASSUME NEW T, IsFiniteSet(T), NEW S \in SUBSET T, NEW a \in Advice, Hope(T, a)
    PROVE  Hope(S, a)
  <1>1. /\ Cardinality(S) \in Nat /\ Cardinality(T) \in Nat
        /\ Cardinality(S) <= Cardinality(T)
        /\ Cardinality(S) = Cardinality(T) => S = T
    BY FS_Subset, FS_CardinalityType
  <1>2. a.size \in Nat
    BY DEF Advice
  <1>3. CASE S = T
    BY <1>3
  <1>4. CASE S # T
    BY <1>1, <1>2, <1>4 DEF Hope
  <1> QED
    BY <1>3, <1>4

\* Every step keeps the advice that stands good.
LEMMA HopefulStep == Structure /\ Hopeful /\ [Next]_vars => Hopeful'
  <1> SUFFICES ASSUME Structure, Hopeful, [Next]_vars PROVE Hopeful'
    OBVIOUS
  <1>t. /\ TypeOK
        /\ advice \in [Keys -> Advice \cup {NoAdvice}]
        /\ logs \in [Keys -> [members : SUBSET Member, until : Nat]]
        /\ \A k \in Keys : IsFiniteSet(logs[k].members)
    BY DEF Structure, TypeOK, Finite
  <1>1. ASSUME NEW k \in Keys, advice'[k] = advice[k],
               logs'[k].members \subseteq logs[k].members
        PROVE  advice'[k] # NoAdvice => Hope(logs'[k].members, advice'[k])
    BY <1>1, <1>t, HopeShrinks DEF Hopeful
  <1>2. ASSUME UNCHANGED advice,
               \A k \in Keys : logs'[k].members \subseteq logs[k].members
        PROVE  Hopeful'
    BY <1>1, <1>2 DEF Hopeful, Hope
  <1>3. ASSUME NEW r \in Request, Admitted(r) PROVE Hopeful'
    <2>1. /\ \A k \in Keys : k # r.key => advice'[k] = advice[k] /\ logs'[k] = logs[k]
          /\ r.key \in Keys => advice'[r.key] = NoAdvice
      BY <1>3, <1>t DEF Admitted
    <2> QED
      BY <2>1 DEF Hopeful, Hope
  <1>4. ASSUME NEW r \in Request, Refused(r) PROVE Hopeful'
    <2>1. r.key \in Keys /\ r.n \in Nat
      BY RequestFields
    <2>2. /\ \A k \in Keys : k # r.key => logs'[k] = logs[k]
          /\ logs'[r.key].members = Valid(r)
      <3>1. CASE Valid(r) = {}
        <4>1. logs' = [logs EXCEPT ![r.key] = NoLog]
          BY <1>4, <3>1 DEF Refused
        <4> QED
          BY <2>1, <3>1, <4>1, <1>t DEF NoLog
      <3>2. CASE Valid(r) # {}
        <4>1. logs' = [logs EXCEPT ![r.key] =
                         [members |-> Valid(r), until |-> logs[r.key].until]]
          BY <1>4, <3>2 DEF Refused
        <4> QED
          BY <2>1, <4>1, <1>t
      <3> QED
        BY <3>1, <3>2
    <2>3. CASE advice' = advice
      BY <2>2, <2>3, <1>2 DEF Valid
    <2>4. CASE advice' # advice
      <3> DEFINE a == [lim |-> r.lim, at |-> RetryAt(r),
                       size |-> Cardinality(Valid(r))]
      <3>1. r.n = 1 /\ advice' = [advice EXCEPT ![r.key] = a]
        BY <1>4, <2>4 DEF Refused, Advised
      <3>2. /\ advice'[r.key] = a
            /\ \A k \in Keys : k # r.key => advice'[k] = advice[k]
        BY <2>1, <3>1, <1>t
      <3>3. Hope(Valid(r), a)
        BY <1>4, <3>1, <1>t, Denied, DenialTime, RequestFields
           DEF Hope, Structure, Refused
      <3> HIDE DEF a
      <3>4. ASSUME NEW k \in Keys, advice'[k] # NoAdvice
            PROVE  Hope(logs'[k].members, advice'[k])
        BY <2>2, <3>2, <3>3, <3>4 DEF Hopeful
      <3> QED
        BY <3>4 DEF Hopeful, Hope
    <2> QED
      BY <2>3, <2>4
  <1>5. ASSUME NEW r \in Request, FixedRun(r) PROVE Hopeful'
    BY <1>2, <1>5 DEF FixedRun
  <1>6. ASSUME NEW k \in Keys, Erased(k) PROVE Hopeful'
    BY <1>2, <1>6, <1>t DEF Erased, NoLog
  <1>7. CASE Ticked
    BY <1>2, <1>7 DEF Ticked, Unexpired, NoLog
  <1>8. CASE Still \/ \E r \in Request : Begun(r)
    BY <1>2, <1>8 DEF Still, Begun, history
  <1> QED
    BY <1>3, <1>4, <1>5, <1>6, <1>7, <1>8, <1>t, StepCases

LEMMA HopefulInit == Init => Hopeful
  BY DEF Init, Hopeful

\* RetryAfter of the sliding window script is honest for every number of
\* processes and whatever happens to the log meanwhile, but for a unit that is
\* served: the entry it counts from has left the window when it comes due.
THEOREM RetryAfterIsHonest == Spec => []RetryPromise
  <1>1. Structure /\ Hopeful => RetryPromise
    <2> SUFFICES ASSUME Structure, Hopeful, NEW m \in net,
                        advice[m.req.key] # NoAdvice,
                        m.req.lim = advice[m.req.key].lim,
                        m.req.now >= advice[m.req.key].at
                 PROVE  Cardinality(Valid(m.req)) < advice[m.req.key].size
      BY DEF RetryPromise
    <2>1. PICK r \in Request : r = m.req
      BY DEF Structure, TypeOK, Attempt
    <2> DEFINE T == logs[r.key].members
    <2>2. /\ r.key \in Keys /\ r.now \in Nat /\ r.lim.req \in Nat /\ r.lim.win \in Nat
      BY RequestFields
    <2>3. /\ advice[r.key].at \in Nat /\ advice[r.key].size \in Nat
          /\ Hope(T, advice[r.key])
          /\ IsFiniteSet(T) /\ \A e \in T : e.score \in Nat
      BY <2>1, <2>2 DEF Structure, TypeOK, Finite, Hopeful, Advice, Member
    <2>4. /\ Valid(r) \in SUBSET T /\ Cardinality(Valid(r)) \in Nat
          /\ Cardinality(T) \in Nat
          /\ Cardinality(Valid(r)) <= Cardinality(T)
          /\ Cardinality(Valid(r)) = Cardinality(T) => Valid(r) = T
      BY <2>3, ValidEntries, FS_Subset, FS_CardinalityType DEF Structure
    <2>5. CASE Cardinality(T) < advice[r.key].size
      BY <2>1, <2>3, <2>4, <2>5
    <2>6. CASE \E e \in T : e.score + r.lim.win <= advice[r.key].at
      <3>1. PICK e \in T : e.score + r.lim.win <= advice[r.key].at
        BY <2>6
      <3>2. e \notin Valid(r)
        BY <2>1, <2>2, <2>3, <3>1 DEF Valid
      <3>3. Cardinality(T) <= advice[r.key].size
        BY <2>3 DEF Hope
      <3> QED
        BY <2>1, <2>3, <2>4, <3>1, <3>2, <3>3
    <2> QED
      BY <2>1, <2>3, <2>5, <2>6 DEF Hope
  <1> QED
    BY <1>1, HopefulInit, HopefulStep, StructureInvariant, PTL DEF Spec
----------------------------------------------------------------------------
(* Reset. *)

\* What a Reset's node has of the key is what the Reset has yet to delete, and
\* what scripts wrote behind its back.
Covered ==
    reset # NoReset =>
        Found(reset.key, reset.node) \subseteq reset.left \cup reset.written

\* A script stores no physical key of k but the one it writes when it admits.
LEMMA ScriptWrites ==
    ASSUME TypeOK, NEW m \in net, Execute(m), NEW k \in Keys,
           NEW y \in PhysicalKeys, Stored(k, y)', ~Stored(k, y)
    PROVE  m.req.key = k /\ Noted(k, y)
  <1>t. /\ m.req.key \in Keys
        /\ logs \in [Keys -> [members : SUBSET Member, until : Nat]]
        /\ counters \in [Keys -> [Indices -> [count : Nat, until : Nat]]]
    BY ExecuteTypes, RequestFields DEF TypeOK
  <1>i. \/ y = <<"sliding", 0>> /\ y[1] = "sliding"
        \/ y = <<"fixed", y[2]>> /\ y[1] = "fixed" /\ y[2] \in Indices
    BY DEF PhysicalKeys
  <1>1. CASE RunSliding(m)
    <2>1. y = <<"sliding", 0>> /\ logs'[k] # NoLog /\ logs[k] = NoLog
      BY <1>1, <1>i DEF RunSliding, Stored
    <2>2. m.req.key = k
      BY <1>1, <1>t, <2>1 DEF RunSliding
    <2>3. Valid(m.req) = {}
      BY <2>1, <2>2 DEF Valid, NoLog
    <2>4. SlidingFits(m.req)
      BY <1>1, <1>t, <2>1, <2>2, <2>3 DEF RunSliding
    <2> QED
      BY <1>1, <2>1, <2>2, <2>4 DEF RunSliding
  <1>2. CASE RunFixed(m)
    <2>1. /\ y = <<"fixed", y[2]>> /\ y[2] \in Indices
          /\ counters'[k][y[2]] # counters[k][y[2]]
      BY <1>2, <1>i DEF RunFixed, Stored
    <2>2. FixedFits(m.req)
      BY <1>2, <2>1 DEF RunFixed
    <2>3. /\ Noted(m.req.key, <<"fixed", Index(m.req)>>)
          /\ \E c : counters' = [counters EXCEPT ![m.req.key][Index(m.req)] = c]
      BY <1>2, <2>2 DEF RunFixed
    <2>4. m.req.key = k /\ y[2] = Index(m.req)
      BY <1>t, <2>1, <2>3
    <2> QED
      BY <2>1, <2>3, <2>4
  <1> QED
    BY <1>1, <1>2 DEF Execute

LEMMA CoveredStep == TypeOK /\ Covered /\ [Next]_vars => Covered'
  <1> SUFFICES ASSUME TypeOK, Covered, [Next]_vars PROVE Covered'
    OBVIOUS
  <1>t. /\ TypeOK
        /\ logs \in [Keys -> [members : SUBSET Member, until : Nat]]
        /\ counters \in [Keys -> [Indices -> [count : Nat, until : Nat]]]
        /\ reset # NoReset =>
              reset \in [key : Keys, node : Nodes, left : SUBSET PhysicalKeys,
                         written : SUBSET PhysicalKeys]
    BY DEF TypeOK
  <1>i. \A x \in PhysicalKeys : x[1] # "sliding" => x[2] \in Indices
    BY DEF PhysicalKeys
  <1>1. ASSUME UNCHANGED <<logs, counters, reset>> PROVE Covered'
    BY <1>1 DEF Covered, Found, Stored
  <1>2. ASSUME NEW m \in net, Execute(m) PROVE Covered'
    <2>1. /\ reset' # NoReset => reset # NoReset
          /\ reset # NoReset =>
                /\ reset'.key = reset.key /\ reset'.node = reset.node
                /\ reset'.left = reset.left /\ reset.written \subseteq reset'.written
      BY <1>2, <1>t DEF Execute, RunSliding, RunFixed, Noted
    <2> SUFFICES ASSUME reset' # NoReset, NEW y \in Found(reset.key, reset.node)'
                 PROVE  y \in reset'.left \cup reset'.written
      BY <2>1 DEF Covered
    <2>2. y \in PhysicalKeys /\ NodeOf[y] = reset.node /\ Stored(reset.key, y)'
      BY <2>1 DEF Found
    <2>3. CASE Stored(reset.key, y)
      BY <2>1, <2>2, <2>3 DEF Covered, Found
    <2>4. CASE ~Stored(reset.key, y)
      <3>1. Noted(reset.key, y)
        BY <1>2, <1>t, <2>1, <2>2, <2>4, ScriptWrites
      <3> QED
        BY <1>t, <2>1, <3>1 DEF Noted
    <2> QED
      BY <2>3, <2>4
  <1>3. ASSUME NEW k \in Keys, ResetBegin(k) PROVE Covered'
    <2>1. PICK node \in Nodes :
             reset' = [key |-> k, node |-> node, left |-> Found(k, node),
                      written |-> {}]
      BY <1>3 DEF ResetBegin
    <2>2. UNCHANGED <<logs, counters>>
      BY <1>3 DEF ResetBegin
    <2> QED
      BY <2>1, <2>2 DEF Covered, Found, Stored
  <1>4. CASE ResetStep
    <2>1. CASE ResetReturn
      BY <2>1 DEF ResetReturn, Covered
    <2>2. CASE ResetDelete
      <3>1. PICK x \in reset.left \cup Found(reset.key, reset.node) :
              /\ Deleted(reset.key, x)
              /\ reset' = [reset EXCEPT !.left = @ \ {x}, !.written = @ \ {x}]
        BY <2>2 DEF ResetDelete
      <3>2. /\ reset # NoReset /\ reset.key \in Keys /\ reset.left \subseteq PhysicalKeys
            /\ x \in PhysicalKeys
        BY <1>4, <1>t, <3>1 DEF ResetStep, Found
      <3>3. /\ reset'.key = reset.key /\ reset'.node = reset.node
            /\ reset'.left = reset.left \ {x} /\ reset'.written = reset.written \ {x}
        BY <1>t, <3>1, <3>2
      <3>4. /\ logs'[reset.key] \in {logs[reset.key], NoLog}
            /\ \A i \in Indices : counters'[reset.key][i]
                                    \in {counters[reset.key][i], NoCounter}
            /\ ~Stored(reset.key, x)'
        <4>1. CASE x[1] = "sliding"
          BY <1>t, <3>1, <3>2, <4>1 DEF Deleted, Stored
        <4>2. CASE x[1] # "sliding"
          BY <1>t, <1>i, <3>1, <3>2, <4>2 DEF Deleted, Stored
        <4> QED
          BY <4>1, <4>2
      <3>5. Found(reset.key, reset.node)' \subseteq Found(reset.key, reset.node) \ {x}
        <4>1. \A y \in Found(reset.key, reset.node)' : y \in PhysicalKeys
          BY DEF Found
        <4> QED
          BY <1>i, <3>2, <3>3, <3>4, <4>1 DEF Found, Stored
      <3> QED
        BY <3>2, <3>3, <3>5 DEF Covered
    <2> QED
      BY <1>4, <2>1, <2>2 DEF ResetStep
  <1>5. CASE Tick
    <2>1. UNCHANGED reset
      BY <1>5 DEF Tick
    <2>2. \A k \in Keys : /\ logs'[k] \in {logs[k], NoLog}
                          /\ \A i \in Indices :
                                counters'[k][i] \in {counters[k][i], NoCounter}
      BY <1>5 DEF Tick, Unexpired
    <2> SUFFICES ASSUME reset # NoReset
                 PROVE  Found(reset.key, reset.node)'
                           \subseteq reset.left \cup reset.written
      BY <2>1 DEF Covered
    <2>3. reset.key \in Keys
      BY <1>t
    <2> QED
      BY <1>i, <2>1, <2>2, <2>3 DEF Covered, Found, Stored
  <1>6. ASSUME \/ \E r \in Request : Begun(r)
               \/ \E p \in Procs : Retry(p) \/ Finish(p)
               \/ \E p \in Procs, k \in Keys, l \in LimitArgs : SetLimit(p, k, l)
               \/ UNCHANGED vars
        PROVE  Covered'
    BY <1>1, <1>6 DEF Begun, Retry, Finish, SetLimit, vars
  <1> QED
    BY <1>2, <1>3, <1>4, <1>5, <1>6, <1>t, BeginCases
       DEF Next, Client, Receive, GiveUp

\* On a single node, what a Reset leaves of the key, of either algorithm, was
\* written after it was deleted or after the Reset began; one that fails leaves
\* besides only what it had yet to come to.
THEOREM ResetIsComplete ==
    ASSUME \A x, y \in Nodes : x = y
    PROVE  Spec => ResetClears
  <1>1. Init => Covered
    BY DEF Init, Covered
  <1>2. TypeOK /\ Covered /\ [Next]_vars =>
          (ResetStep /\ reset' = NoReset =>
             {x \in PhysicalKeys : Stored(reset.key, x)}
                \subseteq reset.left \cup reset.written)
    <2> SUFFICES ASSUME TypeOK, Covered, ResetStep
                 PROVE  {x \in PhysicalKeys : Stored(reset.key, x)}
                           \subseteq reset.left \cup reset.written
      OBVIOUS
    <2>1. reset # NoReset /\ reset.node \in Nodes
      BY DEF ResetStep, TypeOK
    <2>2. \A x \in PhysicalKeys : NodeOf[x] = reset.node
      BY <2>1, NodeAssumption
    <2> QED
      BY <2>1, <2>2 DEF Covered, Found
  <1> QED
    BY <1>1, <1>2, CoveredStep, TypesCorrect, PTL DEF Spec, ResetClears
----------------------------------------------------------------------------
(* The refinement of SharedLog. *)

\* No entry is dated later than the clocks allow, and the store keeps a log
\* until all its entries have left the window of some limit.
Endures(k) ==
    /\ \A e \in logs[k].members : e.score <= clock + Skew
    /\ \E l \in Limits :
          \A e \in logs[k].members : e.score + l.win <= logs[k].until + Skew

Enduring == \A k \in Keys : Endures(k)

\* A log that loses entries keeps its age.
LEMMA EndureShrinks ==
    ASSUME TypeOK, TypeOK', NEW k \in Keys, Endures(k), clock <= clock',
           logs'[k].members \subseteq logs[k].members,
           logs'[k].members = {} \/ logs'[k].until = logs[k].until
    PROVE  Endures(k)'
  <1>1. /\ clock \in Nat /\ clock' \in Nat /\ Skew \in Nat
        /\ \A e \in logs[k].members : e.score \in Nat
    BY BoundNumbers DEF TypeOK, Time, Member
  <1>2. \A e \in logs'[k].members : e.score <= clock' + Skew
    BY <1>1 DEF Endures
  <1> QED
    BY <1>2 DEF Endures

LEMMA EnduringStep == Structure /\ Structure' /\ Enduring /\ [Next]_vars => Enduring'
  <1> SUFFICES ASSUME Structure, Structure', Enduring, [Next]_vars, NEW k \in Keys
               PROVE  Endures(k)'
    BY DEF Enduring
  <1>t. /\ TypeOK /\ TypeOK' /\ clock \in Nat /\ Skew \in Nat /\ Endures(k)
        /\ logs \in [Keys -> [members : SUBSET Member, until : Nat]]
    BY BoundNumbers DEF Structure, TypeOK, Time, Enduring
  <1>0. ASSUME clock' = clock, logs'[k] = logs[k] PROVE Endures(k)'
    BY <1>0, <1>t, EndureShrinks
  <1>1. ASSUME NEW r \in Request, r \in Requests, Admitted(r), r.key = k
        PROVE  Endures(k)'
    <2>1. /\ logs'[k] = [members |-> Valid(r) \cup Members(r),
                         until |-> clock + r.lim.win]
          /\ clock' = clock
      BY <1>1, <1>t DEF Admitted
    <2>2. /\ r.now \in Nat /\ r.sent \in Nat /\ r.lim \in Limits
          /\ r.lim.win \in Nat
          /\ r.sent <= clock /\ r.now <= r.sent + Skew
      BY <1>1, RequestFields DEF Structure, Punctual
    <2>3. \A e \in Members(r) : e.score \in Nat /\ e.score <= clock + Skew
      BY <2>2, <1>t DEF Members
    <2>4. \A e \in Valid(r) : e.score \in Nat /\ e.score <= clock + Skew
      BY <1>1, <1>t DEF Valid, Endures, Member
    <2>5. \A e \in logs'[k].members :
             e.score <= clock + Skew /\ e.score \in Nat
      BY <2>1, <2>3, <2>4
    <2>6. \A e \in logs'[k].members :
             e.score + r.lim.win <= logs'[k].until + Skew
      BY <2>1, <2>2, <2>5, <1>t
    <2> QED
      BY <2>1, <2>2, <2>5, <2>6 DEF Endures
  <1>2. ASSUME NEW r \in Request, r \in Requests, Refused(r), r.key = k
        PROVE  Endures(k)'
    <2>1. /\ clock' = clock /\ logs'[k].members \subseteq logs[k].members
          /\ logs'[k].members = {} \/ logs'[k].until = logs[k].until
      BY <1>2, <1>t DEF Refused, Valid, NoLog
    <2> QED
      BY <2>1, <1>t, EndureShrinks
  <1>3. ASSUME NEW r \in Request, Admitted(r) \/ Refused(r), r.key # k
        PROVE  Endures(k)'
    BY <1>0, <1>3, <1>t DEF Admitted, Refused
  <1>4. ASSUME NEW j \in Keys, Erased(j) PROVE Endures(k)'
    <2>1. clock' = clock /\ logs'[k] \in {logs[k], NoLog}
      BY <1>4, <1>t DEF Erased
    <2> QED
      BY <2>1, <1>t, EndureShrinks DEF NoLog
  <1>5. CASE Ticked
    <2>1. clock' = clock + 1 /\ logs'[k] \in {logs[k], NoLog}
      BY <1>5 DEF Ticked, Unexpired
    <2> QED
      BY <2>1, <1>t, EndureShrinks DEF NoLog
  <1> QED
    BY <1>0, <1>1, <1>2, <1>3, <1>4, <1>5, <1>t, StepCases
       DEF Begun, Still, FixedRun

\* A script that admits writes its batch anew, or finds all of it.
LEMMA AdmitRefines ==
    ASSUME Structure, NEW r \in Request, r \in Requests, Admitted(r)
    PROVE  Shared!SharedNext
  <1> DEFINE k == r.key
             l == r.lim
             n == r.n
             t == r.now
             x == r.nonce
  <1>1. /\ k \in Keys /\ l \in Limits /\ n \in Amounts /\ t \in Nat
        /\ x \in Nonces /\ r.sent \in Nat /\ l.win \in Nat /\ l.win > 0
        /\ clock \in Nat /\ clock <= MaxTime
    BY RequestFields, BoundNumbers DEF Request, Structure, TypeOK, Time
  <1>2. t \in Shared!Readings
    <2>1. /\ r.sent <= clock /\ clock - r.sent <= MaxStale
          /\ r.sent <= t /\ t <= r.sent + Skew
      BY DEF Structure, Punctual
    <2>2. t \in Indices /\ t <= clock + Skew /\ clock - t <= MaxStale
      BY <1>1, <2>1, BoundNumbers DEF Indices
    <2> QED
      BY <2>2 DEF Shared!Readings
  <1>3. /\ logs' = [logs EXCEPT ![k] = [members |-> Valid(r) \cup Members(r),
                                        until |-> clock + l.win]]
        /\ SlidingFits(r) /\ clock' = clock
    BY DEF Admitted
  <1>4. entriesOf[k] = logs[k].members /\ Shared!InWindow(k, l, t) = Valid(r)
    BY <1>1 DEF entriesOf, Shared!InWindow, Valid
  <1>5. entriesOf' = [entriesOf EXCEPT ![k] = Valid(r) \cup Members(r)]
    BY <1>1, <1>3 DEF entriesOf, Structure, TypeOK
  <1>6. CASE Members(r) \subseteq logs[k].members
    <2>1. Members(r) \subseteq Valid(r)
      BY <1>1, <1>6 DEF Members, Valid
    <2>2. Shared!Forget(k, l, t)
      BY <1>3, <1>4, <1>5, <2>1 DEF Shared!Forget
    <2> QED
      BY <1>1, <1>2, <2>2 DEF Shared!SharedNext
  <1>7. CASE ~ (Members(r) \subseteq logs[k].members)
    <2>1. Shared!Unknown(x)
      BY <1>7 DEF Structure, Owned, Whole, Shared!Unknown, entriesOf
    <2>2. Shared!Batch(x, n, t) = Members(r)
      BY DEF Shared!Batch, Members
    \* The instance has a copy of Cardinality of its own.
    <2>3. Shared!Cardinality(Valid(r)) = Cardinality(Valid(r))
      BY DEF Shared!Cardinality, Cardinality
    <2>4. Shared!Cardinality(Shared!InWindow(k, l, t)) + n <= l.req
      BY <1>3, <1>4, <2>3 DEF SlidingFits
    <2>5. Shared!Admit(k, l, x, n, t)
      BY <1>3, <1>4, <1>5, <2>1, <2>2, <2>4 DEF Shared!Admit
    <2> QED
      BY <1>1, <1>2, <2>5 DEF Shared!SharedNext
  <1> QED
    BY <1>6, <1>7

\* A script that refuses has only pruned.
LEMMA RefuseRefines ==
    ASSUME Structure, NEW r \in Request, r \in Requests, Refused(r)
    PROVE  Shared!SharedNext
  <1>1. /\ r.key \in Keys /\ r.lim \in Limits /\ r.now \in Nat
        /\ r.sent \in Nat /\ clock \in Nat /\ clock <= MaxTime
    BY RequestFields, BoundNumbers DEF Structure, TypeOK, Time
  <1>2. r.now \in Shared!Readings
    <2>1. /\ r.sent <= clock /\ clock - r.sent <= MaxStale
          /\ r.sent <= r.now /\ r.now <= r.sent + Skew
      BY DEF Structure, Punctual
    <2>2. r.now \in Indices /\ r.now <= clock + Skew /\ clock - r.now <= MaxStale
      BY <1>1, <2>1, BoundNumbers DEF Indices
    <2> QED
      BY <2>2 DEF Shared!Readings
  <1>3. /\ logs'[r.key].members = Valid(r) /\ clock' = clock
        /\ \A j \in Keys : j # r.key => logs'[j] = logs[j]
    <2>1. /\ clock' = clock
          /\ logs \in [Keys -> [members : SUBSET Member, until : Nat]]
      BY DEF Refused, Structure, TypeOK
    <2>2. CASE Valid(r) = {}
      <3>1. logs' = [logs EXCEPT ![r.key] = [members |-> {}, until |-> 0]]
        BY <2>2 DEF Refused, NoLog
      <3> QED
        BY <1>1, <2>1, <2>2, <3>1
    <2>3. CASE Valid(r) # {}
      <3>1. logs' = [logs EXCEPT ![r.key] =
                        [members |-> Valid(r), until |-> logs[r.key].until]]
        BY <2>3 DEF Refused
      <3> QED
        BY <1>1, <2>1, <3>1
    <2> QED
      BY <2>2, <2>3
  <1>4. entriesOf' = [entriesOf EXCEPT ![r.key] = Valid(r)]
    BY <1>3 DEF entriesOf
  <1>5. Shared!InWindow(r.key, r.lim, r.now) = Valid(r)
    BY <1>1 DEF entriesOf, Shared!InWindow, Valid
  <1>6. Shared!Forget(r.key, r.lim, r.now)
    BY <1>3, <1>4, <1>5 DEF Shared!Forget
  <1> QED
    BY <1>1, <1>2, <1>6 DEF Shared!SharedNext

\* What expires as time passes has left the window of a limit.
LEMMA TickRefines ==
    ASSUME Structure, Structure', Enduring, Ticked PROVE Shared!SharedNext
  <1> DEFINE gone == {k \in Keys : logs'[k] = NoLog /\ logs[k] # NoLog}
  <1>1. /\ clock' = clock + 1 /\ clock \in Nat /\ Skew \in Nat
        /\ \A k \in Keys : logs'[k] = Unexpired(logs[k], NoLog)
    BY BoundNumbers DEF Ticked, Structure, TypeOK, Time
  <1>2. ASSUME NEW k \in gone PROVE Shared!Outdated(k, clock')
    <2>1. logs[k].until <= clock' /\ logs[k] \in [members : SUBSET Member, until : Nat]
      BY <1>1, <1>2 DEF Unexpired, Structure, TypeOK
    <2>2. PICK l \in Limits :
             \A e \in logs[k].members : e.score + l.win <= logs[k].until + Skew
      BY <1>2 DEF Enduring, Endures
    <2>3. /\ l.win \in Nat /\ logs[k].until \in Nat
          /\ \A e \in logs[k].members : e.score \in Nat
      BY <2>1, LimitNumbers DEF Member
    <2>4. \A e \in logs[k].members : e.score + l.win <= clock' + Skew
      BY <1>1, <2>1, <2>2, <2>3
    <2> QED
      BY <1>2, <2>4 DEF Shared!Outdated, entriesOf
  <1>3. \A k \in Keys :
           logs'[k].members = IF k \in gone THEN {} ELSE logs[k].members
    BY <1>1 DEF Unexpired, NoLog
  <1>4. entriesOf' = [k \in Keys |-> IF k \in gone THEN {} ELSE entriesOf[k]]
    BY <1>3 DEF entriesOf
  <1> HIDE DEF gone
  <1>5. gone \in SUBSET {k \in Keys : Shared!Outdated(k, clock')}
    BY <1>2 DEF gone
  <1>6. Shared!Pass
    BY <1>1, <1>4, <1>5 DEF Shared!Pass
  <1> QED
    BY <1>6 DEF Shared!SharedNext

LEMMA RefinementStep ==
    Structure /\ Structure' /\ Enduring /\ [Next]_vars
      => [Shared!SharedNext]_Shared!svars
  <1> SUFFICES ASSUME Structure, Structure', Enduring, [Next]_vars
               PROVE  Shared!SharedNext \/ UNCHANGED Shared!svars
    OBVIOUS
  <1>1. ASSUME UNCHANGED <<logs, clock>> PROVE UNCHANGED Shared!svars
    BY <1>1 DEF Shared!svars, entriesOf
  <1>2. ASSUME NEW k \in Keys, Erased(k)
        PROVE  Shared!SharedNext \/ UNCHANGED Shared!svars
    <2>1. CASE UNCHANGED logs
      BY <1>1, <1>2, <2>1 DEF Erased
    <2>2. CASE logs' = [logs EXCEPT ![k] = NoLog]
      <3>1. entriesOf' = [entriesOf EXCEPT ![k] = {}]
        BY <2>2 DEF entriesOf, NoLog, Structure, TypeOK
      <3>2. Shared!Drop(k)
        BY <1>2, <3>1 DEF Shared!Drop, Erased
      <3> QED
        BY <3>2 DEF Shared!SharedNext
    <2> QED
      BY <1>2, <2>1, <2>2 DEF Erased
  <1> QED
    BY <1>1, <1>2, StepCases, AdmitRefines, RefuseRefines, TickRefines
       DEF Structure, Begun, Still, FixedRun

\* The processes, the retries of the client library and the store implement
\* the log of SharedLog: a call is in it once, with its whole batch, or not at
\* all, and no log expires too soon.
THEOREM ImplementsSharedLog == Spec => HeldOnce
  <1>1. Init => Shared!SharedInit /\ Enduring
    <2> SUFFICES ASSUME Init PROVE Shared!SharedInit /\ Enduring
      OBVIOUS
    <2>1. \A k \in Keys : logs[k].members = {}
      BY DEF Init, NoLog
    <2>2. DefaultLimit \in Limits
      BY DEF Limits
    <2> QED
      BY <2>1, <2>2 DEF Init, Shared!SharedInit, entriesOf, Enduring, Endures
  <1> QED
    BY <1>1, EnduringStep, RefinementStep, StructureInvariant, PTL
       DEF Spec, HeldOnce, Shared!SharedSpec
----------------------------------------------------------------------------
(* What a call that is told no has left, if the client sends it once. *)

Unseen(x) == \A k \in Keys : \A e \in logs[k].members : e.nonce # x

\* An attempt that has yet to run has left nothing; a call that has been told
\* no has left nothing, and nothing of it is still to run.
Clean ==
    /\ \A m \in net : Unseen(m.req.nonce)
    /\ \A p \in Procs : call[p] # NoCall /\ call[p].answer = "denied" =>
          /\ Unseen(call[p].req.nonce)
          /\ \A m \in net : m.req.nonce # call[p].req.nonce

LEMMA CleanStep ==
    ASSUME MaxTries = 1
    PROVE  Structure /\ Clean /\ [Next]_vars => Clean'
  <1> SUFFICES ASSUME Structure, Clean, [Next]_vars PROVE Clean'
    OBVIOUS
  <1>t. /\ TypeOK
        /\ logs \in [Keys -> [members : SUBSET Member, until : Nat]]
        /\ call \in [Procs -> Call \cup {NoCall}]
        /\ \A m \in net : m \in Attempt /\ m.req \in Requests
        /\ \A p \in Procs : call[p] # NoCall => call[p].req \in Requests
    BY DEF Structure, TypeOK, Requests, Underway
  \* The logs lose entries, attempts are lost, and calls end.
  <1>0. ASSUME net' \subseteq net,
               \A k \in Keys : logs'[k].members \subseteq logs[k].members,
               \A p \in Procs : call'[p] \in {call[p], NoCall}
        PROVE  Clean'
    BY <1>0 DEF Clean, Unseen
  <1>1. ASSUME NEW r \in Request, Begun(r) PROVE Clean'
    <2>1. PICK p \in Procs :
            call' = [call EXCEPT ![p] = [req |-> r, try |-> 1, answer |-> "none"]]
      BY <1>1 DEF Begun
    <2>2. /\ \A s \in Requests : s.nonce # r.nonce
          /\ Unseen(r.nonce)
      BY <1>1, <1>t, BegunRequests DEF Unseen
    <2>3. net' = net \cup {[req |-> r, try |-> 1]} /\ UNCHANGED logs
      BY <1>1 DEF Begun
    <2>4. \A m \in net' : Unseen(m.req.nonce)'
      BY <2>2, <2>3 DEF Clean, Unseen
    <2>5. ASSUME NEW q \in Procs, call'[q] # NoCall, call'[q].answer = "denied"
          PROVE  /\ Unseen(call[q].req.nonce)'
                 /\ \A m \in net' : m.req.nonce # call'[q].req.nonce
      <3>1. call'[q] = call[q]
        BY <1>t, <2>1, <2>5
      <3>2. call[q].req.nonce # r.nonce
        BY <1>t, <2>2, <2>5, <3>1
      <3> QED
        BY <2>3, <2>5, <3>1, <3>2 DEF Clean, Unseen
    <2> QED
      BY <2>4, <2>5 DEF Clean
  <1>2. ASSUME NEW p \in Procs, Retry(p) PROVE FALSE
    BY <1>2, <1>t DEF Retry, Call
  <1>3. ASSUME NEW p \in Procs, Finish(p) PROVE Clean'
    BY <1>0, <1>3, <1>t DEF Finish
  <1>4. ASSUME NEW m \in net, Execute(m) PROVE Clean'
    <2> DEFINE r == m.req
    <2>1. /\ r \in Request /\ r \in Requests /\ r.key \in Keys
          /\ Unseen(r.nonce) /\ net' = net \ {m}
      BY <1>4, <1>t, ExecuteTypes, RequestFields DEF Execute, Clean
    \* The call was sent once: this was its attempt.
    <2>2. \A x \in net' : x.req.nonce # r.nonce
      <3> SUFFICES ASSUME NEW x \in net, x # m, x.req.nonce = r.nonce PROVE FALSE
        BY <2>1
      <3>1. x.req = r
        BY <1>t DEF Structure, Distinct
      <3> QED
        BY <1>t, <3>1 DEF Attempt
    <2>3. PICK answer \in {"allowed", "denied"} :
             /\ Reply(m, answer)
             /\ \A k \in Keys : \A e \in logs'[k].members :
                   \/ e \in logs[k].members
                   \/ answer = "allowed" /\ e.nonce = r.nonce
      <3>1. CASE RunFixed(m)
        <4>1. UNCHANGED logs
          BY <3>1 DEF RunFixed
        <4> QED
          BY <3>1, <4>1 DEF RunFixed
      <3>2. CASE RunSliding(m) /\ SlidingFits(r)
        <4>1. /\ Reply(m, "allowed")
              /\ logs' = [logs EXCEPT ![r.key] =
                             [members |-> Valid(r) \cup Members(r),
                              until |-> clock + r.lim.win]]
          BY <3>2 DEF RunSliding
        <4>2. /\ logs'[r.key].members = Valid(r) \cup Members(r)
              /\ \A k \in Keys : k # r.key => logs'[k] = logs[k]
          BY <1>t, <2>1, <4>1
        <4>3. /\ \A e \in Members(r) : e.nonce = r.nonce
              /\ Valid(r) \subseteq logs[r.key].members
          BY DEF Members, Valid
        <4>4. \A k \in Keys : \A e \in logs'[k].members :
                 e \in logs[k].members \/ e.nonce = r.nonce
          BY <4>2, <4>3
        <4> QED
          BY <4>1, <4>4
      <3>3. CASE RunSliding(m) /\ ~SlidingFits(r)
        <4>1. Reply(m, "denied") /\ Refused(r)
          BY <1>4, <3>3, SlidingCases DEF RunSliding, Admitted
        <4>2. \A k \in Keys : logs'[k].members \subseteq logs[k].members
          <5>1. CASE Valid(r) = {}
            <6>1. logs' = [logs EXCEPT ![r.key] = [members |-> {}, until |-> 0]]
              BY <4>1, <5>1 DEF Refused, NoLog
            <6> QED
              BY <1>t, <2>1, <6>1
          <5>2. CASE Valid(r) # {}
            <6>1. logs' = [logs EXCEPT ![r.key] =
                              [members |-> Valid(r), until |-> logs[r.key].until]]
              BY <4>1, <5>2 DEF Refused
            <6>2. Valid(r) \subseteq logs[r.key].members
              BY DEF Valid
            <6> QED
              BY <1>t, <2>1, <6>1, <6>2
          <5> QED
            BY <5>1, <5>2
        <4> QED
          BY <4>1, <4>2
      <3> QED
        BY <1>4, <3>1, <3>2, <3>3 DEF Execute
    <2>4. ASSUME NEW x, x # r.nonce, Unseen(x) PROVE Unseen(x)'
      BY <2>3, <2>4 DEF Unseen
    <2>5. \A x \in net' : Unseen(x.req.nonce)'
      BY <2>1, <2>2, <2>4 DEF Clean
    <2>6. ASSUME NEW p \in Procs, call'[p] # NoCall, call'[p].answer = "denied"
          PROVE  /\ Unseen(call[p].req.nonce)'
                 /\ \A x \in net' : x.req.nonce # call'[p].req.nonce
                 /\ call'[p].req = call[p].req
      <3>1. CASE /\ call[p] # NoCall /\ call[p].req = r /\ call[p].try = m.try
                 /\ answer = "denied"
        <4>1. call'[p].req = r
          BY <1>t, <2>3, <3>1 DEF Reply, Call
        <4>2. Unseen(r.nonce)'
          BY <2>1, <2>3, <3>1 DEF Unseen
        <4> QED
          BY <2>2, <3>1, <4>1, <4>2
      <3>2. CASE call'[p] = call[p]
        <4>1. /\ Unseen(call[p].req.nonce)
              /\ \A x \in net : x.req.nonce # call[p].req.nonce
          BY <2>6, <3>2 DEF Clean
        <4> QED
          BY <1>4, <2>1, <2>4, <3>2, <4>1
      <3> QED
        BY <1>t, <2>3, <2>6, <3>1, <3>2 DEF Reply, Call
    <2> QED
      BY <2>5, <2>6 DEF Clean, Unseen
  <1>5. CASE ResetStep
    <2>1. /\ UNCHANGED <<net, call>>
          /\ \A k \in Keys : logs'[k].members \subseteq logs[k].members
      <3>1. ASSUME NEW k, NEW x, Deleted(k, x)
            PROVE  \A j \in Keys : logs'[j].members \subseteq logs[j].members
        BY <1>t, <3>1 DEF Deleted, NoLog
      <3> QED
        BY <1>5, <3>1 DEF ResetStep, ResetDelete, ResetReturn
    <2> QED
      BY <1>0, <2>1
  <1>6. CASE Tick
    BY <1>0, <1>6, <1>t DEF Tick, Unexpired, NoLog
  <1>7. ASSUME \/ \E p \in Procs, k \in Keys, l \in LimitArgs : SetLimit(p, k, l)
               \/ \E k \in Keys : ResetBegin(k)
               \/ UNCHANGED vars
        PROVE  Clean'
    BY <1>0, <1>7 DEF SetLimit, ResetBegin, vars
  <1> QED
    BY <1>1, <1>2, <1>3, <1>4, <1>5, <1>6, <1>7, <1>t, BeginCases
       DEF Next, Client, Receive, GiveUp

\* If the client library does not send a call again, a call that is told no
\* has left nothing in the log: the retry is all that breaks what the batch
\* test says.
THEOREM RejectionIsClean ==
    ASSUME MaxTries = 1
    PROVE  Spec => RejectedConsumesNothing
  <1>1. Init => Clean
    BY DEF Init, Clean
  <1>2. Structure /\ Clean =>
           \A p \in Procs : Receive(p) /\ call[p].answer = "denied" =>
              \A e \in logs[call[p].req.key].members :
                 e.nonce # call[p].req.nonce
    <2> SUFFICES ASSUME Structure, Clean, NEW p \in Procs, Receive(p),
                        call[p].answer = "denied"
                 PROVE  \A e \in logs[call[p].req.key].members :
                           e.nonce # call[p].req.nonce
      OBVIOUS
    <2>1. call[p] # NoCall /\ call[p].req.key \in Keys
      BY DEF Receive, Structure, TypeOK, Call, Request
    <2> QED
      BY <2>1 DEF Clean, Unseen
  <1>3. Structure /\ Clean /\ [Next]_vars => Clean'
    BY CleanStep
  <1> QED
    BY <1>1, <1>2, <1>3, StructureInvariant, PTL DEF Spec, RejectedConsumesNothing
====
