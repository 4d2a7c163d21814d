---- MODULE RedisLimiter ----
(***************************************************************************)
(* pkg/ratelimiter/redis.go: limiters of several server processes that     *)
(* share a Redis store.  A call builds the arguments of a script from its  *)
(* own process's limits and clock and sends it; Redis runs scripts one at  *)
(* a time.  The client library sends the same arguments again when an      *)
(* attempt fails: the script or its reply may have been lost, or the       *)
(* script may still run late.                                              *)
(*                                                                         *)
(* Bounds: clock readings are at most Skew ticks ahead of the store's      *)
(* clock and at most MaxStale ticks old when a script runs; a process has  *)
(* one call at a time; one Reset runs at a time.                           *)
(***************************************************************************)
EXTENDS Integers, FiniteSets

CONSTANTS
    Keys,           \* client keys
    Procs,          \* processes that share the store
    Nonces,         \* values of rand.Text
    Nodes,          \* Redis nodes: one, or those of a cluster
    NodeOf,         \* the node that holds a physical key
    NoCall,         \* a process with no call under way
    NoReset,        \* no Reset under way
    NoAdvice,       \* no standing RetryAfter
    DefaultLimit,   \* config.DefaultLimit
    LimitArgs,      \* limits given to SetLimit
    CountArgs,      \* batch sizes given to AllowN
    MaxTries,       \* attempts of the client library
    MaxTime,        \* bound: last tick of the store's clock
    MaxStale,       \* bound: age of a clock reading when a script runs
    Skew            \* bound: how far a process's clock is ahead

ValidLimit(l) == l.req > 0 /\ l.win > 0

Limits == {DefaultLimit} \cup {l \in LimitArgs : ValidLimit(l)}

ASSUME RedisAssumption ==
    /\ \A l \in LimitArgs \cup {DefaultLimit} : l.req \in Int /\ l.win \in Int
    /\ ValidLimit(DefaultLimit)
    /\ CountArgs \subseteq Int
    /\ MaxTries \in Nat \ {0}
    /\ {MaxTime, MaxStale, Skew} \subseteq Nat

VARIABLES
    clock,      \* the store's clock
    offset,     \* how far each process's clock is ahead of it
    custom,     \* customLimits of every process
    logs,       \* the sorted set of every key, and when it expires
    counters,   \* the counters of every key by window index
    net,        \* attempts on their way to the store
    call,       \* the call of every process
    reset,      \* the Reset under way
    mark,       \* history: the tick at which an observer starts to count
    units,      \* history: units the two scripts admitted in the interval
    advice      \* history: the standing RetryAfter of every key's log

vars == <<clock, offset, custom, logs, counters, net, call, reset, mark, units,
          advice>>

history == <<mark, units, advice>>

Time == 0..MaxTime

Amounts == {n \in CountArgs : n > 0} \cup {1}

Algorithms == {"sliding", "fixed"}

Request == [op : Algorithms, key : Keys, n : Amounts, lim : Limits,
            now : Nat, sent : Time, nonce : Nonces]

Attempt == [req : Request, try : 1..MaxTries]

Answers == {"none", "allowed", "denied"}

Call == [req : Request, try : 1..MaxTries, answer : Answers]

Member == [nonce : Nonces, i : Nat, score : Nat]

Advice == [lim : Limits, at : Nat, size : Nat]

Indices == 0..(MaxTime + Skew)

PhysicalKeys == ({"sliding"} \X {0}) \cup ({"fixed"} \X Indices)

NoLog == [members |-> {}, until |-> 0]

NoCounter == [count |-> 0, until |-> 0]

ASSUME NodeAssumption == NodeOf \in [PhysicalKeys -> Nodes]

Init ==
    /\ clock = 0
    /\ offset \in [Procs -> 0..Skew]
    /\ custom = [p \in Procs |-> [k \in Keys |-> DefaultLimit]]
    /\ logs = [k \in Keys |-> NoLog]
    /\ counters = [k \in Keys |-> [i \in Indices |-> NoCounter]]
    /\ net = {}
    /\ call = [p \in Procs |-> NoCall]
    /\ reset = NoReset
    /\ mark \in Time
    /\ units = [k \in Keys |-> [a \in Algorithms |-> 0]]
    /\ advice = [k \in Keys |-> NoAdvice]

----------------------------------------------------------------------------
(* The client's side of a call. *)

Underway == {p \in Procs : call[p] # NoCall}

UsedNonces ==
    {m.req.nonce : m \in net} \cup {call[p].req.nonce : p \in Underway}
      \cup UNION {{e.nonce : e \in logs[k].members} : k \in Keys}

\* The limit and the clock are looked up in one step: nothing else of the
\* process depends on either in between.
Begin(p, op, k, n) ==
    \E x \in Nonces \ UsedNonces :
        LET r == [op |-> op, key |-> k, n |-> n, lim |-> custom[p][k],
                  now |-> clock + offset[p], sent |-> clock, nonce |-> x]
        IN  /\ call[p] = NoCall
            /\ call' = [call EXCEPT ![p] = [req |-> r, try |-> 1, answer |-> "none"]]
            /\ net' = net \cup {[req |-> r, try |-> 1]}
            /\ UNCHANGED <<clock, offset, custom, logs, counters, reset, history>>

\* Mutant: the batch size is not checked.
BeginAnyN(p, k, n) == Begin(p, "sliding", k, n)

BeginAllowN(p, k, n) == n > 0 /\ Begin(p, "sliding", k, n)

BeginAllowWithInfo(p, k) == Begin(p, "sliding", k, 1)

BeginFixedWindow(p, k) == Begin(p, "fixed", k, 1)

\* The attempt failed, with or without the script having run: the client
\* library sends the same arguments again.
Retry(p) ==
    /\ call[p] # NoCall /\ call[p].try < MaxTries
    /\ call' = [call EXCEPT ![p].try = @ + 1, ![p].answer = "none"]
    /\ net' = net \cup {[req |-> call[p].req, try |-> call[p].try + 1]}
    /\ UNCHANGED <<clock, offset, custom, logs, counters, reset, history>>

Finish(p) ==
    /\ call' = [call EXCEPT ![p] = NoCall]
    /\ UNCHANGED <<clock, offset, custom, logs, counters, net, reset, history>>

\* The caller gets the answer, or an error when the last attempt fails.
Receive(p) == call[p] # NoCall /\ call[p].answer # "none" /\ Finish(p)

GiveUp(p) == call[p] # NoCall /\ call[p].try = MaxTries /\ Finish(p)

----------------------------------------------------------------------------
(* The scripts. *)

\* Ticks of an interval from mark on that is shorter than any window by
\* the age and the skew a clock reading may have.
InInterval(t) ==
    mark <= t /\ \A l \in Limits : t - mark < l.win - MaxStale - Skew

Counted(r) ==
    units' = IF InInterval(clock)
             THEN [units EXCEPT ![r.key][r.op] = @ + r.n]
             ELSE units

\* The reply reaches the call that waits for this attempt, if any does.
Reply(m, answer) ==
    call' = [p \in Procs |->
                IF call[p] # NoCall /\ call[p].req = m.req /\ call[p].try = m.try
                THEN [call[p] EXCEPT !.answer = answer]
                ELSE call[p]]

\* History: what scripts wrote of the key since a Reset of it began is not the
\* Reset's to delete.
Noted(k, x) ==
    reset' = IF reset # NoReset /\ reset.key = k
             THEN [reset EXCEPT !.written = @ \cup {x}]
             ELSE reset

\* Mutant: the window is rounded down to the store's resolution.
ValidRoundedDown(r) ==
    {e \in logs[r.key].members : e.score > r.now - (r.lim.win - 1)}

\* Mutant: an entry exactly a window old is kept.
ValidAtEdge(r) ==
    {e \in logs[r.key].members : e.score >= r.now - r.lim.win}

Valid(r) ==
    {e \in logs[r.key].members : e.score > r.now - r.lim.win}

\* Mutant: the numbers go on after those the call's nonce has in the log.
MembersGoOn(r) ==
    LET before == Cardinality({e \in Valid(r) : e.nonce = r.nonce})
    IN  {[nonce |-> r.nonce, i |-> before + i, score |-> r.now] : i \in 1..r.n}

\* Members are distinct across calls; a second run of the same attempt
\* writes the same members.
Members(r) == {[nonce |-> r.nonce, i |-> i, score |-> r.now] : i \in 1..r.n}

SlidingFits(r) == Cardinality(Valid(r)) + r.n <= r.lim.req

oldest(r) ==
    CHOOSE s \in {e.score : e \in Valid(r)} : \A e \in Valid(r) : s <= e.score

\* When retry_after has gone by, by the clock of the process that asked, for
\* the denial of a single unit.
RetryAt(r) ==
    LET retry_after == oldest(r) + r.lim.win - r.now
    IN  r.now + (IF retry_after < 0 THEN 0 ELSE retry_after)

Advised(r) ==
    IF r.n = 1
    THEN [advice EXCEPT ![r.key] =
             [lim |-> r.lim, at |-> RetryAt(r), size |-> Cardinality(Valid(r))]]
    ELSE advice

RunSliding(m) ==
    LET r == m.req
        l == logs[r.key]
    IN  /\ r.op = "sliding"
        /\ \/ /\ SlidingFits(r)
              /\ logs' = [logs EXCEPT ![r.key] =
                             [members |-> Valid(r) \cup Members(r),
                              until |-> clock + r.lim.win]]
              /\ Reply(m, "allowed")
              /\ IF Members(r) \subseteq l.members THEN UNCHANGED units ELSE Counted(r)
              /\ advice' = [advice EXCEPT ![r.key] = NoAdvice]
              /\ Noted(r.key, <<"sliding", 0>>)
           \/ /\ ~SlidingFits(r)
              /\ logs' = [logs EXCEPT ![r.key] =
                             IF Valid(r) = {} THEN NoLog
                             ELSE [members |-> Valid(r), until |-> l.until]]
              /\ Reply(m, "denied")
              /\ advice' = Advised(r)
              /\ UNCHANGED <<units, reset>>
        /\ UNCHANGED counters

Index(r) == r.now \div r.lim.win

\* Mutant: > for >=.
FixedFitsOneMore(r) == counters[r.key][Index(r)].count <= r.lim.req

FixedFits(r) == counters[r.key][Index(r)].count < r.lim.req

RunFixed(m) ==
    LET r == m.req
        c == counters[r.key][Index(r)]
    IN  /\ r.op = "fixed"
        /\ \/ /\ FixedFits(r)
              /\ counters' = [counters EXCEPT ![r.key][Index(r)] =
                    [count |-> c.count + 1,
                     until |-> IF c.count = 0 THEN clock + r.lim.win ELSE c.until]]
              /\ Reply(m, "allowed")
              /\ Counted(r)
              /\ Noted(r.key, <<"fixed", Index(r)>>)
           \/ /\ ~FixedFits(r)
              /\ Reply(m, "denied")
              /\ UNCHANGED <<counters, units, reset>>
        /\ UNCHANGED <<logs, advice>>

Execute(m) ==
    /\ RunSliding(m) \/ RunFixed(m)
    /\ net' = net \ {m}
    /\ UNCHANGED <<clock, offset, custom, mark>>

----------------------------------------------------------------------------
(* Reset, SetLimit, and time. *)

Deleted(k, x) ==
    /\ IF x[1] = "sliding"
       THEN logs' = [logs EXCEPT ![k] = NoLog] /\ UNCHANGED counters
       ELSE counters' = [counters EXCEPT ![k][x[2]] = NoCounter] /\ UNCHANGED logs
    /\ units' = [units EXCEPT ![k][x[1]] = 0]

Stored(k, x) ==
    IF x[1] = "sliding" THEN logs[k] # NoLog ELSE counters[k][x[2]] # NoCounter

\* Mutant: the pattern matches the sliding window's key only.
FoundSliding(k, node) ==
    {x \in PhysicalKeys : x[1] = "sliding" /\ NodeOf[x] = node /\ Stored(k, x)}

Found(k, node) == {x \in PhysicalKeys : NodeOf[x] = node /\ Stored(k, x)}

\* The client sends SCAN, a command without a key, to some node.
ResetBegin(k) ==
    \E node \in Nodes :
        /\ reset = NoReset
        /\ reset' = [key |-> k, node |-> node, left |-> Found(k, node),
                     written |-> {}]
        /\ UNCHANGED <<clock, offset, custom, logs, counters, net, call, history>>

\* SCAN returns every key that is there throughout, and perhaps keys that
\* are created meanwhile.
ResetDelete ==
    \E x \in reset.left \cup Found(reset.key, reset.node) :
        /\ Deleted(reset.key, x)
        /\ reset' = [reset EXCEPT !.left = @ \ {x}, !.written = @ \ {x}]
        /\ UNCHANGED <<clock, offset, custom, net, call, mark, advice>>

\* Reset returns: nil at the end of the iteration, or an error anywhere.
ResetReturn ==
    /\ reset' = NoReset
    /\ UNCHANGED <<clock, offset, custom, logs, counters, net, call, history>>

ResetStep == reset # NoReset /\ (ResetDelete \/ ResetReturn)

SetLimit(p, k, l) ==
    /\ ValidLimit(l)
    /\ custom' = [custom EXCEPT ![p][k] = l]
    /\ UNCHANGED <<clock, offset, logs, counters, net, call, reset, history>>

Unexpired(x, none) == IF x.until > clock + 1 THEN x ELSE none

\* Keys expire by the store's clock.  An attempt that has not reached the
\* store by the time its clock reading is MaxStale ticks old is lost.
Tick ==
    /\ clock < MaxTime
    /\ \A p \in Underway : clock - call[p].req.sent < MaxStale
    /\ clock' = clock + 1
    /\ net' = {m \in net : clock - m.req.sent < MaxStale}
    /\ logs' = [k \in Keys |-> Unexpired(logs[k], NoLog)]
    /\ counters' = [k \in Keys |->
          [i \in Indices |-> Unexpired(counters[k][i], NoCounter)]]
    /\ UNCHANGED <<offset, custom, call, reset, history>>

Client(p) ==
    \/ \E k \in Keys :
          \/ \E n \in CountArgs : BeginAllowN(p, k, n)
          \/ BeginAllowWithInfo(p, k)
          \/ BeginFixedWindow(p, k)
          \/ \E l \in LimitArgs : SetLimit(p, k, l)
    \/ Retry(p)
    \/ Receive(p)
    \/ GiveUp(p)

Next ==
    \/ \E p \in Procs : Client(p)
    \/ \E m \in net : Execute(m)
    \/ \E k \in Keys : ResetBegin(k)
    \/ ResetStep
    \/ Tick

Spec == Init /\ [][Next]_vars

----------------------------------------------------------------------------

\* Types.
TypeOK ==
    /\ clock \in Time
    /\ offset \in [Procs -> 0..Skew]
    /\ custom \in [Procs -> [Keys -> Limits]]
    /\ logs \in [Keys -> [members : SUBSET Member, until : Nat]]
    /\ counters \in [Keys -> [Indices -> [count : Nat, until : Nat]]]
    /\ net \subseteq Attempt
    /\ call \in [Procs -> Call \cup {NoCall}]
    /\ reset \in [key : Keys, node : Nodes, left : SUBSET PhysicalKeys,
                  written : SUBSET PhysicalKeys] \cup {NoReset}
    /\ mark \in Time
    /\ units \in [Keys -> [Algorithms -> Nat]]
    /\ advice \in [Keys -> Advice \cup {NoAdvice}]

\* The sliding window holds across processes, lost and late attempts and
\* retries: in an interval shorter than a window, less the age and the skew
\* of clock readings, the script admits at most one limit's worth of a key
\* (Reset, which removes the log, starts over).
SlidingBound ==
    \A k \in Keys : \E l \in Limits : units[k]["sliding"] <= l.req

\* The interval is a single tick.
OneTick == \E l \in Limits : l.win - MaxStale - Skew = 1

\* The fixed windows admit at most two limits' worth in such an interval,
\* although processes disagree on the index of the window; and at most three
\* if the interval is longer than a tick, because the counter of the older
\* window may expire within it and start again at zero, when a process still
\* uses it (limits of one window size).
FixedBound ==
    \A k \in Keys : \E l \in Limits :
        units[k]["fixed"] <= (IF OneTick THEN 2 ELSE 3) * l.req

\* RetryAfter of the sliding window is honest across processes, retries and
\* expiry: a single request whose clock reading has reached the time, under
\* the limit that was told and with nothing served since, finds fewer units
\* in its window than the request that was denied, whenever its script runs.
\* So it fits if the log was just full, and waits no more often than the log
\* has units too many if it was overfull.
RetryPromise ==
    \A m \in net :
        LET r == m.req
            a == advice[r.key]
        IN  r.op = "sliding" /\ r.n = 1 /\ a # NoAdvice /\ r.lim = a.lim
              /\ r.now >= a.at
                => Cardinality(Valid(r)) < a.size

\* The processes and the store implement the log of SharedLog: a call whose
\* script runs again, after a lost or late reply, is in the log once, with its
\* whole batch, or not at all; and a log does not expire while an entry of it
\* can count, but for the skew of the clocks.
entriesOf == [k \in Keys |-> logs[k].members]

Shared == INSTANCE SharedLog WITH entries <- entriesOf, Names <- Nonces,
                                  Times <- Indices

HeldOnce == Shared!SharedSpec

\* What the batch test says ("RejectedBatchConsumesNothing"): a call that
\* is told no has left nothing in the log.
RejectedConsumesNothing ==
    [][\A p \in Procs :
          Receive(p) /\ call[p].answer = "denied" =>
              \A e \in logs[call[p].req.key].members :
                  e.nonce # call[p].req.nonce]_vars

\* What the interface and the README say of Reset, that it removes the data of
\* the key: whatever scripts run between its steps, when it returns the store
\* has nothing of the key, of either algorithm, but what was written after
\* Reset deleted it or began.  A Reset that fails in the middle leaves
\* besides only what it had yet to come to.
ResetClears ==
    [][ResetStep /\ reset' = NoReset =>
          {x \in PhysicalKeys : Stored(reset.key, x)}
             \subseteq reset.left \cup reset.written]_vars
====
