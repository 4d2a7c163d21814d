# Rate limiter: specifications, model checking and proofs

This directory holds TLA+ specifications of the rate limiters of this
repository, TLC configurations that check them on small instances, and proofs
checked by TLAPS. `PROJECT.json` relates every definition to the source lines it
models, every run to its properties, and every hazard to the properties that
would catch it.

## Inventory

| Part | Source | State | Operations |
|---|---|---|---|
| Interface | `pkg/ratelimiter/interface.go` | `Limit`, `Config` | the contract of a limiter |
| Fixed window | `pkg/ratelimiter/fixed_window.go` | `windows`, `customLimits`; per object `count`, `windowStart`, mutex | `AllowN`, `AllowWithInfo`, `Reset`, `SetLimit`, `GetLimit`, `Close` |
| Token bucket | `pkg/ratelimiter/token_bucket.go` | `buckets`, `customLimits`; per object `tokens`, `capacity`, `refillRate`, `lastRefillTime`, mutex | the same; `SetLimit` also deletes the bucket |
| Sliding window log | `pkg/ratelimiter/sliding_window.go` | `logs`, `customLimits`; per object `timestamps`, mutex | the same, and the `cleanup` goroutine |
| Redis limiter | `pkg/ratelimiter/redis.go` | custom limits in the process, counters and sorted sets in Redis | two Lua scripts, `Reset` by SCAN and DEL |
| Middleware | `pkg/middleware/ratelimit.go` | none of its own; `PerEndpointLimiter` has a map of limiters | key extractors, `Handler`, `DefaultOnLimit`, `AddEndpoint` |
| Server | `cmd/server/main.go` | `httpServer`, one limiter | start, shutdown, API and admin handlers |

How the parts interact: the server gives its limiter to the middleware; the
middleware extracts a key from the request and calls `AllowWithInfo`; admin
handlers call `SetLimit` and `Reset` on the same limiter while requests are
served; `main` calls `Shutdown`, which calls `Close`. Handlers run in a
goroutine each, so every operation of a limiter runs concurrently with every
other. The in-process limiters share a `sync.Map` from keys to objects and a
mutex in each object; nothing holds a lock across a map operation and an
object's update.

What is hard:

- **Stale inputs.** A call looks up its limit, reads the clock and fetches its
  object, in that order, before it takes the object's mutex. Each of the three
  may be out of date when it is used.
- **Time out of order.** Calls reach a mutex in another order than they read
  the clock: windows restart in the past, a bucket's elapsed time is negative,
  a log is not sorted.
- **Unlocked administration.** `Reset`, `SetLimit`, `Close` and the cleaner's
  deletion change the maps under the feet of running calls.
- **Promises about the future.** `RetryAfter` is computed at one moment and
  relied upon at another.
- **Start and shutdown.** `Start` runs in a goroutine of its own and assigns the
  field that `Shutdown` reads; a signal, a timeout, requests that never end and
  `Close` meet in any order.
- **Redis.** Lost replies and retried scripts, clients with different clocks,
  expiry, partial deletion, clusters.

The hazards, each with its line, are in `PROJECT.json`.

## Modules

| Module | Models | Builds on |
|---|---|---|
| `LimiterCalls` | what the three in-process limiters share: a call's steps, the maps, the mutex, `Close`, the clock | |
| `FixedWindow` | `fixed_window.go` | `LimiterCalls` |
| `WindowCounter` | abstract: an atomic counter per key | |
| `TokenBucket` | `token_bucket.go` | `LimiterCalls` |
| `TokenAccount` | abstract: an account that accrues every tick once, in order | |
| `SlidingWindow` | `sliding_window.go` with its cleaner | `LimiterCalls` |
| `WindowLog` | abstract: an atomic log per key, which prunes, counts and appends in one step | |
| `RedisLimiter` | `redis.go`: processes that share a Redis store | |
| `SharedLog` | abstract: a log per key that holds a call once, however often it is sent | |
| `Middleware` | `middleware/ratelimit.go` over the fixed window limiter | `FixedWindow` |
| `Server` | `cmd/server/main.go`: routes, admin handlers, start and shutdown | `Middleware` |
| `MCFixedWindow`, `MCTokenBucket`, `MCSlidingWindow`, `MCRedisLimiter`, `MCServer` | instances, views and symmetry for TLC | the module of that name |
| `LimiterCallsProofs` | lemmas and the shared inductive invariant `BaseInv` | `LimiterCalls` |
| `FixedWindowProofs` | theorems of `FixedWindow` | `FixedWindow`, `LimiterCallsProofs` |
| `TokenBucketProofs` | theorems of `TokenBucket` | `TokenBucket`, `LimiterCallsProofs` |
| `ServerProofs` | theorems of `Server` | `Server`, `FixedWindowProofs` |
| `SetLemmas` | facts about finite sets of numbers and their sizes | |
| `SlidingWindowProofs` | theorems of `SlidingWindow` | `SlidingWindow`, `LimiterCallsProofs`, `SetLemmas` |
| `RedisProofs` | theorems of `RedisLimiter`: types, the sliding window, Reset | `RedisLimiter`, `SetLemmas` |
| `RedisFixedProofs` | its fixed windows | `RedisProofs` |

### How state and actions correspond to the code

`table` is the limiter's `sync.Map`, `custom` is `customLimits`, `heap` the
fields of every object, `mu` the mutexes. An object outlives its entry: it is
`Fresh` (free for a new `&fixedWindow{...}`) only when no entry and no call
points to it. `call[p]` holds the local variables of the call that goroutine p
runs, and `pc[p]` its next step:

| `pc` | Next step | Code |
|---|---|---|
| `idle` | `Begin`: check n, `GetLimit` | first lines of `AllowN`, `AllowWithInfo` |
| `clock` | `ReadClock` | `now := time.Now()` |
| `load` | `LoadFound` or `Create` | `LoadOrStore` |
| `lock` | `Lock` | `mu.Lock()` |
| `update` | `Roll`, `Refill`, `Prune` | the object brought up to date |
| `check` | `Pass` or `Deny` | the test; a denial returns |
| `commit` | `Commit`, `Consume` | units counted, return, deferred `Unlock` |

An invalid `n` returns before anything is touched and is no step, and a
`SetLimit` with an invalid limit is none either. The critical section is three
steps so that the mutex, not the model, keeps them together: the mutants that
skip the mutex fail the checks. `Reset`, `SetLimit`, `Close` and the clock are
actions that may happen between any two steps. `Close` ranges over the map and
then over the limits, one entry a step. `SetLimit` of the token bucket is two
steps, as in the code.

In `SlidingWindow` a log is a set of entries with the order in which they were
appended; the cleaner is a process of its own with the steps visit, lock and
look up the limit, judge and unlock, delete by key. The minute between sweeps
and the order of `Range` are left out: it may visit any key at any time.

`RedisLimiter` has no mutex and no object: Redis runs one script at a time, so
`Execute` runs a whole script in a step. `call[p]` is the call that a server
process waits for, `net` the attempts on their way to the store, which may run
in any order, late, or never. The client library sends the same arguments again
when an attempt fails (`Retry`), up to `MaxTries`, and then returns an error
(`GiveUp`); both are modelled from how go-redis behaves by default and are marked
external in the map. A reply reaches only the call that still waits for that
attempt. `logs` is the sorted set of a key, a member being the nonce of a call
and a number; `counters` are the fixed windows of a key by index; both expire by
the store's clock, while scores and indices come from the processes' clocks,
which are up to `Skew` ahead. The scores travel with the call, so a second run of its
script writes the members that the first one wrote. The sliding window script
computes `retry_after` from the oldest entry it has left and the caller's `now`;
`RetryAt` is when that time is over. `Reset` takes what SCAN sees of one node when it
starts, deletes key by key, and may end with an error anywhere; scripts run in
between, and `written` in the record of the Reset remembers what they wrote.

`Middleware` and `Server` compose what runs by default: the server's limiter is
`FixedWindow`, and a goroutine of it serves a connection. `conn[p]` says where
the connection is: closed, idle, in the handler before the limiter, in the
limiter, in the next handler, denied and about to be told so, or in an admin
handler. The steps inside the limiter are those of `FixedWindow`, one at a time,
so that admin handlers, other requests and `main` come in between. `Routed` is
the choice of a key by route and headers; a header stands for what the extractor
makes of it. `main` and `start` are the next steps of the main goroutine and of
the one that runs `Start`:

| `main` | Next step | Code |
|---|---|---|
| `notify` | `Notify`; a signal kills the process | `signal.Notify` |
| `wait` | `Receive` | `<-quit` |
| `shutdown` | `Shutdown`, or `ShutdownPanics` when `httpServer` is nil | `s.httpServer.Shutdown(ctx)` |
| `drain` | `Drained` or `TimedOut` | its return with nil or the context's error |
| `close` | `CloseLimiter`, one entry a step, then `Exit` | `s.limiter.Close()` |

`net/http` is external and modelled as documented: `Shutdown` stops the accept
loop, waits until no connection is active and closes the idle ones. A connection
that it has closed as idle runs no handler afterwards; `CleanExit` rests on that
promise.

Three kinds of history variables record what the properties need and guide
nothing: `units` and `mark` (units admitted from an arbitrary moment on),
`advice` (the standing `RetryAfter` of a key, void once the key is served), `told` (the last `Retry-After` of a
client), and `inForce`, `seen`, `swept`.

## Abstractions

- Time is whole ticks; a window is one or two ticks in the runs of the limiters
  and three in those of the server. A clock reading is exact and
  never runs backwards (Go's `time.Time` carries a monotonic reading), but may
  be old when it is used: at most `MaxStale` ticks, the bound on how long a
  call is descheduled. The bounds the properties state depend on it.
- Tokens are exact: a token of a bucket with limit l is `l.win` parts and a tick
  refills `l.req` parts. Floating point rounding is left out, except that
  `RetryAfter` is truncated.
- Batch sizes and limits do not overflow an `int`.
- `GetLimit` never returns nil: the constructors replace a missing default.
- The constructors do not validate the default limit; `LimitAssumption` says
  that it is positive, as the server's flags and the tests have it.
- Observers (`GetWindowInfo`, `GetBucketInfo`, `GetLogInfo`) change nothing and
  are left out, as are `Result.Limit` and `Result.ResetAt`.
- In `RedisLimiter` ticks are milliseconds and a window is a whole number of
  them (the code rounds up). Limit and clock are read in one step, because
  nothing else of the process depends on them. The pages of a SCAN all come from
  one node; with several pages the client may ask another node for each, which
  can only lose more keys.

## Runs

Each limiter's instance has one key, because every operation touches one key only and the
keys share nothing but the clock; two goroutines and two objects, the fewest at
which a call can hold an object that is no longer mapped while another works on
its successor. Limits of one to three units in windows of one or two ticks are
reached and exceeded within the clock's bound, which is at least a window. The
server's windows have three ticks, for a second of two. Clock readings get a tick
old (`MaxStale`); they are always fresh in the Redis runs, whose processes differ
by `Skew` instead, in the server runs, and in `SlidingWindowKeyBound`, which
needs no late reading. Views leave out the history that a run's
properties do not read and the fields of unreachable objects; goroutines and
objects, and the nonces of Redis calls, are symmetric. Deadlock is checked
everywhere but in the server, whose process ends.

Passing runs. `BoundedSpec` narrows `Spec` where a wider instance would not
finish: `Close` begins and ends in the first tick, and the observer that counts
units starts in the last tick (in the first or last for the token bucket, whose
bound has no interval). What it leaves out is those steps at later ticks, which
differ from earlier ones only by the age of the entries.

| Run | Properties | Bounds of note |
|---|---|---|
| `FixedWindowSafety` | `QuotaHeld`; `BurstBound`: the documented boundary burst is two limits and no more; `CountsPerKey`: the code implements `WindowCounter`; `RetryPromise`: who waits for `RetryAfter` is served | valid and invalid batches and limits; the limit rises and falls |
| `TokenBucketSafety` | `RateBound`: capacity and refill bound what is admitted; `DebtBound`: how far below zero late readings take the tokens, and with them the `Remaining` that is reported; `AccruesOnce`: the code implements `TokenAccount`; `RetryPromise` | the default limit makes `RetryAfter` a fraction of a tick; limits change |
| `SlidingWindowSafety` | `WindowBound`: no boundary burst in a log; `RetryPromise`: who waits for `RetryAfter` is served, or finds an overfull log shorter; `LogPerKey`: the code implements `WindowLog` | the limit is lowered; the cleaner runs |
| `SlidingWindowLive` | `OldLogsGo`: a log whose timestamps are all old is removed; `CallsReturn`: no mutex stays locked | one goroutine and the cleaner |
| `RedisSafety` | `SlidingBound`, `FixedBound`: what a key is granted by several processes in less than a window; `RetryPromise`: who waits for the sliding window's `RetryAfter` until the clock of its own process has reached the time, whichever process that is, fits, or finds an overfull log shorter; `HeldOnce`: the sliding window implements `SharedLog`; `ResetClears` on one node: what is there when a Reset returns was written behind it, or is what a failed Reset had yet to come to | two attempts a call; a limit changes in the first tick, before any call; a Reset runs in the first tick and in the behaviours whose observer starts at the end; time stops at the observer's tick |
| `ServerSafety` | `CleanExit`: a normal exit leaves no request under way and nothing in the limiter; `WaitIsEnough`: who waits the seconds of the `Retry-After` header is served; `SignalEnds`: a signal ends the process | one client, two connections, a second of two ticks, a window of three; admin requests come in the first tick or during shutdown; time stands still during start and shutdown |

`CallsReturn` is checked of the sliding window only, with one goroutine, which
competes with the cleaner for the mutex of a log. A second goroutine would need
a third object: held by it and by the cleaner, both objects can be in use when
the first must store a new log, and it would wait for an object as the program
never does; with three the graph is too large for the liveness check. The other
two limiters take the same steps from `LimiterCalls` and have no cleaner.
`FixedBound` allows a third window's worth when the interval is longer than a
tick: the counter of a window may expire by the store's clock while a process
with a slower clock still uses it, and start again at zero. In the run the
interval is one tick, so it checks the two windows' worth; that three are enough
for longer intervals is what the theorem shows.

Six runs show where the code and what is written about it differ (`findings` in
`PROJECT.json`):

| Run | Property | What happens |
|---|---|---|
| `TokenBucketNewLimit` | `NewLimitApplies` | a bucket with the old limit is created after `SetLimit` has deleted the bucket, and stays |
| `SlidingWindowKeyBound` | `KeyWindowBound` | the cleaner deletes a log that was used after it was judged: a second quota in one window |
| `SlidingWindowLeak` | `NoLogLeaks` | a log without timestamps is never removed |
| `RedisRejected` | `RejectedConsumesNothing` | the reply of an admitted call is lost, the script runs again, counts its own members and denies the call |
| `RedisClusterReset` | `ResetClears` | SCAN asks one node of a cluster, and the keys of the others survive `Reset` |
| `ServerEarlySignal` | `SignalIsGraceful` | `main` receives a signal before `Start` has assigned `httpServer` and panics |

Two observations that no run checks. The
cleaner judges a log by its last timestamp, which need not be the latest: a log
with a live timestamp may be judged old (`KeyWindowBound` is violated that way
too). And `-algorithm sliding_window`, which the flag's help and the repository's
README name, is refused as unknown: the constant is `sliding_window_log`.

Two more concern `RetryAfter`. After a limit was lowered a log may hold more than
the new limit, and then one entry leaving the window does not make room: a client
that comes back in time is denied again and told another time. `RetryPromise`, in
`SlidingWindow` and in `RedisLimiter`, says what does hold of such a log: it is
shorter at each of these times, so that the client is served after as many waits
as the log had units too many. And the fixed window script answers with the rest
of its counter's life by the store's clock: when that is over, a process whose
clock is ahead may have filled the next window's counter already, and a counter
that was created late in its window lives on after it. No document promises
otherwise, and that is no property here.

**Fairness.** `SlidingWindow` and `Server` state fairness. Go's scheduler runs every
runnable goroutine, so a step of a call that stays enabled is taken (`WF`);
`sync.Mutex` hands the lock to a waiter that has starved for a millisecond, so a
call that finds the mutex free again and again takes it (`SF`). The ticker of the
cleaner fires for ever and every sweep visits the keys that stay in the map.
Nothing forces a client to call, a limit to change or the clock to advance. In
`Server` only `main` is fair: it takes the step it can take, and the timer of its
context fires. Handlers may never end, so `SignalEnds` has to come from the
timeout and not from their good behaviour.

## Proofs

The proofs hold for every value of the constants that satisfies the named
assumptions of `LimiterCalls` and of the limiter's module: positive limits,
integer batches, a non-negative `MaxStale`, and null values that are no object,
limit or record; for Redis `RedisAssumption`, which says the same of its limits
and bounds, and `NodeAssumption`, that every physical key has a node. `FixedWindowProofs` proves:

| Theorem | Statement |
|---|---|
| `TypesCorrect` | `Spec => []TypeOK` |
| `QuotaIsHeld` | `Spec => []QuotaHeld` |
| `RetryAfterIsHonest` | `Spec => RetryPromise` |
| `BurstIsTwoLimits` | `Spec => []BurstBound` |
| `ImplementsCounter` | `Spec => CountsPerKey`, the refinement of `WindowCounter` |

The argument has layers. `BaseInv` (module `LimiterCallsProofs`, so that the
other limiters can use it) says what holds of any call: types, an object belongs
to the goroutine in its critical section, no two keys and no call of another key
share an object, a clock reading is at most `MaxStale` old. `TypeOK` alone is not
inductive: that a fresh object is nobody's, and that the holder of a mutex is
alone in the critical section, is what makes the check of a call still true when
it counts. `Structure` adds the types of the fixed window's variables, and each
property has its own strengthening on top:

- `QuotaHeld`: at `commit` the window has room for the call, under the limit the
  call looked up, which has been in force for the key.
- `BurstBound`: in an interval shorter than a window, an object restarts at most
  once, because after a restart inside the interval its start is too recent for
  any reading in the interval; before that restart what it admitted is in its
  counter.
- `RetryPromise`: while an advice stands for a key, its window starts no later
  than the announced time less the window.
- `CountsPerKey`: each action maps to an action of `WindowCounter` or a stutter;
  calls on unmapped objects stutter because no key maps to their object.

`TokenBucketProofs` proves:

| Theorem | Statement |
|---|---|
| `TypesCorrect` | `Spec => []TypeOK` |
| `RateIsHeld` | `Spec => []RateBound` |
| `DebtIsBounded` | `Spec => []DebtBound` |
| `RetryAfterIsHonest` | `Spec => RetryPromise` |
| `ImplementsAccount` | `Spec => AccruesOnce`, the refinement of `TokenAccount` |
| `CalmLimitApplies` | `CalmSpec => []NewLimitApplies`, see below |

Tokens alone satisfy no useful invariant, because a call with a late reading
takes tokens away and moves the refill time back. What such a call cannot change
is the potential, `tokens + (seen - last) * req`: what the bucket would hold at
the latest reading it was used with. `BucketCases` reduces every step to four
things that can happen to a bucket (nothing, opened, refilled, charged);
`RefuelEffect` and `ChargeEffect` say what they do to the potential. On top:

- `Settled` and `Checked`: a call in the critical section has brought the bucket
  to its own reading, and at `commit` the tokens still cover its cost.
- `Metered`: the potential lies between nothing and the capacity.
- `Accounted`: units admitted since the mark, and what is still there, were in
  the bucket at first or were brought by the time up to the latest reading, which
  is at most `MaxStale` before the mark. `RateBound` follows.
- `Abreast`: the refill time is at most `MaxStale` before the latest reading.
  With `Metered`, whose potential is never negative, `DebtBound` follows: several
  late calls owe no more than the latest of them.
- `Promised`: while a `RetryAfter` stands, the bucket holds a token by the first
  tick after it. A truncated quotient is short by less than a tick.
- The refinement maps the potential to the credit; a late refill stutters.

`ServerProofs` proves of the composition:

| Theorem | Statement |
|---|---|
| `ServesFixedWindow` | `ServerSpec => Spec`, the server drives its limiter as `FixedWindow` says |
| `ServerTypesCorrect` | `ServerSpec => []ServerTypeOK` |
| `ServerHoldsQuota` | `ServerSpec => []QuotaHeld`, by the theorem about `FixedWindow` |
| `ExitsClean` | `ServerSpec => []CleanExit` |
| `HeaderIsHonest` | `ServerSpec => WaitIsEnough` |

`ServerInv` adds to the limiter's invariant that a goroutine is in the limiter
exactly while its connection says so (`Guided`), that the announced seconds cover
the limiter's time although both clocks run on between denial and answer
(`Announced`), and that from `Drained` on nobody uses the limiter, so that what
`Close` has been to stays empty (`Emptied`).

`SlidingWindowProofs` proves:

| Theorem | Statement |
|---|---|
| `TypesCorrect` | `Spec => []TypeOK` |
| `WindowIsBounded` | `Spec => []WindowBound` |
| `RetryAfterIsHonest` | `Spec => RetryPromise` |
| `ImplementsLog` | `Spec => LogPerKey`, the refinement of `WindowLog` |
| `TidySweepsKeepTheBound` | `TidySpec => []KeyWindowBound`, see below |

`Structure` adds the log's types to `BaseInv`, and that logs are finite. On top,
the holder of a log's mutex has pruned it by its own reading (`Pruned`), and at
`commit` the batch still fits (`Checked`). For `WindowBound`, `Kept` says that in an interval shorter
than a window a log still holds all that it admitted in it: no call of the
interval reads a clock late enough to prune one of these entries, and the
cleaner's deletion removes the whole log from the map but takes nothing out of
the log. So what was admitted is at most the size of the log, which a limit
bounds. For `RetryPromise`, `Hope` says that a log is shorter than it was at the
denial, or has an entry that leaves it by the advised time; a log that loses
entries, in whatever way, keeps it (`HopeShrinks`).

For `ImplementsLog` the log of a key is that of the object it maps to, and
`Closed` when it maps to none. `Create` opens a log; `Prune` is `Forget` by the
call's own reading; `Commit` is `Admit`, because the log was pruned by that
reading (`Pruned`) and the batch still fits (`Checked`); `Reset`, `Close` and the
cleaner are `Drop`. Steps on a log that no key maps to any more stutter, and no
two keys share one (`BaseInv`).

`RedisProofs` and `RedisFixedProofs` prove:

| Theorem | Statement |
|---|---|
| `TypesCorrect` | `Spec => []TypeOK` |
| `SlidingWindowIsBounded` | `Spec => []SlidingBound` |
| `RetryAfterIsHonest` | `Spec => []RetryPromise` |
| `ResetIsComplete` | `Spec => ResetClears`, on one node |
| `ImplementsSharedLog` | `Spec => HeldOnce`, the refinement of `SharedLog` |
| `RejectionIsClean` | `Spec => RejectedConsumesNothing`, if nothing is sent twice (`MaxTries = 1`), see below |
| `FixedWindowIsBounded` | `Spec => []FixedBound`, if all limits have one window size (`OneWindow`) |

`TypeOK` is not inductive here either: that the index of a window is in range
rests on `Punctual`, that every request under way was sent at most `MaxStale`
ticks ago with a reading at most `Skew` ahead. For the sliding window `Structure`
further says that nonces belong to one request each (`Distinct`) and that
the entries of a batch come and go together (`Owned`): the second run of a script
either finds the whole batch or nothing of it, so a repeated attempt is never
charged twice. `Kept` is as above, and says also that the sorted set does not
expire while the interval lasts. `Hope` is that of the sliding window log.

`ResetClears` follows from `Covered`: at every moment of a Reset, all that its node
stores of the key is in the list of what is left to delete, or was written by a
script since the Reset began or deleted it. A script stores no other key than
the one it is counted as writing (`ScriptWrites`).

For `HeldOnce` a script that admits is `Admit` when the log knows nothing of its
call, and `Forget` when the whole batch is there already, which `Owned` and
`Distinct` say are the only cases. That second case also needs that the first
run's members carry the same numbers and the same score, so adding them changes
nothing. `Enduring` says that the store keeps a log until its entries have left the
window of some limit, but for the skew; a log that expires is then `Outdated`.
Only the limit of the call that wrote last counts there: after a limit was
lowered, a log expires by the shorter window. A call that runs again after a
Reset, or after its entries were pruned, may enter again. The fixed windows
implement nothing of the kind: a counter does not know its callers.

For the fixed windows, clock readings of an interval shorter than a window, by
the age and skew they may have, have one of two neighbouring indices (`Near`).
A counter in use lives to the end of its window by every clock (`Lasting`), so
the newer one outlives the interval; the older one may expire once in it, and
its successor, created in the interval, does not. `Tally` adds this up: two
counters, and one earlier life of the older if time has passed since the mark.
With limits of different window sizes the indices of one key are not comparable,
and nothing of the kind holds.

**What breaks the refuted promises.** Four promises that a run refutes do hold
under a condition that the code does not ensure. Each theorem names that
condition; together with the run's counterexample it says what a fix has to
establish. None of them says more about the code as it is.

- `RejectedConsumesNothing` holds if no attempt is sent again. `Clean`: an attempt
  that has yet to run, and a call that was denied, have left no member in any
  log, and nothing of a denied call is still to run.
- `KeyWindowBound` holds if, whenever the cleaner deletes a log, all its entries
  are old under the limit that was looked up and no call holds it (`Tidy`).
  Judging and deleting under the log's mutex is not enough: a call that fetched
  the log before would append to one that no key maps to. `SweptLate`: the
  cleaner takes what was admitted in the interval only after its end.
- `NewLimitApplies` holds if, whenever `SetLimit` deletes the bucket of a key, no
  call of the key stands between the lookup of another limit and the store of
  its bucket (`Calm`). `Applied`: no bucket and no such call has a limit other
  than the key's own.
- `ResetClears` holds if one node stores all keys (`ResetIsComplete`).

Only model-checked: liveness, that is `OldLogsGo`, `CallsReturn` and `SignalEnds`
(fairness and ENABLED are out of the prover's reach).

## Not modelled

- Of the Redis limiter, `Remaining` and `ResetAt` of the results, the fixed
  window's `RetryAfter`, the connection and its `Close`.
- Of the middleware, the paths for a limiter that returns an error or has no
  `AllowWithInfo`, which the composed limiter never takes; `CompositeKeyExtractor`,
  `PathKeyExtractor` and `UserKeyExtractor`, pure functions that no route uses;
  the `X-RateLimit` headers; `PerEndpointLimiter`, a map that is filled before
  requests are served and only read then. `SkipSuccessfulRequests` is read by
  no code.
- Of the server, flag parsing, the choice of another limiter than the default,
  JSON, logging, and the handlers that touch no limiter.
- The examples, which have no state of their own.

## Plan

1. `Server` over the other limiters, with the middleware's error path for Redis.
2. The `RetryAfter` of the fixed window script, for processes whose clocks agree.
