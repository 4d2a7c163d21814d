---- MODULE Middleware ----
(***************************************************************************)
(* pkg/middleware/ratelimit.go over a fixed-window limiter: connections    *)
(* whose goroutines run the handler, which extracts a key, calls           *)
(* AllowWithInfo and passes the request on or answers it with status 429   *)
(* and a Retry-After header in whole seconds.                              *)
(*                                                                         *)
(* A goroutine of FixedWindow serves one connection here; its steps inside *)
(* the limiter are those of FixedWindow.                                   *)
(***************************************************************************)
EXTENDS FixedWindow

CONSTANTS
    Second,     \* ticks in a second
    NoHeader,   \* a header that the request does not have
    NotTold     \* a client that has not been told to wait

ASSUME SecondAssumption == Second \in Nat \ {0}

VARIABLES
    conn,       \* what the goroutine of every connection is at
    told        \* history: the last Retry-After of every client

http == <<conn, told>>

Connection ==
    [at : {"closed", "idle"}]
      \cup [at : {"handler", "limiter", "next", "admin"}, key : Keys]
      \cup [at : {"denied"}, key : Keys, advice : Advice, wait : Nat]

Told == [key : Keys, advice : Advice, due : Nat]

ASSUME ToldAssumption == NotTold \notin Told /\ NoAdvice \notin Advice

Closed == [at |-> "closed"]

Idle == [at |-> "idle"]

HttpTypeOK ==
    /\ conn \in [Procs -> Connection]
    /\ told \in [Procs -> Told \cup {NotTold}]

HttpInit ==
    /\ conn = [p \in Procs |-> Closed]
    /\ told = [p \in Procs |-> NotTold]

----------------------------------------------------------------------------
(* Keys.  A header is what the extractor makes of it: the first, trimmed   *)
(* address of X-Forwarded-For, the host of RemoteAddr.                     *)

IPKeyExtractor(r) ==
    IF r.forwarded # NoHeader THEN r.forwarded
    ELSE IF r.realIP # NoHeader THEN r.realIP
    ELSE r.remoteAddr

APIKeyExtractor(r) ==
    IF r.apiKey # NoHeader THEN r.apiKey ELSE IPKeyExtractor(r)

----------------------------------------------------------------------------
(* The handler. *)

Move(p, from, to) ==
    /\ conn[p].at = from
    /\ conn' = [conn EXCEPT ![p] = to]

CallLimiter(p) ==
    /\ Move(p, "handler", [conn[p] EXCEPT !.at = "limiter"])
    /\ BeginAllowWithInfo(p, conn[p].key)
    /\ UNCHANGED <<heap, history, told>>

InLimiter(p) ==
    /\ conn[p].at = "limiter"
    /\ Prepare(p) \/ (\E o \in Fresh : Create(p, o)) \/ Roll(p) \/ Pass(p)
    /\ UNCHANGED http

\* The result says not allowed and how long to wait.
Denied(p) ==
    /\ Deny(p)
    /\ Move(p, "limiter",
            [at |-> "denied", key |-> call[p].key, wait |-> RetryAt(p) - clock,
             advice |-> [lim |-> call[p].lim, at |-> RetryAt(p)]])
    /\ UNCHANGED told

Admitted(p) ==
    /\ Move(p, "limiter", [at |-> "next", key |-> call[p].key])
    /\ Commit(p)
    /\ UNCHANGED told

\* Mutant: whole seconds, not rounded up.
SecondsDown(w) == IF w \div Second = 0 THEN 1 ELSE w \div Second

\* math.Ceil of the seconds, and at least one.
Seconds(w) == IF w = 0 THEN 1 ELSE (w + Second - 1) \div Second

DefaultOnLimit(p) ==
    /\ Move(p, "denied", Idle)
    /\ told' = [told EXCEPT ![p] =
                   [key |-> conn[p].key, advice |-> conn[p].advice,
                    due |-> clock + Seconds(conn[p].wait) * Second]]
    /\ UNCHANGED vars

ServeNext(p) == Move(p, "next", Idle) /\ UNCHANGED <<vars, told>>

Handler(p) ==
    \/ CallLimiter(p)
    \/ InLimiter(p)
    \/ Denied(p)
    \/ Admitted(p)
    \/ DefaultOnLimit(p)
    \/ ServeNext(p)

----------------------------------------------------------------------------

\* The Retry-After header is honest from end to end: a request whose
\* goroutine reads the clock when a client has waited the seconds it was
\* told, under the same limit and with nobody served or reset since, is not
\* denied (Handler, DefaultOnLimit, AllowWithInfo).
WaitIsEnough ==
    [][\A p, q \in Procs :
          Denied(p) /\ told[q] # NotTold =>
              ~ /\ told[q].key = call[p].key
                /\ told[q].advice = advice[told[q].key]
                /\ told[q].advice.lim = call[p].lim
                /\ table[call[p].key] = call[p].ptr
                /\ call[p].now >= told[q].due]_<<vars, http>>
====
