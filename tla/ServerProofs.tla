---- MODULE ServerProofs ----
(***************************************************************************)
(* Theorems about Server for every number of connections, keys and         *)
(* windows.  The server drives its limiter as FixedWindow specifies, so    *)
(* that everything proved of FixedWindow holds in the server; on top of it *)
(* come what the middleware tells its clients and what main leaves behind. *)
(***************************************************************************)
EXTENDS Server, FixedWindowProofs

\* What the limiter keeps whatever drives it.
LimiterInv == Structure /\ Checked /\ QuotaHeld /\ Rolled /\ AdviceKept

\* The types of what the server adds.
ServerTypes ==
    /\ HttpTypeOK
    /\ main \in {"notify", "wait", "shutdown", "drain", "close"}
    /\ start \in {"build", "listen", "serve", "returned"}
    /\ quit \in BOOLEAN
    /\ process \in {"running", "fatal", "killed", "panicked", "exited"}

\* A goroutine is in the limiter exactly while its connection says so, and
\* with a single request.
Guided ==
    \A p \in Procs :
        /\ pc[p] # "idle" <=> conn[p].at = "limiter"
        /\ pc[p] # "idle" => call[p].n = 1

\* The announced seconds, counted from the answer, cover the limiter's time.
Announced ==
    \A p \in Procs :
        /\ conn[p].at = "denied" => clock + conn[p].wait >= conn[p].advice.at
        /\ told[p] # NotTold => told[p].due >= told[p].advice.at

\* While the limiter is closed nobody uses it, and what Close has been to
\* stays empty.
Emptied ==
    /\ main = "close" =>
          /\ start # "serve"
          /\ \A p \in Procs : conn[p] = Closed
          /\ \A k \in Keys :
                /\ <<"object", k>> \notin closing => table[k] = NoObject
                /\ <<"limit", k>> \notin closing => custom[k] = NoLimit
    /\ process = "exited" => main = "close" /\ closing = {}

\* The records of a connection have the fields that their step uses.
LEMMA Fields ==
    ASSUME NEW c \in Connection
    PROVE  /\ c.at \in {"handler", "limiter", "next", "admin", "denied"} =>
                 c.key \in Keys
           /\ c.at = "denied" => c.advice \in Advice /\ c.wait \in Nat
           /\ c.at \in {"closed", "idle"} => c = [at |-> c.at]
  BY DEF Connection

\* Every step of the server is a step of its limiter or leaves it alone.
LEMMA ServerStepIsStep == ServerTypes /\ [ServerNext]_svars => [Next]_vars
  <1> SUFFICES ASSUME ServerTypes, [ServerNext]_svars PROVE [Next]_vars
    OBVIOUS
  <1>0. ASSUME NEW p \in Procs, conn[p].at \in {"handler", "admin"}
        PROVE  conn[p].key \in Keys
    BY <1>0, Fields DEF ServerTypes, HttpTypeOK
  <1>1. ASSUME NEW p \in Procs, Handler(p) PROVE [Next]_vars
    <2>1. CASE CallLimiter(p)
      <3>1. conn[p].key \in Keys
        BY <1>0, <2>1 DEF CallLimiter, Move
      <3>2. Prepare(p)
        BY <2>1, <3>1 DEF CallLimiter, Begin, Approach, Prepare
      <3> QED
        BY <3>2 DEF Step, Next
    <2>2. CASE InLimiter(p)
      BY <2>2 DEF InLimiter, Step, Next
    <2>3. CASE Denied(p) \/ Admitted(p)
      BY <2>3 DEF Denied, Admitted, Step, Next
    <2>4. CASE DefaultOnLimit(p) \/ ServeNext(p)
      BY <2>4 DEF DefaultOnLimit, ServeNext
    <2> QED
      BY <1>1, <2>1, <2>2, <2>3, <2>4 DEF Handler
  <1>2. ASSUME NEW p \in Procs, Serve(p) PROVE [Next]_vars
    <2>1. CASE handleReset(p) \/ handleSetLimit(p)
      <3>1. conn[p].key \in Keys
        BY <1>0, <2>1 DEF handleReset, handleSetLimit, Move
      <3> QED
        BY <2>1, <3>1 DEF handleReset, handleSetLimit, Admin, Next
    <2> QED
      BY <1>1, <1>2, <2>1 DEF Serve, Accept, Request, errorResponse
  <1>3. CASE Start
    BY <1>3 DEF Start, Build, Listen, ListenFails, ServeReturns, End
  <1>4. CASE Main
    <2>1. CASE Drained
      BY <2>1 DEF Drained, Close, Admin, Next
    <2>2. CASE CloseLimiter
      BY <2>2 DEF CloseLimiter, Admin, Next
    <2> QED
      BY <1>4, <2>1, <2>2 DEF Main, Notify, Receive, Shutdown, ShutdownPanics,
                              TimedOut, Exit, End
  <1>5. CASE Signal
    BY <1>5 DEF Signal, End
  <1>6. CASE PassTime \/ UNCHANGED svars
    BY <1>6 DEF Next, svars
  <1> QED
    BY <1>2, <1>3, <1>4, <1>5, <1>6 DEF ServerNext

\* Whatever drives it, a step of the limiter keeps the limiter's invariant.
LEMMA LimiterStep == LimiterInv /\ [Next]_vars => LimiterInv'
  BY BaseStep, StepIsBaseStep, OwnTypesStep, KnownStep, QuotaStep, RetryStep
     DEF LimiterInv, Structure

LEMMA LimiterInit == Init => LimiterInv
  BY StructureInit, QuotaInit
     DEF Init, BaseInit, LimiterInv, Rolled, AdviceKept

\* One more than the truncated quotient is past the dividend.
LEMMA QuotientBound ==
    \A x \in Nat, y \in Nat :
        y > 0 => x \div y \in Nat /\ (x \div y) * y + y > x
  OBVIOUS

\* Rounded up, the seconds cover the time.
LEMMA SecondsCover ==
    ASSUME NEW w \in Nat
    PROVE  Seconds(w) * Second \in Nat /\ Seconds(w) * Second >= w
  <1> DEFINE a == w + Second - 1
             s == a \div Second
  <1>1. Second \in Nat /\ Second > 0 /\ a \in Nat
    BY SecondAssumption
  <1>2. s \in Nat /\ s * Second + Second > a
    BY <1>1, QuotientBound
  <1>3. s * Second \in Nat
    BY <1>1, <1>2
  <1> HIDE DEF s
  <1>4. s * Second >= w
    BY <1>1, <1>2, <1>3
  <1> QED
    BY <1>1, <1>3, <1>4 DEF Seconds, s

\* What a denial tells the handler.
LEMMA DenialFields ==
    ASSUME Structure, NEW p \in Procs, Denied(p)
    PROVE  /\ call[p] \in Call /\ call[p].key \in Keys
           /\ [lim |-> call[p].lim, at |-> RetryAt(p)] \in Advice
           /\ RetryAt(p) - clock \in Nat /\ RetryAt(p) \in Nat /\ clock \in Nat
           /\ UNCHANGED clock
  <1>1. /\ call[p] \in Call /\ window(p) \in fixedWindow /\ clock \in Nat
        /\ UNCHANGED clock
    BY TimeAssumption
       DEF Denied, Deny, Return, Goto, Structure, BaseInv, BaseTypeOK, Shaped,
           OwnTypes, AfterLoad, Critical, window, Time
  <1>2. RetryAt(p) \in Nat /\ RetryAt(p) >= clock
    BY <1>1, LimitNumbers, TimeAssumption DEF RetryAt, Call, fixedWindow, Time
  <1> QED
    BY <1>1, <1>2 DEF Call, Advice

\* What the steps do to a connection: it is elsewhere afterwards, with a
\* record of its type, and the others are where they were.
LEMMA ConnectionStep ==
    ASSUME LimiterInv, ServerTypes, NEW p \in Procs, Serve(p)
    PROVE  /\ \E c \in Connection : conn' = [conn EXCEPT ![p] = c]
           /\ \/ told' = told
              \/ DefaultOnLimit(p) /\ \E t \in Told : told' = [told EXCEPT ![p] = t]
  <1> USE DEF ServerTypes, HttpTypeOK
  <1>1. \A k \in Keys :
           /\ {Closed, Idle} \subseteq Connection
           /\ \A at \in {"handler", "limiter", "next", "admin"} :
                 [at |-> at, key |-> k] \in Connection
    BY DEF Closed, Idle, Connection
  <1>2. CASE Accept(p) \/ handleReset(p) \/ handleSetLimit(p)
               \/ errorResponse(p) \/ ServeNext(p)
    <2>1. Idle \in Connection
      BY DEF Idle, Connection
    <2> QED
      BY <1>2, <2>1 DEF Accept, handleReset, handleSetLimit, errorResponse,
                        ServeNext, Move
  <1>3. CASE Request(p)
    BY <1>1, <1>3, RoutingAssumption DEF Request, Move
  <1>4. CASE CallLimiter(p)
    <2>1. conn[p].key \in Keys
          /\ [conn[p] EXCEPT !.at = "limiter"] \in Connection
      BY <1>4 DEF CallLimiter, Move, Connection
    <2> QED
      BY <1>4, <2>1 DEF CallLimiter, Move
  <1>5. CASE InLimiter(p)
    BY <1>5 DEF InLimiter, http
  <1>6. CASE Denied(p)
    <2> DEFINE c == [at |-> "denied", key |-> call[p].key,
                     wait |-> RetryAt(p) - clock,
                     advice |-> [lim |-> call[p].lim, at |-> RetryAt(p)]]
    <2>1. c \in Connection
      BY <1>6, DenialFields DEF LimiterInv, Connection
    <2> QED
      BY <1>6, <2>1 DEF Denied, Move
  <1>7. CASE Admitted(p)
    <2>1. call[p].key \in Keys
      BY <1>7 DEF Admitted, Commit, Return, Goto, LimiterInv, Structure,
                  BaseInv, Shaped, Call
    <2> QED
      BY <1>1, <1>7, <2>1 DEF Admitted, Move
  <1>8. CASE DefaultOnLimit(p)
    <2>1. conn[p].at = "denied" /\ conn[p] \in Connection /\ clock \in Nat
      BY <1>8, TimeAssumption
         DEF DefaultOnLimit, Move, LimiterInv, Structure, BaseInv, BaseTypeOK, Time
    <2>2. /\ conn[p].key \in Keys /\ conn[p].advice \in Advice
          /\ clock + Seconds(conn[p].wait) * Second \in Nat
      BY <2>1, Fields, SecondsCover
    <2>3. [key |-> conn[p].key, advice |-> conn[p].advice,
           due |-> clock + Seconds(conn[p].wait) * Second] \in Told
      BY <2>2 DEF Told
    <2>4. Idle \in Connection
      BY DEF Idle, Connection
    <2> QED
      BY <1>8, <2>3, <2>4 DEF DefaultOnLimit, Move
  <1> QED
    BY <1>2, <1>3, <1>4, <1>5, <1>6, <1>7, <1>8 DEF Serve, Handler

\* The steps of main, Start and the signals that touch neither the limiter
\* nor a connection.
Control ==
    /\ UNCHANGED <<vars, http>>
    /\ \/ Start \/ Signal \/ Notify \/ Receive \/ Shutdown
       \/ ShutdownPanics \/ TimedOut \/ Exit

\* The steps that leave the connections and main alone.
Outside ==
    \/ CloseLimiter
    \/ PassTime /\ UNCHANGED <<http, lifecycle>>
    \/ UNCHANGED svars

LEMMA ServerCases ==
    [ServerNext]_svars =>
        (\E p \in Procs : Serve(p)) \/ Drained \/ Control \/ Outside
  <1>1. Start => UNCHANGED <<vars, http>>
    BY DEF Start, Build, Listen, ListenFails, ServeReturns, End
  <1>2. Signal => UNCHANGED <<vars, http>>
    BY DEF Signal, End
  <1>3. Main => \/ Drained
                \/ CloseLimiter
                \/ /\ UNCHANGED <<vars, http>>
                   /\ \/ Notify \/ Receive \/ Shutdown \/ ShutdownPanics
                      \/ TimedOut \/ Exit
    BY DEF Main, Notify, Receive, Shutdown, ShutdownPanics, TimedOut, Exit, End
  <1> QED
    BY <1>1, <1>2, <1>3 DEF ServerNext, Control, Outside

\* Every step keeps the types of what the server adds.
LEMMA ServerTypesStep ==
    LimiterInv /\ ServerTypes /\ [ServerNext]_svars => ServerTypes'
  <1> SUFFICES ASSUME LimiterInv, ServerTypes, [ServerNext]_svars
               PROVE  ServerTypes'
    OBVIOUS
  <1> USE DEF ServerTypes, HttpTypeOK
  <1>1. ASSUME NEW p \in Procs, Serve(p) PROVE ServerTypes'
    <2>1. UNCHANGED lifecycle
      BY <1>1 DEF Serve
    <2> QED
      BY <1>1, <2>1, ConnectionStep DEF lifecycle
  <1>2. CASE Drained
    <2>1. Closed \in Connection
      BY DEF Closed, Connection
    <2> QED
      BY <1>2, <2>1 DEF Drained, Proceed
  <1>3. CASE Outside
    BY <1>3 DEF Outside, CloseLimiter, http, lifecycle, svars
  <1>4. CASE Control
    BY <1>4 DEF Control, Start, Build, Listen, ListenFails, ServeReturns,
                Notify, Receive, Shutdown, ShutdownPanics, TimedOut, Exit,
                Signal, End, Proceed, http
  <1> HIDE DEF ServerTypes, HttpTypeOK
  <1> QED
    BY <1>1, <1>2, <1>3, <1>4, ServerCases

\* Every step keeps the goroutines in the limiter where their connections
\* say.
LEMMA GuidedStep ==
    LimiterInv /\ ServerTypes /\ Guided /\ [ServerNext]_svars => Guided'
  <1> SUFFICES ASSUME LimiterInv, ServerTypes, Guided, [ServerNext]_svars
               PROVE  Guided'
    OBVIOUS
  <1>t. /\ pc \in [Procs -> PCs] /\ call \in [Procs -> Call \cup {NoCall}]
        /\ conn \in [Procs -> Connection]
        /\ \A q \in Procs : pc[q] # "idle" => call[q] \in Call
    BY DEF LimiterInv, Structure, BaseInv, BaseTypeOK, Shaped, ServerTypes,
           HttpTypeOK
  <1>0. ASSUME UNCHANGED <<pc, call, conn>> PROVE Guided'
    BY <1>0 DEF Guided
  <1>1. ASSUME NEW p \in Procs, Serve(p) PROVE Guided'
    <2>1. ASSUME UNCHANGED <<pc, call>>, NEW c, c.at # "limiter",
                 conn[p].at # "limiter", conn' = [conn EXCEPT ![p] = c]
          PROVE  Guided'
      BY <2>1, <1>t DEF Guided
    <2>2. CASE Accept(p) \/ Request(p) \/ handleReset(p) \/ handleSetLimit(p)
                 \/ errorResponse(p) \/ DefaultOnLimit(p) \/ ServeNext(p)
      BY <2>1, <2>2
         DEF Accept, Request, handleReset, Reset, Delete, handleSetLimit,
             SetLimit, StoreLimit, errorResponse, DefaultOnLimit, ServeNext,
             Move, Idle, vars, base
    <2>3. CASE CallLimiter(p)
      BY <2>3, <1>t
         DEF CallLimiter, Move, BeginAllowWithInfo, Enter, Goto, Guided, Connection
    <2>4. CASE InLimiter(p)
      <3>1. conn' = conn /\ pc[p] # "idle"
        BY <2>4 DEF InLimiter, http, Guided
      <3>2. /\ \A q \in Procs : q # p => pc'[q] = pc[q] /\ call'[q] = call[q]
            /\ pc'[p] # "idle" /\ call'[p].n = call[p].n
        <4>1. CASE Prepare(p)
          BY <4>1, <3>1, <1>t
             DEF Prepare, Approach, Begin, BeginAllowN, BeginAllowWithInfo,
                 Enter, ReadClock, LoadFound, Lock, Goto, Call
        <4>2. CASE \E o \in Fresh : Create(p, o)
          BY <4>2, <3>1, <1>t DEF Create, StoreNew, Goto, Call
        <4>3. CASE Roll(p) \/ Pass(p)
          BY <4>3, <1>t DEF Roll, Pass, Within, Goto
        <4> QED
          BY <2>4, <4>1, <4>2, <4>3 DEF InLimiter
      <3> QED
        BY <3>1, <3>2 DEF Guided
    <2>5. CASE Denied(p) \/ Admitted(p)
      BY <2>5, <1>t DEF Denied, Admitted, Deny, Commit, Return, Goto, Move, Guided
    <2> QED
      BY <1>1, <2>2, <2>3, <2>4, <2>5 DEF Serve, Handler
  <1>2. CASE Drained
    BY <1>2, <1>t DEF Drained, CloseBegin, Closed, Guided
  <1>3. CASE Control
    BY <1>0, <1>3 DEF Control, vars, base, http
  <1>4. CASE Outside
    BY <1>0, <1>4
       DEF Outside, CloseLimiter, Close, CloseBegin, CloseObject, CloseLimit,
           PassTime, Tick, http, svars, vars, base
  <1> QED
    BY <1>1, <1>2, <1>3, <1>4, ServerCases

\* Every step keeps what the clients are told on the safe side.
LEMMA AnnouncedStep ==
    LimiterInv /\ LimiterInv' /\ ServerTypes /\ Announced /\ [ServerNext]_svars
      => Announced'
  <1> SUFFICES ASSUME LimiterInv, LimiterInv', ServerTypes, Announced,
                      [ServerNext]_svars
               PROVE  Announced'
    OBVIOUS
  <1>t. /\ clock \in Nat /\ clock' \in Nat
        /\ conn \in [Procs -> Connection] /\ told \in [Procs -> Told \cup {NotTold}]
        /\ \A q \in Procs : conn[q].at = "denied" =>
              conn[q].advice \in Advice /\ conn[q].wait \in Nat
    BY TimeAssumption, Fields
       DEF LimiterInv, Structure, BaseInv, BaseTypeOK, Time, ServerTypes,
           HttpTypeOK
  <1>0. ASSUME UNCHANGED <<told, conn>>, clock' >= clock PROVE Announced'
    BY <1>0, <1>t DEF Announced, Advice
  <1>1. ASSUME NEW p \in Procs, Serve(p) PROVE Announced'
    <2>1. ASSUME UNCHANGED <<clock, told>>, NEW c, c.at # "denied",
                 conn' = [conn EXCEPT ![p] = c]
          PROVE  Announced'
      BY <2>1, <1>t DEF Announced
    <2>2. CASE Accept(p) \/ Request(p) \/ handleReset(p) \/ handleSetLimit(p)
                 \/ errorResponse(p) \/ ServeNext(p) \/ Admitted(p)
      BY <2>1, <2>2
         DEF Accept, Request, handleReset, Reset, Delete, handleSetLimit,
             SetLimit, StoreLimit, errorResponse, ServeNext, Admitted, Commit,
             Return, Move, Idle, vars, base
    <2>3. CASE CallLimiter(p)
      <3>1. [conn[p] EXCEPT !.at = "limiter"].at # "denied"
        BY <2>3, <1>t DEF CallLimiter, Move, Connection
      <3> QED
        BY <2>1, <2>3, <3>1 DEF CallLimiter, Move, BeginAllowWithInfo, Enter
    <2>4. CASE InLimiter(p)
      <3>1. UNCHANGED clock
        BY <2>4 DEF InLimiter, Prepare, Approach, Begin, BeginAllowN,
                    BeginAllowWithInfo, Enter, ReadClock, LoadFound, Lock,
                    Create, StoreNew, Roll, Pass, Within
      <3> QED
        BY <2>4, <3>1, <1>0, <1>t DEF InLimiter, http
    <2>5. CASE Denied(p)
      <3>1. /\ RetryAt(p) \in Nat /\ UNCHANGED <<clock, told>>
            /\ conn' = [conn EXCEPT ![p] =
                          [at |-> "denied", key |-> call[p].key,
                           wait |-> RetryAt(p) - clock,
                           advice |-> [lim |-> call[p].lim, at |-> RetryAt(p)]]]
        BY <2>5, DenialFields DEF LimiterInv, Denied, Move
      <3>2. conn'[p].wait = RetryAt(p) - clock /\ conn'[p].advice.at = RetryAt(p)
        BY <3>1, <1>t
      <3>3. clock' + conn'[p].wait >= conn'[p].advice.at
        BY <3>1, <3>2, <1>t
      <3>4. \A q \in Procs : q # p => conn'[q] = conn[q]
        BY <3>1, <1>t
      <3> QED
        BY <3>1, <3>3, <3>4 DEF Announced
    <2>6. CASE DefaultOnLimit(p)
      <3> DEFINE w == Seconds(conn[p].wait) * Second
      <3>1. /\ conn[p].at = "denied" /\ conn[p].advice.at \in Nat
            /\ conn[p].wait \in Nat /\ clock + conn[p].wait >= conn[p].advice.at
        BY <2>6, <1>t DEF DefaultOnLimit, Move, Announced, Advice
      <3>2. w \in Nat /\ w >= conn[p].wait
        BY <3>1, SecondsCover
      <3>3. /\ told' = [told EXCEPT ![p] =
                          [key |-> conn[p].key, advice |-> conn[p].advice,
                           due |-> clock + w]]
            /\ conn' = [conn EXCEPT ![p] = Idle] /\ UNCHANGED clock
        BY <2>6 DEF DefaultOnLimit, Move, vars, base
      <3> HIDE DEF w
      <3>4. clock + w >= conn[p].advice.at
        BY <3>1, <3>2, <1>t
      <3>5. told'[p].due >= told'[p].advice.at
        BY <3>3, <3>4, <1>t
      <3> QED
        BY <3>3, <3>5, <1>t DEF Announced, Idle
    <2> QED
      BY <1>1, <2>2, <2>3, <2>4, <2>5, <2>6 DEF Serve, Handler
  <1>2. CASE Drained
    BY <1>2, <1>t DEF Drained, CloseBegin, Closed, Announced
  <1>3. CASE Control
    BY <1>0, <1>3, <1>t DEF Control, vars, base, http
  <1>4. CASE Outside
    <2>1. CloseLimiter \/ UNCHANGED svars => UNCHANGED clock
      BY DEF CloseLimiter, Close, CloseBegin, CloseObject, CloseLimit, svars,
             vars, base
    <2>2. PassTime => clock' = clock + 1
      BY DEF PassTime, Tick
    <2>3. clock' >= clock
      BY <1>4, <2>1, <2>2, <1>t DEF Outside
    <2> QED
      BY <2>3, <1>0, <1>4 DEF Outside, CloseLimiter, http, svars
  <1> QED
    BY <1>1, <1>2, <1>3, <1>4, ServerCases

\* Every step keeps the limiter untouched once the server has drained.
LEMMA EmptiedStep ==
    LimiterInv /\ ServerTypes /\ Emptied /\ [ServerNext]_svars => Emptied'
  <1> SUFFICES ASSUME LimiterInv, ServerTypes, Emptied, [ServerNext]_svars
               PROVE  Emptied'
    OBVIOUS
  <1>t. /\ table \in [Keys -> Objects \cup {NoObject}]
        /\ custom \in [Keys -> Limits \cup {NoLimit}]
    BY DEF LimiterInv, Structure, BaseInv, BaseTypeOK
  <1>0. ASSUME UNCHANGED <<table, custom, closing, conn, lifecycle>>
        PROVE  Emptied'
    BY <1>0 DEF Emptied, lifecycle
  <1>1. ASSUME NEW p \in Procs, Serve(p) PROVE Emptied'
    <2>1. main # "close"
      BY <1>1
         DEF Emptied, Closed, Serve, Accept, Request, Handler, CallLimiter,
             InLimiter, Denied, Admitted, DefaultOnLimit, ServeNext,
             handleReset, handleSetLimit, errorResponse, Move
    <2> QED
      BY <1>1, <2>1 DEF Serve, lifecycle, Emptied
  <1>2. CASE Drained
    <2>1. /\ main' = "close" /\ process' = process /\ main = "drain"
          /\ start' # "serve" /\ closing' = CloseItems
          /\ \A p \in Procs : conn'[p] = Closed
      BY <1>2 DEF Drained, Proceed, CloseBegin
    <2>2. \A k \in Keys : <<"object", k>> \in CloseItems /\ <<"limit", k>> \in CloseItems
      BY DEF CloseItems
    <2> QED
      BY <2>1, <2>2 DEF Emptied
  <1>3. CASE Control
    <2>1. UNCHANGED <<table, custom, closing, conn>>
      BY <1>3 DEF Control, vars, base, http
    <2>2. CASE main = "close"
      <3>1. main' = "close" /\ start' # "serve"
        BY <1>3, <2>2
           DEF Control, Start, Build, Listen, ListenFails, ServeReturns,
               Signal, Notify, Receive, Shutdown, ShutdownPanics, TimedOut,
               Exit, End, Proceed, InShutdown, Emptied
      <3>2. process' = "exited" => closing = {}
        BY <1>3, <2>2
           DEF Control, Start, Build, Listen, ListenFails, ServeReturns,
               Signal, Notify, Receive, Shutdown, ShutdownPanics, TimedOut,
               Exit, End, Proceed, Emptied
      <3> QED
        BY <2>1, <2>2, <3>1, <3>2 DEF Emptied
    <2>3. CASE main # "close"
      <3>1. main' # "close" /\ process' # "exited"
        BY <1>3, <2>3
           DEF Control, Start, Build, Listen, ListenFails, ServeReturns,
               Signal, Notify, Receive, Shutdown, ShutdownPanics, TimedOut,
               Exit, End, Proceed, Emptied
      <3> QED
        BY <3>1 DEF Emptied
    <2> QED
      BY <2>2, <2>3
  <1>4. CASE CloseLimiter
    <2>1. PICK k \in Keys : CloseObject(k) \/ CloseLimit(k)
      BY <1>4 DEF CloseLimiter, Close, CloseBegin
    <2>2. /\ main = "close" /\ closing # {} /\ UNCHANGED <<conn, lifecycle>>
      BY <1>4 DEF CloseLimiter, http
    <2>3. process # "exited"
      BY <2>2 DEF Emptied
    <2> QED
      BY <2>1, <2>2, <2>3, <1>t DEF CloseObject, CloseLimit, Emptied, lifecycle
  <1>5. CASE (PassTime /\ UNCHANGED <<http, lifecycle>>) \/ UNCHANGED svars
    BY <1>0, <1>5 DEF PassTime, Tick, svars, vars, base, http, lifecycle
  <1> QED
    BY <1>1, <1>2, <1>3, <1>4, <1>5, ServerCases DEF Outside

----------------------------------------------------------------------------

ServerInv == LimiterInv /\ ServerTypes /\ Guided /\ Announced /\ Emptied

LEMMA ServerInitial == ServerInit => ServerInv
  <1> SUFFICES ASSUME ServerInit PROVE ServerInv
    OBVIOUS
  <1>1. LimiterInv
    BY LimiterInit DEF ServerInit
  <1>2. Closed \in Connection /\ Closed.at = "closed"
    BY DEF Closed, Connection
  <1>3. \A p \in Procs : pc[p] = "idle" /\ conn[p] = Closed /\ told[p] = NotTold
    BY DEF ServerInit, HttpInit, Init, BaseInit
  <1> QED
    BY <1>1, <1>2, <1>3
       DEF ServerInit, HttpInit, ServerInv, ServerTypes, HttpTypeOK, Guided,
           Announced, Emptied

\* The invariant of the server: what holds of the limiter, and what ties
\* the connections and main to it.
THEOREM ServerInvariant == ServerSpec => []ServerInv
  <1>1. ServerInv /\ [ServerNext]_svars => LimiterInv'
    BY ServerStepIsStep, LimiterStep DEF ServerInv
  <1>2. ServerInv /\ [ServerNext]_svars => ServerInv'
    BY <1>1, ServerTypesStep, GuidedStep, AnnouncedStep, EmptiedStep
       DEF ServerInv
  <1> QED
    BY <1>2, ServerInitial, PTL DEF ServerSpec

\* Every variable of the server keeps its type: no connection carries a key
\* or an answer of another kind than its step reads (Handler, the routes).
THEOREM ServerTypesCorrect == ServerSpec => []ServerTypeOK
  <1>1. ServerInv => ServerTypeOK
    BY DEF ServerInv, LimiterInv, Structure, BaseInv, OwnTypes, TypeOK,
           ServerTypes, ServerTypeOK
  <1> QED
    BY <1>1, ServerInvariant, PTL

\* The server implements its limiter: handlers, admin requests and shutdown
\* take no step that FixedWindow does not allow, so that its quota, its
\* bursts and its RetryAfter are those of the server (Handler, main).
THEOREM ServesFixedWindow == ServerSpec => Spec
  <1>1. ServerInit => Init
    BY DEF ServerInit
  <1>2. ServerInv /\ [ServerNext]_svars => [Next]_vars
    BY ServerStepIsStep DEF ServerInv
  <1> QED
    BY <1>1, <1>2, ServerInvariant, PTL DEF ServerSpec, Spec

\* Behind the HTTP server no counter passes the limits that the admin
\* handlers have put in force (Handler, handleSetLimit, handleReset).
THEOREM ServerHoldsQuota == ServerSpec => []QuotaHeld
  BY ServesFixedWindow, QuotaIsHeld, PTL

\* Whatever order requests, admin changes and the shutdown come in, a
\* server that exits normally has answered every request and left nothing in
\* the limiter that Close emptied.
THEOREM ExitsClean == ServerSpec => []CleanExit
  <1>1. ServerInv => CleanExit
    <2> SUFFICES ASSUME ServerInv, process = "exited" PROVE CleanExit
      BY DEF CleanExit
    <2>1. /\ closing = {}
          /\ \A p \in Procs : conn[p] = Closed
          /\ \A k \in Keys : table[k] = NoObject /\ custom[k] = NoLimit
      BY DEF ServerInv, Emptied
    <2>2. \A p \in Procs : pc[p] = "idle"
      BY <2>1 DEF ServerInv, Guided, Closed
    <2> QED
      BY <2>1, <2>2 DEF CleanExit
  <1> QED
    BY <1>1, ServerInvariant, PTL

\* The whole seconds of the Retry-After header never fall short of what the
\* limiter asked for, for any number of clients, any length of a second and
\* any delay between the denial and the answer (DefaultOnLimit).
THEOREM HeaderIsHonest == ServerSpec => WaitIsEnough
  <1>1. ServerInv /\ [ServerNext]_svars =>
          [\A p, q \in Procs :
             Denied(p) /\ told[q] # NotTold =>
                 ~ /\ told[q].key = call[p].key
                   /\ told[q].advice = advice[told[q].key]
                   /\ told[q].advice.lim = call[p].lim
                   /\ table[call[p].key] = call[p].ptr
                   /\ call[p].now >= told[q].due]_<<vars, http>>
    <2> SUFFICES ASSUME ServerInv, NEW p \in Procs, NEW q \in Procs, Denied(p),
                        told[q] # NotTold,
                        told[q].key = call[p].key,
                        told[q].advice = advice[told[q].key],
                        told[q].advice.lim = call[p].lim,
                        table[call[p].key] = call[p].ptr,
                        call[p].now >= told[q].due
                 PROVE  FALSE
      OBVIOUS
    <2> DEFINE k == call[p].key
               o == table[k]
    <2>1. told[q] \in Told /\ told[q].due >= told[q].advice.at
      BY DEF ServerInv, ServerTypes, HttpTypeOK, Announced
    <2>2. advice[k] \in Advice /\ advice[k] # NoAdvice /\ advice[k].at <= call[p].now
      BY <2>1, ToldAssumption, DenialFields, TimeAssumption
         DEF Told, Advice, ServerInv, LimiterInv, Call, Time
    <2>3. /\ pc[p] = "check" /\ ~Fits(p) /\ call[p].n = 1
          /\ call[p] \in Call /\ o \in Objects /\ heap[o] \in fixedWindow
      BY DEF Denied, Deny, Return, Goto, ServerInv, LimiterInv, Guided,
             Structure, BaseInv, OwnTypes, Shaped, AfterLoad, Critical, Call
    <2>4. /\ call[p].now \in Nat /\ heap[o].start \in Nat
          /\ heap[o].count \in Nat
          /\ advice[k].at \in Nat
          /\ call[p].lim.win \in Nat /\ call[p].lim.req \in Nat
          /\ call[p].lim.req > 0
      BY <2>2, <2>3, LimitNumbers, TimeAssumption
         DEF Call, fixedWindow, Time, Advice
    <2>5. heap[o].count = 0
      BY <2>2, <2>3, <2>4
         DEF ServerInv, LimiterInv, Rolled, AdviceKept, Expired, Call, window
    <2> QED
      BY <2>3, <2>4, <2>5 DEF Fits, window
  <1> QED
    BY <1>1, ServerInvariant, PTL DEF ServerSpec, WaitIsEnough
====
