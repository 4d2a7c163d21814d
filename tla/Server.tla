---- MODULE Server ----
(***************************************************************************)
(* cmd/server/main.go with the default algorithm: main starts a goroutine  *)
(* that builds and runs the HTTP server, waits for a signal and shuts the  *)
(* server down; connections are served meanwhile by the API, through the   *)
(* middleware, and by the admin handlers, which change the limiter.        *)
(*                                                                         *)
(* net/http is external: Shutdown waits for the accept loop to return and  *)
(* for every connection to be idle, closes the idle ones, and gives up     *)
(* when its context expires.  When the process has ended nothing moves.    *)
(***************************************************************************)
EXTENDS Middleware

CONSTANT Requests   \* what the routes and extractors read of a request

VARIABLES
    main,       \* the next step of main
    start,      \* the next step of the goroutine that runs Start
    quit,       \* a signal has reached the channel of Notify
    process     \* whether the process runs, or how it has ended

lifecycle == <<main, start, quit, process>>

svars == <<vars, http, lifecycle>>

ServerInit ==
    /\ Init
    /\ HttpInit
    /\ main = "notify"
    /\ start = "build"
    /\ quit = FALSE
    /\ process = "running"

End(how) == process' = how /\ UNCHANGED <<vars, http, main, start, quit>>

----------------------------------------------------------------------------
(* Connections and handlers. *)

Routed(r) ==
    IF r.path = "/api/protected" THEN APIKeyExtractor(r) ELSE IPKeyExtractor(r)

ASSUME RoutingAssumption == \A r \in Requests : Routed(r) \in Keys

Accept(p) ==
    /\ start = "serve"
    /\ Move(p, "closed", Idle)
    /\ UNCHANGED <<vars, told>>

Request(p) ==
    /\ \/ \E r \in Requests :
             Move(p, "idle", [at |-> "handler", key |-> Routed(r)])
       \/ \E k \in Keys : Move(p, "idle", [at |-> "admin", key |-> k])
    /\ UNCHANGED <<vars, told>>

handleReset(p) ==
    /\ Move(p, "admin", Idle)
    /\ Reset(conn[p].key)
    /\ UNCHANGED told

handleSetLimit(p) ==
    /\ Move(p, "admin", Idle)
    /\ \E l \in LimitArgs : SetLimit(conn[p].key, l)
    /\ UNCHANGED told

\* A wrong method, an invalid body, key or window, or a limit that SetLimit
\* rejects.
errorResponse(p) == Move(p, "admin", Idle) /\ UNCHANGED <<vars, told>>

Serve(p) ==
    /\ \/ Accept(p)
       \/ Request(p)
       \/ Handler(p)
       \/ handleReset(p)
       \/ handleSetLimit(p)
       \/ errorResponse(p)
    /\ UNCHANGED lifecycle

----------------------------------------------------------------------------
(* The goroutine that runs Start. *)

InShutdown == main \in {"drain", "close"}

\* The routes are built and httpServer is assigned.
Build ==
    /\ start = "build" /\ start' = "listen"
    /\ UNCHANGED <<vars, http, main, quit, process>>

Listen ==
    /\ start = "listen" /\ start' = (IF InShutdown THEN "returned" ELSE "serve")
    /\ UNCHANGED <<vars, http, main, quit, process>>

\* The port is taken: log.Fatalf.
ListenFails == start = "listen" /\ ~InShutdown /\ End("fatal")

ServeReturns ==
    /\ start = "serve" /\ InShutdown /\ start' = "returned"
    /\ UNCHANGED <<vars, http, main, quit, process>>

Start == Build \/ Listen \/ ListenFails \/ ServeReturns

----------------------------------------------------------------------------
(* main. *)

Proceed(from, to) ==
    /\ main = from /\ main' = to
    /\ UNCHANGED <<start, process>>

Notify == Proceed("notify", "wait") /\ UNCHANGED <<vars, http, quit>>

\* SIGINT or SIGTERM: before Notify it kills the process.
Signal ==
    \/ main = "notify" /\ End("killed")
    \/ /\ main # "notify" /\ ~quit /\ quit' = TRUE
       /\ UNCHANGED <<vars, http, main, start, process>>

Receive ==
    /\ Proceed("wait", "shutdown") /\ quit
    /\ UNCHANGED <<vars, http, quit>>

Shutdown ==
    /\ Proceed("shutdown", "drain")
    /\ start # "build"
    /\ UNCHANGED <<vars, http, quit>>

\* httpServer is still nil.
ShutdownPanics == main = "shutdown" /\ start = "build" /\ End("panicked")

\* Mutant: the limiter is closed whatever httpServer.Shutdown returns.
CloseAnyway ==
    /\ Proceed("drain", "close")
    /\ CloseBegin
    /\ UNCHANGED <<heap, history, http, quit>>

\* httpServer.Shutdown returns nil, and limiter.Close begins.
Drained ==
    /\ Proceed("drain", "close")
    /\ start # "serve"
    /\ \A p \in Procs : conn[p].at \in {"closed", "idle"}
    /\ conn' = [p \in Procs |-> Closed]
    /\ CloseBegin
    /\ UNCHANGED <<heap, history, told, quit>>

\* Mutant: Shutdown with a context that never expires.
NoTimeout == FALSE /\ End("fatal")

\* The ten seconds have passed: log.Fatalf, and the limiter is not closed.
TimedOut == main = "drain" /\ End("fatal")

CloseLimiter ==
    /\ main = "close" /\ closing # {}
    /\ Close
    /\ UNCHANGED <<http, lifecycle>>

Exit == main = "close" /\ closing = {} /\ End("exited")

Main ==
    \/ Notify
    \/ Receive
    \/ Shutdown
    \/ ShutdownPanics
    \/ Drained
    \/ TimedOut
    \/ CloseLimiter
    \/ Exit

ServerNext ==
    /\ process = "running"
    /\ \/ \E p \in Procs : Serve(p)
       \/ Start
       \/ Main
       \/ Signal
       \/ PassTime /\ UNCHANGED <<http, lifecycle>>

ServerSpec == ServerInit /\ [][ServerNext]_svars

\* main runs when it can, and its timer fires.  Nothing is assumed of the
\* handlers or the clients: a request may never end.
MainIsFair == WF_svars(process = "running" /\ Main)

FairServerSpec == ServerSpec /\ MainIsFair

----------------------------------------------------------------------------

\* Types.
ServerTypeOK ==
    /\ TypeOK
    /\ HttpTypeOK
    /\ main \in {"notify", "wait", "shutdown", "drain", "close"}
    /\ start \in {"build", "listen", "serve", "returned"}
    /\ quit \in BOOLEAN
    /\ process \in {"running", "fatal", "killed", "panicked", "exited"}

\* When the server says that it has exited, every request it accepted has
\* been answered, and no call of a handler has put anything back into the
\* limiter that Close emptied (main, Shutdown, Close).
CleanExit ==
    process = "exited" =>
        /\ \A p \in Procs : conn[p] = Closed /\ pc[p] = "idle"
        /\ \A k \in Keys : table[k] = NoObject /\ custom[k] = NoLimit

\* A signal ends the process, although requests may never end.
SignalEnds == quit ~> process # "running"

\* What main's comments say, "Wait for interrupt signal" and "Graceful
\* shutdown": a signal that main has received does not crash the server.
SignalIsGraceful == process # "panicked"
====
