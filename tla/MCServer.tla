---- MODULE MCServer ----
(* Instances of Server for TLC. *)
EXTENDS Server, TLC

CONSTANTS p1, p2, o1, o2, client

OnePerThree == [req |-> 1, win |-> 3]

OtherLimit == {[req |-> 1, win |-> 2], [req |-> 0, win |-> 2]}

NoBatches == {}

\* One client, whose address is its key on every route.
Plain == [path |-> "/api/public", forwarded |-> NoHeader, realIP |-> NoHeader,
          remoteAddr |-> client, apiKey |-> NoHeader]

ClientRequests == {Plain, [Plain EXCEPT !.path = "/api/protected"]}

\* What the program's own state tells apart: no history that the properties
\* do not read, no fields of unreachable objects, and nothing but the end of
\* a process that has not ended by itself.
Standing(t) == t # NotTold /\ t.advice = advice[t.key]

Running == <<clock, custom, table, mu, pc, call, closing, conn, lifecycle, advice,
             [o \in Objects |-> IF o \in Fresh THEN NoObject ELSE heap[o]],
             [p \in Procs |-> IF Standing(told[p]) THEN told[p] ELSE NotTold]>>

View == IF process \in {"running", "exited"} THEN Running ELSE process

\* Bounds: time passes between the start and the first signal, and admin
\* requests come in the first tick or while the server drains.
InAdmin == {p \in Procs : conn[p].at = "admin"}

BoundedSpec ==
    /\ ServerInit /\ mark = 0
    /\ [][/\ ServerNext
           /\ (clock' # clock => start = "serve" /\ main = "wait" /\ ~quit)
           /\ (InAdmin' \subseteq InAdmin \/ clock = 0 \/ main = "drain")]_svars
    /\ MainIsFair
====
