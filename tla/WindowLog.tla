---- MODULE WindowLog ----
(***************************************************************************)
(* What the sliding-window limiter promises for every key: a log that is   *)
(* either closed or has one dated entry for each unit admitted.  Units are *)
(* admitted only if, together with the entries in the window before their  *)
(* own time, they are within a limit; and an entry leaves the log only     *)
(* with the whole log, or when it lies before the window of such a time.   *)
(* That time is a clock reading at most MaxStale ticks old.  Pruning,      *)
(* counting and appending are one step here.                               *)
(***************************************************************************)
EXTENDS Integers, FiniteSets

CONSTANTS Keys, Limits, Amounts, Times, MaxStale, Closed

VARIABLES logs, clock

lvars == <<logs, clock>>

LogInit ==
    /\ logs = [k \in Keys |-> Closed]
    /\ clock = 0

Readings == {t \in Times : t <= clock /\ clock - t <= MaxStale}

InWindow(k, l, t) == {e \in logs[k].timestamps : e.at > t - l.win}

Batch(k, n, t) == {[pos |-> logs[k].appended + i, at |-> t] : i \in 1..n}

Open(k) ==
    /\ logs[k] = Closed
    /\ logs' = [logs EXCEPT ![k] = [timestamps |-> {}, appended |-> 0]]
    /\ UNCHANGED clock

Forget(k, l, t) ==
    /\ logs[k] # Closed
    /\ logs' = [logs EXCEPT ![k].timestamps = InWindow(k, l, t)]
    /\ UNCHANGED clock

Admit(k, l, n, t) ==
    /\ logs[k] # Closed
    /\ Cardinality(InWindow(k, l, t)) + n <= l.req
    /\ logs' = [logs EXCEPT ![k] =
                  [timestamps |-> InWindow(k, l, t) \cup Batch(k, n, t),
                   appended |-> @.appended + n]]
    /\ UNCHANGED clock

Drop(k) ==
    /\ logs' = [logs EXCEPT ![k] = Closed]
    /\ UNCHANGED clock

Pass ==
    /\ clock' = clock + 1
    /\ UNCHANGED logs

LogNext ==
    \/ \E k \in Keys :
          \/ Open(k)
          \/ \E l \in Limits, t \in Readings :
                \/ Forget(k, l, t)
                \/ \E n \in Amounts : Admit(k, l, n, t)
          \/ Drop(k)
    \/ Pass

LogSpec == LogInit /\ [][LogNext]_lvars
====
