---- MODULE SharedLog ----
(***************************************************************************)
(* What the sliding window in Redis promises to the processes that share   *)
(* it: a log per key that holds a call once, with all its units and        *)
(* however often it is sent; a call that no log holds enters only if its   *)
(* units are within a limit together with what the log has in the window   *)
(* before the call's clock reading.  An entry leaves the log when it lies  *)
(* before the window of some call's reading, or with the whole log: when   *)
(* the key is reset, or when time has taken it out of a limit's window.    *)
(* Readings are at most MaxStale ticks old and at most Skew ticks ahead of *)
(* the store's clock.                                                      *)
(***************************************************************************)
EXTENDS Integers, FiniteSets

CONSTANTS Keys, Limits, Amounts, Times, Names, MaxStale, Skew

VARIABLES entries, clock

svars == <<entries, clock>>

SharedInit ==
    /\ entries = [k \in Keys |-> {}]
    /\ clock = 0

Readings == {t \in Times : t <= clock + Skew /\ clock - t <= MaxStale}

InWindow(k, l, t) == {e \in entries[k] : e.score > t - l.win}

Batch(x, n, t) == {[nonce |-> x, i |-> i, score |-> t] : i \in 1..n}

Unknown(x) == \A k \in Keys : \A e \in entries[k] : e.nonce # x

Admit(k, l, x, n, t) ==
    /\ Unknown(x)
    /\ Cardinality(InWindow(k, l, t)) + n <= l.req
    /\ entries' = [entries EXCEPT ![k] = InWindow(k, l, t) \cup Batch(x, n, t)]
    /\ UNCHANGED clock

Forget(k, l, t) ==
    /\ entries' = [entries EXCEPT ![k] = InWindow(k, l, t)]
    /\ UNCHANGED clock

Drop(k) ==
    /\ entries' = [entries EXCEPT ![k] = {}]
    /\ UNCHANGED clock

Outdated(k, now) ==
    \E l \in Limits : \A e \in entries[k] : e.score + l.win <= now + Skew

Pass ==
    /\ clock' = clock + 1
    /\ \E expired \in SUBSET {k \in Keys : Outdated(k, clock')} :
          entries' = [k \in Keys |-> IF k \in expired THEN {} ELSE entries[k]]

SharedNext ==
    \/ \E k \in Keys :
          \/ \E l \in Limits, t \in Readings :
                \/ Forget(k, l, t)
                \/ \E x \in Names, n \in Amounts : Admit(k, l, x, n, t)
          \/ Drop(k)
    \/ Pass

SharedSpec == SharedInit /\ [][SharedNext]_svars
====
