---- MODULE WindowCounter ----
(***************************************************************************)
(* What a fixed-window limiter promises for every key: a counter that is   *)
(* either closed or counts the units admitted since its start, is never    *)
(* admitted past a limit that has been in force for the key, and starts    *)
(* over only when a whole window of such a limit has gone by.  Checking    *)
(* and counting are one step here.                                         *)
(***************************************************************************)
EXTENDS Integers

CONSTANTS Keys, Limits, DefaultLimit, Amounts, Times, Closed

VARIABLES cell, inForce

cvars == <<cell, inForce>>

Counter == [count : Nat, start : Times]

CounterInit ==
    /\ cell = [k \in Keys |-> Closed]
    /\ inForce = [k \in Keys |-> {DefaultLimit}]

Open(k, t) ==
    /\ cell[k] = Closed
    /\ cell' = [cell EXCEPT ![k] = [count |-> 0, start |-> t]]
    /\ UNCHANGED inForce

StartOver(k, l, t) ==
    /\ cell[k] # Closed
    /\ t >= cell[k].start + l.win
    /\ cell' = [cell EXCEPT ![k] = [count |-> 0, start |-> t]]
    /\ UNCHANGED inForce

Admit(k, l, n) ==
    /\ cell[k] # Closed
    /\ cell[k].count + n <= l.req
    /\ cell' = [cell EXCEPT ![k].count = @ + n]
    /\ UNCHANGED inForce

Drop(k) ==
    /\ cell' = [cell EXCEPT ![k] = Closed]
    /\ UNCHANGED inForce

Enforce(k, l) ==
    /\ inForce' = [inForce EXCEPT ![k] = @ \cup {l}]
    /\ UNCHANGED cell

CounterNext ==
    \E k \in Keys :
        \/ \E t \in Times : Open(k, t)
        \/ \E l \in inForce[k] :
              \/ \E t \in Times : StartOver(k, l, t)
              \/ \E n \in Amounts : Admit(k, l, n)
        \/ Drop(k)
        \/ \E l \in Limits : Enforce(k, l)

CounterSpec == CounterInit /\ [][CounterNext]_cvars
====
