---- MODULE TokenAccount ----
(***************************************************************************)
(* What a token-bucket limiter promises for every key: an account that is  *)
(* opened full, accrues req parts in every tick up to its capacity, and    *)
(* pays win parts for every unit it admits, never more than it holds.  A   *)
(* token is worth win parts, so a tick accrues a whole number of parts.    *)
(* Time never runs backwards here and every tick is accrued exactly once.  *)
(***************************************************************************)
EXTENDS Integers

CONSTANTS Keys, Limits, Amounts, Times, Closed

VARIABLE account

Full(l) == l.win * (IF l.burst = 0 THEN l.req ELSE l.burst)

AccountInit == account = [k \in Keys |-> Closed]

Open(k, l, t) ==
    /\ account[k] = Closed
    /\ account' = [account EXCEPT ![k] =
                      [credit |-> Full(l), lim |-> l, asOf |-> t]]

Accrue(k, t) ==
    LET a == account[k]
        accrued == a.credit + (t - a.asOf) * a.lim.req
    IN  /\ a # Closed
        /\ t > a.asOf
        /\ account' = [account EXCEPT ![k] =
               [credit |-> IF accrued > Full(a.lim) THEN Full(a.lim) ELSE accrued,
                lim |-> a.lim, asOf |-> t]]

Spend(k, n) ==
    LET a == account[k]
    IN  /\ a # Closed
        /\ a.credit >= n * a.lim.win
        /\ account' = [account EXCEPT ![k] =
               [credit |-> a.credit - n * a.lim.win,
                lim |-> a.lim, asOf |-> a.asOf]]

Drop(k) == account' = [account EXCEPT ![k] = Closed]

AccountNext ==
    \E k \in Keys :
        \/ \E t \in Times : Accrue(k, t) \/ \E l \in Limits : Open(k, l, t)
        \/ \E n \in Amounts : Spend(k, n)
        \/ Drop(k)

AccountSpec == AccountInit /\ [][AccountNext]_account
====
