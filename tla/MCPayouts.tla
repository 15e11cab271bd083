----------------------------- MODULE MCPayouts ------------------------------
(***************************************************************************)
(* The payout requests of the model-checked instances of Payouts.          *)
(***************************************************************************)
EXTENDS Payouts, TLC

CONSTANTS o1, o2, p1, p2

Payout(o, m, a, f) == [owner |-> o, method |-> m, amount |-> a, fee |-> f]

\* Two Gate.io payouts of one owner, one with a fee: the worker, admins and a
\* second request compete for the same escrow.
TwoGateio == (p1 :> Payout(o1, "gateio", 2, 1)) @@ (p2 :> Payout(o1, "gateio", 1, 0))

\* A Gate.io payout and a manual one, which only admins execute.
GateioAndManual == (p1 :> Payout(o1, "gateio", 2, 1)) @@ (p2 :> Payout(o1, "manual", 2, 0))

\* A manual payout needs the larger amount.
Minima == [gateio |-> 1, manual |-> 2]
=============================================================================
