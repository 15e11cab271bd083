---------------------------- MODULE Reservations ----------------------------
(***************************************************************************)
(* What reserving money promises, whoever does it: an amount is locked     *)
(* once, and ends once, either collected, when it is paid out, or          *)
(* returned, when nothing is.  Charges implements this for requests,       *)
(* without handlers, maintenance and admins, and Payouts for payout        *)
(* requests, without executors and admins.                                 *)
(***************************************************************************)
EXTENDS Integers

CONSTANTS Requests, Estimates, Amounts

VARIABLES
    state,   \* of each request's reservation
    locked,  \* how much of user_reserved is locked for it
    paidOut  \* how much the parties have received for it

vars == <<state, locked, paidOut>>

Init ==
    /\ state = [r \in Requests |-> "none"]
    /\ locked = [r \in Requests |-> 0]
    /\ paidOut = [r \in Requests |-> 0]

Lock(r) ==
    /\ state[r] = "none"
    /\ state' = [state EXCEPT ![r] = "locked"]
    /\ locked' = [locked EXCEPT ![r] = Estimates[r]]
    /\ UNCHANGED paidOut

CollectFor(r, cost) ==
    /\ state[r] = "locked"
    /\ state' = [state EXCEPT ![r] = "collected"]
    /\ locked' = [locked EXCEPT ![r] = 0]
    /\ paidOut' = [paidOut EXCEPT ![r] = cost]

Return(r) ==
    /\ state[r] = "locked"
    /\ state' = [state EXCEPT ![r] = "returned"]
    /\ locked' = [locked EXCEPT ![r] = 0]
    /\ UNCHANGED paidOut

Next ==
    \E r \in Requests :
        \/ Lock(r)
        \/ \E cost \in Amounts : CollectFor(r, cost)
        \/ Return(r)

Spec == Init /\ [][Next]_vars
=============================================================================
