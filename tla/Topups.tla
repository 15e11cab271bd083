------------------------------- MODULE Topups -------------------------------
(***************************************************************************)
(* Money from outside: top-up orders, Dodo's webhooks, the expiry task and *)
(* an admin's refunds (src/src/topups.rs, src/src/admin.rs).               *)
(*                                                                         *)
(* Dodo delivers every event until one delivery is answered with success,  *)
(* so an event may arrive often, late, and before older ones.  A delivery  *)
(* is one transaction; one that fails or is cut off by a crash leaves      *)
(* nothing behind and is repeated, which is a step that changes nothing.   *)
(* Raw payloads, notifications and payment ids are left out.               *)
(***************************************************************************)
EXTENDS Integers, FiniteSets, Functions

CONSTANTS
    Users,
    Topups,       \* the top-ups that may be ordered
    Req,          \* whose they are, and their gross amount and fee
    MaxTopup,     \* TOPUP_MAX_USD
    Amounts,      \* amounts of the other movements of user_cash
    MaxCash       \* bound on what a user may have when the rest adds to it

ASSUME TopupAssumption ==
    /\ Req \in [Topups -> [user: Users, gross: Nat, fee: Nat]]
    /\ MaxTopup \in Nat /\ MaxCash \in Nat
    /\ Amounts \subseteq Nat \ {0}
    /\ IsFiniteSet(Users) /\ IsFiniteSet(Topups)

\* The event types that dodo_event_action tells apart, by what it makes of them.
Succeeding == {"payment.succeeded", "checkout.session.completed"}
Returning  == {"refund.succeeded", "dispute.opened"}
Events     == Topups \X (Succeeding \cup Returning \cup {"payment.failed"})

VARIABLES
    order,     \* topup_orders: status, "none" before the row exists
    due,       \* pending orders whose expires_at has passed
    entered,   \* ledger entries of a top-up: out of payment_clearing
    back,      \* ledger entries of a top-up: into payment_clearing again
    feeBack,   \* refunds that returned the fee (history)
    cash,      \* user_cash balances
    feeRevenue, riskLoss, \* what top-ups have moved on two platform accounts
    elsewhere, \* what users have paid to other accounts, less what those paid them
    payment,   \* external: Dodo's view of the payment
    sent,      \* events Dodo delivers
    processed, \* processed_webhooks
    early      \* top-ups whose refund was processed before their payment (history)

orders  == <<order, due>>
ledger  == <<entered, back, feeBack, cash, feeRevenue, riskLoss>>
dodo    == <<payment, sent>>
vars    == <<orders, ledger, elsewhere, dodo, processed, early>>

User(t) == Req[t].user
Gross(t) == Req[t].gross
Fee(t)  == Req[t].fee
Net(t)  == Gross(t) - Fee(t)

Init ==
    /\ order = [t \in Topups |-> "none"]
    /\ due = {}
    /\ entered = [t \in Topups |-> 0] /\ back = [t \in Topups |-> 0]
    /\ feeBack = {}
    /\ cash = [u \in Users |-> 0]
    /\ feeRevenue = 0 /\ riskLoss = 0 /\ elsewhere = 0
    /\ payment = [t \in Topups |-> "none"]
    /\ sent = {} /\ processed = {} /\ early = {}

-----------------------------------------------------------------------------
(* Orders and their expiry *)

\* create_checkout: the URL is shown only once the row is stored.
CreateCheckout(t) ==
    /\ order[t] = "none"
    /\ Gross(t) > 0 /\ Gross(t) <= MaxTopup /\ Net(t) > 0
    /\ order' = [order EXCEPT ![t] = "pending"]
    /\ payment' = [payment EXCEPT ![t] = "open"]
    /\ UNCHANGED <<due, ledger, elsewhere, sent, processed, early>>

ThirtyMinutesPass(t) ==
    /\ order[t] = "pending"
    /\ due' = due \cup {t}
    /\ UNCHANGED <<order, ledger, elsewhere, dodo, processed, early>>

\* Seeded fault: the comparison with the current time is the wrong way round.
ExpireOrders_NotYetDue ==
    /\ \E t \in Topups : order[t] = "pending" /\ t \notin due
    /\ order' = [t \in Topups |->
                    IF order[t] = "pending" /\ t \notin due THEN "expired" ELSE order[t]]
    /\ UNCHANGED <<due, ledger, elsewhere, dodo, processed, early>>

\* spawn_order_expiry: one UPDATE for all of them.  Dodo's session stays open.
ExpireOrders ==
    /\ due # {}
    /\ order' = [t \in Topups |-> IF t \in due THEN "expired" ELSE order[t]]
    /\ due' = {}
    /\ UNCHANGED <<ledger, elsewhere, dodo, processed, early>>

-----------------------------------------------------------------------------
(* Dodo *)

DodoSends(t, types) == sent' = sent \cup ({t} \X types)

Pay(t) ==
    /\ payment[t] = "open"
    /\ payment' = [payment EXCEPT ![t] = "taken"]
    /\ DodoSends(t, Succeeding)
    /\ UNCHANGED <<orders, ledger, elsewhere, processed, early>>

\* The customer may try again in the same session.
PaymentAttemptFails(t) ==
    /\ payment[t] = "open"
    /\ DodoSends(t, {"payment.failed"})
    /\ UNCHANGED <<orders, ledger, elsewhere, payment, processed, early>>

\* A refund made at Dodo, a dispute, or one after the other.
PaymentReturned(t) ==
    /\ payment[t] = "taken"
    /\ payment' = [payment EXCEPT ![t] = "returned"]
    /\ \E types \in SUBSET Returning \ {{}} : DodoSends(t, types)
    /\ UNCHANGED <<orders, ledger, elsewhere, processed, early>>

-----------------------------------------------------------------------------
(* dodo_webhook *)

\* Seeded fault: the second event of a payment is taken for another payment.
ApplySucceeded_StatusUnchecked(t) ==
    /\ order' = [order EXCEPT ![t] = "paid"]
    /\ entered' = [entered EXCEPT ![t] = @ + Gross(t)]
    /\ cash' = [cash EXCEPT ![User(t)] = @ + Net(t)]
    /\ feeRevenue' = feeRevenue + Fee(t)
    /\ UNCHANGED <<due, back, feeBack, riskLoss, early>>

ApplySucceeded(t) ==
    \/ /\ order[t] = "pending"
       /\ order' = [order EXCEPT ![t] = "paid"]
       /\ entered' = [entered EXCEPT ![t] = @ + Gross(t)]
       /\ cash' = [cash EXCEPT ![User(t)] = @ + Net(t)]
       /\ feeRevenue' = feeRevenue + Fee(t)
       /\ due' = due \ {t}
       /\ UNCHANGED <<back, feeBack, riskLoss, early>>
    \/ /\ order[t] # "pending"
       /\ UNCHANGED <<orders, ledger, early>>

Smaller(a, b) == IF a <= b THEN a ELSE b

\* What the user still has of it; risk_loss pays the rest.
Recoverable(t) == Smaller(cash[User(t)], Net(t))

\* Seeded fault: the user's part is booked and not taken.
Reverse_CashKept(t, returned) ==
    /\ order[t] = "paid"
    /\ order' = [order EXCEPT ![t] = "refunded"]
    /\ riskLoss' = riskLoss - (Net(t) - Recoverable(t))
    /\ feeRevenue' = feeRevenue - returned
    /\ back' = [back EXCEPT ![t] = @ + Net(t) + returned]
    /\ feeBack' = IF returned > 0 THEN feeBack \cup {t} ELSE feeBack
    /\ UNCHANGED <<due, entered, cash, early>>

\* user_cash and risk_loss (and fee_revenue) -> payment_clearing.
Reverse(t, returned) ==
    /\ order[t] = "paid"
    /\ order' = [order EXCEPT ![t] = "refunded"]
    /\ cash' = [cash EXCEPT ![User(t)] = @ - Recoverable(t)]
    /\ riskLoss' = riskLoss - (Net(t) - Recoverable(t))
    /\ feeRevenue' = feeRevenue - returned
    /\ back' = [back EXCEPT ![t] = @ + Net(t) + returned]
    /\ feeBack' = IF returned > 0 THEN feeBack \cup {t} ELSE feeBack
    /\ UNCHANGED <<due, entered, early>>

ApplyReturned(t) ==
    \/ Reverse(t, 0)
    \/ /\ order[t] # "paid"
       /\ early' = IF order[t] = "pending" THEN early \cup {t} ELSE early
       /\ UNCHANGED <<orders, ledger>>

\* Seeded fault: a late event of an attempt that failed ends any order.
ApplyFailed_StatusUnchecked(t) ==
    /\ order' = [order EXCEPT ![t] = "failed"]
    /\ UNCHANGED <<due, ledger, early>>

ApplyFailed(t) ==
    /\ order' = IF order[t] = "pending" THEN [order EXCEPT ![t] = "failed"] ELSE order
    /\ due' = due \ {t}
    /\ UNCHANGED <<ledger, early>>

Apply(t, type) ==
    \/ type \in Succeeding /\ ApplySucceeded(t)
    \/ type \in Returning /\ ApplyReturned(t)
    \/ type = "payment.failed" /\ ApplyFailed(t)

\* Seeded fault: the event is recorded in a transaction of its own, and the
\* process may stop before the next one.
DeliverEvent_RecordedApart(e) ==
    /\ e \in sent \ processed
    /\ processed' = processed \cup {e}
    /\ Apply(e[1], e[2]) \/ UNCHANGED <<orders, ledger, early>>
    /\ UNCHANGED <<elsewhere, dodo>>

\* INSERT ... ON CONFLICT DO NOTHING: an event already recorded is answered only.
DeliverEvent(e) ==
    /\ e \in sent \ processed
    /\ processed' = processed \cup {e}
    /\ Apply(e[1], e[2])
    /\ UNCHANGED <<elsewhere, dodo>>

\* admin.rs: refund_topup, with the fee or without.
RefundTopup(t, refundFee) ==
    /\ Reverse(t, IF refundFee THEN Fee(t) ELSE 0)
    /\ UNCHANGED <<elsewhere, dodo, processed>>

-----------------------------------------------------------------------------
(* Everything else that moves user_cash *)

\* A reservation, or admin.rs: adjust_user against the user.
UserSpends(u, a) ==
    /\ cash[u] >= a
    /\ cash' = [cash EXCEPT ![u] = @ - a]
    /\ elsewhere' = elsewhere + a
    /\ UNCHANGED <<orders, entered, back, feeBack, feeRevenue, riskLoss, dodo, processed, early>>

\* A returned reservation, converted earnings, or adjust_user in favour.
UserGains(u, a) ==
    /\ cash[u] + a <= MaxCash
    /\ cash' = [cash EXCEPT ![u] = @ + a]
    /\ elsewhere' = elsewhere - a
    /\ UNCHANGED <<orders, entered, back, feeBack, feeRevenue, riskLoss, dodo, processed, early>>

-----------------------------------------------------------------------------
TopupStep(t) ==
    \/ CreateCheckout(t)
    \/ ThirtyMinutesPass(t)
    \/ Pay(t)
    \/ PaymentAttemptFails(t)
    \/ PaymentReturned(t)
    \/ \E refundFee \in BOOLEAN : RefundTopup(t, refundFee)

UserStep(u) == \E a \in Amounts : UserSpends(u, a) \/ UserGains(u, a)

Next ==
    \/ \E t \in Topups : TopupStep(t)
    \/ \E e \in Events : DeliverEvent(e)
    \/ ExpireOrders
    \/ \E u \in Users : UserStep(u)

Spec == Init /\ [][Next]_vars

(***************************************************************************)
(* Time passes and the expiry task runs every five minutes for as long as  *)
(* the process does; nothing is assumed of Dodo, customers or admins.      *)
(***************************************************************************)
FairSpec ==
    /\ Spec
    /\ WF_vars(ExpireOrders)
    /\ \A t \in Topups : WF_vars(ThirtyMinutesPass(t))

-----------------------------------------------------------------------------
(* Properties *)

\* Every variable has the type of the table, account or party it stands for.
TypeOK ==
    /\ order \in [Topups -> {"none", "pending", "paid", "failed", "expired", "refunded"}]
    /\ due \subseteq {t \in Topups : order[t] = "pending"}
    /\ entered \in [Topups -> Nat] /\ back \in [Topups -> Nat]
    /\ feeBack \subseteq Topups
    /\ cash \in [Users -> Nat]
    /\ feeRevenue \in Int /\ riskLoss \in Int /\ elsewhere \in Int
    /\ payment \in [Topups -> {"none", "open", "taken", "returned"}]
    /\ sent \subseteq Events /\ processed \subseteq sent
    /\ early \subseteq Topups

(***************************************************************************)
(* The ledger agrees with the orders: a top-up that was paid has entered   *)
(* once, however many events told of it, and one that was refunded has     *)
(* gone back once, in full, whether Dodo, a dispute or an admin refunded   *)
(* it and whatever the user had spent by then (plan.md:909-930).           *)
(***************************************************************************)
LedgerMatchesOrders ==
    \A t \in Topups :
        /\ entered[t] = IF order[t] \in {"paid", "refunded"} THEN Gross(t) ELSE 0
        /\ back[t] = CASE order[t] # "refunded" -> 0
                       [] t \in feeBack         -> Gross(t)
                       [] OTHER                 -> Net(t)

\* The books of top-ups are sound: no balance is negative, and the ledger
\* agrees with the orders (webhook events, expiry and refunds).
TopupInv == TypeOK /\ LedgerMatchesOrders

\* What has entered and not gone back.
Left == [t \in Topups |-> entered[t] - back[t]]

\* What users and the platform hold is what entered and did not go back.
TopupsConserveMoney ==
    SumFunctionOnSet(cash, Users) + feeRevenue + riskLoss + elsewhere
        = SumFunctionOnSet(Left, Topups)

(***************************************************************************)
(* "A recognised event is recorded and applied in one transaction"         *)
(* (plan.md:945): no crash can leave a payment recorded and the order      *)
(* pending, or a refund recorded and the order paid -- except for a refund *)
(* that was processed before the payment it returns.                       *)
(***************************************************************************)
RecordedIsApplied ==
    \A t \in Topups :
        /\ order[t] = "pending" => \A type \in Succeeding : <<t, type>> \notin processed
        /\ order[t] = "paid" /\ t \notin early
               => \A type \in Returning : <<t, type>> \notin processed

(***************************************************************************)
(* An order that failed, expired or was refunded stays so and no money     *)
(* moves for it, whichever events arrive late or again.                    *)
(***************************************************************************)
FinalOrderStays ==
    [][\A t \in Topups : order[t] \in {"failed", "expired", "refunded"} =>
          order'[t] = order[t] /\ entered'[t] = entered[t] /\ back'[t] = back[t]]_vars

\* An order does not stay pending, though no event ever arrives (plan.md:916).
PendingEnds == \A t \in Topups : (order[t] = "pending") ~> (order[t] # "pending")
=============================================================================
