---------------------------- MODULE TopupsProofs ----------------------------
(***************************************************************************)
(* Proofs about top-ups: types, that the ledger agrees with the orders     *)
(* whatever Dodo delivers, that final orders stay final, that what is      *)
(* recorded was applied, and that no step makes or loses money.            *)
(***************************************************************************)
EXTENDS Topups, AmountProofs

LEMMA TopupFacts ==
  ASSUME NEW t \in Topups
  PROVE  User(t) \in Users /\ Gross(t) \in Nat /\ Fee(t) \in Nat /\ Net(t) \in Int
BY TopupAssumption DEF User, Gross, Fee, Net

\* An order was made only for an amount that exceeds its fee.
OrderedAreValid == \A t \in Topups : order[t] # "none" => Net(t) > 0

\* Only the fee of a refunded top-up was returned.
FeeBackRefunded == \A t \in feeBack : order[t] = "refunded"

-----------------------------------------------------------------------------
(* Every step of Next, grouped by what it does to the orders and the ledger *)

Ordered(t) ==
    /\ order[t] = "none"
    /\ Net(t) > 0
    /\ order' = [order EXCEPT ![t] = "pending"]
    /\ UNCHANGED <<due, ledger, elsewhere, processed, early>>

Credited(t) == order[t] = "pending" /\ ApplySucceeded(t) /\ UNCHANGED elsewhere

Reversed(t, returned) == Reverse(t, returned) /\ UNCHANGED elsewhere

\* Some pending orders end without payment.
Ended ==
    /\ order' \in [Topups -> {"none", "pending", "paid", "failed", "expired", "refunded"}]
    /\ \A t \in Topups :
          order'[t] = order[t] \/ (order[t] = "pending" /\ order'[t] \in {"failed", "expired"})
    /\ due' \subseteq {t \in Topups : order'[t] = "pending"}
    /\ UNCHANGED <<ledger, elsewhere>>

\* Only user_cash and the accounts elsewhere change.
UserMoney ==
    /\ cash' \in [Users -> Nat] /\ elsewhere' \in Int
    /\ UNCHANGED <<orders, entered, back, feeBack, feeRevenue, riskLoss>>

LEMMA BookSteps ==
  ASSUME TypeOK, [Next]_vars
  PROVE  \/ \E t \in Topups : Ordered(t) \/ Credited(t)
                \/ \E r \in {0, Fee(t)} : Reversed(t, r)
         \/ Ended
         \/ \E u \in Users : UserStep(u)
<1> USE DEF orders, ledger
<1>1. ASSUME NEW t \in Topups, TopupStep(t)
      PROVE  Ordered(t) \/ (\E r \in {0, Fee(t)} : Reversed(t, r)) \/ Ended
  <2>1. CASE CreateCheckout(t)
    BY <2>1 DEF CreateCheckout, Ordered
  <2>2. CASE ThirtyMinutesPass(t)
    BY <2>2 DEF ThirtyMinutesPass, Ended, TypeOK
  <2>3. CASE Pay(t) \/ PaymentAttemptFails(t) \/ PaymentReturned(t)
    BY <2>3 DEF Pay, PaymentAttemptFails, PaymentReturned, Ended, TypeOK
  <2>4. ASSUME NEW refundFee \in BOOLEAN, RefundTopup(t, refundFee)
        PROVE  \E r \in {0, Fee(t)} : Reversed(t, r)
    BY <2>4 DEF RefundTopup, Reversed
  <2> QED BY <1>1, <2>1, <2>2, <2>3, <2>4 DEF TopupStep
<1>2. ASSUME NEW e \in Events, DeliverEvent(e)
      PROVE  \/ \E t \in Topups : Credited(t) \/ Reversed(t, 0)
             \/ Ended
  <2> DEFINE t == e[1]
  <2>1. t \in Topups
    BY DEF Events
  <2>2. CASE ApplySucceeded(t)
    BY <1>2, <2>1, <2>2 DEF DeliverEvent, ApplySucceeded, Credited, Ended, TypeOK
  <2>3. CASE ApplyReturned(t)
    BY <1>2, <2>1, <2>3 DEF DeliverEvent, ApplyReturned, Reversed, Ended, TypeOK
  <2>4. CASE ApplyFailed(t)
    BY <1>2, <2>1, <2>4 DEF DeliverEvent, ApplyFailed, Ended, TypeOK
  <2> QED BY <1>2, <2>1, <2>2, <2>3, <2>4 DEF DeliverEvent, Apply
<1>3. CASE ExpireOrders
  BY <1>3 DEF ExpireOrders, Ended, TypeOK
<1>4. CASE UNCHANGED vars
  BY <1>4 DEF vars, Ended, TypeOK
<1> QED BY <1>1, <1>2, <1>3, <1>4 DEF Next

LEMMA StepKinds ==
  ASSUME TypeOK, [Next]_vars
  PROVE  \/ \E t \in Topups : Ordered(t) \/ Credited(t)
                \/ \E r \in {0, Fee(t)} : Reversed(t, r)
         \/ Ended
         \/ UserMoney
<1> USE DEF orders, ledger
<1>1. ASSUME NEW u \in Users, UserStep(u) PROVE UserMoney
  <2>1. PICK a \in Amounts : UserSpends(u, a) \/ UserGains(u, a)
    BY <1>1 DEF UserStep
  <2>2. a \in Nat /\ MaxCash \in Nat
    BY TopupAssumption
  <2>3. cash' \in [Users -> Nat] /\ elsewhere' \in Int
    BY <2>1, <2>2, SMT DEF UserSpends, UserGains, TypeOK
  <2> QED BY <2>1, <2>3 DEF UserSpends, UserGains, UserMoney
<1> QED BY <1>1, BookSteps

-----------------------------------------------------------------------------
(* Types and the ledger *)

\* The part of TypeOK that is the market's.
BookType ==
    /\ order \in [Topups -> {"none", "pending", "paid", "failed", "expired", "refunded"}]
    /\ due \subseteq {t \in Topups : order[t] = "pending"}
    /\ entered \in [Topups -> Nat] /\ back \in [Topups -> Nat]
    /\ feeBack \subseteq Topups
    /\ cash \in [Users -> Nat]
    /\ feeRevenue \in Int /\ riskLoss \in Int /\ elsewhere \in Int

\* The part that is Dodo's, and what the market has recorded of it.
DodoType ==
    /\ payment \in [Topups -> {"none", "open", "taken", "returned"}]
    /\ sent \subseteq Events /\ processed \subseteq sent
    /\ early \subseteq Topups

LEMMA DodoTypeKept == DodoType /\ [Next]_vars => DodoType'
<1> SUFFICES ASSUME DodoType, [Next]_vars PROVE DodoType'
  OBVIOUS
<1> USE DEF DodoType
<1>1. ASSUME NEW t \in Topups, TopupStep(t) PROVE DodoType'
  <2>1. CASE CreateCheckout(t)
    BY <2>1 DEF CreateCheckout
  <2>2. CASE ThirtyMinutesPass(t)
    BY <2>2 DEF ThirtyMinutesPass, dodo
  <2>3. CASE Pay(t)
    BY <2>3 DEF Pay, DodoSends, Events
  <2>4. CASE PaymentAttemptFails(t)
    BY <2>4 DEF PaymentAttemptFails, DodoSends, Events
  <2>5. CASE PaymentReturned(t)
    BY <2>5 DEF PaymentReturned, DodoSends, Events
  <2>6. ASSUME NEW refundFee \in BOOLEAN, RefundTopup(t, refundFee) PROVE DodoType'
    BY <2>6 DEF RefundTopup, Reverse, dodo
  <2> QED BY <1>1, <2>1, <2>2, <2>3, <2>4, <2>5, <2>6 DEF TopupStep
<1>2. ASSUME NEW e \in Events, DeliverEvent(e) PROVE DodoType'
  <2>1. e[1] \in Topups
    BY DEF Events
  <2>2. early' \subseteq Topups
    BY <1>2, <2>1 DEF DeliverEvent, Apply, ApplySucceeded, ApplyReturned, ApplyFailed, Reverse
  <2> QED BY <1>2, <2>2 DEF DeliverEvent, dodo
<1>3. CASE ExpireOrders \/ (\E u \in Users : UserStep(u)) \/ UNCHANGED vars
  BY <1>3 DEF ExpireOrders, UserStep, UserSpends, UserGains, vars, dodo
<1> QED BY <1>1, <1>2, <1>3 DEF Next

\* The amounts of a credit and of a reversal stay within what there is.
LEMMA Portions ==
  ASSUME BookType, NEW t \in Topups, Net(t) > 0
  PROVE  /\ Recoverable(t) \in Nat /\ Recoverable(t) <= cash[User(t)]
         /\ Recoverable(t) <= Net(t)
         /\ Net(t) \in Nat /\ Net(t) + Fee(t) = Gross(t)
<1>1. cash[User(t)] \in Nat
  BY TopupFacts DEF BookType
<1> QED BY <1>1, TopupFacts DEF Recoverable, Smaller, Net

Books == BookType /\ OrderedAreValid /\ FeeBackRefunded /\ LedgerMatchesOrders

LEMMA BooksKept == TypeOK /\ Books /\ [Next]_vars => Books'
<1> SUFFICES ASSUME TypeOK, Books, [Next]_vars PROVE Books'
  OBVIOUS
<1>0. BookType /\ OrderedAreValid /\ FeeBackRefunded /\ LedgerMatchesOrders
  BY DEF Books
<1> USE DEF ledger, orders
<1>1. ASSUME NEW t \in Topups, Ordered(t) PROVE Books'
  <2>1. order' \in [Topups -> {"none", "pending", "paid", "failed", "expired", "refunded"}]
        /\ \A q \in Topups : order'[q] = order[q] \/ (q = t /\ order'[q] = "pending")
    BY <1>0, <1>1 DEF Ordered, BookType
  <2>2. BookType'
    BY <1>0, <1>1, <2>1 DEF Ordered, BookType
  <2>3. OrderedAreValid' /\ FeeBackRefunded'
    BY <1>0, <1>1, <2>1 DEF Ordered, OrderedAreValid, FeeBackRefunded, BookType, Net, Gross, Fee
  <2>4. LedgerMatchesOrders'
    BY <1>0, <1>1, <2>1 DEF Ordered, LedgerMatchesOrders, FeeBackRefunded, Net, Gross, Fee
  <2> QED BY <2>2, <2>3, <2>4 DEF Books
<1>2. ASSUME NEW t \in Topups, Credited(t) PROVE Books'
  <2>0. Net(t) > 0 /\ order[t] = "pending" /\ entered[t] = 0
    BY <1>0, <1>2 DEF Credited, OrderedAreValid, LedgerMatchesOrders
  <2>1. /\ Net(t) \in Nat /\ Gross(t) \in Nat /\ Fee(t) \in Nat /\ User(t) \in Users
    BY <1>0, <2>0, Portions, TopupFacts
  <2>2. /\ order' = [order EXCEPT ![t] = "paid"]
        /\ entered' = [entered EXCEPT ![t] = @ + Gross(t)]
        /\ cash' = [cash EXCEPT ![User(t)] = @ + Net(t)]
        /\ feeRevenue' = feeRevenue + Fee(t)
        /\ due' = due \ {t}
        /\ UNCHANGED <<back, feeBack, riskLoss, elsewhere>>
    BY <1>2 DEF Credited, ApplySucceeded
  <2>3. BookType'
    BY <1>0, <2>1, <2>2, SMT DEF BookType
  <2>4. OrderedAreValid' /\ FeeBackRefunded'
    BY <1>0, <2>0, <2>2 DEF OrderedAreValid, FeeBackRefunded, BookType, Net, Gross, Fee
  <2>5. LedgerMatchesOrders'
    <3>1. entered'[t] = Gross(t) /\ order'[t] = "paid"
      BY <1>0, <2>0, <2>1, <2>2 DEF BookType
    <3>2. \A q \in Topups \ {t} : order'[q] = order[q] /\ entered'[q] = entered[q]
      BY <1>0, <2>2 DEF BookType
    <3> QED BY <1>0, <2>0, <2>2, <3>1, <3>2 DEF LedgerMatchesOrders, Net, Gross, Fee
  <2> QED BY <2>3, <2>4, <2>5 DEF Books
<1>3. ASSUME NEW t \in Topups, NEW r \in {0, Fee(t)}, Reversed(t, r) PROVE Books'
  <2>0. /\ order[t] = "paid" /\ Net(t) > 0 /\ back[t] = 0 /\ t \notin feeBack
        /\ entered[t] = Gross(t)
    BY <1>0, <1>3 DEF Reversed, Reverse, OrderedAreValid, LedgerMatchesOrders, FeeBackRefunded
  <2>1. /\ Recoverable(t) \in Nat /\ Recoverable(t) <= cash[User(t)]
        /\ Net(t) \in Nat /\ Fee(t) \in Nat /\ r \in Nat /\ User(t) \in Users
        /\ Net(t) + Fee(t) = Gross(t)
    BY <1>0, <2>0, Portions, TopupFacts
  <2>2. /\ order' = [order EXCEPT ![t] = "refunded"]
        /\ cash' = [cash EXCEPT ![User(t)] = @ - Recoverable(t)]
        /\ riskLoss' = riskLoss - (Net(t) - Recoverable(t))
        /\ feeRevenue' = feeRevenue - r
        /\ back' = [back EXCEPT ![t] = @ + Net(t) + r]
        /\ feeBack' = IF r > 0 THEN feeBack \cup {t} ELSE feeBack
        /\ UNCHANGED <<due, entered, elsewhere>>
    BY <1>3 DEF Reversed, Reverse
  <2>3. BookType'
    <3>1. cash' \in [Users -> Nat] /\ back' \in [Topups -> Nat]
      BY <1>0, <2>1, <2>2, SMT DEF BookType
    <3>2. riskLoss' \in Int /\ feeRevenue' \in Int
      BY <1>0, <2>1, <2>2 DEF BookType
    <3>3. order' \in [Topups -> {"none", "pending", "paid", "failed", "expired", "refunded"}]
          /\ due' \subseteq {q \in Topups : order'[q] = "pending"}
          /\ feeBack' \subseteq Topups
      BY <1>0, <2>0, <2>2 DEF BookType
    <3> QED BY <1>0, <2>2, <3>1, <3>2, <3>3 DEF BookType
  <2>4. OrderedAreValid' /\ FeeBackRefunded'
    BY <1>0, <2>0, <2>2 DEF OrderedAreValid, FeeBackRefunded, BookType, Net, Gross, Fee
  <2>5. LedgerMatchesOrders'
    <3>1. /\ order'[t] = "refunded" /\ entered'[t] = Gross(t)
          /\ back'[t] = Net(t) + r
          /\ t \in feeBack' => back'[t] = Gross(t)
          /\ t \notin feeBack' => back'[t] = Net(t)
      BY <1>0, <2>0, <2>1, <2>2 DEF BookType
    <3>2. \A q \in Topups \ {t} :
              /\ order'[q] = order[q] /\ back'[q] = back[q]
              /\ q \in feeBack' <=> q \in feeBack
      BY <1>0, <2>2 DEF BookType
    <3> QED BY <1>0, <2>2, <3>1, <3>2 DEF LedgerMatchesOrders, Net, Gross, Fee
  <2> QED BY <2>3, <2>4, <2>5 DEF Books
<1>4. CASE Ended
  <2>1. BookType'
    BY <1>0, <1>4 DEF Ended, BookType
  <2>2. OrderedAreValid' /\ FeeBackRefunded'
    BY <1>0, <1>4 DEF Ended, OrderedAreValid, FeeBackRefunded, BookType, Net, Gross, Fee
  <2>3. LedgerMatchesOrders'
    BY <1>0, <1>4 DEF Ended, LedgerMatchesOrders, FeeBackRefunded, Net, Gross, Fee
  <2> QED BY <2>1, <2>2, <2>3 DEF Books
<1>5. CASE UserMoney
  BY <1>0, <1>5 DEF UserMoney, Books, BookType, OrderedAreValid, FeeBackRefunded,
                    LedgerMatchesOrders, Net, Gross, Fee
<1> QED BY <1>1, <1>2, <1>3, <1>4, <1>5, StepKinds

LEMMA TypeInvariant == Spec => [](TypeOK /\ Books)
<1>1. Init => BookType /\ DodoType /\ Books
  BY DEF Init, BookType, DodoType, Books, OrderedAreValid, FeeBackRefunded, LedgerMatchesOrders
<1>2. TypeOK <=> BookType /\ DodoType
  BY DEF TypeOK, BookType, DodoType
<1>3. TypeOK /\ Books /\ [Next]_vars => TypeOK' /\ Books'
  <2>1. TypeOK' <=> BookType' /\ DodoType'
    BY DEF TypeOK, BookType, DodoType
  <2>2. Books' => BookType'
    BY DEF Books
  <2> QED BY <1>2, <2>1, <2>2, DodoTypeKept, BooksKept
<1>4. Init => TypeOK /\ Books
  BY <1>1, <1>2
<1> QED BY <1>3, <1>4, PTL DEF Spec

\* No movement makes a user's balance negative, a reversal after the money was
\* spent included, and every other variable keeps its type.
THEOREM TopupTypesCorrect == Spec => []TypeOK
BY TypeInvariant, PTL

(***************************************************************************)
(* However often and in whatever order Dodo tells of payments, refunds and *)
(* disputes, and whatever admins refund: each top-up enters the ledger     *)
(* once when paid, and goes back once and in full when refunded.           *)
(***************************************************************************)
THEOREM LedgerAgrees == Spec => []LedgerMatchesOrders
<1>1. Books => LedgerMatchesOrders
  BY DEF Books
<1> QED BY <1>1, TypeInvariant, PTL

(***************************************************************************)
(* Both together: the books of top-ups stay sound.                         *)
(***************************************************************************)
THEOREM BooksStaySound == Spec => []TopupInv
<1>1. TypeOK /\ Books => TopupInv
  BY DEF Books, TopupInv
<1> QED BY <1>1, TypeInvariant, PTL

-----------------------------------------------------------------------------
(* Final orders *)

(***************************************************************************)
(* No event, expiry or refund changes an order that failed, expired or was *)
(* refunded, nor moves money for it.                                       *)
(***************************************************************************)
THEOREM FinalOrdersStay == Spec => FinalOrderStays
<1> DEFINE Stays == \A t \in Topups : order[t] \in {"failed", "expired", "refunded"} =>
               order'[t] = order[t] /\ entered'[t] = entered[t] /\ back'[t] = back[t]
<1>1. ASSUME TypeOK, [Next]_vars PROVE Stays
  <2>0. BookType
    BY <1>1 DEF TypeOK, BookType
  <2>1. ASSUME NEW t \in Topups, Ordered(t) PROVE Stays
    BY <2>0, <2>1 DEF Ordered, BookType, ledger
  <2>2. ASSUME NEW t \in Topups, Credited(t) PROVE Stays
    BY <2>0, <2>2 DEF Credited, ApplySucceeded, BookType
  <2>3. ASSUME NEW t \in Topups, NEW r \in {0, Fee(t)}, Reversed(t, r) PROVE Stays
    BY <2>0, <2>3 DEF Reversed, Reverse, BookType
  <2>4. CASE Ended
    BY <2>4 DEF Ended, ledger
  <2>5. CASE UserMoney
    BY <2>5 DEF UserMoney, orders
  <2> QED BY <1>1, <2>1, <2>2, <2>3, <2>4, <2>5, StepKinds
<1>2. TypeOK /\ [Next]_vars => [Stays]_vars
  BY <1>1
<1> QED BY <1>2, TopupTypesCorrect, PTL DEF Spec, FinalOrderStays

-----------------------------------------------------------------------------
(* What is recorded was applied *)

\* Events are only recorded of orders that exist, and a refund that found its
\* order pending is remembered as early.
Applied ==
    \A t \in Topups :
        /\ order[t] = "none" => payment[t] = "none"
        /\ payment[t] = "none" => \A e \in sent : e[1] # t
        /\ order[t] = "pending" => \A type \in Succeeding : <<t, type>> \notin processed
        /\ order[t] \in {"pending", "paid"} /\ t \notin early
               => \A type \in Returning : <<t, type>> \notin processed

LEMMA AppliedKept == TypeOK /\ Applied /\ [Next]_vars => Applied'
<1> SUFFICES ASSUME TypeOK, Applied, [Next]_vars PROVE Applied'
  OBVIOUS
<1>0. BookType /\ DodoType
  BY DEF TypeOK, BookType, DodoType
<1> USE DEF orders, dodo
<1>1. ASSUME NEW t \in Topups, TopupStep(t) PROVE Applied'
  <2>1. CASE CreateCheckout(t)
    <3>1. \A e \in processed : e[1] # t
      BY <1>0, <2>1 DEF CreateCheckout, Applied, DodoType
    <3>2. /\ order' = [order EXCEPT ![t] = "pending"]
          /\ payment' = [payment EXCEPT ![t] = "open"]
          /\ UNCHANGED <<sent, processed, early>>
      BY <2>1 DEF CreateCheckout
    <3>3. /\ \A type : <<t, type>> \notin processed
          /\ order'[t] = "pending" /\ payment'[t] = "open"
          /\ \A q \in Topups \ {t} : order'[q] = order[q] /\ payment'[q] = payment[q]
      BY <1>0, <3>1, <3>2 DEF BookType, DodoType
    <3> QED BY <3>2, <3>3 DEF Applied
  <2>2. CASE ThirtyMinutesPass(t)
    BY <2>2 DEF ThirtyMinutesPass, Applied
  <2>3. CASE Pay(t) \/ PaymentAttemptFails(t) \/ PaymentReturned(t)
    <3>1. /\ payment[t] # "none" /\ payment'[t] # "none"
          /\ \A q \in Topups \ {t} : payment'[q] = payment[q]
          /\ \A e \in sent' : e \in sent \/ e[1] = t
          /\ UNCHANGED <<order, processed, early>>
      BY <1>0, <2>3 DEF Pay, PaymentAttemptFails, PaymentReturned, DodoSends, DodoType
    <3> QED BY <3>1 DEF Applied
  <2>4. ASSUME NEW refundFee \in BOOLEAN, RefundTopup(t, refundFee) PROVE Applied'
    BY <1>0, <2>4 DEF RefundTopup, Reverse, Applied, BookType
  <2> QED BY <1>1, <2>1, <2>2, <2>3, <2>4 DEF TopupStep
<1>2. ASSUME NEW e \in Events, DeliverEvent(e) PROVE Applied'
  <2> DEFINE t == e[1]
             type == e[2]
  <2>0. /\ t \in Topups /\ e = <<t, type>>
        /\ processed' = processed \cup {e} /\ e \in sent
        /\ UNCHANGED <<payment, sent>>
    BY <1>2 DEF Events, DeliverEvent
  <2>1. /\ order[t] # "none"
        /\ \A q \in Topups \ {t} : \A k : <<q, k>> \in processed' <=> <<q, k>> \in processed
    BY <2>0 DEF Applied
  <2>2. /\ \A k \in Succeeding : k \notin Returning
        /\ "payment.failed" \notin Succeeding \cup Returning
    BY DEF Succeeding, Returning
  <2>3. CASE type \in Succeeding /\ ApplySucceeded(t)
    <3>1. /\ order'[t] \notin {"none", "pending"}
          /\ order'[t] = "paid" => order[t] \in {"pending", "paid"}
          /\ \A q \in Topups \ {t} : order'[q] = order[q]
          /\ early' = early
      BY <1>0, <2>0, <2>1, <2>3 DEF ApplySucceeded, BookType
    <3>2. \A k \in Returning : <<t, k>> \in processed' => <<t, k>> \in processed
      BY <2>0, <2>2, <2>3
    <3> QED BY <2>0, <2>1, <3>1, <3>2 DEF Applied
  <2>4. CASE type \in Returning /\ ApplyReturned(t)
    <3>1. /\ order'[t] # "none"
          /\ order'[t] = "pending" => order[t] = "pending"
          /\ order'[t] \in {"pending", "paid"} => t \in early'
          /\ \A q \in Topups \ {t} : order'[q] = order[q] /\ (q \in early' <=> q \in early)
      BY <1>0, <2>0, <2>1, <2>4 DEF ApplyReturned, Reverse, BookType
    <3>2. \A k \in Succeeding : <<t, k>> \in processed' => <<t, k>> \in processed
      BY <2>0, <2>2, <2>4
    <3> QED BY <2>0, <2>1, <3>1, <3>2 DEF Applied
  <2>5. CASE type = "payment.failed" /\ ApplyFailed(t)
    <3>1. /\ order'[t] \notin {"none", "pending"}
          /\ order'[t] = "paid" => order[t] = "paid"
          /\ \A q \in Topups \ {t} : order'[q] = order[q]
          /\ early' = early
      BY <1>0, <2>0, <2>1, <2>5 DEF ApplyFailed, BookType
    <3>2. \A k \in Succeeding \cup Returning : <<t, k>> \in processed' => <<t, k>> \in processed
      BY <2>0, <2>2, <2>5
    <3> QED BY <2>0, <2>1, <3>1, <3>2 DEF Applied
  <2> QED BY <1>2, <2>3, <2>4, <2>5 DEF DeliverEvent, Apply
<1>3. CASE ExpireOrders
  <2>1. /\ \A q \in Topups : order'[q] = order[q] \/ order'[q] = "expired"
        /\ UNCHANGED <<payment, sent, processed, early>>
    BY <1>3 DEF ExpireOrders
  <2> QED BY <2>1 DEF Applied
<1>4. CASE (\E u \in Users : UserStep(u)) \/ UNCHANGED vars
  BY <1>4 DEF UserStep, UserSpends, UserGains, vars, Applied
<1> QED BY <1>1, <1>2, <1>3, <1>4 DEF Next

(***************************************************************************)
(* An event that is recorded was applied, or could not apply: no payment   *)
(* is recorded whose order is pending, and no refund whose order is paid,  *)
(* unless the refund was processed first (plan.md:945).                    *)
(***************************************************************************)
THEOREM RecordedWasApplied == Spec => []RecordedIsApplied
<1>1. Init => Applied
  BY DEF Init, Applied
<1>2. Applied => RecordedIsApplied
  BY DEF Applied, RecordedIsApplied
<1> QED BY <1>1, <1>2, AppliedKept, TopupTypesCorrect, PTL DEF Spec
-----------------------------------------------------------------------------
(* All accounts together *)

LEMMA CashChanges ==
  ASSUME IsFiniteSet(Users), NEW u \in Users,
         \A x \in Users : cash[x] \in Int, cash'[u] \in Int,
         \A x \in Users \ {u} : cash[x] = cash'[x]
  PROVE  SumFunctionOnSet(cash', Users)
           = SumFunctionOnSet(cash, Users) + cash'[u] - cash[u]
BY SumUpdate

LEMMA LeftChanges ==
  ASSUME IsFiniteSet(Topups), NEW t \in Topups,
         \A x \in Topups : Left[x] \in Int, Left'[t] \in Int,
         \A x \in Topups \ {t} : Left[x] = Left'[x]
  PROVE  SumFunctionOnSet(Left', Topups)
           = SumFunctionOnSet(Left, Topups) + Left'[t] - Left[t]
BY SumUpdate

LEMMA LeftAt ==
  ASSUME NEW t \in Topups
  PROVE  /\ Left[t] = entered[t] - back[t]
         /\ Left'[t] = entered'[t] - back'[t]
BY DEF Left

\* What one user and the platform receive is what one top-up leaves.
LEMMA OneTopupMoves ==
  ASSUME BookType, BookType', TopupsConserveMoney, NEW u \in Users, NEW t \in Topups,
         \A x \in Users \ {u} : cash'[x] = cash[x],
         \A x \in Topups \ {t} : entered'[x] = entered[x] /\ back'[x] = back[x],
         (cash'[u] - cash[u]) + (feeRevenue' - feeRevenue) + (riskLoss' - riskLoss)
             + (elsewhere' - elsewhere)
           = (entered'[t] - entered[t]) - (back'[t] - back[t])
  PROVE  TopupsConserveMoney'
<1>1. /\ feeRevenue \in Int /\ riskLoss \in Int /\ elsewhere \in Int
      /\ feeRevenue' \in Int /\ riskLoss' \in Int /\ elsewhere' \in Int
      /\ cash[u] \in Int /\ cash'[u] \in Int
      /\ entered[t] \in Int /\ entered'[t] \in Int
      /\ back[t] \in Int /\ back'[t] \in Int
      /\ \A x \in Users : cash[x] \in Int
  BY DEF BookType
<1>2. /\ \A x \in Topups : Left[x] \in Int
      /\ Left'[t] \in Int
      /\ \A x \in Topups \ {t} : Left[x] = Left'[x]
  BY <1>1, LeftAt DEF BookType
<1>3. IsFiniteSet(Users) /\ IsFiniteSet(Topups)
  BY TopupAssumption
<1>4. SumFunctionOnSet(cash', Users)
        = SumFunctionOnSet(cash, Users) + cash'[u] - cash[u]
  BY <1>1, <1>3, CashChanges
<1>5. SumFunctionOnSet(Left', Topups)
        = SumFunctionOnSet(Left, Topups) + Left'[t] - Left[t]
  BY <1>2, <1>3, LeftChanges
<1>6. /\ SumFunctionOnSet(cash, Users) \in Int
      /\ SumFunctionOnSet(Left, Topups) \in Int
  BY <1>1, <1>2, <1>3, SumType
<1>7. /\ Left[t] = entered[t] - back[t]
      /\ Left'[t] = entered'[t] - back'[t]
  BY LeftAt
<1>8. SumFunctionOnSet(cash, Users) + feeRevenue + riskLoss + elsewhere
        = SumFunctionOnSet(Left, Topups)
  BY DEF TopupsConserveMoney
<1>9. SumFunctionOnSet(cash', Users) + feeRevenue' + riskLoss' + elsewhere'
        = SumFunctionOnSet(Left', Topups)
  <2>1. (cash'[u] - cash[u]) + (feeRevenue' - feeRevenue) + (riskLoss' - riskLoss)
            + (elsewhere' - elsewhere) = Left'[t] - Left[t]
    BY <1>1, <1>7
  <2>2. Left[t] \in Int /\ Left'[t] \in Int
    BY <1>1, <1>7
  <2> HIDE DEF Left
  <2> QED BY <1>1, <1>4, <1>5, <1>6, <1>8, <2>1, <2>2
<1> QED BY <1>9 DEF TopupsConserveMoney

\* What one user pays elsewhere.
LEMMA OneUserMoves ==
  ASSUME BookType, BookType', TopupsConserveMoney, NEW u \in Users,
         \A x \in Users \ {u} : cash'[x] = cash[x],
         (cash'[u] - cash[u]) + (elsewhere' - elsewhere) = 0,
         UNCHANGED <<feeRevenue, riskLoss, entered, back>>
  PROVE  TopupsConserveMoney'
<1>1. /\ feeRevenue \in Int /\ riskLoss \in Int /\ elsewhere \in Int
      /\ elsewhere' \in Int /\ cash[u] \in Int /\ cash'[u] \in Int
      /\ \A x \in Users : cash[x] \in Int
  BY DEF BookType
<1>2. IsFiniteSet(Users)
  BY TopupAssumption
<1>3. SumFunctionOnSet(cash', Users)
        = SumFunctionOnSet(cash, Users) + cash'[u] - cash[u]
  BY <1>1, <1>2, CashChanges
<1>4. SumFunctionOnSet(cash, Users) \in Int
  BY <1>1, <1>2, SumType
<1>5. Left' = Left
  BY DEF Left
<1> QED BY <1>1, <1>3, <1>4, <1>5 DEF TopupsConserveMoney

LEMMA MoneyStays ==
  ASSUME TypeOK, TypeOK', Books, TopupsConserveMoney, [Next]_vars
  PROVE  TopupsConserveMoney'
<1>0. /\ BookType /\ BookType' /\ OrderedAreValid
  BY DEF TypeOK, BookType, Books
<1>1. ASSUME UNCHANGED <<cash, entered, back, feeRevenue, riskLoss, elsewhere>>
      PROVE  TopupsConserveMoney'
  BY <1>1 DEF TopupsConserveMoney, Left
<1>2. ASSUME NEW t \in Topups, Ordered(t) PROVE TopupsConserveMoney'
  BY <1>1, <1>2 DEF Ordered, ledger
<1>3. ASSUME NEW t \in Topups, Credited(t) PROVE TopupsConserveMoney'
  <2>1. /\ User(t) \in Users /\ Gross(t) \in Int /\ Fee(t) \in Int
        /\ Net(t) = Gross(t) - Fee(t)
    BY TopupFacts DEF Net
  <2>2. /\ cash[User(t)] \in Int /\ entered[t] \in Int /\ back[t] \in Int
        /\ feeRevenue \in Int /\ riskLoss \in Int /\ elsewhere \in Int
    BY <1>0, <2>1 DEF BookType
  <2>3. /\ \A x \in Users \ {User(t)} : cash'[x] = cash[x]
        /\ \A x \in Topups \ {t} : entered'[x] = entered[x] /\ back'[x] = back[x]
        /\ cash'[User(t)] = cash[User(t)] + Net(t)
        /\ entered'[t] = entered[t] + Gross(t) /\ back'[t] = back[t]
        /\ feeRevenue' = feeRevenue + Fee(t)
        /\ UNCHANGED <<riskLoss, elsewhere>>
    BY <1>0, <1>3, <2>1 DEF Credited, ApplySucceeded, BookType, orders
  <2>4. (cash'[User(t)] - cash[User(t)]) + (feeRevenue' - feeRevenue)
          + (riskLoss' - riskLoss) + (elsewhere' - elsewhere)
          = (entered'[t] - entered[t]) - (back'[t] - back[t])
    BY <2>1, <2>2, <2>3
  <2> QED BY <1>0, <2>1, <2>3, <2>4, OneTopupMoves
<1>4. ASSUME NEW t \in Topups, NEW r \in {0, Fee(t)}, Reversed(t, r)
      PROVE  TopupsConserveMoney'
  <2>1. /\ User(t) \in Users /\ Net(t) \in Int /\ r \in Int
    BY TopupFacts
  <2>2. /\ cash[User(t)] \in Int /\ entered[t] \in Int /\ back[t] \in Int
        /\ feeRevenue \in Int /\ riskLoss \in Int /\ elsewhere \in Int
        /\ Recoverable(t) \in Int
    BY <1>0, <2>1 DEF BookType, Recoverable, Smaller
  <2>3. /\ \A x \in Users \ {User(t)} : cash'[x] = cash[x]
        /\ \A x \in Topups \ {t} : entered'[x] = entered[x] /\ back'[x] = back[x]
        /\ cash'[User(t)] = cash[User(t)] - Recoverable(t)
        /\ entered'[t] = entered[t] /\ back'[t] = back[t] + Net(t) + r
        /\ riskLoss' = riskLoss - (Net(t) - Recoverable(t))
        /\ feeRevenue' = feeRevenue - r
        /\ UNCHANGED elsewhere
    BY <1>0, <1>4, <2>1 DEF Reversed, Reverse, BookType
  <2>4. (cash'[User(t)] - cash[User(t)]) + (feeRevenue' - feeRevenue)
          + (riskLoss' - riskLoss) + (elsewhere' - elsewhere)
          = (entered'[t] - entered[t]) - (back'[t] - back[t])
    BY <2>1, <2>2, <2>3
  <2> QED BY <1>0, <2>1, <2>3, <2>4, OneTopupMoves
<1>5. CASE Ended
  BY <1>1, <1>5 DEF Ended, ledger
<1>6. ASSUME NEW u \in Users, UserStep(u) PROVE TopupsConserveMoney'
  <2>1. PICK a \in Amounts : UserSpends(u, a) \/ UserGains(u, a)
    BY <1>6 DEF UserStep
  <2>2. /\ a \in Int /\ cash[u] \in Int /\ elsewhere \in Int
    BY <1>0, TopupAssumption DEF BookType
  <2>3. /\ \A x \in Users \ {u} : cash'[x] = cash[x]
        /\ \/ cash'[u] = cash[u] - a /\ elsewhere' = elsewhere + a
           \/ cash'[u] = cash[u] + a /\ elsewhere' = elsewhere - a
        /\ UNCHANGED <<feeRevenue, riskLoss, entered, back>>
    BY <1>0, <2>1 DEF UserSpends, UserGains, BookType
  <2>4. (cash'[u] - cash[u]) + (elsewhere' - elsewhere) = 0
    BY <2>2, <2>3
  <2> QED BY <1>0, <2>3, <2>4, OneUserMoves
<1> QED BY <1>2, <1>3, <1>4, <1>5, <1>6, BookSteps

LEMMA NothingEnteredYet ==
  ASSUME Init
  PROVE  TopupsConserveMoney
<1>1. (\A u \in Users : cash[u] = 0) /\ (\A t \in Topups : Left[t] = 0)
  BY DEF Init, Left
<1>2. /\ SumFunctionOnSet(cash, Users) = 0 * Cardinality(Users)
      /\ SumFunctionOnSet(Left, Topups) = 0 * Cardinality(Topups)
  <2>1. IsFiniteSet(Users) /\ IsFiniteSet(Topups) /\ 0 \in Nat
    BY TopupAssumption
  <2> QED BY <1>1, <2>1, SumConstant
<1>3. Cardinality(Users) \in Nat /\ Cardinality(Topups) \in Nat
  BY TopupAssumption, FS_CardinalityType
<1> QED BY <1>2, <1>3 DEF Init, TopupsConserveMoney

(***************************************************************************)
(* For any users and top-ups, whatever Dodo delivers and however often,    *)
(* and whatever admins refund: what users and the platform hold is what    *)
(* entered and did not go back.                                            *)
(***************************************************************************)
THEOREM TopupsNeitherMakeNorLoseMoney == Spec => []TopupsConserveMoney
<1>1. Init => TopupsConserveMoney
  BY NothingEnteredYet
<1>2. TypeOK /\ TypeOK' /\ Books /\ TopupsConserveMoney /\ [Next]_vars
          => TopupsConserveMoney'
  BY MoneyStays
<1> QED BY <1>1, <1>2, TypeInvariant, PTL DEF Spec
=============================================================================
