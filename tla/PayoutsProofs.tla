--------------------------- MODULE PayoutsProofs ----------------------------
(***************************************************************************)
(* Proofs about payouts: types, the escrow of the only active payout of an *)
(* owner, that Gate.io moves the money of a payout at most once, that only *)
(* an admin who releases blindly returns money that was moved, and that no *)
(* step makes or loses money.                                              *)
(***************************************************************************)
EXTENDS Payouts, AmountProofs

LEMMA PayoutFacts ==
  ASSUME NEW p \in Payouts
  PROVE  /\ Owner(p) \in Owners
         /\ Amount(p) \in Nat /\ Fee(p) \in Nat
         /\ p # NoPayout
BY PayoutAssumption DEF Owner, Amount, Fee

LEMMA StatusesDiffer ==
  /\ "none" \notin Active /\ Active \cap Final = {}
  /\ "pending" \in Active /\ "processing" \in Active /\ "needs_review" \in Active
  /\ "paid" \in Final /\ "failed" \in Final /\ "cancelled" \in Final
BY DEF Active, Final

(***************************************************************************)
(* The entries of a payout: its amount is locked while it is active, and   *)
(* it is settled once it is paid.                                          *)
(***************************************************************************)
EscrowBacked ==
    \A p \in Payouts :
        /\ locked[p] = IF IsActive(p) THEN Amount(p) ELSE 0
        /\ settled[p] = IF status[p] = "paid" THEN Amount(p) ELSE 0
        /\ IsActive(p) => ValidPayout(p)

(***************************************************************************)
(* An order is sent at most once, because a payout that was taken up never *)
(* becomes pending again, and it is decided at most once.                  *)
(***************************************************************************)
SentOnce ==
    \A p \in Payouts :
        /\ status[p] \in {"none", "pending"} => stage[p] = "idle"
        /\ stage[p] \in {"idle", "claimed"} => moved[p] = 0 /\ ~inflight[p]
        /\ inflight[p] => moved[p] = 0
        /\ moved[p] <= 1

Escrowed == EscrowBacked /\ OneActivePayout /\ ReservedMatchesActive

-----------------------------------------------------------------------------
(* Every step of Next, grouped by what it does to the escrow *)

\* Nothing but client_payable and accounts outside changes.
PayableStep ==
    /\ payable' \in [Owners -> Nat]
    /\ outside' \in Int
    /\ earned' \in 0..MaxEarned
    /\ UNCHANGED <<status, locked, settled, reserved, platform, transfer, worker>>

\* A status changes from one active status to another, or none does.
RouteStep(p) ==
    /\ IsActive(p)
    /\ \E s \in {"processing", "needs_review"} : status' = [status EXCEPT ![p] = s]
    /\ UNCHANGED money

ReturnStep(p) ==
    /\ IsActive(p)
    /\ \E s \in {"failed", "cancelled"} : status' = [status EXCEPT ![p] = s]
    /\ GiveBack(p, Amount(p))

MoneyIdle == UNCHANGED <<status, money>>

LEMMA MoneySteps ==
  ASSUME [Next]_vars
  PROVE  \/ \E p \in Payouts : CreatePayout(p) \/ RouteStep(p) \/ MarkPaid(p) \/ ReturnStep(p)
         \/ \E o \in Owners : OwnerStep(o)
         \/ MoneyIdle
<1> USE DEF transfer, worker, platform
<1>1. ASSUME NEW p \in Payouts, PayoutStep(p)
      PROVE  CreatePayout(p) \/ RouteStep(p) \/ MarkPaid(p) \/ ReturnStep(p) \/ MoneyIdle
  <2>1. Claim(p) => RouteStep(p)
    BY DEF Claim, RouteStep, IsActive, Active
  <2>2. CASE AdminExecutes(p)
    BY <2>1, <2>2 DEF AdminExecutes
  <2>3. CASE WorkerTakes(p)
    BY <2>1, <2>3 DEF WorkerTakes, MoneyIdle
  <2>4. CASE ReviewPayout(p)
    BY <2>4 DEF ReviewPayout, RouteStep, MoneyIdle, IsActive, Active
  <2>5. CASE ExecutionStep(p)
    BY <2>4, <2>5 DEF ExecutionStep, FailsBeforeSending, SendTransfer, AnswerReceived,
                      AnswerLost, FinishTransfer, MoneyIdle
  <2>6. CASE AdminMarksPaid(p)
    BY <2>6 DEF AdminMarksPaid
  <2>7. ASSUME NEW outcome \in {"failed", "cancelled"}, ReleasePayout(p, outcome)
        PROVE  ReturnStep(p)
    BY <2>7 DEF ReleasePayout, ReturnStep
  <2>8. ASSUME NEW accepted \in BOOLEAN, TransferDecided(p, accepted) PROVE MoneyIdle
    BY <2>8 DEF TransferDecided, MoneyIdle
  <2>9. CASE ExecutorStops(p)
    BY <2>9 DEF ExecutorStops, MoneyIdle
  <2> QED BY <1>1, <2>2, <2>3, <2>5, <2>6, <2>7, <2>8, <2>9 DEF PayoutStep
<1>2. CASE WorkerScans
  BY <1>2 DEF WorkerScans, MoneyIdle
<1>3. CASE UNCHANGED vars
  BY <1>3 DEF vars, MoneyIdle
<1> QED BY <1>1, <1>2, <1>3 DEF Next

LEMMA StepKinds ==
  ASSUME TypeOK, [Next]_vars
  PROVE  \/ \E p \in Payouts : CreatePayout(p) \/ RouteStep(p) \/ MarkPaid(p) \/ ReturnStep(p)
         \/ PayableStep
         \/ MoneyIdle
<1> USE DEF transfer, worker, platform
<1>1. ASSUME NEW o \in Owners, OwnerStep(o) PROVE PayableStep
  <2>1. PICK a \in Amounts : \/ CreditPayable(o, a)
                             \/ DebitPayable(o, a)
                             \/ \E target \in Owners : TransferEarnings(o, target, a)
    BY <1>1 DEF OwnerStep
  <2>2. a \in Nat /\ MaxEarned \in Nat
    BY PayoutAssumption
  <2>3. CASE CreditPayable(o, a)
    BY <2>2, <2>3, SMT DEF CreditPayable, PayableStep, TypeOK
  <2>4. CASE DebitPayable(o, a)
    BY <2>2, <2>4, SMT DEF DebitPayable, PayableStep, TypeOK
  <2>5. ASSUME NEW target \in Owners, TransferEarnings(o, target, a) PROVE PayableStep
    BY <2>2, <2>5, SMT DEF TransferEarnings, PayableStep, TypeOK
  <2> QED BY <2>1, <2>3, <2>4, <2>5
<1> QED BY <1>1, MoneySteps

-----------------------------------------------------------------------------
(* Types *)

LEMMA CreateType ==
  ASSUME TypeOK, NEW p \in Payouts, CreatePayout(p)
  PROVE  TypeOK'
<1>1. /\ payable' \in [Owners -> Nat] /\ reserved' \in [Owners -> Nat]
      /\ locked' \in [Payouts -> Int]
  BY PayoutFacts, SMT DEF CreatePayout, TypeOK
<1>2. status' \in [Payouts -> {"none"} \cup Active \cup Final]
  BY StatusesDiffer DEF CreatePayout, TypeOK
<1> QED BY <1>1, <1>2 DEF CreatePayout, TypeOK, platform, transfer, worker

\* The money part of TypeOK.
MoneyType ==
    /\ status \in [Payouts -> {"none"} \cup Active \cup Final]
    /\ locked \in [Payouts -> Int]
    /\ settled \in [Payouts -> Nat]
    /\ payable \in [Owners -> Nat] /\ reserved \in [Owners -> Nat]
    /\ settlementPaid \in Nat /\ feeRevenue \in Nat /\ outside \in Int
    /\ earned \in 0..MaxEarned

LEMMA MoneyStepType ==
  ASSUME TypeOK, EscrowBacked, NEW p \in Payouts,
         RouteStep(p) \/ MarkPaid(p) \/ ReturnStep(p) \/ MoneyIdle
  PROVE  MoneyType'
<1>0. MoneyType /\ Amount(p) \in Nat /\ Owner(p) \in Owners
  BY PayoutFacts DEF TypeOK, MoneyType
<1>1. CASE RouteStep(p)
  BY <1>0, <1>1, StatusesDiffer DEF RouteStep, MoneyType, money, platform
<1>2. CASE MarkPaid(p)
  <2>1. Settlement(p).net \in Nat /\ Settlement(p).fee \in Nat
    BY <1>2, PayoutFacts, SMT
       DEF MarkPaid, EscrowBacked, IsActive, ValidPayout, Settlement
  <2>2. /\ locked' \in [Payouts -> Int] /\ settled' \in [Payouts -> Nat]
        /\ reserved' \in [Owners -> Nat]
    BY <1>0, <1>2, SMT DEF MarkPaid, MoneyType
  <2>3. status' \in [Payouts -> {"none"} \cup Active \cup Final]
    BY <1>0, <1>2, StatusesDiffer DEF MarkPaid, MoneyType
  <2> QED BY <1>0, <1>2, <2>1, <2>2, <2>3 DEF MarkPaid, MoneyType
<1>3. CASE ReturnStep(p)
  <2>1. /\ locked' \in [Payouts -> Int]
        /\ reserved' \in [Owners -> Nat] /\ payable' \in [Owners -> Nat]
    BY <1>0, <1>3, SMT DEF ReturnStep, GiveBack, MoneyType
  <2>2. status' \in [Payouts -> {"none"} \cup Active \cup Final]
    BY <1>0, <1>3, StatusesDiffer DEF ReturnStep, MoneyType
  <2> QED BY <1>0, <1>3, <2>1, <2>2 DEF ReturnStep, GiveBack, MoneyType, platform
<1>4. CASE MoneyIdle
  BY <1>0, <1>4 DEF MoneyIdle, MoneyType, money, platform
<1> QED BY <1>1, <1>2, <1>3, <1>4

\* The part of TypeOK about executors and the worker.
ExecutionType ==
    /\ stage \in [Payouts -> {"idle", "ended", "stopped"} \cup Executing]
    /\ inflight \in [Payouts -> BOOLEAN]
    /\ moved \in [Payouts -> Nat]
    /\ blind \subseteq Payouts
    /\ scan \subseteq Payouts
    /\ working \in Payouts \cup {NoPayout}

LEMMA ExecutionTypeKept ==
  ASSUME TypeOK, [Next]_vars
  PROVE  ExecutionType'
<1> USE DEF transfer, worker, GoTo, EndExecution, Executing
<1>0. ExecutionType
  BY DEF TypeOK, ExecutionType
<1>1. ASSUME NEW p \in Payouts, PayoutStep(p) PROVE ExecutionType'
  <2>1. CASE CreatePayout(p)
    BY <1>0, <2>1 DEF CreatePayout, ExecutionType
  <2>2. CASE AdminExecutes(p) \/ WorkerTakes(p)
    BY <1>0, <2>2 DEF AdminExecutes, WorkerTakes, Claim, ExecutionType
  <2>3. CASE ExecutionStep(p)
    BY <1>0, <2>3 DEF ExecutionStep, FailsBeforeSending, SendTransfer, AnswerReceived,
                      AnswerLost, ReviewPayout, FinishTransfer, ExecutionType
  <2>4. ASSUME NEW accepted \in BOOLEAN, TransferDecided(p, accepted)
        PROVE  ExecutionType'
    BY <1>0, <2>4, SMT DEF TransferDecided, ExecutionType
  <2>5. CASE ExecutorStops(p)
    BY <1>0, <2>5 DEF ExecutorStops, ExecutionType
  <2>6. CASE AdminMarksPaid(p)
    BY <1>0, <2>6 DEF AdminMarksPaid, ExecutionType
  <2>7. ASSUME NEW outcome \in {"failed", "cancelled"}, ReleasePayout(p, outcome)
        PROVE  ExecutionType'
    BY <1>0, <2>7 DEF ReleasePayout, ExecutionType
  <2> QED BY <1>1, <2>1, <2>2, <2>3, <2>4, <2>5, <2>6, <2>7 DEF PayoutStep
<1>2. ASSUME NEW o \in Owners, OwnerStep(o) PROVE ExecutionType'
  BY <1>0, <1>2 DEF OwnerStep, CreditPayable, DebitPayable, TransferEarnings, ExecutionType
<1>3. CASE WorkerScans
  BY <1>0, <1>3 DEF WorkerScans, Scannable, ExecutionType
<1>4. CASE UNCHANGED vars
  BY <1>0, <1>4 DEF vars, ExecutionType
<1> QED BY <1>1, <1>2, <1>3, <1>4 DEF Next

LEMMA TypeKept ==
  ASSUME TypeOK, EscrowBacked, [Next]_vars
  PROVE  TypeOK'
<1>1. ExecutionType'
  BY ExecutionTypeKept
<1>2. ASSUME NEW p \in Payouts, CreatePayout(p) PROVE TypeOK'
  BY <1>2, CreateType
<1>3. MoneyType' => TypeOK'
  BY <1>1 DEF MoneyType, ExecutionType, TypeOK
<1>4. ASSUME NEW p \in Payouts, RouteStep(p) \/ MarkPaid(p) \/ ReturnStep(p)
      PROVE  TypeOK'
  BY <1>3, <1>4, MoneyStepType
<1>5. CASE PayableStep
  BY <1>3, <1>5 DEF PayableStep, MoneyType, TypeOK, platform
<1>6. CASE MoneyIdle
  BY <1>3, <1>6 DEF MoneyIdle, money, platform, MoneyType, TypeOK
<1> QED BY <1>2, <1>4, <1>5, <1>6, StepKinds

-----------------------------------------------------------------------------
(* The escrow *)

LEMMA EscrowKept ==
  ASSUME TypeOK, Escrowed, [Next]_vars
  PROVE  Escrowed'
<1> USE DEF Escrowed, EscrowBacked, OneActivePayout, ReservedMatchesActive, IsActive, NoneActive
<1>0. /\ MoneyType
      /\ \A p \in Payouts : Amount(p) \in Nat /\ Owner(p) \in Owners
  BY PayoutFacts DEF TypeOK, MoneyType
<1>1. ASSUME NEW p \in Payouts, CreatePayout(p) PROVE Escrowed'
  <2>1. /\ status[p] = "none" /\ ValidPayout(p) /\ NoneActive(Owner(p))
        /\ status'[p] = "pending" /\ locked'[p] = Amount(p)
        /\ \A q \in Payouts \ {p} : status'[q] = status[q] /\ locked'[q] = locked[q]
        /\ UNCHANGED settled
    BY <1>0, <1>1 DEF CreatePayout, MoneyType
  <2>2. /\ reserved[Owner(p)] = 0
        /\ reserved'[Owner(p)] = Amount(p)
        /\ \A o \in Owners \ {Owner(p)} : reserved'[o] = reserved[o]
    BY <1>0, <1>1, <2>1, SMT DEF CreatePayout, MoneyType
  <2>3. EscrowBacked'
    BY <2>1, StatusesDiffer DEF ValidPayout
  <2>4. OneActivePayout'
    BY <2>1, StatusesDiffer
  <2>5. ReservedMatchesActive'
    BY <1>0, <2>1, <2>2, StatusesDiffer
  <2> QED BY <2>3, <2>4, <2>5
<1>2. ASSUME NEW p \in Payouts, RouteStep(p) PROVE Escrowed'
  <2>1. /\ status'[p] \in Active /\ status[p] \in Active
        /\ \A q \in Payouts \ {p} : status'[q] = status[q]
        /\ UNCHANGED <<locked, settled, reserved>>
    BY <1>0, <1>2, StatusesDiffer DEF RouteStep, MoneyType, money
  <2>2. status'[p] # "paid" /\ status[p] # "paid"
    BY <2>1, StatusesDiffer
  <2>3. EscrowBacked'
    BY <2>1, <2>2 DEF ValidPayout
  <2>4. OneActivePayout' /\ ReservedMatchesActive'
    BY <2>1
  <2> QED BY <2>3, <2>4
<1>3. ASSUME NEW p \in Payouts, NEW end \in Final, status[p] \in Active,
             status' = [status EXCEPT ![p] = end],
             locked' = [locked EXCEPT ![p] = @ - Amount(p)],
             reserved' = [reserved EXCEPT ![Owner(p)] = @ - Amount(p)],
             settled' = IF end = "paid" THEN [settled EXCEPT ![p] = @ + Amount(p)] ELSE settled
      PROVE  Escrowed'
  <2>1. /\ status'[p] = end /\ locked'[p] = 0
        /\ settled'[p] = IF end = "paid" THEN Amount(p) ELSE 0
        /\ \A q \in Payouts \ {p} : /\ status'[q] = status[q] /\ locked'[q] = locked[q]
                                    /\ settled'[q] = settled[q]
    <3>1. locked[p] = Amount(p) /\ settled[p] = 0
      BY <1>3, StatusesDiffer
    <3> QED BY <1>0, <1>3, <3>1, SMT DEF MoneyType
  <2>2. /\ reserved'[Owner(p)] = 0
        /\ \A o \in Owners \ {Owner(p)} : reserved'[o] = reserved[o]
    <3>1. reserved[Owner(p)] = Amount(p)
      BY <1>3
    <3> QED BY <1>0, <1>3, <3>1, SMT DEF MoneyType
  <2>3. \A q \in Payouts \ {p} : Owner(q) = Owner(p) => status'[q] \notin Active
    BY <1>3, <2>1
  <2>4. EscrowBacked'
    BY <2>1, StatusesDiffer DEF ValidPayout
  <2>5. OneActivePayout'
    BY <2>1, StatusesDiffer
  <2>6. ReservedMatchesActive'
    BY <1>0, <2>1, <2>2, <2>3, StatusesDiffer
  <2> QED BY <2>4, <2>5, <2>6
<1>4. ASSUME NEW p \in Payouts, MarkPaid(p) PROVE Escrowed'
  BY <1>3, <1>4, StatusesDiffer DEF MarkPaid
<1>5. ASSUME NEW p \in Payouts, ReturnStep(p) PROVE Escrowed'
  BY <1>3, <1>5, StatusesDiffer DEF ReturnStep, GiveBack
<1>6. CASE PayableStep \/ MoneyIdle
  BY <1>6 DEF PayableStep, MoneyIdle, money, ValidPayout
<1> QED BY <1>1, <1>2, <1>4, <1>5, <1>6, StepKinds

LEMMA EscrowInvariant == Spec => [](TypeOK /\ Escrowed)
<1>1. Init => TypeOK
  BY PayoutAssumption DEF Init, TypeOK
<1>2. Init => Escrowed
  BY DEF Init, Escrowed, EscrowBacked, OneActivePayout, ReservedMatchesActive, IsActive,
         NoneActive, Active
<1>3. TypeOK /\ Escrowed /\ [Next]_vars => (TypeOK /\ Escrowed)'
  BY EscrowKept, TypeKept DEF Escrowed
<1> QED BY <1>1, <1>2, <1>3, PTL DEF Spec

\* Types are kept; no balance ever becomes negative.
THEOREM PayoutTypesCorrect == Spec => []TypeOK
BY EscrowInvariant, PTL

(***************************************************************************)
(* For any number of owners and payouts, whatever the worker, the admins   *)
(* and crashes do: an owner has at most one active payout (plan.md:1365).  *)
(***************************************************************************)
THEOREM OneActiveAtATime == Spec => []OneActivePayout
<1>1. Escrowed => OneActivePayout
  BY DEF Escrowed
<1> QED BY <1>1, EscrowInvariant, PTL

(***************************************************************************)
(* An owner's payout_reserved balance is the amount of that payout, and    *)
(* nothing without one (plan.md:712).                                      *)
(***************************************************************************)
THEOREM ReservedIsBacked == Spec => []ReservedMatchesActive
<1>1. Escrowed => ReservedMatchesActive
  BY DEF Escrowed
<1> QED BY <1>1, EscrowInvariant, PTL

(***************************************************************************)
(* The three together: an owner's escrow stays sound.                      *)
(***************************************************************************)
THEOREM EscrowStaysSound == Spec => []PayoutInv
<1>1. TypeOK /\ Escrowed => PayoutInv
  BY DEF Escrowed, PayoutInv
<1> QED BY <1>1, EscrowInvariant, PTL

(***************************************************************************)
(* Nothing an executor brings back late, and no admin, changes a payout    *)
(* that is paid, failed or cancelled.                                      *)
(***************************************************************************)
THEOREM FinalStays == Spec => FinalPayoutStays
<1> DEFINE Stays == \A p \in Payouts : status[p] \in Final =>
                      status'[p] = status[p] /\ locked'[p] = locked[p] /\ settled'[p] = settled[p]
<1>1. ASSUME TypeOK, [Next]_vars PROVE Stays
  <2>1. MoneyType
    BY <1>1 DEF TypeOK, MoneyType
  <2>2. ASSUME NEW p \in Payouts,
               CreatePayout(p) \/ RouteStep(p) \/ MarkPaid(p) \/ ReturnStep(p)
        PROVE  /\ status[p] \notin Final
               /\ \A q \in Payouts \ {p} :
                     /\ status'[q] = status[q]
                     /\ locked'[q] = locked[q] /\ settled'[q] = settled[q]
    BY <2>1, <2>2, StatusesDiffer
       DEF CreatePayout, RouteStep, MarkPaid, ReturnStep, GiveBack, IsActive, MoneyType,
           money, Final
  <2>3. CASE PayableStep \/ MoneyIdle
    BY <2>3 DEF PayableStep, MoneyIdle, money
  <2> QED BY <1>1, <2>2, <2>3, StepKinds
<1>2. TypeOK /\ [Next]_vars => [Stays]_vars
  BY <1>1
<1> QED BY <1>2, PayoutTypesCorrect, PTL DEF Spec, FinalPayoutStays

-----------------------------------------------------------------------------
(* The transfers *)

LEMMA SentOnceKept ==
  ASSUME TypeOK, SentOnce, [Next]_vars
  PROVE  SentOnce'
<1> USE DEF SentOnce, GoTo, EndExecution, transfer
<1>0. ExecutionType /\ MoneyType
  BY DEF TypeOK, ExecutionType, MoneyType
<1>1. ASSUME NEW p \in Payouts, PayoutStep(p) PROVE SentOnce'
  <2>1. CASE CreatePayout(p)
    BY <1>0, <2>1 DEF CreatePayout, MoneyType
  <2>2. CASE AdminExecutes(p) \/ WorkerTakes(p)
    <3>1. CASE Claim(p)
      BY <1>0, <3>1 DEF Claim, MoneyType, ExecutionType
    <3>2. CASE UNCHANGED <<status, stage, inflight, moved, blind>>
      BY <3>2
    <3> QED BY <2>2, <3>1, <3>2 DEF AdminExecutes, WorkerTakes
  <2>3. CASE FailsBeforeSending(p) \/ AnswerReceived(p) \/ AnswerLost(p) \/ ExecutorStops(p)
    <3>1. /\ stage[p] \notin {"idle"} /\ stage'[p] \notin {"idle", "claimed"}
          /\ \A q \in Payouts \ {p} : stage'[q] = stage[q]
          /\ UNCHANGED <<status, inflight, moved>>
      BY <1>0, <2>3 DEF FailsBeforeSending, AnswerReceived, AnswerLost, ExecutorStops,
                        Executing, ExecutionType
    <3> QED BY <3>1
  <2>4. CASE SendTransfer(p)
    BY <1>0, <2>4 DEF SendTransfer, ExecutionType
  <2>5. CASE ReviewPayout(p)
    <3>1. /\ stage[p] = "erred" /\ stage'[p] = "ended"
          /\ \A q \in Payouts \ {p} : stage'[q] = stage[q] /\ status'[q] = status[q]
          /\ status'[p] = status[p] \/ status'[p] = "needs_review"
          /\ UNCHANGED <<inflight, moved>>
      BY <1>0, <2>5 DEF ReviewPayout, ExecutionType, MoneyType
    <3> QED BY <3>1
  <2>6. CASE FinishTransfer(p)
    <3>1. /\ stage[p] = "pushed" /\ stage'[p] = "ended"
          /\ \A q \in Payouts \ {p} : stage'[q] = stage[q] /\ status'[q] = status[q]
          /\ status'[p] = status[p] \/ status'[p] = "paid"
          /\ UNCHANGED <<inflight, moved>>
      BY <1>0, <2>6 DEF FinishTransfer, MarkPaid, ExecutionType, MoneyType
    <3> QED BY <3>1
  <2>7. ASSUME NEW accepted \in BOOLEAN, TransferDecided(p, accepted) PROVE SentOnce'
    <3>1. /\ inflight[p] /\ moved[p] = 0
          /\ ~inflight'[p] /\ moved'[p] \in {0, 1}
          /\ \A q \in Payouts \ {p} : inflight'[q] = inflight[q] /\ moved'[q] = moved[q]
          /\ UNCHANGED <<status, stage>>
      BY <1>0, <2>7, SMT DEF TransferDecided, ExecutionType
    <3> QED BY <3>1, SMT
  <2>8. CASE AdminMarksPaid(p)
    BY <1>0, <2>8 DEF AdminMarksPaid, MarkPaid, MoneyType
  <2>9. ASSUME NEW outcome \in {"failed", "cancelled"}, ReleasePayout(p, outcome)
        PROVE  SentOnce'
    BY <1>0, <2>9 DEF ReleasePayout, MoneyType
  <2> QED BY <1>1, <2>1, <2>2, <2>3, <2>4, <2>5, <2>6, <2>7, <2>8, <2>9
          DEF PayoutStep, ExecutionStep
<1>2. CASE (\E o \in Owners : OwnerStep(o)) \/ WorkerScans \/ UNCHANGED vars
  BY <1>2 DEF OwnerStep, CreditPayable, DebitPayable, TransferEarnings, WorkerScans, vars
<1> QED BY <1>1, <1>2 DEF Next

LEMMA SentOnceInvariant == Spec => []SentOnce
<1>1. Init => SentOnce
  BY DEF Init, SentOnce
<1>2. TypeOK /\ SentOnce /\ [Next]_vars => SentOnce'
  BY SentOnceKept
<1> QED BY <1>1, <1>2, PayoutTypesCorrect, PTL DEF Spec

(***************************************************************************)
(* The worker, any number of admins, lost answers and crashes never make   *)
(* Gate.io move the money of one payout twice (plan.md:1475).              *)
(***************************************************************************)
THEOREM NeverTransferredTwice == Spec => []TransferredOnce
<1>1. SentOnce => TransferredOnce
  BY DEF SentOnce, TransferredOnce
<1> QED BY <1>1, SentOnceInvariant, PTL

\* What an executor is at work on, or Gate.io may have moved, was released only blindly.
NotReleased ==
    \A p \in Payouts :
        stage[p] \in Executing \/ moved[p] > 0 \/ inflight[p]
            => status[p] \in {"processing", "needs_review", "paid"} \/ p \in blind

LEMMA NotReleasedKept ==
  ASSUME TypeOK, SentOnce, NotReleased, [Next]_vars
  PROVE  NotReleased'
<1> USE DEF NotReleased, GoTo, EndExecution, transfer
<1>0. ExecutionType /\ MoneyType
  BY DEF TypeOK, ExecutionType, MoneyType
<1>1. ASSUME NEW p \in Payouts, PayoutStep(p) PROVE NotReleased'
  <2>1. CASE CreatePayout(p)
    <3>1. status[p] = "none" /\ stage[p] = "idle" /\ moved[p] = 0 /\ ~inflight[p]
      BY <2>1 DEF CreatePayout, SentOnce
    <3> QED BY <1>0, <2>1, <3>1 DEF CreatePayout, MoneyType, Executing
  <2>2. CASE AdminExecutes(p) \/ WorkerTakes(p)
    <3>1. CASE Claim(p)
      BY <1>0, <3>1 DEF Claim, MoneyType, ExecutionType
    <3>2. CASE UNCHANGED <<status, stage, inflight, moved, blind>>
      BY <3>2
    <3> QED BY <2>2, <3>1, <3>2 DEF AdminExecutes, WorkerTakes
  <2>3. CASE FailsBeforeSending(p) \/ SendTransfer(p) \/ AnswerReceived(p) \/ AnswerLost(p)
             \/ ExecutorStops(p)
    <3>1. /\ stage[p] \in Executing
          /\ \A q \in Payouts \ {p} : stage'[q] = stage[q] /\ inflight'[q] = inflight[q]
          /\ UNCHANGED <<status, moved, blind>>
      BY <1>0, <2>3 DEF FailsBeforeSending, SendTransfer, AnswerReceived, AnswerLost,
                        ExecutorStops, Executing, ExecutionType
    <3> QED BY <3>1
  <2>4. CASE ReviewPayout(p) \/ FinishTransfer(p)
    <3>1. /\ stage[p] \in Executing
          /\ \A q \in Payouts \ {p} : stage'[q] = stage[q] /\ status'[q] = status[q]
          /\ status'[p] = status[p] \/ status'[p] \in {"needs_review", "paid"}
          /\ UNCHANGED <<inflight, moved, blind>>
      BY <1>0, <2>4 DEF ReviewPayout, FinishTransfer, MarkPaid, Executing, ExecutionType,
                        MoneyType
    <3> QED BY <3>1
  <2>5. ASSUME NEW accepted \in BOOLEAN, TransferDecided(p, accepted) PROVE NotReleased'
    <3>1. /\ inflight[p]
          /\ \A q \in Payouts \ {p} : inflight'[q] = inflight[q] /\ moved'[q] = moved[q]
          /\ UNCHANGED <<status, stage, blind>>
      BY <1>0, <2>5 DEF TransferDecided, ExecutionType
    <3> QED BY <3>1
  <2>6. CASE AdminMarksPaid(p)
    BY <1>0, <2>6 DEF AdminMarksPaid, MarkPaid, MoneyType
  <2>7. ASSUME NEW outcome \in {"failed", "cancelled"}, ReleasePayout(p, outcome)
        PROVE  NotReleased'
    <3>1. /\ \A q \in Payouts \ {p} : status'[q] = status[q]
          /\ p \in blind' \/ NothingTransferred(p)
          /\ UNCHANGED <<stage, inflight, moved>>
      BY <1>0, <2>7 DEF ReleasePayout, MoneyType
    <3>2. NothingTransferred(p) => stage[p] \notin Executing /\ ~inflight[p] /\ ~(moved[p] > 0)
      BY <1>0 DEF NothingTransferred, ExecutionType
    <3>3. blind \subseteq blind'
      BY <2>7 DEF ReleasePayout
    <3> QED BY <3>1, <3>2, <3>3
  <2> QED BY <1>1, <2>1, <2>2, <2>3, <2>4, <2>5, <2>6, <2>7 DEF PayoutStep, ExecutionStep
<1>2. CASE (\E o \in Owners : OwnerStep(o)) \/ WorkerScans \/ UNCHANGED vars
  BY <1>2 DEF OwnerStep, CreditPayable, DebitPayable, TransferEarnings, WorkerScans, vars
<1> QED BY <1>1, <1>2 DEF Next

(***************************************************************************)
(* No executor, lost answer or crash makes the market give back money that *)
(* Gate.io has moved or may still move: only an admin does who releases a  *)
(* payout without knowing (plan.md:1460).                                  *)
(***************************************************************************)
THEOREM TransferredStaysTaken == Spec => []TransferredIsNotReturned
<1>1. Init => NotReleased
  BY DEF Init, NotReleased, Executing
<1>2. TypeOK /\ SentOnce /\ NotReleased /\ [Next]_vars => NotReleased'
  BY NotReleasedKept
<1>3. NotReleased => TransferredIsNotReturned
  BY DEF NotReleased, TransferredIsNotReturned
<1> QED BY <1>1, <1>2, <1>3, PayoutTypesCorrect, SentOnceInvariant, PTL DEF Spec

-----------------------------------------------------------------------------
(* Refinement *)

(***************************************************************************)
(* Payouts implements Reservations: each payout's amount is locked once    *)
(* and ends once, paid out or given back, and nothing else moves it.       *)
(***************************************************************************)
THEOREM ImplementationOfEscrow == Spec => ImplementsEscrow
<1> DEFINE mapped == [p \in Payouts |-> EscrowState(p)]
<1>1. Init => Escrow!Init
  BY DEF Init, Escrow!Init, EscrowState, IsActive, Active
<1>2. ASSUME TypeOK, Escrowed, [Next]_vars PROVE [Escrow!Next]_(Escrow!vars)
  <2>0. /\ MoneyType
        /\ \A p \in Payouts : Amount(p) \in Nat
        /\ \A p \in Payouts : IsActive(p) => locked[p] = Amount(p) /\ settled[p] = 0
    BY <1>2, PayoutFacts, StatusesDiffer
       DEF TypeOK, MoneyType, Escrowed, EscrowBacked, IsActive
  <2>1. ASSUME NEW p \in Payouts, CreatePayout(p) PROVE Escrow!Lock(p)
    <3>1. mapped[p] = "none" /\ mapped' = [mapped EXCEPT ![p] = "locked"]
      BY <2>0, <2>1, StatusesDiffer
         DEF CreatePayout, EscrowState, IsActive, MoneyType, Active
    <3>2. locked' = [locked EXCEPT ![p] = [q \in Payouts |-> Amount(q)][p]]
      BY <2>1 DEF CreatePayout
    <3> QED BY <2>1, <3>1, <3>2 DEF CreatePayout, Escrow!Lock
  <2>2. ASSUME NEW p \in Payouts, RouteStep(p) PROVE UNCHANGED Escrow!vars
    <3>1. UNCHANGED mapped
      BY <2>0, <2>2, StatusesDiffer DEF RouteStep, EscrowState, IsActive, MoneyType, Active
    <3> QED BY <2>2, <3>1 DEF RouteStep, money, Escrow!vars
  <2>3. ASSUME NEW p \in Payouts, MarkPaid(p) PROVE Escrow!CollectFor(p, Amount(p))
    <3>1. mapped[p] = "locked" /\ mapped' = [mapped EXCEPT ![p] = "collected"]
      BY <2>0, <2>3, StatusesDiffer DEF MarkPaid, EscrowState, IsActive, MoneyType, Active
    <3>2. locked[p] = Amount(p) /\ settled[p] = 0
      BY <2>0, <2>3 DEF MarkPaid, IsActive
    <3>3. locked[p] - Amount(p) = 0 /\ settled[p] + Amount(p) = Amount(p)
      BY <2>0, <3>2
    <3>4. /\ locked' = [locked EXCEPT ![p] = 0]
          /\ settled' = [settled EXCEPT ![p] = Amount(p)]
      BY <2>3, <3>3 DEF MarkPaid
    <3> QED BY <3>1, <3>4 DEF Escrow!CollectFor
  <2>4. ASSUME NEW p \in Payouts, ReturnStep(p) PROVE Escrow!Return(p)
    <3>1. mapped[p] = "locked" /\ mapped' = [mapped EXCEPT ![p] = "returned"]
      BY <2>0, <2>4, StatusesDiffer DEF ReturnStep, EscrowState, IsActive, MoneyType, Active
    <3>2. locked[p] - Amount(p) = 0
      BY <2>0, <2>4 DEF ReturnStep
    <3>3. locked' = [locked EXCEPT ![p] = 0] /\ UNCHANGED settled
      BY <2>4, <3>2 DEF ReturnStep, GiveBack
    <3> QED BY <3>1, <3>3 DEF Escrow!Return
  <2>5. CASE PayableStep \/ MoneyIdle
    <3>1. UNCHANGED <<status, locked, settled>>
      BY <2>5 DEF PayableStep, MoneyIdle, money
    <3>2. UNCHANGED mapped
      BY <3>1 DEF EscrowState, IsActive
    <3> QED BY <3>1, <3>2 DEF Escrow!vars
  <2>6. \A p \in Payouts : Amount(p) \in {Amount(q) : q \in Payouts}
    OBVIOUS
  <2> QED BY <1>2, <2>1, <2>2, <2>3, <2>4, <2>5, <2>6, StepKinds DEF Escrow!Next
<1> QED BY <1>1, <1>2, EscrowInvariant, PTL DEF Spec, ImplementsEscrow, Escrow!Spec
-----------------------------------------------------------------------------
(* All accounts together *)

LEMMA BalanceAt ==
  ASSUME NEW o \in Owners
  PROVE  /\ Balance[o] = payable[o] + reserved[o]
         /\ Balance'[o] = payable'[o] + reserved'[o]
BY DEF Balance

\* What one owner's balances lose, the accounts outside receive.
LEMMA OneBalanceMoves ==
  ASSUME TypeOK, TypeOK', PayoutsConserveMoney, NEW o \in Owners,
         \A x \in Owners \ {o} : payable'[x] = payable[x] /\ reserved'[x] = reserved[x],
         payable'[o] + reserved'[o] + settlementPaid' + feeRevenue' + outside'
           = payable[o] + reserved[o] + settlementPaid + feeRevenue + outside
  PROVE  PayoutsConserveMoney'
<1>1. /\ settlementPaid \in Int /\ feeRevenue \in Int /\ outside \in Int
      /\ settlementPaid' \in Int /\ feeRevenue' \in Int /\ outside' \in Int
      /\ payable[o] \in Int /\ reserved[o] \in Int
      /\ payable'[o] \in Int /\ reserved'[o] \in Int
  BY DEF TypeOK
<1>2. /\ \A x \in Owners : Balance[x] \in Int
      /\ Balance'[o] \in Int
      /\ \A x \in Owners \ {o} : Balance[x] = Balance'[x]
  BY <1>1, BalanceAt DEF TypeOK
<1>3. IsFiniteSet(Owners)
  BY PayoutAssumption
<1>4. SumFunctionOnSet(Balance', Owners)
        = SumFunctionOnSet(Balance, Owners) + Balance'[o] - Balance[o]
  BY <1>2, <1>3, SumUpdate
<1>5. SumFunctionOnSet(Balance, Owners) \in Int
  BY <1>2, <1>3, SumType
<1> QED BY <1>1, <1>4, <1>5, BalanceAt DEF PayoutsConserveMoney

LEMMA EarningsMove ==
  ASSUME IsFiniteSet(Owners), NEW o \in Owners, NEW target \in Owners, o # target,
         \A z \in Owners : Balance[z] \in Int, Balance'[o] \in Int, Balance'[target] \in Int,
         Balance'[o] + Balance'[target] = Balance[o] + Balance[target],
         \A z \in Owners \ {o, target} : Balance'[z] = Balance[z]
  PROVE  SumFunctionOnSet(Balance', Owners) = SumFunctionOnSet(Balance, Owners)
<1>1. PICK f, g : f = Balance /\ g = Balance'
  OBVIOUS
<1>2. SumFunctionOnSet(g, Owners) = SumFunctionOnSet(f, Owners)
  <2>1. /\ \A z \in Owners : f[z] \in Int
        /\ g[o] \in Int /\ g[target] \in Int
        /\ g[o] + g[target] = f[o] + f[target]
        /\ \A z \in Owners \ {o, target} : g[z] = f[z]
    BY <1>1
  <2> QED BY <2>1, SumMoved
<1> QED BY <1>1, <1>2

LEMMA MoneyStays ==
  ASSUME TypeOK, TypeOK', PayoutsConserveMoney, [Next]_vars
  PROVE  PayoutsConserveMoney'
<1> USE DEF platform
<1>0. /\ payable \in [Owners -> Nat] /\ reserved \in [Owners -> Nat]
      /\ settlementPaid \in Nat /\ feeRevenue \in Nat /\ outside \in Int
      /\ \A p \in Payouts : Owner(p) \in Owners /\ Amount(p) \in Nat /\ Fee(p) \in Nat
  BY PayoutFacts DEF TypeOK
<1>1. CASE UNCHANGED <<payable, reserved, platform, outside>>
  BY <1>1 DEF PayoutsConserveMoney, Balance
<1>2. ASSUME NEW p \in Payouts, CreatePayout(p) PROVE PayoutsConserveMoney'
  <2>1. /\ \A x \in Owners \ {Owner(p)} : payable'[x] = payable[x] /\ reserved'[x] = reserved[x]
        /\ payable'[Owner(p)] = payable[Owner(p)] - Amount(p)
        /\ reserved'[Owner(p)] = reserved[Owner(p)] + Amount(p)
        /\ UNCHANGED <<settlementPaid, feeRevenue, outside>>
    BY <1>0, <1>2 DEF CreatePayout
  <2> QED BY <1>0, <2>1, OneBalanceMoves
<1>3. ASSUME NEW p \in Payouts, MarkPaid(p) PROVE PayoutsConserveMoney'
  <2>1. /\ \A x \in Owners \ {Owner(p)} : payable'[x] = payable[x] /\ reserved'[x] = reserved[x]
        /\ payable'[Owner(p)] = payable[Owner(p)]
        /\ reserved'[Owner(p)] = reserved[Owner(p)] - Amount(p)
        /\ settlementPaid' = settlementPaid + (Amount(p) - Fee(p))
        /\ feeRevenue' = feeRevenue + Fee(p)
        /\ UNCHANGED outside
    BY <1>0, <1>3 DEF MarkPaid, Settlement
  <2> QED BY <1>0, <2>1, OneBalanceMoves
<1>4. ASSUME NEW p \in Payouts, GiveBack(p, Amount(p)) PROVE PayoutsConserveMoney'
  <2>1. /\ \A x \in Owners \ {Owner(p)} : payable'[x] = payable[x] /\ reserved'[x] = reserved[x]
        /\ payable'[Owner(p)] = payable[Owner(p)] + Amount(p)
        /\ reserved'[Owner(p)] = reserved[Owner(p)] - Amount(p)
        /\ UNCHANGED <<settlementPaid, feeRevenue, outside>>
    BY <1>0, <1>4 DEF GiveBack
  <2> QED BY <1>0, <2>1, OneBalanceMoves
<1>5. ASSUME NEW o \in Owners, NEW a \in Nat, CreditPayable(o, a) \/ DebitPayable(o, a)
      PROVE  PayoutsConserveMoney'
  <2>1. /\ \A x \in Owners \ {o} : payable'[x] = payable[x] /\ reserved'[x] = reserved[x]
        /\ reserved'[o] = reserved[o]
        /\ \/ payable'[o] = payable[o] + a /\ outside' = outside - a
           \/ payable'[o] = payable[o] - a /\ outside' = outside + a
        /\ UNCHANGED <<settlementPaid, feeRevenue>>
    BY <1>0, <1>5 DEF CreditPayable, DebitPayable
  <2>2. payable[o] \in Int /\ reserved[o] \in Int
    BY <1>0
  <2>3. payable'[o] + reserved'[o] + settlementPaid' + feeRevenue' + outside'
          = payable[o] + reserved[o] + settlementPaid + feeRevenue + outside
    BY <1>0, <2>1, <2>2
  <2> QED BY <2>1, <2>3, OneBalanceMoves
<1>6. ASSUME NEW o \in Owners, NEW target \in Owners, NEW a \in Nat,
             TransferEarnings(o, target, a)
      PROVE  PayoutsConserveMoney'
  <2>1. /\ target # o
        /\ payable'[o] = payable[o] - a /\ payable'[target] = payable[target] + a
        /\ \A x \in Owners \ {o, target} : payable'[x] = payable[x]
        /\ UNCHANGED <<reserved, settlementPaid, feeRevenue, outside>>
    BY <1>0, <1>6 DEF TransferEarnings
  <2>2. /\ Balance'[o] + Balance'[target] = Balance[o] + Balance[target]
        /\ Balance'[o] \in Int /\ Balance'[target] \in Int
        /\ \A x \in Owners \ {o, target} : Balance'[x] = Balance[x]
        /\ \A x \in Owners : Balance[x] \in Int
    BY <1>0, <2>1, BalanceAt
  <2>3. IsFiniteSet(Owners)
    BY PayoutAssumption
  <2>4. SumFunctionOnSet(Balance', Owners) = SumFunctionOnSet(Balance, Owners)
    BY <2>1, <2>2, <2>3, EarningsMove
  <2> QED BY <2>1, <2>4 DEF PayoutsConserveMoney
<1>7. ASSUME NEW o \in Owners, OwnerStep(o) PROVE PayoutsConserveMoney'
  <2>1. PICK a \in Amounts : \/ CreditPayable(o, a)
                             \/ DebitPayable(o, a)
                             \/ \E target \in Owners : TransferEarnings(o, target, a)
    BY <1>7 DEF OwnerStep
  <2>2. a \in Nat
    BY PayoutAssumption
  <2> QED BY <1>5, <1>6, <2>1, <2>2
<1>8. ASSUME NEW p \in Payouts, RouteStep(p) \/ MarkPaid(p) \/ ReturnStep(p) \/ CreatePayout(p)
      PROVE  PayoutsConserveMoney'
  BY <1>1, <1>2, <1>3, <1>4, <1>8 DEF RouteStep, ReturnStep, money
<1>9. CASE MoneyIdle
  BY <1>1, <1>9 DEF MoneyIdle, money
<1> QED BY <1>7, <1>8, <1>9, MoneySteps

LEMMA NoMoneyYet ==
  ASSUME Init
  PROVE  PayoutsConserveMoney
<1>1. \A o \in Owners : Balance[o] = 0
  BY DEF Init, Balance
<1>2. SumFunctionOnSet(Balance, Owners) = 0 * Cardinality(Owners)
  <2>1. IsFiniteSet(Owners) /\ 0 \in Nat
    BY PayoutAssumption
  <2> HIDE DEF Balance
  <2> QED BY <1>1, <2>1, SumConstant
<1>3. Cardinality(Owners) \in Nat
  BY PayoutAssumption, FS_CardinalityType
<1> QED BY <1>2, <1>3 DEF Init, PayoutsConserveMoney

(***************************************************************************)
(* For any owners and payouts, whatever the worker, admins, crashes and    *)
(* Gate.io do: what owners hold, what was paid out and what the platform   *)
(* took as fees add up to what came in.                                    *)
(***************************************************************************)
THEOREM PayoutsNeitherMakeNorLoseMoney == Spec => []PayoutsConserveMoney
<1>1. Init => PayoutsConserveMoney
  BY NoMoneyYet
<1>2. TypeOK /\ TypeOK' /\ PayoutsConserveMoney /\ [Next]_vars => PayoutsConserveMoney'
  BY MoneyStays
<1> QED BY <1>1, <1>2, EscrowInvariant, PTL DEF Spec
=============================================================================
