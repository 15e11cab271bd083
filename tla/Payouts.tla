------------------------------ MODULE Payouts -------------------------------
(***************************************************************************)
(* How a provider's earnings leave the market: payout requests, their      *)
(* escrow in payout_reserved, the Gate.io transfer made by the worker or   *)
(* by an admin, and the admin's decisions (src/src/provider.rs,            *)
(* src/src/admin.rs, src/src/gateio.rs).                                   *)
(*                                                                         *)
(* The call to Gate.io is made outside any transaction, carries no         *)
(* reference by which a repetition could be told, and has no time limit;   *)
(* it may move the money after the caller has given up on its answer.      *)
(*                                                                         *)
(* What an admin transfers by hand before marking a payout as paid is not  *)
(* part of the model: the code only records the claim.                     *)
(***************************************************************************)
EXTENDS Integers, FiniteSets, FiniteSetsExt

CONSTANTS
    Owners,         \* providers, by owner email
    Payouts,        \* the payout requests that may be made
    NoPayout,
    Req,            \* what each of them asks for, see PayoutAssumption
    MinPayout,      \* GATEIO_MIN_PAYOUT_USD, MANUAL_MIN_PAYOUT_USD
    Amounts,        \* amounts of the other movements of client_payable
    MaxEarned,      \* bound on what all providers earn
    ScanLimit       \* LIMIT of the worker's scan

Methods == {"gateio", "manual"}

ASSUME PayoutAssumption ==
    /\ Req \in [Payouts -> [owner: Owners, method: Methods, amount: Nat, fee: Nat]]
    /\ MinPayout \in [Methods -> Nat \ {0}]
    /\ Amounts \subseteq Nat \ {0}
    /\ MaxEarned \in Nat /\ ScanLimit \in Nat \ {0}
    /\ NoPayout \notin Payouts
    /\ IsFiniteSet(Owners)

VARIABLES
    status,    \* payout_requests: status, "none" before the row exists
    locked,    \* ledger entries of the payout: net into payout_reserved
    settled,   \* ledger entries of the payout: to settlement_paid, fee_revenue
    payable,   \* client_payable balances
    reserved,  \* payout_reserved balances
    settlementPaid, feeRevenue, \* balances of the two platform accounts
    outside,   \* sum of the balances of all other accounts
    earned,    \* all that was ever credited (history, bounded)
    stage,     \* where the execution of a payout's transfer is
    inflight,  \* a transfer order that Gate.io has not decided on yet
    moved,     \* how often Gate.io has moved the money of a payout
    blind,     \* payouts an admin released with their transfer undecided (history)
    scan,      \* the ids the worker has read and not yet taken up
    working    \* the payout the worker executes

platform  == <<settlementPaid, feeRevenue>>
money     == <<locked, settled, payable, reserved, platform, outside, earned>>
transfer  == <<stage, inflight, moved, blind>>
worker    == <<scan, working>>
vars      == <<status, money, transfer, worker>>

Active    == {"pending", "processing", "needs_review"}
Final     == {"paid", "failed", "cancelled"}
Executing == {"claimed", "sent", "pushed", "erred"}

Init ==
    /\ status = [p \in Payouts |-> "none"]
    /\ locked = [p \in Payouts |-> 0]
    /\ settled = [p \in Payouts |-> 0]
    /\ payable = [o \in Owners |-> 0]
    /\ reserved = [o \in Owners |-> 0]
    /\ settlementPaid = 0 /\ feeRevenue = 0 /\ outside = 0
    /\ earned = 0
    /\ stage = [p \in Payouts |-> "idle"]
    /\ inflight = [p \in Payouts |-> FALSE]
    /\ moved = [p \in Payouts |-> 0]
    /\ blind = {}
    /\ scan = {}
    /\ working = NoPayout

Owner(p)    == Req[p].owner
Amount(p)   == Req[p].amount
Fee(p)      == Req[p].fee
IsActive(p) == status[p] \in Active

-----------------------------------------------------------------------------
(* Movements of client_payable that are no payouts *)

\* A settled request, a share of commission, or an adjustment in favour.
CreditPayable(o, a) ==
    /\ earned + a <= MaxEarned
    /\ earned' = earned + a
    /\ payable' = [payable EXCEPT ![o] = @ + a]
    /\ outside' = outside - a
    /\ UNCHANGED <<status, locked, settled, reserved, platform, transfer, worker>>

\* convert_to_balance, or an adjustment against.
DebitPayable(o, a) ==
    /\ payable[o] >= a
    /\ payable' = [payable EXCEPT ![o] = @ - a]
    /\ outside' = outside + a
    /\ UNCHANGED <<status, locked, settled, reserved, platform, earned, transfer, worker>>

TransferEarnings(o, target, a) ==
    /\ target # o
    /\ payable[o] >= a
    /\ payable' = [payable EXCEPT ![o] = @ - a, ![target] = @ + a]
    /\ UNCHANGED <<status, locked, settled, reserved, platform, outside, earned, transfer, worker>>

-----------------------------------------------------------------------------
(* Creation: insert_payout_locked, in one transaction *)

ValidPayout(p) ==
    /\ Amount(p) >= MinPayout[Req[p].method]
    /\ Amount(p) > Fee(p)

\* Seeded fault: a payout that is under way or in review does not count.
NoneActive_OnlyPending(o) ==
    \A q \in Payouts : Owner(q) = o => status[q] # "pending"

NoneActive(o) == \A q \in Payouts : Owner(q) = o => ~IsActive(q)

CreatePayout(p) ==
    /\ status[p] = "none"
    /\ ValidPayout(p)
    /\ NoneActive(Owner(p))
    /\ payable[Owner(p)] >= Amount(p)
    /\ status' = [status EXCEPT ![p] = "pending"]
    /\ payable' = [payable EXCEPT ![Owner(p)] = @ - Amount(p)]
    /\ reserved' = [reserved EXCEPT ![Owner(p)] = @ + Amount(p)]
    /\ locked' = [locked EXCEPT ![p] = Amount(p)]
    /\ UNCHANGED <<settled, platform, outside, earned, transfer, worker>>

-----------------------------------------------------------------------------
(* Execution: execute_gateio_by_id, for the worker or an admin *)

\* Seeded fault: a payout in review is executed again.
Claim_ReviewedToo(p) ==
    /\ status[p] \in {"pending", "needs_review"}
    /\ status' = [status EXCEPT ![p] = "processing"]
    /\ stage' = [stage EXCEPT ![p] = "claimed"]
    /\ UNCHANGED <<money, inflight, moved, blind>>

\* UPDATE ... WHERE status = 'pending' RETURNING: only one executor gets the row.
Claim(p) ==
    /\ status[p] = "pending"
    /\ status' = [status EXCEPT ![p] = "processing"]
    /\ stage' = [stage EXCEPT ![p] = "claimed"]
    /\ UNCHANGED <<money, inflight, moved, blind>>

\* Whatever the method: a manual payout has no uid and fails before sending.
AdminExecutes(p) ==
    /\ Claim(p)
    /\ UNCHANGED worker

Scannable == {p \in Payouts : status[p] = "pending" /\ Req[p].method = "gateio"}

WorkerScans ==
    /\ working = NoPayout /\ scan = {}
    /\ Scannable # {}
    /\ \E found \in SUBSET Scannable :
          /\ found # {}
          /\ Cardinality(found) <= ScanLimit
          /\ found = Scannable \/ Cardinality(found) = ScanLimit
          /\ scan' = found
    /\ UNCHANGED <<status, money, transfer, working>>

\* The row may have left 'pending' since the scan.
WorkerTakes(p) ==
    /\ working = NoPayout
    /\ p \in scan
    /\ scan' = scan \ {p}
    /\ \/ Claim(p) /\ working' = p
       \/ status[p] # "pending" /\ UNCHANGED <<status, money, transfer, working>>

GoTo(p, next) == stage' = [stage EXCEPT ![p] = next]

EndExecution(p, how) ==
    /\ GoTo(p, how)
    /\ working' = IF working = p THEN NoPayout ELSE working

\* Not configured, no valid uid, or the request could not be stored.
FailsBeforeSending(p) ==
    /\ stage[p] = "claimed"
    /\ GoTo(p, "erred")
    /\ UNCHANGED <<status, money, inflight, moved, blind, worker>>

SendTransfer(p) ==
    /\ stage[p] = "claimed"
    /\ Req[p].method = "gateio"
    /\ GoTo(p, "sent")
    /\ inflight' = [inflight EXCEPT ![p] = TRUE]
    /\ UNCHANGED <<status, money, moved, blind, worker>>

\* Gate.io decides, however late.
TransferDecided(p, accepted) ==
    /\ inflight[p]
    /\ inflight' = [inflight EXCEPT ![p] = FALSE]
    /\ moved' = [moved EXCEPT ![p] = IF accepted THEN @ + 1 ELSE @]
    /\ UNCHANGED <<status, money, stage, blind, worker>>

\* A 2xx answer, and it could be stored.
AnswerReceived(p) ==
    /\ stage[p] = "sent"
    /\ ~inflight[p] /\ moved[p] > 0
    /\ GoTo(p, "pushed")
    /\ UNCHANGED <<status, money, inflight, moved, blind, worker>>

\* Another answer, none at all, or it could not be stored.
AnswerLost(p) ==
    /\ stage[p] = "sent"
    /\ GoTo(p, "erred")
    /\ UNCHANGED <<status, money, inflight, moved, blind, worker>>

\* payout_reserved -> client_payable, what is given back.
GiveBack(p, a) ==
    /\ reserved[Owner(p)] >= a
    /\ reserved' = [reserved EXCEPT ![Owner(p)] = @ - a]
    /\ payable' = [payable EXCEPT ![Owner(p)] = @ + a]
    /\ locked' = [locked EXCEPT ![p] = @ - a]
    /\ UNCHANGED <<settled, platform, outside, earned>>

\* Seeded fault: an error counts as a transfer that failed.
ReviewPayout_Releases(p) ==
    /\ stage[p] = "erred"
    /\ status[p] = "processing"
    /\ GiveBack(p, Amount(p))
    /\ status' = [status EXCEPT ![p] = "failed"]
    /\ EndExecution(p, "ended")
    /\ UNCHANGED <<inflight, moved, blind, scan>>

\* Seeded fault: the error is only logged.
ReviewPayout_StatusKept(p) ==
    /\ stage[p] = "erred"
    /\ EndExecution(p, "ended")
    /\ UNCHANGED <<status, money, inflight, moved, blind, scan>>

\* UPDATE ... needs_review WHERE status = 'processing'.
ReviewPayout(p) ==
    /\ stage[p] = "erred"
    /\ status' = IF status[p] = "processing"
                 THEN [status EXCEPT ![p] = "needs_review"] ELSE status
    /\ EndExecution(p, "ended")
    /\ UNCHANGED <<money, inflight, moved, blind, scan>>

\* Seeded fault: the fee is paid on top of the gross amount.
Settlement_FeeTwice(p) == [net |-> Amount(p), fee |-> Fee(p)]

Settlement(p) == [net |-> Amount(p) - Fee(p), fee |-> Fee(p)]

\* Seeded fault: any payout can be marked.
MarkPaid_AnyStatus(p) ==
    /\ reserved[Owner(p)] >= Amount(p)
    /\ status' = [status EXCEPT ![p] = "paid"]
    /\ reserved' = [reserved EXCEPT ![Owner(p)] = @ - Amount(p)]
    /\ locked' = [locked EXCEPT ![p] = @ - Amount(p)]
    /\ settled' = [settled EXCEPT ![p] = @ + Amount(p)]
    /\ settlementPaid' = settlementPaid + Settlement(p).net
    /\ feeRevenue' = feeRevenue + Settlement(p).fee
    /\ UNCHANGED <<payable, outside, earned>>

\* mark_paid_internal.
MarkPaid(p) ==
    /\ status[p] \in Active
    /\ reserved[Owner(p)] >= Amount(p)
    /\ status' = [status EXCEPT ![p] = "paid"]
    /\ reserved' = [reserved EXCEPT ![Owner(p)] = @ - Amount(p)]
    /\ locked' = [locked EXCEPT ![p] = @ - Amount(p)]
    /\ settled' = [settled EXCEPT ![p] = @ + Amount(p)]
    /\ settlementPaid' = settlementPaid + Settlement(p).net
    /\ feeRevenue' = feeRevenue + Settlement(p).fee
    /\ UNCHANGED <<payable, outside, earned>>

\* The answer is recorded and the payout marked, unless an admin has ended it.
FinishTransfer(p) ==
    /\ stage[p] = "pushed"
    /\ \/ MarkPaid(p)
       \/ ~IsActive(p) /\ UNCHANGED <<status, money>>
    /\ EndExecution(p, "ended")
    /\ UNCHANGED <<inflight, moved, blind, scan>>

\* The process stops, the admin's connection breaks, or a statement fails.
ExecutorStops(p) ==
    /\ stage[p] \in Executing
    /\ EndExecution(p, "stopped")
    /\ UNCHANGED <<status, money, inflight, moved, blind, scan>>

-----------------------------------------------------------------------------
(* Decisions of an admin *)

\* mark_payout_paid, and complete_manual_payout by way of a ticket.
AdminMarksPaid(p) ==
    /\ MarkPaid(p)
    /\ UNCHANGED <<transfer, worker>>

\* What an admin could know from the task's end and from Gate.io.
NothingTransferred(p) ==
    stage[p] \notin Executing /\ ~inflight[p] /\ moved[p] = 0

\* Seeded fault: what is given back is net of the fee.
ReleasePayout_NetOnly(p, outcome) ==
    /\ IsActive(p)
    /\ GiveBack(p, Amount(p) - Fee(p))
    /\ status' = [status EXCEPT ![p] = outcome]
    /\ blind' = IF NothingTransferred(p) THEN blind ELSE blind \cup {p}
    /\ UNCHANGED <<stage, inflight, moved, worker>>

\* mark_payout_failed, cancel_payout: release_payout, which asks nobody.
ReleasePayout(p, outcome) ==
    /\ IsActive(p)
    /\ GiveBack(p, Amount(p))
    /\ status' = [status EXCEPT ![p] = outcome]
    /\ blind' = IF NothingTransferred(p) THEN blind ELSE blind \cup {p}
    /\ UNCHANGED <<stage, inflight, moved, worker>>

-----------------------------------------------------------------------------
ExecutionStep(p) ==
    \/ FailsBeforeSending(p)
    \/ SendTransfer(p)
    \/ AnswerReceived(p)
    \/ AnswerLost(p)
    \/ ReviewPayout(p)
    \/ FinishTransfer(p)

PayoutStep(p) ==
    \/ CreatePayout(p)
    \/ AdminExecutes(p)
    \/ WorkerTakes(p)
    \/ ExecutionStep(p)
    \/ \E accepted \in BOOLEAN : TransferDecided(p, accepted)
    \/ ExecutorStops(p)
    \/ AdminMarksPaid(p)
    \/ \E outcome \in {"failed", "cancelled"} : ReleasePayout(p, outcome)

OwnerStep(o) ==
    \E a \in Amounts :
        \/ CreditPayable(o, a)
        \/ DebitPayable(o, a)
        \/ \E target \in Owners : TransferEarnings(o, target, a)

Next ==
    \/ \E p \in Payouts : PayoutStep(p)
    \/ \E o \in Owners : OwnerStep(o)
    \/ WorkerScans

Spec == Init /\ [][Next]_vars

(***************************************************************************)
(* The worker goes on scanning and executing, and every call ends: the     *)
(* answer comes or the connection breaks.  The code sets no time limit, so *)
(* the last is an assumption about the network.                            *)
(***************************************************************************)
FairSpec ==
    /\ Spec
    /\ WF_vars(WorkerScans)
    /\ \A p \in Payouts : WF_vars(WorkerTakes(p)) /\ WF_vars(ExecutionStep(p))

-----------------------------------------------------------------------------
(* Properties *)

\* Every variable has the type of the table, account or task it stands for.
TypeOK ==
    /\ status \in [Payouts -> {"none"} \cup Active \cup Final]
    /\ locked \in [Payouts -> Int]
    /\ settled \in [Payouts -> Nat]
    /\ payable \in [Owners -> Nat] /\ reserved \in [Owners -> Nat]
    /\ settlementPaid \in Nat /\ feeRevenue \in Nat /\ outside \in Int
    /\ earned \in 0..MaxEarned
    /\ stage \in [Payouts -> {"idle", "ended", "stopped"} \cup Executing]
    /\ inflight \in [Payouts -> BOOLEAN]
    /\ moved \in [Payouts -> Nat]
    /\ blind \subseteq Payouts
    /\ scan \subseteq Payouts
    /\ working \in Payouts \cup {NoPayout}

(***************************************************************************)
(* "payout_reserved matches the payouts that are pending, processing or in *)
(* review" (plan.md:712): it is the amount of the owner's only active      *)
(* payout, and nothing when there is none.                                 *)
(***************************************************************************)
ReservedMatchesActive ==
    /\ \A p \in Payouts : IsActive(p) => reserved[Owner(p)] = Amount(p)
    /\ \A o \in Owners : NoneActive(o) => reserved[o] = 0

\* An owner has at most one active payout, at any time (plan.md:1365).
OneActivePayout ==
    \A p, q \in Payouts :
        IsActive(p) /\ IsActive(q) /\ Owner(p) = Owner(q) => p = q

(***************************************************************************)
(* An owner's escrow is sound: no balance is negative, one payout at most  *)
(* is active, and what is reserved is its amount (create_payout and every  *)
(* way a payout ends).                                                     *)
(***************************************************************************)
PayoutInv == TypeOK /\ OneActivePayout /\ ReservedMatchesActive

(***************************************************************************)
(* However the worker, admins and crashes interleave, Gate.io moves the    *)
(* money of a payout at most once (plan.md:1475).                          *)
(***************************************************************************)
TransferredOnce == \A p \in Payouts : moved[p] <= 1

(***************************************************************************)
(* Money that Gate.io has moved, or may still move, is given back to the   *)
(* provider only by an admin who released the payout while its transfer    *)
(* was undecided or done: no error path of the executors, no lost answer   *)
(* and no crash does it (plan.md:1460).                                    *)
(***************************************************************************)
TransferredIsNotReturned ==
    \A p \in Payouts :
        moved[p] > 0 \/ inflight[p]
            => status[p] \in {"processing", "needs_review", "paid"} \/ p \in blind

Balance == [o \in Owners |-> payable[o] + reserved[o]]

\* No payout, adjustment or transfer of earnings makes or loses money.
PayoutsConserveMoney ==
    SumFunctionOnSet(Balance, Owners) + settlementPaid + feeRevenue + outside = 0

(***************************************************************************)
(* A payout that is paid, failed or cancelled stays so, and no money moves *)
(* for it any more, whatever an executor still brings back.                *)
(***************************************************************************)
FinalPayoutStays ==
    [][\A p \in Payouts : status[p] \in Final =>
          status'[p] = status[p] /\ locked'[p] = locked[p] /\ settled'[p] = settled[p]]_vars

\* A pending Gate.io payout is taken up by the worker, if by nobody else.
PendingIsExecuted ==
    \A p \in Payouts :
        (status[p] = "pending" /\ Req[p].method = "gateio") ~> (status[p] # "pending")

(***************************************************************************)
(* A payout that an executor has taken up does not stay processing, unless *)
(* the executor is stopped: every error ends in a review.                  *)
(***************************************************************************)
ExecutionEndsProcessing ==
    \A p \in Payouts :
        (stage[p] = "claimed") ~> (status[p] # "processing" \/ stage[p] = "stopped")

\* A payout keeps moving: the worker takes up what is pending, and an execution
\* that is not stopped ends its processing (spawn_gateio_worker,
\* execute_gateio_by_id).
PayoutsMove == PendingIsExecuted /\ ExecutionEndsProcessing

-----------------------------------------------------------------------------
(* Refinement *)

EscrowState(p) ==
    CASE status[p] = "paid"                   -> "collected"
      [] status[p] \in {"failed", "cancelled"} -> "returned"
      [] IsActive(p)                          -> "locked"
      [] OTHER                                -> "none"

Escrow == INSTANCE Reservations WITH
              Requests  <- Payouts,
              Estimates <- [p \in Payouts |-> Amount(p)],
              Amounts   <- {Amount(p) : p \in Payouts},
              state     <- [p \in Payouts |-> EscrowState(p)],
              locked    <- locked,
              paidOut   <- settled

(***************************************************************************)
(* Providers, worker and admins together lock the amount of each payout    *)
(* once and end it once, paid out or given back: whatever they do beyond   *)
(* that moves no escrowed money.                                           *)
(***************************************************************************)
ImplementsEscrow == Escrow!Spec

-----------------------------------------------------------------------------
(* What documents of the repository say and the code does not do *)

(***************************************************************************)
(* A balance is not released while the result of its transfer is unknown,  *)
(* "to avoid paying twice" (plan.md:1460): nothing that Gate.io has moved  *)
(* was given back.                                                         *)
(***************************************************************************)
NothingPaidTwice ==
    \A p \in Payouts : moved[p] > 0 => status[p] \notin {"failed", "cancelled"}
=============================================================================
