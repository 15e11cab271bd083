--------------------------- MODULE ChargesProofs ----------------------------
(***************************************************************************)
(* Proofs about the life of a charge.  First type correctness; then what   *)
(* holds whatever the races: idempotency keys are charged once and the     *)
(* ledger balances; then what holds without them: a reservation is locked  *)
(* exactly as long as its charge is active, a settled charge pays its      *)
(* amount exactly and its provider in full, and nothing happens to a       *)
(* charge that is over.                                                    *)
(***************************************************************************)
EXTENDS Charges, AmountProofs

-----------------------------------------------------------------------------
(* Types                                                                   *)

LEMMA RequestFacts ==
  ASSUME NEW c \in Charges
  PROVE  /\ Owner(c) \in Users
         /\ Estimate(c) \in Nat \ {0}
         /\ HasKey(c) => KeyOf(c) \in UserKeys
         /\ Req[c].hash \in Nat
         /\ c # NoCharge
BY RequestAssumption DEF Owner, Estimate, HasKey, KeyOf, UserKeys

Parties == [provider: Nat, market: Nat, router: Nat]

\* The parts of a settlement are amounts.
LEMMA SettlementType ==
  ASSUME TypeOK, NEW c \in Charges, NEW cost \in Costs
  PROVE  LET s == SettlementOf(c, cost)
         IN  /\ s.collected \in Parties /\ s.extra \in Parties
             /\ s.refund \in Nat /\ s.loss \in Nat
             /\ Outflow(s.collected) \in Nat /\ Outflow(s.extra) \in Nat
<1> DEFINE fromHeld == MinOf(Estimate(c), cost)
           overage  == cost - fromHeld
           fromCash == MinOf(cash[Owner(c)], overage)
<1>1. cost \in Nat /\ Estimate(c) \in Nat /\ cash[Owner(c)] \in Nat
  BY RatesAssumption, RequestFacts DEF TypeOK
<1>2. /\ fromHeld \in Nat /\ overage \in Nat /\ fromCash \in Nat
      /\ Estimate(c) - fromHeld \in Nat /\ overage - fromCash \in Nat
  BY <1>1, SMT DEF MinOf
<1>3. SettlementOf(c, cost)
        = [collected |-> Collect(fromHeld, MarketBps, RouterBps),
           refund    |-> Estimate(c) - fromHeld,
           extra     |-> Collect(fromCash, MarketBps, RouterBps),
           loss      |-> overage - fromCash]
  BY DEF SettlementOf
<1> HIDE DEF fromHeld, overage, fromCash
<1> QED BY <1>2, <1>3, CollectType, RatesAssumption DEF Parties

\* Types of what the transactions change.
LEMMA SettleType ==
  ASSUME TypeOK, NEW c \in Charges, NEW cost \in Costs, Settle(c, cost)
  PROVE  /\ held' \in [Users -> Nat] /\ cash' \in [Users -> Nat]
         /\ locked' \in [Charges -> Int]
         /\ paid' \in [Charges -> [provider: Nat, market: Nat, router: Nat, risk: Nat]]
         /\ status' \in [Charges -> {"none"} \cup Active \cup Terminal]
         /\ amount' \in [Charges -> Nat]
         /\ evidence' \in [Charges -> {"none", "usage", "flagged"}]
<1> DEFINE s == SettlementOf(c, cost)
<1>1. /\ s.collected \in Parties /\ s.extra \in Parties
      /\ s.refund \in Nat /\ s.loss \in Nat
      /\ Outflow(s.collected) \in Nat /\ Outflow(s.extra) \in Nat
  BY SettlementType
<1>2. /\ held[Owner(c)] >= Outflow(s.collected) + s.refund
      /\ cash[Owner(c)] + s.refund >= Outflow(s.extra)
      /\ held' = [held EXCEPT ![Owner(c)] = @ - Outflow(s.collected) - s.refund]
      /\ cash' = [cash EXCEPT ![Owner(c)] = @ + s.refund - Outflow(s.extra)]
      /\ locked' = [locked EXCEPT ![c] = @ - Outflow(s.collected) - s.refund]
      /\ paid' = [paid EXCEPT ![c] =
             [provider |-> @.provider + s.collected.provider + s.extra.provider + s.loss,
              market   |-> @.market + s.collected.market + s.extra.market,
              router   |-> @.router + s.collected.router + s.extra.router,
              risk     |-> @.risk + s.loss]]
  BY DEF Settle
<1> HIDE DEF s
<1>3. Owner(c) \in Users /\ cost \in Nat
  BY RequestFacts, RatesAssumption
<1>4. /\ held' \in [Users -> Nat] /\ cash' \in [Users -> Nat]
      /\ locked' \in [Charges -> Int]
  BY <1>1, <1>2, <1>3, SMT DEF TypeOK
<1>5. paid' \in [Charges -> [provider: Nat, market: Nat, router: Nat, risk: Nat]]
  BY <1>1, <1>2, SMT DEF TypeOK, Parties
<1>6. /\ status' \in [Charges -> {"none"} \cup Active \cup Terminal]
      /\ amount' \in [Charges -> Nat]
      /\ evidence' \in [Charges -> {"none", "usage", "flagged"}]
  <2>1. CASE status[c] \in Active
    <3>1. /\ status' = [status EXCEPT ![c] = "settled"]
          /\ amount' = [amount EXCEPT ![c] = cost]
          /\ evidence' = [evidence EXCEPT ![c] = "usage"]
      BY <2>1 DEF Settle
    <3> QED BY <1>3, <3>1 DEF TypeOK, Terminal
  <2>2. CASE status[c] \notin Active
    BY <2>2 DEF Settle, TypeOK
  <2> QED BY <2>1, <2>2
<1> QED BY <1>4, <1>5, <1>6

LEMMA ReturnType ==
  ASSUME TypeOK, NEW c \in Charges, ReturnReservation(c)
  PROVE  /\ held' \in [Users -> Nat] /\ cash' \in [Users -> Nat]
         /\ locked' \in [Charges -> Int]
         /\ paid' \in [Charges -> [provider: Nat, market: Nat, router: Nat, risk: Nat]]
BY RequestFacts, SMT DEF TypeOK, ReturnReservation

LEMMA SetKeyType ==
  ASSUME TypeOK, NEW c \in Charges, NEW state \in KeyStates, SetKey(c, state)
  PROVE  idem' \in [UserKeys -> [status: KeyStates, hash: Nat, charge: Charges \cup {NoCharge}]]
BY RequestFacts, SMT DEF TypeOK, SetKey

LEMMA StageType ==
  ASSUME TypeOK, NEW c \in Charges, NEW stage \in Stages, GoTo(c, stage)
  PROVE  pc' \in [Charges -> Stages]
BY DEF TypeOK, GoTo

\* One step of one request's handler.
LEMMA HandlerStepType ==
  ASSUME TypeOK, NEW c \in Charges, HandlerStep(c)
  PROVE  TypeOK'
<1> USE DEF columns, money
<1>1. CASE Admit(c)
  BY <1>1, StageType DEF Admit, TypeOK, Stages, Waiting
<1>2. ASSUME NEW candidates \in 1..MaxCandidates, ReserveRequest(c, candidates)
      PROVE  TypeOK'
  <2>1. pc' \in [Charges -> Stages]
    BY <1>2, StageType DEF ReserveRequest, Stages, Waiting
  <2>2. left' \in [Charges -> 0..MaxCandidates]
    BY <1>2, RatesAssumption, SMT DEF ReserveRequest, TypeOK
  <2>3. status' \in [Charges -> {"none"} \cup Active \cup Terminal]
    BY <1>2 DEF ReserveRequest, TypeOK, Active
  <2>4. /\ held' \in [Users -> Nat] /\ cash' \in [Users -> Nat]
        /\ locked' \in [Charges -> Int]
    BY <1>2, RequestFacts, SMT DEF ReserveRequest, TypeOK
  <2>5. idem' \in [UserKeys -> [status: KeyStates, hash: Nat,
                                charge: Charges \cup {NoCharge}]]
    BY <1>2, RequestFacts DEF ReserveRequest, TypeOK, KeyStates
  <2> QED BY <1>2, <2>1, <2>2, <2>3, <2>4, <2>5 DEF ReserveRequest, TypeOK
<1>3. CASE RefuseRequest(c)
  BY <1>3, StageType DEF RefuseRequest, TypeOK, Stages
<1>4. CASE ForwardToCandidate(c)
  <2>1. pc' \in [Charges -> Stages]
    BY <1>4, StageType DEF ForwardToCandidate, Stages, Waiting
  <2>2. left' \in [Charges -> 0..MaxCandidates]
    BY <1>4, RatesAssumption, SMT DEF ForwardToCandidate, TypeOK
  <2> QED BY <1>4, <2>1, <2>2 DEF ForwardToCandidate, TypeOK
<1>5. ASSUME NEW retryable \in BOOLEAN, UpstreamFails(c, retryable)
      PROVE  TypeOK'
  <2>1. pc' \in [Charges -> Stages]
    BY <1>5, StageType DEF UpstreamFails, Stages, Waiting
  <2> QED BY <1>5, <2>1 DEF UpstreamFails, RecordAttempt, TypeOK
<1>6. CASE UpstreamAnswers(c)
  <2>1. pc' \in [Charges -> Stages]
    BY <1>6, StageType DEF UpstreamAnswers, Stages, Waiting
  <2> QED BY <1>6, <2>1 DEF UpstreamAnswers, RecordAttempt, TypeOK
<1>7. CASE ReleaseReserved(c)
  <2>1. pc' \in [Charges -> Stages]
    BY <1>7, StageType DEF ReleaseReserved, Stages
  <2>2. CASE status[c] = "reserved"
    <3>1. ReturnReservation(c) /\ SetKey(c, "failed_released")
      BY <1>7, <2>2 DEF ReleaseReserved
    <3>2. status' \in [Charges -> {"none"} \cup Active \cup Terminal]
      BY <1>7, <2>2 DEF ReleaseReserved, TypeOK, Terminal
    <3>3. idem' \in [UserKeys -> [status: KeyStates, hash: Nat,
                                  charge: Charges \cup {NoCharge}]]
      BY <3>1, SetKeyType DEF KeyStates
    <3> QED BY <1>7, <2>1, <3>1, <3>2, <3>3, ReturnType DEF ReleaseReserved, TypeOK
  <2>3. CASE status[c] # "reserved"
    BY <1>7, <2>1, <2>3 DEF ReleaseReserved, TypeOK
  <2> QED BY <2>2, <2>3
<1>8. ASSUME NEW cost \in Costs, SettleAnswer(c, cost) \/ SettleStream(c, cost)
      PROVE  TypeOK'
  <2>1. /\ Settle(c, cost) /\ SetKey(c, "finalized") /\ GoTo(c, "ended")
        /\ UNCHANGED <<left, attempts, aged, purged, reading>>
    BY <1>8 DEF SettleAnswer, SettleStream
  <2>2. pc' \in [Charges -> Stages]
    BY <2>1, StageType DEF Stages
  <2>3. idem' \in [UserKeys -> [status: KeyStates, hash: Nat,
                                charge: Charges \cup {NoCharge}]]
    BY <2>1, SetKeyType DEF KeyStates
  <2> QED BY <2>1, <2>2, <2>3, SettleType DEF TypeOK
<1>9. ASSUME NEW found \in {"none", "usage", "flagged"}, MarkReview(c, found),
             GoTo(c, "ended"), UNCHANGED <<left, attempts, aged, purged, reading>>
      PROVE  TypeOK'
  <2>1. pc' \in [Charges -> Stages]
    BY <1>9, StageType DEF Stages
  <2>2. idem' \in [UserKeys -> [status: KeyStates, hash: Nat,
                                charge: Charges \cup {NoCharge}]]
    BY <1>9, SetKeyType DEF MarkReview, KeyStates
  <2>3. /\ status' \in [Charges -> {"none"} \cup Active \cup Terminal]
        /\ evidence' \in [Charges -> {"none", "usage", "flagged"}]
    BY <1>9 DEF MarkReview, TypeOK, Active
  <2> QED BY <1>9, <2>1, <2>2, <2>3 DEF MarkReview, TypeOK
<1>10. CASE OpenStream(c)
  <2>1. pc' \in [Charges -> Stages]
    BY <1>10, StageType DEF OpenStream, Stages, Detached
  <2>2. status' \in [Charges -> {"none"} \cup Active \cup Terminal]
    BY <1>10 DEF OpenStream, TypeOK, Active
  <2> QED BY <1>10, <2>1, <2>2 DEF OpenStream, TypeOK
<1>11. CASE SettleStreamFails(c)
  BY <1>11, StageType DEF SettleStreamFails, TypeOK, Stages, Detached
<1>12. CASE HandlerStops(c)
  BY <1>12, StageType DEF HandlerStops, TypeOK, Stages
<1>13. ASSUME NEW sse \in BOOLEAN, ReviewAnswer(c, sse) PROVE TypeOK'
  BY <1>13, <1>9 DEF ReviewAnswer
<1>14. ASSUME NEW found \in {"usage", "flagged"}, ReviewStream(c, found) PROVE TypeOK'
  BY <1>14, <1>9 DEF ReviewStream
<1>15. CASE ReviewUnsettled(c)
  BY <1>15, <1>9 DEF ReviewUnsettled
<1> QED BY <1>1, <1>2, <1>3, <1>4, <1>5, <1>6, <1>7, <1>8, <1>10, <1>11, <1>12,
           <1>13, <1>14, <1>15 DEF HandlerStep

\* Time, maintenance and the deletion of keys.
LEMMA MaintenanceType ==
  ASSUME TypeOK,
         \/ \E c \in Charges : Age(c) \/ MaintenanceStep(c)
         \/ \E k \in UserKeys : PurgeKey(k)
  PROVE  TypeOK'
<1> USE DEF columns, money
<1>1. ASSUME NEW c \in Charges, Age(c) PROVE TypeOK'
  BY <1>1 DEF Age, TypeOK
<1>2. ASSUME NEW c \in Charges, ReturnReservation(c),
             status' = [status EXCEPT ![c] = "failed_released"],
             UNCHANGED <<pc, left, amount, evidence, attempts, aged, idem, purged, reading>>
      PROVE  TypeOK'
  <2>1. status' \in [Charges -> {"none"} \cup Active \cup Terminal]
    BY <1>2 DEF TypeOK, Terminal
  <2> QED BY <1>2, <2>1, ReturnType DEF TypeOK
<1>3. ASSUME NEW c \in Charges, ReviewStaleStreaming(c) PROVE TypeOK'
  BY <1>3 DEF ReviewStaleStreaming, TypeOK, Active
<1>4. ASSUME NEW k \in UserKeys, PurgeKey(k) PROVE TypeOK'
  <2>1. idem' \in [UserKeys -> [status: KeyStates, hash: Nat,
                                charge: Charges \cup {NoCharge}]]
    BY <1>4 DEF PurgeKey, TypeOK, NoIdem, KeyStates
  <2> QED BY <1>4, <2>1 DEF PurgeKey, TypeOK
<1> QED BY <1>1, <1>2, <1>3, <1>4
        DEF MaintenanceStep, ReleaseStaleReserved, ReleaseUsageMissing

LEMMA AdminStepType ==
  ASSUME TypeOK, NEW a \in Admins, AdminStep(a)
  PROVE  TypeOK'
<1> USE DEF columns, money
<1>1. ASSUME NEW c \in Charges, AdminReads(a, c) PROVE TypeOK'
  BY <1>1 DEF AdminReads, TypeOK
<1>2. ASSUME NEW c \in Charges, NEW cost \in Costs, AdminSettles(a, c, cost) PROVE TypeOK'
  <2>1. reading' \in [Admins -> Charges \cup {NoCharge}]
    BY <1>2 DEF AdminSettles, TypeOK
  <2> QED BY <1>2, <2>1, SettleType DEF AdminSettles, TypeOK
<1>3. ASSUME NEW c \in Charges, AdminReleases(a, c) PROVE TypeOK'
  <2>1. reading' \in [Admins -> Charges \cup {NoCharge}]
    BY <1>3 DEF AdminReleases, TypeOK
  <2>2. status' \in [Charges -> {"none"} \cup Active \cup Terminal]
    BY <1>3 DEF AdminReleases, TypeOK, Terminal
  <2> QED BY <1>3, <2>1, <2>2, ReturnType DEF AdminReleases, TypeOK
<1>4. CASE AdminGivesUp(a)
  BY <1>4 DEF AdminGivesUp, TypeOK
<1> QED BY <1>1, <1>2, <1>3, <1>4 DEF AdminStep

(***************************************************************************)
(* Every variable keeps its type whatever the races: in particular no cash *)
(* or locked balance becomes negative, although handlers, maintenance and  *)
(* admins may give back a reservation more than once (plan.md:660).        *)
(***************************************************************************)
THEOREM TypeCorrect == Spec => []TypeOK
<1>1. Init => TypeOK
  BY RatesAssumption DEF Init, TypeOK, Stages, NothingPaid, NoIdem, KeyStates
<1>2. TypeOK /\ [Next]_vars => TypeOK'
  <2> SUFFICES ASSUME TypeOK, [Next]_vars PROVE TypeOK'
    OBVIOUS
  <2>1. CASE UNCHANGED vars
    BY <2>1 DEF TypeOK, vars, columns, money
  <2>2. CASE Next
    BY <2>2, HandlerStepType, MaintenanceType, AdminStepType DEF Next
  <2> QED BY <2>1, <2>2
<1> QED BY <1>1, <1>2, PTL DEF Spec

LEMMA StatusesDiffer ==
  /\ Active \cap Terminal = {}
  /\ "none" \notin Active /\ "none" \notin Terminal
  /\ "reserved" \in Active /\ "settled" \in Terminal /\ "failed_released" \in Terminal
BY DEF Active, Terminal

-----------------------------------------------------------------------------
(* Idempotency keys, whatever the races                                     *)

\* A handler that has reserved and not ended yet.
AtWork == (Waiting \ {"admitted"}) \cup Detached

\* A charge's key has a row, or had one.
KeyKept ==
  \A c \in Charges :
    HasKey(c) /\ status[c] # "none" /\ idem[KeyOf(c)].status = "absent"
      => KeyOf(c) \in purged

\* The row of a key a handler works under is the one its reservation inserted.
KeyHeld ==
  \A c \in Charges :
    HasKey(c) /\ pc[c] \in AtWork =>
      /\ idem[KeyOf(c)].status = "in_progress"
      /\ idem[KeyOf(c)].hash = Req[c].hash

\* Handlers at work have keys that differ.
KeysDiffer ==
  \A c, d \in Charges :
    HasKey(c) /\ KeyOf(c) = KeyOf(d) /\ pc[c] \in AtWork /\ pc[d] \in AtWork => c = d

KeyInv == TypeOK /\ KeyKept /\ KeyHeld /\ KeysDiffer /\ OneChargePerKey

\* A row that is new only appears by a reservation, and a settled one never changes.
StatusMoves(d) ==
  \/ status'[d] = status[d]
  \/ status[d] \in Active /\ status'[d] # "none"

\* The kinds of steps there are, seen from the request_idempotency table.
InsertStep(c) ==
  /\ pc[c] = "admitted" /\ KeyIsFree(c)
  /\ idem' = IF HasKey(c)
             THEN [idem EXCEPT ![KeyOf(c)] = [status |-> "in_progress",
                                              hash |-> Req[c].hash, charge |-> NoCharge]]
             ELSE idem
  /\ status' = [status EXCEPT ![c] = "reserved"]
  /\ pc' = [pc EXCEPT ![c] = "routing"]
  /\ purged' = purged

FinishStep(c, state) ==
  /\ pc[c] \in AtWork /\ pc' = [pc EXCEPT ![c] = "ended"]
  /\ SetKey(c, state)
  /\ state = "finalized" =>
       /\ pc[c] \in {"answered", "relaying"}
       /\ status[c] \in Active => status'[c] = "settled"
  /\ \A d \in Charges : StatusMoves(d)
  /\ purged' = purged

DeleteStep(k) ==
  /\ idem[k].status \in {"finalized", "failed_released", "needs_review"}
  /\ idem' = [idem EXCEPT ![k] = NoIdem]
  /\ purged' = purged \cup {k}
  /\ UNCHANGED <<pc, status>>

KeylessStep ==
  /\ UNCHANGED <<idem, purged>>
  /\ \A d \in Charges : pc'[d] \in AtWork => pc[d] \in AtWork
  /\ \A d \in Charges : StatusMoves(d)

Finals == {"finalized", "failed_released", "needs_review"}

LEMMA SettleMoves ==
  ASSUME TypeOK, NEW c \in Charges, NEW cost \in Costs, Settle(c, cost)
  PROVE  /\ \A d \in Charges : StatusMoves(d)
         /\ status[c] \in Active => status'[c] = "settled"
<1>1. status \in [Charges -> {"none"} \cup Active \cup Terminal]
  BY DEF TypeOK
<1>2. CASE status[c] \in Active
  <2>1. status' = [status EXCEPT ![c] = "settled"]
    BY <1>2 DEF Settle
  <2> QED BY <1>1, <1>2, <2>1 DEF StatusMoves
<1>3. CASE status[c] \notin Active
  <2>1. status' = status
    BY <1>3 DEF Settle
  <2> QED BY <1>3, <2>1 DEF StatusMoves
<1> QED BY <1>2, <1>3

LEMMA HandlerKeyKinds ==
  ASSUME TypeOK, NEW c \in Charges, HandlerStep(c)
  PROVE  \/ InsertStep(c)
         \/ \E state \in Finals : FinishStep(c, state)
         \/ KeylessStep
<1> USE DEF columns, money
<1> DEFINE Kinds == \/ InsertStep(c)
                    \/ \E state \in Finals : FinishStep(c, state)
                    \/ KeylessStep
<1>0. /\ pc \in [Charges -> Stages]
      /\ status \in [Charges -> {"none"} \cup Active \cup Terminal]
  BY DEF TypeOK
<1>1. ASSUME NEW stage, GoTo(c, stage), stage \in AtWork => pc[c] \in AtWork
      PROVE  \A d \in Charges : pc'[d] \in AtWork => pc[d] \in AtWork
  BY <1>0, <1>1 DEF GoTo
<1>2. ASSUME status' = status PROVE \A d \in Charges : StatusMoves(d)
  BY <1>2 DEF StatusMoves
<1>3. ASSUME NEW state, status[c] \in Active, state # "none",
             status' = [status EXCEPT ![c] = state]
      PROVE  \A d \in Charges : StatusMoves(d)
  BY <1>0, <1>3 DEF StatusMoves
<1>4. CASE Admit(c) \/ RefuseRequest(c) \/ ForwardToCandidate(c)
           \/ UpstreamAnswers(c) \/ SettleStreamFails(c) \/ HandlerStops(c)
  <2>1. /\ UNCHANGED <<idem, purged, status>>
        /\ \E stage : GoTo(c, stage) /\ (stage \in AtWork => pc[c] \in AtWork)
    BY <1>4 DEF Admit, RefuseRequest, ForwardToCandidate, UpstreamAnswers, RecordAttempt,
                SettleStreamFails, HandlerStops, AtWork, Waiting, Detached
  <2> QED BY <1>1, <1>2, <2>1 DEF KeylessStep
<1>5. ASSUME NEW retryable \in BOOLEAN, UpstreamFails(c, retryable) PROVE Kinds
  <2>1. /\ UNCHANGED <<idem, purged, status>>
        /\ \E stage : GoTo(c, stage) /\ (stage \in AtWork => pc[c] \in AtWork)
    BY <1>5 DEF UpstreamFails, RecordAttempt, AtWork, Waiting, Detached
  <2> QED BY <1>1, <1>2, <2>1 DEF KeylessStep
<1>6. ASSUME NEW candidates \in 1..MaxCandidates, ReserveRequest(c, candidates)
      PROVE  Kinds
  BY <1>6 DEF ReserveRequest, InsertStep, GoTo
<1>7. CASE ReleaseReserved(c)
  <2>1. pc[c] \in AtWork /\ GoTo(c, "ended") /\ UNCHANGED purged
    BY <1>7 DEF ReleaseReserved, AtWork, Waiting
  <2>2. CASE status[c] = "reserved"
    <3>1. SetKey(c, "failed_released") /\ status' = [status EXCEPT ![c] = "failed_released"]
      BY <1>7, <2>2 DEF ReleaseReserved
    <3>2. \A d \in Charges : StatusMoves(d)
      <4>1. status[c] \in Active
        BY <2>2 DEF Active
      <4> QED BY <1>3, <3>1, <4>1
    <3> QED BY <2>1, <3>1, <3>2 DEF FinishStep, GoTo, Finals
  <2>3. CASE status[c] # "reserved"
    <3>1. UNCHANGED <<idem, status>>
      BY <1>7, <2>3 DEF ReleaseReserved
    <3> QED BY <1>1, <1>2, <2>1, <3>1 DEF KeylessStep
  <2> QED BY <2>2, <2>3
<1>8. ASSUME NEW cost \in Costs, SettleAnswer(c, cost) \/ SettleStream(c, cost)
      PROVE  Kinds
  <2>1. /\ Settle(c, cost) /\ SetKey(c, "finalized") /\ GoTo(c, "ended")
        /\ pc[c] \in {"answered", "relaying"} /\ UNCHANGED purged
    BY <1>8 DEF SettleAnswer, SettleStream
  <2>2. pc[c] \in AtWork
    BY <2>1 DEF AtWork, Waiting, Detached
  <2> QED BY <2>1, <2>2, SettleMoves DEF FinishStep, GoTo, Finals
<1>9. ASSUME NEW found, MarkReview(c, found), GoTo(c, "ended"), UNCHANGED purged,
             pc[c] \in {"answered"} \cup Detached
      PROVE  Kinds
  <2>1. pc[c] \in AtWork
    BY <1>9 DEF AtWork, Waiting
  <2>2. \A d \in Charges : StatusMoves(d)
    <3>1. CASE status[c] \in {"reserved", "streaming"}
      BY <1>3, <1>9, <3>1 DEF MarkReview, Active
    <3>2. CASE status[c] \notin {"reserved", "streaming"}
      BY <1>2, <1>9, <3>2 DEF MarkReview
    <3> QED BY <3>1, <3>2
  <2> QED BY <1>9, <2>1, <2>2 DEF FinishStep, GoTo, Finals, MarkReview
<1>10. CASE OpenStream(c)
  <2>1. \A d \in Charges : StatusMoves(d)
    BY <1>2, <1>3, <1>10 DEF OpenStream, Active
  <2>2. GoTo(c, "relaying") /\ pc[c] \in AtWork /\ UNCHANGED <<idem, purged>>
    BY <1>10 DEF OpenStream, AtWork, Waiting
  <2> QED BY <1>1, <2>1, <2>2 DEF KeylessStep
<1>11. ASSUME NEW sse \in BOOLEAN, ReviewAnswer(c, sse) PROVE Kinds
  BY <1>9, <1>11 DEF ReviewAnswer
<1>12. ASSUME NEW found \in {"usage", "flagged"}, ReviewStream(c, found) PROVE Kinds
  BY <1>9, <1>12 DEF ReviewStream, Detached
<1>13. CASE ReviewUnsettled(c)
  BY <1>9, <1>13 DEF ReviewUnsettled, Detached
<1> QED BY <1>4, <1>5, <1>6, <1>7, <1>8, <1>10, <1>11, <1>12, <1>13 DEF HandlerStep

LEMMA KeyKinds ==
  ASSUME TypeOK, [Next]_vars
  PROVE  \/ \E c \in Charges : InsertStep(c)
         \/ \E c \in Charges, state \in Finals : FinishStep(c, state)
         \/ \E k \in UserKeys : DeleteStep(k)
         \/ KeylessStep
<1> USE DEF columns, money
<1>0. status \in [Charges -> {"none"} \cup Active \cup Terminal]
  BY DEF TypeOK
<1>1. ASSUME UNCHANGED <<idem, purged, pc>>,
             \/ status' = status
             \/ \E c \in Charges, state \in Active \cup Terminal :
                   status[c] \in Active /\ status' = [status EXCEPT ![c] = state]
      PROVE  KeylessStep
  BY <1>0, <1>1, StatusesDiffer DEF KeylessStep, StatusMoves
<1>2. ASSUME NEW c \in Charges, Age(c) \/ MaintenanceStep(c) PROVE KeylessStep
  BY <1>1, <1>2 DEF Age, MaintenanceStep, ReleaseStaleReserved, ReviewStaleStreaming,
                    ReleaseUsageMissing, Active, Terminal
<1>3. ASSUME NEW k \in UserKeys, PurgeKey(k) PROVE DeleteStep(k)
  BY <1>3 DEF PurgeKey, DeleteStep
<1>4. ASSUME NEW a \in Admins, AdminStep(a) PROVE KeylessStep
  <2>1. ASSUME NEW c \in Charges, AdminReads(a, c) PROVE KeylessStep
    BY <1>1, <2>1 DEF AdminReads
  <2>2. ASSUME NEW c \in Charges, NEW cost \in Costs, AdminSettles(a, c, cost)
        PROVE  KeylessStep
    BY <2>2, SettleMoves DEF AdminSettles, KeylessStep
  <2>3. ASSUME NEW c \in Charges, AdminReleases(a, c) PROVE KeylessStep
    BY <1>1, <2>3 DEF AdminReleases, Active, Terminal
  <2>4. CASE AdminGivesUp(a)
    BY <1>1, <2>4 DEF AdminGivesUp
  <2> QED BY <1>4, <2>1, <2>2, <2>3, <2>4 DEF AdminStep
<1>5. CASE UNCHANGED vars
  BY <1>1, <1>5 DEF vars
<1> QED BY <1>2, <1>3, <1>4, <1>5, HandlerKeyKinds DEF Next

LEMMA KindsKeepKeyInv ==
  ASSUME KeyInv,
         \/ \E c \in Charges : InsertStep(c)
         \/ \E c \in Charges, state \in Finals : FinishStep(c, state)
         \/ \E k \in UserKeys : DeleteStep(k)
         \/ KeylessStep
  PROVE  (KeyKept /\ KeyHeld /\ KeysDiffer /\ OneChargePerKey)'
<1> DEFINE Goal == (KeyKept /\ KeyHeld /\ KeysDiffer /\ OneChargePerKey)'
<1>0. /\ pc \in [Charges -> Stages]
      /\ status \in [Charges -> {"none"} \cup Active \cup Terminal]
      /\ idem \in [UserKeys -> [status: KeyStates, hash: Nat, charge: Charges \cup {NoCharge}]]
      /\ \A c \in Charges : HasKey(c) => KeyOf(c) \in UserKeys
      /\ KeyKept /\ KeyHeld /\ KeysDiffer /\ OneChargePerKey
  BY RequestFacts DEF KeyInv, TypeOK
<1>1. "admitted" \notin AtWork /\ "ended" \notin AtWork /\ "new" \notin AtWork
  BY DEF AtWork, Waiting, Detached
<1>2. ASSUME NEW c \in Charges, InsertStep(c) PROVE Goal
  <2>1. /\ pc'[c] = "routing" /\ status'[c] = "reserved" /\ purged' = purged
        /\ \A d \in Charges \ {c} : pc'[d] = pc[d] /\ status'[d] = status[d]
    BY <1>0, <1>2 DEF InsertStep
  <2>2. \A k \in UserKeys : ~(HasKey(c) /\ k = KeyOf(c)) => idem'[k] = idem[k]
    BY <1>0, <1>2 DEF InsertStep
  <2>3. HasKey(c) => /\ idem[KeyOf(c)].status = "absent"
                     /\ idem'[KeyOf(c)].status = "in_progress"
                     /\ idem'[KeyOf(c)].hash = Req[c].hash
    BY <1>0, <1>2 DEF InsertStep, KeyIsFree
  <2>4. \A d \in Charges \ {c} : HasKey(d) /\ pc[d] \in AtWork => KeyOf(d) # KeyOf(c) \/ ~HasKey(c)
    BY <1>0, <2>3 DEF KeyHeld
  <2>5. \A d \in Charges \ {c} :
           HasKey(c) /\ HasKey(d) /\ KeyOf(d) = KeyOf(c) /\ status[d] # "none"
              => KeyOf(c) \in purged
    BY <1>0, <2>3 DEF KeyKept
  <2>6. \A d \in Charges : KeyOf(d) = KeyOf(c) => (HasKey(d) <=> HasKey(c))
    BY DEF KeyOf, HasKey
  <2>7. KeyKept'
    BY <1>0, <2>1, <2>2, <2>3, Zenon DEF KeyKept
  <2>8. KeyHeld'
    BY <1>0, <2>1, <2>2, <2>3, <2>4, Zenon DEF KeyHeld
  <2>9. KeysDiffer'
    BY <1>0, <2>1, <2>4, <2>6, Zenon DEF KeysDiffer
  <2>10. OneChargePerKey'
    BY <1>0, <2>1, <2>5, <2>6, Zenon DEF OneChargePerKey
  <2> QED BY <2>7, <2>8, <2>9, <2>10
<1>3. ASSUME NEW c \in Charges, NEW state \in Finals, FinishStep(c, state) PROVE Goal
  <2>1. /\ pc[c] \in AtWork /\ pc'[c] = "ended" /\ purged' = purged
        /\ \A d \in Charges \ {c} : pc'[d] = pc[d]
        /\ \A d \in Charges : status'[d] # "none" => status[d] # "none"
    BY <1>0, <1>3, StatusesDiffer DEF FinishStep, StatusMoves
  <2>2. /\ \A k \in UserKeys : ~(HasKey(c) /\ k = KeyOf(c)) => idem'[k] = idem[k]
        /\ \A k \in UserKeys : idem'[k].status = "absent" => idem[k].status = "absent"
    BY <1>0, <1>3 DEF FinishStep, SetKey, Finals
  <2>3. KeyKept'
    BY <1>0, <2>1, <2>2, Zenon DEF KeyKept
  <2>4. KeyHeld'
    <3>1. SUFFICES ASSUME NEW d \in Charges, HasKey(d), pc'[d] \in AtWork
                   PROVE  idem'[KeyOf(d)] = idem[KeyOf(d)] /\ pc[d] \in AtWork
      BY <1>0 DEF KeyHeld
    <3>2. d # c /\ pc[d] \in AtWork
      BY <1>1, <2>1, <3>1
    <3>3. KeyOf(d) # KeyOf(c)
      BY <1>0, <2>1, <3>1, <3>2 DEF KeysDiffer
    <3> QED BY <1>0, <2>2, <3>1, <3>2, <3>3
  <2>5. KeysDiffer'
    BY <1>0, <1>1, <2>1, Zenon DEF KeysDiffer
  <2>6. OneChargePerKey'
    BY <1>0, <2>1, Zenon DEF OneChargePerKey
  <2> QED BY <2>3, <2>4, <2>5, <2>6
<1>4. ASSUME NEW k \in UserKeys, DeleteStep(k) PROVE Goal
  <2>1. /\ UNCHANGED <<pc, status>> /\ purged' = purged \cup {k}
        /\ idem[k].status # "in_progress"
        /\ \A j \in UserKeys \ {k} : idem'[j] = idem[j]
    BY <1>0, <1>4 DEF DeleteStep
  <2>2. KeyKept'
    BY <1>0, <2>1 DEF KeyKept
  <2>3. KeyHeld'
    BY <1>0, <2>1 DEF KeyHeld
  <2>4. KeysDiffer'
    BY <1>0, <2>1 DEF KeysDiffer
  <2>5. OneChargePerKey'
    BY <1>0, <2>1 DEF OneChargePerKey
  <2> QED BY <2>2, <2>3, <2>4, <2>5
<1>5. CASE KeylessStep
  <2>1. /\ UNCHANGED <<idem, purged>>
        /\ \A d \in Charges : pc'[d] \in AtWork => pc[d] \in AtWork
        /\ \A d \in Charges : status'[d] # "none" => status[d] # "none"
    BY <1>0, <1>5, StatusesDiffer DEF KeylessStep, StatusMoves
  <2> QED BY <1>0, <2>1, Zenon DEF KeyKept, KeyHeld, KeysDiffer, OneChargePerKey
<1> QED BY <1>2, <1>3, <1>4, <1>5

(***************************************************************************)
(* An idempotency key never gives rise to two charges (plan.md:1833),      *)
(* whatever the races, until its row is deleted: a reservation inserts the *)
(* row of its key, and nothing but the deletion removes it.                *)
(***************************************************************************)
THEOREM KeysAreChargedOnce == Spec => [](KeyInv /\ OneChargePerKey)
<1>1. Init => KeyKept /\ KeyHeld /\ KeysDiffer /\ OneChargePerKey
  BY DEF Init, KeyKept, KeyHeld, KeysDiffer, OneChargePerKey, AtWork, Waiting, Detached
<1>2. KeyInv /\ [Next]_vars => (KeyKept /\ KeyHeld /\ KeysDiffer /\ OneChargePerKey)'
  BY KeyKinds, KindsKeepKeyInv DEF KeyInv
<1>3. KeyInv <=> TypeOK /\ KeyKept /\ KeyHeld /\ KeysDiffer /\ OneChargePerKey
  BY DEF KeyInv
<1> QED BY <1>1, <1>2, <1>3, TypeCorrect, PTL DEF Spec

-----------------------------------------------------------------------------
(* The ledger, whatever the races                                          *)

\* A user's locked balance is made of what the user's charges have locked.
HeldIsLocked == \A u \in Users : held[u] = SumFunctionOnSet(locked, Of(u))

\* A charge never has more locked than its row stands for.  With the races it may
\* have less: a reservation that was given back and then collected as well.
LockedWithinReservation == \A c \in Charges : locked[c] <= Reservation[c]

\* A charge is new, or it has a row; only rows are read by admins.
RowsOfStages ==
  /\ \A c \in Charges :
        /\ pc[c] \in {"new", "admitted"} => status[c] = "none" /\ locked[c] = 0
        /\ pc[c] \in AtWork => status[c] # "none"
  /\ \A a \in Admins : reading[a] # NoCharge => status[reading[a]] # "none"

LedgerInv ==
  TypeOK /\ HeldIsLocked /\ LockedWithinReservation /\ RowsOfStages /\ MoneyConserved

\* What a step leaves alone that neither inserts a row nor admits a request.
Calm ==
  /\ \A d \in Charges :
        /\ pc'[d] \in {"new", "admitted"} => pc[d] \in {"new", "admitted"}
        /\ pc'[d] \in AtWork => pc[d] \in AtWork
  /\ \A a \in Admins : reading'[a] # NoCharge => status[reading'[a]] # "none"

\* The kinds of steps there are, seen from the ledger.
TakeStep(c) ==
  /\ pc[c] = "admitted" /\ pc' = [pc EXCEPT ![c] = "routing"]
  /\ status' = [status EXCEPT ![c] = "reserved"]
  /\ cash' = [cash EXCEPT ![Owner(c)] = @ - Estimate(c)]
  /\ held' = [held EXCEPT ![Owner(c)] = @ + Estimate(c)]
  /\ locked' = [locked EXCEPT ![c] = Estimate(c)]
  /\ UNCHANGED <<paid, reading>>

GiveBackStep(c) ==
  /\ status[c] # "none"
  /\ ReturnReservation(c)
  /\ \/ status' = [status EXCEPT ![c] = "failed_released"]
     \/ status' = status
  /\ Calm

PayStep(c, cost) ==
  /\ status[c] # "none"
  /\ Settle(c, cost)
  /\ Calm

MoneylessStep ==
  /\ UNCHANGED <<locked, paid, cash, held>>
  /\ \A d \in Charges :
        \/ status'[d] = status[d]
        \/ status[d] \in Active /\ status'[d] \in Active
  /\ Calm

LEMMA HandlerMoneyKinds ==
  ASSUME TypeOK, RowsOfStages, NEW c \in Charges, HandlerStep(c)
  PROVE  \/ TakeStep(c) \/ GiveBackStep(c)
         \/ \E cost \in Costs : PayStep(c, cost)
         \/ MoneylessStep
<1> USE DEF columns, money
<1> DEFINE Kinds == \/ TakeStep(c) \/ GiveBackStep(c)
                    \/ \E cost \in Costs : PayStep(c, cost)
                    \/ MoneylessStep
<1>0. /\ pc \in [Charges -> Stages]
      /\ status \in [Charges -> {"none"} \cup Active \cup Terminal]
      /\ \A a \in Admins : reading[a] # NoCharge => status[reading[a]] # "none"
      /\ pc[c] \in AtWork => status[c] # "none"
  BY DEF TypeOK, RowsOfStages
<1>1. ASSUME NEW stage, GoTo(c, stage), UNCHANGED reading,
             \/ stage = "admitted" /\ pc[c] = "new"
             \/ stage \in AtWork /\ pc[c] \in AtWork
             \/ stage = "ended"
      PROVE  Calm
  BY <1>0, <1>1 DEF GoTo, Calm, AtWork, Waiting, Detached
<1>2. CASE Admit(c) \/ RefuseRequest(c) \/ ForwardToCandidate(c)
           \/ UpstreamAnswers(c) \/ SettleStreamFails(c) \/ HandlerStops(c)
  <2>1. UNCHANGED <<locked, paid, cash, held, status, reading>>
    BY <1>2 DEF Admit, RefuseRequest, ForwardToCandidate, UpstreamAnswers, RecordAttempt,
                SettleStreamFails, HandlerStops
  <2>2. \E stage : /\ GoTo(c, stage)
                   /\ \/ stage = "admitted" /\ pc[c] = "new"
                      \/ stage \in AtWork /\ pc[c] \in AtWork
                      \/ stage = "ended"
    BY <1>2 DEF Admit, RefuseRequest, ForwardToCandidate, UpstreamAnswers,
                SettleStreamFails, HandlerStops, AtWork, Waiting, Detached
  <2> QED BY <1>1, <2>1, <2>2 DEF MoneylessStep
<1>3. ASSUME NEW retryable \in BOOLEAN, UpstreamFails(c, retryable) PROVE Kinds
  <2>1. UNCHANGED <<locked, paid, cash, held, status, reading>>
    BY <1>3 DEF UpstreamFails, RecordAttempt
  <2>2. \E stage : GoTo(c, stage) /\ stage \in AtWork /\ pc[c] \in AtWork
    BY <1>3 DEF UpstreamFails, AtWork, Waiting, Detached
  <2> QED BY <1>1, <2>1, <2>2 DEF MoneylessStep
<1>4. ASSUME NEW candidates \in 1..MaxCandidates, ReserveRequest(c, candidates)
      PROVE  Kinds
  BY <1>4 DEF ReserveRequest, TakeStep, GoTo
<1>5. CASE ReleaseReserved(c)
  <2>1. Calm
    BY <1>1, <1>5 DEF ReleaseReserved
  <2>2. CASE status[c] = "reserved"
    BY <1>5, <2>1, <2>2 DEF ReleaseReserved, GiveBackStep
  <2>3. CASE status[c] # "reserved"
    BY <1>5, <2>1, <2>3 DEF ReleaseReserved, MoneylessStep
  <2> QED BY <2>2, <2>3
<1>6. ASSUME NEW cost \in Costs, SettleAnswer(c, cost) \/ SettleStream(c, cost)
      PROVE  Kinds
  <2>1. Settle(c, cost) /\ GoTo(c, "ended") /\ UNCHANGED reading /\ pc[c] \in AtWork
    BY <1>6 DEF SettleAnswer, SettleStream, AtWork, Waiting, Detached
  <2> QED BY <1>0, <1>1, <2>1 DEF PayStep
<1>7. ASSUME NEW found, MarkReview(c, found), GoTo(c, "ended"), UNCHANGED reading
      PROVE  Kinds
  <2>1. Calm
    BY <1>1, <1>7
  <2>2. UNCHANGED <<locked, paid, cash, held>>
    BY <1>7 DEF MarkReview
  <2>3. \A d \in Charges : \/ status'[d] = status[d]
                           \/ status[d] \in Active /\ status'[d] \in Active
    BY <1>0, <1>7 DEF MarkReview, Active
  <2> QED BY <2>1, <2>2, <2>3 DEF MoneylessStep
<1>8. CASE OpenStream(c)
  <2>1. Calm
    <3>1. GoTo(c, "relaying") /\ UNCHANGED reading /\ pc[c] \in AtWork /\ "relaying" \in AtWork
      BY <1>8 DEF OpenStream, AtWork, Waiting, Detached
    <3> QED BY <1>1, <3>1
  <2>2. \A d \in Charges : \/ status'[d] = status[d]
                           \/ status[d] \in Active /\ status'[d] \in Active
    BY <1>0, <1>8 DEF OpenStream, Active
  <2> QED BY <1>8, <2>1, <2>2 DEF OpenStream, MoneylessStep
<1>9. ASSUME NEW sse \in BOOLEAN, ReviewAnswer(c, sse) PROVE Kinds
  BY <1>7, <1>9 DEF ReviewAnswer
<1>10. ASSUME NEW found \in {"usage", "flagged"}, ReviewStream(c, found) PROVE Kinds
  BY <1>7, <1>10 DEF ReviewStream
<1>11. CASE ReviewUnsettled(c)
  BY <1>7, <1>11 DEF ReviewUnsettled
<1> QED BY <1>2, <1>3, <1>4, <1>5, <1>6, <1>8, <1>9, <1>10, <1>11 DEF HandlerStep

LEMMA MoneyKinds ==
  ASSUME TypeOK, RowsOfStages, [Next]_vars
  PROVE  \/ \E c \in Charges : TakeStep(c) \/ GiveBackStep(c)
         \/ \E c \in Charges, cost \in Costs : PayStep(c, cost)
         \/ MoneylessStep
<1> USE DEF columns, money
<1> DEFINE Kinds == \/ \E c \in Charges : TakeStep(c) \/ GiveBackStep(c)
                    \/ \E c \in Charges, cost \in Costs : PayStep(c, cost)
                    \/ MoneylessStep
<1>0. /\ status \in [Charges -> {"none"} \cup Active \cup Terminal]
      /\ reading \in [Admins -> Charges \cup {NoCharge}]
      /\ \A a \in Admins : reading[a] # NoCharge => status[reading[a]] # "none"
      /\ NoCharge \notin Charges
  BY RequestAssumption DEF TypeOK, RowsOfStages
<1>1. ASSUME UNCHANGED pc,
             \/ UNCHANGED reading
             \/ \E a \in Admins : reading' = [reading EXCEPT ![a] = NoCharge]
      PROVE  Calm
  BY <1>0, <1>1 DEF Calm
<1>2. ASSUME NEW c \in Charges, Age(c) PROVE Kinds
  BY <1>1, <1>2 DEF Age, MoneylessStep
<1>3. ASSUME NEW c \in Charges, ReleaseStaleReserved(c) \/ ReleaseUsageMissing(c) PROVE Kinds
  BY <1>1, <1>3 DEF ReleaseStaleReserved, ReleaseUsageMissing, GiveBackStep
<1>4. ASSUME NEW c \in Charges, ReviewStaleStreaming(c) PROVE Kinds
  BY <1>0, <1>1, <1>4 DEF ReviewStaleStreaming, MoneylessStep, Active
<1>5. ASSUME NEW k \in UserKeys, PurgeKey(k) PROVE Kinds
  BY <1>1, <1>5 DEF PurgeKey, MoneylessStep
<1>6. ASSUME NEW a \in Admins, AdminStep(a) PROVE Kinds
  <2>1. ASSUME NEW c \in Charges, AdminReads(a, c) PROVE Kinds
    <3>1. Calm
      BY <1>0, <2>1 DEF AdminReads, Calm
    <3> QED BY <2>1, <3>1 DEF AdminReads, MoneylessStep
  <2>2. ASSUME NEW c \in Charges, NEW cost \in Costs, AdminSettles(a, c, cost) PROVE Kinds
    BY <1>0, <1>1, <2>2 DEF AdminSettles, PayStep
  <2>3. ASSUME NEW c \in Charges, AdminReleases(a, c) PROVE Kinds
    BY <1>0, <1>1, <2>3 DEF AdminReleases, GiveBackStep
  <2>4. CASE AdminGivesUp(a)
    BY <1>1, <2>4 DEF AdminGivesUp, MoneylessStep
  <2> QED BY <1>6, <2>1, <2>2, <2>3, <2>4 DEF AdminStep
<1>7. CASE UNCHANGED vars
  BY <1>1, <1>7 DEF vars, MoneylessStep
<1> QED BY <1>2, <1>3, <1>4, <1>5, <1>6, <1>7, HandlerMoneyKinds DEF Next, MaintenanceStep

LEMMA LockedSum ==
  ASSUME NEW S, IsFiniteSet(S), NEW c \in S, locked'[c] \in Int,
         \A d \in S : locked[d] \in Int, \A d \in S \ {c} : locked[d] = locked'[d]
  PROVE  SumFunctionOnSet(locked', S) = SumFunctionOnSet(locked, S) + locked'[c] - locked[c]
BY SumUpdate

\* Locking and unlocking for one charge moves its user's locked balance as much.
LEMMA HeldFollowsLocked ==
  ASSUME TypeOK, TypeOK', HeldIsLocked, NEW c \in Charges,
         \A d \in Charges \ {c} : locked'[d] = locked[d],
         \A u \in Users \ {Owner(c)} : held'[u] = held[u],
         held'[Owner(c)] - held[Owner(c)] = locked'[c] - locked[c]
  PROVE  HeldIsLocked'
<1>1. /\ \A d \in Charges : locked[d] \in Int /\ locked'[d] \in Int
      /\ \A u \in Users : held[u] \in Nat /\ held'[u] \in Nat
  BY DEF TypeOK
<1>2. ASSUME NEW u \in Users
      PROVE  /\ IsFiniteSet(Of(u)) /\ Of(u) \subseteq Charges
             /\ c \in Of(u) <=> u = Owner(c)
  BY RequestAssumption, FS_Subset DEF Of
<1>3. SUFFICES ASSUME NEW u \in Users PROVE held'[u] = SumFunctionOnSet(locked', Of(u))
  BY DEF HeldIsLocked, Of, Owner
<1>4. held[u] = SumFunctionOnSet(locked, Of(u))
  BY DEF HeldIsLocked
<1>5. CASE u = Owner(c)
  <2>1. SumFunctionOnSet(locked', Of(u))
          = SumFunctionOnSet(locked, Of(u)) + locked'[c] - locked[c]
    BY <1>1, <1>2, <1>5, LockedSum
  <2>2. held'[u] = held[u] + locked'[c] - locked[c]
    BY <1>1, <1>5
  <2> QED BY <1>4, <2>1, <2>2
<1>6. CASE u # Owner(c)
  <2>1. \A d \in Of(u) : locked[d] = locked'[d]
    BY <1>2, <1>6
  <2> QED BY <1>2, <1>4, <1>6, <2>1, SumSame
<1> QED BY <1>5, <1>6

\* What leaves a user's two balances is received for one charge.
LEMMA BalanceFollowsReceived ==
  ASSUME TypeOK, TypeOK', MoneyConserved, NEW c \in Charges,
         \A d \in Charges \ {c} : paid'[d] = paid[d],
         \A u \in Users \ {Owner(c)} : cash'[u] = cash[u] /\ held'[u] = held[u],
         Balance'[Owner(c)] - Balance[Owner(c)] = Received[c] - Received'[c]
  PROVE  MoneyConserved'
<1>1. /\ \A u \in Users : Balance[u] \in Int /\ Balance'[u] \in Int
      /\ \A d \in Charges : Received[d] \in Int /\ Received'[d] \in Int
  BY SMT DEF TypeOK, Balance, Received, PaidOut
<1>2. /\ \A u \in Users \ {Owner(c)} : Balance[u] = Balance'[u]
      /\ \A d \in Charges \ {c} : Received[d] = Received'[d]
  BY DEF Balance, Received, PaidOut
<1>3. IsFiniteSet(Users) /\ IsFiniteSet(Charges) /\ Owner(c) \in Users
  BY RequestAssumption, RequestFacts
<1>4. SumFunctionOnSet(Balance', Users)
        = SumFunctionOnSet(Balance, Users) + Balance'[Owner(c)] - Balance[Owner(c)]
  <2>1. /\ \A u \in Users : Balance[u] \in Int
        /\ Balance'[Owner(c)] \in Int
    BY <1>1, <1>3
  <2> DEFINE o == Owner(c)
  <2>2. /\ o \in Users /\ IsFiniteSet(Users)
        /\ \A u \in Users : Balance[u] \in Int
        /\ Balance'[o] \in Int
        /\ \A u \in Users \ {o} : Balance[u] = Balance'[u]
    BY <1>2, <1>3, <2>1
  <2> HIDE DEF o
  <2>3. SumFunctionOnSet(Balance', Users)
           = SumFunctionOnSet(Balance, Users) + Balance'[o] - Balance[o]
    BY <2>2, SumUpdate
  <2> QED BY <2>3 DEF o
<1>5. SumFunctionOnSet(Received', Charges)
        = SumFunctionOnSet(Received, Charges) + Received'[c] - Received[c]
  BY <1>1, <1>2, <1>3, SumUpdate
<1>6. /\ SumFunctionOnSet(Balance, Users) \in Int
      /\ SumFunctionOnSet(Received, Charges) \in Int
  BY <1>1, <1>3, SumType
<1>7. SumFunctionOnSet(Balance', Users) + SumFunctionOnSet(Received', Charges)
        = SumFunctionOnSet(Balance, Users) + SumFunctionOnSet(Received, Charges)
  BY <1>1, <1>3, <1>4, <1>5, <1>6
<1> QED BY <1>7 DEF MoneyConserved

\* A collection takes at least the amount it collects, whatever the rates.
LEMMA CollectTakesAmount ==
  ASSUME NEW value \in Nat
  PROVE  LET parts == Collect(value, MarketBps, RouterBps)
         IN  /\ parts \in Parties
             /\ Outflow(parts) \in Nat /\ Outflow(parts) >= value
<1> DEFINE parts == Collect(value, MarketBps, RouterBps)
           split == CommissionSplit(value, MarketBps, RouterBps)
<1>1. parts \in Parties /\ Outflow(parts) \in Nat
  BY CollectType, RatesAssumption DEF Parties
<1>2. parts = [provider |-> MaxOf(value - split.market - split.router, 0),
               market |-> split.market, router |-> split.router]
  BY DEF Collect
<1> HIDE DEF parts, split
<1>3. /\ parts.market = split.market /\ parts.router = split.router
      /\ parts.provider = MaxOf(value - split.market - split.router, 0)
      /\ parts.provider \in Nat /\ parts.market \in Nat /\ parts.router \in Nat
  BY <1>1, <1>2 DEF Parties
<1>4. Outflow(parts) >= value
  BY <1>3, SMT DEF Outflow, MaxOf
<1> QED BY <1>1, <1>4 DEF parts

LEMMA ReceivedAt ==
  ASSUME NEW c \in Charges
  PROVE  /\ Received[c] = (paid[c].provider + paid[c].market + paid[c].router) - paid[c].risk
         /\ Received'[c]
              = (paid'[c].provider + paid'[c].market + paid'[c].router) - paid'[c].risk
<1>1. Received[c] = PaidOut(c) - paid[c].risk
  BY DEF Received
<1>2. Received'[c] = PaidOut(c)' - paid'[c].risk
  BY DEF Received
<1> QED BY <1>1, <1>2 DEF PaidOut

\* What a settlement does to the balances: it unlocks at least the reservation and
\* what leaves the user's balances is received for the charge.
LEMMA SettleMoney ==
  ASSUME TypeOK, NEW c \in Charges, NEW cost \in Costs, Settle(c, cost)
  PROVE  /\ \A d \in Charges \ {c} : locked'[d] = locked[d] /\ paid'[d] = paid[d]
         /\ \A u \in Users \ {Owner(c)} : held'[u] = held[u] /\ cash'[u] = cash[u]
         /\ held'[Owner(c)] - held[Owner(c)] = locked'[c] - locked[c]
         /\ locked'[c] <= locked[c] - Estimate(c)
         /\ Balance'[Owner(c)] - Balance[Owner(c)] = Received[c] - Received'[c]
<1> DEFINE fromHeld == MinOf(Estimate(c), cost)
           overage  == cost - fromHeld
           fromCash == MinOf(cash[Owner(c)], overage)
           s        == SettlementOf(c, cost)
           out      == Outflow(s.collected)
           extra    == Outflow(s.extra)
<1>1. cost \in Nat /\ Estimate(c) \in Nat /\ cash[Owner(c)] \in Nat /\ Owner(c) \in Users
  BY RatesAssumption, RequestFacts DEF TypeOK
<1>2. fromHeld \in Nat /\ fromCash \in Nat
  BY <1>1, SMT DEF MinOf
<1>3. /\ s.collected = Collect(fromHeld, MarketBps, RouterBps)
      /\ s.extra = Collect(fromCash, MarketBps, RouterBps)
      /\ s.refund = Estimate(c) - fromHeld
  BY DEF SettlementOf
<1>4. /\ held' = [held EXCEPT ![Owner(c)] = @ - out - s.refund]
      /\ cash' = [cash EXCEPT ![Owner(c)] = @ + s.refund - extra]
      /\ locked' = [locked EXCEPT ![c] = @ - out - s.refund]
      /\ paid' = [paid EXCEPT ![c] =
             [provider |-> @.provider + s.collected.provider + s.extra.provider + s.loss,
              market   |-> @.market + s.collected.market + s.extra.market,
              router   |-> @.router + s.collected.router + s.extra.router,
              risk     |-> @.risk + s.loss]]
  BY DEF Settle
<1>5. s.loss \in Nat
  BY SettlementType
<1> HIDE DEF fromHeld, overage, fromCash, s
<1>6. /\ s.collected \in Parties /\ out \in Nat /\ out >= fromHeld
      /\ s.extra \in Parties /\ extra \in Nat
  BY <1>2, <1>3, CollectTakesAmount
<1>7. /\ \A d \in Charges \ {c} : locked'[d] = locked[d] /\ paid'[d] = paid[d]
      /\ \A u \in Users \ {Owner(c)} : held'[u] = held[u] /\ cash'[u] = cash[u]
  BY <1>4 DEF TypeOK
<1> DEFINE o == Owner(c)
<1>8. /\ held'[o] = held[o] - out - s.refund
      /\ cash'[o] = cash[o] + s.refund - extra
      /\ locked'[c] = locked[c] - out - s.refund
      /\ held[o] \in Nat /\ cash[o] \in Nat /\ locked[c] \in Int /\ s.refund \in Int
  BY <1>1, <1>2, <1>3, <1>4 DEF TypeOK
<1>9. /\ paid'[c].provider = paid[c].provider + s.collected.provider + s.extra.provider + s.loss
      /\ paid'[c].market = paid[c].market + s.collected.market + s.extra.market
      /\ paid'[c].router = paid[c].router + s.collected.router + s.extra.router
      /\ paid'[c].risk = paid[c].risk + s.loss
      /\ paid[c].provider \in Nat /\ paid[c].market \in Nat /\ paid[c].router \in Nat
      /\ paid[c].risk \in Nat
  BY <1>4 DEF TypeOK
<1>10. Received[c] - Received'[c] = 0 - out - extra
  <2>1. /\ Received[c] = (paid[c].provider + paid[c].market + paid[c].router) - paid[c].risk
        /\ Received'[c]
             = (paid'[c].provider + paid'[c].market + paid'[c].router) - paid'[c].risk
    BY ReceivedAt
  <2>2. /\ s.collected.provider \in Nat /\ s.collected.market \in Nat
        /\ s.collected.router \in Nat /\ s.extra.provider \in Nat
        /\ s.extra.market \in Nat /\ s.extra.router \in Nat
    BY <1>6 DEF Parties
  <2> QED BY <1>5, <1>9, <2>1, <2>2, SMT DEF Outflow
<1>11. Balance'[o] - Balance[o] = 0 - out - extra
  <2>1. Balance[o] = cash[o] + held[o] /\ Balance'[o] = cash'[o] + held'[o]
    BY <1>1 DEF Balance
  <2> HIDE DEF o, out, extra
  <2> QED BY <1>6, <1>8, <2>1, SMT
<1>12. locked'[c] <= locked[c] - Estimate(c)
  BY <1>1, <1>2, <1>3, <1>6, <1>8, SMT
<1>13. held'[o] - held[o] = locked'[c] - locked[c]
  <2> HIDE DEF o, out, extra
  <2> QED BY <1>6, <1>8, SMT
<1> QED BY <1>7, <1>10, <1>11, <1>12, <1>13

LEMMA RowsStay ==
  ASSUME TypeOK, TypeOK', RowsOfStages, NEW c \in Charges, status[c] # "none",
         \A d \in Charges \ {c} : locked'[d] = locked[d],
         \A d \in Charges : status[d] = "none" <=> status'[d] = "none",
         Calm
  PROVE  RowsOfStages'
<1>1. pc[c] \notin {"new", "admitted"}
  BY DEF RowsOfStages
<1>2. ASSUME NEW d \in Charges
      PROVE  /\ pc'[d] \in {"new", "admitted"} => status'[d] = "none" /\ locked'[d] = 0
             /\ pc'[d] \in AtWork => status'[d] # "none"
  BY <1>1, <1>2 DEF RowsOfStages, Calm
<1>3. ASSUME NEW a \in Admins, reading'[a] # NoCharge
      PROVE  status'[reading'[a]] # "none"
  <2>1. reading'[a] \in Charges
    BY <1>3 DEF TypeOK
  <2> QED BY <1>3, <2>1 DEF Calm
<1> QED BY <1>2, <1>3 DEF RowsOfStages, AtWork

LEMMA ReservationFacts ==
  ASSUME NEW c \in Charges
  PROVE  /\ Reservation[c] \in Nat
         /\ status[c] \in Active => Reservation[c] = Estimate(c)
         /\ status[c] \notin Active => Reservation[c] = 0
         /\ Reservation'[c] \in Nat
         /\ status'[c] \in Active => Reservation'[c] = Estimate(c)
         /\ status'[c] \notin Active => Reservation'[c] = 0
<1>1. Estimate(c) \in Nat
  BY RequestFacts
<1>2. Reservation[c] = IF status[c] \in Active THEN Estimate(c) ELSE 0
  BY DEF Reservation, IsActive
<1>3. Reservation'[c] = IF status'[c] \in Active THEN Estimate(c) ELSE 0
  BY DEF Reservation, IsActive, Estimate
<1> QED BY <1>1, <1>2, <1>3

LEMMA TakeKeepsLedger ==
  ASSUME LedgerInv, TypeOK', NEW c \in Charges, TakeStep(c)
  PROVE  LedgerInv'
<1>0. /\ TypeOK /\ HeldIsLocked /\ LockedWithinReservation /\ RowsOfStages /\ MoneyConserved
      /\ Owner(c) \in Users /\ Estimate(c) \in Nat \ {0} /\ NoCharge \notin Charges
  BY RequestFacts, RequestAssumption DEF LedgerInv
<1>1. /\ \A d \in Charges \ {c} : /\ pc'[d] = pc[d] /\ status'[d] = status[d]
                                  /\ locked'[d] = locked[d]
      /\ \A u \in Users \ {Owner(c)} : held'[u] = held[u] /\ cash'[u] = cash[u]
      /\ paid' = paid /\ reading' = reading
      /\ pc[c] = "admitted" /\ pc'[c] = "routing" /\ status'[c] = "reserved"
      /\ locked'[c] = Estimate(c)
  BY <1>0 DEF TakeStep, TypeOK
<1>2. status[c] = "none" /\ locked[c] = 0
  BY <1>0, <1>1 DEF RowsOfStages
<1>3. /\ held'[Owner(c)] = held[Owner(c)] + Estimate(c)
      /\ cash'[Owner(c)] = cash[Owner(c)] - Estimate(c)
      /\ held[Owner(c)] \in Nat /\ cash[Owner(c)] \in Nat
  BY <1>0 DEF TakeStep, TypeOK
<1>4. HeldIsLocked'
  <2>1. held'[Owner(c)] - held[Owner(c)] = locked'[c] - locked[c]
    BY <1>0, <1>1, <1>2, <1>3
  <2> QED BY <1>0, <1>1, <2>1, HeldFollowsLocked
<1>5. MoneyConserved'
  <2>1. Received[c] - Received'[c] = 0
    <3>1. Received'[c] = Received[c]
      BY <1>1 DEF Received, PaidOut
    <3>2. Received[c] \in Int
      BY <1>0, SMT DEF Received, PaidOut, TypeOK
    <3> QED BY <3>1, <3>2
  <2>2. Balance'[Owner(c)] - Balance[Owner(c)] = 0
    <3>1. /\ Balance[Owner(c)] = cash[Owner(c)] + held[Owner(c)]
          /\ Balance'[Owner(c)] = cash'[Owner(c)] + held'[Owner(c)]
      BY <1>0 DEF Balance
    <3> QED BY <1>0, <1>3, <3>1
  <2> QED BY <1>0, <1>1, <2>1, <2>2, BalanceFollowsReceived
<1>6. LockedWithinReservation'
  <2>1. SUFFICES ASSUME NEW d \in Charges PROVE locked'[d] <= Reservation'[d]
    BY DEF LockedWithinReservation
  <2>2. CASE d = c
    <3>1. Reservation'[c] = Estimate(c)
      BY <1>1, StatusesDiffer, ReservationFacts
    <3> QED BY <1>0, <1>1, <2>2, <3>1
  <2>3. CASE d # c
    BY <1>0, <1>1, <2>3, ReservationFacts DEF LockedWithinReservation
  <2> QED BY <2>2, <2>3
<1>7. RowsOfStages'
  <2>1. "routing" \notin {"new", "admitted"} /\ "reserved" # "none"
    OBVIOUS
  <2>2. \A d \in Charges :
           /\ pc'[d] \in {"new", "admitted"} => status'[d] = "none" /\ locked'[d] = 0
           /\ pc'[d] \in AtWork => status'[d] # "none"
    BY <1>0, <1>1, <2>1, Zenon DEF RowsOfStages
  <2>3. ASSUME NEW a \in Admins, reading'[a] # NoCharge PROVE status'[reading'[a]] # "none"
    <3>1. reading[a] \in Charges /\ status[reading[a]] # "none"
      BY <1>0, <1>1, <2>3 DEF RowsOfStages, TypeOK
    <3> QED BY <1>1, <1>2, <3>1
  <2> QED BY <2>2, <2>3 DEF RowsOfStages, AtWork
<1> QED BY <1>4, <1>5, <1>6, <1>7 DEF LedgerInv

LEMMA GiveBackKeepsLedger ==
  ASSUME LedgerInv, TypeOK', NEW c \in Charges, GiveBackStep(c)
  PROVE  LedgerInv'
<1>0. /\ TypeOK /\ HeldIsLocked /\ LockedWithinReservation /\ RowsOfStages /\ MoneyConserved
      /\ Owner(c) \in Users /\ Estimate(c) \in Nat
  BY RequestFacts DEF LedgerInv
<1>1. /\ \A d \in Charges \ {c} : status'[d] = status[d] /\ locked'[d] = locked[d]
      /\ \A u \in Users \ {Owner(c)} : held'[u] = held[u] /\ cash'[u] = cash[u]
      /\ paid' = paid
      /\ status[c] # "none" /\ status'[c] # "none"
  BY <1>0 DEF GiveBackStep, ReturnReservation, TypeOK
<1>2. /\ held'[Owner(c)] = held[Owner(c)] - Estimate(c)
      /\ cash'[Owner(c)] = cash[Owner(c)] + Estimate(c)
      /\ locked'[c] = locked[c] - Estimate(c)
      /\ held[Owner(c)] \in Nat /\ cash[Owner(c)] \in Nat /\ locked[c] \in Int
  BY <1>0 DEF GiveBackStep, ReturnReservation, TypeOK
<1>3. HeldIsLocked'
  <2>1. held'[Owner(c)] - held[Owner(c)] = locked'[c] - locked[c]
    BY <1>0, <1>2
  <2> QED BY <1>0, <1>1, <2>1, HeldFollowsLocked
<1>4. MoneyConserved'
  <2>1. Received[c] - Received'[c] = 0
    <3>1. Received'[c] = Received[c]
      BY <1>1 DEF Received, PaidOut
    <3>2. Received[c] \in Int
      BY <1>0, SMT DEF Received, PaidOut, TypeOK
    <3> QED BY <3>1, <3>2
  <2>2. Balance'[Owner(c)] - Balance[Owner(c)] = 0
    <3>1. /\ Balance[Owner(c)] = cash[Owner(c)] + held[Owner(c)]
          /\ Balance'[Owner(c)] = cash'[Owner(c)] + held'[Owner(c)]
      BY <1>0 DEF Balance
    <3> QED BY <1>0, <1>2, <3>1
  <2> QED BY <1>0, <1>1, <2>1, <2>2, BalanceFollowsReceived
<1>5. LockedWithinReservation'
  <2>1. SUFFICES ASSUME NEW d \in Charges PROVE locked'[d] <= Reservation'[d]
    BY DEF LockedWithinReservation
  <2>2. CASE d = c
    <3>1. locked[c] <= Estimate(c) /\ Reservation'[c] \in Nat
      BY <1>0, <1>2, ReservationFacts DEF LockedWithinReservation
    <3> QED BY <1>0, <1>2, <2>2, <3>1
  <2>3. CASE d # c
    BY <1>0, <1>1, <2>3, ReservationFacts DEF LockedWithinReservation
  <2> QED BY <2>2, <2>3
<1>6. RowsOfStages'
  BY <1>0, <1>1, RowsStay DEF GiveBackStep
<1> QED BY <1>3, <1>4, <1>5, <1>6 DEF LedgerInv

LEMMA PayKeepsLedger ==
  ASSUME LedgerInv, TypeOK', NEW c \in Charges, NEW cost \in Costs, PayStep(c, cost)
  PROVE  LedgerInv'
<1>0. /\ TypeOK /\ HeldIsLocked /\ LockedWithinReservation /\ RowsOfStages /\ MoneyConserved
      /\ Settle(c, cost) /\ status[c] # "none" /\ Estimate(c) \in Nat
      /\ locked[c] \in Int /\ locked'[c] \in Int
  BY RequestFacts DEF LedgerInv, PayStep, TypeOK
<1>1. /\ \A d \in Charges \ {c} : locked'[d] = locked[d] /\ paid'[d] = paid[d]
      /\ \A u \in Users \ {Owner(c)} : held'[u] = held[u] /\ cash'[u] = cash[u]
      /\ held'[Owner(c)] - held[Owner(c)] = locked'[c] - locked[c]
      /\ locked'[c] <= locked[c] - Estimate(c)
      /\ Balance'[Owner(c)] - Balance[Owner(c)] = Received[c] - Received'[c]
  BY <1>0, SettleMoney
<1>2. /\ \A d \in Charges \ {c} : status'[d] = status[d]
      /\ status'[c] # "none"
  BY <1>0 DEF Settle, TypeOK
<1>3. HeldIsLocked'
  BY <1>0, <1>1, HeldFollowsLocked
<1>4. MoneyConserved'
  BY <1>0, <1>1, BalanceFollowsReceived
<1>5. LockedWithinReservation'
  <2>1. SUFFICES ASSUME NEW d \in Charges PROVE locked'[d] <= Reservation'[d]
    BY DEF LockedWithinReservation
  <2>2. CASE d = c
    <3>1. locked[c] <= Estimate(c) /\ Reservation'[c] \in Nat
      BY <1>0, ReservationFacts DEF LockedWithinReservation
    <3> QED BY <1>0, <1>1, <2>2, <3>1
  <2>3. CASE d # c
    BY <1>0, <1>1, <1>2, <2>3, ReservationFacts DEF LockedWithinReservation
  <2> QED BY <2>2, <2>3
<1>6. RowsOfStages'
  BY <1>0, <1>1, <1>2, RowsStay DEF PayStep
<1> QED BY <1>3, <1>4, <1>5, <1>6 DEF LedgerInv

LEMMA MoneylessKeepsLedger ==
  ASSUME LedgerInv, TypeOK', MoneylessStep
  PROVE  LedgerInv'
<1>0. /\ TypeOK /\ HeldIsLocked /\ LockedWithinReservation /\ RowsOfStages /\ MoneyConserved
      /\ UNCHANGED <<locked, paid, cash, held>> /\ Calm
      /\ \A d \in Charges : \/ status'[d] = status[d]
                            \/ status[d] \in Active /\ status'[d] \in Active
  BY DEF LedgerInv, MoneylessStep
<1>1. HeldIsLocked'
  BY <1>0 DEF HeldIsLocked
<1>2. MoneyConserved'
  BY <1>0 DEF MoneyConserved, Balance, Received, PaidOut
<1>3. LockedWithinReservation'
  BY <1>0, ReservationFacts DEF LockedWithinReservation
<1>4. RowsOfStages'
  <2>1. \A d \in Charges : status[d] = "none" <=> status'[d] = "none"
    BY <1>0, StatusesDiffer
  <2>2. \A d \in Charges :
           /\ pc'[d] \in {"new", "admitted"} => status'[d] = "none" /\ locked'[d] = 0
           /\ pc'[d] \in AtWork => status'[d] # "none"
    BY <1>0, <2>1, Zenon DEF RowsOfStages, Calm
  <2>3. ASSUME NEW a \in Admins, reading'[a] # NoCharge PROVE status'[reading'[a]] # "none"
    <3>1. reading'[a] \in Charges
      BY <2>3 DEF TypeOK
    <3> QED BY <1>0, <2>1, <2>3, <3>1 DEF Calm
  <2> QED BY <2>2, <2>3 DEF RowsOfStages, AtWork
<1> QED BY <1>1, <1>2, <1>3, <1>4 DEF LedgerInv

(***************************************************************************)
(* The ledger balances whatever the races and whatever the rates: locked   *)
(* balances are the users' charges' locks, none of them above its row's    *)
(* reservation, and the money of all parties together stays the same.      *)
(***************************************************************************)
THEOREM LedgerBalances == Spec => []LedgerInv
<1>1. Init => HeldIsLocked /\ LockedWithinReservation /\ RowsOfStages /\ MoneyConserved
  <2> SUFFICES ASSUME Init
               PROVE  HeldIsLocked /\ LockedWithinReservation /\ RowsOfStages /\ MoneyConserved
    OBVIOUS
  <2>1. HeldIsLocked
    <3>1. SUFFICES ASSUME NEW u \in Users PROVE held[u] = SumFunctionOnSet(locked, Of(u))
      BY DEF HeldIsLocked
    <3>2. IsFiniteSet(Of(u)) /\ \A d \in Of(u) : locked[d] = 0
      BY RequestAssumption, FS_Subset DEF Of, Init
    <3>3. Cardinality(Of(u)) \in Nat
      BY <3>2, FS_CardinalityType
    <3>4. SumFunctionOnSet(locked, Of(u)) = 0 * Cardinality(Of(u))
      BY <3>2, 0 \in Nat, SumConstant
    <3> QED BY <3>3, <3>4 DEF Init
  <2>2. LockedWithinReservation
    BY ReservationFacts DEF Init, LockedWithinReservation
  <2>3. RowsOfStages
    BY DEF Init, RowsOfStages, AtWork, Waiting, Detached
  <2>4. MoneyConserved
    <3>1. /\ \A u \in Users : Balance[u] = InitialCash
          /\ \A c \in Charges : Received[c] = 0
      BY RatesAssumption DEF Init, Balance, Received, PaidOut, NothingPaid
    <3>2. SumFunctionOnSet(Balance, Users) = InitialCash * Cardinality(Users)
      BY <3>1, RatesAssumption, RequestAssumption, SumConstant
    <3>3. SumFunctionOnSet(Received, Charges) = 0 * Cardinality(Charges)
      BY <3>1, RequestAssumption, 0 \in Nat, SumConstant
    <3>4. /\ Cardinality(Charges) \in Nat
          /\ InitialCash * Cardinality(Users) \in Nat
      BY RequestAssumption, RatesAssumption, FS_CardinalityType, ProductInNat
    <3> QED BY <3>2, <3>3, <3>4 DEF MoneyConserved
  <2> QED BY <2>1, <2>2, <2>3, <2>4
<1>2. LedgerInv /\ TypeOK' /\ [Next]_vars => LedgerInv'
  BY MoneyKinds, TakeKeepsLedger, GiveBackKeepsLedger, PayKeepsLedger, MoneylessKeepsLedger
     DEF LedgerInv
<1>3. Init /\ TypeOK => LedgerInv
  BY <1>1 DEF LedgerInv
<1> QED BY <1>2, <1>3, TypeCorrect, PTL DEF Spec

(***************************************************************************)
(* A user's locked balance never exceeds the reservations of the user's    *)
(* active charges, whatever handlers, maintenance and admins do at once.   *)
(***************************************************************************)
THEOREM LockedBalanceIsBounded == Spec => []HeldNeverExceedsActive
<1>1. LedgerInv => HeldNeverExceedsActive
  <2> SUFFICES ASSUME LedgerInv, NEW u \in Users
               PROVE  held[u] <= SumFunctionOnSet(Reservation, Of(u))
    BY DEF HeldNeverExceedsActive
  <2>1. /\ IsFiniteSet(Of(u))
        /\ \A c \in Of(u) : /\ locked[c] \in Int /\ Reservation[c] \in Int
                            /\ locked[c] <= Reservation[c]
    BY RequestAssumption, FS_Subset, ReservationFacts
       DEF Of, LedgerInv, TypeOK, LockedWithinReservation
  <2>2. SumFunctionOnSet(locked, Of(u)) <= SumFunctionOnSet(Reservation, Of(u))
    BY <2>1, SumBelow
  <2> QED BY <2>2 DEF LedgerInv, HeldIsLocked
<1> QED BY <1>1, LedgerBalances, PTL

(***************************************************************************)
(* What the users have lost is what providers, market and router have      *)
(* received, less what risk_loss has paid, whatever the races and rates.   *)
(***************************************************************************)
THEOREM NoMoneyAppears == Spec => []MoneyConserved
<1>1. LedgerInv => MoneyConserved
  BY DEF LedgerInv
<1> QED BY <1>1, LedgerBalances, PTL

-----------------------------------------------------------------------------
(* Without the races *)

\* A handler's step on c keeps the part of StageMatchesRow about the stages when
\* it leaves c in a stage that matches its row, and changes no other request.
StageFits(c) ==
  /\ pc[c] \in {"new", "admitted"} => status[c] = "none"
  /\ pc[c] \in Waiting \ {"admitted"} => status[c] = "reserved"
  /\ pc[c] \in Detached => status[c] = "streaming"
  /\ aged[c] => pc[c] = "ended"

DecisionsFit ==
  \A a, b \in Admins :
    reading[a] # NoCharge =>
      /\ status[reading[a]] = "needs_review"
      /\ reading[a] = reading[b] => a = b

LEMMA StageParts == StageMatchesRow <=> (\A c \in Charges : StageFits(c)) /\ DecisionsFit
BY DEF StageMatchesRow, StageFits, DecisionsFit

\* What a step on c does to nothing but c's own pc and status, when c is not in
\* review before it.
LEMMA OtherStagesFit ==
  ASSUME TypeOK, StageMatchesRow, NEW c \in Charges, status[c] # "needs_review",
         \A d \in Charges \ {c} : pc'[d] = pc[d] /\ status'[d] = status[d],
         UNCHANGED <<aged, reading>>, StageFits(c)'
  PROVE  StageMatchesRow'
<1>1. \A d \in Charges : StageFits(d)'
  BY StageParts DEF StageFits
<1>2. DecisionsFit'
  <2> SUFFICES ASSUME NEW a \in Admins, NEW b \in Admins, reading[a] # NoCharge
               PROVE  /\ status'[reading[a]] = "needs_review"
                      /\ reading[a] = reading[b] => a = b
    BY DEF DecisionsFit
  <2>1. /\ status[reading[a]] = "needs_review" /\ reading[a] \in Charges
        /\ reading[a] = reading[b] => a = b
    BY DEF StageMatchesRow, TypeOK
  <2> QED BY <2>1
<1> QED BY <1>1, <1>2, StageParts DEF StageMatchesRow, StageFits, DecisionsFit

\* The stages of the requests are strings that differ.
LEMMA HandlerKeepsStages ==
  ASSUME TypeOK, StageMatchesRow, NEW c \in Charges, HandlerStep(c)
  PROVE  StageMatchesRow'
<1> USE DEF columns, money, Waiting, Detached
<1>0. /\ StageFits(c)
      /\ pc \in [Charges -> Stages]
      /\ status \in [Charges -> {"none"} \cup Active \cup Terminal]
      /\ pc[c] # "ended" => status[c] # "needs_review"
  BY StageParts DEF TypeOK, StageFits, Stages
<1>1. ASSUME NEW stage \in Stages, GoTo(c, stage)
      PROVE  pc'[c] = stage /\ \A d \in Charges \ {c} : pc'[d] = pc[d]
  BY <1>0, <1>1 DEF GoTo
<1>2. ASSUME NEW stage \in Stages, GoTo(c, stage), pc[c] # "ended", UNCHANGED <<aged, reading>>,
             \A d \in Charges \ {c} : status'[d] = status[d],
             \/ stage = "admitted" /\ status'[c] = "none"
             \/ stage \in Waiting \ {"admitted"} /\ status'[c] = "reserved"
             \/ stage \in Detached /\ status'[c] = "streaming"
             \/ stage = "ended"
      PROVE  StageMatchesRow'
  <2>1. StageFits(c)'
    BY <1>0, <1>1, <1>2 DEF StageFits
  <2> QED BY <1>0, <1>1, <1>2, <2>1, OtherStagesFit
<1>3. CASE Admit(c)
  BY <1>3, <1>0, <1>2, "admitted" \in Stages DEF Admit, StageFits, Stages
<1>4. ASSUME NEW candidates \in 1..MaxCandidates, ReserveRequest(c, candidates)
      PROVE  StageMatchesRow'
  BY <1>4, <1>0, <1>2, "routing" \in Stages DEF ReserveRequest, Stages
<1>5. CASE RefuseRequest(c)
  BY <1>5, <1>0, <1>2, "ended" \in Stages DEF RefuseRequest, Stages
<1>6. CASE ForwardToCandidate(c)
  BY <1>6, <1>0, <1>2, "calling" \in Stages, "failed" \in Stages
     DEF ForwardToCandidate, StageFits, Stages
<1>7. ASSUME NEW retryable \in BOOLEAN, UpstreamFails(c, retryable)
      PROVE  StageMatchesRow'
  BY <1>7, <1>0, <1>2, "routing" \in Stages, "failed" \in Stages
     DEF UpstreamFails, RecordAttempt, StageFits, Stages
<1>8. CASE UpstreamAnswers(c)
  BY <1>8, <1>0, <1>2, "opened" \in Stages, "answered" \in Stages
     DEF UpstreamAnswers, RecordAttempt, StageFits, Stages
<1>9. CASE ReleaseReserved(c)
  BY <1>9, <1>0, <1>2, "ended" \in Stages DEF ReleaseReserved, Stages
<1>10. ASSUME NEW cost \in Costs, SettleAnswer(c, cost) \/ SettleStream(c, cost)
       PROVE  StageMatchesRow'
  BY <1>10, <1>0, <1>2, "ended" \in Stages DEF SettleAnswer, SettleStream, Settle, Stages
<1>11. ASSUME NEW found, MarkReview(c, found), GoTo(c, "ended"), pc[c] # "ended",
              UNCHANGED <<aged, reading>>
       PROVE  StageMatchesRow'
  BY <1>11, <1>0, <1>2, "ended" \in Stages DEF MarkReview, Stages
<1>12. CASE OpenStream(c)
  BY <1>12, <1>0, <1>2, "relaying" \in Stages DEF OpenStream, StageFits, Stages
<1>13. CASE SettleStreamFails(c)
  BY <1>13, <1>0, <1>2, "unsettled" \in Stages DEF SettleStreamFails, StageFits, Stages
<1>14. CASE HandlerStops(c)
  BY <1>14, <1>0, <1>2, "ended" \in Stages DEF HandlerStops, Stages
<1>15. ASSUME NEW sse \in BOOLEAN, ReviewAnswer(c, sse) PROVE StageMatchesRow'
  BY <1>15, <1>11 DEF ReviewAnswer
<1>16. ASSUME NEW found \in {"usage", "flagged"}, ReviewStream(c, found)
       PROVE  StageMatchesRow'
  BY <1>16, <1>11 DEF ReviewStream
<1>17. CASE ReviewUnsettled(c)
  BY <1>17, <1>11 DEF ReviewUnsettled
<1> QED BY <1>3, <1>4, <1>5, <1>6, <1>7, <1>8, <1>9, <1>10, <1>12, <1>13, <1>14,
           <1>15, <1>16, <1>17 DEF HandlerStep

LEMMA MaintenanceKeepsStages ==
  ASSUME TypeOK, StageMatchesRow, Races = {},
         \/ \E c \in Charges : Age(c) \/ MaintenanceStep(c)
         \/ \E k \in UserKeys : PurgeKey(k)
  PROVE  StageMatchesRow'
<1> USE DEF columns, money
<1>0. /\ \A d \in Charges : StageFits(d)
      /\ status \in [Charges -> {"none"} \cup Active \cup Terminal]
      /\ reading \in [Admins -> Charges \cup {NoCharge}]
  BY StageParts DEF TypeOK
<1>1. ASSUME NEW c \in Charges, Age(c) PROVE StageMatchesRow'
  <2>1. pc[c] = "ended" /\ aged' = [aged EXCEPT ![c] = TRUE]
    BY <1>1 DEF Age
  <2>2. \A d \in Charges : StageFits(d)'
    BY <1>0, <1>1, <2>1 DEF Age, StageFits, TypeOK
  <2> QED BY <1>1, <2>2, StageParts DEF Age, StageMatchesRow, StageFits, DecisionsFit
<1>2. ASSUME NEW c \in Charges, ReleaseStaleReserved(c) \/ ReviewStaleStreaming(c)
      PROVE  StageMatchesRow'
  <2>1. /\ pc[c] = "ended" /\ status[c] # "needs_review"
        /\ UNCHANGED <<pc, aged, reading>>
        /\ \A d \in Charges \ {c} : status'[d] = status[d]
    BY <1>0, <1>2 DEF ReleaseStaleReserved, ReviewStaleStreaming, StageFits
  <2>2. StageFits(c)'
    BY <2>1 DEF StageFits, Waiting, Detached
  <2> QED BY <2>1, <2>2, OtherStagesFit
<1>3. ASSUME NEW c \in Charges, ReleaseUsageMissing(c) PROVE StageMatchesRow'
  <2>1. /\ status[c] = "needs_review" /\ ~BeingDecided(c)
        /\ UNCHANGED <<pc, aged, reading>>
        /\ status' = [status EXCEPT ![c] = "failed_released"]
    BY <1>3 DEF ReleaseUsageMissing
  <2>2. \A d \in Charges : StageFits(d)'
    BY <1>0, <2>1 DEF StageFits, Waiting, Detached
  <2>3. DecisionsFit'
    BY <1>0, <2>1 DEF DecisionsFit, BeingDecided, StageMatchesRow
  <2> QED BY <2>2, <2>3, StageParts DEF StageMatchesRow, StageFits, DecisionsFit
<1>4. ASSUME NEW k \in UserKeys, PurgeKey(k) PROVE StageMatchesRow'
  BY <1>4 DEF PurgeKey, StageMatchesRow
<1> QED BY <1>1, <1>2, <1>3, <1>4 DEF MaintenanceStep

LEMMA AdminKeepsStages ==
  ASSUME TypeOK, StageMatchesRow, Races = {}, NEW a \in Admins, AdminStep(a)
  PROVE  StageMatchesRow'
<1> USE DEF columns, money
<1>0. /\ \A d \in Charges : StageFits(d)
      /\ DecisionsFit
      /\ status \in [Charges -> {"none"} \cup Active \cup Terminal]
      /\ reading \in [Admins -> Charges \cup {NoCharge}]
      /\ NoCharge \notin Charges
  BY StageParts, RequestAssumption DEF TypeOK
<1>1. ASSUME NEW c \in Charges, AdminReads(a, c) PROVE StageMatchesRow'
  <2>1. /\ status[c] = "needs_review" /\ ~BeingDecided(c)
        /\ UNCHANGED <<pc, aged, status>>
        /\ reading' = [reading EXCEPT ![a] = c]
    BY <1>1 DEF AdminReads
  <2>2. DecisionsFit'
    BY <1>0, <2>1 DEF DecisionsFit, BeingDecided
  <2>3. \A d \in Charges : StageFits(d)'
    BY <1>0, <2>1 DEF StageFits
  <2> QED BY <2>2, <2>3, StageParts DEF StageMatchesRow, StageFits, DecisionsFit
<1>2. ASSUME NEW c \in Charges, reading[a] = c,
             reading' = [reading EXCEPT ![a] = NoCharge], UNCHANGED <<pc, aged>>,
             \A d \in Charges \ {c} : status'[d] = status[d],
             status'[c] \in Terminal
      PROVE  StageMatchesRow'
  <2>1. status[c] = "needs_review" /\ \A b \in Admins \ {a} : reading[b] # c
    BY <1>0, <1>2 DEF DecisionsFit
  <2>2. DecisionsFit'
    BY <1>0, <1>2, <2>1 DEF DecisionsFit
  <2>3. pc[c] \notin {"new"} \cup Waiting \cup Detached
    BY <1>0, <2>1 DEF StageFits, Waiting, Detached
  <2>4. \A d \in Charges : StageFits(d)'
    BY <1>0, <1>2, <2>3 DEF StageFits, Waiting, Detached
  <2> QED BY <2>2, <2>4, StageParts DEF StageMatchesRow, StageFits, DecisionsFit
<1>3. ASSUME NEW c \in Charges, reading[a] = c PROVE status[c] = "needs_review"
  BY <1>0, <1>3 DEF DecisionsFit
<1>4. ASSUME NEW c \in Charges, NEW cost \in Costs, AdminSettles(a, c, cost)
      PROVE  StageMatchesRow'
  BY <1>0, <1>2, <1>3, <1>4 DEF AdminSettles, Settle, Active, Terminal
<1>5. ASSUME NEW c \in Charges, AdminReleases(a, c) PROVE StageMatchesRow'
  BY <1>0, <1>2, <1>3, <1>5 DEF AdminReleases, Terminal
<1>6. CASE AdminGivesUp(a)
  BY <1>0, <1>6 DEF AdminGivesUp, StageMatchesRow
<1> QED BY <1>1, <1>4, <1>5, <1>6 DEF AdminStep

(***************************************************************************)
(* Without the races, a handler at work still owns its row and an admin at *)
(* work is the only one to decide on its charge.                           *)
(***************************************************************************)
THEOREM StagesMatch ==
  ASSUME Races = {}
  PROVE  Spec => [](TypeOK /\ StageMatchesRow)
<1>1. Init => StageMatchesRow
  BY DEF Init, StageMatchesRow, Waiting, Detached
<1>2. TypeOK /\ StageMatchesRow /\ [Next]_vars => StageMatchesRow'
  <2> SUFFICES ASSUME TypeOK, StageMatchesRow, [Next]_vars PROVE StageMatchesRow'
    OBVIOUS
  <2>1. CASE UNCHANGED vars
    BY <2>1 DEF StageMatchesRow, vars, columns, money
  <2>2. CASE Next
    BY <2>2, HandlerKeepsStages, MaintenanceKeepsStages, AdminKeepsStages DEF Next
  <2> QED BY <2>1, <2>2
<1> QED BY <1>1, <1>2, TypeCorrect, PTL DEF Spec

-----------------------------------------------------------------------------
(* Every step as a step on one reservation *)

\* The kinds of steps there are, seen from the request_charges row and the ledger.
LockStep(c) ==
  /\ status[c] = "none"
  /\ status' = [status EXCEPT ![c] = "reserved"]
  /\ locked' = [locked EXCEPT ![c] = Estimate(c)]
  /\ UNCHANGED <<amount, paid>>

CollectStep(c, cost) ==
  /\ status[c] \in Active
  /\ status' = [status EXCEPT ![c] = "settled"]
  /\ amount' = [amount EXCEPT ![c] = cost]
  /\ locked' = [locked EXCEPT ![c] = @ - Estimate(c)]
  /\ \A d \in Charges \ {c} : paid'[d] = paid[d]
  /\ PaidOut(c)' = PaidOut(c) + cost
  /\ paid'[c].provider + 2 * Grain
       >= paid[c].provider + Collect(cost, MarketBps, RouterBps).provider

ReturnStep(c) ==
  /\ status[c] \in Active
  /\ status' = [status EXCEPT ![c] = "failed_released"]
  /\ locked' = [locked EXCEPT ![c] = @ - Estimate(c)]
  /\ UNCHANGED <<amount, paid>>

MoveStep(c) ==
  /\ status[c] \in Active
  /\ \E state \in Active : status' = [status EXCEPT ![c] = state]
  /\ UNCHANGED <<amount, locked, paid>>

IdleStep == UNCHANGED <<status, amount, locked, paid>>

\* A settlement takes the whole reservation and pays the parties the whole cost.
LEMMA SettleEffect ==
  ASSUME TypeOK, ExactRates(MarketBps, RouterBps),
         NEW c \in Charges, NEW cost \in Costs, Settle(c, cost), status[c] \in Active
  PROVE  CollectStep(c, cost)
<1> DEFINE fromHeld == MinOf(Estimate(c), cost)
           overage  == cost - fromHeld
           fromCash == MinOf(cash[Owner(c)], overage)
           s        == SettlementOf(c, cost)
<1>1. cost \in Nat /\ Estimate(c) \in Nat /\ cash[Owner(c)] \in Nat
  BY RatesAssumption, RequestFacts DEF TypeOK
<1>2. /\ fromHeld \in Nat /\ overage \in Nat /\ fromCash \in Nat
      /\ fromHeld + overage = cost
  BY <1>1, SMT DEF MinOf
<1>3. s = [collected |-> Collect(fromHeld, MarketBps, RouterBps),
           refund    |-> Estimate(c) - fromHeld,
           extra     |-> Collect(fromCash, MarketBps, RouterBps),
           loss      |-> overage - fromCash]
  BY DEF SettlementOf
<1>4. /\ status' = [status EXCEPT ![c] = "settled"]
      /\ amount' = [amount EXCEPT ![c] = cost]
      /\ locked' = [locked EXCEPT ![c] = @ - Outflow(s.collected) - s.refund]
      /\ paid' = [paid EXCEPT ![c] =
             [provider |-> @.provider + s.collected.provider + s.extra.provider + s.loss,
              market   |-> @.market + s.collected.market + s.extra.market,
              router   |-> @.router + s.collected.router + s.extra.router,
              risk     |-> @.risk + s.loss]]
  BY DEF Settle
<1> HIDE DEF fromHeld, overage, fromCash, s
<1>5. /\ s.collected \in Parties /\ Outflow(s.collected) = fromHeld
      /\ s.extra \in Parties /\ Outflow(s.extra) = fromCash
      /\ s.refund = Estimate(c) - fromHeld /\ s.loss = overage - fromCash
  BY <1>2, <1>3, CollectIsExact DEF Parties
<1>6. locked' = [locked EXCEPT ![c] = @ - Estimate(c)]
  <2>1. locked[c] \in Int
    BY DEF TypeOK
  <2>2. locked[c] - fromHeld - (Estimate(c) - fromHeld) = locked[c] - Estimate(c)
    BY <2>1, <1>1, <1>2, SMT
  <2>3. locked' = [locked EXCEPT ![c] = locked[c] - fromHeld - (Estimate(c) - fromHeld)]
    BY <1>4, <1>5, Zenon
  <2> QED BY <2>2, <2>3
<1>7. \A d \in Charges \ {c} : paid'[d] = paid[d]
  BY <1>4 DEF TypeOK
<1>8. /\ paid'[c].provider = paid[c].provider + s.collected.provider + s.extra.provider + s.loss
      /\ paid'[c].market = paid[c].market + s.collected.market + s.extra.market
      /\ paid'[c].router = paid[c].router + s.collected.router + s.extra.router
  BY <1>4 DEF TypeOK
<1>9. /\ paid[c].provider \in Nat /\ paid[c].market \in Nat /\ paid[c].router \in Nat
      /\ s.collected.provider \in Nat /\ s.collected.market \in Nat
      /\ s.collected.router \in Nat /\ s.extra.provider \in Nat
      /\ s.extra.market \in Nat /\ s.extra.router \in Nat
  BY <1>5 DEF TypeOK, Parties
<1>10. PaidOut(c)' = PaidOut(c) + cost
  BY <1>2, <1>5, <1>8, <1>9, SMT DEF PaidOut, Outflow
<1>11. paid'[c].provider + 2 * Grain
         >= paid[c].provider + Collect(cost, MarketBps, RouterBps).provider
  <2> DEFINE bps == MarketBps + RouterBps
             commission(x) == CommissionAmount(x, bps)
             rest == overage - fromCash
             whole == Collect(cost, MarketBps, RouterBps).provider
  <2>1. bps \in Nat /\ bps <= FullBps
    BY RatesAssumption
  <2>2. rest \in Nat /\ fromHeld + fromCash + rest = cost
    BY <1>1, <1>2, SMT DEF fromHeld, fromCash, overage, MinOf
  <2>3. commission(fromHeld) + commission(fromCash) <= commission(cost) + 2 * Grain
    <3> HIDE DEF rest, bps
    <3> QED BY <1>2, <2>1, <2>2, CommissionOfParts
  <2>4. /\ commission(fromHeld) \in Nat /\ commission(fromCash) \in Nat
        /\ commission(cost) \in Nat
    BY <1>1, <1>2, <2>1, CommissionInNat
  <2>5. /\ s.collected.provider = fromHeld - commission(fromHeld)
        /\ s.extra.provider = fromCash - commission(fromCash)
        /\ whole = cost - commission(cost)
    BY <1>1, <1>2, <1>3, CollectForProvider
  <2>6. s.loss = rest
    BY <1>5
  <2>7. paid'[c].provider
          = paid[c].provider + s.collected.provider + s.extra.provider + s.loss
    BY <1>8
  <2>8. paid[c].provider \in Nat
    BY <1>9
  <2> HIDE DEF bps, commission, rest, whole
  <2>9. paid'[c].provider + 2 * Grain >= paid[c].provider + whole
    BY <1>1, <1>2, <2>2, <2>3, <2>4, <2>5, <2>6, <2>7, <2>8, GrainAssumption, SMT
  <2> QED BY <2>9 DEF whole
<1> QED BY <1>4, <1>6, <1>7, <1>10, <1>11 DEF CollectStep

LEMMA StepKinds ==
  ASSUME TypeOK, StageMatchesRow, Races = {}, ExactRates(MarketBps, RouterBps), [Next]_vars
  PROVE  \/ \E c \in Charges : LockStep(c) \/ ReturnStep(c) \/ MoveStep(c)
         \/ \E c \in Charges, cost \in Costs : CollectStep(c, cost)
         \/ IdleStep
<1> USE DEF columns, money
<1> DEFINE Kinds == \/ \E c \in Charges : LockStep(c) \/ ReturnStep(c) \/ MoveStep(c)
                    \/ \E c \in Charges, cost \in Costs : CollectStep(c, cost)
                    \/ IdleStep
<1>0. /\ \A c \in Charges : StageFits(c)
      /\ DecisionsFit
  BY StageParts
<1>1. ASSUME NEW c \in Charges, HandlerStep(c) PROVE Kinds
  <2>1. CASE Admit(c) \/ RefuseRequest(c) \/ ForwardToCandidate(c)
             \/ UpstreamAnswers(c) \/ SettleStreamFails(c) \/ HandlerStops(c)
    BY <2>1 DEF Admit, RefuseRequest, ForwardToCandidate, UpstreamAnswers, RecordAttempt,
                SettleStreamFails, HandlerStops, IdleStep
  <2>2. ASSUME NEW retryable \in BOOLEAN, UpstreamFails(c, retryable) PROVE Kinds
    BY <2>2 DEF UpstreamFails, RecordAttempt, IdleStep
  <2>3. ASSUME NEW candidates \in 1..MaxCandidates, ReserveRequest(c, candidates)
        PROVE  Kinds
    BY <1>0, <2>3 DEF ReserveRequest, LockStep, StageFits
  <2>4. CASE ReleaseReserved(c)
    BY <1>0, <2>4 DEF ReleaseReserved, ReturnReservation, ReturnStep, StageFits, Waiting, Active
  <2>5. ASSUME NEW cost \in Costs, SettleAnswer(c, cost) \/ SettleStream(c, cost)
        PROVE  Kinds
    <3>1. Settle(c, cost) /\ status[c] \in Active
      BY <1>0, <2>5 DEF SettleAnswer, SettleStream, StageFits, Waiting, Detached, Active
    <3> QED BY <3>1, SettleEffect
  <2>6. ASSUME NEW found, MarkReview(c, found), pc[c] \in {"answered"} \cup Detached
        PROVE  Kinds
    <3>1. status[c] \in {"reserved", "streaming"}
      BY <1>0, <2>6 DEF StageFits, Waiting, Detached
    <3> QED BY <2>6, <3>1 DEF MarkReview, MoveStep, Active
  <2>7. CASE OpenStream(c)
    BY <1>0, <2>7 DEF OpenStream, MoveStep, StageFits, Waiting, Active
  <2>8. ASSUME NEW sse \in BOOLEAN, ReviewAnswer(c, sse) PROVE Kinds
    BY <2>6, <2>8 DEF ReviewAnswer
  <2>9. ASSUME NEW found \in {"usage", "flagged"}, ReviewStream(c, found) PROVE Kinds
    BY <2>6, <2>9 DEF ReviewStream, Detached
  <2>10. CASE ReviewUnsettled(c)
    BY <2>6, <2>10 DEF ReviewUnsettled, Detached
  <2> QED BY <1>1, <2>1, <2>2, <2>3, <2>4, <2>5, <2>7, <2>8, <2>9, <2>10 DEF HandlerStep
<1>2. ASSUME NEW c \in Charges, Age(c) \/ MaintenanceStep(c) PROVE Kinds
  <2>1. CASE Age(c)
    BY <2>1 DEF Age, IdleStep
  <2>2. CASE ReleaseStaleReserved(c) \/ ReleaseUsageMissing(c)
    BY <2>2 DEF ReleaseStaleReserved, ReleaseUsageMissing, ReturnReservation, ReturnStep, Active
  <2>3. CASE ReviewStaleStreaming(c)
    BY <2>3 DEF ReviewStaleStreaming, MoveStep, Active
  <2> QED BY <1>2, <2>1, <2>2, <2>3 DEF MaintenanceStep
<1>3. ASSUME NEW k \in UserKeys, PurgeKey(k) PROVE Kinds
  BY <1>3 DEF PurgeKey, IdleStep
<1>4. ASSUME NEW a \in Admins, AdminStep(a) PROVE Kinds
  <2>0. ASSUME NEW c \in Charges, reading[a] = c PROVE status[c] = "needs_review"
    BY <1>0, <2>0, RequestFacts DEF DecisionsFit
  <2>1. ASSUME NEW c \in Charges, AdminReads(a, c) PROVE Kinds
    BY <2>1 DEF AdminReads, IdleStep
  <2>2. ASSUME NEW c \in Charges, NEW cost \in Costs, AdminSettles(a, c, cost) PROVE Kinds
    BY <2>0, <2>2, SettleEffect DEF AdminSettles, Active
  <2>3. ASSUME NEW c \in Charges, AdminReleases(a, c) PROVE Kinds
    BY <2>0, <2>3 DEF AdminReleases, ReturnReservation, ReturnStep, Active
  <2>4. CASE AdminGivesUp(a)
    BY <2>4 DEF AdminGivesUp, IdleStep
  <2> QED BY <1>4, <2>1, <2>2, <2>3, <2>4 DEF AdminStep
<1>5. CASE UNCHANGED vars
  BY <1>5 DEF vars, IdleStep
<1> QED BY <1>1, <1>2, <1>3, <1>4, <1>5 DEF Next

-----------------------------------------------------------------------------
(* The invariant of the money, and what Charges implements *)

LEMMA KindsKeepMoneyInv ==
  ASSUME MoneyInv,
         \/ \E c \in Charges : LockStep(c) \/ ReturnStep(c) \/ MoveStep(c)
         \/ \E c \in Charges, cost \in Costs : CollectStep(c, cost)
         \/ IdleStep
  PROVE  (ReservationBacked /\ SettledExactly)'
<1> USE DEF ReservationBacked, SettledExactly, IsActive, PaidOut
<1>0. /\ status \in [Charges -> {"none"} \cup Active \cup Terminal]
      /\ amount \in [Charges -> Nat]
      /\ locked \in [Charges -> Int]
      /\ \A c \in Charges : Estimate(c) \in Nat
      /\ ReservationBacked /\ SettledExactly
  BY RequestFacts DEF MoneyInv, TypeOK
<1>1. ASSUME NEW c \in Charges, LockStep(c) PROVE (ReservationBacked /\ SettledExactly)'
  BY <1>0, <1>1, StatusesDiffer DEF LockStep
<1>2. ASSUME NEW c \in Charges, ReturnStep(c) PROVE (ReservationBacked /\ SettledExactly)'
  <2>1. locked[c] - Estimate(c) = 0
    BY <1>0, <1>2 DEF ReturnStep
  <2>2. /\ locked'[c] = 0 /\ status'[c] = "failed_released"
        /\ \A d \in Charges \ {c} : locked'[d] = locked[d] /\ status'[d] = status[d]
        /\ UNCHANGED <<amount, paid>>
    BY <1>0, <1>2, <2>1 DEF ReturnStep
  <2>3. status[c] # "settled"
    BY <1>2, StatusesDiffer DEF ReturnStep
  <2> QED BY <1>0, <2>2, <2>3, StatusesDiffer
<1>3. ASSUME NEW c \in Charges, MoveStep(c) PROVE (ReservationBacked /\ SettledExactly)'
  BY <1>0, <1>3, StatusesDiffer DEF MoveStep
<1>4. ASSUME NEW c \in Charges, NEW cost \in Costs, CollectStep(c, cost)
      PROVE  (ReservationBacked /\ SettledExactly)'
  <2>1. /\ locked[c] - Estimate(c) = 0
        /\ paid[c].provider + paid[c].market + paid[c].router + cost = cost
    BY <1>0, <1>4, StatusesDiffer, RatesAssumption DEF CollectStep
  <2>2. /\ locked'[c] = 0 /\ status'[c] = "settled" /\ amount'[c] = cost
        /\ paid'[c].provider + paid'[c].market + paid'[c].router = cost
        /\ \A d \in Charges \ {c} : /\ locked'[d] = locked[d] /\ status'[d] = status[d]
                                    /\ amount'[d] = amount[d] /\ paid'[d] = paid[d]
    BY <1>0, <1>4, <2>1 DEF CollectStep
  <2> QED BY <1>0, <2>2, StatusesDiffer
<1>5. CASE IdleStep
  BY <1>0, <1>5 DEF IdleStep
<1> QED BY <1>1, <1>2, <1>3, <1>4, <1>5

(***************************************************************************)
(* Without the races, for any number of requests, users, admins and        *)
(* candidates: types, stages, reservations and settlements stay sound.     *)
(***************************************************************************)
THEOREM MoneyInvHolds ==
  ASSUME Races = {}, ExactRates(MarketBps, RouterBps)
  PROVE  Spec => []MoneyInv
<1>1. Init => ReservationBacked /\ SettledExactly
  BY DEF Init, ReservationBacked, SettledExactly, IsActive, PaidOut, NothingPaid, Active
<1>2. MoneyInv /\ [Next]_vars => (ReservationBacked /\ SettledExactly)'
  BY StepKinds, KindsKeepMoneyInv DEF MoneyInv
<1>3. MoneyInv <=> (TypeOK /\ StageMatchesRow) /\ (ReservationBacked /\ SettledExactly)
  BY DEF MoneyInv
<1> QED BY <1>1, <1>2, <1>3, StagesMatch, PTL DEF Spec

(***************************************************************************)
(* Without the races, whatever handlers, relays, maintenance, admins and   *)
(* crashes do, the reservation of a charge is locked exactly as long as    *)
(* the charge is reserved, streaming or in review (plan.md:712).           *)
(***************************************************************************)
THEOREM ReservationsAreBacked ==
  ASSUME Races = {}, ExactRates(MarketBps, RouterBps)
  PROVE  Spec => []ReservationBacked
<1>1. MoneyInv => ReservationBacked
  BY DEF MoneyInv
<1> QED BY <1>1, MoneyInvHolds, PTL

(***************************************************************************)
(* A settled charge has paid its amount exactly, any other charge nothing. *)
(***************************************************************************)
THEOREM SettlementsAreExact ==
  ASSUME Races = {}, ExactRates(MarketBps, RouterBps)
  PROVE  Spec => []SettledExactly
<1>1. MoneyInv => SettledExactly
  BY DEF MoneyInv
<1> QED BY <1>1, MoneyInvHolds, PTL

(***************************************************************************)
(* Once settled or released, a charge keeps its status and no money moves  *)
(* for it: nothing is charged, paid or given back a second time.           *)
(***************************************************************************)
THEOREM TerminalStaysFinal ==
  ASSUME Races = {}, ExactRates(MarketBps, RouterBps)
  PROVE  Spec => TerminalIsFinal
<1> DEFINE Final == \A c \in Charges : status[c] \in Terminal =>
                      /\ status'[c] = status[c]
                      /\ locked'[c] = locked[c] /\ paid'[c] = paid[c]
<1>1. ASSUME MoneyInv, [Next]_vars PROVE Final
  <2>1. \/ \E c \in Charges : LockStep(c) \/ ReturnStep(c) \/ MoveStep(c)
        \/ \E c \in Charges, cost \in Costs : CollectStep(c, cost)
        \/ IdleStep
    BY <1>1, StepKinds DEF MoneyInv
  <2>2. /\ status \in [Charges -> {"none"} \cup Active \cup Terminal]
        /\ locked \in [Charges -> Int]
    BY <1>1 DEF MoneyInv, TypeOK
  <2> QED BY <2>1, <2>2, StatusesDiffer
          DEF LockStep, ReturnStep, MoveStep, CollectStep, IdleStep
<1>2. MoneyInv /\ [Next]_vars => [Final]_vars
  BY <1>1
<1> QED BY <1>2, MoneyInvHolds, PTL DEF Spec, TerminalIsFinal

LEMMA KindsPayProviders ==
  ASSUME MoneyInv, ProviderPaidInFull,
         \/ \E c \in Charges : LockStep(c) \/ ReturnStep(c) \/ MoveStep(c)
         \/ \E c \in Charges, cost \in Costs : CollectStep(c, cost)
         \/ IdleStep
  PROVE  ProviderPaidInFull'
<1>0. /\ status \in [Charges -> {"none"} \cup Active \cup Terminal]
      /\ amount \in [Charges -> Nat]
      /\ SettledExactly
      /\ \A c \in Charges : /\ paid[c].provider \in Nat /\ paid[c].market \in Nat
                            /\ paid[c].router \in Nat
  BY DEF MoneyInv, TypeOK
<1> DEFINE InFull(c) ==
             paid[c].provider + 2 * Grain >= Collect(amount[c], MarketBps, RouterBps).provider
<1>1. ASSUME NEW c \in Charges, status'[c] = "settled", status[c] = "settled",
             paid'[c] = paid[c], amount'[c] = amount[c]
      PROVE  InFull(c)'
  BY <1>1 DEF ProviderPaidInFull
<1>2. ASSUME NEW c \in Charges, LockStep(c) \/ ReturnStep(c) \/ MoveStep(c)
      PROVE  ProviderPaidInFull'
  <2>1. /\ UNCHANGED <<amount, paid>>
        /\ \A d \in Charges : status'[d] = "settled" => status[d] = "settled"
    BY <1>0, <1>2, StatusesDiffer DEF LockStep, ReturnStep, MoveStep
  <2> QED BY <1>1, <2>1 DEF ProviderPaidInFull
<1>3. ASSUME NEW c \in Charges, NEW cost \in Costs, CollectStep(c, cost)
      PROVE  ProviderPaidInFull'
  <2>1. /\ amount'[c] = cost
        /\ \A d \in Charges \ {c} : /\ status'[d] = status[d] /\ amount'[d] = amount[d]
                                    /\ paid'[d] = paid[d]
        /\ paid'[c].provider + 2 * Grain
             >= paid[c].provider + Collect(cost, MarketBps, RouterBps).provider
    BY <1>0, <1>3 DEF CollectStep
  <2>2. paid[c].provider = 0
    <3>1. PaidOut(c) = 0
      BY <1>0, <1>3, StatusesDiffer DEF CollectStep, SettledExactly
    <3> QED BY <1>0, <3>1, SMT DEF PaidOut
  <2>3. InFull(c)'
    <3>1. Collect(cost, MarketBps, RouterBps).provider \in Nat
      BY CollectType, RatesAssumption DEF Parties
    <3> QED BY <2>1, <2>2, <3>1
  <2> QED BY <1>1, <2>1, <2>3, Zenon DEF ProviderPaidInFull
<1>4. CASE IdleStep
  BY <1>4 DEF IdleStep, ProviderPaidInFull
<1> QED BY <1>2, <1>3, <1>4

(***************************************************************************)
(* Without the races, the provider of a settled charge has its share of    *)
(* the whole amount (plan.md:1259), for every amount, estimate and cash    *)
(* balance: rounding two commissions apart costs it at most two grains.    *)
(***************************************************************************)
THEOREM ProvidersArePaidInFull ==
  ASSUME Races = {}, ExactRates(MarketBps, RouterBps)
  PROVE  Spec => []ProviderPaidInFull
<1>1. Init => ProviderPaidInFull
  BY DEF Init, ProviderPaidInFull
<1>2. MoneyInv /\ ProviderPaidInFull /\ [Next]_vars => ProviderPaidInFull'
  BY StepKinds, KindsPayProviders DEF MoneyInv
<1> QED BY <1>1, <1>2, MoneyInvHolds, PTL DEF Spec

(***************************************************************************)
(* Charges implements Reservations: the steps of handlers, relays,         *)
(* maintenance and admins lock each reservation once, end it once as       *)
(* collected or as returned, and otherwise leave its state and its money   *)
(* as they are.                                                            *)
(***************************************************************************)
THEOREM ImplementationOfReservations ==
  ASSUME Races = {}, ExactRates(MarketBps, RouterBps)
  PROVE  Spec => ImplementsReservations
<1> DEFINE mapped == [c \in Charges |-> ReservationState(c)]
           sums   == [c \in Charges |-> PaidOut(c)]
<1>1. Init => R!Init
  BY DEF Init, R!Init, ReservationState, PaidOut, NothingPaid, Active
<1>2. ASSUME MoneyInv, [Next]_vars PROVE [R!Next]_(R!vars)
  <2>0. /\ status \in [Charges -> {"none"} \cup Active \cup Terminal]
        /\ locked \in [Charges -> Int]
        /\ \A c \in Charges : Estimate(c) \in Nat /\ PaidOut(c) \in Nat
        /\ \A c \in Charges : IsActive(c) => locked[c] = Estimate(c) /\ PaidOut(c) = 0
    BY <1>2, RequestFacts, StatusesDiffer, SMT
       DEF MoneyInv, TypeOK, ReservationBacked, SettledExactly, IsActive, PaidOut
  <2>1. ASSUME NEW c \in Charges, LockStep(c) PROVE R!Lock(c)
    <3>1. mapped[c] = "none" /\ mapped' = [mapped EXCEPT ![c] = "locked"]
      BY <2>0, <2>1, StatusesDiffer DEF LockStep, ReservationState, Active
    <3>2. UNCHANGED sums
      BY <2>1 DEF LockStep, PaidOut
    <3>3. locked' = [locked EXCEPT ![c] = [d \in Charges |-> Estimate(d)][c]]
      BY <2>1 DEF LockStep
    <3> QED BY <3>1, <3>2, <3>3 DEF R!Lock
  <2>2. ASSUME NEW c \in Charges, ReturnStep(c) PROVE R!Return(c)
    <3>1. mapped[c] = "locked" /\ mapped' = [mapped EXCEPT ![c] = "returned"]
      BY <2>0, <2>2, StatusesDiffer DEF ReturnStep, ReservationState, Active
    <3>2. UNCHANGED sums
      BY <2>2 DEF ReturnStep, PaidOut
    <3>3. locked' = [locked EXCEPT ![c] = 0]
      <4>1. locked[c] - Estimate(c) = 0
        BY <2>0, <2>2 DEF ReturnStep, IsActive
      <4> QED BY <2>2, <4>1 DEF ReturnStep
    <3> QED BY <3>1, <3>2, <3>3 DEF R!Return
  <2>3. ASSUME NEW c \in Charges, MoveStep(c) PROVE UNCHANGED R!vars
    <3>1. UNCHANGED mapped
      BY <2>0, <2>3, StatusesDiffer DEF MoveStep, ReservationState, Active, Terminal
    <3>2. UNCHANGED <<sums, locked>>
      BY <2>3 DEF MoveStep, PaidOut
    <3> QED BY <3>1, <3>2 DEF R!vars
  <2>4. ASSUME NEW c \in Charges, NEW cost \in Costs, CollectStep(c, cost)
        PROVE  R!CollectFor(c, cost)
    <3>1. mapped[c] = "locked" /\ mapped' = [mapped EXCEPT ![c] = "collected"]
      BY <2>0, <2>4, StatusesDiffer DEF CollectStep, ReservationState, Active
    <3>2. sums' = [sums EXCEPT ![c] = cost]
      <4>1. PaidOut(c)' = cost
        BY <2>0, <2>4, RatesAssumption, SMT DEF CollectStep, IsActive
      <4>2. \A d \in Charges \ {c} : PaidOut(d)' = PaidOut(d)
        BY <2>4 DEF CollectStep, PaidOut
      <4> QED BY <4>1, <4>2
    <3>3. locked' = [locked EXCEPT ![c] = 0]
      <4>1. locked[c] - Estimate(c) = 0
        BY <2>0, <2>4 DEF CollectStep, IsActive
      <4> QED BY <2>4, <4>1 DEF CollectStep
    <3> QED BY <3>1, <3>2, <3>3 DEF R!CollectFor
  <2>5. CASE IdleStep
    <3>1. UNCHANGED mapped
      BY <2>5 DEF IdleStep, ReservationState
    <3>2. UNCHANGED <<sums, locked>>
      BY <2>5 DEF IdleStep, PaidOut
    <3> QED BY <3>1, <3>2 DEF R!vars
  <2>6. \/ \E c \in Charges : LockStep(c) \/ ReturnStep(c) \/ MoveStep(c)
        \/ \E c \in Charges, cost \in Costs : CollectStep(c, cost)
        \/ IdleStep
    BY <1>2, StepKinds DEF MoneyInv
  <2> QED BY <2>1, <2>2, <2>3, <2>4, <2>5, <2>6 DEF R!Next
<1> QED BY <1>1, <1>2, MoneyInvHolds, PTL DEF Spec, ImplementsReservations, R!Spec

-----------------------------------------------------------------------------
(* Replays and locked balances                                             *)

LEMMA KindsKeepReplay ==
  ASSUME KeyInv, StageMatchesRow, ReplayIsOfSettledCharge,
         \/ \E c \in Charges : InsertStep(c)
         \/ \E c \in Charges, state \in Finals : FinishStep(c, state)
         \/ \E k \in UserKeys : DeleteStep(k)
         \/ KeylessStep
  PROVE  ReplayIsOfSettledCharge'
<1>0. /\ status \in [Charges -> {"none"} \cup Active \cup Terminal]
      /\ idem \in [UserKeys -> [status: KeyStates, hash: Nat, charge: Charges \cup {NoCharge}]]
      /\ \A c \in Charges : HasKey(c) => KeyOf(c) \in UserKeys
      /\ KeyHeld
  BY RequestFacts DEF KeyInv, TypeOK
<1>1. ASSUME NEW k \in UserKeys, idem'[k] = idem[k],
             \A d \in Charges : status[d] = "settled" => status'[d] = "settled",
             idem'[k].status = "finalized"
      PROVE  /\ idem'[k].charge \in Charges
             /\ status'[idem'[k].charge] = "settled"
             /\ KeyOf(idem'[k].charge) = k
             /\ Req[idem'[k].charge].hash = idem'[k].hash
  BY <1>0, <1>1 DEF ReplayIsOfSettledCharge
<1>2. ASSUME \A d \in Charges : StatusMoves(d)
      PROVE  \A d \in Charges : status[d] = "settled" => status'[d] = "settled"
  BY <1>0, <1>2, StatusesDiffer DEF StatusMoves
<1>3. ASSUME NEW c \in Charges, InsertStep(c) PROVE ReplayIsOfSettledCharge'
  <2>1. status[c] = "none"
    BY <1>3 DEF InsertStep, StageMatchesRow
  <2>2. \A d \in Charges : status[d] = "settled" => status'[d] = "settled"
    BY <1>0, <1>3, <2>1 DEF InsertStep
  <2>3. \A k \in UserKeys : idem'[k] = idem[k] \/ idem'[k].status = "in_progress"
    BY <1>0, <1>3 DEF InsertStep
  <2> QED BY <1>1, <2>2, <2>3 DEF ReplayIsOfSettledCharge
<1>4. ASSUME NEW c \in Charges, NEW state \in Finals, FinishStep(c, state)
      PROVE  ReplayIsOfSettledCharge'
  <2>1. \A d \in Charges : status[d] = "settled" => status'[d] = "settled"
    BY <1>2, <1>4 DEF FinishStep
  <2>2. SUFFICES ASSUME NEW k \in UserKeys, idem'[k].status = "finalized"
                 PROVE  /\ idem'[k].charge \in Charges
                        /\ status'[idem'[k].charge] = "settled"
                        /\ KeyOf(idem'[k].charge) = k
                        /\ Req[idem'[k].charge].hash = idem'[k].hash
    BY DEF ReplayIsOfSettledCharge
  <2>3. CASE idem'[k] = idem[k]
    BY <1>1, <2>1, <2>2, <2>3
  <2>4. CASE idem'[k] # idem[k]
    <3>1. /\ HasKey(c) /\ k = KeyOf(c)
          /\ idem'[k] = [status |-> state, hash |-> idem[k].hash,
                         charge |-> IF state = "finalized" THEN c ELSE idem[k].charge]
      BY <1>0, <1>4, <2>4 DEF FinishStep, SetKey
    <3>2. state = "finalized" /\ idem'[k].charge = c /\ idem'[k].hash = idem[k].hash
      BY <2>2, <3>1
    <3>3. pc[c] \in AtWork /\ pc[c] \in {"answered", "relaying"}
      BY <1>4, <3>2 DEF FinishStep
    <3>4. idem[k].hash = Req[c].hash
      BY <1>0, <3>1, <3>3 DEF KeyHeld
    <3>5. status[c] \in Active
      BY <3>3 DEF StageMatchesRow, Waiting, Detached, Active
    <3>6. status'[c] = "settled"
      BY <1>4, <3>2, <3>5 DEF FinishStep
    <3> QED BY <3>1, <3>2, <3>4, <3>6
  <2> QED BY <2>3, <2>4
<1>5. ASSUME NEW j \in UserKeys, DeleteStep(j) PROVE ReplayIsOfSettledCharge'
  <2>1. \A k \in UserKeys : idem'[k] = idem[k] \/ idem'[k].status = "absent"
    BY <1>0, <1>5 DEF DeleteStep, NoIdem
  <2>2. status' = status
    BY <1>5 DEF DeleteStep
  <2> QED BY <1>1, <2>1, <2>2 DEF ReplayIsOfSettledCharge
<1>6. CASE KeylessStep
  <2>1. idem' = idem /\ \A d \in Charges : StatusMoves(d)
    BY <1>6 DEF KeylessStep
  <2> QED BY <1>1, <1>2, <2>1 DEF ReplayIsOfSettledCharge
<1> QED BY <1>3, <1>4, <1>5, <1>6

(***************************************************************************)
(* Without the races, what a replay returns is a settled charge of the     *)
(* same user, key and body: the handler that finalizes a key works on a    *)
(* charge that is still active, under the row its reservation inserted.    *)
(***************************************************************************)
THEOREM ReplaysAreOfSettledCharges ==
  ASSUME Races = {}
  PROVE  Spec => []ReplayIsOfSettledCharge
<1>1. Init => ReplayIsOfSettledCharge
  BY DEF Init, ReplayIsOfSettledCharge, NoIdem
<1>2. KeyInv /\ StageMatchesRow /\ ReplayIsOfSettledCharge /\ [Next]_vars
        => ReplayIsOfSettledCharge'
  BY KeyKinds, KindsKeepReplay DEF KeyInv
<1> QED BY <1>1, <1>2, KeysAreChargedOnce, StagesMatch, PTL DEF Spec

(***************************************************************************)
(* Without the races a user's locked balance is the sum of the             *)
(* reservations of the active charges (plan.md:712): the check of          *)
(* reserved_consistency_report can only fail by a race.                    *)
(***************************************************************************)
THEOREM LockedBalanceMatches ==
  ASSUME Races = {}, ExactRates(MarketBps, RouterBps)
  PROVE  Spec => []HeldMatchesActive
<1>1. LedgerInv /\ ReservationBacked => HeldMatchesActive
  <2> SUFFICES ASSUME LedgerInv, ReservationBacked, NEW u \in Users
               PROVE  held[u] = SumFunctionOnSet(Reservation, Of(u))
    BY DEF HeldMatchesActive
  <2>1. IsFiniteSet(Of(u)) /\ \A c \in Of(u) : locked[c] = Reservation[c]
    BY RequestAssumption, FS_Subset DEF Of, ReservationBacked, Reservation
  <2>2. SumFunctionOnSet(locked, Of(u)) = SumFunctionOnSet(Reservation, Of(u))
    BY <2>1, SumSame
  <2> QED BY <2>2 DEF LedgerInv, HeldIsLocked
<1> QED BY <1>1, LedgerBalances, ReservationsAreBacked, PTL
=============================================================================
