------------------------------ MODULE Charges -------------------------------
(***************************************************************************)
(* The life of a charged LLM request: admission, reservation, upstream     *)
(* attempts, streaming, settlement, review and release (src/src/proxy.rs), *)
(* the maintenance task that cleans up after dead handlers                 *)
(* (src/src/maintenance.rs) and the admin decisions on charges in review.  *)
(*                                                                         *)
(* One action is one database transaction, or one statement outside a      *)
(* transaction, or one wait for an upstream: db.rs serialises the          *)
(* transactions, and reads outside them see committed state only.  Whatever*)
(* a handler read earlier may be stale by its next action.                 *)
(*                                                                         *)
(* A user has one API key, so the API key's monthly cap is a user's.       *)
(***************************************************************************)
EXTENDS Commission, FiniteSets, FiniteSetsExt

CONSTANTS
    Users,
    Charges,        \* the requests made; each would create one charge
    Keys, NoKey,    \* idempotency-key headers, and the absence of one
    NoCharge,
    Admins,         \* admin operations that may be under way together
    Req,            \* what each request asks for, see RequestAssumption
    Costs,          \* the amounts settlement may compute from a usage
    InitialCash,
    MonthlyCap,
    MarketBps, RouterBps,
    MaxCandidates,  \* candidates.truncate(3)
    Races           \* the races the code does not exclude that are allowed

ASSUME RequestAssumption ==
    /\ Req \in [Charges -> [user: Users, key: Keys \cup {NoKey}, hash: Nat,
                            stream: BOOLEAN, estimate: Nat \ {0}]]
    /\ NoKey \notin Keys
    /\ NoCharge \notin Charges
    /\ IsFiniteSet(Charges) /\ IsFiniteSet(Users)

\* Config::validate; an amount is never negative.
ASSUME RatesAssumption ==
    /\ MarketBps \in Nat /\ RouterBps \in Nat
    /\ MarketBps + RouterBps <= FullBps
    /\ Costs \subseteq Nat
    /\ InitialCash \in Nat /\ MonthlyCap \in Nat /\ MaxCandidates \in Nat

ASSUME RacesAssumption == Races \subseteq {"slow_call", "admin_race"}

VARIABLES
    pc,      \* where the handler (or the relay task) of each request is
    left,    \* candidates its retry loop has not tried yet
    status,  \* request_charges: status, "none" before the row exists
    amount,  \* request_charges: usage_amount
    evidence,\* request_charges: "usage" if usage_json is known, "flagged" if
             \* audit_flags say stream_usage_missing, else "none"
    attempts,\* what the request_attempts rows of the charge say
    aged,    \* created_at is more than STALE_RESERVED_REQUEST_MINUTES ago
    locked,  \* ledger entries of the charge: net into user_reserved
    paid,    \* ledger entries of the charge: sums by party, and by risk_loss
    cash,    \* user_cash balances
    held,    \* user_reserved balances
    idem,    \* the request_idempotency table
    purged,  \* keys whose row was deleted after its seven days (history)
    reading  \* the charge each admin operation has read, not yet acted upon

columns == <<status, amount, evidence, attempts>>
money   == <<locked, paid, cash, held>>
vars    == <<pc, left, columns, aged, money, idem, purged, reading>>

Waiting   == {"admitted", "routing", "calling", "answered", "opened", "failed"}
Detached  == {"relaying", "unsettled"}
Stages    == Waiting \cup Detached \cup {"new", "ended"}
Active    == {"reserved", "streaming", "needs_review"}
Terminal  == {"settled", "failed_released"}
UserKeys  == Users \X Keys
KeyStates == {"absent", "in_progress", "finalized", "failed_released", "needs_review"}

NothingPaid == [provider |-> 0, market |-> 0, router |-> 0, risk |-> 0]
NoIdem == [status |-> "absent", hash |-> 0, charge |-> NoCharge]

Init ==
    /\ pc = [c \in Charges |-> "new"]
    /\ left = [c \in Charges |-> 0]
    /\ status = [c \in Charges |-> "none"]
    /\ amount = [c \in Charges |-> 0]
    /\ evidence = [c \in Charges |-> "none"]
    /\ attempts = [c \in Charges |-> "none"]
    /\ aged = [c \in Charges |-> FALSE]
    /\ locked = [c \in Charges |-> 0]
    /\ paid = [c \in Charges |-> NothingPaid]
    /\ cash = [u \in Users |-> InitialCash]
    /\ held = [u \in Users |-> 0]
    /\ idem = [k \in UserKeys |-> NoIdem]
    /\ purged = {}
    /\ reading = [a \in Admins |-> NoCharge]

Owner(c)    == Req[c].user
Estimate(c) == Req[c].estimate
HasKey(c)   == Req[c].key # NoKey
KeyOf(c)    == <<Owner(c), Req[c].key>>

GoTo(c, stage) == pc' = [pc EXCEPT ![c] = stage]

-----------------------------------------------------------------------------
(* Admission and reservation: handle_llm_request_with_model, reserve_request *)

\* What a charge counts for in the monthly sum.
CapWeight(c) ==
    CASE status[c] = "settled" -> amount[c]
      [] status[c] \in Active -> Estimate(c)
      [] OTHER                -> 0

Of(u)    == {c \in Charges : Owner(c) = u}
Spent(u) == MapThenSumSet(CapWeight, Of(u))

\* Balance and cap are read outside any transaction.
Admit(c) ==
    /\ pc[c] = "new"
    /\ cash[Owner(c)] >= Estimate(c)
    /\ Spent(Owner(c)) + Estimate(c) <= MonthlyCap
    /\ GoTo(c, "admitted")
    /\ UNCHANGED <<left, columns, aged, money, idem, purged, reading>>

\* Seeded fault: a key is only looked up among the finalized ones.
KeyIsFree_OnlyFinalized(c) == HasKey(c) => idem[KeyOf(c)].status # "finalized"

KeyIsFree(c) == HasKey(c) => idem[KeyOf(c)].status = "absent"

\* Seeded fault: the reservation is not taken from the cash balance.
ReserveRequest_CashKept(c, candidates) ==
    /\ pc[c] = "admitted"
    /\ KeyIsFree(c)
    /\ cash[Owner(c)] >= Estimate(c)
    /\ status' = [status EXCEPT ![c] = "reserved"]
    /\ held' = [held EXCEPT ![Owner(c)] = @ + Estimate(c)]
    /\ locked' = [locked EXCEPT ![c] = Estimate(c)]
    /\ left' = [left EXCEPT ![c] = candidates]
    /\ GoTo(c, "routing")
    /\ UNCHANGED <<amount, evidence, attempts, paid, cash, idem, aged, purged, reading>>

ReserveRequest(c, candidates) ==
    /\ pc[c] = "admitted"
    /\ KeyIsFree(c)
    /\ cash[Owner(c)] >= Estimate(c)
    /\ idem' = IF HasKey(c)
               THEN [idem EXCEPT ![KeyOf(c)] = [status |-> "in_progress",
                                               hash |-> Req[c].hash, charge |-> NoCharge]]
               ELSE idem
    /\ status' = [status EXCEPT ![c] = "reserved"]
    /\ cash' = [cash EXCEPT ![Owner(c)] = @ - Estimate(c)]
    /\ held' = [held EXCEPT ![Owner(c)] = @ + Estimate(c)]
    /\ locked' = [locked EXCEPT ![c] = Estimate(c)]
    /\ left' = [left EXCEPT ![c] = candidates]
    /\ GoTo(c, "routing")
    /\ UNCHANGED <<amount, evidence, attempts, paid, aged, purged, reading>>

\* The key is taken (a conflict, a request in progress, or a finalized one whose
\* charge is returned as a replay), or the cash has gone since it was read.
RefuseRequest(c) ==
    /\ pc[c] = "admitted"
    /\ ~KeyIsFree(c) \/ cash[Owner(c)] < Estimate(c)
    /\ GoTo(c, "ended")
    /\ UNCHANGED <<left, columns, aged, money, idem, purged, reading>>

-----------------------------------------------------------------------------
(* Upstream attempts: forward_non_stream_with_retries and its stream twin    *)

\* update_charge_route, then the call; the route's update may fail.  Without a
\* candidate left the last error ends the loop.
ForwardToCandidate(c) ==
    /\ pc[c] = "routing"
    /\ \/ /\ left[c] > 0
          /\ left' = [left EXCEPT ![c] = @ - 1]
          /\ GoTo(c, "calling")
       \/ /\ GoTo(c, "failed")
          /\ UNCHANGED left
    /\ UNCHANGED <<columns, aged, money, idem, purged, reading>>

\* record_request_attempt ignores the error of its insert.
RecordAttempt(c, result) ==
    /\ \/ attempts' = [attempts EXCEPT ![c] = IF @ = "succeeded" THEN @ ELSE result]
       \/ UNCHANGED attempts
    /\ UNCHANGED <<status, amount, evidence>>

UpstreamFails(c, retryable) ==
    /\ pc[c] = "calling"
    /\ RecordAttempt(c, "failed")
    /\ GoTo(c, IF retryable THEN "routing" ELSE "failed")
    /\ UNCHANGED <<left, aged, money, idem, purged, reading>>

UpstreamAnswers(c) ==
    /\ pc[c] = "calling"
    /\ RecordAttempt(c, "succeeded")
    /\ GoTo(c, IF Req[c].stream THEN "opened" ELSE "answered")
    /\ UNCHANGED <<left, aged, money, idem, purged, reading>>

-----------------------------------------------------------------------------
(* The transactions that end a charge *)

\* user_reserved -> user_cash, reserved_amount; the transfer fails without it.
ReturnReservation(c) ==
    /\ held[Owner(c)] >= Estimate(c)
    /\ held' = [held EXCEPT ![Owner(c)] = @ - Estimate(c)]
    /\ cash' = [cash EXCEPT ![Owner(c)] = @ + Estimate(c)]
    /\ locked' = [locked EXCEPT ![c] = @ - Estimate(c)]
    /\ UNCHANGED paid

\* Seeded fault: a key is finalized without the charge it stands for.
SetKey_ChargeForgotten(c, state) ==
    idem' = IF HasKey(c) /\ idem[KeyOf(c)].status # "absent"
            THEN [idem EXCEPT ![KeyOf(c)] =
                    [status |-> state, hash |-> @.hash, charge |-> @.charge]]
            ELSE idem

\* UPDATE request_idempotency ... WHERE key: nothing happens without a row.
SetKey(c, state) ==
    idem' = IF HasKey(c) /\ idem[KeyOf(c)].status # "absent"
            THEN [idem EXCEPT ![KeyOf(c)] =
                    [status |-> state, hash |-> @.hash,
                     charge |-> IF state = "finalized" THEN c ELSE @.charge]]
            ELSE idem

\* release_reserved_request: the row decides whether anything is released.
ReleaseReserved(c) ==
    /\ pc[c] = "failed"
    /\ IF status[c] = "reserved"
       THEN /\ ReturnReservation(c)
            /\ status' = [status EXCEPT ![c] = "failed_released"]
            /\ SetKey(c, "failed_released")
       ELSE UNCHANGED <<status, money, idem>>
    /\ GoTo(c, "ended")
    /\ UNCHANGED <<left, amount, evidence, attempts, aged, purged, reading>>

\* Seeded fault: what cash does not cover is dropped instead of paid by risk_loss.
SettlementOf_NoRiskLoss(c, cost) ==
    LET fromHeld == MinOf(Estimate(c), cost)
        overage  == cost - fromHeld
        fromCash == MinOf(cash[Owner(c)], overage)
    IN  [collected |-> Collect(fromHeld, MarketBps, RouterBps),
         refund    |-> Estimate(c) - fromHeld,
         extra     |-> Collect(fromCash, MarketBps, RouterBps),
         loss      |-> 0]

\* The parts of settle_reserved_request: what is collected from the reservation,
\* what of it is returned, what is collected from cash on top, and what of the
\* overage the provider gets from risk_loss.
SettlementOf(c, cost) ==
    LET fromHeld == MinOf(Estimate(c), cost)
        overage  == cost - fromHeld
        fromCash == MinOf(cash[Owner(c)], overage)
    IN  [collected |-> Collect(fromHeld, MarketBps, RouterBps),
         refund    |-> Estimate(c) - fromHeld,
         extra     |-> Collect(fromCash, MarketBps, RouterBps),
         loss      |-> overage - fromCash]

\* Seeded fault: the part of the reservation that was not used stays reserved.
Settle_KeepsRemainder(c, cost) ==
    LET s == SettlementOf(c, cost)
    IN  /\ held[Owner(c)] >= Outflow(s.collected)
        /\ cash[Owner(c)] >= Outflow(s.extra)
        /\ held' = [held EXCEPT ![Owner(c)] = @ - Outflow(s.collected)]
        /\ cash' = [cash EXCEPT ![Owner(c)] = @ - Outflow(s.extra)]
        /\ locked' = [locked EXCEPT ![c] = @ - Outflow(s.collected)]
        /\ paid' = [paid EXCEPT ![c] =
             [provider |-> @.provider + s.collected.provider + s.extra.provider + s.loss,
              market   |-> @.market + s.collected.market + s.extra.market,
              router   |-> @.router + s.collected.router + s.extra.router,
              risk     |-> @.risk + s.loss]]
        /\ IF status[c] \in Active
           THEN /\ status' = [status EXCEPT ![c] = "settled"]
                /\ amount' = [amount EXCEPT ![c] = cost]
                /\ evidence' = [evidence EXCEPT ![c] = "usage"]
           ELSE UNCHANGED <<status, amount, evidence>>

\* settle_reserved_request up to the key: the row is updated if it is active, the
\* transfers are made in any case, and one that fails undoes them all.
Settle(c, cost) ==
    LET s == SettlementOf(c, cost)
    IN  /\ held[Owner(c)] >= Outflow(s.collected) + s.refund
        /\ cash[Owner(c)] + s.refund >= Outflow(s.extra)
        /\ held' = [held EXCEPT ![Owner(c)] = @ - Outflow(s.collected) - s.refund]
        /\ cash' = [cash EXCEPT ![Owner(c)] = @ + s.refund - Outflow(s.extra)]
        /\ locked' = [locked EXCEPT ![c] = @ - Outflow(s.collected) - s.refund]
        /\ paid' = [paid EXCEPT ![c] =
             [provider |-> @.provider + s.collected.provider + s.extra.provider + s.loss,
              market   |-> @.market + s.collected.market + s.extra.market,
              router   |-> @.router + s.collected.router + s.extra.router,
              risk     |-> @.risk + s.loss]]
        /\ IF status[c] \in Active
           THEN /\ status' = [status EXCEPT ![c] = "settled"]
                /\ amount' = [amount EXCEPT ![c] = cost]
                /\ evidence' = [evidence EXCEPT ![c] = "usage"]
           ELSE UNCHANGED <<status, amount, evidence>>

\* mark_stream_needs_review: no money moves; the key is marked even when the row
\* has left the two statuses.
MarkReview(c, found) ==
    /\ IF status[c] \in {"reserved", "streaming"}
       THEN /\ status' = [status EXCEPT ![c] = "needs_review"]
            /\ evidence' = [evidence EXCEPT ![c] = found]
       ELSE UNCHANGED <<status, evidence>>
    /\ SetKey(c, "needs_review")
    /\ UNCHANGED <<amount, money>>

-----------------------------------------------------------------------------
(* The answer of a request without stream *)

SettleAnswer(c, cost) ==
    /\ pc[c] = "answered"
    /\ Settle(c, cost)
    /\ SetKey(c, "finalized")
    /\ GoTo(c, "ended")
    /\ UNCHANGED <<left, attempts, aged, purged, reading>>

\* No usage in the answer.  An answer in SSE form leaves the flag that lets
\* maintenance release it, a JSON answer does not.
ReviewAnswer(c, sse) ==
    /\ pc[c] = "answered"
    /\ MarkReview(c, IF sse THEN "flagged" ELSE "none")
    /\ GoTo(c, "ended")
    /\ UNCHANGED <<left, attempts, aged, purged, reading>>

-----------------------------------------------------------------------------
(* The relay of a stream: the task spawned by handle_openai_stream *)

OpenStream(c) ==
    /\ pc[c] = "opened"
    /\ status' = IF status[c] = "reserved"
                 THEN [status EXCEPT ![c] = "streaming"] ELSE status
    /\ GoTo(c, "relaying")
    /\ UNCHANGED <<left, amount, evidence, attempts, aged, money, idem, purged, reading>>

\* The client left, the upstream broke off, or the stream ended without usage.
\* The parser's flags say that the usage is missing whenever there is none.
ReviewStream(c, found) ==
    /\ pc[c] = "relaying"
    /\ MarkReview(c, found)
    /\ GoTo(c, "ended")
    /\ UNCHANGED <<left, attempts, aged, purged, reading>>

SettleStream(c, cost) ==
    /\ pc[c] = "relaying"
    /\ Settle(c, cost)
    /\ SetKey(c, "finalized")
    /\ GoTo(c, "ended")
    /\ UNCHANGED <<left, attempts, aged, purged, reading>>

\* An error of the object store or of the transaction, which changed nothing.
SettleStreamFails(c) ==
    /\ pc[c] = "relaying"
    /\ GoTo(c, "unsettled")
    /\ UNCHANGED <<left, columns, aged, money, idem, purged, reading>>

ReviewUnsettled(c) ==
    /\ pc[c] = "unsettled"
    /\ MarkReview(c, "usage")
    /\ GoTo(c, "ended")
    /\ UNCHANGED <<left, attempts, aged, purged, reading>>

(***************************************************************************)
(* A handler goes no further: the client left and its future was dropped,  *)
(* an error was returned with ? (settling an answer, opening a stream) or  *)
(* only logged (releasing, marking), or the process stopped.  A crash is   *)
(* this action of every handler, and AdminGivesUp, one after the other.    *)
(***************************************************************************)
HandlerStops(c) ==
    /\ pc[c] \in Waiting \cup Detached
    /\ GoTo(c, "ended")
    /\ UNCHANGED <<left, columns, aged, money, idem, purged, reading>>

-----------------------------------------------------------------------------
(* Maintenance: cleanup_once *)

\* Ten minutes go by.  No call and no stream has a time limit, so a handler may
\* still be at work then: "slow_call".
Age(c) ==
    /\ status[c] # "none"
    /\ ~aged[c]
    /\ pc[c] = "ended" \/ "slow_call" \in Races
    /\ aged' = [aged EXCEPT ![c] = TRUE]
    /\ UNCHANGED <<pc, left, columns, money, idem, purged, reading>>

\* Seeded fault: reservations without any recorded attempt are left alone.
ReleaseStaleReserved_AttemptedOnly(c) ==
    /\ status[c] = "reserved" /\ aged[c]
    /\ attempts[c] = "failed"
    /\ ReturnReservation(c)
    /\ status' = [status EXCEPT ![c] = "failed_released"]
    /\ UNCHANGED <<pc, left, amount, evidence, attempts, aged, idem, purged, reading>>

\* Seeded fault: the row is released and the money is not.
ReleaseStaleReserved_MoneyKept(c) ==
    /\ status[c] = "reserved" /\ aged[c]
    /\ attempts[c] # "succeeded"
    /\ status' = [status EXCEPT ![c] = "failed_released"]
    /\ UNCHANGED <<pc, left, amount, evidence, attempts, aged, money, idem, purged, reading>>

\* Only when no attempt was recorded that did not fail.  The key is left as it is.
ReleaseStaleReserved(c) ==
    /\ status[c] = "reserved" /\ aged[c]
    /\ attempts[c] # "succeeded"
    /\ ReturnReservation(c)
    /\ status' = [status EXCEPT ![c] = "failed_released"]
    /\ UNCHANGED <<pc, left, amount, evidence, attempts, aged, idem, purged, reading>>

ReviewStaleStreaming(c) ==
    /\ status[c] = "streaming" /\ aged[c]
    /\ status' = [status EXCEPT ![c] = "needs_review"]
    /\ evidence' = [evidence EXCEPT ![c] = "flagged"]
    /\ UNCHANGED <<pc, left, amount, attempts, aged, money, idem, purged, reading>>

BeingDecided(c) == \E a \in Admins : reading[a] = c

\* Seeded fault: the flag decides, whatever the status has become.
ReleaseUsageMissing_StatusUnchecked(c) ==
    /\ evidence[c] = "flagged"
    /\ ~BeingDecided(c) \/ "admin_race" \in Races
    /\ ReturnReservation(c)
    /\ status' = [status EXCEPT ![c] = "failed_released"]
    /\ UNCHANGED <<pc, left, amount, evidence, attempts, aged, idem, purged, reading>>

\* Five minutes into the review.  The row is checked again in the transaction,
\* but an admin may have read it before: "admin_race".
ReleaseUsageMissing(c) ==
    /\ status[c] = "needs_review" /\ evidence[c] = "flagged"
    /\ ~BeingDecided(c) \/ "admin_race" \in Races
    /\ ReturnReservation(c)
    /\ status' = [status EXCEPT ![c] = "failed_released"]
    /\ UNCHANGED <<pc, left, amount, evidence, attempts, aged, idem, purged, reading>>

\* Seven days after completed_at.
PurgeKey(k) ==
    /\ idem[k].status \in {"finalized", "failed_released", "needs_review"}
    /\ idem' = [idem EXCEPT ![k] = NoIdem]
    /\ purged' = purged \cup {k}
    /\ UNCHANGED <<pc, left, columns, aged, money, reading>>

-----------------------------------------------------------------------------
(* Admin: admin_settle_needs_review_charge, admin_release_needs_review_charge *)

\* The row is read outside the transaction that acts on it: "admin_race".
AdminReads(a, c) ==
    /\ reading[a] = NoCharge
    /\ status[c] = "needs_review"
    /\ ~BeingDecided(c) \/ "admin_race" \in Races
    /\ reading' = [reading EXCEPT ![a] = c]
    /\ UNCHANGED <<pc, left, columns, aged, money, idem, purged>>

\* The key is not passed on, so its row stays as it is.
AdminSettles(a, c, cost) ==
    /\ reading[a] = c
    /\ Settle(c, cost)
    /\ reading' = [reading EXCEPT ![a] = NoCharge]
    /\ UNCHANGED <<pc, left, attempts, aged, idem, purged>>

\* The transfer is made whether or not the row was still in review.
AdminReleases(a, c) ==
    /\ reading[a] = c
    /\ ReturnReservation(c)
    /\ status' = IF status[c] = "needs_review"
                 THEN [status EXCEPT ![c] = "failed_released"] ELSE status
    /\ reading' = [reading EXCEPT ![a] = NoCharge]
    /\ UNCHANGED <<pc, left, amount, evidence, attempts, aged, idem, purged>>

AdminGivesUp(a) ==
    /\ reading[a] # NoCharge
    /\ reading' = [reading EXCEPT ![a] = NoCharge]
    /\ UNCHANGED <<pc, left, columns, aged, money, idem, purged>>

-----------------------------------------------------------------------------
HandlerStep(c) ==
    \/ Admit(c)
    \/ \E candidates \in 1..MaxCandidates : ReserveRequest(c, candidates)
    \/ RefuseRequest(c)
    \/ ForwardToCandidate(c)
    \/ \E retryable \in BOOLEAN : UpstreamFails(c, retryable)
    \/ UpstreamAnswers(c)
    \/ ReleaseReserved(c)
    \/ \E cost \in Costs : SettleAnswer(c, cost)
    \/ \E sse \in BOOLEAN : ReviewAnswer(c, sse)
    \/ OpenStream(c)
    \/ \E found \in {"usage", "flagged"} : ReviewStream(c, found)
    \/ \E cost \in Costs : SettleStream(c, cost)
    \/ SettleStreamFails(c)
    \/ ReviewUnsettled(c)
    \/ HandlerStops(c)

MaintenanceStep(c) ==
    \/ ReleaseStaleReserved(c)
    \/ ReviewStaleStreaming(c)
    \/ ReleaseUsageMissing(c)

AdminStep(a) ==
    \/ \E c \in Charges : AdminReads(a, c)
    \/ \E c \in Charges, cost \in Costs : AdminSettles(a, c, cost)
    \/ \E c \in Charges : AdminReleases(a, c)
    \/ AdminGivesUp(a)

Next ==
    \/ \E c \in Charges : HandlerStep(c) \/ Age(c) \/ MaintenanceStep(c)
    \/ \E k \in UserKeys : PurgeKey(k)
    \/ \E a \in Admins : AdminStep(a)

Spec == Init /\ [][Next]_vars

(***************************************************************************)
(* The maintenance task runs every ten minutes and time goes on.  Nothing  *)
(* is assumed of handlers, clients, upstreams or admins.                   *)
(***************************************************************************)
FairSpec == Spec /\ \A c \in Charges : WF_vars(Age(c)) /\ WF_vars(MaintenanceStep(c))

-----------------------------------------------------------------------------
(* Properties *)

\* Every variable has the type of the table or task it stands for.
TypeOK ==
    /\ pc \in [Charges -> Stages]
    /\ left \in [Charges -> 0..MaxCandidates]
    /\ status \in [Charges -> {"none"} \cup Active \cup Terminal]
    /\ amount \in [Charges -> Nat]
    /\ evidence \in [Charges -> {"none", "usage", "flagged"}]
    /\ attempts \in [Charges -> {"none", "failed", "succeeded"}]
    /\ aged \in [Charges -> BOOLEAN]
    /\ locked \in [Charges -> Int]
    /\ paid \in [Charges -> [provider: Nat, market: Nat, router: Nat, risk: Nat]]
    /\ cash \in [Users -> Nat] /\ held \in [Users -> Nat]
    /\ idem \in [UserKeys -> [status: KeyStates, hash: Nat,
                              charge: Charges \cup {NoCharge}]]
    /\ purged \subseteq UserKeys
    /\ reading \in [Admins -> Charges \cup {NoCharge}]

(***************************************************************************)
(* While a handler works on a charge nobody else has ended it, and while   *)
(* an admin decides on a charge it is in review and no other admin decides *)
(* on it.  Everything the handlers do without looking at the row again     *)
(* rests on this, and it holds only without the races.                     *)
(***************************************************************************)
StageMatchesRow ==
    /\ \A c \in Charges :
          /\ pc[c] \in {"new", "admitted"} => status[c] = "none"
          /\ pc[c] \in Waiting \ {"admitted"} => status[c] = "reserved"
          /\ pc[c] \in Detached => status[c] = "streaming"
          /\ aged[c] => pc[c] = "ended"
    /\ \A a, b \in Admins :
          reading[a] # NoCharge =>
              /\ status[reading[a]] = "needs_review"
              /\ reading[a] = reading[b] => a = b

IsActive(c) == status[c] \in Active

(***************************************************************************)
(* A charge that is reserved, streaming or in review has exactly its       *)
(* reservation locked, and any other charge has nothing locked: no path    *)
(* through the handlers, the maintenance task and the admin leaves money   *)
(* behind or gives it back twice.                                          *)
(***************************************************************************)
ReservationBacked ==
    \A c \in Charges : locked[c] = IF IsActive(c) THEN Estimate(c) ELSE 0

(***************************************************************************)
(* "user_reserved matches the in-flight requests" (plan.md:712), the check *)
(* that reserved_consistency_report makes: a user's locked balance is the  *)
(* sum of the reservations of that user's active charges.                  *)
(***************************************************************************)
Reservation == [c \in Charges |-> IF IsActive(c) THEN Estimate(c) ELSE 0]

HeldMatchesActive == \A u \in Users : held[u] = SumFunctionOnSet(Reservation, Of(u))

(***************************************************************************)
(* Whatever the races, a user's locked balance never exceeds what active   *)
(* charges account for: no reservation is left locked without a charge by  *)
(* which it could still be settled or released.                            *)
(***************************************************************************)
HeldNeverExceedsActive ==
    \A u \in Users : held[u] <= SumFunctionOnSet(Reservation, Of(u))

PaidOut(c) == paid[c].provider + paid[c].market + paid[c].router
Balance    == [u \in Users |-> cash[u] + held[u]]
Received   == [c \in Charges |-> PaidOut(c) - paid[c].risk]

(***************************************************************************)
(* A settled charge has paid its amount to the provider, the market and    *)
(* the router, neither more nor less, and no other charge has paid anyone, *)
(* whichever of handler, relay and admin settled it (plan.md:756).         *)
(***************************************************************************)
SettledExactly ==
    \A c \in Charges :
        PaidOut(c) = IF status[c] = "settled" THEN amount[c] ELSE 0

(***************************************************************************)
(* What the money of a charge rests on, by which the theorems are proved:  *)
(* types, stages that fit the rows, reservations and settlements (reserve, *)
(* settle_reserved_request, release_reserved_request and the other ends).  *)
(***************************************************************************)
MoneyInv == TypeOK /\ StageMatchesRow /\ ReservationBacked /\ SettledExactly

(***************************************************************************)
(* An estimate that was too low does not reduce the provider's income      *)
(* (plan.md:1259): the provider of a settled charge gets its share of the  *)
(* whole amount, less at most the one unit per commission by which         *)
(* rounding two collected parts can differ from rounding their sum.        *)
(***************************************************************************)
ProviderPaidInFull ==
    \A c \in Charges : status[c] = "settled" =>
        paid[c].provider + 2 * Grain
            >= Collect(amount[c], MarketBps, RouterBps).provider

(***************************************************************************)
(* No money appears or vanishes: what the users have lost is what the      *)
(* parties to the charges have received, less what risk_loss has paid.     *)
(***************************************************************************)
MoneyConserved ==
    SumFunctionOnSet(Balance, Users) + SumFunctionOnSet(Received, Charges)
        = InitialCash * Cardinality(Users)

(***************************************************************************)
(* An idempotency key never gives rise to two charges (plan.md:1833), as   *)
(* long as its row has not been deleted after the seven days.              *)
(***************************************************************************)
OneChargePerKey ==
    \A c, d \in Charges :
        /\ c # d /\ HasKey(c) /\ KeyOf(c) = KeyOf(d)
        /\ status[c] # "none" /\ status[d] # "none"
        => KeyOf(c) \in purged

(***************************************************************************)
(* What a replay returns is a settled charge of the same request body: the *)
(* row a finalized key points to was settled and stays so.                 *)
(***************************************************************************)
ReplayIsOfSettledCharge ==
    \A k \in UserKeys : idem[k].status = "finalized" =>
        /\ idem[k].charge \in Charges
        /\ status[idem[k].charge] = "settled"
        /\ KeyOf(idem[k].charge) = k
        /\ Req[idem[k].charge].hash = idem[k].hash

(***************************************************************************)
(* A charge is over when it is settled or released: no later step of a     *)
(* handler, the maintenance task or an admin changes its status or moves   *)
(* money for it.                                                           *)
(***************************************************************************)
TerminalIsFinal ==
    [][\A c \in Charges : status[c] \in Terminal =>
          /\ status'[c] = status[c]
          /\ locked'[c] = locked[c] /\ paid'[c] = paid[c]]_vars

(***************************************************************************)
(* When a handler ends without an answer from upstream and without having  *)
(* released its reservation, maintenance returns it in the end.            *)
(***************************************************************************)
AbandonedReservationReturned ==
    \A c \in Charges :
        (pc[c] = "ended" /\ status[c] = "reserved" /\ attempts[c] # "succeeded")
            ~> (status[c] = "failed_released" /\ locked[c] = 0)

(***************************************************************************)
(* A charge left streaming by a relay that is gone does not stay so: it is *)
(* put into review and, its usage being unknown, released.                 *)
(***************************************************************************)
AbandonedStreamResolved ==
    \A c \in Charges :
        (pc[c] = "ended" /\ status[c] = "streaming")
            ~> (status[c] \in Terminal /\ locked[c] = 0)

(***************************************************************************)
(* Maintenance alone ends what handlers and relays abandon: reservations   *)
(* no upstream has answered for, and streams.                              *)
(***************************************************************************)
AbandonedIsEnded == AbandonedReservationReturned /\ AbandonedStreamResolved

-----------------------------------------------------------------------------
(* Refinement *)

ReservationState(c) ==
    CASE status[c] = "settled"         -> "collected"
      [] status[c] = "failed_released" -> "returned"
      [] status[c] \in Active          -> "locked"
      [] OTHER                         -> "none"

R == INSTANCE Reservations WITH
         Requests  <- Charges,
         Estimates <- [c \in Charges |-> Estimate(c)],
         Amounts   <- Costs,
         state     <- [c \in Charges |-> ReservationState(c)],
         locked    <- locked,
         paidOut   <- [c \in Charges |-> PaidOut(c)]

(***************************************************************************)
(* Handlers, relays, maintenance and admins together lock each reservation *)
(* once and end it once, collected or returned: whatever they do beyond    *)
(* that moves no money.                                                    *)
(***************************************************************************)
ImplementsReservations == R!Spec
=============================================================================
