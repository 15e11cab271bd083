# Verification of cc-switch-market

`cc-switch-market` (Rust, `src/src`) sells LLM requests. A user tops up a balance, sends requests with
an API key, and the market forwards each of them to a *share* that a provider offers behind a
`cc-switch-router`. It charges the user for the tokens, splits the money between the provider, the
market and the router, and pays the providers out. This directory holds TLA+ models of it, TLC
configurations that check them on small instances, and proofs that TLAPS checks for all instances.

Source lines are written as `file:line` relative to `src/`: `src/proxy.rs:892`, `plan.md:712`.

## 1. The system

### What everything rests on

All state that matters is in one libSQL database. `db.rs` gives `begin_immediate`, a writing
transaction that excludes every other one, and single statements outside a transaction, which commit
at once. The process is one tokio runtime: HTTP handlers, relay tasks of streams and periodic tasks
interleave at every `.await`. So the grain of all models is: **one action is one transaction, or one
statement outside a transaction, or one wait for another system**. What a handler read in one action
may be stale in its next one. A process may stop between any two actions; a handler's future is
dropped when its client disconnects.

### Components

| Component | State | Operations | Meets | Hard about it | What makes it correct |
|---|---|---|---|---|---|
| Ledger (`ledger.rs`) | `wallet_accounts`, `ledger_entries` | `transfer` inside a caller's transaction, balance report | everything that moves money | users' and providers' balances must not become negative, platform accounts may | every amount leaves one account and enters another, balances agree with what they stand for |
| Commission split (`proxy.rs:1461-1542`) | none | `commission_split`, `transfer_collected_usage_amount` | settlement | rounding of unrounded amounts, three parts computed two ways | the parts add up to the amount |
| Charge lifecycle (`proxy.rs`) | `request_charges`, `request_idempotency`, `request_attempts`, handlers, relay tasks | admit, reserve, forward, stream, settle, release, mark for review | ledger, share selection, object store, upstream | stale reads, races with maintenance and admins, crashes, failing settlements, keys used twice | every reservation is ended once, exactly, and in the end |
| Maintenance (`maintenance.rs`) | none of its own | release stale reservations, review stale streams, release reviews without usage, purge keys, delete debug objects and unbound attachments, close tickets | charges, object store, tickets | ends and deletes what a slow handler may still be working on, selected some time before | ends what nobody else will, and nothing else |
| Top-ups (`topups.rs`, `admin.rs:385`) | `topup_orders`, `processed_webhooks` | checkout, webhook, expiry, admin refund | Dodo Payments, ledger | repeated, late and reordered events; refunds of spent money | a top-up is credited once, reversed once |
| Provider earnings (`provider.rs`) | `client_payable` balances | convert to balance, transfer to another provider | ledger, payouts | the balance is shared with payouts | never below zero |
| Payouts (`provider.rs:740`, `admin.rs:2540-2965`, `gateio.rs`) | `payout_requests`, `payout_attempts`, `payout_reserved` balances, the worker | create, execute, mark paid, fail, cancel | Gate.io, ledger, tickets | an external transfer without a reference or time limit, two executors, admins who decide meanwhile | paid at most once, never paid and returned |
| Tickets (`support.rs`, `admin.rs`, `maintenance.rs:30-82`) | `tickets`, `ticket_messages`, `ticket_attachments`, usage reports | open, report a charge, answer, close, delete, note, bind images; close after silence | payouts, object store, maintenance | a ticket is read and then changed in a later transaction; files and rows are removed apart | an unheard message is not closed over; what is closed has its date |
| Debug objects (`object_store.rs`, `proxy.rs`, `maintenance.rs:152-458`) | files, `object_refs`, keys in `request_charges` | store body and meta data of a request, expire them after the retention | charges, tickets | three records of one object; a report may come between selection and removal | evidence of an open report stays; what has expired goes |
| Share selection, sticky routes (`proxy.rs:381-423, 1543-1819, 3039-4135`, `scheduling.rs`) | `router_shares`, `market_share_sticky_routes`, `market_response_sticky_routes`, routing rules, allow lists | filter, score, order, stick, unstick, retry | router sync, health | what was selected is stale when it is called; concurrent requests of one session | a session stays on its share while that serves; no share without a price is tried |
| Share health (`proxy.rs:2534-2717`, `failure.rs`) | failure counts, rests, `model_share_blocks` | record success and failure, rest, block, release | share selection, router | the count is read before it is written | a share rests only for failures that count, for as long as they prescribe |
| Router sync (`router_client.rs`) | copy of the share list, runtime states the router was told | copy the list, send one state, send all states | router | lost, crossed and garbage answers; spawned calls nobody waits for | the copies agree once changes stop |
| Request logs (`router_request_logs.rs`) | `last_synced_at` of charges | select, post, mark | router, charges | refused, lost and late reports; a charge that ends during its report | what is marked was received; every end is reported |
| Router account (`router_account.rs`) | session file | login, refresh | router | file I/O | - |
| Sessions and login (`auth.rs`) | identity file, login codes, sessions | register, ask for a code, verify it, start again when the router forgot the installation | router | several logins replace the one identity file | who keeps trying gets in |
| API keys (`api_keys.rs`) | `api_keys`, allow lists, a file of secrets per user | create, pause, delete, set the allow list | admission of requests | the file is read, changed and written without a lock | file and rows agree |
| Pricing (`pricing.rs`, `db.rs:302-349, 756-973`) | `models`, `model_prices`, `model_vendor_discounts` | create, price, move, withdraw and delete models; match a request; migrate and seed at every start | settlement, selection | the key of a model is stored twice, seven handlers and every start write it | the tables agree; an offline model is not sold under another |
| Usage parsing (`usage.rs`) | the parser of a relay | feed a chunk, finish | relay, settlement | chunks cut anywhere, four vendors' ways to count | charged is what was reported |
| Limiter, process lock, tunnel (`rate_limit.rs`, `process_lock.rs`, `market_tunnel.rs`) | windows, lock file | check, take, serve | handlers | - | at most n per window |
| Configuration, dashboard, web client | files, settings | read | everything | I/O | - |

`PROJECT.json` lists the same components with their status and every hazard at its line.

### How money flows

```

Dodo --payment_clearing--> user_cash --reserve--> user_reserved --settle--> client_payable (provider, router)
                           ^    |                     |                      fee_revenue (market)
                           |    +--refund to Dodo     +--release--> user_cash
                           +------------- convert_to_balance ------------- client_payable
                                                     client_payable --create--> payout_reserved
                              payout_reserved --paid--> settlement_paid, fee_revenue
                                              --failed, cancelled--> client_payable
risk_loss pays the provider what a user cannot pay, and Dodo what a user has spent.
```

## 2. Modules

| Module | Models | Role |
|---|---|---|
| `Commission` | `proxy.rs:1461-1542` | pure operators: half-even rounding, split, collection |
| `Reservations` | what reserving promises | abstract specification: lock once, end once |
| `Charges` | `proxy.rs:335-1442`, `maintenance.rs:84-150, 460-802` | the life of charged requests; EXTENDS `Commission`, implements `Reservations` |
| `Payouts` | `provider.rs:371-465, 740-937`, `admin.rs:2540-2965, 3160-3212`, `gateio.rs` | payouts and earnings; implements `Reservations` |
| `Topups` | `topups.rs`, `admin.rs:217-272, 385-487` | orders, webhooks, refunds |
| `ShareHealth` | `failure.rs`, `proxy.rs:2534-2717` | failures, rests and blocks of shares |
| `Routing` | `proxy.rs:381-423, 1646-1819, 2365-2459, 3039-4135` | selection, sticky routes, retries; EXTENDS `ShareHealth` |
| `ShareSync` | `router_client.rs` | the share list and the runtime states, copied both ways |
| `RequestLogs` | `router_request_logs.rs` | reports of charges to the router |
| `Access` | `auth.rs`, `api_keys.rs` | logins through the router, API keys and their files |
| `Tickets` | `support.rs`, `admin.rs`, `maintenance.rs:30-82` | tickets, messages, attachments |
| `Evidence` | `object_store.rs`, `proxy.rs`, `maintenance.rs:84-458` | debug objects and all clean-ups; EXTENDS `Tickets` |
| `StreamUsage` | `usage.rs`, `proxy.rs:742-797` | the usage read from a relayed stream |
| `Catalog` | `pricing.rs`, `db.rs:302-349, 756-973` | models, prices, discounts, and what a start does to them |
| `MCMetering`, `MCCharges`, `MCPayouts`, `MCTopups`, `MCRouting`, `MCRouterLink`, `MCSupport` | | the instances TLC checks |
| `AmountProofs` | | lemmas about sums over finite sets, theorems about `Commission`; cited by the next four |
| `ChargesProofs`, `PayoutsProofs`, `TopupsProofs` | | theorems about money |
| `MeteringProofs` | | theorems about prices, the reading of streams and the split, as `MCMetering` checks them |
| `RoutingProofs`, `RouterLinkProofs`, `EvidenceProofs` | | theorems about routing, request logs and API keys, tickets and evidence |

Definitions whose name has a suffix after an underscore (`Settle_KeepsRemainder`) are seeded faults: the
definition after them, changed as a plausible bug would change it. They are used by no specification;
`PROJECT.json` says which property catches which.

### Commission

`Collect(amount, market, router)` is what `transfer_collected_usage_amount` writes: `commission_amount`
rounds `amount * bps / 10000` half-even to 8 decimals, `commission_split` computes the total and the
market's part and leaves the rest to the router, and the provider gets what remains if that is
positive. Amounts are natural numbers of *grains*; the 8-decimal unit is `Grain` grains, so that amounts
with more decimals than the rounding (products of tokens and prices are not rounded) are included.

### Charges

One element of `Charges` is one request. `pc` is where its handler, or the relay task of its stream, is:

| `pc` | In the code |
|---|---|
| `new`, `admitted` | before and after the balance and cap checks (`proxy.rs:424-455`), which read outside a transaction |
| `routing`, `calling` | the retry loop over candidates (`forward_*_with_retries`) |
| `answered`, `opened` | the upstream has answered; nothing is settled yet |
| `failed` | about to `release_reserved_request` |
| `relaying`, `unsettled` | the spawned relay, and the relay after settling failed |
| `ended` | the handler or relay is gone, for whatever reason |

`status`, `amount`, `evidence`, `attempts` are the columns that guards read, `aged` is "created more than
ten minutes ago", `idem` the table of idempotency keys, `cash` and `held` the balances of `user_cash`
and `user_reserved`, `locked` and `paid` the ledger entries by charge, and `reading` the charge an admin
operation has read and not yet acted upon (`proxy.rs:1285`, outside the transaction).

`HandlerStops` is every way in which a handler goes no further: a dropped future, an error returned with
`?`, a stopped process. `Races` names two interleavings that the code does not exclude: `slow_call`, a
call or stream that outlives the ten minutes of maintenance, and `admin_race`, two decisions on one
charge in review. The properties hold with `Races = {}`; what remains true with both is checked by
`charges_races`, and `charges_slow_call` shows what goes wrong with the first (the second: section 5). Both
races are real: no call has a time limit, and the admin's read is outside the transaction.

### Payouts

One element of `Payouts` is one request; `status` is its row, `locked` and `settled` its ledger entries,
`payable` and `reserved` the balances of `client_payable` and `payout_reserved`. `stage` is where
`execute_gateio_by_id` is: `claimed` (its `UPDATE ... WHERE status = 'pending'` got the row), `sent`,
`pushed` (a 2xx answer was stored), `erred`, `ended`, or `stopped`. `inflight` is an order Gate.io has not
decided on, `moved` how often it moved the money: `TransferDecided` may happen after the caller gave up.
`scan` and `working` are the worker's ids and the one it executes. `blind` remembers which payouts an
admin released while their transfer was under way or done.

### Topups

`order` is the row's status, `due` the pending orders past `expires_at`, `entered` and `back` the ledger
entries of a top-up out of and into `payment_clearing`, `cash` the users' balances. `payment` and `sent`
are Dodo's: a session stays open when its order expires or an attempt fails, one payment sends two
events that the code takes for success, and events arrive in any order. `processed` is
`processed_webhooks`; a repeated delivery changes nothing, so it is a stuttering step. `early` remembers
refunds that were processed while their order was still pending.

### ShareHealth and Routing

A request's `stage` follows the handler: the scope of its session (`scoped`), one more synchronisation
when nothing was found (`syncing`, `synced`), selection (`selected`), the calls of its candidates
(`calling`, `counting`, `failing`) and what a success leaves (`served`, `kept`). `bound`, `found`,
`candidates`, `at`, `failed` and `counted` are its locals, which may be stale when it uses them. `row` is
a share's row in `router_shares` as selection tells it apart; `rest`, `failures`, `lastKind` and `blocks`
are its health; `route` and `answerKey` are the two sticky tables. The weighted score and the rendezvous
hash are data: eligible shares that nothing else ranks come in any order.

### ShareSync and RequestLogs

`entry` is the router's list, `rows` the market's copy, `marks` what the market holds back and `view` what
the router believes of it. `deltas` are spawned calls on their way, in no order. A worker (the loop, a
request without candidate, an admin) asks, is answered or not, and applies. A pass of `RequestLogs`
selects, posts and marks; its request may reach the router after the pass gave up (`orphan`). `overtaken`
remembers charges that ended while a report of them was under way: the mark is stamped after the answer
and not with the time of the SELECT, so such an end is lost (section 5).

### Access

`idFile` is `web-auth-identity.json`, `known` what the router remembers; `login`, `used`, `code` and
`retried` are where each person's login is. For the keys, `op` and `readFile` are a handler between reading
the user's file of secrets and writing it; `torn` is a file that is half written; `disturbed` remembers
that two handlers overlapped or one was cut off, because then the code makes no promise (section 5).

### Tickets and Evidence

A handler (`hstage`, `on`, `read`) reads a ticket in one action and changes it in a later one; an admin who
answers reads nothing, but takes the time of the message before the transaction that writes it (`stamp`). `lastUser`,
`lastAdmin` and `clock` give the times that the closing after seven days looks at; `unheard` remembers
tickets on which the user wrote and no admin acted since. An object is three things that are written and
removed apart: a file (`onDisk`), a row of `object_refs` (`refs`), a key of its charge (`keys`). `mstage` and
`todo` are where maintenance is and what it selected; `cleaning` is the charge whose objects it is removing
under the write lock.

### StreamUsage and Catalog

A stream is a sequence of symbols, one for each place where a cut makes a difference: the parts of a
delimiter, the two bytes of a character, the parts of a line. `Chunk` feeds up to `MaxChunk` of them to
`parser`, which is `SseUsageParser`; `EndOfBody` and `Interrupt` are the two ways a relay ends.

`models`, `prices`, `discounts` are the tables, `migrated` the marker of the price migration, `server` the
step of the start-up, `admin` a handler between its two statements. An amount stands for the four prices of
a row; `tens` counts how often the migration has multiplied it. A database of before prices had models has prices of
`NoModel`: seeding or the last step of a start gives them one before the market opens.

## 3. Runs

| Run | Instance | Shows |
|---|---|---|
| `metering` | rates up to 50 % in total, all amounts up to a bound with `Grain` > 1; 1,176 streams of three events of four vendors; three models and prices over four patterns | the split is exact and nearest; chunks make no difference and the reported usage is charged; models and prices agree, an offline model is not undercut, no price stays unmigrated |
| `charges_money` | a stream and a plain request of one user, costs of zero, below and above the reservation and above the cash, two candidates, an admin | types, backed reservations, exact settlement, terminal statuses, refinement |
| `charges_unattended` | one request three times under one key (stream, plain, another body), no admin, fairness of maintenance | a key gives one charge; what is abandoned is ended |
| `charges_races` | one key, two admins, all races | nothing is stranded in `user_reserved`, money is conserved |
| `charges_slow_call` | slow calls | **violated**: a late settlement takes another request's reservation (`proxy.rs:1137`) |
| `payouts` | two Gate.io payouts of one owner, a worker that scans one row at a time, another owner | escrow, single transfer, no return by an error path, worker progress, refinement |
| `payouts_released` | a Gate.io and a manual payout | **violated**: an admin's release and the transfer both happen (`admin.rs:2898`) |
| `topups` | two top-ups of one user, one with a fee | credited once, reversed once, recorded means applied, pending ends |
| `routing` | three shares (one drops connections, one refuses or errs, one speaks another protocol); two concurrent requests of one session, and one request against every change of the tables | columns of health agree, candidates are priced, a session stays while its share serves |
| `router_logs` | two charges, the timer and one triggered pass, batches of one | a mark can be trusted; every end is reported |
| `router_link` | two shares or one with more changes; two people and the forgetful router; two keys and two handlers | the list and the marks are copied in the end, who keeps trying logs in, files agree with rows |
| `support` | five views: two handlers on one ticket, one on two tickets of which one may be deleted, a ticket with images, two charges with objects, a charge with a ticket | consistency, evidence stays, unheard is not closed, what is silent or expired is dealt with |

The bounds, and why they are enough:

- *Two or three requests, payouts or top-ups.* The actors meet only in the rows of one request, the
  balance of one user or owner, and one key. Two of each give all such meetings; a third request is there
  where a key is retried. The theorems hold for any number.
- *Costs.* `{0, 15, 93}` against estimates of 40 and 20 and a cash of 100 take every branch of
  `settle_reserved_request`: nothing, a remainder, an overage paid from cash, and one that `risk_loss` pays.
- *`MaxCandidates`* is 3 in the code (`candidates.truncate(3)`); two are enough for a retry.
- *`MaxEarned`, `MaxCash`* bound balances fed from outside a model; they leave room for two payouts, and
  for a reversal that meets more, the same and less cash than it needs.
- *`ScanLimit`* is 10 in the code; 1 makes the worker scan again between two payouts.
- *Views.* `MCMetering`, `MCRouting`, `MCRouterLink` and `MCSupport` explore several small instances in one
  run; `focus`, fixed by the initial state, says which. Each restricts which steps are taken, never what a
  step does. The parts of `MCMetering` and of `MCRouterLink` share no state. In `MCRouting` and `MCSupport` they
  do: the product is out of TLC's reach, and the proofs cover it.
- *`SelectLimit`* is 100 in the code, `MaxAttempts` 3, `BatchLimit` of logs 200, `BatchSize` of clean-ups
  more than any instance: small ones make the limit bite.
- *`Catalog`.* One admin handler at a time; the migration is cut off once; the market does not stop between
  the two statements of a handler (`HandlersEnd`). Without the last `TablesAgree` is violated (section 5). An old
  database has at most one price, with or without its model.
- *`MaxForgets`, `MaxFaults`, `MaxChanges`, `MaxGarbage`* bound faults, so that liveness can hold at all.
- *Symmetry* is used in `metering` alone, which checks invariants only, over the ids of models and prices.

Deadlock is not checked: every model comes to rest when all requests and bounded changes are over.

### Fairness

- `Charges!FairSpec`: time goes on and the maintenance task, a loop with a ten-minute sleep that logs
  errors and continues, acts on every row that stays eligible (weak fairness per charge). Nothing is
  assumed of handlers, upstreams, clients or admins, so what is shown does not depend on them.
- `Payouts!FairSpec`: the worker, a loop with a sleep, scans and takes up what it found; an execution goes
  on. The last includes that a call to Gate.io ends. The code sets no time limit, so that is an
  assumption about the network, and the liveness of the worker depends on it.
- `Topups!FairSpec`: time passes and the expiry task runs. Nothing is assumed of Dodo.
- `RequestLogs!FairLogsSpec`: the timer's loop goes on; of the batches it posts over and over one is received,
  answered and marked before the next stop (strong fairness, an assumption about network and router).
- `MCRouterLink!MCSpec`: the loop of `spawn_share_sync` goes on and a call made again and again gets through;
  a person who is `Persistent` keeps trying. Nothing is assumed of spawned calls or of other people.
- `Evidence!FairSpec`: the maintenance loop goes round. Nothing is assumed of users, admins and handlers.

## 4. Proofs

Every theorem holds for all values of the constants that satisfy the assumptions in the modules.

- **Sums** (`AmountProofs`). A sum over a finite set changes by what one or two of its members change, grows with its
  members, and is zero over zeros. The module proves `SumFunctionOnSet` equal to "one member and the sum of
  the others" and derives the rest by a least counterexample: of the subsets on which a claim fails one has
  the smallest cardinality, and that is not empty. No induction theorem with an operator parameter is used.
- **Commissions** (`AmountProofs`). `CollectIsExact`: for every amount and all rates with `ExactRates` (the
  rounded total never exceeds the amount; true when the total is at most 50 %), the three parts are natural
  numbers that add up to the amount. `SplitsAreExact` adds that the commissions are the nearest ones:
  `CommissionIsNearest` reduces half-even rounding to linear facts about quotient and remainder.
  `SplitsStayExact` (`MeteringProofs`) states it of the behaviours that `metering` checks up to `MaxAmount`.
- **Charges, whatever the races.** `TypeCorrect`, and two invariants that need nothing but types:
  `KeyInv` (a charge whose key has no row had it purged; a handler at work holds the row of its key; no two
  handlers at work have one key) gives `OneChargePerKey`: the check of the key and the insertion of its row
  are one transaction, and an end only rewrites the row. `LedgerInv` (a user's `user_reserved` is what that
  user's charges have locked; no charge locks more than its row stands for; a new charge locks nothing)
  gives `HeldNeverExceedsActive` and, with the sums of both accounts, `MoneyConserved`. A charge may have
  *less* locked than its row stands for, which is why equality needs `Races = {}`.
- **Charges, with `Races = {}`.** `StagesMatch` shows that a handler's stage, and an admin's reading, agree
  with the row. That is why the settling transfers, which ignore whether their `UPDATE` changed the row, act
  on active rows only. On it rests the inductive invariant
  `MoneyInv == TypeOK /\ StageMatchesRow /\ ReservationBacked /\ SettledExactly`: neither of the last two is
  inductive alone, because a settlement is exact only if the reservation it takes is there. `StepKinds`
  sorts all actions into lock, return, settle, move and idle steps, so the money part is argued once for
  each kind. `TerminalStaysFinal`, `ProvidersArePaidInFull` (rounding two collected parts costs the provider at
  most two units), `ReplaysAreOfSettledCharges`, `LockedBalanceMatches` (the property that
  `charges_slow_call` violates with a race) and `ImplementationOfReservations` follow. The theorems about
  money also assume `ExactRates`.
- **`PayoutsProofs`**. `Escrowed == EscrowBacked /\ OneActivePayout /\ ReservedMatchesActive`, with the
  types, is inductive: the balance of an owner is the amount of the owner's one active payout, so no
  release or settlement can fail or take another payout's money. `SentOnce` strengthens `TransferredOnce`:
  a payout that was taken up never becomes pending again. `NotReleased` does the same for
  `TransferredIsNotReturned`. `PayoutsNeitherMakeNorLoseMoney` sorts the actions by what they move
  (`MoneySteps`). `ImplementationOfEscrow` maps the model to `Reservations`.
- **`TopupsProofs`**. `Books` (types, ledger entries by order, valid orders, fees returned only with
  refunds) is inductive with `TypeOK`; `Applied` strengthens `RecordedIsApplied` by what is known of events
  of orders that do not exist yet. `TopupsNeitherMakeNorLoseMoney`: a reversal that meets less cash than it
  needs takes the rest from fees and `risk_loss`, never from another user.
- **`RoutingProofs`**. `RoutingKeepsInv` holds for any shares, sessions, models and requests: health agrees
  although counts are read early (`HealthStep`), and a request's locals agree with each other
  (`LocalsStep`), the first candidate being the session's share (`OrderFacts`, `TruncateFacts`).
  `SessionsStay` follows: a route is only rewritten by a request in `served`, whose first candidate was the
  route it saw.
- **`RouterLinkProofs`**. `LogsInv` is inductive: `AnswersWereReceived` and `StampsAreCurrent` carry what the
  router knows from the answer to the mark, `overtaken` is exactly where they fail.
  `SecretsStayWithTheirKeys`: `UndisturbedAgrees` says of one handler at work what it has read and which half
  of its change is done; `SecretsAreOfMadeKeys` holds even for handlers that overlap or are cut off.
- **`EvidenceProofs`**. `SupportInv` is inductive in two halves, `TicketInv` (tickets and attachments under
  stale reads) and `ObjectInv` (files, rows and keys); `CleanedIsUnreported`, which the write lock keeps, is
  what `EvidenceIsKept` rests on, and `UnheardAwaitsAdmin` what `UnheardStaysOpen` rests on.

- **Prices** (`MeteringProofs`). `TablesInv` (types, keys of prices and models, a handler between two statements works
  on a model that is there) and `Migration` are inductive. While a market starts, a price may have no model; an
  active one is then the only active price of its key (`Alone`), so the model it is given has no second one.
  `OfflineIsNeverUndercut` follows from the first: a
  priced model that matches is a candidate, active or not, and `LongerComesFirst` shows that the ranking
  never prefers a shorter pattern to it.
- **Streams** (`MeteringProofs`). `ChunksMakeNoDifference` rests on `FeedTogether`: two chunks do what they do
  in one. The text so far has no part in decoding the next byte (`DecodedBehind`). A delimiter that only
  later bytes complete begins behind the first one there is (`FirstCutStays`): to begin before it, it would be
  a `cr lf cr lf` with an `lf lf` inside. So the same block is taken with more to
  read (`TakeBlockOfMore`), what a block reports does not depend on the buffer (`FeedBlockElsewhere`), and
  blocks may be fed before or after more bytes come (`MoreAfter`). The two loops are recursive functions;
  each block takes a delimiter out of the buffer (`CutsOfRest`), which bounds the second. `Counting` is the
  induction over their turns, stated for a set and not for a predicate.
- **What a stream is charged** (`MeteringProofs`). `ReportedUsageAlwaysCharged` needs no further invariant: as chunks
  do not matter, the reader is where the pieces of the answer would have brought it one by one (`Upto`). By
  induction over the pieces it then has an empty buffer and knows exactly what they report (`UptoKnows`); a
  piece that is still coming is read as it would be at the beginning (`PieceReads`) and adds nothing before it
  is whole, or, when the body ends, before the byte that completes its event. `KnowsMore` is the step: one
  block adds what its event reports, by the last report or by the greatest counts. What a piece *is* stands
  in `PieceAssumption`: a series of bytes with one delimiter, at its end, that spells one event or none,
  and less of it than the whole event spells nothing. It is said with the reader's own decoding and line
  splitting, so it fixes how events are spelled and leaves open how many there are, what they report and how they
  are cut. `MCMetering` builds its answers from bytes and event names without the reader; that they satisfy
  the assumption is evaluated with every run.

The assumptions: users, charges, owners and top-ups are finite sets (all rows of tables), patterns are sequences
of strings, and those named above. Each holds in the instances TLC checks.

Every safety property of the runs is stated by a theorem. Only model-checked: all liveness properties, which need
fairness or `ENABLED`; and that lines and events spelled as in `MCMetering` are read as those events
(`PieceAssumption`), because `DataOf` is a fold over the data. The synchronisation of shares and the logins of
`Access` have liveness properties only.

## 5. Where code and documents disagree

The two violated runs are findings in `PROJECT.json`. Others were met while modelling and have no run:

Money

- With total commission rates above 50 %, which the configuration accepts, rounding up can take more in
  commissions than was collected (`proxy.rs:1540`; `plan.md:756`). `ExactRates` excludes it.
- A charge whose upstream answered and whose settlement failed is neither released by maintenance nor open
  to an admin, so it stays reserved (`maintenance.rs:482`; `plan.md:1261-1265`).
- The monthly cap is checked outside the reserving transaction; concurrent requests exceed it together
  (`proxy.rs:440`; `PLAN.md:80-88`).
- A Dodo payment after its order expired or after a failed attempt is recorded and not credited
  (`topups.rs:344`; `plan.md:909-913`). A refund delivered before its payment is recorded without effect and
  the payment is then credited (`topups.rs:426`; `plan.md:945`); `early` of `Topups` are these cases.
- The admin operations on a charge in review read it before their transaction and check no row count, so
  a charge that maintenance or another admin has ended meanwhile is settled or released twice, from what
  other requests have reserved (`proxy.rs:1285-1383`; `plan.md:712`). With `Races = {"admin_race"}`, two admins and
  the requests of `charges_slow_call`, TLC finds `HeldMatchesActive` violated; `charges_races` checks what holds.
- `README.md:71` says that a charge in review is settled or released by an admin; maintenance releases
  those whose usage is flagged as missing (`maintenance.rs:686`).
- Maintenance and the admin operations leave the idempotency row `in_progress` or `needs_review`, so a
  retry under that key is refused; `in_progress` is never purged.
- `plan.md:1461` allows cancelling only a pending payout and `plan.md:1462` marking only a processing or
  reviewed one as paid; the code accepts every active status (`admin.rs:2774, 2898`).

Prices

- An exact model name loses to a longer prefix, and then an exact model that is offline is sold under
  the prefix (`pricing.rs:742`; `plan.md:979, 1109`). `OfflineIsNotUndercut` says what is left.
- Every start overwrites the prices of the default models, without a row in `price_changes` or
  `admin_audit` (`db.rs:771-794`; `plan.md:1038, 1045`).
- An inactive price of an active model is still billed, because the listing prefers the model's status
  (`pricing.rs:809`). An inactive model without a price falls back to `*`.
- Two concurrent upserts can leave two active prices of one model (`plan.md:978`). A patch that is cut off
  between its two `UPDATE`s leaves model and price with different keys; when the new key is a default, the next
  start seeds a second active price (`pricing.rs:442`, `db.rs:764`). Without `HandlersEnd` TLC finds `TablesAgree`
  violated in this way. Activating a model while it is deleted, or pricing it, leaves an active model deleted or a
  price without a model.
- A migration of prices that is cut off multiplies some prices twice.

Routing and the router

- A refused model is blocked under the price model of the first candidate, and looked up under the
  requested one; where a share maps the two apart it is selected again (`proxy.rs:1808, 3117`; `plan.md:1174`).
- A late `model_unsupported` clears a rest and a shorter rest overwrites a longer one; `failure_count` can
  lose an update. A failure of the owner's scope is not cleared by a success (`plan.md:1156`), and the
  schedule of rests is not the documented one (`plan.md:1151-1155`).
- The shares of a routing rule are replaced in several statements; a selection in between sees some.
- A 200 answer that is no list removes all shares; one entry that does not parse keeps rows that should go;
  an older list applied after a newer one is undone only by the next synchronisation.
- A charge that ends while a report of it is under way is marked as reported (`overtaken`).

People, keys, tickets

- An identity file torn by a crash blocks every login until it is removed by hand.
- Two handlers that change one user's keys lose one another's change in the file of secrets; a torn file
  reads as empty; a deletion that is cut off cannot be repeated (`disturbed`).
- Removing unbound attachments may race their binding and delete the file of a bound one (`plan.md:1567`);
  no limit of ten attachments is enforced (`plan.md:1566`).
- Two concurrent reports of one charge make two tickets. A reply that was read before reopens a ticket closed
  meanwhile (`support.rs:468`). A ticket that an admin answers between selection and closing may be closed
  with a fresh answer, and its message is written even when no row changed (`maintenance.rs:45`).
- Meta data of a response stays without a key when its settlement fails, and a body without its row after a
  crash.

## 6. Not modelled, and the plan

Left out for good: wire formats and files as such (their failures are failing steps), the arithmetic of
costs in decimals, queries of the dashboard, the web client, the configuration, the router account (one
operator at a command line), the process lock and the tunnel. The limiter's window is one map under one
lock that nothing else reads.

Open, in this order:

1. **Market**: `Charges`, `Payouts` and `Topups` over one ledger, with the balance report of `ledger.rs` as the
   property, replacing the movements "elsewhere".
2. **Charges over Routing**: the loop of candidates that `Charges` abstracts by `MaxCandidates`.
3. **Payouts with Tickets**: the completion of a manual payout from its ticket (`support.rs`, `admin.rs`).
4. Proofs of the types of `ShareSync` and of the persons of `Access`.
