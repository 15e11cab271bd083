------------------------------ MODULE Catalog -------------------------------
(***************************************************************************)
(* The models on sale and their prices: the admin's handlers, the match of *)
(* a request with a price (src/src/pricing.rs), and what every start of    *)
(* the market does to both tables (migrate_model_prices_to_official,       *)
(* seed_defaults and backfill_model_price_models in src/src/db.rs).        *)
(*                                                                         *)
(* A pattern is a sequence of letters, the last of which may be "*".  A    *)
(* key is an app type and a pattern.  An amount stands for the four prices *)
(* of a row; tens counts how often the migration has multiplied it by ten: *)
(* 0 is an amount as old versions stored it, 1 an official one.            *)
(***************************************************************************)
EXTENDS Integers, SequencesExt

CONSTANTS ModelIds, PriceIds,  \* the ids of the two tables' rows
          NoModel,             \* the model of a price that has none yet
          Keys,                \* the app types and patterns tried
          Defaults,            \* the keys seeded at every start, in order
          Withdrawn,           \* the keys withdrawn at every start
          Amounts, Discounts,  \* prices and discounts an admin may set
          DefaultAmount,       \* the price that comes with the program
          Names                \* the models requests ask for

Up == 1000  \* the server, once it has started

\* The steps of a start come before Up.
ASSUME CatalogAssumption ==
    /\ Defaults \in Seq(Keys)
    /\ Len(Defaults) < Up - 2
    /\ NoModel \notin ModelIds
    /\ \A key \in Keys : key.pattern \in Seq(STRING)

VARIABLES
    models,    \* the models: [key, status, order] by id
    prices,    \* the prices: [model, key, amount, tens, status] by id
    discounts, \* the vendor discounts, by app type
    migrated,  \* the marker in internal_migrations
    server,    \* Up, or the step that the start-up is at
    admin      \* the handler between two statements, or NoHandler

catalogVars == <<models, prices, discounts, migrated, server, admin>>

Statuses  == {"active", "inactive"}
NoHandler == [op |-> "none"]
Star      == "*"
DefaultDiscount == 10

AppsOf(keys) == {key.app : key \in keys}

\* A row under an id of its own.
Put(table, id, row) == [i \in DOMAIN table \cup {id} |-> IF i = id THEN row ELSE table[i]]
Without(table, ids) == [i \in DOMAIN table \ ids |-> table[i]]

ModelOf(key)  == {m \in DOMAIN models : models[m].key = key}
PricesOf(m)   == {p \in DOMAIN prices : prices[p].model = m}
Unassigned    == PricesOf(NoModel)
Active(ids)   == {p \in ids : prices[p].status = "active"}
FreeModels    == ModelIds \ DOMAIN models
FreePrices    == PriceIds \ DOMAIN prices

WithDiscount(apps) ==
    [a \in DOMAIN discounts \cup apps |->
        IF a \in DOMAIN discounts THEN discounts[a] ELSE DefaultDiscount]

-----------------------------------------------------------------------------
(* Matching a request with a price.                                        *)

StatusOf(row) ==
    IF row.model \in DOMAIN models THEN models[row.model].status ELSE row.status
OrderOf(row) ==
    IF row.model \in DOMAIN models THEN models[row.model].order ELSE 0

Matches(pattern, name) ==
    \/ pattern = <<Star>>
    \/ pattern = name
    \/ Last(pattern) = Star /\ IsPrefix(Front(pattern), name)

Rank(pattern) == IF pattern = <<Star>> THEN 0 ELSE Len(pattern)

\* Between patterns of one length the listing's order decides: the model's
\* place, then the text, where "*" comes before every letter.
Before(p, q) ==
    LET Key(i) == <<Rank(prices[i].key.pattern), OrderOf(prices[i]),
                    IF Last(prices[i].key.pattern) = Star THEN 0 ELSE 1>>
    IN  \E n \in 1..3 : /\ Key(p)[n] < Key(q)[n]
                        /\ \A i \in 1..n - 1 : Key(p)[i] = Key(q)[i]

\* Seeded fault: what is offline is left out before the match.
Candidates_OnlineOnly(app, name) ==
    {p \in DOMAIN prices :
        /\ prices[p].key.app = app
        /\ Matches(prices[p].key.pattern, name)
        /\ StatusOf(prices[p]) = "active"}

Candidates(app, name) ==
    {p \in DOMAIN prices :
        /\ prices[p].key.app = app
        /\ Matches(prices[p].key.pattern, name)}

\* The rows a request may be priced by: one, but for ties in the listing.
BestPrices(app, name) ==
    {p \in Candidates(app, name) : \A q \in Candidates(app, name) : ~Before(p, q)}

MatchPrice(app, name) ==
    IF Candidates(app, name) = {} THEN {[answer |-> "model_not_supported"]}
    ELSE {IF StatusOf(prices[p]) # "active" THEN [answer |-> "model_offline"]
          ELSE [answer |-> "priced", price |-> p,
                perMillion |-> prices[p].amount * WithDiscount({app})[app]] :
            p \in BestPrices(app, name)}

-----------------------------------------------------------------------------
(* The admin's handlers.                                                   *)

Idle == server = Up /\ admin = NoHandler
KeepServer == UNCHANGED <<migrated, server>>

CreateModel ==
    /\ Idle
    /\ \E key \in Keys, status \in Statuses, order \in {0, 1}, m \in FreeModels :
        /\ discounts' = WithDiscount({key.app})
        /\ IF ModelOf(key) # {} THEN UNCHANGED <<models, admin>>
           ELSE /\ models' = Put(models, m, [key |-> key, status |-> status,
                                             order |-> order])
                /\ admin' \in {NoHandler, [op |-> "price", model |-> m]}
    /\ UNCHANGED prices
    /\ KeepServer

\* upsert_model_price_inner: the model's active price, or a new one.
SetModelPrice(m) ==
    \E amount \in Amounts :
        LET row == [model |-> m, key |-> models[m].key, amount |-> amount,
                    tens |-> 1, status |-> "active"]
        IN  \E p \in IF Active(PricesOf(m)) # {} THEN Active(PricesOf(m)) ELSE FreePrices :
                prices' = Put(prices, p, row)

PriceNewModel ==
    /\ server = Up
    /\ admin.op = "price"
    /\ SetModelPrice(admin.model)
    /\ admin' = NoHandler
    /\ UNCHANGED <<models, discounts>>
    /\ KeepServer

PutModelPrice ==
    /\ Idle
    /\ \E m \in DOMAIN models : SetModelPrice(m)
    /\ UNCHANGED <<models, discounts, admin>>
    /\ KeepServer

IsDuplicate(m, p, status) == status = "active" /\ Active(PricesOf(m)) \ {p} # {}

\* upsert_price: the model of the key is made first, whatever follows.
UpsertPrice ==
    /\ Idle
    /\ \E p \in PriceIds, key \in Keys, amount \in Amounts, status \in Statuses :
        LET known == ModelOf(key)
        IN  \E m \in IF known # {} THEN known ELSE FreeModels :
            /\ models' = IF known # {} THEN models
                         ELSE Put(models, m, [key |-> key, status |-> "active",
                                              order |-> 0])
            /\ prices' = IF IsDuplicate(m, p, status) THEN prices
                         ELSE Put(prices, p, [model |-> m, key |-> key, tens |-> 1,
                                              amount |-> amount, status |-> status])
            /\ discounts' = WithDiscount({key.app})
    /\ UNCHANGED admin
    /\ KeepServer

\* admin_patch_model changes the model, then its prices.
PatchModel ==
    /\ Idle
    /\ \E m \in DOMAIN models, key \in Keys, status \in Statuses, order \in {0, 1} :
        /\ ModelOf(key) \subseteq {m}
        /\ models' = [models EXCEPT ![m] = [key |-> key, status |-> status,
                                            order |-> order]]
        /\ admin' = [op |-> "patch", model |-> m, key |-> key]
    /\ UNCHANGED <<prices, discounts>>
    /\ KeepServer

\* Seeded fault: the prices keep the app type and the pattern of before.
PatchPrices_Kept ==
    /\ server = Up
    /\ admin.op = "patch"
    /\ admin' = NoHandler
    /\ UNCHANGED <<models, prices, discounts>>
    /\ KeepServer

PatchPrices ==
    /\ server = Up
    /\ admin.op = "patch"
    /\ prices' = [p \in DOMAIN prices |->
                    IF prices[p].model = admin.model
                    THEN [prices[p] EXCEPT !.key = admin.key] ELSE prices[p]]
    /\ admin' = NoHandler
    /\ UNCHANGED <<models, discounts>>
    /\ KeepServer

SetModelStatus ==
    /\ Idle
    /\ \E m \in DOMAIN models, status \in Statuses :
        models' = [models EXCEPT ![m].status = status]
    /\ UNCHANGED <<prices, discounts, admin>>
    /\ KeepServer

\* admin_delete_model: everything of the model in one transaction.
DeleteModel ==
    /\ Idle
    /\ \E m \in DOMAIN models :
        /\ models[m].status = "inactive"
        /\ prices' = Without(prices, PricesOf(m))
        /\ models' = Without(models, {m})
    /\ UNCHANGED <<discounts, admin>>
    /\ KeepServer

PutDiscount ==
    /\ Idle
    /\ \E app \in AppsOf(Keys), discount \in Discounts :
        discounts' = [WithDiscount({app}) EXCEPT ![app] = discount]
    /\ UNCHANGED <<models, prices, admin>>
    /\ KeepServer

AdminNext ==
    \/ CreateModel \/ PriceNewModel \/ PutModelPrice \/ UpsertPrice
    \/ PatchModel \/ PatchPrices \/ SetModelStatus \/ DeleteModel \/ PutDiscount

-----------------------------------------------------------------------------
(* The start of the market: step 0 migrates, step i seeds the i-th         *)
(* default, the next one withdraws, and the last one gives every price a   *)
(* model.  Each step is cut off where a stop would show: between making a  *)
(* model and its price.                                                    *)

Scaled(ids) ==
    [p \in DOMAIN prices |->
        IF p \in ids THEN [prices[p] EXCEPT !.tens = @ + 1] ELSE prices[p]]

\* Seeded fault: the marker is written before the prices.
MigrateCutOff_MarkerFirst ==
    /\ server = 0
    /\ ~migrated
    /\ \A p \in DOMAIN prices : prices[p].tens = 0
    /\ \E ids \in SUBSET DOMAIN prices : prices' = Scaled(ids)
    /\ migrated' = TRUE
    /\ UNCHANGED <<models, discounts, server, admin>>

\* The process stops after some of the prices, before the marker: the next
\* start multiplies those again.  Bound: this happens once.
MigrateCutOff ==
    /\ server = 0
    /\ ~migrated
    /\ \A p \in DOMAIN prices : prices[p].tens = 0
    /\ \E ids \in SUBSET DOMAIN prices : prices' = Scaled(ids)
    /\ UNCHANGED <<models, discounts, migrated, server, admin>>

Migrate ==
    /\ server = 0
    /\ prices' = IF migrated THEN prices ELSE Scaled(DOMAIN prices)
    /\ migrated' = TRUE
    /\ discounts' = WithDiscount(AppsOf({models[m].key : m \in DOMAIN models}
                                        \cup {prices[p].key : p \in DOMAIN prices}))
    /\ server' = 1
    /\ UNCHANGED <<models, admin>>

\* ensure_model_row, as far as it adds a row.
EnsureModel(key) ==
    /\ ModelOf(key) = {}
    /\ \E m \in FreeModels :
        models' = Put(models, m, [key |-> key, status |-> "active", order |-> 0])

SeedModel ==
    /\ server \in DOMAIN Defaults
    /\ EnsureModel(Defaults[server])
    /\ UNCHANGED <<prices, discounts, migrated, server, admin>>

SeedPrice ==
    /\ server \in DOMAIN Defaults
    /\ \E m \in ModelOf(Defaults[server]) :
        LET known == Active({p \in DOMAIN prices : prices[p].key = Defaults[server]})
        IN  \E p \in IF known # {} THEN known ELSE FreePrices :
                prices' = Put(prices, p,
                    [model |-> m, key |-> Defaults[server], status |-> "active",
                     amount |-> DefaultAmount, tens |-> 1])
    /\ server' = server + 1
    /\ UNCHANGED <<models, discounts, migrated, admin>>

WithdrawOld ==
    /\ server = Len(Defaults) + 1
    /\ prices' = [p \in DOMAIN prices |->
                    IF prices[p].key \in Withdrawn
                    THEN [prices[p] EXCEPT !.status = "inactive"] ELSE prices[p]]
    /\ models' = [m \in DOMAIN models |->
                    IF models[m].key \in Withdrawn
                    THEN [models[m] EXCEPT !.status = "inactive"] ELSE models[m]]
    /\ discounts' = WithDiscount(AppsOf({models[m].key : m \in DOMAIN models}
                                        \cup {prices[p].key : p \in DOMAIN prices}))
    /\ server' = server + 1
    /\ UNCHANGED <<migrated, admin>>

\* backfill_model_price_models: prices of before prices had a model.
BackfillModel ==
    /\ server = Len(Defaults) + 2
    /\ \E p \in Unassigned : EnsureModel(prices[p].key)
    /\ UNCHANGED <<prices, discounts, migrated, server, admin>>

BackfillPrice ==
    /\ server = Len(Defaults) + 2
    /\ \E p \in Unassigned : \E m \in ModelOf(prices[p].key) :
        prices' = Put(prices, p, [prices[p] EXCEPT !.model = m])
    /\ UNCHANGED <<models, discounts, migrated, server, admin>>

OpenMarket ==
    /\ server = Len(Defaults) + 2
    /\ Unassigned = {}
    /\ server' = Up
    /\ UNCHANGED <<models, prices, discounts, migrated, admin>>

StartNext ==
    \/ MigrateCutOff \/ Migrate \/ SeedModel \/ SeedPrice \/ WithdrawOld
    \/ BackfillModel \/ BackfillPrice \/ OpenMarket

\* The process stops and starts again: a handler is left where it is.
Restart ==
    /\ server' = 0
    /\ admin' = NoHandler
    /\ UNCHANGED <<models, prices, discounts, migrated>>

CatalogNext == AdminNext \/ StartNext \/ Restart

\* Bound: the market does not stop between the two statements of a handler.
HandlersEnd == server' = 0 => admin = NoHandler

\* A fresh database, or one an old version leaves: a price of before the
\* discounts were split off, with its model, or of before prices had a model.
CatalogInit ==
    /\ \E m \in ModelIds, p \in PriceIds, key \in Keys, of \in {NoModel} \cup ModelIds :
        \E old \in SUBSET {m}, priced \in SUBSET {p} :
            /\ IF priced = {} THEN old = {} ELSE of = NoModel \/ of \in old
            /\ models = [i \in old |-> [key |-> key, status |-> "active", order |-> 0]]
            /\ prices = [i \in priced |->
                            [model |-> of, key |-> key, amount |-> DefaultAmount,
                             tens |-> 0, status |-> "active"]]
    /\ discounts = [a \in {} |-> DefaultDiscount]
    /\ migrated = FALSE
    /\ server = 0
    /\ admin = NoHandler

CatalogSpec == CatalogInit /\ [][CatalogNext /\ HandlersEnd]_catalogVars

-----------------------------------------------------------------------------
(***************************************************************************)
(* Between handlers the two tables agree: every price is that of a model   *)
(* with the same app type and pattern, and no model has two active prices  *)
(* (plan.md:978), whatever was created, moved, withdrawn, deleted, seeded  *)
(* again and backfilled before.                                            *)
(***************************************************************************)
TablesAgree ==
    Idle =>
        /\ \A p \in DOMAIN prices :
            /\ prices[p].model \in DOMAIN models
            /\ prices[p].key = models[prices[p].model].key
        /\ \A m \in DOMAIN models : Cardinality(Active(PricesOf(m))) <= 1

(***************************************************************************)
(* A request is never priced by a pattern less specific than one of a      *)
(* priced model that it matches: taking a model off the market does not    *)
(* sell it under the catch-all (plan.md:979, match_price_from_prices).     *)
(***************************************************************************)
OfflineIsNotUndercut ==
    Idle => \A m \in DOMAIN models, name \in Names :
        LET app     == models[m].key.app
            pattern == models[m].key.pattern
        IN  PricesOf(m) # {} /\ Matches(pattern, name) =>
                \A a \in MatchPrice(app, name) :
                    a.answer = "priced" =>
                        \/ Len(prices[a.price].key.pattern) >= Len(pattern)
                        \/ pattern = <<Star>>

(***************************************************************************)
(* Once the market is up no price is in the unit of before the discounts,  *)
(* a tenth of the official one, wherever the migration was cut off         *)
(* (migrate_model_prices_to_official).                                     *)
(***************************************************************************)
NoPriceIsLeftBehind ==
    server = Up => \A p \in DOMAIN prices : prices[p].tens >= 1
=============================================================================
