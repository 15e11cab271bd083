--------------------------- MODULE MeteringProofs ---------------------------
(***************************************************************************)
(* What a request is charged rests on its price, on the usage read from    *)
(* its answer and on the split of the amount.  The models and the prices   *)
(* agree (pricing.rs), and no price keeps its old unit (db.rs), for any    *)
(* number of models, prices, keys and defaults, through every sequence of  *)
(* admin operations, cut-off migrations and restarts; a model that is      *)
(* offline is not sold under another's name; the reader of a stream does   *)
(* not depend on where the network cuts it and settles with what the       *)
(* events that came in whole report (usage.rs), for any events, answers    *)
(* and chunks; and every amount is split exactly (proxy.rs).               *)
(***************************************************************************)
EXTENDS MCMetering, AmountProofs, FiniteSetTheorems, SequenceTheorems, TLAPS

-----------------------------------------------------------------------------
(* The catalogue.                                                          *)

ModelRows == [key : Keys, status : Statuses, order : {0, 1}]
PriceRows == [model : {NoModel} \cup ModelIds, key : Keys, amount : Amounts \cup {DefaultAmount},
              tens : Nat, status : Statuses]

RowsTyped ==
    /\ models = [m \in DOMAIN models |-> models[m]]
    /\ prices = [p \in DOMAIN prices |-> prices[p]]
    /\ DOMAIN models \subseteq ModelIds
    /\ \A m \in DOMAIN models : models[m] \in ModelRows
    /\ \A p \in DOMAIN prices : prices[p] \in PriceRows

\* An active price of before prices had models is the only one of its key.
Alone(p) ==
    \A q \in DOMAIN prices :
        /\ prices[q].key = prices[p].key
        /\ prices[p].status = "active" /\ prices[q].status = "active"
        => q = p

\* A price belongs to a model and has its key, unless a patch of the model has
\* not come to its prices yet, or a start has not come to give it a model.
RowsAgree ==
    \A p \in DOMAIN prices :
        \/ /\ prices[p].model \in DOMAIN models
           /\ \/ prices[p].key = models[prices[p].model].key
              \/ admin.op = "patch" /\ prices[p].model = admin.model
        \/ prices[p].model = NoModel /\ server # Up /\ Alone(p)

\* The unique index of models over app type and name.
KeysDiffer ==
    \A m, n \in DOMAIN models : models[m].key = models[n].key => m = n

OneActive ==
    \A p, q \in DOMAIN prices :
        /\ prices[p].model = prices[q].model
        /\ prices[p].status = "active" /\ prices[q].status = "active"
        => p = q

\* A handler between two statements works on a model that is there, and
\* nothing else goes on meanwhile.
AdminAgrees ==
    /\ admin.op \in {"none", "price", "patch"}
    /\ admin.op = "none" <=> admin = NoHandler
    /\ admin.op # "none" => server = Up /\ admin.model \in DOMAIN models
    /\ admin.op = "patch" => models[admin.model].key = admin.key

ServerTyped ==
    /\ migrated \in BOOLEAN
    /\ server \in 0..Len(Defaults) + 2 \cup {Up}

TablesInv ==
    RowsTyped /\ RowsAgree /\ KeysDiffer /\ OneActive /\ AdminAgrees /\ ServerTyped

\* The prices of before the marker may have any unit, those after it have not
\* the old one.
Migration ==
    /\ server # 0 => migrated
    /\ migrated => \A p \in DOMAIN prices : prices[p].tens >= 1

-----------------------------------------------------------------------------
\* What a price row put into the table has to bring along.
LEMMA PutPrice ==
  ASSUME TablesInv, NEW p, NEW row \in PriceRows,
         models' = models, admin.op # "patch", admin' = NoHandler,
         server' \in 0..Len(Defaults) + 2 \cup {Up}, migrated' \in BOOLEAN,
         server' = Up => server = Up,
         prices' = Put(prices, p, row),
         row.model \in DOMAIN models,
         row.key = models[row.model].key,
         row.status = "active" => Active(PricesOf(row.model)) \subseteq {p},
         \A i \in Active(Unassigned) :
            row.status = "active" /\ prices[i].key = row.key => i = p
  PROVE  TablesInv'
<1>1. /\ DOMAIN prices' = DOMAIN prices \cup {p}
      /\ prices' = [i \in DOMAIN prices' |-> prices'[i]]
      /\ prices'[p] = row
      /\ \A i \in DOMAIN prices : i # p => prices'[i] = prices[i]
  BY DEF Put
<1>2. RowsTyped'
  BY <1>1 DEF TablesInv, RowsTyped
<1>3. RowsAgree'
  <2> SUFFICES ASSUME NEW i \in DOMAIN prices', i # p,
                      prices[i].model = NoModel, server # Up, Alone(i)
               PROVE  server' # Up /\ Alone(i)'
    BY <1>1 DEF TablesInv, RowsAgree
  <2>1. \A q \in DOMAIN prices' :
          /\ prices'[q].key = prices'[i].key
          /\ prices'[i].status = "active" /\ prices'[q].status = "active"
          => q = i
    BY <1>1 DEF Alone, Active, Unassigned, PricesOf
  <2> QED
    BY <2>1 DEF Alone
<1>4. OneActive'
  BY <1>1 DEF TablesInv, OneActive, Active, PricesOf
<1>5. AdminAgrees'
  BY DEF TablesInv, AdminAgrees, NoHandler
<1> QED
  BY <1>2, <1>3, <1>4, <1>5 DEF TablesInv, KeysDiffer, ServerTyped

\* A new model has no prices and a key of its own.
LEMMA PutModel ==
  ASSUME TablesInv, NEW m \in FreeModels, NEW row \in ModelRows,
         models' = Put(models, m, row),
         ModelOf(row.key) = {},
         prices' = prices, admin.op = "none", server' = server,
         ServerTyped', AdminAgrees'
  PROVE  TablesInv'
<1>1. /\ DOMAIN models' = DOMAIN models \cup {m}
      /\ models' = [i \in DOMAIN models' |-> models'[i]]
      /\ models'[m] = row
      /\ \A i \in DOMAIN models : i # m => models'[i] = models[i]
  BY DEF Put
<1>2. m \in ModelIds /\ m \notin DOMAIN models
  BY DEF FreeModels
<1>3. RowsTyped'
  BY <1>1, <1>2 DEF TablesInv, RowsTyped
<1>4. RowsAgree'
  BY <1>1, <1>2 DEF TablesInv, RowsAgree, Alone
<1>5. KeysDiffer'
  BY <1>1, <1>2 DEF TablesInv, KeysDiffer, ModelOf
<1> QED
  BY <1>3, <1>4, <1>5 DEF TablesInv, OneActive

LEMMA DefaultsAreFew == Len(Defaults) \in Nat /\ Len(Defaults) + 2 < Up
BY CatalogAssumption DEF Up

\* A market that is up has given every price its model.
LEMMA NoneUnassigned ==
  TablesInv /\ server = Up => Unassigned = {}
BY CatalogAssumption DEF TablesInv, RowsTyped, RowsAgree, Unassigned, PricesOf

LEMMA Initially ==
  CatalogInit => TablesInv /\ Migration
<1> SUFFICES ASSUME CatalogInit
             PROVE  TablesInv /\ Migration
  OBVIOUS
<1>1. PICK m \in ModelIds, p \in PriceIds, key \in Keys, of \in {NoModel} \cup ModelIds :
        \E old \in SUBSET {m}, priced \in SUBSET {p} :
            /\ IF priced = {} THEN old = {} ELSE of = NoModel \/ of \in old
            /\ models = [i \in old |-> [key |-> key, status |-> "active", order |-> 0]]
            /\ prices = [i \in priced |->
                            [model |-> of, key |-> key, amount |-> DefaultAmount,
                             tens |-> 0, status |-> "active"]]
  BY DEF CatalogInit
<1>2. PICK old \in SUBSET {m}, priced \in SUBSET {p} :
        /\ IF priced = {} THEN old = {} ELSE of = NoModel \/ of \in old
        /\ models = [i \in old |-> [key |-> key, status |-> "active", order |-> 0]]
        /\ prices = [i \in priced |->
                        [model |-> of, key |-> key, amount |-> DefaultAmount,
                         tens |-> 0, status |-> "active"]]
  BY <1>1
<1>3. /\ DOMAIN models = old
      /\ models = [i \in DOMAIN models |-> models[i]]
      /\ \A i \in DOMAIN models :
            models[i] = [key |-> key, status |-> "active", order |-> 0]
  BY <1>2
<1>4. /\ DOMAIN prices = priced
      /\ prices = [i \in DOMAIN prices |-> prices[i]]
      /\ \A i \in DOMAIN prices :
            prices[i] = [model |-> of, key |-> key, amount |-> DefaultAmount,
                         tens |-> 0, status |-> "active"]
  BY <1>2
<1>5. server = 0 /\ admin = NoHandler /\ migrated = FALSE
  BY DEF CatalogInit
<1>6. RowsTyped
  BY <1>3, <1>4 DEF RowsTyped, ModelRows, PriceRows, Statuses
<1>7. RowsAgree /\ KeysDiffer /\ OneActive
  <2>1. server # Up /\ \A i \in DOMAIN prices : Alone(i)
    BY <1>4, <1>5 DEF Alone, Up
  <2>2. \A i \in DOMAIN prices : of = NoModel \/ of \in old
    BY <1>2, <1>4
  <2> QED
    BY <1>3, <1>4, <2>1, <2>2 DEF RowsAgree, KeysDiffer, OneActive
<1>8. AdminAgrees /\ Migration
  BY <1>5 DEF AdminAgrees, Migration, NoHandler
<1>9. ServerTyped
  <2>1. Len(Defaults) \in Nat
    BY DefaultsAreFew
  <2>2. 0 \in 0..Len(Defaults) + 2
    BY <2>1
  <2> QED
    BY <1>5, <2>2 DEF ServerTyped
<1> QED
  BY <1>6, <1>7, <1>8, <1>9 DEF TablesInv

-----------------------------------------------------------------------------
(* The admin's handlers.                                                   *)

LEMMA CreateStep ==
  TablesInv /\ CreateModel => TablesInv'
<1> SUFFICES ASSUME TablesInv, CreateModel
             PROVE  TablesInv'
  OBVIOUS
<1>1. PICK key \in Keys, status \in Statuses, order \in {0, 1}, m \in FreeModels :
        IF ModelOf(key) # {} THEN UNCHANGED <<models, admin>>
        ELSE /\ models' = Put(models, m, [key |-> key, status |-> status,
                                          order |-> order])
             /\ admin' \in {NoHandler, [op |-> "price", model |-> m]}
  BY DEF CreateModel
<1>2. /\ server = Up /\ admin = NoHandler /\ prices' = prices
      /\ server' = server /\ migrated' = migrated
  BY DEF CreateModel, Idle, KeepServer
<1>3. CASE ModelOf(key) # {}
  BY <1>1, <1>2, <1>3 DEF TablesInv, RowsTyped, RowsAgree, KeysDiffer, OneActive,
                          AdminAgrees, ServerTyped
<1>4. CASE ModelOf(key) = {}
  <2> DEFINE row == [key |-> key, status |-> status, order |-> order]
  <2>1. row \in ModelRows /\ row.key = key
    BY DEF ModelRows
  <2>2. admin.op = "none" /\ ServerTyped'
    BY <1>2 DEF TablesInv, ServerTyped, NoHandler
  <2>3. models' = Put(models, m, row)
    BY <1>1, <1>4
  <2>5. AdminAgrees'
    <3>1. m \in DOMAIN models'
      BY <2>3 DEF Put
    <3> QED
      BY <1>1, <1>2, <1>4, <3>1 DEF AdminAgrees, NoHandler
  <2> HIDE DEF row
  <2>4. ModelOf(row.key) = {}
    BY <1>4, <2>1
  <2> QED
    BY <1>1, <1>2, <2>1, <2>2, <2>3, <2>4, <2>5, PutModel
<1> QED
  BY <1>3, <1>4

\* upsert_model_price_inner keeps the tables together, whoever calls it.
LEMMA SetPriceKeeps ==
  ASSUME TablesInv, NEW m \in DOMAIN models, SetModelPrice(m),
         admin.op # "patch", server = Up, admin' = NoHandler,
         models' = models, server' = server, migrated' = migrated
  PROVE  TablesInv'
<1>1. PICK amount \in Amounts,
           p \in IF Active(PricesOf(m)) # {} THEN Active(PricesOf(m)) ELSE FreePrices :
        prices' = Put(prices, p, [model |-> m, key |-> models[m].key, amount |-> amount,
                                  tens |-> 1, status |-> "active"])
  BY DEF SetModelPrice
<1> DEFINE row == [model |-> m, key |-> models[m].key, amount |-> amount,
                   tens |-> 1, status |-> "active"]
<1>2. row \in PriceRows
  BY DEF TablesInv, RowsTyped, ModelRows, PriceRows, Statuses
<1>3. row.model = m /\ row.key = models[m].key
  OBVIOUS
<1>4. Active(PricesOf(m)) \subseteq {p}
  BY <1>1 DEF TablesInv, OneActive, Active, PricesOf
<1>5. server' \in 0..Len(Defaults) + 2 \cup {Up} /\ migrated' \in BOOLEAN
  BY DEF TablesInv, ServerTyped
<1>6. prices' = Put(prices, p, row)
  BY <1>1
<1>7. Active(Unassigned) = {}
  BY NoneUnassigned DEF Active
<1> HIDE DEF row
<1> QED
  BY <1>2, <1>3, <1>4, <1>5, <1>6, <1>7, PutPrice

LEMMA PriceStep ==
  TablesInv /\ (PriceNewModel \/ PutModelPrice) => TablesInv'
<1>1. ASSUME TablesInv, PriceNewModel
      PROVE  TablesInv'
  <2>1. /\ admin.op = "price" /\ SetModelPrice(admin.model) /\ admin' = NoHandler
        /\ models' = models /\ server = Up /\ server' = server /\ migrated' = migrated
    BY <1>1 DEF PriceNewModel, KeepServer
  <2>2. admin.model \in DOMAIN models
    BY <1>1, <2>1 DEF TablesInv, AdminAgrees
  <2> QED
    BY <1>1, <2>1, <2>2, SetPriceKeeps
<1>2. ASSUME TablesInv, PutModelPrice
      PROVE  TablesInv'
  <2>1. PICK m \in DOMAIN models : SetModelPrice(m)
    BY <1>2 DEF PutModelPrice
  <2>2. /\ admin.op = "none" /\ admin' = NoHandler
        /\ models' = models /\ server = Up /\ server' = server /\ migrated' = migrated
    BY <1>2 DEF PutModelPrice, Idle, KeepServer, NoHandler
  <2> QED
    BY <1>2, <2>1, <2>2, SetPriceKeeps
<1> QED
  BY <1>1, <1>2

LEMMA UpsertStep ==
  TablesInv /\ UpsertPrice => TablesInv'
<1> SUFFICES ASSUME TablesInv, UpsertPrice
             PROVE  TablesInv'
  OBVIOUS
<1>1. PICK p \in PriceIds, key \in Keys, amount \in Amounts, status \in Statuses,
           m \in DOMAIN models \cup FreeModels :
        /\ m \in IF ModelOf(key) # {} THEN ModelOf(key) ELSE FreeModels
        /\ models' = IF ModelOf(key) # {} THEN models
                     ELSE Put(models, m, [key |-> key, status |-> "active",
                                          order |-> 0])
        /\ prices' = IF IsDuplicate(m, p, status) THEN prices
                     ELSE Put(prices, p, [model |-> m, key |-> key, tens |-> 1,
                                          amount |-> amount, status |-> status])
  BY DEF UpsertPrice, ModelOf
<1>2. /\ server = Up /\ admin = NoHandler /\ admin' = admin
      /\ server' = server /\ migrated' = migrated
  BY DEF UpsertPrice, Idle, KeepServer
<1>3. admin.op = "none" /\ admin'.op = "none"
  BY <1>2 DEF NoHandler
<1> DEFINE new == [key |-> key, status |-> "active", order |-> 0]
           row == [model |-> m, key |-> key, tens |-> 1,
                   amount |-> amount, status |-> status]
<1>4. /\ new \in ModelRows /\ new.key = key
      /\ m \in ModelIds => row \in PriceRows
      /\ row.model = m /\ row.key = key /\ row.status = status
  BY DEF ModelRows, PriceRows, Statuses
<1>5. \/ models' = models
      \/ /\ m \in FreeModels /\ ModelOf(key) = {}
         /\ models' = Put(models, m, new)
  BY <1>1
<1>6. \/ prices' = prices
      \/ prices' = Put(prices, p, row) /\ ~IsDuplicate(m, p, status)
  BY <1>1
<1> HIDE DEF new, row
<1>7. /\ models' = [i \in DOMAIN models' |-> models'[i]]
      /\ DOMAIN models \subseteq DOMAIN models'
      /\ \A i \in DOMAIN models : models'[i] = models[i]
      /\ \A i \in DOMAIN models' \ DOMAIN models : i = m /\ models'[i] = new
  BY <1>5 DEF Put, FreeModels, TablesInv, RowsTyped
<1>8. m \in DOMAIN models' /\ models'[m].key = key /\ m \in ModelIds
  <2>1. CASE ModelOf(key) # {}
    BY <1>1, <2>1, <1>7 DEF ModelOf, TablesInv, RowsTyped
  <2>2. CASE ModelOf(key) = {}
    <3>1. m \in ModelIds /\ models' = Put(models, m, new)
      BY <1>1, <2>2 DEF FreeModels, new
    <3> QED
      BY <3>1, <1>4 DEF Put
  <2> QED
    BY <2>1, <2>2
<1>9. /\ prices' = [i \in DOMAIN prices' |-> prices'[i]]
      /\ DOMAIN prices \subseteq DOMAIN prices'
      /\ \A i \in DOMAIN prices' : \/ i \in DOMAIN prices /\ prices'[i] = prices[i]
                                   \/ i = p /\ prices'[i] = row
  BY <1>6 DEF Put, TablesInv, RowsTyped
<1>10. RowsTyped'
  <2>1. DOMAIN models' \subseteq ModelIds /\ \A i \in DOMAIN models' : models'[i] \in ModelRows
    BY <1>7, <1>8, <1>4 DEF TablesInv, RowsTyped
  <2>2. \A i \in DOMAIN prices' : prices'[i] \in PriceRows
    BY <1>9, <1>8, <1>4 DEF TablesInv, RowsTyped
  <2> QED
    BY <1>7, <1>9, <2>1, <2>2 DEF RowsTyped
<1>11. RowsAgree'
  BY <1>2, <1>3, <1>4, <1>7, <1>8, <1>9 DEF TablesInv, RowsAgree
<1>12. KeysDiffer'
  <2>1. CASE models' = models
    BY <2>1 DEF TablesInv, KeysDiffer
  <2>2. CASE ModelOf(key) = {}
    BY <2>2, <1>4, <1>7 DEF TablesInv, KeysDiffer, ModelOf
  <2> QED
    BY <1>5, <2>1, <2>2
<1>13. OneActive'
  <2>1. CASE prices' = prices
    BY <2>1 DEF TablesInv, OneActive
  <2>2. CASE prices' = Put(prices, p, row) /\ ~IsDuplicate(m, p, status)
    <3>1. status = "active" =>
            \A i \in DOMAIN prices :
                prices[i].model = m /\ prices[i].status = "active" => i = p
      BY <2>2 DEF IsDuplicate, Active, PricesOf
    <3>2. /\ DOMAIN prices' = DOMAIN prices \cup {p} /\ prices'[p] = row
          /\ \A i \in DOMAIN prices : i # p => prices'[i] = prices[i]
      BY <2>2 DEF Put
    <3> QED
      BY <3>1, <3>2, <1>4 DEF TablesInv, OneActive
  <2> QED
    BY <1>6, <2>1, <2>2
<1>14. AdminAgrees' /\ ServerTyped'
  BY <1>2, <1>3 DEF TablesInv, AdminAgrees, ServerTyped
<1> QED
  BY <1>10, <1>11, <1>12, <1>13, <1>14 DEF TablesInv

LEMMA PatchModelStep ==
  TablesInv /\ PatchModel => TablesInv'
<1> SUFFICES ASSUME TablesInv, PatchModel
             PROVE  TablesInv'
  OBVIOUS
<1>1. PICK m \in DOMAIN models, key \in Keys, status \in Statuses, order \in {0, 1} :
        /\ ModelOf(key) \subseteq {m}
        /\ models' = [models EXCEPT ![m] = [key |-> key, status |-> status,
                                            order |-> order]]
        /\ admin' = [op |-> "patch", model |-> m, key |-> key]
  BY DEF PatchModel
<1>2. /\ server = Up /\ admin = NoHandler /\ prices' = prices
      /\ server' = server /\ migrated' = migrated
  BY DEF PatchModel, Idle, KeepServer
<1>3. /\ admin'.op = "patch" /\ admin'.model = m /\ admin'.key = key
      /\ admin.op = "none"
  BY <1>1, <1>2 DEF NoHandler
<1> DEFINE row == [key |-> key, status |-> status, order |-> order]
<1>4. row \in ModelRows /\ row.key = key
  BY DEF ModelRows
<1>5. models' = [models EXCEPT ![m] = row]
  BY <1>1
<1> HIDE DEF row
<1>6. /\ DOMAIN models' = DOMAIN models
      /\ models' = [i \in DOMAIN models' |-> models'[i]]
      /\ models'[m] = row
      /\ \A i \in DOMAIN models : i # m => models'[i] = models[i]
  BY <1>5
<1>7. RowsTyped'
  BY <1>2, <1>4, <1>6 DEF TablesInv, RowsTyped
<1>8. RowsAgree'
  BY <1>2, <1>3, <1>6 DEF TablesInv, RowsAgree
<1>9. KeysDiffer'
  BY <1>1, <1>4, <1>6 DEF TablesInv, KeysDiffer, ModelOf
<1>10. AdminAgrees'
  <2>1. admin' # NoHandler
    BY <1>3 DEF NoHandler
  <2> QED
    BY <2>1, <1>2, <1>3, <1>4, <1>6 DEF AdminAgrees
<1> QED
  BY <1>2, <1>7, <1>8, <1>9, <1>10 DEF TablesInv, OneActive, ServerTyped

LEMMA PatchPricesStep ==
  TablesInv /\ PatchPrices => TablesInv'
<1> SUFFICES ASSUME TablesInv, PatchPrices
             PROVE  TablesInv'
  OBVIOUS
<1>1. /\ admin.op = "patch" /\ admin' = NoHandler
      /\ models' = models /\ server = Up /\ server' = server /\ migrated' = migrated
  BY DEF PatchPrices, KeepServer
<1>2. /\ admin.model \in DOMAIN models /\ models[admin.model].key = admin.key
      /\ models[admin.model] \in ModelRows
  BY <1>1 DEF TablesInv, RowsTyped, AdminAgrees
<1>3. admin.key \in Keys
  BY <1>2 DEF ModelRows
<1>4. /\ DOMAIN prices' = DOMAIN prices
      /\ prices' = [p \in DOMAIN prices' |-> prices'[p]]
      /\ \A p \in DOMAIN prices :
            prices'[p] = IF prices[p].model = admin.model
                         THEN [prices[p] EXCEPT !.key = admin.key] ELSE prices[p]
  BY DEF PatchPrices
<1>5. \A p \in DOMAIN prices :
        /\ prices'[p] \in PriceRows
        /\ prices'[p].model = prices[p].model /\ prices'[p].status = prices[p].status
        /\ prices[p].model = admin.model => prices'[p].key = admin.key
        /\ prices[p].model # admin.model => prices'[p] = prices[p]
  <2> SUFFICES ASSUME NEW p \in DOMAIN prices
               PROVE  /\ prices'[p] \in PriceRows
                      /\ prices'[p].model = prices[p].model
                      /\ prices'[p].status = prices[p].status
                      /\ prices[p].model = admin.model => prices'[p].key = admin.key
                      /\ prices[p].model # admin.model => prices'[p] = prices[p]
    OBVIOUS
  <2>1. prices[p] \in PriceRows
    BY DEF TablesInv, RowsTyped
  <2> QED
    BY <1>3, <1>4, <2>1 DEF PriceRows
<1>6. RowsTyped'
  BY <1>1, <1>4, <1>5 DEF TablesInv, RowsTyped
<1>7. RowsAgree'
  BY <1>1, <1>2, <1>4, <1>5 DEF TablesInv, RowsAgree
<1>8. OneActive'
  BY <1>4, <1>5 DEF TablesInv, OneActive
<1>9. AdminAgrees'
  BY <1>1 DEF AdminAgrees, NoHandler
<1> QED
  BY <1>1, <1>6, <1>7, <1>8, <1>9 DEF TablesInv, KeysDiffer, ServerTyped

\* A change of statuses leaves the tables in agreement as long as no price is
\* put on sale: prices may only be withdrawn, and models keep their keys.
LEMMA StatusesKeep ==
  ASSUME TablesInv, ServerTyped', AdminAgrees', admin.op = "none",
         server' = Up => server = Up,
         models' = [m \in DOMAIN models |-> models'[m]],
         prices' = [p \in DOMAIN prices |-> prices'[p]],
         \A m \in DOMAIN models :
            models'[m] \in ModelRows /\ models'[m].key = models[m].key,
         \A p \in DOMAIN prices :
            /\ prices'[p] \in PriceRows
            /\ prices'[p].model = prices[p].model /\ prices'[p].key = prices[p].key
            /\ prices'[p].status = "active" => prices[p].status = "active"
  PROVE  TablesInv'
<1>1. DOMAIN models' = DOMAIN models /\ DOMAIN prices' = DOMAIN prices
  OBVIOUS
<1>2. RowsTyped'
  BY <1>1 DEF TablesInv, RowsTyped
<1>3. RowsAgree'
  <2>1. \A p \in DOMAIN prices : Alone(p) => Alone(p)'
    BY <1>1 DEF Alone
  <2> QED
    BY <1>1, <2>1 DEF TablesInv, RowsAgree
<1>4. KeysDiffer'
  BY <1>1 DEF TablesInv, KeysDiffer
<1>5. OneActive'
  BY <1>1 DEF TablesInv, OneActive
<1> QED
  BY <1>2, <1>3, <1>4, <1>5 DEF TablesInv

LEMMA SetModelStatusStep ==
  TablesInv /\ SetModelStatus => TablesInv'
<1> SUFFICES ASSUME TablesInv, SetModelStatus
             PROVE  TablesInv'
  OBVIOUS
<1>1. PICK m \in DOMAIN models, status \in Statuses :
        models' = [models EXCEPT ![m].status = status]
  BY DEF SetModelStatus
<1>2. /\ server = Up /\ admin = NoHandler /\ admin' = admin /\ prices' = prices
      /\ server' = server /\ migrated' = migrated
  BY DEF SetModelStatus, Idle, KeepServer
<1>3. models' = [i \in DOMAIN models |->
                    IF i = m THEN [models[i] EXCEPT !.status = status] ELSE models[i]]
  BY <1>1
<1>4. \A i \in DOMAIN models :
        models'[i] \in ModelRows /\ models'[i].key = models[i].key
  <2> SUFFICES ASSUME NEW i \in DOMAIN models
               PROVE  models'[i] \in ModelRows /\ models'[i].key = models[i].key
    OBVIOUS
  <2>1. models[i] \in ModelRows
    BY DEF TablesInv, RowsTyped
  <2>2. models'[i] = IF i = m THEN [models[i] EXCEPT !.status = status] ELSE models[i]
    BY <1>3
  <2> QED
    BY <2>1, <2>2 DEF ModelRows
<1>5. models' = [i \in DOMAIN models |-> models'[i]]
  BY <1>3
<1>6. AdminAgrees' /\ ServerTyped' /\ admin.op = "none"
  BY <1>2, <1>5 DEF TablesInv, AdminAgrees, ServerTyped, NoHandler
<1>7. prices' = [p \in DOMAIN prices |-> prices'[p]]
  BY <1>2 DEF TablesInv, RowsTyped
<1>8. \A p \in DOMAIN prices : prices'[p] \in PriceRows
  BY <1>2 DEF TablesInv, RowsTyped
<1> QED
  BY <1>2, <1>4, <1>5, <1>6, <1>7, <1>8, StatusesKeep

LEMMA DeleteStep ==
  TablesInv /\ DeleteModel => TablesInv'
<1> SUFFICES ASSUME TablesInv, DeleteModel
             PROVE  TablesInv'
  OBVIOUS
<1>1. PICK m \in DOMAIN models : /\ prices' = Without(prices, PricesOf(m))
                                 /\ models' = Without(models, {m})
  BY DEF DeleteModel
<1>2. /\ server = Up /\ admin = NoHandler /\ admin' = admin
      /\ server' = server /\ migrated' = migrated
  BY DEF DeleteModel, Idle, KeepServer
<1>3. /\ DOMAIN models' = DOMAIN models \ {m}
      /\ models' = [i \in DOMAIN models' |-> models'[i]]
      /\ \A i \in DOMAIN models' : models'[i] = models[i]
  BY <1>1 DEF Without
<1>4. /\ DOMAIN prices' \subseteq DOMAIN prices
      /\ prices' = [i \in DOMAIN prices' |-> prices'[i]]
      /\ \A i \in DOMAIN prices' : prices'[i] = prices[i] /\ prices[i].model # m
  BY <1>1 DEF Without, PricesOf
<1>5. RowsTyped'
  BY <1>3, <1>4 DEF TablesInv, RowsTyped
<1>6. RowsAgree'
  BY <1>2, <1>3, <1>4 DEF TablesInv, RowsAgree, NoHandler
<1>7. KeysDiffer'
  BY <1>3 DEF TablesInv, KeysDiffer
<1>8. OneActive'
  BY <1>4 DEF TablesInv, OneActive
<1>9. AdminAgrees'
  BY <1>2 DEF TablesInv, AdminAgrees, NoHandler
<1> QED
  BY <1>2, <1>5, <1>6, <1>7, <1>8, <1>9 DEF TablesInv, ServerTyped

LEMMA DiscountStep ==
  TablesInv /\ PutDiscount => TablesInv'
BY DEF PutDiscount, KeepServer, TablesInv, RowsTyped, RowsAgree, Alone, KeysDiffer,
       OneActive, AdminAgrees, ServerTyped

-----------------------------------------------------------------------------
(* The start of the market.                                                *)

\* No handler is at work while the market starts.
LEMMA NoneWhileStarting ==
  TablesInv /\ server # Up => admin = NoHandler /\ admin.op = "none"
BY DEF TablesInv, AdminAgrees

\* Scaling changes the amounts only, and leaves no amount unscaled.
LEMMA ScaledRows ==
  ASSUME TablesInv, NEW ids, prices' = Scaled(ids)
  PROVE  /\ prices' = [p \in DOMAIN prices |-> prices'[p]]
         /\ \A p \in DOMAIN prices :
              /\ prices'[p] \in PriceRows
              /\ prices'[p].model = prices[p].model
              /\ prices'[p].key = prices[p].key
              /\ prices'[p].status = prices[p].status
              /\ prices'[p].tens >= prices[p].tens
              /\ p \in ids => prices'[p].tens >= 1
<1>1. prices' = [p \in DOMAIN prices |-> prices'[p]]
  BY DEF Scaled
<1>2. ASSUME NEW p \in DOMAIN prices
      PROVE  /\ prices'[p] \in PriceRows
             /\ prices'[p].model = prices[p].model
             /\ prices'[p].key = prices[p].key
             /\ prices'[p].status = prices[p].status
             /\ prices'[p].tens >= prices[p].tens
             /\ p \in ids => prices'[p].tens >= 1
  <2>1. prices[p] \in PriceRows
    BY DEF TablesInv, RowsTyped
  <2>2. prices'[p] = IF p \in ids THEN [prices[p] EXCEPT !.tens = prices[p].tens + 1]
                     ELSE prices[p]
    BY DEF Scaled
  <2> QED
    BY <2>1, <2>2 DEF PriceRows
<1> QED
  BY <1>1, <1>2

LEMMA MigrateStep ==
  TablesInv /\ (MigrateCutOff \/ Migrate) => TablesInv'
<1> SUFFICES ASSUME TablesInv, MigrateCutOff \/ Migrate
             PROVE  TablesInv'
  OBVIOUS
<1>1. /\ server = 0 /\ models' = models /\ admin' = admin
      /\ server' \in {0, 1} /\ migrated' \in BOOLEAN
  BY DEF MigrateCutOff, Migrate, TablesInv, ServerTyped
<1>2. admin = NoHandler /\ admin.op = "none"
  BY <1>1, NoneWhileStarting DEF Up
<1>3. ServerTyped'
  <2>1. server' \in 0..Len(Defaults) + 2
    BY <1>1, DefaultsAreFew
  <2> QED
    BY <1>1, <2>1 DEF ServerTyped
<1>4. AdminAgrees'
  BY <1>1, <1>2 DEF AdminAgrees, NoHandler
<1>5. prices' = prices \/ \E ids : prices' = Scaled(ids)
  BY DEF MigrateCutOff, Migrate
<1>6. CASE prices' = prices
  BY <1>1, <1>3, <1>4, <1>6, <1>2
  DEF TablesInv, RowsTyped, RowsAgree, Alone, KeysDiffer, OneActive, NoHandler, Up
<1>7. CASE \E ids : prices' = Scaled(ids)
  <2>1. PICK ids : prices' = Scaled(ids)
    BY <1>7
  <2>2. /\ prices' = [p \in DOMAIN prices |-> prices'[p]]
        /\ \A p \in DOMAIN prices :
              /\ prices'[p] \in PriceRows
              /\ prices'[p].model = prices[p].model
              /\ prices'[p].key = prices[p].key
              /\ prices'[p].status = prices[p].status
    BY <2>1, ScaledRows
  <2>3. /\ models' = [m \in DOMAIN models |-> models'[m]]
        /\ \A m \in DOMAIN models : models'[m] \in ModelRows
    BY <1>1 DEF TablesInv, RowsTyped
  <2> QED
    BY <1>1, <1>2, <1>3, <1>4, <2>2, <2>3, StatusesKeep DEF Up
<1> QED
  BY <1>5, <1>6, <1>7

LEMMA SeedModelStep ==
  TablesInv /\ SeedModel => TablesInv'
<1> SUFFICES ASSUME TablesInv, SeedModel
             PROVE  TablesInv'
  OBVIOUS
<1>1. /\ server \in DOMAIN Defaults /\ ModelOf(Defaults[server]) = {}
      /\ prices' = prices /\ migrated' = migrated /\ server' = server /\ admin' = admin
  BY DEF SeedModel, EnsureModel
<1> DEFINE row == [key |-> Defaults[server], status |-> "active", order |-> 0]
<1>2. PICK m \in FreeModels : models' = Put(models, m, row)
  BY DEF SeedModel, EnsureModel
<1>3. Defaults[server] \in Keys
  BY <1>1, CatalogAssumption
<1>4. row \in ModelRows /\ row.key = Defaults[server]
  BY <1>3 DEF ModelRows, Statuses
<1>5. server # Up
  BY <1>1, CatalogAssumption, DefaultsAreFew
<1>6. admin = NoHandler /\ admin.op = "none"
  BY <1>5, NoneWhileStarting
<1>7. ServerTyped' /\ AdminAgrees'
  BY <1>1, <1>6 DEF TablesInv, ServerTyped, AdminAgrees
<1> HIDE DEF row
<1>8. ModelOf(row.key) = {}
  BY <1>1, <1>4
<1> QED
  BY <1>1, <1>2, <1>4, <1>6, <1>7, <1>8, PutModel

LEMMA SeedPriceStep ==
  TablesInv /\ SeedPrice => TablesInv'
<1> SUFFICES ASSUME TablesInv, SeedPrice
             PROVE  TablesInv'
  OBVIOUS
<1> DEFINE key   == Defaults[server]
           known == Active({p \in DOMAIN prices : prices[p].key = key})
<1>1. /\ server \in DOMAIN Defaults /\ server' = server + 1
      /\ models' = models /\ migrated' = migrated /\ admin' = admin
  BY DEF SeedPrice
<1>2. PICK m \in ModelOf(key), p \in DOMAIN prices \cup FreePrices :
        /\ p \in IF known # {} THEN known ELSE FreePrices
        /\ prices' = Put(prices, p,
                         [model |-> m, key |-> key, status |-> "active",
                          amount |-> DefaultAmount, tens |-> 1])
  BY DEF SeedPrice, Active
<1> DEFINE row == [model |-> m, key |-> key, status |-> "active",
                   amount |-> DefaultAmount, tens |-> 1]
<1>3. /\ server # Up /\ server' \in 0..Len(Defaults) + 2
  BY <1>1, CatalogAssumption, DefaultsAreFew
<1>4. admin = NoHandler /\ admin.op = "none"
  BY <1>3, NoneWhileStarting
<1>5. m \in DOMAIN models /\ m \in ModelIds /\ models[m].key = key
  BY <1>2 DEF ModelOf, TablesInv, RowsTyped
<1>6. key \in Keys
  BY <1>1, CatalogAssumption
<1>7. /\ row \in PriceRows /\ row.model = m /\ row.key = key
  BY <1>5, <1>6 DEF PriceRows, Statuses
\* The active price of the key is that of its model, or one without a model.
<1>8. /\ Active(PricesOf(m)) \subseteq {p}
      /\ \A i \in Active(Unassigned) : prices[i].key = key => i = p
  <2> HIDE DEF key
  <2>1. \A q \in DOMAIN prices :
          \/ prices[q].key = key <=> prices[q].model = m
          \/ prices[q].model = NoModel /\ Alone(q)
    BY <1>4, <1>5 DEF TablesInv, RowsAgree, KeysDiffer
  <2>2. m # NoModel
    BY <1>5, CatalogAssumption
  <2>3. Active(PricesOf(m)) \subseteq known
    BY <2>1, <2>2 DEF Active, PricesOf
  <2>4. \A i \in Active(Unassigned) : prices[i].key = key => i \in known
    BY DEF Active, Unassigned, PricesOf
  <2>5. known # {} => p \in known
    BY <1>2
  <2>6. \A i, j \in known : i = j
    BY <2>1, <2>2 DEF Active, Alone, TablesInv, OneActive
  <2> HIDE DEF known
  <2> QED
    BY <2>3, <2>4, <2>5, <2>6
<1>9. prices' = Put(prices, p, row)
  BY <1>2
<1>10. /\ server' \in 0..Len(Defaults) + 2 \cup {Up} /\ migrated' \in BOOLEAN
       /\ server' # Up
  BY <1>1, <1>3, CatalogAssumption, DefaultsAreFew DEF TablesInv, ServerTyped
<1> HIDE DEF row, key, known
<1> QED
  BY <1>1, <1>4, <1>5, <1>7, <1>8, <1>9, <1>10, PutPrice

LEMMA WithdrawStep ==
  TablesInv /\ WithdrawOld => TablesInv'
<1> SUFFICES ASSUME TablesInv, WithdrawOld
             PROVE  TablesInv'
  OBVIOUS
<1>1. /\ server = Len(Defaults) + 1 /\ server' = Len(Defaults) + 2
      /\ migrated' = migrated /\ admin' = admin
  BY DefaultsAreFew DEF WithdrawOld
<1>2. /\ models' = [m \in DOMAIN models |-> models'[m]]
      /\ prices' = [p \in DOMAIN prices |-> prices'[p]]
  BY DEF WithdrawOld
<1>3. \A m \in DOMAIN models :
        models'[m] = IF models[m].key \in Withdrawn
                     THEN [models[m] EXCEPT !.status = "inactive"] ELSE models[m]
  BY DEF WithdrawOld
<1>4. \A p \in DOMAIN prices :
        prices'[p] = IF prices[p].key \in Withdrawn
                     THEN [prices[p] EXCEPT !.status = "inactive"] ELSE prices[p]
  BY DEF WithdrawOld
<1>5. ASSUME NEW m \in DOMAIN models
      PROVE  models'[m] \in ModelRows /\ models'[m].key = models[m].key
  <2>1. models[m] \in ModelRows
    BY DEF TablesInv, RowsTyped
  <2> QED
    BY <1>3, <2>1 DEF ModelRows, Statuses
<1>6. ASSUME NEW p \in DOMAIN prices
      PROVE  /\ prices'[p] \in PriceRows
             /\ prices'[p].model = prices[p].model /\ prices'[p].key = prices[p].key
             /\ prices'[p].status = "active" => prices[p].status = "active"
  <2>1. prices[p] \in PriceRows
    BY DEF TablesInv, RowsTyped
  <2> QED
    BY <1>4, <2>1 DEF PriceRows, Statuses
<1>7. admin = NoHandler /\ admin.op = "none"
  BY <1>1, DefaultsAreFew, NoneWhileStarting
<1>8. server' # Up /\ server' \in 0..Len(Defaults) + 2
  BY <1>1, DefaultsAreFew
<1>9. ServerTyped' /\ AdminAgrees'
  BY <1>1, <1>7, <1>8 DEF TablesInv, ServerTyped, AdminAgrees
<1> QED
  BY <1>2, <1>5, <1>6, <1>7, <1>8, <1>9, StatusesKeep

LEMMA BackfillModelStep ==
  TablesInv /\ BackfillModel => TablesInv'
<1> SUFFICES ASSUME TablesInv, BackfillModel
             PROVE  TablesInv'
  OBVIOUS
<1>1. PICK p \in Unassigned : EnsureModel(prices[p].key)
  BY DEF BackfillModel
<1> DEFINE row == [key |-> prices[p].key, status |-> "active", order |-> 0]
<1>2. PICK m \in FreeModels : models' = Put(models, m, row)
  BY <1>1 DEF EnsureModel
<1>3. /\ server = Len(Defaults) + 2 /\ prices' = prices
      /\ migrated' = migrated /\ server' = server /\ admin' = admin
  BY DEF BackfillModel
<1>4. prices[p] \in PriceRows
  BY <1>1 DEF TablesInv, RowsTyped, Unassigned, PricesOf
<1>5. row \in ModelRows /\ row.key = prices[p].key
  BY <1>4 DEF PriceRows, ModelRows, Statuses
<1>6. admin = NoHandler /\ admin.op = "none"
  BY <1>3, DefaultsAreFew, NoneWhileStarting
<1>7. ServerTyped' /\ AdminAgrees'
  BY <1>3, <1>6 DEF TablesInv, ServerTyped, AdminAgrees
<1> HIDE DEF row
<1>8. ModelOf(row.key) = {}
  BY <1>1, <1>5 DEF EnsureModel
<1> QED
  BY <1>2, <1>3, <1>5, <1>6, <1>7, <1>8, PutModel

\* The model a price is given has no other active price: it has the price's
\* key, which no other active price has.
LEMMA BackfillPriceStep ==
  TablesInv /\ BackfillPrice => TablesInv'
<1> SUFFICES ASSUME TablesInv, BackfillPrice
             PROVE  TablesInv'
  OBVIOUS
<1>0. PICK p \in Unassigned : \E m \in ModelOf(prices[p].key) :
        prices' = Put(prices, p, [prices[p] EXCEPT !.model = m])
  BY DEF BackfillPrice
<1>1. PICK m \in ModelOf(prices[p].key) :
        prices' = Put(prices, p, [prices[p] EXCEPT !.model = m])
  BY <1>0
<1>2. /\ server = Len(Defaults) + 2 /\ models' = models
      /\ migrated' = migrated /\ server' = server /\ admin' = admin
  BY DEF BackfillPrice
<1>3. admin = NoHandler /\ admin.op = "none" /\ server # Up
  BY <1>2, DefaultsAreFew, NoneWhileStarting
<1>4. /\ p \in DOMAIN prices /\ prices[p] \in PriceRows /\ prices[p].model = NoModel
      /\ m \in DOMAIN models /\ m \in ModelIds /\ models[m].key = prices[p].key
  BY <1>1 DEF TablesInv, RowsTyped, Unassigned, PricesOf, ModelOf
<1> DEFINE row == [prices[p] EXCEPT !.model = m]
<1>5. /\ row \in PriceRows /\ row.model = m
      /\ row.key = prices[p].key /\ row.status = prices[p].status
  BY <1>4 DEF PriceRows
<1>6. prices' = Put(prices, p, row)
  BY <1>1
<1> HIDE DEF row
<1>7. Alone(p)
  BY <1>4, CatalogAssumption DEF TablesInv, RowsTyped, RowsAgree
<1>8. row.status = "active" => Active(PricesOf(m)) \subseteq {p}
  <2>1. \A q \in DOMAIN prices : prices[q].model = m => prices[q].key = models[m].key
    BY <1>3, <1>4, CatalogAssumption DEF TablesInv, RowsAgree
  <2> QED
    BY <1>4, <1>5, <1>7, <2>1 DEF Active, PricesOf, Alone
<1>9. \A i \in Active(Unassigned) :
        row.status = "active" /\ prices[i].key = row.key => i = p
  BY <1>5, <1>7, <1>4 DEF Alone, Active, Unassigned, PricesOf
<1>10. server' \in 0..Len(Defaults) + 2 \cup {Up} /\ migrated' \in BOOLEAN
  BY <1>2 DEF TablesInv, ServerTyped
<1> QED
  BY <1>2, <1>3, <1>4, <1>5, <1>6, <1>8, <1>9, <1>10, PutPrice

LEMMA OpenStep ==
  TablesInv /\ OpenMarket => TablesInv'
<1> SUFFICES ASSUME TablesInv, OpenMarket
             PROVE  TablesInv'
  OBVIOUS
<1>1. /\ server = Len(Defaults) + 2 /\ Unassigned = {} /\ server' = Up
      /\ UNCHANGED <<models, prices, migrated, admin>>
  BY DEF OpenMarket
<1>2. admin = NoHandler /\ admin.op = "none"
  BY <1>1, DefaultsAreFew, NoneWhileStarting
<1>3. RowsAgree'
  BY <1>1 DEF TablesInv, RowsAgree, Unassigned, PricesOf
<1> QED
  BY <1>1, <1>2, <1>3 DEF TablesInv, RowsTyped, KeysDiffer, OneActive, AdminAgrees,
                          ServerTyped

LEMMA RestartStep ==
  TablesInv /\ Restart /\ HandlersEnd => TablesInv'
<1> SUFFICES ASSUME TablesInv, Restart, HandlersEnd
             PROVE  TablesInv'
  OBVIOUS
<1>1. /\ server' = 0 /\ admin = NoHandler /\ admin' = NoHandler
      /\ models' = models /\ prices' = prices /\ migrated' = migrated
  BY DEF Restart, HandlersEnd
<1>2. admin.op = "none"
  BY <1>1 DEF NoHandler
<1>3. 0 \in 0..Len(Defaults) + 2
  BY DefaultsAreFew
<1>4. ServerTyped' /\ AdminAgrees'
  BY <1>1, <1>2, <1>3 DEF TablesInv, ServerTyped, AdminAgrees
<1> QED
  BY <1>1, <1>2, <1>4 DEF TablesInv, RowsTyped, RowsAgree, Alone, KeysDiffer, OneActive, Up

-----------------------------------------------------------------------------
(* The unit of the prices.                                                 *)

\* A price row is new, in the official unit, or has the unit that it had.
UnitsKept ==
    \A p \in DOMAIN prices' :
        \/ prices'[p].tens = 1
        \/ p \in DOMAIN prices /\ prices'[p].tens = prices[p].tens

LEMMA PutKeepsUnits ==
  ASSUME NEW p, NEW row, row.tens = 1, prices' = Put(prices, p, row)
  PROVE  UnitsKept
<1>1. /\ DOMAIN prices' = DOMAIN prices \cup {p} /\ prices'[p] = row
      /\ \A i \in DOMAIN prices : i # p => prices'[i] = prices[i]
  BY DEF Put
<1> QED
  BY <1>1 DEF UnitsKept

LEMMA SetPriceKeepsUnits ==
  ASSUME NEW m, SetModelPrice(m)
  PROVE  UnitsKept
<1>1. PICK amount \in Amounts,
           p \in IF Active(PricesOf(m)) # {} THEN Active(PricesOf(m)) ELSE FreePrices :
        prices' = Put(prices, p, [model |-> m, key |-> models[m].key, amount |-> amount,
                                  tens |-> 1, status |-> "active"])
  BY DEF SetModelPrice
<1> DEFINE row == [model |-> m, key |-> models[m].key, amount |-> amount,
                   tens |-> 1, status |-> "active"]
<1>2. row.tens = 1 /\ prices' = Put(prices, p, row)
  BY <1>1
<1> HIDE DEF row
<1> QED
  BY <1>2, PutKeepsUnits

LEMMA AdminKeepsUnits ==
  TablesInv /\ AdminNext => UnitsKept /\ server = Up /\ UNCHANGED <<migrated, server>>
<1> SUFFICES ASSUME TablesInv, AdminNext
             PROVE  UnitsKept /\ server = Up /\ UNCHANGED <<migrated, server>>
  OBVIOUS
<1>1. server = Up /\ UNCHANGED <<migrated, server>>
  BY DEF AdminNext, CreateModel, PriceNewModel, PutModelPrice, UpsertPrice, PatchModel,
         PatchPrices, SetModelStatus, DeleteModel, PutDiscount, Idle, KeepServer
<1> SUFFICES UnitsKept
  BY <1>1
<1>2. CASE prices' = prices
  BY <1>2 DEF UnitsKept
<1>3. ASSUME NEW m, SetModelPrice(m)
      PROVE  UnitsKept
  BY <1>3, SetPriceKeepsUnits
<1>4. CASE UpsertPrice
  <2>1. PICK p, key, amount, status, m :
          prices' = IF IsDuplicate(m, p, status) THEN prices
                    ELSE Put(prices, p, [model |-> m, key |-> key, tens |-> 1,
                                         amount |-> amount, status |-> status])
    BY <1>4 DEF UpsertPrice
  <2> DEFINE row == [model |-> m, key |-> key, tens |-> 1,
                     amount |-> amount, status |-> status]
  <2>2. row.tens = 1
    OBVIOUS
  <2>3. prices' = prices \/ prices' = Put(prices, p, row)
    BY <2>1
  <2> HIDE DEF row
  <2> QED
    BY <1>2, <2>2, <2>3, PutKeepsUnits
<1>5. CASE PatchPrices
  <2>1. DOMAIN prices' = DOMAIN prices
    BY <1>5 DEF PatchPrices
  <2>2. ASSUME NEW p \in DOMAIN prices
        PROVE  prices'[p].tens = prices[p].tens
    <3>1. prices[p] \in PriceRows
      BY DEF TablesInv, RowsTyped
    <3>2. prices'[p] = IF prices[p].model = admin.model
                       THEN [prices[p] EXCEPT !.key = admin.key] ELSE prices[p]
      BY <1>5 DEF PatchPrices
    <3> QED
      BY <3>1, <3>2 DEF PriceRows
  <2> QED
    BY <2>1, <2>2 DEF UnitsKept
<1>6. CASE DeleteModel
  <2>1. PICK m : prices' = Without(prices, PricesOf(m))
    BY <1>6 DEF DeleteModel
  <2>2. /\ DOMAIN prices' \subseteq DOMAIN prices
        /\ \A p \in DOMAIN prices' : prices'[p] = prices[p]
    BY <2>1 DEF Without
  <2> QED
    BY <2>2 DEF UnitsKept
<1> QED
  BY <1>1, <1>2, <1>3, <1>4, <1>5, <1>6
  DEF AdminNext, CreateModel, PriceNewModel, PutModelPrice, PatchModel,
      SetModelStatus, PutDiscount

LEMMA MigrationStep ==
  TablesInv /\ Migration /\ [CatalogNext /\ HandlersEnd]_catalogVars => Migration'
<1> SUFFICES ASSUME TablesInv, Migration, [CatalogNext /\ HandlersEnd]_catalogVars
             PROVE  Migration'
  OBVIOUS
<1>1. ASSUME UnitsKept, server # 0, migrated' = migrated
      PROVE  Migration'
  BY <1>1 DEF Migration, UnitsKept
<1>2. CASE AdminNext
  BY <1>1, <1>2, AdminKeepsUnits DEF Up
<1>3. CASE MigrateCutOff
  BY <1>3 DEF MigrateCutOff, Migration
<1>4. CASE Migrate
  <2>1. CASE migrated
    BY <1>4, <2>1 DEF Migrate, Migration
  <2>2. CASE ~migrated
    <3>1. prices' = Scaled(DOMAIN prices) /\ migrated'
      BY <1>4, <2>2 DEF Migrate
    <3> HIDE DEF Migration
    <3>2. /\ DOMAIN prices' = DOMAIN prices
          /\ \A p \in DOMAIN prices : prices'[p].tens >= 1
      BY <3>1, ScaledRows
    <3> QED
      BY <3>1, <3>2 DEF Migration
  <2> QED
    BY <2>1, <2>2
<1>5. CASE SeedModel
  BY <1>5 DEF SeedModel, Migration
<1>6. CASE SeedPrice
  <2> DEFINE row(m) == [model |-> m, key |-> Defaults[server], status |-> "active",
                        amount |-> DefaultAmount, tens |-> 1]
  <2>1. PICK m, p : prices' = Put(prices, p, row(m))
    BY <1>6 DEF SeedPrice
  <2>2. row(m).tens = 1
    OBVIOUS
  <2>3. server # 0 /\ migrated' = migrated
    BY <1>6, CatalogAssumption DEF SeedPrice
  <2> HIDE DEF row
  <2>4. UnitsKept
    BY <2>1, <2>2, PutKeepsUnits
  <2> QED
    BY <1>1, <2>3, <2>4
<1>7. CASE WithdrawOld
  <2>1. DOMAIN prices' = DOMAIN prices
    BY <1>7 DEF WithdrawOld
  <2>2. ASSUME NEW p \in DOMAIN prices
        PROVE  prices'[p].tens = prices[p].tens
    <3>1. prices[p] \in PriceRows
      BY DEF TablesInv, RowsTyped
    <3>2. prices'[p] = IF prices[p].key \in Withdrawn
                       THEN [prices[p] EXCEPT !.status = "inactive"] ELSE prices[p]
      BY <1>7 DEF WithdrawOld
    <3> QED
      BY <3>1, <3>2 DEF PriceRows
  <2>3. server # 0 /\ migrated' = migrated
    BY <1>7, DefaultsAreFew DEF WithdrawOld
  <2> QED
    BY <1>1, <2>1, <2>2, <2>3 DEF UnitsKept
<1>8. CASE Restart
  BY <1>8 DEF Restart, Migration
<1>9. CASE UNCHANGED catalogVars
  BY <1>9 DEF catalogVars, Migration
<1>10. CASE BackfillModel \/ OpenMarket
  BY <1>10, DefaultsAreFew DEF BackfillModel, OpenMarket, Migration
<1>11. CASE BackfillPrice
  <2>1. PICK p \in Unassigned, m \in DOMAIN models :
          prices' = Put(prices, p, [prices[p] EXCEPT !.model = m])
    BY <1>11 DEF BackfillPrice, ModelOf
  <2>2. prices[p] \in PriceRows /\ p \in DOMAIN prices
    BY DEF TablesInv, RowsTyped, Unassigned, PricesOf
  <2> DEFINE row == [prices[p] EXCEPT !.model = m]
  <2>3. row.tens = prices[p].tens
    BY <2>2 DEF PriceRows
  <2>4. prices' = Put(prices, p, row)
    BY <2>1
  <2> HIDE DEF row
  <2>5. UnitsKept
    BY <2>2, <2>3, <2>4 DEF Put, UnitsKept
  <2> QED
    BY <1>1, <1>11, <2>5, DefaultsAreFew DEF BackfillPrice
<1> QED
  BY <1>2, <1>3, <1>4, <1>5, <1>6, <1>7, <1>8, <1>9, <1>10, <1>11
  DEF CatalogNext, StartNext

-----------------------------------------------------------------------------
LEMMA TablesStep ==
  TablesInv /\ [CatalogNext /\ HandlersEnd]_catalogVars => TablesInv'
<1> SUFFICES ASSUME TablesInv, [CatalogNext /\ HandlersEnd]_catalogVars
             PROVE  TablesInv'
  OBVIOUS
<1>1. CASE AdminNext
  BY <1>1, CreateStep, PriceStep, UpsertStep, PatchModelStep, PatchPricesStep,
     SetModelStatusStep, DeleteStep, DiscountStep DEF AdminNext
<1>2. CASE StartNext
  BY <1>2, MigrateStep, SeedModelStep, SeedPriceStep, WithdrawStep,
     BackfillModelStep, BackfillPriceStep, OpenStep DEF StartNext
<1>3. CASE Restart /\ HandlersEnd
  BY <1>3, RestartStep
<1>4. CASE UNCHANGED catalogVars
  BY <1>4 DEF catalogVars, TablesInv, RowsTyped, RowsAgree, Alone, KeysDiffer,
              OneActive, AdminAgrees, ServerTyped
<1> QED
  BY <1>1, <1>2, <1>3, <1>4 DEF CatalogNext

\* Every state of the catalogue satisfies the invariant of its tables and of
\* the migration's marker: pricing.rs and seed_defaults keep both.
THEOREM CatalogInvHolds == CatalogSpec => [](TablesInv /\ Migration)
<1>1. TablesInv /\ Migration /\ [CatalogNext /\ HandlersEnd]_catalogVars
        => (TablesInv /\ Migration)'
  BY TablesStep, MigrationStep
<1> QED
  BY Initially, <1>1, PTL DEF CatalogSpec

\* Between handlers, and after any restarts, the prices agree with the models
\* and no model has two active prices (plan.md:978).
THEOREM TablesAlwaysAgree == CatalogSpec => []TablesAgree
<1>1. TablesInv => TablesAgree
  <2> SUFFICES ASSUME TablesInv, Idle
               PROVE  /\ \A p \in DOMAIN prices :
                            /\ prices[p].model \in DOMAIN models
                            /\ prices[p].key = models[prices[p].model].key
                      /\ \A m \in DOMAIN models : Cardinality(Active(PricesOf(m))) <= 1
    BY DEF TablesAgree
  <2>1. \A p \in DOMAIN prices : /\ prices[p].model \in DOMAIN models
                                 /\ prices[p].key = models[prices[p].model].key
    BY DEF TablesInv, RowsAgree, Idle, NoHandler
  <2>2. ASSUME NEW m \in DOMAIN models
        PROVE  Cardinality(Active(PricesOf(m))) <= 1
    <3>1. CASE Active(PricesOf(m)) = {}
      BY <3>1, FS_EmptySet
    <3>2. CASE Active(PricesOf(m)) # {}
      <4>1. PICK p : p \in Active(PricesOf(m))
        BY <3>2
      <4>2. Active(PricesOf(m)) = {p}
        BY <4>1 DEF TablesInv, OneActive, Active, PricesOf
      <4> QED
        BY <4>2, FS_Singleton
    <3> QED
      BY <3>1, <3>2
  <2> QED
    BY <2>1, <2>2
<1> QED
  BY <1>1, CatalogInvHolds, PTL

\* Wherever the migration of the prices was cut off, and however often the
\* market was started again, an open market has no price of the old unit.
THEOREM NoPriceKeepsOldUnit == CatalogSpec => []NoPriceIsLeftBehind
<1>1. Migration => NoPriceIsLeftBehind
  BY DEF Migration, NoPriceIsLeftBehind, Up
<1> QED
  BY <1>1, CatalogInvHolds, PTL
-----------------------------------------------------------------------------
(* Which price a request gets *)

LEMMA RankIsNat ==
  ASSUME NEW key \in Keys
  PROVE  /\ Len(key.pattern) \in Nat /\ Rank(key.pattern) \in Nat
         /\ Rank(key.pattern) <= Len(key.pattern)
         /\ key.pattern # <<Star>> => Rank(key.pattern) = Len(key.pattern)
<1>1. key.pattern \in Seq(STRING)
  BY CatalogAssumption
<1>2. Len(key.pattern) \in Nat
  BY <1>1
<1> QED BY <1>2 DEF Rank

\* A longer pattern is preferred, whatever the listing's order says.
LEMMA LongerComesFirst ==
  ASSUME NEW p, NEW q, Rank(prices[p].key.pattern) < Rank(prices[q].key.pattern)
  PROVE  Before(p, q)
<1> DEFINE Key(i) == <<Rank(prices[i].key.pattern), OrderOf(prices[i]),
                       IF Last(prices[i].key.pattern) = Star THEN 0 ELSE 1>>
<1>1. Key(p)[1] < Key(q)[1]
  OBVIOUS
<1>2. \A i \in 1..1 - 1 : Key(p)[i] = Key(q)[i]
  OBVIOUS
<1>3. \E n \in 1..3 : /\ Key(p)[n] < Key(q)[n]
                      /\ \A i \in 1..n - 1 : Key(p)[i] = Key(q)[i]
  <2> HIDE DEF Key
  <2> WITNESS 1 \in 1..3
  <2> QED BY <1>1, <1>2
<1> QED BY <1>3 DEF Before

\* An answer that prices a request names the most specific of the rows that
\* match it, on sale or not.
LEMMA PricedByTheBest ==
  ASSUME NEW app, NEW name, NEW a \in MatchPrice(app, name), a.answer = "priced"
  PROVE  a.price \in BestPrices(app, name)
<1>1. Candidates(app, name) # {}
  BY DEF MatchPrice
<1>2. PICK p \in BestPrices(app, name) :
          a = IF StatusOf(prices[p]) # "active" THEN [answer |-> "model_offline"]
              ELSE [answer |-> "priced", price |-> p,
                    perMillion |-> prices[p].amount * WithDiscount({app})[app]]
  BY <1>1 DEF MatchPrice
<1>3. StatusOf(prices[p]) = "active"
  BY <1>2
<1>4. a.price = p
  BY <1>2, <1>3
<1> QED BY <1>2, <1>4

(***************************************************************************)
(* Whatever admins and starts did to the catalogue before: no request is   *)
(* priced by a pattern less specific than one of a priced model that it    *)
(* matches, though that model is offline (plan.md:979).                    *)
(***************************************************************************)
THEOREM OfflineIsNeverUndercut == CatalogSpec => []OfflineIsNotUndercut
<1>1. TablesInv => OfflineIsNotUndercut
  <2> SUFFICES ASSUME TablesInv, Idle, NEW m \in DOMAIN models, NEW name \in Names,
                      PricesOf(m) # {}, Matches(models[m].key.pattern, name),
                      NEW a \in MatchPrice(models[m].key.app, name), a.answer = "priced"
               PROVE  \/ Len(prices[a.price].key.pattern) >= Len(models[m].key.pattern)
                      \/ models[m].key.pattern = <<Star>>
    BY DEF OfflineIsNotUndercut
  <2> DEFINE app == models[m].key.app
             p == a.price
  <2>1. PICK q : q \in PricesOf(m)
    OBVIOUS
  <2>2. q \in DOMAIN prices /\ prices[q].key = models[m].key
    BY <2>1 DEF TablesInv, RowsAgree, PricesOf, Idle, NoHandler
  <2>3. q \in Candidates(app, name)
    BY <2>2 DEF Candidates
  <2>4. p \in BestPrices(app, name)
    BY PricedByTheBest
  <2>5. p \in DOMAIN prices /\ ~Before(p, q)
    BY <2>3, <2>4 DEF BestPrices, Candidates
  <2>6. ~(Rank(prices[p].key.pattern) < Rank(prices[q].key.pattern))
    BY <2>5, LongerComesFirst
  <2>7. prices[p].key \in Keys /\ prices[q].key \in Keys
    <3>1. prices[p] \in PriceRows /\ prices[q] \in PriceRows
      BY <2>2, <2>5 DEF TablesInv, RowsTyped
    <3> HIDE DEF p
    <3> QED BY <3>1 DEF PriceRows
  <2> HIDE DEF p
  <2>8. CASE prices[q].key.pattern # <<Star>>
    <3>1. Rank(prices[q].key.pattern) = Len(prices[q].key.pattern)
      BY <2>7, <2>8, RankIsNat
    <3>2. /\ Rank(prices[p].key.pattern) <= Len(prices[p].key.pattern)
          /\ Rank(prices[p].key.pattern) \in Nat /\ Len(prices[p].key.pattern) \in Nat
          /\ Rank(prices[q].key.pattern) \in Nat
      BY <2>7, RankIsNat
    <3>3. Len(prices[p].key.pattern) >= Len(prices[q].key.pattern)
      BY <2>6, <3>1, <3>2
    <3> QED BY <2>2, <3>3 DEF p
  <2> QED BY <2>2, <2>8
<1> QED BY <1>1, CatalogInvHolds, PTL

-----------------------------------------------------------------------------
(* The reader of a stream.  Its two loops are recursive functions; what    *)
(* holds at every turn of them is shown by induction (Counting).           *)

\* Induction over the natural numbers: a set of them has a least one.
LEMMA Least ==
  ASSUME NEW T \in SUBSET Nat, T # {}
  PROVE  \E n \in T : \A m \in T : n <= m
<1>1. PICK k \in T : TRUE
  OBVIOUS
<1> DEFINE Below(n) == 0..n
           upTo == {Below(n) : n \in T \cap 0..k}
<1>2. IsFiniteSet(0..k)
  BY FS_Interval
<1>3. IsWellFoundedOn(StrictSubsetOrdering(0..k), FiniteSubsetsOf(0..k))
  BY <1>2, FS_StrictSubsetOrderingWellFounded
<1>4. ASSUME NEW s \in upTo PROVE s \subseteq 0..k /\ IsFiniteSet(s)
  <2>1. PICK n \in T \cap 0..k : s = Below(n)
    OBVIOUS
  <2>2. s \subseteq 0..k
    BY <1>1, <2>1
  <2>3. IsFiniteSet(s)
    BY <1>2, <2>2, FS_Subset, Zenon
  <2> QED
    BY <2>2, <2>3
<1>5. upTo # {}
  BY <1>1
<1>6. PICK s \in upTo : \A u \in upTo : ~(<<u, s>> \in StrictSubsetOrdering(0..k))
  <2>1. upTo \subseteq FiniteSubsetsOf(0..k)
    BY <1>4 DEF FiniteSubsetsOf
  <2> HIDE DEF upTo
  <2> QED
    BY <1>3, <1>5, <2>1, WFMin
<1>7. PICK n \in T \cap 0..k : s = Below(n)
  BY <1>6
<1>8. ASSUME NEW m \in T PROVE n <= m
  <2>1. n \in Nat /\ m \in Nat /\ k \in Nat
    BY <1>1, <1>7
  <2>2. SUFFICES ASSUME m < n PROVE FALSE
    BY <2>1
  <2>3. m \in T \cap 0..k
    BY <2>1, <2>2, <1>7
  <2>4. Below(m) \in upTo
    BY <2>3
  <2>5. Below(m) \subseteq Below(n) /\ n \in Below(n) /\ n \notin Below(m)
    BY <2>1, <2>2
  <2> HIDE DEF Below, upTo
  <2>6. Below(m) \in SUBSET (0..k) /\ s \in SUBSET (0..k)
    BY <2>4, <1>4
  <2> QED
    BY <2>4, <2>5, <2>6, <1>6, <1>7 DEF StrictSubsetOrdering
<1> QED
  BY <1>7, <1>8

\* Induction over the natural numbers, about a set of them.
LEMMA Counting ==
  ASSUME NEW T, 0 \in T, \A n \in Nat : n \in T => n + 1 \in T
  PROVE  \A n \in Nat : n \in T
<1> DEFINE bad == {n \in Nat : n \notin T}
<1>1. SUFFICES ASSUME bad # {} PROVE FALSE
  OBVIOUS
<1>2. PICK n \in bad : \A m \in bad : n <= m
  <2>1. bad \in SUBSET Nat
    OBVIOUS
  <2> HIDE DEF bad
  <2> QED
    BY <1>1, <2>1, Least
<1>3. n \in Nat /\ n # 0
  BY <1>2
<1>4. n - 1 \in Nat /\ n - 1 \notin bad
  BY <1>2, <1>3
<1>5. (n - 1) + 1 \in T
  BY <1>4
<1> QED
  BY <1>2, <1>3, <1>5

\* What texts and chunks are made of.
Symbols == Bytes \cup {"char", "bad"}

\* A symbol alone, and no symbol, are texts.
LEMMA SingleSeq ==
  ASSUME NEW S, NEW x \in S
  PROVE  <<x>> \in Seq(S) /\ <<>> \in Seq(S)
BY EmptySeq

\* The symbols that decoding and cutting look at.
LEMMA SymbolsAre == {"char", "bad", "lead", "cr", "lf"} \subseteq Symbols
BY DEF Symbols, Bytes

-----------------------------------------------------------------------------
(* Decoding.                                                               *)

\* g is what decoding has come to after each byte.
Decodes(g, start, bytes) ==
  g = [n \in 0..Len(bytes) |->
          IF n = 0 THEN start ELSE DecodeByte(g[n - 1], bytes[n])]

Run(start, bytes) == CHOOSE g : Decodes(g, start, bytes)
Decoded(start, bytes) == Run(start, bytes)[Len(bytes)]

\* append_utf8_safe appends what decoding comes to.
LEMMA AppendDecodes ==
  ASSUME NEW p, NEW chunk
  PROVE  LET d == Decoded([text |-> p.buffer, pending |-> <<>>], p.remainder \o chunk)
         IN  AppendUtf8Safe(p, chunk) = [p EXCEPT !.buffer = d.text, !.remainder = d.pending]
BY Zenon DEF AppendUtf8Safe, Decodes, Decoded, Run

\* The recursive function of decoding is defined.
LEMMA DecodingExists ==
  ASSUME NEW start, NEW bytes \in Seq(Symbols)
  PROVE  \E g : Decodes(g, start, bytes)
<1> DEFINE Upto(g, k) == g = [n \in 0..k |->
                           IF n = 0 THEN start ELSE DecodeByte(g[n - 1], bytes[n])]
           T == {k \in Nat : \E g : Upto(g, k)}
<1>1. 0 \in T
  <2>1. Upto([n \in 0..0 |-> start], 0)
    OBVIOUS
  <2> HIDE DEF Upto
  <2> QED
    BY <2>1
<1>2. ASSUME NEW k \in Nat, k \in T
      PROVE  k + 1 \in T
  <2>1. PICK g : Upto(g, k)
    BY <1>2
  <2> DEFINE h == [n \in 0..(k + 1) |->
                     IF n <= k THEN g[n] ELSE DecodeByte(g[k], bytes[k + 1])]
  <2>2. ASSUME NEW n \in 0..(k + 1)
        PROVE  h[n] = IF n = 0 THEN start ELSE DecodeByte(h[n - 1], bytes[n])
    <3>1. CASE n = k + 1
      <4>1. n - 1 = k /\ k \in 0..(k + 1) /\ ~(n <= k) /\ n # 0
        BY <3>1
      <4> QED
        BY <3>1, <4>1
    <3>2. CASE n # k + 1
      <4>1. n \in 0..k /\ n <= k
        BY <3>2
      <4>2. g[n] = IF n = 0 THEN start ELSE DecodeByte(g[n - 1], bytes[n])
        BY <4>1, <2>1
      <4>3. n # 0 => n - 1 \in 0..(k + 1) /\ n - 1 <= k
        BY <4>1
      <4> QED
        BY <4>1, <4>2, <4>3
    <3> QED
      BY <3>1, <3>2
  <2>3. h = [n \in 0..(k + 1) |-> h[n]]
    OBVIOUS
  <2> HIDE DEF h
  <2>4. Upto(h, k + 1)
    BY <2>2, <2>3
  <2> HIDE DEF Upto
  <2> QED
    BY <2>4
<1> HIDE DEF T
<1>3. Len(bytes) \in T
  <2>1. Len(bytes) \in Nat
    BY LenProperties
  <2> QED
    BY <1>1, <1>2, <2>1, Counting
<1> QED
  BY <1>3, Zenon DEF T, Decodes

\* Decoding goes on byte by byte.
LEMMA RunSteps ==
  ASSUME NEW start, NEW bytes \in Seq(Symbols)
  PROVE  /\ Len(bytes) \in Nat
         /\ Run(start, bytes)[0] = start
         /\ \A n \in Nat : n + 1 <= Len(bytes) =>
              Run(start, bytes)[n + 1] = DecodeByte(Run(start, bytes)[n], bytes[n + 1])
<1> DEFINE g == Run(start, bytes)
<1>1. Decodes(g, start, bytes)
  BY DecodingExists DEF Run
<1>2. Len(bytes) \in Nat
  BY LenProperties
<1> HIDE DEF g
<1>3. \A n \in 0..Len(bytes) :
         g[n] = IF n = 0 THEN start ELSE DecodeByte(g[n - 1], bytes[n])
  BY <1>1 DEF Decodes
<1>4. g[0] = start
  BY <1>2, <1>3
<1>5. ASSUME NEW n \in Nat, n + 1 <= Len(bytes)
      PROVE  g[n + 1] = DecodeByte(g[n], bytes[n + 1])
  <2>1. n + 1 \in 0..Len(bytes) /\ n + 1 # 0 /\ (n + 1) - 1 = n
    BY <1>2, <1>5
  <2> QED
    BY <1>3, <2>1
<1> QED
  BY <1>2, <1>4, <1>5 DEF g

\* What is decoded in two parts is decoded as one.
LEMMA DecodedTogether ==
  ASSUME NEW start, NEW s \in Seq(Symbols), NEW t \in Seq(Symbols)
  PROVE  Decoded(start, s \o t) = Decoded(Decoded(start, s), t)
<1> DEFINE g == Run(start, s \o t)
           h == Run(start, s)
           k == Run(h[Len(s)], t)
           S == {n \in Nat : n <= Len(s) => g[n] = h[n]}
           T == {n \in Nat : n <= Len(t) => g[Len(s) + n] = k[n]}
<1>1. /\ s \o t \in Seq(Symbols) /\ Len(s \o t) = Len(s) + Len(t)
      /\ \A i \in 1..Len(s) + Len(t) :
            (s \o t)[i] = IF i <= Len(s) THEN s[i] ELSE t[i - Len(s)]
  BY ConcatProperties
<1>2. /\ Len(s) \in Nat
      /\ h[0] = start
      /\ \A n \in Nat : n + 1 <= Len(s) => h[n + 1] = DecodeByte(h[n], s[n + 1])
  BY RunSteps
<1>3. /\ g[0] = start
      /\ \A n \in Nat : n + 1 <= Len(s) + Len(t) =>
            g[n + 1] = DecodeByte(g[n], (s \o t)[n + 1])
  <2> DEFINE u == s \o t
  <2>1. u \in Seq(Symbols) /\ Len(u) = Len(s) + Len(t)
    BY <1>1
  <2> HIDE DEF u
  <2>2. /\ Run(start, u)[0] = start
        /\ \A n \in Nat : n + 1 <= Len(u) =>
             Run(start, u)[n + 1] = DecodeByte(Run(start, u)[n], u[n + 1])
    BY <2>1, RunSteps
  <2> QED
    BY <2>1, <2>2 DEF u
<1>4. /\ Len(t) \in Nat
      /\ k[0] = h[Len(s)]
      /\ \A n \in Nat : n + 1 <= Len(t) => k[n + 1] = DecodeByte(k[n], t[n + 1])
  BY RunSteps
<1> HIDE DEF g, h, k
<1>5. \A n \in Nat : n \in S
  <2>1. 0 \in S
    BY <1>2, <1>3
  <2>2. ASSUME NEW n \in Nat, n \in S
        PROVE  n + 1 \in S
    <3>1. SUFFICES ASSUME n + 1 <= Len(s) PROVE g[n + 1] = h[n + 1]
      OBVIOUS
    <3>2. n <= Len(s) /\ n + 1 \in 1..Len(s) + Len(t) /\ n + 1 <= Len(s) + Len(t)
      BY <1>2, <1>4, <3>1
    <3>3. g[n] = h[n] /\ (s \o t)[n + 1] = s[n + 1]
      BY <1>1, <2>2, <3>1, <3>2
    <3> QED
      BY <1>2, <1>3, <3>1, <3>2, <3>3
  <2> HIDE DEF S
  <2> QED
    BY <2>1, <2>2, Counting
<1>6. \A n \in Nat : n \in T
  <2>1. 0 \in T
    BY <1>2, <1>4, <1>5
  <2>2. ASSUME NEW n \in Nat, n \in T
        PROVE  n + 1 \in T
    <3>1. SUFFICES ASSUME n + 1 <= Len(t) PROVE g[Len(s) + (n + 1)] = k[n + 1]
      OBVIOUS
    <3> DEFINE m == Len(s) + n
    <3>2. /\ m \in Nat /\ m + 1 = Len(s) + (n + 1) /\ m + 1 \in 1..Len(s) + Len(t)
          /\ m + 1 <= Len(s) + Len(t)
          /\ ~(m + 1 <= Len(s)) /\ (m + 1) - Len(s) = n + 1
      BY <1>2, <1>4, <3>1
    <3>3. g[m] = k[n]
      BY <2>2, <3>1, <1>4
    <3> HIDE DEF m
    <3>4. (s \o t)[m + 1] = t[n + 1]
      BY <1>1, <3>2
    <3>5. g[m + 1] = DecodeByte(g[m], (s \o t)[m + 1])
      BY <1>3, <3>2
    <3> QED
      BY <1>4, <3>1, <3>2, <3>3, <3>4, <3>5
  <2> HIDE DEF T
  <2> QED
    BY <2>1, <2>2, Counting
<1>7. g[Len(s) + Len(t)] = k[Len(t)]
  <2>1. Len(t) \in T /\ Len(t) <= Len(t)
    BY <1>4, <1>6
  <2> QED
    BY <2>1
<1> QED
  BY <1>1, <1>7 DEF g, h, k, Decoded

\* What decoding goes on with: the text so far, and the first byte of a character.
Pendings == {<<>>, <<"lead">>}
Decodings == [text : Seq(Symbols), pending : Pendings]
Nothing == [text |-> <<>>, pending |-> <<>>]
Behind(a, d) == [text |-> a \o d.text, pending |-> d.pending]

\* The text so far has no part in decoding the next byte.
LEMMA DecodedByte ==
  ASSUME NEW d \in Decodings, NEW byte \in Symbols, NEW a \in Seq(Symbols)
  PROVE  /\ DecodeByte(d, byte) \in Decodings
         /\ DecodeByte(Behind(a, d), byte) = Behind(a, DecodeByte(d, byte))
<1>1. d.text \in Seq(Symbols) /\ d.pending \in Pendings
  BY DEF Decodings
<1>2. ASSUME NEW b \in Seq(Symbols), NEW x \in Symbols
      PROVE  Append(b, x) \in Seq(Symbols) /\ Append(a \o b, x) = a \o Append(b, x)
  <2>1. Append(b, x) = b \o <<x>> /\ Append(a \o b, x) = (a \o b) \o <<x>>
    BY ConcatProperties, AppendIsConcat
  <2>2. <<x>> \in Seq(Symbols)
    BY SingleSeq
  <2> QED
    BY <2>1, <2>2, ConcatAssociative, ConcatProperties
<1>3. Behind(a, d).text = a \o d.text /\ Behind(a, d).pending = d.pending
  BY DEF Behind
<1> DEFINE start == IF d.pending # <<>> THEN Append(d.text, "bad") ELSE d.text
           after == IF d.pending # <<>> THEN Append(a \o d.text, "bad") ELSE a \o d.text
<1>4. start \in Seq(Symbols) /\ after = a \o start
  BY <1>1, <1>2, SymbolsAre
<1>5. CASE byte = "lead"
  <2>1. DecodeByte(d, byte) = [text |-> start, pending |-> <<"lead">>]
    BY <1>5 DEF DecodeByte
  <2>2. DecodeByte(Behind(a, d), byte) = [text |-> after, pending |-> <<"lead">>]
    BY <1>5, <1>3 DEF DecodeByte
  <2> HIDE DEF start, after
  <2> QED
    BY <1>4, <2>1, <2>2 DEF Behind, Decodings, Pendings
<1>6. CASE byte = "cont"
  <2> DEFINE x == IF d.pending # <<>> THEN "char" ELSE "bad"
  <2>1. DecodeByte(d, byte) = [text |-> Append(d.text, x), pending |-> <<>>]
    BY <1>6 DEF DecodeByte
  <2>2. DecodeByte(Behind(a, d), byte) = [text |-> Append(a \o d.text, x), pending |-> <<>>]
    BY <1>6, <1>3 DEF DecodeByte
  <2>3. x \in Symbols
    BY SymbolsAre
  <2> HIDE DEF x
  <2>4. /\ Append(d.text, x) \in Seq(Symbols)
        /\ Append(a \o d.text, x) = a \o Append(d.text, x)
    BY <1>1, <1>2, <2>3
  <2> QED
    BY <2>1, <2>2, <2>4 DEF Behind, Decodings, Pendings
<1>7. CASE byte # "lead" /\ byte # "cont"
  <2>1. DecodeByte(d, byte) = [text |-> Append(start, byte), pending |-> <<>>]
    BY <1>7 DEF DecodeByte
  <2>2. DecodeByte(Behind(a, d), byte) = [text |-> Append(after, byte), pending |-> <<>>]
    BY <1>7, <1>3 DEF DecodeByte
  <2> HIDE DEF start, after
  <2>3. /\ Append(start, byte) \in Seq(Symbols)
        /\ Append(a \o start, byte) = a \o Append(start, byte)
    BY <1>4, <1>2
  <2> QED
    BY <1>4, <2>1, <2>2, <2>3 DEF Behind, Decodings, Pendings
<1> QED
  BY <1>5, <1>6, <1>7

\* Nor in decoding the next bytes.
LEMMA DecodedBehind ==
  ASSUME NEW d \in Decodings, NEW s \in Seq(Symbols), NEW a \in Seq(Symbols)
  PROVE  /\ Decoded(d, s) \in Decodings
         /\ Decoded(Behind(a, d), s) = Behind(a, Decoded(d, s))
<1> DEFINE g == Run(d, s)
           h == Run(Behind(a, d), s)
           T == {n \in Nat : n <= Len(s) => g[n] \in Decodings /\ h[n] = Behind(a, g[n])}
<1>1. /\ Len(s) \in Nat
      /\ g[0] = d
      /\ \A n \in Nat : n + 1 <= Len(s) => g[n + 1] = DecodeByte(g[n], s[n + 1])
  BY RunSteps
<1>2. /\ h[0] = Behind(a, d)
      /\ \A n \in Nat : n + 1 <= Len(s) => h[n + 1] = DecodeByte(h[n], s[n + 1])
  BY RunSteps
<1> HIDE DEF g, h
<1>3. 0 \in T
  BY <1>1, <1>2
<1>4. ASSUME NEW n \in Nat, n \in T
      PROVE  n + 1 \in T
  <2>1. SUFFICES ASSUME n + 1 <= Len(s)
                 PROVE  g[n + 1] \in Decodings /\ h[n + 1] = Behind(a, g[n + 1])
    OBVIOUS
  <2>2. g[n] \in Decodings /\ h[n] = Behind(a, g[n])
    BY <1>1, <1>4, <2>1
  <2>3. s[n + 1] \in Symbols
    BY <1>1, <2>1, ElementOfSeq
  <2> QED
    BY <1>1, <1>2, <2>1, <2>2, <2>3, DecodedByte
<1>5. Len(s) \in T
  <2> HIDE DEF T
  <2> QED
    BY <1>1, <1>3, <1>4, Counting
<1> QED
  BY <1>1, <1>5 DEF g, h, Decoded

\* The start of a character decodes to itself, and waits.
LEMMA PendingIsDecoded ==
  ASSUME NEW q \in Pendings
  PROVE  Decoded(Nothing, q) = [text |-> <<>>, pending |-> q]
<1>1. q \in Seq(Symbols)
  BY SingleSeq, SymbolsAre DEF Pendings
<1> DEFINE g == Run(Nothing, q)
<1>2. /\ g[0] = Nothing
      /\ \A n \in Nat : n + 1 <= Len(q) => g[n + 1] = DecodeByte(g[n], q[n + 1])
  BY <1>1, RunSteps
<1> HIDE DEF g
<1>3. CASE q = <<>>
  <2>1. Len(q) = 0
    BY <1>3
  <2> QED
    BY <1>2, <1>3, <2>1 DEF Decoded, g, Nothing
<1>4. CASE q = <<"lead">>
  <2>1. Len(q) = 1 /\ q[1] = "lead"
    BY <1>4
  <2>2. g[0 + 1] = DecodeByte(g[0], q[0 + 1])
    BY <1>2, <2>1
  <2>3. g[1] = DecodeByte(Nothing, "lead")
    BY <1>2, <2>1, <2>2
  <2>4. DecodeByte(Nothing, "lead") = [text |-> <<>>, pending |-> <<"lead">>]
    BY DEF DecodeByte, Nothing
  <2> QED
    BY <1>4, <2>1, <2>3, <2>4 DEF Decoded, g
<1> QED
  BY <1>3, <1>4 DEF Pendings

\* A delimiter of n symbols stands at i.
IsCut(B, i, n) ==
  /\ i \in 1..Len(B) /\ i + n - 1 <= Len(B)
  /\ \/ n = 2 /\ B[i] = "lf" /\ B[i + 1] = "lf"
     \/ n = 4 /\ B[i] = "cr" /\ B[i + 1] = "lf" /\ B[i + 2] = "cr" /\ B[i + 3] = "lf"

\* A delimiter, symbol by symbol.
LEMMA DelimiterIs ==
  ASSUME NEW B \in Seq(Symbols), NEW i \in 1..Len(B), NEW n \in {2, 4}, i + n - 1 <= Len(B)
  PROVE  SubSeq(B, i, i + n - 1) \in Delimiters <=> IsCut(B, i, n)
<1> DEFINE s == SubSeq(B, i, i + n - 1)
<1>1. Len(B) \in Nat /\ i \in Int /\ i + n - 1 \in Int /\ n \in Nat
  BY LenProperties
<1>2. \A j \in i..(i + n - 1) : B[j] \in Symbols
  BY <1>1, ElementOfSeq
<1>3. /\ s \in Seq(Symbols) /\ Len(s) = n
      /\ \A j \in 1..n : s[j] = B[i + j - 1]
  <2>1. /\ s \in Seq(Symbols)
        /\ Len(s) = IF i <= i + n - 1 THEN (i + n - 1) - i + 1 ELSE 0
        /\ \A j \in 1..((i + n - 1) - i + 1) : s[j] = B[i + j - 1]
    BY <1>1, <1>2, SubSeqProperties
  <2> HIDE DEF s
  <2> QED
    BY <1>1, <2>1
<1> HIDE DEF s
<1> DEFINE lf2 == <<"lf", "lf">>
           crlf == <<"cr", "lf", "cr", "lf">>
<1>4. /\ lf2 \in Seq(Symbols) /\ Len(lf2) = 2
      /\ crlf \in Seq(Symbols) /\ Len(crlf) = 4
  BY SymbolsAre
<1>5. CASE n = 2
  <2>1. s[1] = B[i] /\ s[2] = B[i + 1]
    BY <1>1, <1>3, <1>5
  <2>2. s # crlf
    <3>1. Len(s) # Len(crlf)
      BY <1>3, <1>4, <1>5
    <3> HIDE DEF crlf, lf2
    <3> QED
      BY <3>1, Zenon
  <2>3. s = lf2 <=> s[1] = "lf" /\ s[2] = "lf"
    <3>1. s = lf2 => s[1] = "lf" /\ s[2] = "lf"
      OBVIOUS
    <3>2. ASSUME s[1] = "lf", s[2] = "lf" PROVE s = lf2
      <4>1. lf2[1] = "lf" /\ lf2[2] = "lf"
        OBVIOUS
      <4> HIDE DEF lf2
      <4>2. \A j \in 1..Len(s) : s[j] = lf2[j]
        BY <1>3, <1>5, <3>2, <4>1
      <4> QED
        BY <1>3, <1>4, <1>5, <4>2, SeqEqual
    <3> QED
      BY <3>1, <3>2
  <2> QED
    BY <1>1, <1>5, <2>1, <2>2, <2>3 DEF IsCut, Delimiters, s
<1>6. CASE n = 4
  <2>1. s[1] = B[i] /\ s[2] = B[i + 1] /\ s[3] = B[i + 2] /\ s[4] = B[i + 3]
    BY <1>1, <1>3, <1>6
  <2>2. s # lf2
    <3>1. Len(s) # Len(lf2)
      BY <1>3, <1>4, <1>6
    <3> HIDE DEF crlf, lf2
    <3> QED
      BY <3>1, Zenon
  <2>3. s = crlf <=> s[1] = "cr" /\ s[2] = "lf" /\ s[3] = "cr" /\ s[4] = "lf"
    <3>1. s = crlf => s[1] = "cr" /\ s[2] = "lf" /\ s[3] = "cr" /\ s[4] = "lf"
      OBVIOUS
    <3>2. ASSUME s[1] = "cr", s[2] = "lf", s[3] = "cr", s[4] = "lf" PROVE s = crlf
      <4>1. crlf[1] = "cr" /\ crlf[2] = "lf" /\ crlf[3] = "cr" /\ crlf[4] = "lf"
        OBVIOUS
      <4> HIDE DEF crlf
      <4>2. \A j \in 1..Len(s) : s[j] = crlf[j]
        BY <1>3, <1>6, <3>2, <4>1
      <4> QED
        BY <1>3, <1>4, <1>6, <4>2, SeqEqual
    <3> QED
      BY <3>1, <3>2
  <2> QED
    BY <1>1, <1>6, <2>1, <2>2, <2>3 DEF IsCut, Delimiters, s
<1> QED
  BY <1>5, <1>6

\* The cuts are the places of the delimiters.
LEMMA CutsAre ==
  ASSUME NEW B \in Seq(Symbols)
  PROVE  /\ \A c \in Cuts(B) : c = <<c[1], c[2]>> /\ c[1] \in 1..Len(B) /\ c[2] \in {2, 4}
         /\ \A i \in Int, n \in {2, 4} : <<i, n>> \in Cuts(B) <=> IsCut(B, i, n)
<1>1. Len(B) \in Nat
  BY LenProperties
<1>2. \A c \in Cuts(B) : c = <<c[1], c[2]>> /\ c[1] \in 1..Len(B) /\ c[2] \in {2, 4}
  BY DEF Cuts
<1>3. ASSUME NEW i \in Int, NEW n \in {2, 4}
      PROVE  <<i, n>> \in Cuts(B) <=> IsCut(B, i, n)
  <2>1. <<i, n>> \in Cuts(B)
          <=> /\ i \in 1..Len(B)
              /\ i + n - 1 <= Len(B)
              /\ SubSeq(B, i, i + n - 1) \in Delimiters
    BY DEF Cuts
  <2> QED
    BY <2>1, DelimiterIs DEF IsCut
<1> QED
  BY <1>2, <1>3

\* At one place there is one delimiter.
LEMMA CutsDiffer ==
  ASSUME NEW B \in Seq(Symbols), NEW c \in Cuts(B), NEW d \in Cuts(B), c[1] = d[1]
  PROVE  c = d
<1>1. /\ c = <<c[1], c[2]>> /\ c[1] \in 1..Len(B) /\ c[2] \in {2, 4}
      /\ d = <<d[1], d[2]>> /\ d[2] \in {2, 4}
  BY CutsAre
<1>2. IsCut(B, c[1], c[2]) /\ IsCut(B, c[1], d[2])
  <2> DEFINE i == c[1]
             m == c[2]
             n == d[2]
  <2>1. /\ i \in Int /\ m \in {2, 4} /\ n \in {2, 4}
        /\ <<i, m>> \in Cuts(B) /\ <<i, n>> \in Cuts(B)
    BY <1>1
  <2> HIDE DEF i, m, n
  <2>2. IsCut(B, i, m) /\ IsCut(B, i, n)
    BY <2>1, CutsAre
  <2> QED
    BY <2>2 DEF i, m, n
<1>3. c[2] = d[2]
  BY <1>1, <1>2 DEF IsCut
<1> QED
  BY <1>1, <1>3

\* The first cut is one, and no other comes before it.
LEMMA FirstCutIs ==
  ASSUME NEW B \in Seq(Symbols), Cuts(B) # {}
  PROVE  /\ FirstCut(B) \in Cuts(B)
         /\ \A other \in Cuts(B) : FirstCut(B)[1] <= other[1]
<1> DEFINE at == {c[1] : c \in Cuts(B)}
<1>1. at \in SUBSET Nat /\ at # {}
  BY CutsAre, LenProperties
<1>2. PICK i \in at : \A j \in at : i <= j
  <2> HIDE DEF at
  <2> QED
    BY <1>1, Least
<1>3. \E cut \in Cuts(B) : \A other \in Cuts(B) : cut[1] <= other[1]
  BY <1>2
<1> QED
  BY <1>3 DEF FirstCut

\* What a cut is.
LEMMA CutAt ==
  ASSUME NEW B \in Seq(Symbols), NEW c \in Cuts(B)
  PROVE  c = <<c[1], c[2]>> /\ c[1] \in 1..Len(B) /\ c[2] \in {2, 4} /\ IsCut(B, c[1], c[2])
<1> DEFINE i == c[1]
           n == c[2]
<1>1. c = <<i, n>> /\ i \in 1..Len(B) /\ n \in {2, 4}
  BY CutsAre
<1>2. i \in Int /\ <<i, n>> \in Cuts(B)
  BY <1>1
<1> HIDE DEF i, n
<1>3. IsCut(B, i, n)
  BY <1>1, <1>2, CutsAre
<1> QED
  BY <1>1, <1>3 DEF i, n

\* What comes later makes no other delimiter the first: a delimiter that only
\* what comes later completes begins behind the first one.
LEMMA FirstCutStays ==
  ASSUME NEW B \in Seq(Symbols), NEW X \in Seq(Symbols), Cuts(B) # {}
  PROVE  Cuts(B \o X) # {} /\ FirstCut(B \o X) = FirstCut(B)
<1> DEFINE BX == B \o X
           cut == FirstCut(B)
           i == cut[1]
           n == cut[2]
<1>1. /\ BX \in Seq(Symbols) /\ Len(BX) = Len(B) + Len(X)
      /\ Len(B) \in Nat /\ Len(X) \in Nat
      /\ \A k \in 1..Len(B) : BX[k] = B[k]
  BY ConcatProperties, LenProperties
<1>2. cut \in Cuts(B) /\ \A other \in Cuts(B) : i <= other[1]
  BY FirstCutIs
<1>3. cut = <<i, n>> /\ i \in 1..Len(B) /\ n \in {2, 4} /\ IsCut(B, i, n)
  BY <1>2, CutAt
<1> HIDE DEF BX, cut, i, n
<1>4. IsCut(BX, i, n)
  <2>1. /\ i \in 1..Len(BX) /\ i + n - 1 <= Len(BX)
        /\ BX[i] = B[i] /\ BX[i + 1] = B[i + 1]
        /\ n = 4 => BX[i + 2] = B[i + 2] /\ BX[i + 3] = B[i + 3]
    <3>1. i + n - 1 <= Len(B)
      BY <1>3 DEF IsCut
    <3>2. /\ i \in 1..Len(BX) /\ i + n - 1 <= Len(BX)
          /\ i + 1 \in 1..Len(B)
          /\ n = 4 => i + 2 \in 1..Len(B) /\ i + 3 \in 1..Len(B)
      BY <1>1, <1>3, <3>1
    <3> QED
      BY <1>1, <1>3, <3>2
  <2> QED
    BY <1>3, <2>1 DEF IsCut
<1>5. cut \in Cuts(BX)
  <2>1. i \in Int
    BY <1>1, <1>3
  <2>2. <<i, n>> \in Cuts(BX)
    BY <1>1, <1>3, <1>4, <2>1, CutsAre
  <2> QED
    BY <1>3, <2>2
<1>6. ASSUME NEW other \in Cuts(BX)
      PROVE  i <= other[1]
  <2> DEFINE j == other[1]
             m == other[2]
  <2>1. other = <<j, m>> /\ j \in 1..Len(BX) /\ m \in {2, 4} /\ IsCut(BX, j, m)
    BY <1>1, CutAt
  <2> HIDE DEF j, m
  <2>2. SUFFICES ASSUME j < i PROVE FALSE
    BY <1>1, <1>3, <2>1 DEF j
  <2>3. CASE j + m - 1 <= Len(B)
    <3>1. IsCut(B, j, m)
      <4>1. /\ j \in 1..Len(B)
            /\ BX[j] = B[j] /\ BX[j + 1] = B[j + 1]
            /\ m = 4 => BX[j + 2] = B[j + 2] /\ BX[j + 3] = B[j + 3]
        <5>1. /\ j \in 1..Len(B) /\ j + 1 \in 1..Len(B)
              /\ m = 4 => j + 2 \in 1..Len(B) /\ j + 3 \in 1..Len(B)
          BY <1>1, <2>1, <2>3
        <5> QED
          BY <1>1, <5>1
      <4> QED
        BY <2>1, <2>3, <4>1 DEF IsCut
    <3>2. other \in Cuts(B)
      <4>1. j \in Int
        BY <1>1, <2>1
      <4>2. <<j, m>> \in Cuts(B)
        BY <2>1, <3>1, <4>1, CutsAre
      <4> QED
        BY <2>1, <4>2
    <3> QED
      BY <1>1, <1>2, <1>3, <2>1, <2>2, <3>2 DEF j
  <2>4. CASE j + m - 1 > Len(B)
    <3>1. i + n - 1 <= Len(B)
      BY <1>3 DEF IsCut
    <3>2. m = 4 /\ n = 2 /\ i = j + 1 /\ Len(B) = i + 1
      BY <1>1, <1>3, <2>1, <2>2, <2>4, <3>1
    <3>3. B[i + 1] = "lf" /\ BX[j + 2] = "cr"
      BY <1>3, <2>1, <3>2 DEF IsCut
    <3>4. i + 1 \in 1..Len(B) /\ j + 2 = i + 1
      BY <1>3, <2>1, <3>2
    <3> QED
      BY <1>1, <3>3, <3>4
  <2> QED
    BY <1>1, <2>1, <2>3, <2>4
<1>7. FirstCut(BX) \in Cuts(BX) /\ FirstCut(BX)[1] <= i /\ i <= FirstCut(BX)[1]
  <2>1. FirstCut(BX) \in Cuts(BX) /\ \A other \in Cuts(BX) : FirstCut(BX)[1] <= other[1]
    BY <1>1, <1>5, FirstCutIs
  <2> QED
    BY <1>5, <1>6, <2>1 DEF i
<1>8. FirstCut(BX)[1] = cut[1]
  <2>1. FirstCut(BX)[1] \in 1..Len(BX)
    BY <1>1, <1>7, CutAt
  <2> QED
    BY <1>1, <1>3, <1>7, <2>1 DEF i
<1> QED
  BY <1>1, <1>5, <1>7, <1>8, CutsDiffer DEF BX, cut

\* What is before and behind the first delimiter.
BlockOf(B) == SubSeq(B, 1, FirstCut(B)[1] - 1)
RestOf(B)  == SubSeq(B, FirstCut(B)[1] + FirstCut(B)[2], Len(B))

\* What comes later goes behind the rest and leaves the block as it is.
LEMMA BlockAndRest ==
  ASSUME NEW B \in Seq(Symbols), NEW X \in Seq(Symbols), Cuts(B) # {}
  PROVE  /\ RestOf(B) \in Seq(Symbols)
         /\ BlockOf(B \o X) = BlockOf(B)
         /\ RestOf(B \o X) = RestOf(B) \o X
<1> DEFINE i == FirstCut(B)[1]
           n == FirstCut(B)[2]
           k == i + n
           BX == B \o X
<1>1. /\ BX \in Seq(Symbols) /\ Len(BX) = Len(B) + Len(X)
      /\ Len(B) \in Nat /\ Len(X) \in Nat
      /\ \A j \in 1..Len(B) + Len(X) :
            BX[j] = IF j <= Len(B) THEN B[j] ELSE X[j - Len(B)]
  BY ConcatProperties, LenProperties
<1>2. FirstCut(BX) = FirstCut(B)
  BY FirstCutStays
<1>3. i \in 1..Len(B) /\ n \in {2, 4} /\ i + n - 1 <= Len(B)
  BY FirstCutIs, CutAt DEF IsCut
<1> HIDE DEF i, n, BX
<1>4. k \in Nat /\ k >= 1 /\ k <= Len(B) + 1
  BY <1>1, <1>3
<1> HIDE DEF k
<1>5. /\ \A j \in 1..Len(B) : B[j] \in Symbols
      /\ \A j \in 1..Len(BX) : BX[j] \in Symbols
  BY <1>1, ElementOfSeq
<1>6. /\ SubSeq(B, k, Len(B)) \in Seq(Symbols)
      /\ Len(SubSeq(B, k, Len(B))) = Len(B) - k + 1
      /\ \A j \in 1..(Len(B) - k + 1) : SubSeq(B, k, Len(B))[j] = B[k + j - 1]
  <2>1. \A j \in k..Len(B) : B[j] \in Symbols
    BY <1>1, <1>4, <1>5
  <2>2. /\ SubSeq(B, k, Len(B)) \in Seq(Symbols)
        /\ Len(SubSeq(B, k, Len(B))) = IF k <= Len(B) THEN Len(B) - k + 1 ELSE 0
        /\ \A j \in 1..(Len(B) - k + 1) : SubSeq(B, k, Len(B))[j] = B[k + j - 1]
    BY <1>1, <1>4, <2>1, SubSeqProperties
  <2> QED
    BY <1>1, <1>4, <2>2
<1>7. /\ SubSeq(BX, k, Len(BX)) \in Seq(Symbols)
      /\ Len(SubSeq(BX, k, Len(BX))) = Len(BX) - k + 1
      /\ \A j \in 1..(Len(BX) - k + 1) : SubSeq(BX, k, Len(BX))[j] = BX[k + j - 1]
  <2>1. \A j \in k..Len(BX) : BX[j] \in Symbols
    BY <1>1, <1>4, <1>5
  <2>2. /\ SubSeq(BX, k, Len(BX)) \in Seq(Symbols)
        /\ Len(SubSeq(BX, k, Len(BX))) = IF k <= Len(BX) THEN Len(BX) - k + 1 ELSE 0
        /\ \A j \in 1..(Len(BX) - k + 1) : SubSeq(BX, k, Len(BX))[j] = BX[k + j - 1]
    BY <1>1, <1>4, <2>1, SubSeqProperties
  <2> QED
    BY <1>1, <1>4, <2>2
<1>8. SubSeq(BX, k, Len(BX)) = SubSeq(B, k, Len(B)) \o X
  <2> DEFINE s == SubSeq(BX, k, Len(BX))
             r == SubSeq(B, k, Len(B))
  <2> HIDE DEF s, r
  <2>1. /\ r \o X \in Seq(Symbols) /\ Len(r \o X) = Len(r) + Len(X)
        /\ \A j \in 1..Len(r) + Len(X) :
              (r \o X)[j] = IF j <= Len(r) THEN r[j] ELSE X[j - Len(r)]
    BY <1>6, ConcatProperties DEF r
  <2>2. Len(s) = Len(r \o X) /\ s \in Seq(Symbols)
    BY <1>1, <1>4, <1>6, <1>7, <2>1 DEF s, r
  <2>3. ASSUME NEW j \in 1..Len(s)
        PROVE  s[j] = (r \o X)[j]
    <3>1. /\ Len(s) = Len(B) + Len(X) - k + 1 /\ Len(r) = Len(B) - k + 1
          /\ s[j] = BX[k + j - 1]
      <4>1. Len(s) = Len(BX) - k + 1 /\ Len(r) = Len(B) - k + 1
        BY <1>6, <1>7 DEF s, r
      <4>2. j \in 1..(Len(BX) - k + 1)
        BY <4>1
      <4>3. s[j] = BX[k + j - 1]
        BY <4>2, <1>7 DEF s
      <4> QED
        BY <1>1, <1>4, <4>1, <4>3
    <3>2. CASE j <= Len(r)
      <4>1. /\ j \in 1..(Len(B) - k + 1) /\ k + j - 1 \in 1..Len(B) + Len(X)
            /\ k + j - 1 <= Len(B) /\ j \in 1..Len(r) + Len(X)
        BY <1>1, <1>4, <3>1, <3>2
      <4>2. r[j] = B[k + j - 1]
        BY <1>6, <4>1 DEF r
      <4>3. (r \o X)[j] = r[j] /\ BX[k + j - 1] = B[k + j - 1]
        BY <1>1, <2>1, <3>2, <4>1
      <4> QED
        BY <3>1, <4>2, <4>3
    <3>3. CASE ~(j <= Len(r))
      <4>1. /\ k + j - 1 \in 1..Len(B) + Len(X)
            /\ ~(k + j - 1 <= Len(B)) /\ j \in 1..Len(r) + Len(X)
            /\ (k + j - 1) - Len(B) = j - Len(r)
        BY <1>1, <1>4, <3>1, <3>3
      <4>2. (r \o X)[j] = X[j - Len(r)] /\ BX[k + j - 1] = X[(k + j - 1) - Len(B)]
        BY <1>1, <2>1, <3>3, <4>1
      <4> QED
        BY <3>1, <4>1, <4>2
    <3> QED
      BY <3>2, <3>3
  <2>4. s = r \o X
    BY <2>1, <2>2, <2>3, SeqEqual
  <2> QED
    BY <2>4 DEF s, r
<1>9. SubSeq(BX, 1, i - 1) = SubSeq(B, 1, i - 1)
  <2>1. CASE i = 1
    BY <2>1, SubSeqEmpty
  <2>2. CASE i # 1
    <3>1. 1 \in 1..Len(B) /\ i - 1 \in 1..Len(B)
      BY <1>1, <1>3, <2>2
    <3> QED
      BY <3>1, SubSeqOfConcat1 DEF BX
  <2> QED
    BY <2>1, <2>2
<1> QED
  BY <1>2, <1>6, <1>8, <1>9 DEF BlockOf, RestOf, i, n, k, BX

\* A block takes a delimiter out of the buffer.
LEMMA CutsOfRest ==
  ASSUME NEW B \in Seq(Symbols), Cuts(B) # {}
  PROVE  /\ IsFiniteSet(Cuts(B)) /\ IsFiniteSet(Cuts(RestOf(B)))
         /\ Cardinality(Cuts(RestOf(B))) < Cardinality(Cuts(B))
<1> DEFINE cut == FirstCut(B)
           i == cut[1]
           n == cut[2]
           k == i + n - 1
           R == RestOf(B)
<1>0. Len(B) \in Nat
  BY LenProperties
<1>1. cut \in Cuts(B) /\ \A other \in Cuts(B) : i <= other[1]
  BY FirstCutIs
<1>2. i \in 1..Len(B) /\ n \in {2, 4} /\ i + n - 1 <= Len(B)
  BY <1>1, CutAt DEF IsCut
<1> HIDE DEF cut, i, n
<1>3. k \in Nat /\ k <= Len(B) /\ k + 1 = i + n /\ k >= i
  BY <1>0, <1>2
<1> HIDE DEF k
<1>4. /\ R \in Seq(Symbols) /\ Len(R) = Len(B) - k
      /\ \A j \in 1..(Len(B) - k) : R[j] = B[k + j]
  <2>1. \A j \in (k + 1)..Len(B) : B[j] \in Symbols
    BY <1>0, <1>3, ElementOfSeq
  <2> DEFINE r == SubSeq(B, k + 1, Len(B))
  <2>2. /\ r \in Seq(Symbols)
        /\ Len(r) = IF k + 1 <= Len(B) THEN Len(B) - (k + 1) + 1 ELSE 0
        /\ \A j \in 1..(Len(B) - (k + 1) + 1) : r[j] = B[(k + 1) + j - 1]
    BY <1>0, <1>3, <2>1, SubSeqProperties
  <2>3. R = r
    BY <1>3 DEF RestOf, cut, i, n
  <2> HIDE DEF r, R
  <2>4. Len(B) - (k + 1) + 1 = Len(B) - k /\ \A j \in Int : (k + 1) + j - 1 = k + j
    BY <1>0, <1>3
  <2>5. Len(r) = Len(B) - k
    <3>1. k \in Nat /\ k <= Len(B)
      BY <1>3
    <3>2. Len(r) = IF k + 1 <= Len(B) THEN Len(B) - (k + 1) + 1 ELSE 0
      BY <2>2
    <3>3. CASE k = Len(B)
      BY <1>0, <3>1, <3>2, <3>3
    <3>4. CASE k # Len(B)
      BY <1>0, <3>1, <3>2, <3>4
    <3> QED
      BY <3>3, <3>4
  <2>6. ASSUME NEW j \in 1..(Len(B) - k)
        PROVE  r[j] = B[k + j]
    <3>1. j \in 1..(Len(B) - (k + 1) + 1) /\ (k + 1) + j - 1 = k + j
      BY <1>0, <1>3, <2>4
    <3> QED
      BY <2>2, <3>1
  <2> QED
    BY <2>2, <2>3, <2>5, <2>6, Zenon
<1> HIDE DEF R
<1> DEFINE f == [c \in Cuts(R) |-> <<c[1] + k, c[2]>>]
<1>5. ASSUME NEW c \in Cuts(R)
      PROVE  f[c] \in Cuts(B) \ {cut} /\ c[1] \in Int
  <2> DEFINE j == c[1]
             m == c[2]
  <2>1. c = <<j, m>> /\ j \in 1..Len(R) /\ m \in {2, 4} /\ IsCut(R, j, m)
    BY <1>4, CutAt
  <2>2. f[c] = <<j + k, m>>
    OBVIOUS
  <2> HIDE DEF j, m, f
  <2>3. IsCut(B, j + k, m)
    <3>1. /\ j \in Int /\ j >= 1 /\ j + m - 1 <= Len(B) - k
          /\ j + 1 <= Len(B) - k /\ (m = 4 => j + 3 <= Len(B) - k)
      BY <1>0, <1>3, <1>4, <2>1 DEF IsCut
    <3>2. /\ R[j] = B[k + j] /\ R[j + 1] = B[k + (j + 1)]
          /\ m = 4 => R[j + 2] = B[k + (j + 2)] /\ R[j + 3] = B[k + (j + 3)]
      BY <1>0, <1>3, <1>4, <3>1
    <3>3. /\ j + k \in 1..Len(B) /\ (j + k) + m - 1 <= Len(B)
          /\ k + j = j + k /\ k + (j + 1) = (j + k) + 1
          /\ k + (j + 2) = (j + k) + 2 /\ k + (j + 3) = (j + k) + 3
      BY <1>0, <1>3, <2>1, <3>1
    <3> QED
      BY <2>1, <3>2, <3>3 DEF IsCut
  <2>4. j + k \in Int /\ j + k # i
    BY <1>2, <1>3, <2>1, <1>0, <1>4
  <2>5. <<j + k, m>> \in Cuts(B)
    BY <2>1, <2>3, <2>4, CutsAre
  <2>6. <<j + k, m>> # cut
    BY <2>4 DEF i
  <2> QED
    BY <1>0, <1>3, <1>4, <2>1, <2>2, <2>5, <2>6 DEF j
<1>6. ASSUME NEW c \in Cuts(R), NEW d \in Cuts(R), f[c] = f[d]
      PROVE  c = d
  <2>1. c[1] + k = d[1] + k /\ c[1] \in Int /\ d[1] \in Int
    BY <1>5, <1>6
  <2>2. c[1] = d[1]
    BY <1>3, <2>1
  <2> QED
    BY <1>4, <2>2, CutsDiffer
<1>7. f \in Injection(Cuts(R), Cuts(B) \ {cut})
  <2>1. f \in [Cuts(R) -> Cuts(B) \ {cut}]
    BY <1>5
  <2> HIDE DEF f
  <2> QED
    BY <1>6, <2>1 DEF Injection, IsInjective
<1>8. IsFiniteSet(Cuts(B))
  <2>1. IsFiniteSet(1..Len(B)) /\ IsFiniteSet({2, 4})
    <3>1. IsFiniteSet(1..Len(B)) /\ IsFiniteSet(2..4)
      <4>1. 1 \in Int /\ 2 \in Int /\ 4 \in Int /\ Len(B) \in Int
        BY <1>0
      <4> QED
        BY <4>1, FS_Interval
    <3>2. {2, 4} \in SUBSET (2..4)
      OBVIOUS
    <3> QED
      BY <3>1, <3>2, FS_Subset
  <2>2. IsFiniteSet((1..Len(B)) \X {2, 4})
    BY <2>1, FS_Product
  <2> QED
    BY <2>2, FS_Subset DEF Cuts
<1>9. IsFiniteSet(Cuts(B) \ {cut}) /\ Cardinality(Cuts(B) \ {cut}) = Cardinality(Cuts(B)) - 1
  BY <1>1, <1>8, FS_RemoveElement
<1>10. IsFiniteSet(Cuts(R)) /\ Cardinality(Cuts(R)) <= Cardinality(Cuts(B) \ {cut})
  <2> HIDE DEF f
  <2> QED
    BY <1>7, <1>9, FS_Injection
<1> QED
  BY <1>8, <1>9, <1>10, FS_CardinalityType DEF R

-----------------------------------------------------------------------------
(* Feeding blocks.                                                         *)

\* A reader by its fields.
Reader(b, r, u, i, c, d, e) ==
  [buffer |-> b, remainder |-> r, usage |-> u, responseId |-> i,
   complete |-> c, sawDone |-> d, parseErrors |-> e]

\* p with another buffer and another start of a character.
With(p, b, r) ==
  Reader(b, r, p.usage, p.responseId, p.complete, p.sawDone, p.parseErrors)

IsParser(p) ==
  /\ p = With(p, p.buffer, p.remainder)
  /\ p.buffer \in Seq(Symbols) /\ p.remainder \in Pendings

\* The fields of a reader.
LEMMA ReaderIs ==
  ASSUME NEW b, NEW r, NEW u, NEW i, NEW c, NEW d, NEW e
  PROVE  LET p == Reader(b, r, u, i, c, d, e)
         IN  /\ p.buffer = b /\ p.remainder = r /\ p.usage = u /\ p.responseId = i
             /\ p.complete = c /\ p.sawDone = d /\ p.parseErrors = e
BY DEF Reader

\* A reader with another response id.
LEMMA ReaderId ==
  ASSUME NEW b, NEW r, NEW u, NEW i, NEW c, NEW d, NEW e, NEW x
  PROVE  [Reader(b, r, u, i, c, d, e) EXCEPT !.responseId = x] = Reader(b, r, u, x, c, d, e)
BY DEF Reader

\* A reader with another count of errors.
LEMMA ReaderErrors ==
  ASSUME NEW b, NEW r, NEW u, NEW i, NEW c, NEW d, NEW e, NEW x
  PROVE  [Reader(b, r, u, i, c, d, e) EXCEPT !.parseErrors = x] = Reader(b, r, u, i, c, d, x)
BY DEF Reader

\* A reader moved to another buffer.
LEMMA WithReader ==
  ASSUME NEW b, NEW r, NEW u, NEW i, NEW c, NEW d, NEW e, NEW x, NEW y
  PROVE  With(Reader(b, r, u, i, c, d, e), x, y) = Reader(x, y, u, i, c, d, e)
<1> DEFINE q == Reader(b, r, u, i, c, d, e)
<1>1. /\ q.usage = u /\ q.responseId = i /\ q.complete = c
      /\ q.sawDone = d /\ q.parseErrors = e
  BY ReaderIs
<1> HIDE DEF q
<1>2. With(q, x, y) = Reader(x, y, u, i, c, d, e)
  BY <1>1, Zenon DEF With
<1> QED
  BY <1>2 DEF q

\* A reader moved twice is where it was moved last.
LEMMA WithFields ==
  ASSUME NEW p, NEW b, NEW r, NEW x, NEW y
  PROVE  LET q == With(p, b, r)
         IN  /\ q.buffer = b /\ q.remainder = r /\ q = With(q, b, r)
             /\ With(q, x, y) = With(p, x, y)
             /\ [q EXCEPT !.buffer = x] = With(p, x, r)
<1> DEFINE q == With(p, b, r)
<1>1. q.buffer = b /\ q.remainder = r
  BY DEF With, Reader
<1>2. [q EXCEPT !.buffer = x] = With(p, x, r)
  BY DEF With, Reader
<1>3. With(q, x, y) = With(p, x, y)
  BY DEF With, Reader
<1>4. With(q, b, r) = With(p, b, r)
  BY DEF With, Reader
<1> QED
  BY <1>1, <1>2, <1>3, <1>4

\* What an event reports does not depend on the buffer.
LEMMA ReportOf ==
  ASSUME NEW protocol, NEW event,
         NEW b, NEW r, NEW u, NEW i, NEW c, NEW d, NEW e
  PROVE  LET incoming == EventUsage(protocol, event)
             id == IF protocol = "Codex" /\ event.id # {} THEN event.id ELSE i
         IN  Report(protocol, Reader(b, r, u, i, c, d, e), event)
               = IF incoming = {} THEN Reader(b, r, u, id, c, d, e)
                 ELSE Reader(b, r, MergeUsage(protocol, u, incoming), id,
                             c \/ protocol # "Anthropic" \/ HasOutput(event), d, e)
<1> DEFINE incoming == EventUsage(protocol, event)
           id == IF protocol = "Codex" /\ event.id # {} THEN event.id ELSE i
           q == Reader(b, r, u, i, c, d, e)
           named == IF protocol = "Codex" /\ event.id # {}
                    THEN [q EXCEPT !.responseId = event.id] ELSE q
           done == named.complete \/ protocol # "Anthropic" \/ HasOutput(event)
           total == MergeUsage(protocol, named.usage, incoming)
           was == c \/ protocol # "Anthropic" \/ HasOutput(event)
           merged == MergeUsage(protocol, u, incoming)
<1>1. Report(protocol, q, event)
         = IF incoming = {} THEN named
           ELSE [named EXCEPT !.complete = done, !.usage = total]
  BY Zenon DEF Report
<1>2. named = Reader(b, r, u, id, c, d, e)
  <2>1. [q EXCEPT !.responseId = event.id] = Reader(b, r, u, event.id, c, d, e)
    BY ReaderId
  <2> QED
    BY <2>1, Zenon
<1>3. named.complete = c /\ named.usage = u
  <2> HIDE DEF id, named
  <2> QED
    BY <1>2 DEF Reader
<1> HIDE DEF named
<1>4. done = was /\ total = merged
  BY <1>3, Zenon
<1>5. [named EXCEPT !.complete = done, !.usage = total]
         = Reader(b, r, merged, id, was, d, e)
  <2> HIDE DEF done, total, incoming, id, q, was, merged
  <2>1. [named EXCEPT !.complete = done, !.usage = total]
          = [Reader(b, r, u, id, c, d, e) EXCEPT !.complete = was, !.usage = merged]
    BY <1>2, <1>4, Zenon
  <2> DEFINE f == [Reader(b, r, u, id, c, d, e) EXCEPT !.complete = was]
  <2>2. f = Reader(b, r, u, id, was, d, e)
    BY DEF Reader
  <2>3. [named EXCEPT !.complete = done, !.usage = total] = [f EXCEPT !.usage = merged]
    BY <2>1
  <2>4. [f EXCEPT !.usage = merged] = Reader(b, r, merged, id, was, d, e)
    <3> HIDE DEF f
    <3> QED
      BY <2>2 DEF Reader
  <2> QED
    BY <2>3, <2>4
<1> HIDE DEF done, total
<1> QED
  BY <1>1, <1>2, <1>5, Zenon

\* What it reports does not depend on the buffer.
LEMMA ReportElsewhere ==
  ASSUME NEW protocol, NEW event,
         NEW b, NEW r, NEW u, NEW i, NEW c, NEW d, NEW e, NEW x, NEW y
  PROVE  Report(protocol, Reader(x, y, u, i, c, d, e), event)
           = With(Report(protocol, Reader(b, r, u, i, c, d, e), event), x, y)
<1> DEFINE incoming == EventUsage(protocol, event)
           id == IF protocol = "Codex" /\ event.id # {} THEN event.id ELSE i
           was == c \/ protocol # "Anthropic" \/ HasOutput(event)
           merged == MergeUsage(protocol, u, incoming)
           After(b2, r2) == IF incoming = {} THEN Reader(b2, r2, u, id, c, d, e)
                            ELSE Reader(b2, r2, merged, id, was, d, e)
<1>1. Report(protocol, Reader(x, y, u, i, c, d, e), event) = After(x, y)
  BY ReportOf
<1>2. Report(protocol, Reader(b, r, u, i, c, d, e), event) = After(b, r)
  BY ReportOf
<1> HIDE DEF incoming, id, was, merged
<1>3. With(After(b, r), x, y) = After(x, y)
  <2>1. CASE incoming = {}
    BY <2>1, WithReader
  <2>2. CASE incoming # {}
    BY <2>2, WithReader
  <2> QED
    BY <2>1, <2>2
<1> HIDE DEF After
<1> QED
  BY <1>1, <1>2, <1>3

\* A block is fed without a look at the buffer.
LEMMA FeedBlockElsewhere ==
  ASSUME NEW protocol, NEW block,
         NEW b, NEW r, NEW u, NEW i, NEW c, NEW d, NEW e, NEW x, NEW y
  PROVE  FeedBlock(protocol, Reader(x, y, u, i, c, d, e), block)
           = With(FeedBlock(protocol, Reader(b, r, u, i, c, d, e), block), x, y)
<1> DEFINE p == Reader(b, r, u, i, c, d, e)
           q == Reader(x, y, u, i, c, d, e)
           text == DataOf(block)
           event == CHOOSE event \in EventIn(text) : TRUE
<1>1. CASE DataLines(block) = {}
  <2>1. FeedBlock(protocol, p, block) = p /\ FeedBlock(protocol, q, block) = q
    BY <1>1, Zenon DEF FeedBlock
  <2> QED
    BY <2>1, WithReader
<1>2. CASE DataLines(block) # {} /\ text = <<"[DONE]">>
  <2> DEFINE done == TRUE
  <2>1. /\ FeedBlock(protocol, p, block) = [p EXCEPT !.sawDone = done]
        /\ FeedBlock(protocol, q, block) = [q EXCEPT !.sawDone = done]
    BY <1>2, Zenon DEF FeedBlock
  <2> HIDE DEF done
  <2>2. /\ [p EXCEPT !.sawDone = done] = Reader(b, r, u, i, c, done, e)
        /\ [q EXCEPT !.sawDone = done] = Reader(x, y, u, i, c, done, e)
    BY DEF Reader
  <2>3. With(Reader(b, r, u, i, c, done, e), x, y) = Reader(x, y, u, i, c, done, e)
    BY DEF With, Reader
  <2> HIDE DEF p, q
  <2> QED
    BY <2>1, <2>2, <2>3, Zenon DEF p, q
<1>3. CASE DataLines(block) # {} /\ text # <<"[DONE]">> /\ EventIn(text) = {}
  <2>1. /\ FeedBlock(protocol, p, block) = [p EXCEPT !.parseErrors = p.parseErrors + 1]
        /\ FeedBlock(protocol, q, block) = [q EXCEPT !.parseErrors = q.parseErrors + 1]
    BY <1>3, Zenon DEF FeedBlock
  <2>2. p.parseErrors = e /\ q.parseErrors = e
    BY ReaderIs
  <2>3. /\ [p EXCEPT !.parseErrors = e + 1] = Reader(b, r, u, i, c, d, e + 1)
        /\ [q EXCEPT !.parseErrors = e + 1] = Reader(x, y, u, i, c, d, e + 1)
    BY ReaderErrors
  <2> DEFINE n == e + 1
  <2>4. With(Reader(b, r, u, i, c, d, n), x, y) = Reader(x, y, u, i, c, d, n)
    BY WithReader
  <2> HIDE DEF p, q
  <2>5. /\ FeedBlock(protocol, p, block) = Reader(b, r, u, i, c, d, n)
        /\ FeedBlock(protocol, q, block) = Reader(x, y, u, i, c, d, n)
    BY <2>1, <2>2, <2>3, Zenon
  <2> HIDE DEF n
  <2> QED
    BY <2>4, <2>5, Zenon DEF p, q
<1>4. CASE DataLines(block) # {} /\ text # <<"[DONE]">> /\ EventIn(text) # {}
  <2>1. /\ FeedBlock(protocol, p, block) = Report(protocol, p, event)
        /\ FeedBlock(protocol, q, block) = Report(protocol, q, event)
    BY <1>4, Zenon DEF FeedBlock
  <2> HIDE DEF event
  <2>2. Report(protocol, q, event) = With(Report(protocol, p, event), x, y)
    BY ReportElsewhere
  <2> HIDE DEF p, q
  <2> QED
    BY <2>1, <2>2, Zenon DEF p, q
<1> QED
  BY <1>1, <1>2, <1>3, <1>4

\* The same, of a parser and not of its fields.
LEMMA FeedBlockWith ==
  ASSUME NEW protocol, NEW p, p = With(p, p.buffer, p.remainder),
         NEW block, NEW x, NEW y
  PROVE  FeedBlock(protocol, With(p, x, y), block) = With(FeedBlock(protocol, p, block), x, y)
<1> DEFINE q == Reader(p.buffer, p.remainder, p.usage, p.responseId, p.complete, p.sawDone,
                       p.parseErrors)
<1>1. FeedBlock(protocol, With(p, x, y), block) = With(FeedBlock(protocol, q, block), x, y)
  BY FeedBlockElsewhere DEF With
<1>2. p = q
  BY DEF With
<1> HIDE DEF q
<1> QED
  BY <1>1, <1>2

\* Taking a block feeds it and leaves the rest in the buffer.
LEMMA TakeBlockIs ==
  ASSUME NEW protocol, NEW p, IsParser(p), Cuts(p.buffer) # {}
  PROVE  /\ TakeBlock(protocol, p)
              = With(FeedBlock(protocol, p, BlockOf(p.buffer)), RestOf(p.buffer), p.remainder)
         /\ IsParser(TakeBlock(protocol, p))
         /\ TakeBlock(protocol, p).buffer = RestOf(p.buffer)
         /\ TakeBlock(protocol, p).remainder = p.remainder
<1> DEFINE rest == RestOf(p.buffer)
           block == BlockOf(p.buffer)
<1>1. [p EXCEPT !.buffer = rest] = With(p, rest, p.remainder)
  <2> HIDE DEF rest
  <2> DEFINE q == With(p, p.buffer, p.remainder)
  <2>1. [q EXCEPT !.buffer = rest] = With(p, rest, p.remainder)
    BY DEF With, Reader
  <2>2. p = q
    BY DEF IsParser
  <2> HIDE DEF q
  <2> QED
    BY <2>1, <2>2
<1>2. TakeBlock(protocol, p) = FeedBlock(protocol, [p EXCEPT !.buffer = rest], block)
  BY Zenon DEF TakeBlock, RestOf, BlockOf
<1>3. rest \in Seq(Symbols)
  BY BlockAndRest, EmptySeq DEF IsParser
<1> HIDE DEF rest, block
<1>4. TakeBlock(protocol, p) = With(FeedBlock(protocol, p, block), rest, p.remainder)
  <2>1. FeedBlock(protocol, With(p, rest, p.remainder), block)
           = With(FeedBlock(protocol, p, block), rest, p.remainder)
    BY FeedBlockWith DEF IsParser
  <2> QED
    BY <1>1, <1>2, <2>1
<1> DEFINE t == TakeBlock(protocol, p)
<1>5. t.buffer = rest /\ t.remainder = p.remainder /\ t = With(t, rest, p.remainder)
  <2> DEFINE f == FeedBlock(protocol, p, block)
  <2>1. t = With(f, rest, p.remainder)
    BY <1>4
  <2> HIDE DEF f, t
  <2> QED
    BY <2>1, WithFields
<1> HIDE DEF t
<1>6. IsParser(t)
  BY <1>3, <1>5 DEF IsParser
<1> QED
  BY <1>4, <1>5, <1>6 DEF t, rest, block

\* What comes later, decoded: more text, and maybe the start of a character.
More(p, X, r) == With(p, p.buffer \o X, r)

\* With more to read a parser is one.
LEMMA MoreIsParser ==
  ASSUME NEW p, IsParser(p), NEW X \in Seq(Symbols), NEW r \in Pendings
  PROVE  /\ IsParser(More(p, X, r)) /\ More(p, X, r).buffer = p.buffer \o X
         /\ More(p, X, r).remainder = r
<1> DEFINE q == More(p, X, r)
<1>1. q.buffer = p.buffer \o X /\ q.remainder = r /\ q = With(q, p.buffer \o X, r)
  <2> DEFINE b == p.buffer \o X
  <2>1. q = With(p, b, r)
    BY DEF More
  <2> HIDE DEF b, q
  <2>2. q.buffer = b /\ q.remainder = r /\ q = With(q, b, r)
    BY <2>1, WithFields
  <2> QED
    BY <2>2 DEF b
<1>2. p.buffer \o X \in Seq(Symbols)
  BY ConcatProperties DEF IsParser
<1> HIDE DEF q
<1>3. IsParser(q)
  BY <1>1, <1>2 DEF IsParser
<1> QED
  BY <1>1, <1>3 DEF q

\* With more to read the same block is taken, and more is left.
LEMMA TakeBlockOfMore ==
  ASSUME NEW protocol, NEW p, IsParser(p), Cuts(p.buffer) # {},
         NEW X \in Seq(Symbols), NEW r \in Pendings
  PROVE  /\ Cuts(More(p, X, r).buffer) # {}
         /\ TakeBlock(protocol, More(p, X, r)) = More(TakeBlock(protocol, p), X, r)
<1> DEFINE q == More(p, X, r)
           B == p.buffer
           F == FeedBlock(protocol, p, BlockOf(B))
<1>1. IsParser(q) /\ q.buffer = B \o X /\ q.remainder = r
  BY MoreIsParser
<1>2. B \in Seq(Symbols) /\ p = With(p, p.buffer, p.remainder)
  BY DEF IsParser
<1>3. Cuts(q.buffer) # {} /\ BlockOf(q.buffer) = BlockOf(B) /\ RestOf(q.buffer) = RestOf(B) \o X
  BY <1>1, <1>2, FirstCutStays, BlockAndRest
<1>4. FeedBlock(protocol, q, BlockOf(B)) = With(F, B \o X, r)
  BY <1>2, FeedBlockWith DEF More
<1> HIDE DEF q, F
<1>5. TakeBlock(protocol, q) = With(FeedBlock(protocol, q, BlockOf(B)), RestOf(B) \o X, r)
  BY <1>1, <1>3, TakeBlockIs
<1>6. TakeBlock(protocol, q) = With(F, RestOf(B) \o X, r)
  BY <1>4, <1>5, WithFields
<1>7. /\ TakeBlock(protocol, p) = With(F, RestOf(B), p.remainder)
      /\ TakeBlock(protocol, p).buffer = RestOf(B)
  BY TakeBlockIs DEF F
<1>8. More(TakeBlock(protocol, p), X, r) = With(F, RestOf(B) \o X, r)
  BY <1>7, WithFields DEF More
<1> QED
  BY <1>3, <1>6, <1>8 DEF q

\* What feeding blocks has come to after each of them.
Feeds(g, protocol, p, most) ==
  g = [n \in 0..most |-> IF n = 0 THEN p ELSE TakeBlock(protocol, g[n - 1])]
MostOf(p)         == Cardinality(Cuts(p.buffer))
Fed(protocol, p)  == CHOOSE g : Feeds(g, protocol, p, MostOf(p))

\* Feeding blocks ends after as many as there are delimiters.
LEMMA FeedBlocksIs ==
  ASSUME NEW protocol, NEW p
  PROVE  FeedBlocks(protocol, p) = Fed(protocol, p)[MostOf(p)]
BY Zenon DEF FeedBlocks, Fed, Feeds, MostOf

\* How many blocks are fed is a number, none without a delimiter.
LEMMA MostIs ==
  ASSUME NEW p, IsParser(p)
  PROVE  /\ MostOf(p) \in Nat
         /\ MostOf(p) = 0 <=> Cuts(p.buffer) = {}
<1>1. CASE Cuts(p.buffer) = {}
  BY <1>1, FS_EmptySet DEF MostOf
<1>2. CASE Cuts(p.buffer) # {}
  <2>1. IsFiniteSet(Cuts(p.buffer))
    BY <1>2, CutsOfRest DEF IsParser
  <2> QED
    BY <1>2, <2>1, FS_EmptySet, FS_CardinalityType DEF MostOf
<1> QED
  BY <1>1, <1>2

\* The recursive function of feeding is defined.
LEMMA FeedingExists ==
  ASSUME NEW protocol, NEW p, NEW most \in Nat
  PROVE  \E g : Feeds(g, protocol, p, most)
<1> DEFINE T == {k \in Nat : \E g : Feeds(g, protocol, p, k)}
<1>1. 0 \in T
  <2>1. Feeds([n \in 0..0 |-> p], protocol, p, 0)
    BY DEF Feeds
  <2> QED
    BY <2>1
<1>2. ASSUME NEW k \in Nat, k \in T
      PROVE  k + 1 \in T
  <2>1. PICK g : Feeds(g, protocol, p, k)
    BY <1>2
  <2> DEFINE h == [n \in 0..(k + 1) |->
                     IF n <= k THEN g[n] ELSE TakeBlock(protocol, g[k])]
  <2>2. ASSUME NEW n \in 0..(k + 1)
        PROVE  h[n] = IF n = 0 THEN p ELSE TakeBlock(protocol, h[n - 1])
    <3>1. CASE n = k + 1
      <4>1. n - 1 = k /\ k \in 0..(k + 1) /\ ~(n <= k) /\ n # 0
        BY <3>1
      <4> QED
        BY <3>1, <4>1
    <3>2. CASE n # k + 1
      <4>1. n \in 0..k /\ n <= k
        BY <3>2
      <4>2. g[n] = IF n = 0 THEN p ELSE TakeBlock(protocol, g[n - 1])
        BY <4>1, <2>1 DEF Feeds
      <4>3. n # 0 => n - 1 \in 0..(k + 1) /\ n - 1 <= k
        BY <4>1
      <4> QED
        BY <4>1, <4>2, <4>3
    <3> QED
      BY <3>1, <3>2
  <2>3. h = [n \in 0..(k + 1) |-> h[n]]
    OBVIOUS
  <2> HIDE DEF h
  <2>4. Feeds(h, protocol, p, k + 1)
    BY <2>2, <2>3 DEF Feeds
  <2> QED
    BY <2>4
<1> HIDE DEF T
<1>3. most \in T
  BY <1>1, <1>2, Counting
<1> QED
  BY <1>3 DEF T

\* Feeding goes on block by block.
LEMMA FedSteps ==
  ASSUME NEW protocol, NEW p, IsParser(p)
  PROVE  LET g == Fed(protocol, p)
         IN  /\ g[0] = p
             /\ \A n \in Nat : n + 1 <= MostOf(p) => g[n + 1] = TakeBlock(protocol, g[n])
<1> DEFINE g    == Fed(protocol, p)
           most == MostOf(p)
<1>1. most \in Nat
  BY MostIs
<1>2. Feeds(g, protocol, p, most)
  <2>1. \E h : Feeds(h, protocol, p, most)
    BY <1>1, FeedingExists
  <2> QED
    BY <2>1, Zenon DEF Fed
<1> HIDE DEF g, most
<1>3. \A n \in 0..most : g[n] = IF n = 0 THEN p ELSE TakeBlock(protocol, g[n - 1])
  BY <1>2 DEF Feeds
<1>4. g[0] = p
  BY <1>1, <1>3
<1>5. ASSUME NEW n \in Nat, n + 1 <= most
      PROVE  g[n + 1] = TakeBlock(protocol, g[n])
  <2>1. n + 1 \in 0..most /\ n + 1 # 0 /\ (n + 1) - 1 = n
    BY <1>1, <1>5
  <2> QED
    BY <1>3, <2>1
<1> QED
  BY <1>4, <1>5 DEF g, most

\* Without a delimiter nothing happens.
LEMMA NothingToTake ==
  ASSUME NEW protocol, NEW p, Cuts(p.buffer) = {}
  PROVE  TakeBlock(protocol, p) = p
BY DEF TakeBlock

\* And nothing is fed.
LEMMA NothingToFeed ==
  ASSUME NEW protocol, NEW p, IsParser(p), Cuts(p.buffer) = {}
  PROVE  FeedBlocks(protocol, p) = p
<1>1. MostOf(p) = 0 /\ Fed(protocol, p)[0] = p
  BY MostIs, FedSteps
<1> QED
  BY <1>1, FeedBlocksIs

\* While blocks are fed: a parser with the same start of a character, and with
\* each block a delimiter less.
LEMMA WhileFed ==
  ASSUME NEW protocol, NEW p, IsParser(p), NEW n \in Nat, n <= MostOf(p)
  PROVE  LET q == Fed(protocol, p)[n]
         IN  /\ IsParser(q) /\ q.remainder = p.remainder
             /\ Cuts(q.buffer) = {} \/ MostOf(q) + n <= MostOf(p)
<1> DEFINE g == Fed(protocol, p)
           most == MostOf(p)
           Holds(q, k) == /\ IsParser(q) /\ q.remainder = p.remainder
                          /\ Cuts(q.buffer) = {} \/ MostOf(q) + k <= most
           T == {k \in Nat : k <= most => Holds(g[k], k)}
<1>1. /\ most \in Nat /\ g[0] = p
      /\ \A k \in Nat : k + 1 <= most => g[k + 1] = TakeBlock(protocol, g[k])
  BY MostIs, FedSteps
<1> HIDE DEF g
<1>2. 0 \in T
  BY <1>1
<1>3. ASSUME NEW k \in Nat, k \in T
      PROVE  k + 1 \in T
  <2>1. SUFFICES ASSUME k + 1 <= most PROVE Holds(g[k + 1], k + 1)
    OBVIOUS
  <2> DEFINE q == g[k]
             t == g[k + 1]
  <2>2. Holds(q, k) /\ t = TakeBlock(protocol, q)
    BY <1>1, <1>3, <2>1
  <2> HIDE DEF q, t, most
  <2>3. CASE Cuts(q.buffer) = {}
    BY <2>2, <2>3, NothingToTake DEF t
  <2>4. CASE Cuts(q.buffer) # {}
    <3>1. IsParser(t) /\ t.buffer = RestOf(q.buffer) /\ t.remainder = q.remainder
      BY <2>2, <2>4, TakeBlockIs
    <3>2. q.buffer \in Seq(Symbols)
      BY <2>2 DEF IsParser
    <3>3. MostOf(t) < MostOf(q)
      BY <2>4, <3>1, <3>2, CutsOfRest DEF MostOf
    <3>4. MostOf(t) \in Nat /\ MostOf(q) \in Nat
      BY <2>2, <3>1, MostIs
    <3>5. MostOf(t) + (k + 1) <= most
      BY <1>1, <2>2, <2>4, <3>3, <3>4
    <3> QED
      BY <2>2, <3>1, <3>5 DEF t
  <2> QED
    BY <2>3, <2>4
<1>4. n \in T
  <2> HIDE DEF T
  <2> QED
    BY <1>2, <1>3, Counting
<1> QED
  BY <1>4 DEF g

\* When no block is left no delimiter is.
LEMMA FedOut ==
  ASSUME NEW protocol, NEW p, IsParser(p)
  PROVE  LET q == FeedBlocks(protocol, p)
         IN  IsParser(q) /\ q.remainder = p.remainder /\ Cuts(q.buffer) = {}
<1> DEFINE q == Fed(protocol, p)[MostOf(p)]
<1>1. MostOf(p) \in Nat /\ MostOf(p) <= MostOf(p)
  BY MostIs
<1>2. /\ IsParser(q) /\ q.remainder = p.remainder
      /\ Cuts(q.buffer) = {} \/ MostOf(q) + MostOf(p) <= MostOf(p)
  BY <1>1, WhileFed
<1>3. FeedBlocks(protocol, p) = q
  BY FeedBlocksIs
<1> HIDE DEF q
<1>4. MostOf(q) \in Nat /\ (MostOf(q) = 0 => Cuts(q.buffer) = {})
  BY <1>2, MostIs
<1>5. Cuts(q.buffer) = {}
  BY <1>1, <1>2, <1>4
<1> QED
  BY <1>2, <1>3, <1>5

\* The first block may be taken before.
LEMMA FeedOne ==
  ASSUME NEW protocol, NEW p, IsParser(p), Cuts(p.buffer) # {}
  PROVE  FeedBlocks(protocol, p) = FeedBlocks(protocol, TakeBlock(protocol, p))
<1> DEFINE q == TakeBlock(protocol, p)
           g == Fed(protocol, p)
           h == Fed(protocol, q)
           m == MostOf(p)
           k == MostOf(q)
           T == {n \in Nat : n <= k => g[n + 1] = h[n]}
           S == {n \in Nat : k + 1 + n <= m => g[k + 1 + n] = h[k]}
<1>1. IsParser(q) /\ q.buffer = RestOf(p.buffer)
  BY TakeBlockIs
<1> HIDE DEF q
<1>2. m \in Nat /\ k \in Nat /\ k < m
  <2>1. p.buffer \in Seq(Symbols)
    BY DEF IsParser
  <2> QED
    BY <1>1, <2>1, MostIs, CutsOfRest DEF MostOf
<1>3. /\ g[0] = p
      /\ \A n \in Nat : n + 1 <= m => g[n + 1] = TakeBlock(protocol, g[n])
  BY FedSteps
<1>4. /\ h[0] = q
      /\ \A n \in Nat : n + 1 <= k => h[n + 1] = TakeBlock(protocol, h[n])
  BY <1>1, FedSteps
<1>5. FeedBlocks(protocol, p) = g[m] /\ FeedBlocks(protocol, q) = h[k]
  BY FeedBlocksIs
<1>6. Cuts(h[k].buffer) = {}
  <2>1. LET r == FeedBlocks(protocol, q) IN Cuts(r.buffer) = {}
    BY <1>1, FedOut
  <2> HIDE DEF h, k
  <2> QED
    BY <1>5, <2>1
<1> HIDE DEF g, h, m, k
<1>7. k \in T
  <2>1. 0 \in T
    <3>1. g[0 + 1] = TakeBlock(protocol, g[0])
      BY <1>2, <1>3
    <3> QED
      BY <1>3, <1>4, <3>1 DEF q
  <2>2. ASSUME NEW n \in Nat, n \in T
        PROVE  n + 1 \in T
    <3>1. SUFFICES ASSUME n + 1 <= k PROVE g[(n + 1) + 1] = h[n + 1]
      OBVIOUS
    <3>2. g[(n + 1) + 1] = TakeBlock(protocol, g[n + 1]) /\ g[n + 1] = h[n]
      BY <1>2, <1>3, <2>2, <3>1
    <3> QED
      BY <1>4, <3>1, <3>2
  <2> HIDE DEF T
  <2> QED
    BY <1>2, <2>1, <2>2, Counting
<1>8. m - (k + 1) \in S
  <2>1. 0 \in S
    BY <1>2, <1>7
  <2>2. ASSUME NEW n \in Nat, n \in S
        PROVE  n + 1 \in S
    <3>1. SUFFICES ASSUME k + 1 + (n + 1) <= m PROVE g[k + 1 + (n + 1)] = h[k]
      OBVIOUS
    <3> DEFINE j == k + 1 + n
    <3>2. j \in Nat /\ j + 1 = k + 1 + (n + 1) /\ j + 1 <= m /\ j <= m
      BY <1>2, <3>1
    <3>3. g[j] = h[k]
      BY <2>2, <3>2
    <3> HIDE DEF j
    <3>4. g[j + 1] = TakeBlock(protocol, h[k])
      BY <1>3, <3>2, <3>3
    <3> QED
      BY <1>6, <3>2, <3>4, NothingToTake
  <2>3. m - (k + 1) \in Nat
    BY <1>2
  <2> HIDE DEF S
  <2> QED
    BY <2>1, <2>2, <2>3, Counting
<1>9. g[m] = h[k]
  <2>1. k + 1 + (m - (k + 1)) = m
    BY <1>2
  <2> QED
    BY <1>2, <1>8, <2>1
<1> QED
  BY <1>5, <1>9 DEF q

\* What comes later may come before the blocks are fed.
LEMMA MoreAfter ==
  ASSUME NEW protocol, NEW p, IsParser(p), NEW X \in Seq(Symbols), NEW r \in Pendings
  PROVE  FeedBlocks(protocol, More(FeedBlocks(protocol, p), X, r))
           = FeedBlocks(protocol, More(p, X, r))
<1> DEFINE g == Fed(protocol, p)
           m == MostOf(p)
           T == {n \in Nat : n <= m => FeedBlocks(protocol, More(g[n], X, r))
                                         = FeedBlocks(protocol, More(p, X, r))}
<1>1. /\ m \in Nat /\ g[0] = p
      /\ \A n \in Nat : n + 1 <= m => g[n + 1] = TakeBlock(protocol, g[n])
  BY MostIs, FedSteps
<1>2. \A n \in Nat : n <= m => IsParser(g[n])
  BY WhileFed
<1>3. FeedBlocks(protocol, p) = g[m]
  BY FeedBlocksIs
<1> HIDE DEF g, m
<1>4. m \in T
  <2>1. 0 \in T
    BY <1>1
  <2>2. ASSUME NEW n \in Nat, n \in T
        PROVE  n + 1 \in T
    <3>1. SUFFICES ASSUME n + 1 <= m
                   PROVE  FeedBlocks(protocol, More(g[n + 1], X, r))
                            = FeedBlocks(protocol, More(p, X, r))
      OBVIOUS
    <3> DEFINE q == g[n]
    <3>2. /\ g[n + 1] = TakeBlock(protocol, q) /\ IsParser(q)
          /\ FeedBlocks(protocol, More(q, X, r)) = FeedBlocks(protocol, More(p, X, r))
      BY <1>1, <1>2, <2>2, <3>1
    <3> HIDE DEF q
    <3>3. CASE Cuts(q.buffer) = {}
      BY <3>2, <3>3, NothingToTake
    <3>4. CASE Cuts(q.buffer) # {}
      <4> DEFINE s == More(q, X, r)
      <4>1. /\ IsParser(s) /\ Cuts(s.buffer) # {}
            /\ TakeBlock(protocol, s) = More(g[n + 1], X, r)
        <5>1. IsParser(s)
          BY <3>2, MoreIsParser
        <5>2. Cuts(s.buffer) # {} /\ TakeBlock(protocol, s) = More(TakeBlock(protocol, q), X, r)
          <6> HIDE DEF T
          <6>1. Cuts(s.buffer) # {}
            BY <3>2, <3>4, TakeBlockOfMore
          <6>2. TakeBlock(protocol, s) = More(TakeBlock(protocol, q), X, r)
            BY <3>2, <3>4, TakeBlockOfMore
          <6> QED
            BY <6>1, <6>2
        <5> QED
          BY <3>2, <5>1, <5>2
      <4> HIDE DEF s
      <4>2. FeedBlocks(protocol, s) = FeedBlocks(protocol, More(g[n + 1], X, r))
        BY <4>1, FeedOne
      <4> QED
        BY <3>2, <4>2 DEF s
    <3> QED
      BY <3>3, <3>4
  <2> HIDE DEF T
  <2> QED
    BY <1>1, <2>1, <2>2, Counting
<1>5. FeedBlocks(protocol, More(g[m], X, r)) = FeedBlocks(protocol, More(p, X, r))
  BY <1>1, <1>4
<1> QED
  BY <1>3, <1>5

\* What a chunk adds, by the start of a character that was waiting for it.
Came(r, chunk) == Decoded([text |-> <<>>, pending |-> r], chunk)

\* A chunk decodes with the start of a character before it.
LEMMA CameIs ==
  ASSUME NEW r \in Pendings, NEW chunk \in Seq(Symbols)
  PROVE  /\ Came(r, chunk) \in Decodings
         /\ Came(r, chunk).text \in Seq(Symbols) /\ Came(r, chunk).pending \in Pendings
         /\ Came(r, chunk) = Decoded(Nothing, r \o chunk)
<1> DEFINE d == [text |-> <<>>, pending |-> r]
<1>1. d \in Decodings /\ Nothing \in Decodings
  BY EmptySeq DEF Decodings, Pendings, Nothing
<1>2. r \in Seq(Symbols)
  BY SingleSeq, SymbolsAre DEF Pendings
<1>3. Decoded(Nothing, r \o chunk) = Decoded(d, chunk)
  BY <1>2, DecodedTogether, PendingIsDecoded
<1> HIDE DEF d
<1>4. Decoded(d, chunk) \in Decodings
  BY <1>1, DecodedBehind, EmptySeq
<1>5. Came(r, chunk) = Decoded(d, chunk)
  BY DEF Came, d
<1> HIDE DEF d
<1>6. Came(r, chunk) \in Decodings
  BY <1>4, <1>5
<1> QED
  BY <1>3, <1>5, <1>6 DEF Decodings

\* Two chunks decode to what they do in one.
LEMMA CameTogether ==
  ASSUME NEW r \in Pendings, NEW a \in Seq(Symbols), NEW b \in Seq(Symbols)
  PROVE  LET c == Came(r, a)
             d == Came(c.pending, b)
         IN  /\ Came(r, a \o b).text = c.text \o d.text
             /\ Came(r, a \o b).pending = d.pending
<1> DEFINE c == Came(r, a)
           n == [text |-> <<>>, pending |-> c.pending]
           d == Came(c.pending, b)
<1>1. /\ c \in Decodings /\ c.text \in Seq(Symbols) /\ c.pending \in Pendings
  BY CameIs
<1>2. Came(r, a \o b) = Decoded(c, b)
  BY DecodedTogether DEF Came
<1> HIDE DEF c
<1>3. n \in Decodings /\ Behind(c.text, n) = c
  <2>1. n \in Decodings
    BY <1>1, EmptySeq DEF Decodings
  <2>2. c.text \o <<>> = c.text
    BY <1>1, ConcatEmptySeq
  <2>3. Behind(c.text, n) = [text |-> c.text \o <<>>, pending |-> c.pending]
    BY DEF Behind
  <2>4. c = [text |-> c.text, pending |-> c.pending]
    BY <1>1 DEF Decodings
  <2> QED
    BY <2>1, <2>2, <2>3, <2>4
<1>4. Decoded(n, b) = d
  BY DEF Came
<1> HIDE DEF n, d
<1>5. Decoded(Behind(c.text, n), b) = Behind(c.text, Decoded(n, b))
  BY <1>1, <1>3, DecodedBehind
<1>6. Decoded(c, b) = Behind(c.text, d)
  BY <1>3, <1>4, <1>5
<1> DEFINE w == Came(r, a \o b)
<1>7. w = Behind(c.text, d)
  BY <1>2, <1>6
<1> HIDE DEF w
<1>8. w.text = c.text \o d.text /\ w.pending = d.pending
  BY <1>7 DEF Behind
<1> QED
  BY <1>8 DEF c, d, w

\* Appending a chunk gives a parser more to read.
LEMMA AppendIsMore ==
  ASSUME NEW p, IsParser(p), NEW chunk \in Seq(Symbols)
  PROVE  AppendUtf8Safe(p, chunk)
           = More(p, Came(p.remainder, chunk).text, Came(p.remainder, chunk).pending)
<1> DEFINE start == [text |-> p.buffer, pending |-> <<>>]
           c == Came(p.remainder, chunk)
           whole == p.remainder \o chunk
           d == Decoded(start, whole)
<1>1. p.buffer \in Seq(Symbols) /\ p.remainder \in Pendings
  BY DEF IsParser
<1>2. c = Decoded(Nothing, whole) /\ c \in Decodings
  BY <1>1, CameIs
<1>3. whole \in Seq(Symbols)
  <2>1. p.remainder \in Seq(Symbols)
    BY <1>1, SingleSeq, SymbolsAre DEF Pendings
  <2> QED
    BY <2>1, ConcatProperties
<1>4. start = Behind(p.buffer, Nothing) /\ Nothing \in Decodings
  <2>1. p.buffer \o <<>> = p.buffer
    BY <1>1, ConcatEmptySeq
  <2> QED
    BY <2>1, EmptySeq DEF Behind, Nothing, Decodings, Pendings
<1>5. AppendUtf8Safe(p, chunk) = [p EXCEPT !.buffer = d.text, !.remainder = d.pending]
  BY AppendDecodes
<1> HIDE DEF start, c, whole
<1>6. d = Behind(p.buffer, c)
  BY <1>1, <1>2, <1>3, <1>4, DecodedBehind
<1> HIDE DEF d
<1>7. d.text = p.buffer \o c.text /\ d.pending = c.pending
  BY <1>6 DEF Behind
<1> DEFINE x == d.text
           y == d.pending
           q == With(p, p.buffer, p.remainder)
           s == [q EXCEPT !.buffer = x]
<1>8. [q EXCEPT !.buffer = x, !.remainder = y] = With(p, x, y)
  <2>1. s = With(p, x, p.remainder)
    BY DEF With, Reader
  <2>2. [q EXCEPT !.buffer = x, !.remainder = y] = [s EXCEPT !.remainder = y]
    OBVIOUS
  <2>3. [s EXCEPT !.remainder = y] = With(p, x, y)
    <3> HIDE DEF s
    <3> QED
      BY <2>1 DEF With, Reader
  <2> QED
    BY <2>2, <2>3
<1>9. p = q
  BY DEF IsParser
<1> HIDE DEF q
<1> QED
  BY <1>5, <1>7, <1>8, <1>9, Zenon DEF More, c

\* Two chunks do what they do in one.
LEMMA FeedTogether ==
  ASSUME NEW protocol, NEW p, IsParser(p), NEW a \in Seq(Symbols), NEW b \in Seq(Symbols)
  PROVE  /\ Feed(protocol, Feed(protocol, p, a), b) = Feed(protocol, p, a \o b)
         /\ IsParser(Feed(protocol, p, a))
<1> DEFINE r == p.remainder
           X == Came(r, a).text
           s == Came(r, a).pending
           Y == Came(s, b).text
           t == Came(s, b).pending
           m == More(p, X, s)
           q == Feed(protocol, p, a)
<1>1. p.buffer \in Seq(Symbols) /\ r \in Pendings
  BY DEF IsParser
<1>2. X \in Seq(Symbols) /\ s \in Pendings
  BY <1>1, CameIs
<1>3. Y \in Seq(Symbols) /\ t \in Pendings
  <2> HIDE DEF s
  <2> QED
    BY <1>2, CameIs
<1>4. Came(r, a \o b).text = X \o Y /\ Came(r, a \o b).pending = t
  BY <1>1, CameTogether
<1>5. a \o b \in Seq(Symbols)
  BY ConcatProperties
<1>6. q = FeedBlocks(protocol, m)
  BY AppendIsMore DEF Feed
<1>7. Feed(protocol, p, a \o b) = FeedBlocks(protocol, More(p, X \o Y, t))
  <2>1. AppendUtf8Safe(p, a \o b)
          = More(p, Came(r, a \o b).text, Came(r, a \o b).pending)
    BY <1>5, AppendIsMore
  <2> HIDE DEF X, Y, t, r
  <2> QED
    BY <1>4, <2>1, Zenon DEF Feed
<1> HIDE DEF X, s, r, q
<1>8. /\ IsParser(m) /\ m.buffer = p.buffer \o X /\ m.remainder = s
  BY <1>2, MoreIsParser
<1>9. /\ IsParser(q) /\ q.remainder = s
  <2> HIDE DEF m
  <2>1. IsParser(q) /\ q.remainder = m.remainder
    BY <1>6, <1>8, FedOut
  <2> QED
    BY <1>8, <2>1
<1>10. Feed(protocol, q, b) = FeedBlocks(protocol, More(q, Y, t))
  <2>1. AppendUtf8Safe(q, b) = More(q, Came(q.remainder, b).text, Came(q.remainder, b).pending)
    BY <1>9, AppendIsMore
  <2> QED
    BY <1>9, <2>1, Zenon DEF Feed
<1> HIDE DEF Y, t
<1>11. FeedBlocks(protocol, More(q, Y, t)) = FeedBlocks(protocol, More(m, Y, t))
  <2> HIDE DEF m
  <2> QED
    BY <1>3, <1>6, <1>8, MoreAfter
<1>12. More(m, Y, t) = More(p, X \o Y, t)
  <2>1. m.buffer \o Y = p.buffer \o (X \o Y)
    <3> DEFINE B == p.buffer
    <3>1. (B \o X) \o Y = B \o (X \o Y)
      <4>1. B \in Seq(Symbols) /\ X \in Seq(Symbols) /\ Y \in Seq(Symbols)
        BY <1>1, <1>2, <1>3
      <4> HIDE DEF B
      <4> QED
        BY <4>1, ConcatAssociative
    <3> HIDE DEF m
    <3> QED
      BY <1>8, <3>1
  <2>2. \A z : With(m, z, t) = With(p, z, t)
    BY WithFields DEF More
  <2> HIDE DEF m
  <2> QED
    BY <2>1, <2>2, Zenon DEF More
<1> QED
  BY <1>7, <1>9, <1>10, <1>11, <1>12 DEF q

-----------------------------------------------------------------------------
\* Before any byte the parser is new.
LEMMA NewParserIs ==
  ASSUME NEW protocol
  PROVE  IsParser(NewParser) /\ Feed(protocol, NewParser, <<>>) = NewParser
<1>1. IsParser(NewParser) /\ NewParser.buffer = <<>> /\ NewParser.remainder = <<>>
  BY EmptySeq DEF IsParser, NewParser, With, Reader, Pendings
<1> DEFINE p == NewParser
<1>2. p = With(p, p.buffer, p.remainder)
  BY <1>1 DEF IsParser
<1> HIDE DEF p
<1>3. Came(<<>>, <<>>) = [text |-> <<>>, pending |-> <<>>]
  <2>1. <<>> \in Pendings /\ <<>> \in Seq(Symbols)
    BY EmptySeq DEF Pendings
  <2>2. Decoded(Nothing, <<>>) = [text |-> <<>>, pending |-> <<>>]
    BY <2>1, PendingIsDecoded
  <2> QED
    BY <2>2 DEF Came, Nothing
<1>4. AppendUtf8Safe(p, <<>>) = More(p, <<>>, <<>>)
  <2>1. AppendUtf8Safe(p, <<>>)
          = More(p, Came(p.remainder, <<>>).text, Came(p.remainder, <<>>).pending)
    BY <1>1, EmptySeq, AppendIsMore DEF p
  <2>2. Came(p.remainder, <<>>).text = <<>> /\ Came(p.remainder, <<>>).pending = <<>>
    BY <1>1, <1>3 DEF p
  <2> QED
    BY <2>1, <2>2, Zenon
<1>5. More(p, <<>>, <<>>) = p
  <2>1. p.buffer \o <<>> = p.buffer /\ p.remainder = <<>>
    BY <1>1, EmptySeq, ConcatEmptySeq DEF p
  <2> QED
    BY <1>2, <2>1, Zenon DEF More
<1>6. Cuts(p.buffer) = {}
  BY <1>1 DEF Cuts, p
<1>7. FeedBlocks(protocol, p) = p
  BY <1>1, <1>6, NothingToFeed DEF p
<1> QED
  BY <1>1, <1>4, <1>5, <1>7 DEF p, Feed

\* The bytes that have come are those that had come and the next.
LEMMA BytesSoFar ==
  ASSUME NEW bytes \in Seq(Bytes), NEW k \in 0..Len(bytes), NEW n \in Nat,
         k + n <= Len(bytes)
  PROVE  /\ SubSeq(bytes, 1, k) \in Seq(Symbols)
         /\ SubSeq(bytes, k + 1, k + n) \in Seq(Symbols)
         /\ SubSeq(bytes, 1, k) \o SubSeq(bytes, k + 1, k + n) = SubSeq(bytes, 1, k + n)
<1>1. Len(bytes) \in Nat /\ bytes \in Seq(Symbols)
  <2>1. Len(bytes) \in Nat /\ \A i \in 1..Len(bytes) : bytes[i] \in Bytes
    BY LenProperties, ElementOfSeq
  <2>2. \A i \in 1..Len(bytes) : bytes[i] \in Symbols
    BY <2>1 DEF Symbols
  <2>3. bytes = [i \in 1..Len(bytes) |-> bytes[i]]
    BY LenProperties
  <2> QED
    BY <2>1, <2>2, <2>3
<1>2. \A i \in 1..Len(bytes) : bytes[i] \in Symbols
  BY <1>1, ElementOfSeq
<1> DEFINE a == SubSeq(bytes, 1, k)
           b == SubSeq(bytes, k + 1, k + n)
           c == SubSeq(bytes, 1, k + n)
<1>3. /\ a \in Seq(Symbols) /\ Len(a) = k
      /\ \A i \in 1..k : a[i] = bytes[i]
  <2>1. /\ a \in Seq(Symbols) /\ Len(a) = IF 1 <= k THEN k - 1 + 1 ELSE 0
        /\ \A i \in 1..(k - 1 + 1) : a[i] = bytes[1 + i - 1]
    <3>1. 1 \in Int /\ k \in Int /\ \A i \in 1..k : bytes[i] \in Symbols
      BY <1>1, <1>2
    <3> QED
      BY <3>1, SubSeqProperties
  <2> HIDE DEF a
  <2> QED
    BY <1>1, <2>1
<1>4. /\ b \in Seq(Symbols) /\ Len(b) = n
      /\ \A i \in 1..n : b[i] = bytes[k + i]
  <2>1. /\ b \in Seq(Symbols)
        /\ Len(b) = IF k + 1 <= k + n THEN (k + n) - (k + 1) + 1 ELSE 0
        /\ \A i \in 1..((k + n) - (k + 1) + 1) : b[i] = bytes[(k + 1) + i - 1]
    <3> DEFINE from == k + 1
               to == k + n
    <3>1. from \in Int /\ to \in Int /\ \A i \in from..to : bytes[i] \in Symbols
      BY <1>1, <1>2
    <3>2. b = SubSeq(bytes, from, to)
      OBVIOUS
    <3> HIDE DEF from, to, b
    <3>3. /\ b \in Seq(Symbols)
          /\ Len(b) = IF from <= to THEN to - from + 1 ELSE 0
          /\ \A i \in 1..(to - from + 1) : b[i] = bytes[from + i - 1]
      BY <3>1, <3>2, SubSeqProperties
    <3> QED
      BY <3>3 DEF from, to
  <2> HIDE DEF b
  <2>2. k \in Nat /\ n \in Nat
    BY <1>1
  <2>3. (k + n) - (k + 1) + 1 = n /\ (k + 1 <= k + n <=> n # 0)
    BY <2>2
  <2>4. Len(b) = n
    BY <2>1, <2>2, <2>3
  <2>5. ASSUME NEW i \in 1..n
        PROVE  b[i] = bytes[k + i]
    <3>1. b[i] = bytes[(k + 1) + i - 1]
      BY <2>1, <2>3
    <3>2. (k + 1) + i - 1 = k + i
      BY <2>2
    <3> QED
      BY <3>1, <3>2
  <2> QED
    BY <2>1, <2>4, <2>5
<1>5. /\ c \in Seq(Symbols) /\ Len(c) = k + n
      /\ \A i \in 1..(k + n) : c[i] = bytes[i]
  <2>1. /\ c \in Seq(Symbols) /\ Len(c) = IF 1 <= k + n THEN (k + n) - 1 + 1 ELSE 0
        /\ \A i \in 1..((k + n) - 1 + 1) : c[i] = bytes[1 + i - 1]
    <3>1. 1 \in Int /\ k + n \in Int /\ \A i \in 1..(k + n) : bytes[i] \in Symbols
      BY <1>1, <1>2
    <3> QED
      BY <3>1, SubSeqProperties
  <2> HIDE DEF c
  <2> QED
    BY <1>1, <2>1
<1> HIDE DEF a, b, c
<1>6. /\ a \o b \in Seq(Symbols) /\ Len(a \o b) = k + n
      /\ \A i \in 1..(k + n) : (a \o b)[i] = IF i <= k THEN a[i] ELSE b[i - k]
  BY <1>3, <1>4, ConcatProperties
<1>7. ASSUME NEW i \in 1..(k + n)
      PROVE  (a \o b)[i] = c[i]
  <2>1. CASE i <= k
    <3>1. i \in 1..k
      BY <1>1, <2>1
    <3> QED
      BY <1>3, <1>5, <1>6, <2>1, <3>1
  <2>2. CASE ~(i <= k)
    <3>1. i - k \in 1..n /\ k + (i - k) = i
      BY <1>1, <2>2
    <3> QED
      BY <1>4, <1>5, <1>6, <2>2, <3>1
  <2> QED
    BY <2>1, <2>2
<1>8. a \o b = c
  BY <1>5, <1>6, <1>7, SeqEqual
<1> QED
  BY <1>3, <1>4, <1>8 DEF a, b, c

\* Where the relay stands in its stream.
StreamTypeOK ==
  /\ stream \in Streams
  /\ pos \in 0..Len(stream.bytes)
  /\ relay \in {"open", "cut", "ended"}

StreamInv == StreamTypeOK /\ ChunksDoNotMatter

\* The relay starts where it should.
LEMMA StreamStarts == StreamInit => StreamInv
<1> SUFFICES ASSUME StreamInit PROVE StreamInv
  OBVIOUS
<1>1. stream \in Streams /\ pos = 0 /\ parser = NewParser /\ relay = "open"
  BY DEF StreamInit
<1>2. stream.bytes \in Seq(Bytes) /\ Len(stream.bytes) \in Nat
  BY <1>1, StreamAssumption, LenProperties
<1>3. SubSeq(stream.bytes, 1, pos) = <<>>
  BY <1>1, <1>2, SubSeqEmpty
<1>4. AtOnce = NewParser
  BY <1>3, NewParserIs DEF AtOnce
<1> QED
  BY <1>1, <1>2, <1>4 DEF StreamInv, StreamTypeOK, ChunksDoNotMatter

\* Every step of the relay keeps it there: a chunk is put behind the bytes
\* that have come, and the end of the body finishes either reader.
LEMMA StreamGoesOn == StreamInv /\ [StreamNext]_streamVars => StreamInv'
<1> SUFFICES ASSUME StreamInv, [StreamNext]_streamVars PROVE StreamInv'
  OBVIOUS
<1>1. /\ stream \in Streams /\ pos \in 0..Len(stream.bytes)
      /\ relay \in {"open", "cut", "ended"}
      /\ parser = IF relay = "ended" THEN Finish(stream.protocol, AtOnce) ELSE AtOnce
  BY DEF StreamInv, StreamTypeOK, ChunksDoNotMatter
<1>2. stream.bytes \in Seq(Bytes) /\ Len(stream.bytes) \in Nat
  BY <1>1, StreamAssumption, LenProperties
<1>3. CASE Chunk
  <2>1. PICK n \in 1..MaxChunk :
          /\ pos + n <= Len(stream.bytes)
          /\ pos' = pos + n
          /\ parser' = Feed(stream.protocol, parser, SubSeq(stream.bytes, pos + 1, pos + n))
    BY <1>3 DEF Chunk
  <2>2. relay = "open" /\ stream' = stream /\ relay' = relay
    BY <1>3 DEF Chunk
  <2> DEFINE a == SubSeq(stream.bytes, 1, pos)
             b == SubSeq(stream.bytes, pos + 1, pos + n)
  <2>3. n \in Nat /\ pos + n \in 0..Len(stream.bytes)
    BY <1>1, <1>2, <2>1, StreamAssumption
  <2>4. /\ a \in Seq(Symbols) /\ b \in Seq(Symbols)
        /\ a \o b = SubSeq(stream.bytes, 1, pos + n)
    BY <1>1, <1>2, <2>1, <2>3, BytesSoFar
  <2> HIDE DEF a, b
  <2>5. Feed(stream.protocol, Feed(stream.protocol, NewParser, a), b)
           = Feed(stream.protocol, NewParser, a \o b)
    BY <2>4, NewParserIs, FeedTogether
  <2>6. parser = Feed(stream.protocol, NewParser, a)
    BY <1>1, <2>2 DEF AtOnce, a
  <2>7. AtOnce' = Feed(stream.protocol, NewParser, a \o b)
    BY <2>1, <2>2, <2>4 DEF AtOnce
  <2>8. parser' = AtOnce'
    BY <2>1, <2>5, <2>6, <2>7 DEF b
  <2> QED
    BY <1>1, <2>1, <2>2, <2>3, <2>8 DEF StreamInv, StreamTypeOK, ChunksDoNotMatter
<1>4. CASE Interrupt
  <2>1. relay = "open" /\ relay' = "cut" /\ stream' = stream /\ pos' = pos /\ parser' = parser
    BY <1>4 DEF Interrupt
  <2>2. AtOnce' = AtOnce
    BY <2>1 DEF AtOnce
  <2> QED
    BY <1>1, <2>1, <2>2 DEF StreamInv, StreamTypeOK, ChunksDoNotMatter
<1>5. CASE EndOfBody
  <2>1. /\ relay = "open" /\ relay' = "ended" /\ stream' = stream /\ pos' = pos
        /\ parser' = Finish(stream.protocol, parser)
    BY <1>5 DEF EndOfBody
  <2>2. AtOnce' = AtOnce
    BY <2>1 DEF AtOnce
  <2>3. parser' = Finish(stream'.protocol, AtOnce')
    BY <1>1, <2>1, <2>2
  <2> QED
    BY <1>1, <2>1, <2>3 DEF StreamInv, StreamTypeOK, ChunksDoNotMatter
<1>6. CASE UNCHANGED streamVars
  <2>1. relay' = relay /\ stream' = stream /\ pos' = pos /\ parser' = parser
    BY <1>6 DEF streamVars
  <2>2. AtOnce' = AtOnce
    BY <2>1 DEF AtOnce
  <2> QED
    BY <1>1, <2>1, <2>2 DEF StreamInv, StreamTypeOK, ChunksDoNotMatter
<1> QED
  BY <1>3, <1>4, <1>5, <1>6 DEF StreamNext

(***************************************************************************)
(* For any events, answers and size of chunks: wherever the network cuts   *)
(* an answer, the reader is where it would be had all the bytes come at    *)
(* once (SseUsageParser::feed, append_utf8_safe, take_sse_block).          *)
(***************************************************************************)
THEOREM ChunksMakeNoDifference == StreamSpec => []ChunksDoNotMatter
<1>1. StreamInv => ChunksDoNotMatter
  BY DEF StreamInv
<1> QED
  BY StreamStarts, StreamGoesOn, <1>1, PTL DEF StreamSpec

-----------------------------------------------------------------------------
(* The usage of an answer.                                                 *)

AtMostOne(S) == \A x, y \in S : x = y

\* Of several names a field is found by at most one, and holds a number.
LEMMA FieldIs ==
  ASSUME NEW object, NEW names, DOMAIN names \subseteq Nat \ {0}
  PROVE  /\ AtMostOne(Field(object, names))
         /\ (\A name \in DOMAIN object : object[name] \in Nat) => Field(object, names) \subseteq Nat
<1> DEFINE Has(i) == names[i] \in DOMAIN object
           First(i) == Has(i) /\ \A j \in 1..(i - 1) : ~Has(j)
<1>1. Field(object, names) = {object[names[i]] : i \in {i \in DOMAIN names : First(i)}}
  BY DEF Field
<1>2. ASSUME NEW i \in DOMAIN names, NEW j \in DOMAIN names, First(i), First(j)
      PROVE  i = j
  <2>1. i \in Nat /\ j \in Nat /\ i # 0 /\ j # 0
    BY <1>2
  <2>2. ~(i < j)
    <3>1. i < j => i \in 1..(j - 1)
      BY <2>1
    <3> QED
      BY <1>2, <3>1
  <2>3. ~(j < i)
    <3>1. j < i => j \in 1..(i - 1)
      BY <2>1
    <3> QED
      BY <1>2, <3>1
  <2> QED
    BY <2>1, <2>2, <2>3
<1> QED
  BY <1>1, <1>2 DEF AtMostOne

Counts == {"input", "output", "cacheRead", "cacheWrite"}

\* A usage record is a count of each kind.
LEMMA PartsAre ==
  ASSUME NEW a \in Nat, NEW b \in Nat, NEW c \in Nat, NEW d \in Nat
  PROVE  UsageParts(a, b, c, d) \in [Counts -> Nat]
BY DEF UsageParts, Counts

\* A count that is missing is none.
LEMMA OrZeroIs ==
  ASSUME NEW S \in SUBSET Nat
  PROVE  OrZero(S) \in Nat
BY DEF OrZero

\* An event reports at most one usage.
LEMMA OneUsage ==
  ASSUME NEW protocol \in Protocols, NEW event
  PROVE  AtMostOne(EventUsage(protocol, event))
<1>1. ASSUME NEW usage
      PROVE  AtMostOne(OpenAiUsage(usage))
  <2> DEFINE I == Field(usage, <<"prompt_tokens", "input_tokens">>)
             O == Field(usage, <<"completion_tokens", "output_tokens">>)
  <2>1. AtMostOne(I) /\ AtMostOne(O)
    BY FieldIs
  <2> HIDE DEF I, O
  <2> QED
    BY <2>1 DEF AtMostOne, OpenAiUsage, I, O
<1>2. ASSUME NEW usage
      PROVE  AtMostOne(AnthropicUsage(usage))
  BY DEF AtMostOne, AnthropicUsage
<1>3. ASSUME NEW usage
      PROVE  AtMostOne(CodexUsageAuto(usage))
  <2> DEFINE I == Field(usage, <<"input_tokens">>)
             O == Field(usage, <<"output_tokens">>)
  <2>1. AtMostOne(I) /\ AtMostOne(O)
    BY FieldIs
  <2>2. AtMostOne(CodexUsage(usage))
    <3> HIDE DEF I, O
    <3> QED
      BY <2>1 DEF AtMostOne, CodexUsage, I, O
  <2> QED
    BY <1>1, <2>2 DEF CodexUsageAuto
<1>4. ASSUME NEW usage
      PROVE  AtMostOne(GeminiUsage(usage))
  <2> DEFINE I == Field(usage, <<"promptTokenCount">>)
             C == Field(usage, <<"candidatesTokenCount">>)
             T == Field(usage, <<"totalTokenCount">>)
             thoughts == OrZero(Field(usage, <<"thoughtsTokenCount">>))
             read == OrZero(Field(usage, <<"cachedContentTokenCount">>))
             Total(i) == IF T # {} THEN T ELSE {i + n + thoughts : n \in C}
             Parts(i, t) == UsageParts(i, IF t >= i THEN t - i ELSE 0, read, 0)
  <2>1. AtMostOne(I) /\ AtMostOne(C) /\ AtMostOne(T)
    BY FieldIs
  <2>2. GeminiUsage(usage) = UNION {{Parts(i, t) : t \in Total(i)} : i \in I}
    BY DEF GeminiUsage
  <2> HIDE DEF I, C, T, thoughts, read
  <2>3. \A i : AtMostOne(Total(i))
    BY <2>1 DEF AtMostOne
  <2> HIDE DEF Total, Parts
  <2> QED
    BY <2>1, <2>2, <2>3 DEF AtMostOne
<1> HIDE DEF AtMostOne
<1>5. CASE protocol = "OpenAi"
  BY <1>1, <1>5 DEF EventUsage
<1>6. CASE protocol = "Anthropic"
  <2>1. AtMostOne({})
    BY DEF AtMostOne
  <2> QED
    BY <1>2, <1>6, <2>1 DEF EventUsage
<1>7. CASE protocol = "Codex"
  BY <1>3, <1>7 DEF EventUsage
<1>8. CASE protocol = "Gemini"
  BY <1>4, <1>8 DEF EventUsage
<1> QED
  BY <1>5, <1>6, <1>7, <1>8 DEF Protocols

\* Anthropic reports a count of each kind.
LEMMA AnthropicCounts ==
  ASSUME NEW e \in DOMAIN Events
  PROVE  EventUsage("Anthropic", Events[e]) \subseteq [Counts -> Nat]
<1>1. ASSUME NEW usage \in {Events[e].usage, Events[e].inner}
      PROVE  AnthropicUsage(usage) \subseteq [Counts -> Nat]
  <2> DEFINE a == Field(usage, <<"input_tokens">>)
             b == Field(usage, <<"output_tokens">>)
             c == Field(usage, <<"cache_read_input_tokens">>)
             d == Field(usage, <<"cache_creation_input_tokens">>)
             parts == UsageParts(OrZero(a), OrZero(b), OrZero(c), OrZero(d))
  <2>1. \A name \in DOMAIN usage : usage[name] \in Nat
    BY EventAssumption
  <2>2. a \subseteq Nat /\ b \subseteq Nat /\ c \subseteq Nat /\ d \subseteq Nat
    BY <2>1, FieldIs
  <2>3. AnthropicUsage(usage) \subseteq {parts}
    BY DEF AnthropicUsage
  <2> HIDE DEF a, b, c, d
  <2>4. parts \in [Counts -> Nat]
    BY <2>2, OrZeroIs, PartsAre
  <2> QED
    BY <2>3, <2>4
<1> QED
  BY <1>1 DEF EventUsage

\* A number of a set that none exceeds is its greatest.
LEMMA MaxIs ==
  ASSUME NEW S \in SUBSET Int, NEW n \in S, \A k \in S : k <= n
  PROVE  Max(S) = n
<1> DEFINE Top(x) == x \in S /\ \A y \in S : x >= y
           m == CHOOSE x : Top(x)
<1>1. Max(S) = m
  BY Zenon DEF Max
<1>2. Top(n)
  OBVIOUS
<1>3. Top(m)
  <2> HIDE DEF Top
  <2> QED
    BY <1>2, Zenon
<1> HIDE DEF m
<1> QED
  BY <1>1, <1>3

\* Where a reader's text is does not change what it has read.
LEMMA WithKeeps ==
  ASSUME NEW p, NEW b, NEW r
  PROVE  With(p, b, r).usage = p.usage /\ With(p, b, r).complete = p.complete
BY DEF With, Reader

\* What a block adds to the usage is what the event that it spells reports.
LEMMA BlockReports ==
  ASSUME NEW protocol, NEW p, p = With(p, p.buffer, p.remainder), NEW block
  PROVE  LET q == FeedBlock(protocol, p, block)
         IN  /\ Spells(block) = {} => q.usage = p.usage /\ q.complete = p.complete
             /\ \A event : Spells(block) = {event} =>
                  LET incoming == EventUsage(protocol, event)
                  IN  IF incoming = {} THEN q.usage = p.usage /\ q.complete = p.complete
                      ELSE /\ q.usage = MergeUsage(protocol, p.usage, incoming)
                           /\ q.complete = (p.complete \/ protocol # "Anthropic" \/ HasOutput(event))
<1> DEFINE text == DataOf(block)
           q == FeedBlock(protocol, p, block)
           Same(r) == r.usage = p.usage /\ r.complete = p.complete
           P == Reader(p.buffer, p.remainder, p.usage, p.responseId, p.complete, p.sawDone,
                       p.parseErrors)
           Told(r, event) ==
             IF EventUsage(protocol, event) = {} THEN Same(r)
             ELSE /\ r.usage = MergeUsage(protocol, p.usage, EventUsage(protocol, event))
                  /\ r.complete = (p.complete \/ protocol # "Anthropic" \/ HasOutput(event))
<1>1. p = P
  BY DEF With
<1>2. CASE DataLines(block) = {}
  <2>1. q = p /\ Spells(block) = {}
    BY <1>2, Zenon DEF FeedBlock, Spells
  <2> HIDE DEF q
  <2> QED
    BY <2>1 DEF q
<1>3. CASE DataLines(block) # {} /\ text = <<"[DONE]">>
  <2> DEFINE done == TRUE
  <2>1. q = [p EXCEPT !.sawDone = done]
    BY <1>3, Zenon DEF FeedBlock
  <2>2. Spells(block) = {}
    <3>1. Len(<<"[DONE]">>) = 1
      OBVIOUS
    <3>2. EventIn(<<"[DONE]">>) = {}
      BY <3>1 DEF EventIn
    <3> QED
      BY <1>3, <3>2 DEF Spells
  <2> HIDE DEF done, q
  <2>3. Same(q)
    <3>1. [P EXCEPT !.sawDone = done]
            = Reader(p.buffer, p.remainder, p.usage, p.responseId, p.complete, done, p.parseErrors)
      BY DEF Reader
    <3> HIDE DEF P
    <3>2. q = Reader(p.buffer, p.remainder, p.usage, p.responseId, p.complete, done, p.parseErrors)
      BY <1>1, <2>1, <3>1
    <3> QED
      BY <3>2, ReaderIs
  <2> QED
    BY <2>2, <2>3 DEF q
<1>4. CASE DataLines(block) # {} /\ text # <<"[DONE]">> /\ EventIn(text) = {}
  <2>1. q = [p EXCEPT !.parseErrors = p.parseErrors + 1]
    BY <1>4, Zenon DEF FeedBlock
  <2>2. Spells(block) = {}
    BY <1>4 DEF Spells
  <2> DEFINE n == p.parseErrors + 1
  <2> HIDE DEF q, n
  <2>3. Same(q)
    <3>1. [P EXCEPT !.parseErrors = n]
            = Reader(p.buffer, p.remainder, p.usage, p.responseId, p.complete, p.sawDone, n)
      BY DEF Reader
    <3> HIDE DEF P
    <3>2. q = Reader(p.buffer, p.remainder, p.usage, p.responseId, p.complete, p.sawDone, n)
      BY <1>1, <2>1, <3>1 DEF n
    <3> QED
      BY <3>2, ReaderIs
  <2> QED
    BY <2>2, <2>3 DEF q
<1>5. CASE DataLines(block) # {} /\ text # <<"[DONE]">> /\ EventIn(text) # {}
  <2> DEFINE e == CHOOSE event \in EventIn(text) : TRUE
             id == IF protocol = "Codex" /\ e.id # {} THEN e.id ELSE p.responseId
             incoming == EventUsage(protocol, e)
             was == p.complete \/ protocol # "Anthropic" \/ HasOutput(e)
             merged == MergeUsage(protocol, p.usage, incoming)
             A == Reader(p.buffer, p.remainder, p.usage, id, p.complete, p.sawDone, p.parseErrors)
             B == Reader(p.buffer, p.remainder, merged, id, was, p.sawDone, p.parseErrors)
  <2>1. q = Report(protocol, p, e)
    BY <1>5, Zenon DEF FeedBlock
  <2>2. Spells(block) # {} /\ \A event : Spells(block) = {event} => event = e
    BY <1>5 DEF Spells
  <2> HIDE DEF e, q
  <2>3. Report(protocol, P, e) = IF incoming = {} THEN A ELSE B
    BY ReportOf
  <2> HIDE DEF P
  <2>4. q = IF incoming = {} THEN A ELSE B
    BY <1>1, <2>1, <2>3
  <2> HIDE DEF was, merged, id, incoming
  <2>5. /\ A.usage = p.usage /\ A.complete = p.complete
        /\ B.usage = merged /\ B.complete = was
    BY ReaderIs
  <2> HIDE DEF A, B
  <2>6. IF incoming = {} THEN q.usage = p.usage /\ q.complete = p.complete
        ELSE q.usage = merged /\ q.complete = was
    BY <2>4, <2>5
  <2>7. Told(q, e)
    BY <2>6 DEF incoming, was, merged
  <2> HIDE DEF Told
  <2> QED
    BY <2>2, <2>7, Zenon DEF q, Told
<1> QED
  BY <1>2, <1>3, <1>4, <1>5

-----------------------------------------------------------------------------
EventAt(i) == Events[stream.pieces[i].event]
UsageAt(i) == EventUsage(stream.protocol, EventAt(i))

\* Which of the first m pieces report.
Told(m) == {i \in 1..m : stream.pieces[i].event \in DOMAIN Events /\ UsageAt(i) # {}}

\* What a reader knows by them: the last report, or the greatest counts.
KnowsLast(m, usage) ==
  \E j \in Told(m) : (\A i \in Told(m) : i <= j) /\ usage = {ReportAt(j)}
KnowsGreatest(m, usage) ==
  \E v \in [Counts -> Nat] :
     /\ usage = {v}
     /\ \A f \in Counts : /\ \E i \in Told(m) : v[f] = ReportAt(i)[f]
                         /\ \A i \in Told(m) : ReportAt(i)[f] <= v[f]
Knows(m, p) ==
  /\ Told(m) = {} => p.usage = {}
  /\ Told(m) # {} /\ stream.protocol # "Anthropic" => KnowsLast(m, p.usage)
  /\ Told(m) # {} /\ stream.protocol = "Anthropic" => KnowsGreatest(m, p.usage)
  /\ stream.protocol = "Anthropic" => (p.complete <=> \E i \in Told(m) : HasOutput(EventAt(i)))

\* What a piece reports is one usage.
LEMMA ReportIs ==
  ASSUME stream \in Streams, NEW m \in Nat, NEW i \in Told(m)
  PROVE  /\ UsageAt(i) = {ReportAt(i)}
         /\ stream.protocol = "Anthropic" => ReportAt(i) \in [Counts -> Nat]
<1>1. stream.pieces[i].event \in DOMAIN Events /\ UsageAt(i) # {}
  BY DEF Told
<1>2. AtMostOne(UsageAt(i))
  BY StreamAssumption, OneUsage DEF UsageAt
<1>3. ReportAt(i) \in UsageAt(i)
  BY <1>1, Zenon DEF ReportAt, UsageAt, EventAt
<1>4. UsageAt(i) = {ReportAt(i)}
  BY <1>2, <1>3 DEF AtMostOne
<1>5. ASSUME stream.protocol = "Anthropic" PROVE ReportAt(i) \in [Counts -> Nat]
  BY <1>1, <1>3, <1>5, AnthropicCounts DEF UsageAt, EventAt
<1> QED
  BY <1>4, <1>5

\* A piece that reports nothing leaves it as it was, another adds to it.
LEMMA KnowsMore ==
  ASSUME stream \in Streams, NEW m \in Nat,
         NEW p, p = With(p, p.buffer, p.remainder), Knows(m, p),
         NEW block, Spells(block) = EventOf(stream.pieces[m + 1])
  PROVE  Knows(m + 1, FeedBlock(stream.protocol, p, block))
<1> DEFINE n == m + 1
           q == FeedBlock(stream.protocol, p, block)
           e == EventAt(n)
           r == ReportAt(n)
<1>1. CASE n \notin Told(n)
  <2>1. Told(n) = Told(m)
    BY <1>1 DEF Told
  <2>2. q.usage = p.usage /\ q.complete = p.complete
    <3>1. CASE stream.pieces[n].event \notin DOMAIN Events
      BY <3>1, BlockReports DEF EventOf
    <3>2. CASE stream.pieces[n].event \in DOMAIN Events
      <4>1. UsageAt(n) = {} /\ Spells(block) = {e}
        BY <1>1, <3>2 DEF Told, EventOf, EventAt
      <4> HIDE DEF e
      <4> QED
        BY <4>1, BlockReports DEF UsageAt, e
    <3> QED
      BY <3>1, <3>2
  <2> HIDE DEF q, n
  <2>3. Knows(n, q)
    BY <2>1, <2>2, Zenon DEF Knows, KnowsLast, KnowsGreatest
  <2> QED
    BY <2>3 DEF n, q
<1>2. CASE n \in Told(n)
  <2>1. Told(n) = Told(m) \cup {n} /\ \A i \in Told(m) : i \in Nat /\ i < n
    BY <1>2 DEF Told
  <2>2. UsageAt(n) = {r} /\ (stream.protocol = "Anthropic" => r \in [Counts -> Nat])
    BY <1>2, ReportIs
  <2>3. /\ q.usage = MergeUsage(stream.protocol, p.usage, {r})
        /\ q.complete = (p.complete \/ stream.protocol # "Anthropic" \/ HasOutput(e))
    <3>1. Spells(block) = {e} /\ UsageAt(n) # {}
      BY <1>2 DEF Told, EventOf, EventAt
    <3>2. UsageAt(n) = EventUsage(stream.protocol, e)
      BY DEF UsageAt
    <3> HIDE DEF e, q, r
    <3> QED
      BY <2>2, <3>1, <3>2, BlockReports DEF q
  <2> HIDE DEF q
  <2>4. ASSUME stream.protocol # "Anthropic" PROVE KnowsLast(n, q.usage)
    <3>1. q.usage = {r}
      BY <2>3, <2>4 DEF MergeUsage
    <3> QED
      BY <2>1, <3>1 DEF KnowsLast
  <2>5. ASSUME stream.protocol = "Anthropic" PROVE KnowsGreatest(n, q.usage)
    <3> HIDE DEF r
    <3>1. CASE Told(m) = {}
      <4>1. q.usage = {r}
        BY <2>3, <3>1 DEF MergeUsage, Knows
      <4>2. \A f \in Counts : r[f] \in Nat
        BY <2>2, <2>5
      <4> QED
        BY <2>1, <2>2, <2>5, <3>1, <4>1, <4>2 DEF KnowsGreatest, r
    <3>2. CASE Told(m) # {}
      <4>1. PICK v \in [Counts -> Nat] :
               /\ p.usage = {v}
               /\ \A f \in Counts : /\ \E i \in Told(m) : v[f] = ReportAt(i)[f]
                                   /\ \A i \in Told(m) : ReportAt(i)[f] <= v[f]
        BY <2>5, <3>2 DEF Knows, KnowsGreatest
      <4> DEFINE w == [f \in Counts |-> Larger(r[f], v[f])]
      <4>2. q.usage = {w}
        <5> DEFINE u == [f \in DOMAIN r |-> Larger(r[f], v[f])]
                   merged == MergeUsage(stream.protocol, {v}, {r})
        <5>1. merged = {u}
          BY <2>5 DEF MergeUsage
        <5>2. u = w
          <6>1. DOMAIN r = Counts
            BY <2>2, <2>5
          <6> QED
            BY <6>1, Zenon
        <5>3. q.usage = merged
          BY <2>3, <4>1, Zenon
        <5> HIDE DEF u, w, merged
        <5> QED
          BY <5>1, <5>2, <5>3
      <4>3. \A f \in Counts : r[f] \in Nat /\ v[f] \in Nat /\ w[f] = Larger(r[f], v[f])
        BY <2>2, <2>5
      <4>4. w \in [Counts -> Nat]
        BY <4>3 DEF Larger
      <4> HIDE DEF w
      <4>5. ASSUME NEW f \in Counts
            PROVE  /\ \E i \in Told(n) : w[f] = ReportAt(i)[f]
                   /\ \A i \in Told(n) : ReportAt(i)[f] <= w[f]
        <5>1. /\ r[f] \in Nat /\ v[f] \in Nat /\ r[f] = ReportAt(n)[f]
              /\ w[f] = IF r[f] >= v[f] THEN r[f] ELSE v[f]
          BY <4>3 DEF Larger, r
        <5>2. \A i \in Told(m) : ReportAt(i)[f] \in Nat
          <6>1. \A i \in Told(m) : ReportAt(i) \in [Counts -> Nat]
            BY <2>5, ReportIs
          <6> QED
            BY <6>1
        <5> QED
          BY <2>1, <4>1, <5>1, <5>2
      <4> QED
        BY <4>2, <4>4, <4>5 DEF KnowsGreatest
    <3> QED
      BY <3>1, <3>2
  <2>6. ASSUME stream.protocol = "Anthropic"
        PROVE  q.complete <=> \E i \in Told(n) : HasOutput(EventAt(i))
    <3>1. p.complete <=> \E i \in Told(m) : HasOutput(EventAt(i))
      BY <2>6 DEF Knows
    <3> HIDE DEF n
    <3> QED
      BY <2>1, <2>3, <2>6, <3>1, Zenon
  <2>7. Knows(n, q)
    <3> HIDE DEF n
    <3> QED
      BY <1>2, <2>4, <2>5, <2>6, Zenon DEF Knows
  <2> QED
    BY <2>7 DEF n, q
<1> QED
  BY <1>1, <1>2

\* A reader that knows what the pieces that came report settles with that.
LEMMA KnowsIsCharged ==
  ASSUME stream \in Streams, NEW m \in Nat, Knows(m, parser), Reported = Told(m)
  PROVE  ReportedUsageIsCharged
<1> DEFINE greatest == [f \in Counts |-> Max({ReportAt(i)[f] : i \in Told(m)})]
           Final(i) == HasOutput(EventAt(i))
           due == IF Told(m) = {} THEN {}
                  ELSE IF stream.protocol # "Anthropic" THEN {ReportAt(Max(Told(m)))}
                  ELSE IF ~\E i \in Told(m) : Final(i) THEN {}
                  ELSE {greatest}
<1>1. UsageOf(stream.protocol, parser) = due
  <2>1. CASE Told(m) = {}
    BY <2>1 DEF Knows, UsageOf
  <2>2. CASE Told(m) # {} /\ stream.protocol # "Anthropic"
    <3>1. PICK j \in Told(m) : (\A i \in Told(m) : i <= j) /\ parser.usage = {ReportAt(j)}
      BY <2>2 DEF Knows, KnowsLast
    <3>2. Max(Told(m)) = j
      <4>1. Told(m) \subseteq Int
        BY DEF Told
      <4> QED
        BY <3>1, <4>1, MaxIs
    <3> QED
      BY <2>2, <3>1, <3>2 DEF UsageOf
  <2>3. CASE Told(m) # {} /\ stream.protocol = "Anthropic"
    <3>1. PICK v \in [Counts -> Nat] :
             /\ parser.usage = {v}
             /\ \A f \in Counts : /\ \E i \in Told(m) : v[f] = ReportAt(i)[f]
                                 /\ \A i \in Told(m) : ReportAt(i)[f] <= v[f]
      BY <2>3 DEF Knows, KnowsGreatest
    <3>2. parser.complete <=> \E i \in Told(m) : Final(i)
      BY <2>3, Zenon DEF Knows
    <3>3. ASSUME NEW f \in Counts
          PROVE  Max({ReportAt(i)[f] : i \in Told(m)}) = v[f]
      <4> DEFINE S == {ReportAt(i)[f] : i \in Told(m)}
      <4>1. \A i \in Told(m) : ReportAt(i) \in [Counts -> Nat]
        BY <2>3, ReportIs
      <4>2. S \subseteq Int /\ v[f] \in S /\ \A k \in S : k <= v[f]
        BY <3>1, <4>1
      <4> HIDE DEF S
      <4>3. Max(S) = v[f]
        BY <4>2, MaxIs
      <4> QED
        BY <4>3 DEF S
    <3>4. greatest = v
      <4>1. v = [f \in Counts |-> v[f]]
        OBVIOUS
      <4> QED
        BY <3>3, <4>1
    <3> HIDE DEF greatest, Final
    <3>5. CASE \E i \in Told(m) : Final(i)
      <4>1. UsageOf(stream.protocol, parser) = parser.usage
        BY <3>2, <3>5, Zenon DEF UsageOf
      <4>2. due = {greatest}
        BY <2>3, <3>5
      <4> QED
        BY <3>1, <3>4, <4>1, <4>2
    <3>6. CASE ~\E i \in Told(m) : Final(i)
      <4>1. UsageOf(stream.protocol, parser) = {}
        BY <2>3, <3>2, <3>6, Zenon DEF UsageOf
      <4>2. due = {}
        BY <2>3, <3>6
      <4> QED
        BY <4>1, <4>2
    <3> QED
      BY <3>5, <3>6
  <2> QED
    BY <2>1, <2>2, <2>3
<1> QED
  BY <1>1, Zenon DEF ReportedUsageIsCharged, Counts, EventAt

\* Where the m-th piece of the answer ends, and the reader that has all up to it.
End(m)  == From(stream, m + 1)
Upto(m) == Feed(stream.protocol, NewParser, SubSeq(stream.bytes, 1, End(m)))

\* One piece begins where the one before it ends, and the last ends the answer.
LEMMA PiecesAre ==
  ASSUME stream \in Streams
  PROVE  LET n == Len(stream.pieces)
         IN  /\ n \in Nat /\ DOMAIN stream.pieces = 1..n
             /\ stream.bytes \in Seq(Bytes) /\ Len(stream.bytes) \in Nat
             /\ End(0) = 0 /\ End(n) = Len(stream.bytes)
             /\ \A i \in 1..n : /\ End(i) = stream.pieces[i].to /\ End(i) \in Nat
                                /\ stream.pieces[i].text \in End(i - 1)..End(i)
<1> DEFINE n == Len(stream.pieces)
           Pieces == [event : STRING, text : Nat, to : Nat]
<1>1. stream.pieces \in Seq(Pieces)
  BY PieceAssumption
<1>2. n \in Nat /\ DOMAIN stream.pieces = 1..n /\ \A i \in 1..n : stream.pieces[i] \in Pieces
  <2> HIDE DEF Pieces
  <2> QED
    BY <1>1, LenProperties, ElementOfSeq
<1>3. stream.bytes \in Seq(Bytes) /\ Len(stream.bytes) \in Nat
  BY StreamAssumption, LenProperties
<1>4. End(0) = 0
  BY DEF End, From
<1>5. End(n) = Len(stream.bytes)
  BY PieceAssumption DEF End
<1>6. ASSUME NEW i \in 1..n
      PROVE  /\ End(i) = stream.pieces[i].to /\ End(i) \in Nat
             /\ stream.pieces[i].text \in End(i - 1)..End(i)
  <2>1. i \in Nat /\ i + 1 # 1 /\ (i + 1) - 1 = i /\ (i - 1) + 1 = i
    BY <1>2
  <2>2. End(i) = stream.pieces[i].to
    BY <2>1 DEF End, From
  <2>3. End(i - 1) = From(stream, i)
    BY <2>1 DEF End
  <2>4. stream.pieces[i].text \in From(stream, i)..stream.pieces[i].to
    BY <1>2, PieceAssumption
  <2> QED
    BY <1>2, <2>2, <2>3, <2>4
<1> QED
  BY <1>2, <1>3, <1>4, <1>5, <1>6

\* A piece that came in whole is one block, which spells its event.
LEMMA WholePiece ==
  ASSUME stream \in Streams, NEW i \in DOMAIN stream.pieces
  PROVE  LET piece == stream.pieces[i]
             r     == Read(stream, i, piece.to)
         IN  /\ Cuts(r.buffer) # {} /\ r.remainder = <<>>
             /\ Spells(BlockOf(r.buffer)) = EventOf(piece)
             /\ FirstCut(r.buffer)[1] + FirstCut(r.buffer)[2] - 1 = Len(r.buffer)
BY PieceAssumption, Zenon DEF BlockOf

\* What there is of another spells its event when it is complete.
LEMMA PartOfPiece ==
  ASSUME stream \in Streams, NEW i \in DOMAIN stream.pieces,
         NEW k \in From(stream, i)..(stream.pieces[i].to - 1)
  PROVE  LET piece == stream.pieces[i]
             r     == Read(stream, i, k)
         IN  /\ Cuts(r.buffer) = {}
             /\ Spells(LastBlock(r)) = IF k >= piece.text THEN EventOf(piece) ELSE {}
BY PieceAssumption, Zenon

\* A later piece ends later.
LEMMA EndsInOrder ==
  ASSUME stream \in Streams,
         NEW i \in 0..Len(stream.pieces), NEW j \in i..Len(stream.pieces)
  PROVE  End(i) \in Nat /\ End(j) \in Nat /\ End(i) <= End(j)
<1> DEFINE n == Len(stream.pieces)
           T == {k \in Nat : i + k <= n => End(i) <= End(i + k)}
<1>1. n \in Nat /\ \A k \in 0..n : End(k) \in Nat
  BY PiecesAre
<1>2. \A k \in 1..n : End(k - 1) <= End(k)
  <2> SUFFICES ASSUME NEW k \in 1..n PROVE End(k - 1) <= End(k)
    OBVIOUS
  <2>1. stream.pieces[k].text \in End(k - 1)..End(k) /\ End(k) \in Nat /\ End(k - 1) \in Nat
    <3>1. k - 1 \in 0..n /\ k \in 0..n
      BY <1>1
    <3> QED
      BY <1>1, <3>1, PiecesAre
  <2> QED
    BY <2>1
<1>3. 0 \in T
  BY <1>1
<1>4. ASSUME NEW k \in Nat, k \in T PROVE k + 1 \in T
  <2> SUFFICES ASSUME i + (k + 1) <= n PROVE End(i) <= End(i + (k + 1))
    OBVIOUS
  <2>1. /\ i + (k + 1) \in 1..n /\ (i + (k + 1)) - 1 = i + k
        /\ i + k \in 0..n /\ i + (k + 1) \in 0..n
    BY <1>1
  <2>2. End(i) <= End(i + k) /\ End(i + k) <= End(i + (k + 1))
    BY <1>2, <1>4, <2>1
  <2>3. End(i) \in Nat /\ End(i + k) \in Nat /\ End(i + (k + 1)) \in Nat
    BY <1>1, <2>1
  <2> QED
    BY <2>2, <2>3
<1>5. j - i \in T
  <2>1. j - i \in Nat
    BY <1>1
  <2> HIDE DEF T
  <2> QED
    BY <1>3, <1>4, <2>1, Counting
<1>6. i + (j - i) = j /\ j \in 0..n
  BY <1>1
<1> QED
  BY <1>1, <1>5, <1>6

\* Behind a whole piece the next bytes read as they do at the beginning.
LEMMA PieceReads ==
  ASSUME stream \in Streams, NEW m \in Nat, m + 1 <= Len(stream.pieces),
         NEW k \in End(m)..End(m + 1),
         NEW p, IsParser(p), p.buffer = <<>>, p.remainder = <<>>
  PROVE  LET chunk == SubSeq(stream.bytes, End(m) + 1, k)
             q     == AppendUtf8Safe(p, chunk)
             r     == Read(stream, m + 1, k)
         IN  /\ chunk \in Seq(Symbols)
             /\ SubSeq(stream.bytes, 1, End(m)) \in Seq(Symbols)
             /\ SubSeq(stream.bytes, 1, End(m)) \o chunk = SubSeq(stream.bytes, 1, k)
             /\ IsParser(q) /\ q = With(p, r.buffer, r.remainder)
             /\ q.buffer = r.buffer /\ q.remainder = r.remainder
<1> DEFINE n == Len(stream.pieces)
           chunk == SubSeq(stream.bytes, End(m) + 1, k)
           q == AppendUtf8Safe(p, chunk)
           r == Read(stream, m + 1, k)
           c == Came(<<>>, chunk)
           new == NewParser
<1>1. /\ n \in Nat /\ m \in 0..n /\ m + 1 \in m..n /\ m + 1 \in 0..n /\ n \in (m + 1)..n
      /\ stream.bytes \in Seq(Bytes) /\ End(n) = Len(stream.bytes) /\ Len(stream.bytes) \in Nat
  BY PiecesAre
<1>2. /\ End(m) \in Nat /\ End(m + 1) \in Nat /\ End(m) <= End(m + 1)
      /\ End(m + 1) <= Len(stream.bytes)
  BY <1>1, EndsInOrder
<1>3. /\ End(m) \in 0..Len(stream.bytes) /\ k - End(m) \in Nat
      /\ End(m) + (k - End(m)) = k /\ k <= Len(stream.bytes)
  BY <1>1, <1>2
<1>4. /\ chunk \in Seq(Symbols) /\ SubSeq(stream.bytes, 1, End(m)) \in Seq(Symbols)
      /\ SubSeq(stream.bytes, 1, End(m)) \o chunk = SubSeq(stream.bytes, 1, k)
  BY <1>1, <1>3, BytesSoFar
<1>5. r = AppendUtf8Safe(new, chunk)
  BY DEF Read, End
<1>6. IsParser(new) /\ new.buffer = <<>> /\ new.remainder = <<>>
  BY NewParserIs DEF NewParser
<1>7. <<>> \in Pendings
  BY DEF Pendings
<1> HIDE DEF chunk, new
<1>8. c.text \in Seq(Symbols) /\ c.pending \in Pendings
  BY <1>4, <1>7, CameIs
<1>9. q = More(p, c.text, c.pending) /\ r = More(new, c.text, c.pending)
  BY <1>4, <1>5, <1>6, AppendIsMore
<1>10. <<>> \o c.text = c.text
  BY <1>8, ConcatEmptySeq
<1> HIDE DEF c, q, r
<1>11. /\ IsParser(q) /\ q.buffer = c.text /\ q.remainder = c.pending
       /\ r.buffer = c.text /\ r.remainder = c.pending
  <2> DEFINE X == c.text
             s == c.pending
             f == More(p, X, s)
             g == More(new, X, s)
  <2>1. X \in Seq(Symbols) /\ s \in Pendings /\ q = f /\ r = g
    BY <1>8, <1>9
  <2> HIDE DEF X, s
  <2>2. /\ IsParser(f) /\ f.buffer = p.buffer \o X /\ f.remainder = s
        /\ g.buffer = new.buffer \o X /\ g.remainder = s
    BY <1>6, <2>1, MoreIsParser
  <2>3. <<>> \o X = X
    BY <1>10 DEF X
  <2> HIDE DEF f, g
  <2> QED
    BY <1>6, <2>1, <2>2, <2>3 DEF X, s
<1>12. q = With(p, r.buffer, r.remainder)
  BY <1>9, <1>10, <1>11 DEF More
<1> QED
  BY <1>4, <1>11, <1>12, Zenon DEF chunk, q, r

\* What a reader knows is its usage and whether that is final.
LEMMA KnowsSame ==
  ASSUME NEW m, NEW p, NEW q, Knows(m, p), q.usage = p.usage, q.complete = p.complete
  PROVE  Knows(m, q)
BY Zenon DEF Knows

\* Whatever it has in its buffer.
LEMMA KnowsWith ==
  ASSUME NEW m, NEW p, Knows(m, p), NEW b, NEW r
  PROVE  Knows(m, With(p, b, r))
<1> DEFINE q == With(p, b, r)
<1>1. q.usage = p.usage /\ q.complete = p.complete
  BY WithKeeps
<1> HIDE DEF q
<1>2. Knows(m, q)
  BY <1>1, KnowsSame
<1> QED
  BY <1>2 DEF q

\* The reader that has all of the first m pieces waits for no more of them and
\* knows what they report.
LEMMA UptoKnows ==
  ASSUME stream \in Streams, NEW m \in 0..Len(stream.pieces)
  PROVE  /\ IsParser(Upto(m)) /\ Upto(m).buffer = <<>> /\ Upto(m).remainder = <<>>
         /\ Knows(m, Upto(m))
<1> DEFINE n == Len(stream.pieces)
           Holds(k, p) == /\ IsParser(p) /\ p.buffer = <<>> /\ p.remainder = <<>>
                          /\ Knows(k, p)
           T == {k \in Nat : k <= n => Holds(k, Upto(k))}
<1>1. 0 \in T
  <2>1. Upto(0) = NewParser
    <3>1. End(0) = 0 /\ stream.bytes \in Seq(Bytes)
      BY PiecesAre
    <3>2. SubSeq(stream.bytes, 1, End(0)) = <<>>
      BY <3>1, SubSeqEmpty
    <3> QED
      BY <3>2, NewParserIs DEF Upto
  <2>2. IsParser(NewParser) /\ NewParser.buffer = <<>> /\ NewParser.remainder = <<>>
    BY NewParserIs DEF NewParser
  <2>3. Told(0) = {}
    BY DEF Told
  <2>4. NewParser.usage = {} /\ ~NewParser.complete
    BY DEF NewParser
  <2>5. Knows(0, NewParser)
    BY <2>3, <2>4 DEF Knows
  <2> QED
    BY <2>1, <2>2, <2>5
<1>2. ASSUME NEW k \in Nat, k \in T PROVE k + 1 \in T
  <2> SUFFICES ASSUME k + 1 <= n PROVE Holds(k + 1, Upto(k + 1))
    OBVIOUS
  <2> DEFINE p == Upto(k)
             piece == stream.pieces[k + 1]
             to == End(k + 1)
             chunk == SubSeq(stream.bytes, End(k) + 1, to)
             q == AppendUtf8Safe(p, chunk)
             r == Read(stream, k + 1, to)
             t == TakeBlock(stream.protocol, q)
             f == FeedBlock(stream.protocol, q, BlockOf(q.buffer))
  <2>1. /\ n \in Nat /\ k + 1 \in 1..n /\ DOMAIN stream.pieces = 1..n
        /\ to = piece.to /\ End(k) \in Nat /\ to \in Nat /\ End(k) <= to /\ to \in End(k)..to
    <3>1. n \in Nat /\ k \in 0..n /\ k + 1 \in k..n /\ k + 1 \in 1..n
      BY PiecesAre
    <3>2. End(k) \in Nat /\ to \in Nat /\ End(k) <= to
      BY <3>1, EndsInOrder
    <3> QED
      BY <3>1, <3>2, PiecesAre
  <2>2. Holds(k, p)
    BY <1>2, <2>1
  <2>3. /\ chunk \in Seq(Symbols) /\ SubSeq(stream.bytes, 1, End(k)) \in Seq(Symbols)
        /\ SubSeq(stream.bytes, 1, End(k)) \o chunk = SubSeq(stream.bytes, 1, to)
        /\ IsParser(q) /\ q = With(p, r.buffer, r.remainder)
        /\ q.buffer = r.buffer /\ q.remainder = r.remainder
    BY <2>1, <2>2, PieceReads
  <2>4. Upto(k + 1) = FeedBlocks(stream.protocol, q)
    <3> DEFINE a == SubSeq(stream.bytes, 1, End(k))
    <3>1. a \in Seq(Symbols) /\ chunk \in Seq(Symbols)
      BY <2>3
    <3>2. a \o chunk = SubSeq(stream.bytes, 1, to)
      BY <2>3
    <3>3. p = Feed(stream.protocol, NewParser, a)
      BY DEF Upto
    <3>4. Upto(k + 1) = Feed(stream.protocol, NewParser, SubSeq(stream.bytes, 1, to))
      BY DEF Upto
    <3> HIDE DEF a, chunk, to, p
    <3>5. Feed(stream.protocol, p, chunk) = Feed(stream.protocol, NewParser, a \o chunk)
      BY <3>1, <3>3, NewParserIs, FeedTogether
    <3>6. Feed(stream.protocol, p, chunk) = FeedBlocks(stream.protocol, AppendUtf8Safe(p, chunk))
      BY DEF Feed
    <3> QED
      BY <3>2, <3>4, <3>5, <3>6
  <2>5. /\ Cuts(r.buffer) # {} /\ r.remainder = <<>>
        /\ Spells(BlockOf(r.buffer)) = EventOf(piece)
        /\ FirstCut(r.buffer)[1] + FirstCut(r.buffer)[2] - 1 = Len(r.buffer)
    <3> DEFINE i == k + 1
    <3>1. i \in DOMAIN stream.pieces /\ piece = stream.pieces[i] /\ to = stream.pieces[i].to
      BY <2>1
    <3>2. r = Read(stream, i, to)
      OBVIOUS
    <3> HIDE DEF i, piece, to, r
    <3> QED
      BY <3>1, <3>2, WholePiece
  <2> HIDE DEF p, piece, to, chunk, q, r
  <2>6. RestOf(q.buffer) = <<>>
    <3> DEFINE B == q.buffer
               cut == FirstCut(B)
               after == cut[1] + cut[2]
    <3>1. cut \in Cuts(B) /\ B \in Seq(Symbols) /\ Len(B) \in Nat
      BY <2>3, <2>5, FirstCutIs, LenProperties DEF IsParser
    <3>2. cut[1] \in Nat /\ cut[2] \in Nat
      BY <3>1 DEF Cuts
    <3>3. after = Len(B) + 1
      <4> DEFINE x == cut[1]
                 y == cut[2]
      <4>1. x + y - 1 = Len(B)
        BY <2>3, <2>5
      <4>2. x \in Nat /\ y \in Nat
        BY <3>2
      <4> HIDE DEF x, y
      <4>3. x + y = Len(B) + 1
        BY <3>1, <4>1, <4>2
      <4> QED
        BY <4>3 DEF x, y
    <3> HIDE DEF cut, after
    <3>4. SubSeq(B, after, Len(B)) = <<>>
      BY <3>1, <3>3, SubSeqEmpty
    <3> QED
      BY <3>4 DEF RestOf, cut, after
  <2>7. /\ t = With(f, <<>>, <<>>) /\ IsParser(t) /\ t.buffer = <<>> /\ t.remainder = <<>>
    <3>1. Cuts(q.buffer) # {} /\ q.remainder = <<>> /\ IsParser(q)
      BY <2>3, <2>5
    <3>2. /\ t = With(f, RestOf(q.buffer), q.remainder)
          /\ IsParser(t) /\ t.buffer = RestOf(q.buffer) /\ t.remainder = q.remainder
      BY <3>1, TakeBlockIs
    <3> HIDE DEF t, f
    <3> QED
      BY <2>6, <3>1, <3>2
  <2>8. Upto(k + 1) = t
    <3>1. FeedBlocks(stream.protocol, q) = FeedBlocks(stream.protocol, t)
      BY <2>3, <2>5, FeedOne
    <3>2. Cuts(t.buffer) = {}
      BY <2>7 DEF Cuts
    <3> HIDE DEF t
    <3>3. FeedBlocks(stream.protocol, t) = t
      BY <2>7, <3>2, NothingToFeed
    <3> QED
      BY <2>4, <3>1, <3>3
  <2>9. Knows(k, q)
    BY <2>2, <2>3, KnowsWith
  <2>10. Knows(k + 1, f)
    <3>1. q = With(q, q.buffer, q.remainder)
      BY <2>3 DEF IsParser
    <3>2. Spells(BlockOf(q.buffer)) = EventOf(stream.pieces[k + 1])
      BY <2>3, <2>5 DEF piece
    <3> QED
      BY <2>9, <3>1, <3>2, KnowsMore
  <2> HIDE DEF f, t
  <2>11. Knows(k + 1, t)
    BY <2>7, <2>10, KnowsWith
  <2> QED
    BY <2>7, <2>8, <2>11
<1>3. m \in T
  <2>1. m \in Nat
    BY PiecesAre
  <2> HIDE DEF T
  <2> QED
    BY <1>1, <1>2, <2>1, Counting
<1> QED
  BY <1>3, PiecesAre

\* The last block is fed to the emptied reader.
LEMMA FinishIs ==
  ASSUME NEW protocol, NEW p, IsParser(p)
  PROVE  LET q == With(p, <<>>, <<>>)
         IN  /\ Finish(protocol, p) = FeedBlock(protocol, q, LastBlock(p))
             /\ q = With(q, q.buffer, q.remainder)
<1> DEFINE q == With(p, <<>>, <<>>)
           w == With(p, p.buffer, p.remainder)
           v == [w EXCEPT !.buffer = <<>>]
<1>1. [w EXCEPT !.buffer = <<>>, !.remainder = <<>>] = [v EXCEPT !.remainder = <<>>]
  OBVIOUS
<1>2. v = With(p, <<>>, p.remainder)
  BY DEF With, Reader
<1>3. [v EXCEPT !.remainder = <<>>] = q
  <2> HIDE DEF v
  <2> QED
    BY <1>2 DEF With, Reader
<1>4. p = w
  BY DEF IsParser
<1>5. q = With(q, q.buffer, q.remainder)
  <2>1. q.buffer = <<>> /\ q.remainder = <<>> /\ q = With(q, <<>>, <<>>)
    BY WithFields
  <2> HIDE DEF q
  <2> QED
    BY <2>1
<1> HIDE DEF w, v, q
<1>6. [p EXCEPT !.buffer = <<>>, !.remainder = <<>>] = q
  BY <1>1, <1>3, <1>4
<1>7. Finish(protocol, p) = FeedBlock(protocol, q, LastBlock(p))
  BY <1>6, Zenon DEF Finish
<1> QED
  BY <1>5, <1>7 DEF q

\* What is left of a piece that says nothing adds nothing.
LEMMA NothingLeft ==
  ASSUME NEW m, NEW p, IsParser(p), Knows(m, p), Spells(LastBlock(p)) = {}
  PROVE  Knows(m, Finish(stream.protocol, p))
<1> DEFINE q == With(p, <<>>, <<>>)
           f == FeedBlock(stream.protocol, q, LastBlock(p))
<1>1. Finish(stream.protocol, p) = f /\ q = With(q, q.buffer, q.remainder)
  BY FinishIs
<1>2. Knows(m, q)
  BY KnowsWith
<1> HIDE DEF q
<1>3. f.usage = q.usage /\ f.complete = q.complete
  BY <1>1, BlockReports
<1> HIDE DEF f
<1>4. Knows(m, f)
  BY <1>2, <1>3, KnowsSame
<1> QED
  BY <1>1, <1>4

\* The pieces that came are the first m of them, and what they report is told.
LEMMA ReportedIs ==
  ASSUME stream \in Streams, NEW m \in 0..Len(stream.pieces),
         \A i \in 1..Len(stream.pieces) :
            (\/ pos >= stream.pieces[i].to
             \/ relay = "ended" /\ pos >= stream.pieces[i].text) <=> i <= m
  PROVE  Reported = Told(m)
<1> DEFINE n == Len(stream.pieces)
           Whole(i) == \/ pos >= stream.pieces[i].to
                       \/ relay = "ended" /\ pos >= stream.pieces[i].text
<1>1. n \in Nat /\ DOMAIN stream.pieces = 1..n
  BY PiecesAre
<1>2. Arrived = {i \in 1..n : stream.pieces[i].event \in DOMAIN Events /\ Whole(i)}
  BY <1>1, Zenon DEF Arrived
<1>3. \A i \in 1..n : Whole(i) <=> i <= m
  OBVIOUS
<1> HIDE DEF Whole
<1>4. Arrived = {i \in 1..m : stream.pieces[i].event \in DOMAIN Events}
  BY <1>1, <1>2, <1>3
<1>5. Reported = {i \in Arrived : UsageAt(i) # {}}
  BY Zenon DEF Reported, UsageAt, EventAt
<1> QED
  BY <1>4, <1>5 DEF Told

\* Wherever the answer stands: what was charged is what the pieces report.
LEMMA ChargedAsReported == StreamInv => ReportedUsageIsCharged
<1> SUFFICES ASSUME StreamInv PROVE ReportedUsageIsCharged
  OBVIOUS
<1> DEFINE n == Len(stream.pieces)
<1>1. /\ stream \in Streams /\ pos \in 0..Len(stream.bytes)
      /\ parser = IF relay = "ended" THEN Finish(stream.protocol, AtOnce) ELSE AtOnce
  BY DEF StreamInv, StreamTypeOK, ChunksDoNotMatter
<1>2. /\ n \in Nat /\ DOMAIN stream.pieces = 1..n
      /\ stream.bytes \in Seq(Bytes) /\ Len(stream.bytes) \in Nat
      /\ End(0) = 0 /\ End(n) = Len(stream.bytes)
      /\ \A i \in 1..n : /\ End(i) = stream.pieces[i].to /\ End(i) \in Nat
                         /\ stream.pieces[i].text \in End(i - 1)..End(i)
  BY <1>1, PiecesAre
<1>3. ASSUME NEW i \in 0..n, NEW j \in i..n
      PROVE  End(i) \in Nat /\ End(j) \in Nat /\ End(i) <= End(j)
  BY <1>1, EndsInOrder
<1>4. CASE \A i \in 1..n : End(i) <= pos
  <2>1. pos = End(n)
    <3>1. CASE n = 0
      BY <1>1, <1>2, <3>1
    <3>2. CASE n # 0
      <4>1. n \in 1..n
        BY <1>2, <3>2
      <4> QED
        BY <1>1, <1>2, <1>4, <4>1
    <3> QED
      BY <3>1, <3>2
  <2>2. AtOnce = Upto(n)
    BY <2>1 DEF AtOnce, Upto
  <2>3. /\ n \in 0..n /\ IsParser(AtOnce) /\ Knows(n, AtOnce)
        /\ AtOnce.buffer = <<>> /\ AtOnce.remainder = <<>>
    BY <1>1, <1>2, <2>2, UptoKnows
  <2>4. Spells(LastBlock(AtOnce)) = {}
    <3>1. LastBlock(AtOnce) = <<>>
      BY <2>3 DEF LastBlock
    <3>2. DataLines(<<>>) = {}
      BY DEF DataLines
    <3> QED
      BY <3>1, <3>2 DEF Spells
  <2>5. Knows(n, parser)
    BY <1>1, <2>3, <2>4, NothingLeft
  <2>6. \A i \in 1..n : pos >= stream.pieces[i].to /\ i <= n
    BY <1>1, <1>2, <1>4
  <2>7. Reported = Told(n)
    BY <1>1, <2>3, <2>6, ReportedIs
  <2> QED
    BY <1>1, <1>2, <2>5, <2>7, KnowsIsCharged
<1>5. CASE ~\A i \in 1..n : End(i) <= pos
  <2> DEFINE T == {i \in 1..n : ~(End(i) <= pos)}
  <2>1. PICK j \in T : \A i \in T : j <= i
    <3>1. T \in SUBSET Nat /\ T # {}
      BY <1>5
    <3> HIDE DEF T
    <3> QED
      BY <3>1, Least
  <2> DEFINE m == j - 1
             p == Upto(m)
             piece == stream.pieces[j]
             chunk == SubSeq(stream.bytes, End(m) + 1, pos)
             q == AppendUtf8Safe(p, chunk)
             r == Read(stream, j, pos)
  <2>2. /\ j \in 1..n /\ m \in Nat /\ m + 1 = j /\ m + 1 <= n /\ m \in 0..n /\ j \in m..n
        /\ End(m) \in Nat /\ End(j) \in Nat /\ pos \in Nat /\ pos < End(j) /\ End(m) <= pos
    <3>1. j \in 1..n /\ m \in Nat /\ m + 1 = j /\ m + 1 <= n /\ m \in 0..n /\ j \in m..n
      BY <1>2
    <3>2. End(m) \in Nat /\ End(j) \in Nat /\ pos \in Nat
      BY <1>1, <1>2, <1>3, <3>1
    <3>3. pos < End(j)
      BY <3>2
    <3>4. End(m) <= pos
      <4>1. CASE m = 0
        BY <1>2, <3>2, <4>1
      <4>2. CASE m # 0
        <5>1. m \in 1..n /\ ~(j <= m)
          BY <3>1, <4>2
        <5> QED
          BY <2>1, <5>1
      <4> QED
        BY <4>1, <4>2
    <3> QED
      BY <3>1, <3>2, <3>3, <3>4
  <2>3. pos \in End(m)..End(m + 1)
    BY <2>2
  <2>4. IsParser(p) /\ p.buffer = <<>> /\ p.remainder = <<>> /\ Knows(m, p)
    BY <1>1, <2>2, UptoKnows
  <2> HIDE DEF T, m
  <2>5. /\ chunk \in Seq(Symbols) /\ SubSeq(stream.bytes, 1, End(m)) \in Seq(Symbols)
        /\ SubSeq(stream.bytes, 1, End(m)) \o chunk = SubSeq(stream.bytes, 1, pos)
        /\ IsParser(q) /\ q = With(p, r.buffer, r.remainder)
        /\ q.buffer = r.buffer /\ q.remainder = r.remainder
    <3> HIDE DEF p
    <3> QED
      BY <1>1, <2>2, <2>3, <2>4, PieceReads
  <2>6. /\ Cuts(r.buffer) = {}
        /\ Spells(LastBlock(r)) = IF pos >= piece.text THEN EventOf(piece) ELSE {}
    <3>1. From(stream, j) = End(m)
      BY <2>2 DEF End
    <3>2. pos \in From(stream, j)..(piece.to - 1)
      BY <1>2, <2>2, <3>1
    <3> QED
      BY <1>1, <1>2, <2>2, <3>2, PartOfPiece
  <2>7. AtOnce = q
    <3> DEFINE a == SubSeq(stream.bytes, 1, End(m))
    <3>1. a \in Seq(Symbols) /\ chunk \in Seq(Symbols) /\ a \o chunk = SubSeq(stream.bytes, 1, pos)
      BY <2>5
    <3>2. p = Feed(stream.protocol, NewParser, a)
      BY DEF Upto
    <3> HIDE DEF a, chunk, p
    <3>3. Feed(stream.protocol, p, chunk) = Feed(stream.protocol, NewParser, a \o chunk)
      BY <3>1, <3>2, NewParserIs, FeedTogether
    <3>4. Feed(stream.protocol, p, chunk) = FeedBlocks(stream.protocol, q)
      BY DEF Feed
    <3> HIDE DEF q, r
    <3>5. FeedBlocks(stream.protocol, q) = q
      BY <2>5, <2>6, NothingToFeed
    <3>6. AtOnce = Feed(stream.protocol, NewParser, a \o chunk)
      BY <3>1 DEF AtOnce
    <3> QED
      BY <3>3, <3>4, <3>5, <3>6
  <2> HIDE DEF p, q, r, chunk, piece
  <2>8. Knows(m, q)
    BY <2>4, <2>5, KnowsWith
  <2>9. LastBlock(q) = LastBlock(r)
    BY <2>5 DEF LastBlock
  <2>10. ASSUME NEW i \in 1..n, i # j
         PROVE  (\/ pos >= stream.pieces[i].to
                 \/ relay = "ended" /\ pos >= stream.pieces[i].text) <=> i <= m
    <3>1. CASE i <= m
      <4>1. i \in 0..n /\ m \in i..n
        BY <1>2, <2>2, <3>1
      <4>2. End(i) <= End(m) /\ End(i) = stream.pieces[i].to /\ End(i) \in Nat
        BY <1>2, <1>3, <4>1
      <4> QED
        BY <2>2, <3>1, <4>2
    <3>2. CASE ~(i <= m)
      <4>1. j \in 0..n /\ i - 1 \in j..n /\ i - 1 \in 0..n
        BY <1>2, <2>2, <2>10, <3>2
      <4>2. End(j) <= End(i - 1) /\ End(i - 1) \in Nat
        BY <1>3, <4>1
      <4>3. /\ End(i) = stream.pieces[i].to /\ End(i) \in Nat
            /\ stream.pieces[i].text \in End(i - 1)..End(i)
        BY <1>2
      <4>4. pos < stream.pieces[i].text /\ pos < stream.pieces[i].to
        BY <2>2, <4>2, <4>3
      <4>5. stream.pieces[i].text \in Int /\ stream.pieces[i].to \in Int
        BY <4>2, <4>3
      <4> QED
        BY <2>2, <3>2, <4>4, <4>5
    <3> QED
      BY <3>1, <3>2
  <2>11. /\ piece.to = End(j) /\ piece.text \in Int /\ ~(j <= m) /\ j <= j /\ j \in 0..n
         /\ \A i \in 1..n : i # j => (i <= m <=> i <= j)
    BY <1>2, <2>2 DEF piece
  <2>12. CASE relay = "ended" /\ pos >= piece.text
    <3>1. Knows(j, parser)
      <4> DEFINE w == With(q, <<>>, <<>>)
      <4>1. Finish(stream.protocol, q) = FeedBlock(stream.protocol, w, LastBlock(q))
        BY <2>5, FinishIs
      <4>2. w = With(w, w.buffer, w.remainder) /\ Knows(m, w)
        BY <2>5, <2>8, FinishIs, KnowsWith
      <4>3. Spells(LastBlock(q)) = EventOf(stream.pieces[m + 1])
        BY <2>2, <2>6, <2>9, <2>12 DEF piece
      <4>4. parser = FeedBlock(stream.protocol, w, LastBlock(q))
        BY <1>1, <2>7, <2>12, <4>1
      <4> HIDE DEF w
      <4>5. Knows(m + 1, FeedBlock(stream.protocol, w, LastBlock(q)))
        BY <1>1, <2>2, <4>2, <4>3, KnowsMore
      <4> QED
        BY <2>2, <4>4, <4>5
    <3>2. \A i \in 1..n :
            (\/ pos >= stream.pieces[i].to
             \/ relay = "ended" /\ pos >= stream.pieces[i].text) <=> i <= j
      BY <2>10, <2>11, <2>12 DEF piece
    <3>3. Reported = Told(j)
      BY <1>1, <2>11, <3>2, ReportedIs
    <3> QED
      BY <1>1, <2>2, <3>1, <3>3, KnowsIsCharged
  <2>13. CASE ~(relay = "ended" /\ pos >= piece.text)
    <3>1. Knows(m, parser)
      <4>1. CASE relay # "ended"
        BY <1>1, <2>7, <2>8, <4>1
      <4>2. CASE relay = "ended"
        <5>1. Spells(LastBlock(q)) = {}
          BY <2>6, <2>9, <2>13, <4>2
        <5>2. Knows(m, Finish(stream.protocol, q))
          BY <2>5, <2>8, <5>1, NothingLeft
        <5> QED
          BY <1>1, <2>7, <4>2, <5>2
      <4> QED
        BY <4>1, <4>2
    <3>2. \A i \in 1..n :
            (\/ pos >= stream.pieces[i].to
             \/ relay = "ended" /\ pos >= stream.pieces[i].text) <=> i <= m
      <4>1. ~(pos >= piece.to)
        BY <2>2, <2>11
      <4> QED
        BY <2>10, <2>11, <2>13, <4>1 DEF piece
    <3>3. Reported = Told(m)
      BY <1>1, <2>2, <3>2, ReportedIs
    <3> QED
      BY <1>1, <2>2, <3>1, <3>3, KnowsIsCharged
  <2> QED
    BY <2>12, <2>13
<1> QED
  BY <1>4, <1>5

(***************************************************************************)
(* For any events, answers in pieces and size of chunks: a stream is       *)
(* charged for what the events that came in whole report, the last report  *)
(* or Anthropic's greatest counts, wherever the network cuts the bytes and *)
(* wherever the answer breaks off (SseUsageParser::feed_block, finish and  *)
(* usage).                                                                 *)
(***************************************************************************)
THEOREM ReportedUsageAlwaysCharged == StreamSpec => []ReportedUsageIsCharged
BY StreamStarts, StreamGoesOn, ChargedAsReported, PTL DEF StreamSpec

-----------------------------------------------------------------------------
(* The split of what is collected.                                         *)

\* Amounts and rates are such that a split is exact.
SplitInv == collected \in Nat /\ ExactRates(marketBps, routerBps)

(***************************************************************************)
(* Whatever is collected, at whatever rates that cannot be rounded above   *)
(* the amount, every grain of it lands in one of the three accounts, and   *)
(* the commissions are the nearest to what the rates say, whatever bounds  *)
(* RateSteps and MaxAmount set (transfer_collected_usage_amount,           *)
(* plan.md:756).                                                           *)
(***************************************************************************)
THEOREM SplitsStayExact == Spec => []SplitIsExact
<1>1. Init => SplitInv
  <2> SUFFICES ASSUME Init PROVE SplitInv
    OBVIOUS
  <2>1. collected = 0
    BY DEF Init
  <2>2. CASE /\ marketBps \in RateSteps /\ routerBps \in RateSteps
             /\ marketBps + routerBps <= MaxTotalBps
    <3>1. /\ marketBps \in Nat /\ routerBps \in Nat /\ MaxTotalBps \in Nat
          /\ MaxTotalBps <= FullBps /\ (Grain = 1 \/ 2 * MaxTotalBps <= FullBps)
      BY <2>2, RateAssumption DEF FullBps
    <3> QED
      BY <2>1, <2>2, <3>1 DEF SplitInv, ExactRates, FullBps
  <2>3. CASE marketBps = 0 /\ routerBps = 0
    BY <2>1, <2>3 DEF SplitInv, ExactRates, FullBps
  <2> QED
    BY <2>2, <2>3 DEF Init
<1>2. SplitInv /\ [Next]_vars => SplitInv'
  <2> SUFFICES ASSUME SplitInv, [Next]_vars PROVE SplitInv'
    OBVIOUS
  <2>1. CASE NextAmount
    BY <2>1 DEF NextAmount, SplitInv, ExactRates
  <2>2. CASE UNCHANGED splitVars
    BY <2>2 DEF splitVars, SplitInv, ExactRates
  <2> QED
    BY <2>1, <2>2 DEF Next, vars, splitVars
<1>3. SplitInv => SplitIsExact
  BY SplitsAreExact DEF SplitInv, SplitIsExact
<1> QED
  BY <1>1, <1>2, <1>3, PTL DEF Spec
=============================================================================
