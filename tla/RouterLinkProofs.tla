-------------------------- MODULE RouterLinkProofs --------------------------
(* Proofs about what the market keeps because of the router: the marks of    *)
(* reported charges, for any charges and passes and any size of a batch, and *)
(* the file of a user's key secrets, for any keys and handlers.              *)
EXTENDS RequestLogs, Access, TLAPS

-----------------------------------------------------------------------------
(* The marks of reported charges: LogsInv is inductive                       *)

(* What the passes read and marked, seen together (the invariant without its *)
(* type conjunct).                                                           *)
LogsCore ==
    /\ ReservedIsUnreported
    /\ ReportsAreCurrent
    /\ AnswersWereReceived
    /\ StampsAreCurrent
    /\ MarkedWasReceived
    /\ FreshMeansTold

LEMMA LogsInvIs == LogsInv <=> LogsTypeOK /\ LogsCore
  BY DEF LogsInv, LogsCore

(* The market starts with nothing reported and no report under way.          *)
LEMMA LogsInitInv == LogsInit => LogsInv
  <1> SUFFICES ASSUME LogsInit PROVE LogsInv
    OBVIOUS
  <1>1. LogsTypeOK
    BY DEF LogsInit, LogsTypeOK, Statuses, LogStages, Nothing, Passes, Reportable
  <1>2. \A p \in Passes, c \in Charges : ~Holds(p, c)
    BY DEF LogsInit, Nothing, Holds
  <1>3. \A c \in Charges : synced[c] = "never"
    BY DEF LogsInit
  <1> QED
    BY <1>1, <1>2, <1>3
    DEF LogsInit, LogsInv, ReservedIsUnreported, ReportsAreCurrent, AnswersWereReceived, StampsAreCurrent,
        MarkedWasReceived, FreshMeansTold

LEMMA LogsTypeStep ==
    ASSUME LogsTypeOK, LogsNext
    PROVE LogsTypeOK'
  <1> USE DEF LogsTypeOK
  <1>1. ASSUME NEW c \in Charges, StartStream(c) PROVE LogsTypeOK'
    BY <1>1 DEF StartStream, Statuses, Reportable
  <1>2. ASSUME NEW c \in Charges, NEW s \in Reportable,
               SettleQuietly(c, s) \/ SettleAndTrigger(c, s)
        PROVE LogsTypeOK'
    <2>1. stage' \in [Passes -> LogStages]
      BY <1>2 DEF SettleQuietly, SettleAndTrigger, LogStages, Passes
    <2>2. Settle(c, s)
      BY <1>2 DEF SettleQuietly, SettleAndTrigger
    <2>3. status' \in [Charges -> Statuses]
      BY <2>2, <1>2 DEF Settle, Statuses, Reportable
    <2>4. synced' \in [Charges -> {"never", "stale", "fresh"}]
      BY <2>2 DEF Settle
    <2>5. later' \in [Passes -> SUBSET Charges] /\ overtaken' \in SUBSET Charges
      BY <2>2 DEF Settle
    <2> QED
      BY <2>1, <2>2, <2>3, <2>4, <2>5 DEF Settle
  <1>3. ASSUME NEW p \in Passes, Select(p) PROVE LogsTypeOK'
    <2>1. stage' \in [Passes -> LogStages]
      BY <1>3 DEF Select, LogStages
    <2>2. Selected \subseteq Charges /\ \A c \in Selected : status[c] \in Reportable
      BY DEF Selected, Newest, Eligible
    <2>3. snap' \in [Passes -> [Charges -> Reportable \union {"none"}]]
      BY <1>3, <2>2 DEF Select
    <2> QED
      BY <1>3, <2>1, <2>3 DEF Select
  <1>4. ASSUME NEW p \in Passes, RouterReceives(p) PROVE LogsTypeOK'
    <2>1. routerStatus' \in [Charges -> Reportable \union {"none"}]
      BY <1>4 DEF RouterReceives, Holds
    <2>2. stage' \in [Passes -> LogStages]
      BY <1>4 DEF RouterReceives, LogStages
    <2>3. snap' \in [Passes -> [Charges -> Reportable \union {"none"}]]
      BY <1>4 DEF RouterReceives, Nothing
    <2> QED
      BY <1>4, <2>1, <2>2, <2>3 DEF RouterReceives
  <1>5. ASSUME NEW p \in Passes, Answered(p) PROVE LogsTypeOK'
    BY <1>5 DEF Answered, LogStages
  <1>6. ASSUME NEW p \in Passes, Failed(p) PROVE LogsTypeOK'
    <2>1. snap' \in [Passes -> [Charges -> Reportable \union {"none"}]]
      BY <1>6 DEF Failed, Nothing
    <2>2. stage' \in [Passes -> LogStages]
      BY <1>6 DEF Failed, LogStages
    <2> QED
      BY <1>6, <2>1, <2>2 DEF Failed
  <1>7. ASSUME NEW p \in Passes, Vanish(p) PROVE LogsTypeOK'
    BY <1>7 DEF Vanish, LogStages, Nothing
  <1>8. ASSUME NEW p \in Passes, Done(p) PROVE LogsTypeOK'
    BY <1>8 DEF Done, LogStages
  <1>9. ASSUME NEW p \in Passes, NEW c \in Charges, Mark(p, c) PROVE LogsTypeOK'
    <2>1. snap' \in [Passes -> [Charges -> Reportable \union {"none"}]]
      BY <1>9 DEF Mark
    <2> QED
      BY <1>9, <2>1 DEF Mark
  <1>10. ASSUME LogsCrash PROVE LogsTypeOK'
    BY <1>10 DEF LogsCrash, LogStages, Nothing
  <1> QED
    BY <1>1, <1>2, <1>3, <1>4, <1>5, <1>6, <1>7, <1>8, <1>9, <1>10 DEF LogsNext, PassStep

-----------------------------------------------------------------------------
(* A settlement makes every report of the charge under way an old one: the   *)
(* charge is then overtaken, and what is stamped already leaves it stale.    *)
LEMMA SettleCore ==
    ASSUME LogsInv, NEW c \in Charges, NEW s \in Reportable,
           SettleQuietly(c, s) \/ SettleAndTrigger(c, s)
    PROVE LogsCore'
  <1> USE DEF LogsInv, LogsTypeOK
  <1>1. Settle(c, s)
    BY DEF SettleQuietly, SettleAndTrigger
  <1>2. \A p \in Passes : stage'[p] # "asked" => stage'[p] = stage[p]
    BY DEF SettleQuietly, SettleAndTrigger, Passes
  <1>3. \A p \in Passes, d \in Charges : Holds(p, d)' <=> Holds(p, d)
    BY <1>1 DEF Settle, Holds
  <1>4. \A d \in Charges \ {c} :
           status'[d] = status[d] /\ synced'[d] = synced[d] /\ (d \in overtaken' <=> d \in overtaken)
    BY <1>1 DEF Settle
  <1>5. \A p \in Passes, d \in Charges \ {c} : d \in later'[p] <=> d \in later[p]
    BY <1>1 DEF Settle
  <1>6. synced'[c] # "fresh" /\ (synced'[c] = "never" <=> synced[c] = "never")
    BY <1>1 DEF Settle
  <1>7. \A p \in Passes : UnderWay(p) /\ Holds(p, c) => c \in overtaken'
    BY <1>1 DEF Settle
  <1>8. \A p \in Passes : stage[p] = "marking" /\ Holds(p, c) => c \in later'[p]
    BY <1>1 DEF Settle
  <1>9. routerStatus' = routerStatus /\ snap' = snap
    BY <1>1 DEF Settle
  <1>10. \A p \in Passes : stage'[p] \in {"received", "marking"} => stage'[p] = stage[p]
    BY <1>2
  <1>11. \A p \in Passes : UnderWay(p)' => UnderWay(p)
    BY <1>2 DEF UnderWay
  <1>0. ReservedIsUnreported'
    BY <1>1, <1>3, <1>4 DEF ReservedIsUnreported, Settle, Reportable
  <1>12. ReportsAreCurrent'
    BY <1>3, <1>4, <1>7, <1>9, <1>11 DEF ReportsAreCurrent
  <1>13. AnswersWereReceived'
    BY <1>3, <1>9, <1>10 DEF AnswersWereReceived
  <1>14. StampsAreCurrent'
    <2> SUFFICES ASSUME NEW p \in Passes, NEW d \in Charges,
                        \/ stage'[p] = "received"
                        \/ stage'[p] = "marking" /\ d \notin later'[p],
                        Holds(p, d)', d \notin overtaken'
                 PROVE routerStatus'[d] = status'[d]
      BY DEF StampsAreCurrent
    <2>1. stage[p] = stage'[p] /\ Holds(p, d)
      BY <1>3, <1>10
    <2>2. CASE d = c
      BY <2>1, <2>2, <1>7, <1>8 DEF UnderWay
    <2>3. CASE d # c
      BY <2>1, <2>3, <1>4, <1>5, <1>9 DEF StampsAreCurrent
    <2> QED
      BY <2>2, <2>3
  <1>15. MarkedWasReceived'
    BY <1>4, <1>6, <1>9 DEF MarkedWasReceived
  <1>16. FreshMeansTold'
    BY <1>4, <1>6, <1>9 DEF FreshMeansTold
  <1> QED
    BY <1>0, <1>12, <1>13, <1>14, <1>15, <1>16 DEF LogsCore

(* A pass reads what the charges are now.                                    *)
LEMMA SelectCore ==
    ASSUME LogsInv, NEW p \in Passes, Select(p)
    PROVE LogsCore'
  <1> USE DEF LogsInv, LogsTypeOK
  <1>1. \A q \in Passes \ {p} : stage'[q] = stage[q] /\ snap'[q] = snap[q]
    BY DEF Select
  <1>2. stage'[p] \in {"idle", "posting"}
    BY DEF Select
  <1>3. \A c \in Charges : stage'[p] = "posting" /\ snap'[p][c] # "none" => snap'[p][c] = status[c]
    BY DEF Select
  <1>4. UNCHANGED <<status, synced, routerStatus, later, overtaken>>
    BY DEF Select
  <1>8. stage'[p] # "posting" => snap' = snap
    BY DEF Select
  <1>9. \A c \in Charges : snap'[p][c] # "none" /\ stage'[p] = "posting" => status[c] # "reserved"
    <2>1. \A c \in Selected : status[c] \in Reportable
      BY DEF Selected, Newest, Eligible
    <2>2. \A c \in Charges : snap'[p][c] # "none" /\ stage'[p] = "posting" => c \in Selected
      BY DEF Select
    <2> QED
      BY <2>1, <2>2 DEF Reportable
  <1>10. ReservedIsUnreported'
    BY <1>1, <1>4, <1>8, <1>9 DEF ReservedIsUnreported, Holds
  <1>5. ReportsAreCurrent'
    BY <1>1, <1>2, <1>3, <1>4 DEF ReportsAreCurrent, UnderWay, Holds
  <1>6. AnswersWereReceived'
    BY <1>1, <1>2, <1>4 DEF AnswersWereReceived, Holds
  <1>11. StampsAreCurrent'
    <2> SUFFICES ASSUME NEW q \in Passes, NEW c \in Charges,
                        \/ stage'[q] = "received"
                        \/ stage'[q] = "marking" /\ c \notin later[q],
                        snap'[q][c] # "none", c \notin overtaken
                 PROVE routerStatus[c] = status[c]
      BY <1>4 DEF StampsAreCurrent, Holds
    <2>1. q # p
      BY <1>2
    <2> QED
      BY <1>1, <2>1 DEF StampsAreCurrent, Holds
  <1>7. MarkedWasReceived' /\ FreshMeansTold'
    BY <1>4 DEF MarkedWasReceived, FreshMeansTold
  <1> QED
    BY <1>5, <1>6, <1>7, <1>10, <1>11 DEF LogsCore

(* A batch that arrives tells the router what its charges were when it was   *)
(* read, and are still, unless they were overtaken.                          *)
LEMMA ReceiveCore ==
    ASSUME LogsInv, NEW p \in Passes, RouterReceives(p)
    PROVE LogsCore'
  <1> USE DEF LogsInv, LogsTypeOK
  <1>1. \A q \in Passes \ {p} : stage'[q] = stage[q] /\ snap'[q] = snap[q]
    BY DEF RouterReceives
  <1>2. /\ stage'[p] \in {"received", "idle"}
        /\ stage'[p] = "received" => snap'[p] = snap[p]
    BY DEF RouterReceives
  <1>3. UNCHANGED <<status, synced, later, overtaken>>
    BY DEF RouterReceives
  <1>4. \A c \in Charges : routerStatus'[c] = IF Holds(p, c) THEN snap[p][c] ELSE routerStatus[c]
    BY DEF RouterReceives
  <1>5. \A c \in Charges : Holds(p, c) => snap[p][c] # "none"
    BY DEF Holds
  <1>6. \A c \in Charges : routerStatus[c] # "none" => routerStatus'[c] # "none"
    BY <1>4, <1>5
  <1>7. \A c \in Charges : Holds(p, c) /\ c \notin overtaken => snap[p][c] = status[c]
    BY DEF ReportsAreCurrent, UnderWay, RouterReceives
  <1>8. \A c \in Charges : c \notin overtaken /\ routerStatus[c] = status[c] => routerStatus'[c] = status[c]
    BY <1>4, <1>7
  <1>13. ReservedIsUnreported'
    BY <1>1, <1>3 DEF ReservedIsUnreported, Holds, RouterReceives, Nothing
  <1>9. ReportsAreCurrent'
    BY <1>1, <1>2, <1>3, <1>7 DEF ReportsAreCurrent, UnderWay, Holds
  <1>10. AnswersWereReceived'
    BY <1>1, <1>2, <1>4, <1>5, <1>6 DEF AnswersWereReceived, Holds
  <1>11. StampsAreCurrent'
    <2> SUFFICES ASSUME NEW q \in Passes, NEW c \in Charges,
                        \/ stage'[q] = "received"
                        \/ stage'[q] = "marking" /\ c \notin later[q],
                        Holds(q, c)', c \notin overtaken
                 PROVE routerStatus'[c] = status[c]
      BY <1>3 DEF StampsAreCurrent
    <2>1. CASE q = p
      BY <2>1, <1>2, <1>4, <1>7 DEF Holds
    <2>2. CASE q # p
      BY <2>2, <1>1, <1>8 DEF StampsAreCurrent, Holds
    <2> QED
      BY <2>1, <2>2
  <1>12. MarkedWasReceived' /\ FreshMeansTold'
    BY <1>3, <1>6, <1>8 DEF MarkedWasReceived, FreshMeansTold
  <1> QED
    BY <1>9, <1>10, <1>11, <1>12, <1>13 DEF LogsCore

(* An answer, a failure, a lost request, a finished pass and a crash only    *)
(* bring passes nearer to their end.                                         *)
LEMMA QuietCore ==
    ASSUME LogsInv,
           LogsCrash \/ \E p \in Passes : Answered(p) \/ Failed(p) \/ Vanish(p) \/ Done(p)
    PROVE LogsCore'
  <1> USE DEF LogsInv, LogsTypeOK
  <1>1. UNCHANGED <<status, synced, routerStatus, overtaken>>
    BY DEF LogsCrash, Answered, Failed, Vanish, Done
  <1>2. \A q \in Passes : \A c \in Charges : snap'[q][c] # "none" => snap'[q][c] = snap[q][c]
    <2>1. \A c \in Charges : Nothing[c] = "none"
      BY DEF Nothing
    <2>2. \A q \in Passes : snap'[q] \in {snap[q], Nothing}
      BY DEF LogsCrash, Answered, Failed, Vanish, Done
    <2> QED
      BY <2>1, <2>2
  <1>3. \A q \in Passes : stage'[q] \in {"received", "posting"} => stage[q] = stage'[q]
    BY DEF LogsCrash, Answered, Failed, Vanish, Done
  <1>4. \A q \in Passes : stage'[q] = "orphan" => stage[q] \in {"posting", "orphan"}
    BY DEF LogsCrash, Answered, Failed, Vanish, Done
  <1>5. \A q \in Passes : stage'[q] = "marking" =>
            \/ stage[q] = "marking" /\ later'[q] = later[q]
            \/ stage[q] = "received" /\ later'[q] = {}
    BY DEF LogsCrash, Answered, Failed, Vanish, Done
  <1>11. ReservedIsUnreported'
    BY <1>1, <1>2 DEF ReservedIsUnreported, Holds
  <1>7. ReportsAreCurrent'
    BY <1>1, <1>2, <1>3, <1>4 DEF ReportsAreCurrent, UnderWay, Holds
  <1>8. AnswersWereReceived'
    BY <1>1, <1>2, <1>3, <1>5 DEF AnswersWereReceived, Holds
  <1>9. StampsAreCurrent'
    <2> SUFFICES ASSUME NEW q \in Passes, NEW c \in Charges,
                        \/ stage'[q] = "received"
                        \/ stage'[q] = "marking" /\ c \notin later'[q],
                        snap'[q][c] # "none",
                        c \notin overtaken
                 PROVE routerStatus[c] = status[c]
      BY <1>1 DEF StampsAreCurrent, Holds
    <2>1. snap[q][c] # "none"
      BY <1>2
    <2>2. stage[q] = "received" \/ (stage[q] = "marking" /\ c \notin later[q])
      BY <1>3, <1>5
    <2> QED
      BY <2>1, <2>2 DEF StampsAreCurrent, Holds
  <1>10. MarkedWasReceived' /\ FreshMeansTold'
    BY <1>1 DEF MarkedWasReceived, FreshMeansTold
  <1> QED
    BY <1>7, <1>8, <1>9, <1>10, <1>11 DEF LogsCore

LEMMA MarkCore ==
    ASSUME LogsInv, NEW p \in Passes, NEW c \in Charges, Mark(p, c)
    PROVE LogsCore'
  <1> USE DEF LogsInv, LogsTypeOK
  <1>1. UNCHANGED <<status, routerStatus, stage, later, overtaken>>
    BY DEF Mark
  <1>2. \A q \in Passes : \A d \in Charges : snap'[q][d] # "none" => snap'[q][d] = snap[q][d]
    BY DEF Mark
  <1>3. \A d \in Charges \ {c} : synced'[d] = synced[d]
    BY DEF Mark
  <1>4. synced'[c] = IF c \in later[p] THEN "stale" ELSE "fresh"
    BY DEF Mark
  <1>5. routerStatus[c] # "none"
    BY DEF Mark, AnswersWereReceived
  <1>6. synced'[c] = "fresh" /\ c \notin overtaken => routerStatus[c] = status[c]
    BY <1>4 DEF Mark, StampsAreCurrent
  <1>9. ReservedIsUnreported'
    BY <1>1, <1>2, <1>3 DEF ReservedIsUnreported, Holds, Mark
  <1>7. ReportsAreCurrent' /\ AnswersWereReceived' /\ StampsAreCurrent'
    BY <1>1, <1>2 DEF ReportsAreCurrent, AnswersWereReceived, StampsAreCurrent, UnderWay, Holds
  <1>8. MarkedWasReceived' /\ FreshMeansTold'
    BY <1>1, <1>3, <1>5, <1>6 DEF MarkedWasReceived, FreshMeansTold
  <1> QED
    BY <1>7, <1>8, <1>9 DEF LogsCore

(* A charge starts to stream before anybody reports it.                      *)
LEMMA StreamCore ==
    ASSUME LogsInv, NEW c \in Charges, StartStream(c)
    PROVE LogsCore'
  <1> USE DEF LogsInv, LogsTypeOK
  <1>1. UNCHANGED <<synced, routerStatus, stage, snap, later, overtaken>>
    BY DEF StartStream
  <1>2. \A d \in Charges \ {c} : status'[d] = status[d]
    BY DEF StartStream
  <1>3. synced[c] = "never" /\ \A p \in Passes : ~Holds(p, c)
    BY DEF StartStream, ReservedIsUnreported
  <1>4. status'[c] = "streaming"
    BY DEF StartStream
  <1>5. ReservedIsUnreported'
    BY <1>1, <1>2, <1>4 DEF ReservedIsUnreported, Holds
  <1>6. ReportsAreCurrent' /\ AnswersWereReceived' /\ StampsAreCurrent'
    BY <1>1, <1>2, <1>3 DEF ReportsAreCurrent, AnswersWereReceived, StampsAreCurrent, UnderWay, Holds
  <1>7. MarkedWasReceived' /\ FreshMeansTold'
    BY <1>1, <1>2, <1>3 DEF MarkedWasReceived, FreshMeansTold
  <1> QED
    BY <1>5, <1>6, <1>7 DEF LogsCore

(* The marks of reported charges can be trusted: for any number of charges   *)
(* and passes, through lost, refused and late reports and crashes, a charge  *)
(* that no pass will report again has its present status at the router,      *)
(* unless it was settled last while a report of it was under way.            *)
THEOREM LogsKeepInv == LogsSpec => []LogsInv
  <1>1. ASSUME LogsInv, [LogsNext]_logVars PROVE LogsInv'
    <2>1. CASE UNCHANGED logVars
      BY <1>1, <2>1 DEF logVars, LogsInv, LogsTypeOK, ReservedIsUnreported, ReportsAreCurrent,
         AnswersWereReceived, StampsAreCurrent, MarkedWasReceived, FreshMeansTold, UnderWay, Holds
    <2>2. CASE LogsNext
      <3>1. LogsTypeOK'
        BY <1>1, <2>2, LogsTypeStep DEF LogsInv
      <3>2. ASSUME NEW c \in Charges, StartStream(c) PROVE LogsCore'
        BY <1>1, <3>2, StreamCore
      <3>3. ASSUME NEW c \in Charges, NEW s \in Reportable,
                   SettleQuietly(c, s) \/ SettleAndTrigger(c, s)
            PROVE LogsCore'
        BY <1>1, <3>3, SettleCore
      <3>4. ASSUME NEW p \in Passes, PassStep(p) PROVE LogsCore'
        BY <1>1, <3>4, SelectCore, ReceiveCore, QuietCore, MarkCore DEF PassStep
      <3>5. ASSUME LogsCrash PROVE LogsCore'
        BY <1>1, <3>5, QuietCore
      <3>6. LogsCore'
        BY <2>2, <3>2, <3>3, <3>4, <3>5 DEF LogsNext
      <3> QED
        BY <3>1, <3>6 DEF LogsInv, LogsCore
    <2> QED
      BY <1>1, <2>1, <2>2
  <1>2. LogsInit => LogsInv
    BY LogsInitInv
  <1> QED
    BY <1>1, <1>2, PTL DEF LogsSpec

-----------------------------------------------------------------------------
(* The keys of a user and the file of their secrets *)

KeyStages == {"idle", "adding", "truncateToAdd", "fillToAdd", "removing",
              "truncateToRemove", "fillToRemove", "clearing", "allowing"}

Alive == {k \in Keys : keyRow[k] \in {"active", "paused"}}
Made == {k \in Keys : keyRow[k] # "none"}

\* No secret is of a key that was never made: not in the file, and not in what
\* a handler has read or will write.
SecretsAreOfMadeKeys ==
    /\ keyRow \in [Keys -> {"none", "active", "paused", "deleted"}]
    /\ op \in [Handlers -> KeyStages]
    /\ opKey \in [Handlers -> Keys \union {NoId}]
    /\ readFile \in [Handlers -> SUBSET Made]
    /\ secretFile \subseteq Made
    /\ \A h \in Handlers : op[h] # "idle" => opKey[h] \in Made

Adding == {"adding", "truncateToAdd", "fillToAdd"}
Removing == {"removing", "truncateToRemove", "fillToRemove"}
Torn == {"fillToAdd", "fillToRemove"}

\* How far the file and the allowlist are from the rows, by the stage of the
\* only handler under way.
FileAgrees(h) ==
    LET k == opKey[h] IN
    /\ op[h] # "idle" => (torn <=> op[h] \in Torn)
    /\ op[h] \in Adding \union {"allowing"} => k \in Alive /\ allowlist \subseteq Alive
    /\ op[h] \in Removing \union {"clearing"} =>
           k \notin Alive /\ allowlist \subseteq Alive \union {k}
    /\ op[h] \in Adding \ Torn => secretFile = Alive \ {k}
    /\ op[h] \in Removing \ Torn => secretFile = Alive \union {k}
    /\ op[h] \in {"clearing", "allowing"} => secretFile = Alive
    /\ op[h] \in Adding \ {"adding"} => readFile[h] = Alive \ {k}
    /\ op[h] \in Removing \ {"removing"} => readFile[h] = Alive \union {k}

AllIdle == \A h \in Handlers : op[h] = "idle"

\* Until handlers overlap or one is cut off, at most one is under way, and the
\* file is as far from the rows as its stage says.
UndisturbedAgrees ==
    ~disturbed =>
        /\ \A g, h \in Handlers : op[g] # "idle" /\ op[h] # "idle" => g = h
        /\ AllIdle => ~torn /\ secretFile = Alive /\ allowlist \subseteq Alive
        /\ \A h \in Handlers : FileAgrees(h)

KeysInv == SecretsAreOfMadeKeys /\ UndisturbedAgrees

LEMMA KeysStart == KeysInit => KeysInv
BY DEF KeysInit, KeysInv, SecretsAreOfMadeKeys, UndisturbedAgrees, AllIdle, FileAgrees,
       KeyStages, Alive, Made, NoId, Adding, Removing, Torn

LEMMA MadeStay ==
  ASSUME SecretsAreOfMadeKeys, [KeysNext]_keyVars
  PROVE  SecretsAreOfMadeKeys'
<1> USE DEF SecretsAreOfMadeKeys, KeyStages
<1>1. ASSUME NEW k \in Keys, SetKeyStatus(k) PROVE SecretsAreOfMadeKeys'
  <2>1. /\ keyRow' \in [Keys -> {"none", "active", "paused", "deleted"}]
        /\ Made' = Made
    BY <1>1 DEF SetKeyStatus, Made
  <2> QED BY <1>1, <2>1 DEF SetKeyStatus
<1>2. ASSUME NEW h \in Handlers, NEW k \in Keys,
             CreateKey(h, k) \/ DeleteKey(h, k) \/ CheckOwner(h, k)
      PROVE  SecretsAreOfMadeKeys'
  <2>1. /\ keyRow' \in [Keys -> {"none", "active", "paused", "deleted"}]
        /\ Made \subseteq Made' /\ k \in Made'
    BY <1>2 DEF CreateKey, DeleteKey, CheckOwner, Made
  <2>2. /\ op' \in [Handlers -> KeyStages]
        /\ opKey' = [opKey EXCEPT ![h] = k]
        /\ \A g \in Handlers \ {h} : op'[g] = op[g]
        /\ UNCHANGED <<readFile, secretFile>>
    BY <1>2 DEF CreateKey, DeleteKey, CheckOwner, Start
  <2>3. opKey' \in [Handlers -> Keys \union {NoId}]
    BY <2>2
  <2>4. readFile' \in [Handlers -> SUBSET Made']
    BY <2>1, <2>2
  <2>5. \A g \in Handlers : op'[g] # "idle" => opKey'[g] \in Made'
    BY <2>1, <2>2
  <2> QED BY <2>1, <2>2, <2>3, <2>4, <2>5
<1>3. ASSUME keyRow' = keyRow PROVE Made' = Made
  BY <1>3 DEF Made
<1>4. ASSUME NEW h \in Handlers,
             \/ ReadSecrets(h) \/ TruncateSecrets(h) \/ ClearAllowlist(h)
             \/ PutAllowlist(h) \/ CutOff(h)
      PROVE  SecretsAreOfMadeKeys'
  BY <1>3, <1>4
     DEF ReadSecrets, TruncateSecrets, ClearAllowlist, PutAllowlist, CutOff
<1>5. ASSUME NEW h \in Handlers, FillSecrets(h) PROVE SecretsAreOfMadeKeys'
  <2>1. Written(h) \subseteq Made
    BY <1>5 DEF FillSecrets, Written
  <2> QED BY <1>3, <1>5, <2>1 DEF FillSecrets
<1>6. CASE UNCHANGED keyVars
  BY <1>3, <1>6 DEF keyVars
<1> QED BY <1>1, <1>2, <1>4, <1>5, <1>6 DEF KeysNext

LEMMA AgreementStays ==
  ASSUME SecretsAreOfMadeKeys, SecretsAreOfMadeKeys', UndisturbedAgrees, [KeysNext]_keyVars
  PROVE  UndisturbedAgrees'
<1> USE DEF Adding, Removing, Torn
<1>0. SUFFICES ASSUME ~disturbed' PROVE UndisturbedAgrees'
  BY DEF UndisturbedAgrees
<1>1. ~disturbed
  BY <1>0 DEF KeysNext, SetKeyStatus, CreateKey, DeleteKey, CheckOwner, Start, ReadSecrets,
              TruncateSecrets, FillSecrets, ClearAllowlist, PutAllowlist, CutOff, keyVars
<1>2. /\ \A g, h \in Handlers : op[g] # "idle" /\ op[h] # "idle" => g = h
      /\ AllIdle => ~torn /\ secretFile = Alive /\ allowlist \subseteq Alive
      /\ \A h \in Handlers : FileAgrees(h)
  BY <1>1 DEF UndisturbedAgrees
<1>3. ASSUME keyRow' = keyRow PROVE Alive' = Alive
  BY <1>3 DEF Alive
<1>4. ASSUME NEW k \in Keys, SetKeyStatus(k) PROVE UndisturbedAgrees'
  <2>1. Alive' = Alive
    BY <1>4 DEF SetKeyStatus, Alive, SecretsAreOfMadeKeys
  <2> QED BY <1>4, <2>1 DEF SetKeyStatus, UndisturbedAgrees, AllIdle, FileAgrees
<1>5. ASSUME NEW h \in Handlers, NEW k \in Keys,
             CreateKey(h, k) \/ DeleteKey(h, k) \/ CheckOwner(h, k)
      PROVE  UndisturbedAgrees'
  <2>1. /\ AllIdle
        /\ opKey'[h] = k
        /\ \A g \in Handlers \ {h} : op'[g] = "idle"
        /\ UNCHANGED <<allowlist, readFile, secretFile, torn>>
    BY <1>0, <1>5 DEF CreateKey, DeleteKey, CheckOwner, Start, AllIdle, SecretsAreOfMadeKeys
  <2>2. ~torn /\ secretFile = Alive /\ allowlist \subseteq Alive
    BY <1>2, <2>1
  <2>3. CASE CreateKey(h, k)
    <3>1. op'[h] = "adding"
      BY <2>3 DEF CreateKey, Start, SecretsAreOfMadeKeys
    <3>2. k \in Alive' /\ Alive' \ {k} = Alive /\ Alive \subseteq Alive'
      BY <2>3 DEF CreateKey, Alive, SecretsAreOfMadeKeys
    <3>3. FileAgrees(h)'
      BY <2>1, <2>2, <3>1, <3>2 DEF FileAgrees
    <3> QED BY <2>1, <3>1, <3>3
       DEF UndisturbedAgrees, FileAgrees, AllIdle
  <2>4. CASE DeleteKey(h, k)
    <3>1. op'[h] = "removing"
      BY <2>4 DEF DeleteKey, Start, SecretsAreOfMadeKeys
    <3>2. k \notin Alive' /\ Alive' \union {k} = Alive
      BY <2>4 DEF DeleteKey, Alive, SecretsAreOfMadeKeys
    <3>3. FileAgrees(h)'
      BY <2>1, <2>2, <3>1, <3>2 DEF FileAgrees
    <3> QED BY <2>1, <3>1, <3>3
       DEF UndisturbedAgrees, FileAgrees, AllIdle
  <2>5. CASE CheckOwner(h, k)
    <3>1. op'[h] = "allowing"
      BY <2>5 DEF CheckOwner, Start, SecretsAreOfMadeKeys
    <3>2. k \in Alive' /\ Alive' = Alive
      BY <2>5 DEF CheckOwner, Alive
    <3>3. FileAgrees(h)'
      BY <2>1, <2>2, <3>1, <3>2 DEF FileAgrees
    <3> QED BY <2>1, <3>1, <3>3
       DEF UndisturbedAgrees, FileAgrees, AllIdle
  <2> QED BY <1>5, <2>3, <2>4, <2>5
<1>6. ASSUME NEW h \in Handlers,
             \/ ReadSecrets(h) \/ TruncateSecrets(h) \/ FillSecrets(h)
             \/ ClearAllowlist(h) \/ PutAllowlist(h)
      PROVE  UndisturbedAgrees'
  <2>1. /\ op[h] # "idle"
        /\ \A g \in Handlers \ {h} : op'[g] = op[g]
        /\ Alive' = Alive
    BY <1>3, <1>6 DEF ReadSecrets, TruncateSecrets, FillSecrets, ClearAllowlist, PutAllowlist,
                      SecretsAreOfMadeKeys
  <2>2. \A g \in Handlers \ {h} : op'[g] = "idle"
    BY <1>2, <2>1
  <2>3. FileAgrees(h)
    BY <1>2
  <2>4. /\ FileAgrees(h)'
        /\ op'[h] = "idle" => ~torn' /\ secretFile' = Alive' /\ allowlist' \subseteq Alive'
    <3>1. CASE ReadSecrets(h)
      BY <2>1, <2>3, <3>1 DEF ReadSecrets, FileAgrees, SecretsAreOfMadeKeys
    <3>2. CASE TruncateSecrets(h)
      BY <2>1, <2>3, <3>2 DEF TruncateSecrets, FileAgrees, SecretsAreOfMadeKeys
    <3>3. CASE FillSecrets(h)
      <4>1. torn /\ ~torn'
        <5>1. torn
          BY <2>3, <3>3 DEF FillSecrets, FileAgrees
        <5> QED BY <3>3, <5>1, Zenon DEF FillSecrets
      <4>2. CASE op[h] = "fillToAdd"
        <5>1. op'[h] = "idle" /\ secretFile' = readFile[h] \union {opKey[h]}
              /\ allowlist' = allowlist
          BY <3>3, <4>2 DEF FillSecrets, Written, SecretsAreOfMadeKeys
        <5> QED BY <2>1, <2>3, <4>1, <4>2, <5>1 DEF FileAgrees
      <4>3. CASE op[h] = "fillToRemove"
        <5>1. op'[h] = "clearing" /\ secretFile' = readFile[h] \ {opKey[h]}
              /\ allowlist' = allowlist /\ opKey'[h] = opKey[h]
          BY <3>3, <4>3 DEF FillSecrets, Written, SecretsAreOfMadeKeys
        <5> QED BY <2>1, <2>3, <4>1, <4>3, <5>1 DEF FileAgrees
      <4> QED BY <3>3, <4>2, <4>3 DEF FillSecrets
    <3>4. CASE ClearAllowlist(h)
      BY <2>1, <2>3, <3>4 DEF ClearAllowlist, FileAgrees, SecretsAreOfMadeKeys
    <3>5. CASE PutAllowlist(h)
      BY <2>1, <2>3, <3>5 DEF PutAllowlist, FileAgrees, SecretsAreOfMadeKeys
    <3> QED BY <1>6, <3>1, <3>2, <3>3, <3>4, <3>5
  <2> QED BY <2>2, <2>4 DEF UndisturbedAgrees, FileAgrees, AllIdle
<1>7. ASSUME NEW h \in Handlers, CutOff(h) PROVE UndisturbedAgrees'
  BY <1>0, <1>7 DEF CutOff
<1>8. CASE UNCHANGED keyVars
  BY <1>8 DEF keyVars, UndisturbedAgrees, AllIdle, FileAgrees, Alive
<1> QED BY <1>4, <1>5, <1>6, <1>7, <1>8 DEF KeysNext

(* For any keys and handlers: no secret is shown of a key that was never     *)
(* made, and unless handlers overlapped or one was cut off, the file holds   *)
(* the secrets of the keys not deleted and no deleted key has an allowlist   *)
(* (create_api_key, delete_api_key, set_api_key_share_allowlist_endpoint).   *)
THEOREM SecretsStayWithTheirKeys == KeysSpec => []SecretsAgreeWithKeys
<1>1. KeysInit => KeysInv
  BY KeysStart
<1>2. KeysInv /\ [KeysNext]_keyVars => KeysInv'
  BY MadeStay, AgreementStays DEF KeysInv
<1>3. KeysInv => SecretsAgreeWithKeys
  BY DEF KeysInv, SecretsAreOfMadeKeys, UndisturbedAgrees, AllIdle, SecretsAgreeWithKeys,
         Alive, Made
<1> QED BY <1>1, <1>2, <1>3, PTL DEF KeysSpec
=============================================================================
