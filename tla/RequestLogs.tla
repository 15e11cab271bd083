---------------------------- MODULE RequestLogs ----------------------------
(* The reports of charges that the market sends to its router             *)
(* (src/router_request_logs.rs).  A pass selects the charges whose status  *)
(* the router does not have yet, posts them, and after a good answer marks *)
(* them one by one with the time of the answer.  A timer runs passes one   *)
(* after the other; every settlement through the proxy spawns one more.    *)
(* The columns last_synced_at and settled_at are modelled by how they      *)
(* compare, all that the selection asks.                                   *)
EXTENDS FiniteSets, Integers

CONSTANTS
    Charges,      \* rows of request_charges; a greater one was created later
    Timer,        \* the pass that spawn_sync runs again and again
    Triggered,    \* the passes that settlements spawn, at most so many at a time
    BatchLimit    \* SYNC_LIMIT

ASSUME LogsAssumption ==
    /\ Charges \subseteq Nat
    /\ Timer \notin Triggered
    /\ BatchLimit \in Nat \ {0}

VARIABLES
    status,       \* status of each charge
    synced,       \* "never", or whether the mark is older than the status
    routerStatus, \* the status the router was told last, "none" before
    stage,        \* where each pass is
    snap,         \* the statuses it read, "none" for the rows it did not select
    later,        \* the charges settled since it took the time of its answer
    overtaken     \* charges settled last while a report of them was under way

logVars == <<status, synced, routerStatus, stage, snap, later, overtaken>>

Passes == {Timer} \union Triggered
(* "ended" stands for settled and failed_released, which are reported alike. *)
Reportable == {"ended", "needs_review", "streaming"}

Nothing == [c \in Charges |-> "none"]

LogsInit ==
    /\ status = [c \in Charges |-> "reserved"]
    /\ synced = [c \in Charges |-> "never"]
    /\ routerStatus = Nothing
    /\ stage = [p \in Passes |-> "idle"]
    /\ snap = [p \in Passes |-> Nothing]
    /\ later = [p \in Passes |-> {}]
    /\ overtaken = {}

(* A report is under way from the SELECT until its answer is stamped; a    *)
(* pass that gave up leaves its request on the network ("orphan").         *)
UnderWay(p) == stage[p] \in {"posting", "received", "orphan"}
Holds(p, c) == snap[p][c] # "none"

-----------------------------------------------------------------------------
(* The life of a charge, as far as this module sees it: settled_at is      *)
(* written with every status but "streaming".                              *)
StartStream(c) ==
    /\ status[c] = "reserved"
    /\ status' = [status EXCEPT ![c] = "streaming"]
    /\ UNCHANGED <<synced, routerStatus, stage, snap, later, overtaken>>

Settle(c, s) ==
    /\ \/ status[c] \in {"reserved", "streaming"} /\ s \in {"ended", "needs_review"}
       \/ status[c] = "needs_review" /\ s = "ended"
    /\ status' = [status EXCEPT ![c] = s]
    /\ synced' = [synced EXCEPT ![c] = IF @ = "fresh" THEN "stale" ELSE @]
    /\ later' = [p \in Passes |-> IF stage[p] = "marking" /\ Holds(p, c)
                                   THEN later[p] \union {c} ELSE later[p]]
    /\ overtaken' = IF \E p \in Passes : UnderWay(p) /\ Holds(p, c)
                      THEN overtaken \union {c} ELSE overtaken \ {c}
    /\ UNCHANGED <<routerStatus, snap>>

SettleQuietly(c, s) == Settle(c, s) /\ UNCHANGED stage

SettleAndTrigger(c, s) ==
    /\ Settle(c, s)
    /\ \E p \in Triggered :
         /\ stage[p] = "idle"
         /\ stage' = [stage EXCEPT ![p] = "asked"]

-----------------------------------------------------------------------------
(* What a pass selects: reportable charges never marked, or settled since  *)
(* they were, the newest BatchLimit of them.                               *)
Eligible == {c \in Charges : status[c] \in Reportable /\ synced[c] # "fresh"}
Newest_FirstSyncOnly(S) ==
    {c \in S : synced[c] = "never"
        /\ Cardinality({d \in S : d > c}) < BatchLimit}

Newest(S) == {c \in S : Cardinality({d \in S : d > c}) < BatchLimit}
Selected == Newest(Eligible)

Select(p) ==
    /\ \/ p = Timer /\ stage[p] = "idle"
       \/ stage[p] = "asked"
    /\ IF Eligible = {}
         THEN /\ stage[p] = "asked"
              /\ stage' = [stage EXCEPT ![p] = "idle"]
              /\ UNCHANGED snap
         ELSE /\ stage' = [stage EXCEPT ![p] = "posting"]
              /\ snap' = [snap EXCEPT ![p] =
                     [c \in Charges |-> IF c \in Selected THEN status[c] ELSE "none"]]
    /\ UNCHANGED <<status, synced, routerStatus, later, overtaken>>

(* The router takes the batch, also one whose sender no longer waits.      *)
RouterReceives(p) ==
    /\ stage[p] \in {"posting", "orphan"}
    /\ routerStatus' = [c \in Charges |-> IF Holds(p, c) THEN snap[p][c] ELSE routerStatus[c]]
    /\ stage' = [stage EXCEPT ![p] = IF @ = "posting" THEN "received" ELSE "idle"]
    /\ snap' = [snap EXCEPT ![p] = IF stage[p] = "posting" THEN @ ELSE Nothing]
    /\ UNCHANGED <<status, synced, later, overtaken>>

(* The router's success arrives: mark_sync_success takes the time once.    *)
Answered(p) ==
    /\ stage[p] = "received"
    /\ stage' = [stage EXCEPT ![p] = "marking"]
    /\ later' = [later EXCEPT ![p] = {}]
    /\ UNCHANGED <<status, synced, routerStatus, snap, overtaken>>
Failed_MarksAnyway(p) ==
    /\ stage[p] \in {"posting", "received"}
    /\ stage' = [stage EXCEPT ![p] = "marking"]
    /\ later' = [later EXCEPT ![p] = {}]
    /\ UNCHANGED <<status, synced, routerStatus, snap, overtaken>>

(* No token, no connection, a refusal or a lost answer: no row is marked   *)
(* (mark_sync_error leaves last_synced_at), the batch may still arrive.    *)
Failed(p) ==
    /\ stage[p] \in {"posting", "received"}
    /\ \E s \in {"idle", "orphan"} :
         /\ s = "orphan" => stage[p] = "posting"
         /\ stage' = [stage EXCEPT ![p] = s]
         /\ snap' = [snap EXCEPT ![p] = IF s = "orphan" THEN @ ELSE Nothing]
    /\ UNCHANGED <<status, synced, routerStatus, later, overtaken>>

Vanish(p) ==
    /\ stage[p] = "orphan"
    /\ stage' = [stage EXCEPT ![p] = "idle"]
    /\ snap' = [snap EXCEPT ![p] = Nothing]
    /\ UNCHANGED <<status, synced, routerStatus, later, overtaken>>

(* One statement a charge, each with the time of the answer: a charge      *)
(* settled after it is stale again.                                        *)
Mark(p, c) ==
    /\ stage[p] = "marking"
    /\ Holds(p, c)
    /\ synced' = [synced EXCEPT ![c] = IF c \in later[p] THEN "stale" ELSE "fresh"]
    /\ snap' = [snap EXCEPT ![p] = [@ EXCEPT ![c] = "none"]]
    /\ UNCHANGED <<status, routerStatus, stage, later, overtaken>>

Done(p) ==
    /\ stage[p] = "marking"
    /\ \A c \in Charges : ~Holds(p, c)
    /\ stage' = [stage EXCEPT ![p] = "idle"]
    /\ later' = [later EXCEPT ![p] = {}]
    /\ UNCHANGED <<status, synced, routerStatus, snap, overtaken>>

(* The market stops and starts again: passes are lost, rows and requests   *)
(* on the network are not.                                                 *)
LogsCrash ==
    /\ stage' = [p \in Passes |-> IF stage[p] \in {"posting", "orphan"} THEN "orphan" ELSE "idle"]
    /\ snap' = [p \in Passes |-> IF stage[p] \in {"posting", "orphan"} THEN snap[p] ELSE Nothing]
    /\ later' = [p \in Passes |-> {}]
    /\ UNCHANGED <<status, synced, routerStatus, overtaken>>

PassStep(p) ==
    \/ Select(p) \/ RouterReceives(p) \/ Answered(p) \/ Failed(p) \/ Vanish(p) \/ Done(p)
    \/ \E c \in Charges : Mark(p, c)

LogsNext ==
    \/ \E c \in Charges :
         \/ StartStream(c)
         \/ \E s \in Reportable : SettleQuietly(c, s) \/ SettleAndTrigger(c, s)
    \/ \E p \in Passes : PassStep(p)
    \/ LogsCrash

LogsSpec == LogsInit /\ [][LogsNext]_logVars

(* Fairness: the loop of spawn_sync sleeps and selects again, a request it *)
(* gave up does not stay on the network for ever, and of the batches it    *)
(* posts over and over one is received, one is answered, and one is marked *)
(* before the market stops again.                                          *)
Proceed(p) == Select(p) \/ Vanish(p) \/ Done(p)

FairLogsSpec ==
    /\ LogsSpec
    /\ WF_logVars(Proceed(Timer))
    /\ SF_logVars(stage[Timer] = "posting" /\ RouterReceives(Timer))
    /\ SF_logVars(Answered(Timer))
    /\ SF_logVars(\E c \in Charges : Mark(Timer, c))

-----------------------------------------------------------------------------
Statuses == Reportable \union {"reserved"}
LogStages == {"idle", "asked", "posting", "received", "marking", "orphan"}

LogsTypeOK ==
    /\ status \in [Charges -> Statuses]
    /\ synced \in [Charges -> {"never", "stale", "fresh"}]
    /\ routerStatus \in [Charges -> Reportable \union {"none"}]
    /\ stage \in [Passes -> LogStages]
    /\ snap \in [Passes -> [Charges -> Reportable \union {"none"}]]
    /\ later \in [Passes -> SUBSET Charges]
    /\ overtaken \in SUBSET Charges

(* Nobody reports a charge before it streams or ends.                      *)
ReservedIsUnreported ==
    \A c \in Charges : status[c] = "reserved" =>
        /\ synced[c] = "never"
        /\ c \notin overtaken
        /\ \A p \in Passes : ~Holds(p, c)

(* A report under way has the status of its charge unless the charge was   *)
(* settled meanwhile, and streaming rows are only reported as streaming.   *)
ReportsAreCurrent ==
    \A p \in Passes, c \in Charges :
        UnderWay(p) /\ Holds(p, c) /\ c \notin overtaken => snap[p][c] = status[c]

(* What a good answer is about, the router has.                            *)
AnswersWereReceived ==
    \A p \in Passes, c \in Charges :
        stage[p] \in {"received", "marking"} /\ Holds(p, c) => routerStatus[c] # "none"

StampsAreCurrent ==
    \A p \in Passes, c \in Charges :
        /\ stage[p] = "received" \/ (stage[p] = "marking" /\ c \notin later[p])
        /\ Holds(p, c)
        /\ c \notin overtaken
        => routerStatus[c] = status[c]

(* A charge that is marked as reported is one the router has been told of, *)
(* whatever answers were lost or refused on the way.                       *)
MarkedWasReceived ==
    \A c \in Charges : synced[c] # "never" => routerStatus[c] # "none"

(* A charge that no pass will report again has at the router the status it *)
(* has in the database, unless it was settled while a report of it was     *)
(* under way (the mark is stamped after the answer, not before the SELECT).*)
FreshMeansTold ==
    \A c \in Charges :
        synced[c] = "fresh" /\ c \notin overtaken => routerStatus[c] = status[c]

(* The marks of reported charges can be trusted, by the inductive          *)
(* invariant of the passes (sync_recent, mark_sync_success).               *)
LogsInv ==
    /\ LogsTypeOK
    /\ ReservedIsUnreported
    /\ ReportsAreCurrent
    /\ AnswersWereReceived
    /\ StampsAreCurrent
    /\ MarkedWasReceived
    /\ FreshMeansTold

(* The end of every charge reaches the router, through refused and lost    *)
(* reports, crashes, marks written late and batches that are full, unless  *)
(* it came while a report of the charge was under way.                     *)
EndIsReported ==
    \A c \in Charges :
        status[c] = "ended" ~> (routerStatus[c] = status[c] \/ c \in overtaken)
=============================================================================
