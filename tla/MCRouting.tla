----------------------------- MODULE MCRouting -----------------------------
(***************************************************************************)
(* The shares, sessions and tables of the model-checked instances of       *)
(* Routing.                                                                *)
(***************************************************************************)
EXTENDS Routing

CONSTANTS s1, s2, s3, m1, m2, r1, r2, k1, k2

\* Two requests of one session, the second under a key of its own that leads
\* to the first's through the conversation or through its response.
Primary == [r \in Requests |-> IF r = r1 THEN k1 ELSE k2]
NoHistory == [r \in Requests |-> NoKey]
Responses == [r \in Requests |-> IF r = r2 THEN {r1} ELSE {}]
AskM1 == [r \in Requests |-> m1]

\* Every share bills the model that is asked for.
BillsAsked == [s \in Shares |-> [m \in Models |-> m]]

\* s1 drops connections, which by itself says nothing of its health; s2 answers with a
\* failure of its own or refuses the model; s3 serves.
Failing == [s \in Shares |-> IF s = s1 THEN {"tunnel_unavailable"}
                             ELSE IF s = s2 THEN {"upstream_5xx", "model_unsupported"} ELSE {}]

AllChat == [s \in Shares |-> "chat"]
OneResponses == [s \in Shares |-> IF s = s3 THEN "responses" ELSE "chat"]

\* All shares idle; s1 full; s1 gone; none there;
\* s1 disabled and the others gone; s2 not for sale.
AllIdle == [s \in Shares |-> "idle"]
Nothing == [s \in Shares |-> "absent"]
BusyTables == {AllIdle, [AllIdle EXCEPT ![s1] = "full"]}
Tables == BusyTables \cup
    {[AllIdle EXCEPT ![s1] = "absent"], Nothing, [Nothing EXCEPT ![s1] = "disabled"],
     [AllIdle EXCEPT ![s2] = "unsold"]}

OneExcluded == [m \in Models |-> "exclude"]

(***************************************************************************)
(* Two instances in one run: two requests of a session whose share may be  *)
(* full, and one request while users, admins and synchronisations change   *)
(* everything that selection reads. Every step is one of Next.             *)
(***************************************************************************)
VARIABLE focus
mcVars == <<vars, focus>>

SessionStep ==
    /\ \/ \E r \in Requests : RequestStep(r) \/ ResponseExpires(r)
       \/ \E k \in Keys : RouteExpires(k)
       \/ HealthPasses
       \/ Sync
    /\ row' \in BusyTables
    /\ \A r \in Requests : stage'[r] = "counting" => failed'[r] = "upstream_5xx"

TableStep ==
    \/ RequestStep(r1)
    \/ Sync \/ SetAllowlist \/ HealthPasses
    \/ PutRoutingShares(m1) \/ InsertRoutingShare(m1)
    \/ BarShare(s1)

MCInit ==
    /\ Init
    /\ focus \in {"sessions", "tables"}
    /\ focus = "sessions" => row \in BusyTables
MCNext ==
    /\ \/ focus = "sessions" /\ SessionStep
       \/ focus = "tables" /\ TableStep
    /\ UNCHANGED focus

MCSpec == MCInit /\ [][MCNext]_mcVars
=============================================================================
