----------------------------- MODULE MCSupport -----------------------------
(***************************************************************************)
(* Tickets and debug objects for TLC.  One run takes five views of the     *)
(* system, one chosen by the initial state: two handlers on one ticket,    *)
(* one handler on two tickets of which one may be deleted, a ticket with   *)
(* images, two charges with objects, and a charge with a ticket about it.  *)
(* Every step of a view is a step of Evidence's Next; maintenance takes    *)
(* all its steps in each.                                                  *)
(***************************************************************************)
EXTENDS Evidence

CONSTANTS
    Focal, Aide   \* the ticket and the handler that every view has

VARIABLE focus
mcVars == <<vars, focus>>

NoCharges ==
    /\ \A c \in Charges : at'[c] = "idle" /\ c \notin old'
    /\ \A t \in Tickets : about'[t] = NoCharge
    /\ usage' = {}
NoImages == \A a \in Attachments : att'[a] = "none"
NoFaults == faults' = MaxFaults
OneTicket(S) ==
    \A t \in Tickets : tstatus'[t] \in IF t = Focal THEN S \union {"none", "deleted"} ELSE {"none"}
\* What the handler that every view has may do, and what the others may.
Stages(mine, others) ==
    \A h \in Handlers : hstage'[h] \in {"idle"} \union (IF h = Aide THEN mine ELSE others)
Deletion == {"counting", "emptying", "deleting"}

\* Of the charges one goes all ways, the others are served without meta data.
OneInFull ==
    \A c \in Charges \ {0} :
        at'[c] \notin {"meta", "metaRef"} /\ row'[c] # "needs_review"
OneCharge == \A c \in Charges \ {0} : at'[c] = "idle" /\ c \notin old'

\* The others wait while maintenance does what does not concern the view.
Phases(S) == mstage \in S \/ mstage' # mstage
ClosePhases == Phases({"tickets", "closing"})
ImagePhases == Phases({"asleep", "sweeping", "swept"})
ObjectPhases == Phases({"objects", "expired", "orphans", "orphaned"})

View ==
    \/ /\ focus = "ticket" /\ ClosePhases /\ NoCharges /\ NoImages /\ NoFaults
       /\ OneTicket({"open", "waiting_user", "waiting_admin", "closed"})
       /\ Stages({"closing", "answering"} \union Deletion, {"replying"})
    \/ /\ focus = "tickets" /\ ClosePhases /\ NoCharges /\ NoImages /\ NoFaults
       /\ \A t \in Tickets :
            /\ tstatus'[t] \in {"none", "open", "waiting_user", "closed", "deleted"}
            /\ closedAt[t] /\ closedAt'[t] => tstatus'[t] = "closed"
       /\ \A h \in Handlers : hstage'[h] \in Deletion => on'[h] = Focal
       /\ Stages({"answering"} \union Deletion, {})
    \/ /\ focus = "images" /\ ImagePhases /\ NoCharges /\ NoFaults /\ clock' = 0
       /\ OneTicket({"open", "waiting_user", "other"})
       /\ Stages({"replying"} \union Deletion, {"answering"})
    \/ /\ focus = "charges" /\ ObjectPhases /\ NoImages /\ clock' = 0
       /\ OneTicket({}) /\ Stages({}, {}) /\ OneInFull
    \/ /\ focus = "reports" /\ ObjectPhases /\ NoImages /\ clock' = 0
       /\ OneTicket({"open", "closed"}) /\ Stages({"reporting"} \union Deletion, {}) /\ OneCharge
       /\ tstatus'[Focal] \in Live => about'[Focal] = 0

MCInit ==
    /\ Init
    /\ focus \in {"ticket", "tickets", "images", "charges", "reports"}
MCNext == Next /\ View /\ UNCHANGED focus
MCSpec == MCInit /\ [][MCNext]_mcVars /\ WF_mcVars(WorkerStep /\ View /\ UNCHANGED focus)
=============================================================================
