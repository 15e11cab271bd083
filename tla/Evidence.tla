------------------------------ MODULE Evidence ------------------------------
(* The debug objects of requests and what keeps them (src/object_store.rs, *)
(* the request handlers of src/proxy.rs, the clean-ups of                  *)
(* src/maintenance.rs), together with the tickets about the requests.  An  *)
(* object is a file, a row of object_refs and a key in the row of its      *)
(* charge, written and removed one after the other.  Maintenance removes   *)
(* the objects of old terminal charges that no open ticket is about, and   *)
(* those of requests that never became a charge.                           *)
EXTENDS Tickets, FiniteSets

CONSTANTS
    BatchSize,    \* REQUEST_OBJECT_CLEANUP_BATCH_SIZE
    MaxFaults     \* bound on crashes and failed removals

ASSUME EvidenceAssumption ==
    /\ Charges \subseteq Nat   \* a greater one was created later
    /\ BatchSize \in Nat \ {0}
    /\ MaxFaults \in Nat

VARIABLES
    row,          \* status of each charge, "none" without a row
    keys,         \* which objects the row names: "body", "meta"
    refs,         \* which have a row in object_refs
    onDisk,       \* which have a file
    old,          \* charges older than the retention
    at,           \* where the request's handler is with its objects
    mstage,       \* what maintenance is doing
    todo,         \* the attachments, tickets and charges it has selected
    cleaning,     \* the charge whose objects it is removing, lock in hand
    gone,         \* the objects of it whose files it has removed
    faults        \* faults left

evidenceVars == <<row, keys, refs, onDisk, old, at>>
workerVars == <<mstage, todo, cleaning, gone, faults>>
vars == <<ticketVars, evidenceVars, workerVars>>

Ended == {"settled", "failed_released"}
OpenOn(c) == \E t \in OpenTickets : about[t] = c

Init ==
    /\ TicketsInit
    /\ row = [c \in Charges |-> "none"]
    /\ keys = [c \in Charges |-> {}]
    /\ refs = [c \in Charges |-> {}]
    /\ onDisk = [c \in Charges |-> {}]
    /\ old = {}
    /\ at = [c \in Charges |-> "idle"]
    /\ mstage = "asleep"
    /\ todo = {}
    /\ cleaning = NoCharge
    /\ gone = {}
    /\ faults = MaxFaults

-----------------------------------------------------------------------------
(* The request's handler: the body's file, its ref, the charge with its    *)
(* key; after the answer, or when an admin settles a charge in review, the *)
(* file of the response's meta data, its ref, and the key with the status. *)
PutObject(c, from, o, to) ==
    /\ at[c] = from
    /\ onDisk' = [onDisk EXCEPT ![c] = @ \union {o}]
    /\ at' = [at EXCEPT ![c] = to]
    /\ UNCHANGED <<row, keys, refs, old>>

PutBody(c) == PutObject(c, "idle", "body", "body")
PutMeta(c) ==
    \/ PutObject(c, "serving", "meta", "meta")
    \/ row[c] = "needs_review" /\ PutObject(c, "over", "meta", "meta")

RecordObject(c, o, to) ==
    /\ at[c] = o
    /\ refs' = [refs EXCEPT ![c] = @ \union {o}]
    /\ at' = [at EXCEPT ![c] = to]
    /\ UNCHANGED <<row, keys, onDisk, old>>

RecordBody(c) == RecordObject(c, "body", "bodyRef")
RecordMeta(c) == RecordObject(c, "meta", "metaRef")

Reserve(c) ==
    /\ at[c] = "bodyRef"
    /\ row' = [row EXCEPT ![c] = "reserved"]
    /\ keys' = [keys EXCEPT ![c] = {"body"}]
    /\ at' = [at EXCEPT ![c] = "serving"]
    /\ UNCHANGED <<refs, onDisk, old>>

SettleRow(c) ==
    /\ at[c] = "metaRef"
    /\ row[c] \in {"reserved", "needs_review"}
    /\ row' = [row EXCEPT ![c] = "settled"]
    /\ keys' = [keys EXCEPT ![c] = @ \union {"meta"}]
    /\ at' = [at EXCEPT ![c] = "over"]
    /\ UNCHANGED <<refs, onDisk, old>>

(* The handler ends elsewhere: a replay, no money, no answer, a failed     *)
(* write, a charge that was ended by another.                              *)
Leave(c) ==
    /\ at[c] \notin {"idle", "over"}
    /\ at' = [at EXCEPT ![c] = "over"]
    /\ UNCHANGED <<row, keys, refs, onDisk, old>>

(* Releases and reviews, by the handler, an admin or maintenance.          *)
EndUnsettled(c, s) ==
    /\ \/ row[c] = "reserved" /\ s \in {"failed_released", "needs_review"}
       \/ row[c] = "needs_review" /\ s = "failed_released"
    /\ row' = [row EXCEPT ![c] = s]
    /\ UNCHANGED <<keys, refs, onDisk, old, at>>

(* The retention is a day at least: no request is under way for as long.   *)
Age(c) ==
    /\ at[c] = "over"
    /\ old' = old \union {c}
    /\ UNCHANGED <<row, keys, refs, onDisk, at>>

-----------------------------------------------------------------------------
(* cleanup_once of maintenance: stale attachments, silent tickets, expired *)
(* objects, orphaned refs, and again.  Each part selects what is to be     *)
(* done and does it one by one.                                            *)
Enter(stage, items) ==
    /\ mstage' = stage
    /\ todo' = items
    /\ UNCHANGED <<cleaning, gone, faults>>

(* Attachments that are unbound for a day, some of those that are unbound. *)
SelectAttachments ==
    /\ mstage = "asleep"
    /\ \E A \in SUBSET Attachments :
         /\ \A a \in A : att[a] = "unbound"
         /\ Enter("sweeping", A)
    /\ UNCHANGED <<ticketVars, evidenceVars>>

SweepFiles ==
    /\ mstage = "sweeping"
    /\ file' = file \ todo
    /\ Enter("swept", todo)
    /\ UNCHANGED <<clock, tstatus, about, usage, closedAt, lastUser, lastAdmin, unheard,
                   hstage, on, read, stamp, reported, att, evidenceVars>>

SweepRows ==
    /\ mstage = "swept"
    /\ att' = [a \in Attachments |-> IF a \in todo /\ att[a] = "unbound" THEN "gone" ELSE att[a]]
    /\ Enter("tickets", {})
    /\ UNCHANGED <<clock, tstatus, about, usage, closedAt, lastUser, lastAdmin, unheard,
                   hstage, on, read, stamp, reported, file, evidenceVars>>

SelectSilent ==
    /\ mstage = "tickets"
    /\ Enter("closing", {t \in Tickets : Silent(t)})
    /\ UNCHANGED <<ticketVars, evidenceVars>>

(* A ticket that was deleted meanwhile ends this part: the message cannot  *)
(* be inserted.                                                            *)
CloseSilent(t) ==
    /\ mstage = "closing"
    /\ t \in todo
    /\ IF Exists(t)
         THEN AutoClose(t) /\ Enter("closing", todo \ {t})
         ELSE UNCHANGED ticketVars /\ Enter("objects", {})
    /\ UNCHANGED evidenceVars

SilentDone ==
    /\ mstage = "closing"
    /\ todo = {}
    /\ Enter("objects", {})
    /\ UNCHANGED <<ticketVars, evidenceVars>>

(* The condition of both statements, of the selection and of the           *)
(* transaction that removes.                                               *)
Expired(c) == row[c] \in Ended /\ c \in old /\ keys[c] # {} /\ ~OpenOn(c)
Orphaned(c) == row[c] = "none" /\ c \in old /\ refs[c] # {} /\ ~OpenOn(c)
Oldest(S) == {c \in S : Cardinality({d \in S : d < c}) < BatchSize}

SelectObjects(from, stage, eligible) ==
    /\ mstage = from
    /\ Enter(stage, Oldest(eligible))
    /\ UNCHANGED <<ticketVars, evidenceVars>>

SelectExpired == SelectObjects("objects", "expired", {c \in Charges : Expired(c)})
SelectOrphans == SelectObjects("orphans", "orphaned", {c \in Charges : Orphaned(c)})

Recheck_None(c) == TRUE
Recheck(c) == IF mstage = "expired" THEN Expired(c) ELSE Orphaned(c)

(* BEGIN IMMEDIATE: from here to the commit nobody else writes.            *)
Lock(c) ==
    /\ mstage \in {"expired", "orphaned"}
    /\ cleaning = NoCharge
    /\ c \in todo
    /\ todo' = todo \ {c}
    /\ cleaning' = IF Recheck(c) THEN c ELSE NoCharge
    /\ gone' = {}
    /\ UNCHANGED <<ticketVars, evidenceVars, mstage, faults>>

Doomed == IF mstage = "expired" THEN keys[cleaning] ELSE refs[cleaning]

(* A file that does not exist is removed.                                  *)
RemoveFile(o) ==
    /\ cleaning # NoCharge
    /\ o \in Doomed \ gone
    /\ onDisk' = [onDisk EXCEPT ![cleaning] = @ \ {o}]
    /\ gone' = gone \union {o}
    /\ UNCHANGED <<ticketVars, row, keys, refs, old, at, mstage, todo, cleaning, faults>>

CommitClean ==
    /\ cleaning # NoCharge
    /\ gone = Doomed
    /\ keys' = [keys EXCEPT ![cleaning] = {}]
    /\ refs' = [refs EXCEPT ![cleaning] = @ \ gone]
    /\ cleaning' = NoCharge
    /\ gone' = {}
    /\ UNCHANGED <<ticketVars, row, onDisk, old, at, mstage, todo, faults>>

(* A file cannot be removed: the transaction is undone, the next follows.  *)
CleanFails ==
    /\ cleaning # NoCharge
    /\ faults > 0
    /\ faults' = faults - 1
    /\ cleaning' = NoCharge
    /\ gone' = {}
    /\ UNCHANGED <<ticketVars, evidenceVars, mstage, todo>>

ObjectsDone_ExpiredAgain ==
    /\ mstage \in {"expired", "orphaned"}
    /\ todo = {} /\ cleaning = NoCharge
    /\ Enter(IF mstage = "expired" THEN "asleep" ELSE "orphans", {})
    /\ UNCHANGED <<ticketVars, evidenceVars>>

ObjectsDone ==
    /\ mstage \in {"expired", "orphaned"}
    /\ todo = {} /\ cleaning = NoCharge
    /\ Enter(IF mstage = "expired" THEN "orphans" ELSE "asleep", {})
    /\ UNCHANGED <<ticketVars, evidenceVars>>

(* The market stops and starts: handlers are gone, a transaction is undone. *)
Crash ==
    /\ faults > 0
    /\ faults' = faults - 1
    /\ Over(Handlers)
    /\ at' = [c \in Charges |-> IF at[c] = "idle" THEN "idle" ELSE "over"]
    /\ mstage' = "asleep"
    /\ todo' = {}
    /\ cleaning' = NoCharge
    /\ gone' = {}
    /\ UNCHANGED <<clock, tstatus, about, usage, closedAt, lastUser, lastAdmin, unheard,
                   att, file, row, keys, refs, onDisk, old>>

-----------------------------------------------------------------------------
(* report_usage looks at the charge's status first.                        *)
Report(h, c) == row[c] = "settled" /\ BeginReport(h, c)

(* Every statement that writes takes the lock of the database.             *)
Unlocked == cleaning = NoCharge

RequestReads(c) == PutBody(c) \/ PutMeta(c) \/ Leave(c) \/ Age(c)
RequestWrites(c) ==
    \/ RecordBody(c) \/ RecordMeta(c) \/ Reserve(c) \/ SettleRow(c)
    \/ \E s \in {"failed_released", "needs_review"} : EndUnsettled(c, s)

OthersStep ==
    \/ /\ TicketReads \/ \E h \in Handlers, c \in Charges : Report(h, c)
       /\ UNCHANGED <<evidenceVars, workerVars>>
    \/ Unlocked /\ TicketWrites /\ UNCHANGED <<evidenceVars, workerVars>>
    \/ /\ \E c \in Charges : RequestReads(c) \/ (Unlocked /\ RequestWrites(c))
       /\ UNCHANGED <<ticketVars, workerVars>>

WorkerStep ==
    \/ SelectAttachments \/ SweepFiles \/ SweepRows
    \/ SelectSilent \/ (\E t \in Tickets : CloseSilent(t)) \/ SilentDone
    \/ SelectExpired \/ SelectOrphans \/ ObjectsDone
    \/ (\E c \in Charges : Lock(c)) \/ (\E o \in {"body", "meta"} : RemoveFile(o)) \/ CommitClean

Next == OthersStep \/ WorkerStep \/ CleanFails \/ Crash

Spec == Init /\ [][Next]_vars

(* Fairness: the loop of maintenance goes round, no step of it waits for   *)
(* ever (spawn in src/maintenance.rs never returns).                       *)
FairSpec == Spec /\ WF_vars(WorkerStep)

-----------------------------------------------------------------------------
TicketsTypeOK ==
    /\ clock \in 0..MaxClock
    /\ tstatus \in [Tickets -> Live \union {"none", "deleted"}]
    /\ about \in [Tickets -> Charges \union {NoCharge}]
    /\ usage \subseteq Tickets /\ unheard \subseteq Tickets
    /\ closedAt \in [Tickets -> BOOLEAN]
    /\ lastUser \in [Tickets -> -1..MaxClock] /\ lastAdmin \in [Tickets -> -1..MaxClock]
    /\ hstage \in [Handlers -> {"idle", "reporting", "replying", "answering", "closing",
                                "counting", "emptying", "deleting"}]
    /\ on \in [Handlers -> Tickets \union {"none"}]
    /\ read \in [Handlers -> (Live \ Terminal) \union {"none"}]
    /\ stamp \in [Handlers -> 0..MaxClock]
    /\ reported \in [Handlers -> Charges \union {NoCharge}]
    /\ att \in [Attachments -> {"none", "unbound", "gone"} \union Tickets]
    /\ file \subseteq Attachments

EvidenceTypeOK ==
    /\ row \in [Charges -> {"none", "reserved", "needs_review"} \union Ended]
    /\ keys \in [Charges -> SUBSET {"body", "meta"}]
    /\ refs \in [Charges -> SUBSET {"body", "meta"}]
    /\ onDisk \in [Charges -> SUBSET {"body", "meta"}]
    /\ old \subseteq Charges
    /\ at \in [Charges -> {"idle", "body", "bodyRef", "serving", "meta", "metaRef", "over"}]
    /\ cleaning \in Charges \union {NoCharge}
    /\ gone \subseteq {"body", "meta"}
    /\ faults \in 0..MaxFaults

(* A handler that goes to change a ticket holds the status of one that was *)
(* not terminal.                                                           *)
ReadsAreOfTickets ==
    \A h \in Handlers :
        hstage[h] \notin {"idle", "reporting"} =>
            /\ on[h] # "none" /\ tstatus[on[h]] # "none"
            /\ hstage[h] = "replying" => read[h] # "none"

(* What is closed or resolved has the date, however handlers, admins and   *)
(* maintenance got in each other's way.                                    *)
ClosedHasDate == \A t \in Tickets : tstatus[t] \in Terminal => closedAt[t]

(* An attachment belongs to a ticket that exists.                          *)
BoundToTicket == \A a \in Attachments : att[a] \in Tickets => Exists(att[a])

(* A ticket on which no admin acted since the user wrote never waits for   *)
(* the user, though the user's message was put in with an old status.      *)
UnheardAwaitsAdmin == \A t \in unheard : tstatus[t] # "waiting_user"

(* A key leads to a row of object_refs, and to a file as long as the       *)
(* charge is not old and ended; the file of a request's body never stays   *)
(* when the key of its charge is gone.                                     *)
KeysLeadToObjects ==
    \A c \in Charges :
        /\ keys[c] \subseteq refs[c]
        /\ row[c] = "none" => keys[c] = {}
        /\ "meta" \in keys[c] => row[c] = "settled"
        /\ ~(c \in old /\ row[c] \in Ended) => keys[c] \subseteq onDisk[c]
        /\ row[c] # "none" /\ "body" \in onDisk[c] => "body" \in keys[c]

(* Where a handler is, its objects are.                                    *)
HandlersHoldObjects ==
    \A c \in Charges :
        /\ at[c] \in {"idle", "body", "bodyRef"} => row[c] = "none" /\ c \notin old
        /\ at[c] = "serving" => row[c] # "none"
        /\ at[c] \in {"meta", "metaRef"} => row[c] # "none" /\ "meta" \in onDisk[c]
        /\ at[c] \in {"body", "bodyRef"} => "body" \in onDisk[c]
        /\ at[c] = "idle" => onDisk[c] = {}
        /\ at[c] = "bodyRef" => "body" \in refs[c]
        /\ at[c] = "metaRef" => "meta" \in refs[c]
        /\ row[c] = "none" => "meta" \notin refs[c]
        /\ row[c] = "settled" => at[c] = "over"
        /\ c \in old => at[c] \in {"over", "meta", "metaRef"}

(* The charge whose objects are being removed is one that may be cleaned,  *)
(* and the lock keeps it so.                                               *)
CleanedIsUnreported ==
    cleaning # NoCharge =>
        /\ mstage \in {"expired", "orphaned"}
        /\ Recheck(cleaning)
        /\ gone \subseteq Doomed /\ gone \intersect onDisk[cleaning] = {}

TicketInv ==
    /\ TicketsTypeOK
    /\ ReadsAreOfTickets
    /\ ClosedHasDate
    /\ BoundToTicket
    /\ UnheardAwaitsAdmin

ObjectInv ==
    /\ EvidenceTypeOK
    /\ KeysLeadToObjects
    /\ HandlersHoldObjects
    /\ CleanedIsUnreported

(* Tickets, attachments and debug objects stay consistent: the inductive   *)
(* invariant of support.rs and the clean-ups of maintenance.rs.            *)
SupportInv == TicketInv /\ ObjectInv

(* No file of a charge is removed while a ticket about it is open, though  *)
(* the charges were selected before and a report may come at any time      *)
(* (README.md:190, cleanup_terminal_request_charge_object).                *)
OpenReportKeepsEvidence ==
    [][\A c \in Charges : OpenOn(c) => onDisk[c] \subseteq onDisk'[c]]_vars

(* Maintenance never closes a ticket on which the user wrote and no admin  *)
(* has acted since, though it found the ticket silent some time before     *)
(* (auto_close_stale_tickets).                                             *)
UnheardIsNotClosed ==
    [][mstage = "closing" /\ todo' # todo =>
         \A t \in unheard : tstatus'[t] = tstatus[t]]_vars

(* A ticket that waits in silence is closed or moves on.                   *)
SilentTicketCloses == \A t \in Tickets : Silent(t) ~> ~Silent(t)

(* Objects past their retention are removed, also after a crash between    *)
(* their files and their rows, unless a ticket about them is opened.       *)
ExpiredEvidenceGoes == \A c \in Charges : Expired(c) \/ Orphaned(c) ~> ~(Expired(c) \/ Orphaned(c))
=============================================================================
