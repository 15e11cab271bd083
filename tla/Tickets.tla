------------------------------ MODULE Tickets ------------------------------
(* Support tickets (src/support.rs, the ticket handlers of src/admin.rs,   *)
(* auto_close_stale_tickets of src/maintenance.rs): a user writes, closes  *)
(* and deletes, an admin answers, and maintenance closes what the user no  *)
(* longer answers.  The user's handlers read a ticket in one statement and *)
(* change it in a later transaction, so what they read may be stale; so    *)
(* may the time of an answer of the admin be.                              *)
(* Time is a clock of few ticks; of the messages of a ticket the latest of *)
(* each side counts.                                                       *)
EXTENDS Integers

CONSTANTS
    Tickets,      \* ids of tickets
    Charges,      \* charges of the user that tickets may be about
    NoCharge,
    Handlers,     \* requests of the user and the admin handled at a time
    Attachments,  \* images uploaded for tickets
    AdminFiles,   \* those of them that an admin uploaded
    Week,         \* silence after which maintenance closes a ticket, in ticks
    MaxClock      \* bound on the clock

ASSUME TicketsAssumption ==
    /\ NoCharge \notin Charges
    /\ AdminFiles \subseteq Attachments
    /\ Week \in Nat /\ MaxClock \in Nat
    /\ {"none", "unbound", "gone"} \cap Tickets = {}

VARIABLES
    clock,
    tstatus,      \* status of each ticket, "none" before and "deleted" after
    about,        \* the charge it is about
    usage,        \* the tickets of type usage_report
    closedAt,     \* whether closed_at is set
    lastUser,     \* time of the user's last message, -1 before
    lastAdmin,    \* time of the last answer that is no internal note
    unheard,      \* tickets on which the user wrote and no admin acted since
    hstage,       \* where each handler is
    on,           \* the ticket it works on, while it does
    read,         \* the status it read
    stamp,        \* the time of its message
    reported,     \* the charge it reports
    att,          \* each attachment: "none", "unbound", its ticket, or "gone"
    file          \* attachments whose file exists

ticketVars == <<clock, tstatus, about, usage, closedAt, lastUser, lastAdmin, unheard,
                hstage, on, read, stamp, reported, att, file>>

Terminal == {"closed", "resolved"}
Live == {"open", "waiting_user", "waiting_admin", "other"} \union Terminal
Exists(t) == tstatus[t] \in Live
OpenTickets == {t \in Tickets : tstatus[t] \in Live \ Terminal}
Bound(t) == {a \in Attachments : att[a] = t}

TicketsInit ==
    /\ clock = 0
    /\ tstatus = [t \in Tickets |-> "none"]
    /\ about = [t \in Tickets |-> NoCharge]
    /\ usage = {}
    /\ closedAt = [t \in Tickets |-> FALSE]
    /\ lastUser = [t \in Tickets |-> -1]
    /\ lastAdmin = [t \in Tickets |-> -1]
    /\ unheard = {}
    /\ hstage = [h \in Handlers |-> "idle"]
    /\ on = [h \in Handlers |-> "none"]
    /\ read = [h \in Handlers |-> "none"]
    /\ stamp = [h \in Handlers |-> 0]
    /\ reported = [h \in Handlers |-> NoCharge]
    /\ att = [a \in Attachments |-> "none"]
    /\ file = {}

Tick ==
    /\ clock < MaxClock
    /\ clock' = clock + 1
    /\ UNCHANGED <<tstatus, about, usage, closedAt, lastUser, lastAdmin, unheard,
                   hstage, on, read, stamp, reported, att, file>>

-----------------------------------------------------------------------------
(* Handlers end, and what they have read is gone.                          *)
Over(H) ==
    /\ hstage' = [h \in Handlers |-> IF h \in H THEN "idle" ELSE hstage[h]]
    /\ on' = [h \in Handlers |-> IF h \in H THEN "none" ELSE on[h]]
    /\ read' = [h \in Handlers |-> IF h \in H THEN "none" ELSE read[h]]
    /\ stamp' = [h \in Handlers |-> IF h \in H THEN 0 ELSE stamp[h]]
    /\ reported' = [h \in Handlers |-> IF h \in H THEN NoCharge ELSE reported[h]]

(* bind_attachments_locked: all of them, or the transaction is undone.     *)
CanBind(A, uploaded) == \A a \in A : att[a] = "unbound" /\ a \in uploaded
Bind(A, t) == att' = [a \in Attachments |-> IF a \in A THEN t ELSE att[a]]

(* create_ticket, and the insertion of report_usage.                       *)
Insert(t, c) ==
    /\ tstatus[t] = "none"
    /\ tstatus' = [tstatus EXCEPT ![t] = "open"]
    /\ about' = [about EXCEPT ![t] = c]
    /\ lastUser' = [lastUser EXCEPT ![t] = clock]
    /\ unheard' = unheard \union {t}

CreateTicket(t, c, A) ==
    /\ CanBind(A, Attachments \ AdminFiles)
    /\ Insert(t, c)
    /\ Bind(A, t)
    /\ \E kind \in BOOLEAN : usage' = IF kind THEN usage \union {t} ELSE usage
    /\ UNCHANGED <<clock, closedAt, lastAdmin, hstage, on, read, stamp, reported, file>>

(* report_usage of a settled charge: a report of it that exists is found,  *)
(* but between looking and inserting another may be made.                  *)
BeginReport(h, c) ==
    /\ hstage[h] = "idle"
    /\ \A t \in usage : ~(Exists(t) /\ about[t] = c)
    /\ hstage' = [hstage EXCEPT ![h] = "reporting"]
    /\ reported' = [reported EXCEPT ![h] = c]
    /\ UNCHANGED <<clock, tstatus, about, usage, closedAt, lastUser, lastAdmin, unheard,
                   on, read, stamp, att, file>>

CommitReport(h, t) ==
    /\ hstage[h] = "reporting"
    /\ Insert(t, reported[h])
    /\ usage' = usage \union {t}
    /\ Over({h})
    /\ UNCHANGED <<clock, closedAt, lastAdmin, att, file>>

-----------------------------------------------------------------------------
(* The first statement of the user's handlers; a terminal ticket is        *)
(* refused.  A message takes its time before its transaction begins, and   *)
(* its status is derived from the one read here.                           *)
Begin(h, t, next) ==
    /\ hstage[h] = "idle"
    /\ t \in OpenTickets
    /\ hstage' = [hstage EXCEPT ![h] = next]
    /\ on' = [on EXCEPT ![h] = t]
    /\ IF next = "replying"
         THEN read' = [read EXCEPT ![h] = tstatus[t]] /\ stamp' = [stamp EXCEPT ![h] = clock]
         ELSE UNCHANGED <<read, stamp>>
    /\ UNCHANGED <<clock, tstatus, about, usage, closedAt, lastUser, lastAdmin, unheard,
                   reported, att, file>>

(* can_delete: no answer of an admin yet (or the handler gives up).        *)
CountReplies(h) ==
    /\ hstage[h] = "counting"
    /\ lastAdmin[on[h]] = -1
    /\ hstage' = [hstage EXCEPT ![h] = "emptying"]
    /\ UNCHANGED <<clock, tstatus, about, usage, closedAt, lastUser, lastAdmin, unheard,
                   on, read, stamp, reported, att, file>>

NextStatus_KeepsWaiting(s) == IF s = "open" THEN "waiting_admin" ELSE s
NextStatus(s) == IF s \in {"open", "waiting_user"} THEN "waiting_admin" ELSE s

Later(a, b) == IF a < b THEN b ELSE a

(* The message and its attachments are inserted, and the status becomes    *)
(* what follows from the one that was read; closed_at stays.               *)
CommitReply(h, A) ==
    LET t == on[h] IN
    /\ hstage[h] = "replying"
    /\ Exists(t) /\ CanBind(A, Attachments \ AdminFiles)
    /\ Bind(A, t)
    /\ lastUser' = [lastUser EXCEPT ![t] = Later(@, stamp[h])]
    /\ tstatus' = [tstatus EXCEPT ![t] = NextStatus(read[h])]
    /\ unheard' = unheard \union {t}
    /\ Over({h})
    /\ UNCHANGED <<clock, about, usage, closedAt, lastAdmin, file>>

CommitClose(h) ==
    LET t == on[h] IN
    /\ hstage[h] = "closing"
    /\ Exists(t)
    /\ tstatus' = [tstatus EXCEPT ![t] = "closed"]
    /\ closedAt' = [closedAt EXCEPT ![t] = TRUE]
    /\ Over({h})
    /\ UNCHANGED <<clock, about, usage, lastUser, lastAdmin, unheard, att, file>>

(* delete_ticket removes the files first, then the rows.                   *)
RemoveTicketFiles(h) ==
    /\ hstage[h] = "emptying"
    /\ file' = file \ Bound(on[h])
    /\ hstage' = [hstage EXCEPT ![h] = "deleting"]
    /\ UNCHANGED <<clock, tstatus, about, usage, closedAt, lastUser, lastAdmin, unheard,
                   on, read, stamp, reported, att>>

DeleteRows(h) ==
    LET t == on[h] IN
    /\ hstage[h] = "deleting"
    /\ Exists(t)
    /\ att' = [a \in Attachments |-> IF att[a] = t THEN "gone" ELSE att[a]]
    /\ tstatus' = [tstatus EXCEPT ![t] = "deleted"]
    /\ about' = [about EXCEPT ![t] = NoCharge]
    /\ usage' = usage \ {t}
    /\ closedAt' = [closedAt EXCEPT ![t] = FALSE]
    /\ lastUser' = [lastUser EXCEPT ![t] = -1]
    /\ lastAdmin' = [lastAdmin EXCEPT ![t] = -1]
    /\ unheard' = unheard \ {t}
    /\ Over({h})
    /\ UNCHANGED <<clock, file>>

(* An attachment that cannot be bound, a ticket that is gone (the foreign  *)
(* key of its messages), a statement that fails: nothing is changed.       *)
GiveUp(h) ==
    /\ hstage[h] # "idle"
    /\ Over({h})
    /\ UNCHANGED <<clock, tstatus, about, usage, closedAt, lastUser, lastAdmin, unheard, att, file>>

-----------------------------------------------------------------------------
(* admin_ticket_message takes its time before its transaction begins, and  *)
(* asks for no status: the transaction derives it from the row.            *)
AdminBegins(h, t) ==
    /\ hstage[h] = "idle"
    /\ Exists(t)
    /\ hstage' = [hstage EXCEPT ![h] = "answering"]
    /\ on' = [on EXCEPT ![h] = t]
    /\ stamp' = [stamp EXCEPT ![h] = clock]
    /\ UNCHANGED <<clock, tstatus, about, usage, closedAt, lastUser, lastAdmin, unheard,
                   read, reported, att, file>>

AdminReplies(h, A) ==
    LET t == on[h] IN
    /\ hstage[h] = "answering"
    /\ Exists(t) /\ CanBind(A, AdminFiles)
    /\ Bind(A, t)
    /\ lastAdmin' = [lastAdmin EXCEPT ![t] = Later(@, stamp[h])]
    /\ tstatus' = [tstatus EXCEPT ![t] = IF @ \in Terminal THEN @ ELSE "waiting_user"]
    /\ unheard' = unheard \ {t}
    /\ Over({h})
    /\ UNCHANGED <<clock, about, usage, closedAt, lastUser, file>>

(* An internal note changes no status and counts for no answer.            *)
AdminNotes(t, A) ==
    /\ Exists(t)
    /\ A # {}
    /\ CanBind(A, AdminFiles)
    /\ Bind(A, t)
    /\ UNCHANGED <<clock, tstatus, about, usage, closedAt, lastUser, lastAdmin, unheard,
                   hstage, on, read, stamp, reported, file>>

(* ticket_status: any status, whatever it was.                             *)
AdminSetsStatus(t, s) ==
    /\ Exists(t)
    /\ tstatus' = [tstatus EXCEPT ![t] = s]
    /\ closedAt' = [closedAt EXCEPT ![t] = @ \/ s \in Terminal]
    /\ unheard' = unheard \ {t}
    /\ UNCHANGED <<clock, about, usage, lastUser, lastAdmin, hstage, on, read, stamp, reported, att, file>>

-----------------------------------------------------------------------------
(* presign_attachment inserts the row.  upload_object looks whether it is  *)
(* unbound and then writes the file, which may be any time later.          *)
Presign(a) ==
    /\ att[a] = "none"
    /\ att' = [att EXCEPT ![a] = "unbound"]
    /\ UNCHANGED <<clock, tstatus, about, usage, closedAt, lastUser, lastAdmin, unheard,
                   hstage, on, read, stamp, reported, file>>

Upload(a) ==
    /\ att[a] # "none"
    /\ file' = file \union {a}
    /\ UNCHANGED <<clock, tstatus, about, usage, closedAt, lastUser, lastAdmin, unheard,
                   hstage, on, read, stamp, reported, att>>

-----------------------------------------------------------------------------
(* The admin had the last word, more than Week ago (auto_close_stale_tickets). *)
Silent(t) ==
    /\ tstatus[t] = "waiting_user"
    /\ lastUser[t] < lastAdmin[t]
    /\ lastAdmin[t] + Week < clock

(* What maintenance does with a ticket it has found silent, if it still    *)
(* waits for the user.  The message of the system that it inserts in any   *)
(* case is neither side's and is left out.                                 *)
AutoClosed_Blindly(t) == tstatus[t] \notin {"none", "deleted"}
AutoClosed_Swapped(t) == tstatus[t] = "waiting_user" /\ lastAdmin[t] < lastUser[t]
AutoClosed(t) == tstatus[t] = "waiting_user"

AutoClose(t) ==
    /\ tstatus' = [tstatus EXCEPT ![t] = IF AutoClosed(t) THEN "closed" ELSE @]
    /\ closedAt' = [closedAt EXCEPT ![t] = @ \/ AutoClosed(t)]
    /\ UNCHANGED <<clock, about, usage, lastUser, lastAdmin, unheard, hstage, on, read,
                   stamp, reported, att, file>>

TicketReads ==
    \/ Tick
    \/ \E h \in Handlers :
         \/ \E t \in Tickets, next \in {"replying", "closing", "counting"} : Begin(h, t, next)
         \/ \E t \in Tickets : AdminBegins(h, t)
         \/ CountReplies(h) \/ RemoveTicketFiles(h) \/ GiveUp(h)
    \/ \E a \in Attachments : Upload(a)

TicketWrites ==
    \/ \E t \in Tickets, A \in SUBSET Attachments :
         \/ \E c \in Charges \union {NoCharge} : CreateTicket(t, c, A)
         \/ AdminNotes(t, A)
    \/ \E t \in Tickets, s \in Live : AdminSetsStatus(t, s)
    \/ \E h \in Handlers :
         \/ \E t \in Tickets : CommitReport(h, t)
         \/ \E A \in SUBSET Attachments : CommitReply(h, A) \/ AdminReplies(h, A)
         \/ CommitClose(h) \/ DeleteRows(h)
    \/ \E a \in Attachments : Presign(a)
=============================================================================
