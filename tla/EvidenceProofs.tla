--------------------------- MODULE EvidenceProofs ---------------------------
(* Tickets and debug objects, for any tickets, charges, attachments and      *)
(* handlers: SupportInv is inductive, no object of a charge with an open     *)
(* ticket is removed, and no ticket that waits for an admin is closed.       *)
EXTENDS Evidence, TLAPS

(* Both halves hold at the start.                                            *)
LEMMA SupportInitInv == Init => SupportInv
  <1> SUFFICES ASSUME Init PROVE SupportInv
    OBVIOUS
  <1>1. TicketInv
    BY TicketsAssumption
    DEF Init, TicketsInit, TicketInv, TicketsTypeOK, ReadsAreOfTickets, ClosedHasDate, BoundToTicket,
        UnheardAwaitsAdmin, Terminal
  <1>2. ObjectInv
    BY TicketsAssumption, EvidenceAssumption
    DEF Init, ObjectInv, EvidenceTypeOK, KeysLeadToObjects, HandlersHoldObjects, CleanedIsUnreported, Ended
  <1> QED
    BY <1>1, <1>2 DEF SupportInv

-----------------------------------------------------------------------------
(* The tickets.  Handlers that end, and attachments that are bound.          *)
LEMMA OverKeeps ==
    ASSUME TicketInv, NEW H, Over(H)
    PROVE /\ hstage' \in [Handlers -> {"idle", "reporting", "replying", "answering", "closing",
                                       "counting", "emptying", "deleting"}]
          /\ on' \in [Handlers -> Tickets \union {"none"}]
          /\ read' \in [Handlers -> (Live \ Terminal) \union {"none"}]
          /\ stamp' \in [Handlers -> 0..MaxClock]
          /\ reported' \in [Handlers -> Charges \union {NoCharge}]
          /\ \A h \in Handlers :
               \/ hstage'[h] = "idle"
               \/ hstage'[h] = hstage[h] /\ on'[h] = on[h] /\ read'[h] = read[h]
  BY TicketsAssumption DEF Over, TicketInv, TicketsTypeOK

(* What a step must see to for the tickets to stay consistent, when handlers *)
(* only end and attachments only go from ticket to ticket: the tickets       *)
(* whose status it changes.                                                  *)
LEMMA OtherTickets ==
    ASSUME TicketInv, TicketsTypeOK',
           NEW T \in SUBSET Tickets,
           \A t \in Tickets \ T :
              /\ tstatus'[t] = tstatus[t]
              /\ closedAt'[t] = closedAt[t]
              /\ t \in unheard' => t \in unheard,
           \A t \in T :
              /\ tstatus'[t] # "none"
              /\ tstatus'[t] \in Terminal => closedAt'[t]
              /\ t \in unheard' => tstatus'[t] # "waiting_user",
           \A h \in Handlers :
              \/ hstage'[h] = "idle"
              \/ hstage'[h] = hstage[h] /\ on'[h] = on[h] /\ read'[h] = read[h],
           \A a \in Attachments : att'[a] \in Tickets => tstatus'[att'[a]] \in Live
    PROVE TicketInv'
  <1>1. ReadsAreOfTickets'
    BY DEF TicketInv, ReadsAreOfTickets, TicketsTypeOK
  <1>2. ClosedHasDate'
    BY DEF TicketInv, ClosedHasDate
  <1>3. BoundToTicket'
    BY DEF BoundToTicket, Exists
  <1>4. UnheardAwaitsAdmin'
    BY DEF TicketInv, UnheardAwaitsAdmin, TicketsTypeOK
  <1> QED
    BY <1>1, <1>2, <1>3, <1>4 DEF TicketInv

(* A new ticket, with its attachments.                                       *)
LEMMA InsertKeeps ==
    ASSUME TicketInv, NEW t \in Tickets, NEW c \in Charges \union {NoCharge}, Insert(t, c)
    PROVE /\ tstatus' \in [Tickets -> Live \union {"none", "deleted"}]
          /\ about' \in [Tickets -> Charges \union {NoCharge}]
          /\ unheard' \subseteq Tickets
          /\ lastUser' \in [Tickets -> -1..MaxClock]
          /\ tstatus'[t] = "open"
          /\ \A u \in Tickets \ {t} : tstatus'[u] = tstatus[u] /\ (u \in unheard' => u \in unheard)
          /\ \A u \in Tickets : Exists(u) => tstatus'[u] \in Live
  BY TicketsAssumption DEF TicketInv, TicketsTypeOK, Insert, Live, Terminal, Exists

LEMMA BindKeeps ==
    ASSUME TicketInv, NEW t \in Tickets, NEW A, Bind(A, t), tstatus'[t] \in Live,
           \A u \in Tickets : Exists(u) => tstatus'[u] \in Live
    PROVE /\ att' \in [Attachments -> {"none", "unbound", "gone"} \union Tickets]
          /\ \A a \in Attachments : att'[a] \in Tickets => tstatus'[att'[a]] \in Live
  <1>1. \A a \in Attachments : att'[a] = t \/ att'[a] = att[a]
    BY DEF Bind
  <1>2. att' \in [Attachments -> {"none", "unbound", "gone"} \union Tickets]
    BY DEF Bind, TicketInv, TicketsTypeOK
  <1>3. ASSUME NEW a \in Attachments, att'[a] \in Tickets PROVE tstatus'[att'[a]] \in Live
    BY <1>1, <1>3 DEF TicketInv, BoundToTicket, Exists, Live
  <1> QED
    BY <1>2, <1>3

LEMMA CreateTicketKeeps ==
    ASSUME TicketInv, NEW t \in Tickets, NEW c \in Charges \union {NoCharge}, NEW A, CreateTicket(t, c, A)
    PROVE TicketInv'
  <1>1. Insert(t, c) /\ Bind(A, t)
    BY DEF CreateTicket
  <1>2. att' \in [Attachments -> {"none", "unbound", "gone"} \union Tickets]
        /\ \A a \in Attachments : att'[a] \in Tickets => tstatus'[att'[a]] \in Live
    BY <1>1, InsertKeeps, BindKeeps DEF Live
  <1>3. TicketsTypeOK'
    BY <1>1, <1>2, InsertKeeps DEF CreateTicket, TicketInv, TicketsTypeOK
  <1> QED
    BY <1>1, <1>2, <1>3, InsertKeeps, OtherTickets, {t} \in SUBSET Tickets DEF CreateTicket, Terminal

LEMMA CommitReportKeeps ==
    ASSUME TicketInv, NEW h \in Handlers, NEW t \in Tickets, CommitReport(h, t)
    PROVE TicketInv'
  <1>1. Insert(t, reported[h]) /\ Over({h}) /\ reported[h] \in Charges \union {NoCharge}
    BY DEF CommitReport, TicketInv, TicketsTypeOK
  <1>2. \A a \in Attachments : att'[a] \in Tickets => tstatus'[att'[a]] \in Live
    BY <1>1, InsertKeeps DEF CommitReport, TicketInv, BoundToTicket, Exists
  <1>3. TicketsTypeOK'
    BY <1>1, InsertKeeps, OverKeeps DEF CommitReport, TicketInv, TicketsTypeOK
  <1>4. \A g \in Handlers :
           hstage'[g] = "idle" \/ (hstage'[g] = hstage[g] /\ on'[g] = on[g] /\ read'[g] = read[g])
    BY <1>1, OverKeeps
  <1> QED
    BY <1>1, <1>2, <1>3, <1>4, InsertKeeps, OtherTickets, {t} \in SUBSET Tickets
    DEF CommitReport, Terminal

(* Steps of the handlers that change no ticket.                              *)
LEMMA HandlersReadKeeps ==
    ASSUME TicketInv, NEW h \in Handlers,
           \/ \E t \in Tickets, next \in {"replying", "closing", "counting"} : Begin(h, t, next)
           \/ \E t \in Tickets : AdminBegins(h, t)
           \/ \E c \in Charges : BeginReport(h, c)
           \/ CountReplies(h) \/ RemoveTicketFiles(h) \/ GiveUp(h)
    PROVE TicketInv'
  <1> USE DEF TicketInv, TicketsTypeOK
  <1>1. UNCHANGED <<tstatus, closedAt, unheard, att>>
    BY DEF Begin, AdminBegins, BeginReport, CountReplies, RemoveTicketFiles, GiveUp
  <1>2. ClosedHasDate' /\ UnheardAwaitsAdmin' /\ BoundToTicket'
    BY <1>1 DEF ClosedHasDate, UnheardAwaitsAdmin, BoundToTicket, Exists
  <1>3. ASSUME NEW t \in Tickets, NEW next \in {"replying", "closing", "counting"}, Begin(h, t, next)
        PROVE TicketsTypeOK' /\ ReadsAreOfTickets'
    <2>1. tstatus[t] \in Live \ Terminal
      BY <1>3 DEF Begin, OpenTickets
    <2>2. TicketsTypeOK'
      BY <1>3, <2>1 DEF Begin
    <2>3. \A g \in Handlers \ {h} : hstage'[g] = hstage[g] /\ on'[g] = on[g] /\ read'[g] = read[g]
      BY <1>3 DEF Begin
    <2>4. on'[h] = t /\ (hstage'[h] = "replying" => read'[h] = tstatus[t]) /\ tstatus[t] # "none"
      BY <1>3, <2>1 DEF Begin, Live, Terminal
    <2>5. t # "none"
      BY TicketsAssumption
    <2> QED
      BY <1>1, <2>2, <2>3, <2>4, <2>5 DEF ReadsAreOfTickets
  <1>4. ASSUME NEW c \in Charges, BeginReport(h, c)
        PROVE TicketsTypeOK' /\ ReadsAreOfTickets'
    BY <1>4 DEF BeginReport, ReadsAreOfTickets
  <1>5. ASSUME CountReplies(h) \/ RemoveTicketFiles(h)
        PROVE TicketsTypeOK' /\ ReadsAreOfTickets'
    BY <1>5 DEF CountReplies, RemoveTicketFiles, ReadsAreOfTickets
  <1>6. ASSUME GiveUp(h) PROVE TicketsTypeOK' /\ ReadsAreOfTickets'
    <2>1. TicketsTypeOK'
      BY <1>6, OverKeeps DEF GiveUp
    <2>2. ReadsAreOfTickets'
      BY <1>6, OverKeeps DEF GiveUp, ReadsAreOfTickets
    <2> QED
      BY <2>1, <2>2
  <1>7. ASSUME NEW t \in Tickets, AdminBegins(h, t)
        PROVE TicketsTypeOK' /\ ReadsAreOfTickets'
    <2>1. TicketsTypeOK'
      BY <1>7 DEF AdminBegins
    <2>2. \A g \in Handlers \ {h} : hstage'[g] = hstage[g] /\ on'[g] = on[g] /\ read'[g] = read[g]
      BY <1>7 DEF AdminBegins
    <2>3. on'[h] = t /\ hstage'[h] = "answering" /\ tstatus[t] # "none"
      BY <1>7 DEF AdminBegins, Exists, Live, Terminal
    <2>4. t # "none"
      BY TicketsAssumption
    <2> QED
      BY <1>1, <2>1, <2>2, <2>3, <2>4 DEF ReadsAreOfTickets
  <1> QED
    BY <1>2, <1>3, <1>4, <1>5, <1>6, <1>7

(* A reply derives the status from one that was read of a ticket not yet     *)
(* closed: whatever it has become, it then waits for the admin.              *)
LEMMA CommitReplyKeeps ==
    ASSUME TicketInv, NEW h \in Handlers, NEW A, CommitReply(h, A)
    PROVE TicketInv'
  <1> DEFINE t == on[h]
  <1>1. t \in Tickets /\ read[h] \in Live \ Terminal
    BY DEF CommitReply, TicketInv, ReadsAreOfTickets, TicketsTypeOK
  <1>2. Bind(A, t) /\ Over({h}) /\ Exists(t)
    BY DEF CommitReply
  <1>3. tstatus' = [tstatus EXCEPT ![t] = NextStatus(read[h])]
        /\ NextStatus(read[h]) \in (Live \ Terminal) \ {"waiting_user"}
    BY <1>1 DEF CommitReply, NextStatus, Live, Terminal
  <1> HIDE DEF t
  <1>4. tstatus' \in [Tickets -> Live \union {"none", "deleted"}]
        /\ tstatus'[t] \in (Live \ Terminal) \ {"waiting_user"}
        /\ \A u \in Tickets : Exists(u) => tstatus'[u] \in Live
    BY <1>1, <1>3 DEF TicketInv, TicketsTypeOK, Exists
  <1>5. att' \in [Attachments -> {"none", "unbound", "gone"} \union Tickets]
        /\ \A a \in Attachments : att'[a] \in Tickets => tstatus'[att'[a]] \in Live
    BY <1>1, <1>2, <1>4, BindKeeps
  <1>6. unheard' = unheard \union {t} /\ UNCHANGED <<clock, about, usage, closedAt, lastAdmin, file>>
    BY DEF CommitReply, t
  <1>7. lastUser' \in [Tickets -> -1..MaxClock]
    BY <1>1, TicketsAssumption DEF CommitReply, t, TicketInv, TicketsTypeOK, Later
  <1>8. TicketsTypeOK'
    BY <1>1, <1>2, <1>4, <1>5, <1>6, <1>7, OverKeeps DEF TicketInv, TicketsTypeOK
  <1>9. \A g \in Handlers :
           hstage'[g] = "idle" \/ (hstage'[g] = hstage[g] /\ on'[g] = on[g] /\ read'[g] = read[g])
    BY <1>2, OverKeeps
  <1>10. \A u \in Tickets \ {t} :
            tstatus'[u] = tstatus[u] /\ closedAt'[u] = closedAt[u] /\ (u \in unheard' => u \in unheard)
    BY <1>3, <1>6 DEF TicketInv, TicketsTypeOK
  <1>11. tstatus'[t] \notin Terminal /\ tstatus'[t] # "none" /\ tstatus'[t] # "waiting_user"
    BY <1>4 DEF Live, Terminal
  <1> QED
    BY <1>1, <1>5, <1>8, <1>9, <1>10, <1>11, OtherTickets, {t} \in SUBSET Tickets

LEMMA CommitCloseKeeps ==
    ASSUME TicketInv, NEW h \in Handlers, CommitClose(h)
    PROVE TicketInv'
  <1> DEFINE t == on[h]
  <1>1. t \in Tickets
    BY DEF CommitClose, TicketInv, ReadsAreOfTickets, TicketsTypeOK
  <1>2. /\ Exists(t) /\ Over({h})
        /\ tstatus' = [tstatus EXCEPT ![t] = "closed"]
        /\ closedAt' = [closedAt EXCEPT ![t] = TRUE]
        /\ UNCHANGED <<clock, about, usage, lastUser, lastAdmin, unheard, att, file>>
    BY DEF CommitClose
  <1> HIDE DEF t
  <1>3. TicketsTypeOK'
    BY <1>1, <1>2, OverKeeps DEF TicketInv, TicketsTypeOK, Live, Terminal
  <1>4. \A g \in Handlers :
           hstage'[g] = "idle" \/ (hstage'[g] = hstage[g] /\ on'[g] = on[g] /\ read'[g] = read[g])
    BY <1>2, OverKeeps
  <1>5. \A a \in Attachments : att'[a] \in Tickets => tstatus'[att'[a]] \in Live
    BY <1>1, <1>2 DEF TicketInv, TicketsTypeOK, BoundToTicket, Exists, Live, Terminal
  <1>6. tstatus'[t] = "closed" /\ closedAt'[t]
        /\ \A u \in Tickets \ {t} : tstatus'[u] = tstatus[u] /\ closedAt'[u] = closedAt[u]
    BY <1>1, <1>2 DEF TicketInv, TicketsTypeOK
  <1> QED
    BY <1>1, <1>2, <1>3, <1>4, <1>5, <1>6, OtherTickets, {t} \in SUBSET Tickets

(* With a ticket go its attachments.                                         *)
LEMMA DeleteRowsKeeps ==
    ASSUME TicketInv, NEW h \in Handlers, DeleteRows(h)
    PROVE TicketInv'
  <1> DEFINE t == on[h]
  <1>1. t \in Tickets
    BY DEF DeleteRows, TicketInv, ReadsAreOfTickets, TicketsTypeOK
  <1>2. /\ Exists(t) /\ Over({h})
        /\ att' = [a \in Attachments |-> IF att[a] = t THEN "gone" ELSE att[a]]
        /\ tstatus' = [tstatus EXCEPT ![t] = "deleted"]
        /\ about' = [about EXCEPT ![t] = NoCharge]
        /\ usage' = usage \ {t}
        /\ closedAt' = [closedAt EXCEPT ![t] = FALSE]
        /\ lastUser' = [lastUser EXCEPT ![t] = -1]
        /\ lastAdmin' = [lastAdmin EXCEPT ![t] = -1]
        /\ unheard' = unheard \ {t}
        /\ UNCHANGED <<clock, file>>
    BY DEF DeleteRows
  <1> HIDE DEF t
  <1>3. TicketsTypeOK'
    <2>1. -1 \in -1..MaxClock
      BY TicketsAssumption
    <2> QED
      BY <1>1, <1>2, <2>1, OverKeeps DEF TicketInv, TicketsTypeOK
  <1>4. \A g \in Handlers :
           hstage'[g] = "idle" \/ (hstage'[g] = hstage[g] /\ on'[g] = on[g] /\ read'[g] = read[g])
    BY <1>2, OverKeeps
  <1>5. tstatus'[t] = "deleted" /\ t \notin unheard'
        /\ \A u \in Tickets \ {t} :
             tstatus'[u] = tstatus[u] /\ closedAt'[u] = closedAt[u] /\ (u \in unheard' => u \in unheard)
    BY <1>1, <1>2 DEF TicketInv, TicketsTypeOK
  <1>6. \A a \in Attachments : att'[a] \in Tickets => att'[a] = att[a] /\ att[a] # t
    BY <1>2, TicketsAssumption DEF TicketInv, TicketsTypeOK
  <1>7. \A a \in Attachments : att'[a] \in Tickets => tstatus'[att'[a]] \in Live
    BY <1>5, <1>6 DEF TicketInv, BoundToTicket, Exists
  <1>8. tstatus'[t] # "none" /\ tstatus'[t] \notin Terminal
    BY <1>5 DEF Terminal
  <1> QED
    BY <1>1, <1>3, <1>4, <1>5, <1>7, <1>8, OtherTickets, {t} \in SUBSET Tickets

(* An answer of the admin, whatever the ticket has become since it began.    *)
LEMMA AdminRepliesKeeps ==
    ASSUME TicketInv, NEW h \in Handlers, NEW A, AdminReplies(h, A)
    PROVE TicketInv'
  <1> DEFINE t == on[h]
             answered == IF tstatus[t] \in Terminal THEN tstatus[t] ELSE "waiting_user"
  <1>1. t \in Tickets
    BY DEF AdminReplies, TicketInv, ReadsAreOfTickets, TicketsTypeOK
  <1>2. /\ Bind(A, t) /\ Over({h}) /\ Exists(t)
        /\ tstatus' = [tstatus EXCEPT ![t] = answered]
        /\ unheard' = unheard \ {t}
        /\ UNCHANGED <<clock, about, usage, closedAt, lastUser, file>>
    BY DEF AdminReplies
  <1>3. lastAdmin' \in [Tickets -> -1..MaxClock]
    BY <1>1, TicketsAssumption DEF AdminReplies, TicketInv, TicketsTypeOK, Later
  <1> HIDE DEF t
  <1>4. answered \in Live /\ (answered \in Terminal => closedAt[t])
    BY <1>1, <1>2 DEF TicketInv, ClosedHasDate, Live, Terminal
  <1> HIDE DEF answered
  <1>5. /\ tstatus' \in [Tickets -> Live \union {"none", "deleted"}]
        /\ tstatus'[t] = answered
        /\ \A u \in Tickets : Exists(u) => tstatus'[u] \in Live
        /\ \A u \in Tickets \ {t} : tstatus'[u] = tstatus[u]
    BY <1>1, <1>2, <1>4 DEF TicketInv, TicketsTypeOK, Exists
  <1>6. /\ att' \in [Attachments -> {"none", "unbound", "gone"} \union Tickets]
        /\ \A a \in Attachments : att'[a] \in Tickets => tstatus'[att'[a]] \in Live
    BY <1>1, <1>2, <1>4, <1>5, BindKeeps
  <1>7. TicketsTypeOK'
    BY <1>2, <1>3, <1>5, <1>6, OverKeeps DEF TicketInv, TicketsTypeOK
  <1>8. \A g \in Handlers :
           hstage'[g] = "idle" \/ (hstage'[g] = hstage[g] /\ on'[g] = on[g] /\ read'[g] = read[g])
    BY <1>2, OverKeeps
  <1>9. tstatus'[t] # "none" /\ (tstatus'[t] \in Terminal => closedAt'[t]) /\ t \notin unheard'
    BY <1>2, <1>4, <1>5 DEF Live, Terminal
  <1>10. \A u \in Tickets \ {t} :
            tstatus'[u] = tstatus[u] /\ closedAt'[u] = closedAt[u] /\ (u \in unheard' => u \in unheard)
    BY <1>2, <1>5
  <1> QED
    BY <1>1, <1>6, <1>7, <1>8, <1>9, <1>10, OtherTickets, {t} \in SUBSET Tickets

(* The admin's notes, and any status that is set by hand.                    *)
LEMMA AdminKeeps ==
    ASSUME TicketInv, NEW t \in Tickets, NEW A, NEW s \in Live,
           AdminNotes(t, A) \/ AdminSetsStatus(t, s)
    PROVE TicketInv'
  <1>1. /\ tstatus' \in [Tickets -> Live \union {"none", "deleted"}]
        /\ tstatus'[t] \in Live
        /\ \A u \in Tickets \ {t} : tstatus'[u] = tstatus[u]
    BY DEF AdminNotes, AdminSetsStatus, TicketInv, TicketsTypeOK, Exists, Live
  <1>2. /\ closedAt' \in [Tickets -> BOOLEAN]
        /\ tstatus'[t] \in Terminal => closedAt'[t]
        /\ \A u \in Tickets \ {t} : closedAt'[u] = closedAt[u]
    BY DEF AdminNotes, AdminSetsStatus, TicketInv, TicketsTypeOK, ClosedHasDate, Terminal
  <1>3. /\ unheard' \subseteq unheard
        /\ t \in unheard' => tstatus'[t] # "waiting_user"
    BY DEF AdminNotes, AdminSetsStatus, TicketInv, UnheardAwaitsAdmin
  <1>4. \A u \in Tickets : Exists(u) => tstatus'[u] \in Live
    BY <1>1 DEF Exists
  <1>5. /\ att' \in [Attachments -> {"none", "unbound", "gone"} \union Tickets]
        /\ \A a \in Attachments : att'[a] \in Tickets => tstatus'[att'[a]] \in Live
    <2>1. CASE Bind(A, t)
      BY <1>1, <1>4, <2>1, BindKeeps
    <2>2. CASE AdminSetsStatus(t, s)
      BY <1>4, <2>2 DEF AdminSetsStatus, TicketInv, TicketsTypeOK, BoundToTicket
    <2> QED
      BY <2>1, <2>2 DEF AdminNotes
  <1>6. lastAdmin' \in [Tickets -> -1..MaxClock]
    BY DEF AdminNotes, AdminSetsStatus, TicketInv, TicketsTypeOK
  <1>7. UNCHANGED <<clock, about, usage, lastUser, hstage, on, read, stamp, reported, file>>
    BY DEF AdminNotes, AdminSetsStatus
  <1>8. TicketsTypeOK'
    BY <1>1, <1>2, <1>3, <1>5, <1>6, <1>7 DEF TicketInv, TicketsTypeOK
  <1>9. tstatus'[t] # "none"
    BY <1>1 DEF Live, Terminal
  <1> QED
    BY <1>1, <1>2, <1>3, <1>5, <1>7, <1>8, <1>9, OtherTickets, {t} \in SUBSET Tickets

(* The clock, uploads and new attachments, and what maintenance does to the  *)
(* attachments it swept.                                                     *)
LEMMA FilesKeep ==
    ASSUME TicketInv,
           \/ Tick \/ \E a \in Attachments : Upload(a) \/ Presign(a)
           \/ SweepFiles \/ SweepRows
    PROVE TicketInv'
  <1> USE DEF TicketInv, TicketsTypeOK
  <1>1. UNCHANGED <<tstatus, about, usage, closedAt, lastUser, lastAdmin, unheard, hstage, on, read,
                    stamp, reported>>
    BY DEF Tick, Upload, Presign, SweepFiles, SweepRows
  <1>2. clock' \in 0..MaxClock
    BY TicketsAssumption DEF Tick, Upload, Presign, SweepFiles, SweepRows
  <1>3. att' \in [Attachments -> {"none", "unbound", "gone"} \union Tickets] /\ file' \subseteq Attachments
        /\ \A a \in Attachments : att'[a] \in Tickets => att'[a] = att[a]
    BY TicketsAssumption DEF Tick, Upload, Presign, SweepFiles, SweepRows
  <1>4. TicketsTypeOK'
    BY <1>1, <1>2, <1>3
  <1> QED
    BY <1>1, <1>3, <1>4
    DEF ReadsAreOfTickets, ClosedHasDate, BoundToTicket, UnheardAwaitsAdmin, Exists

LEMMA AutoCloseKeeps ==
    ASSUME TicketInv, NEW t \in Tickets, AutoClose(t)
    PROVE TicketInv'
  <1> USE DEF TicketInv, TicketsTypeOK
  <1>1. /\ tstatus'[t] = (IF tstatus[t] = "waiting_user" THEN "closed" ELSE tstatus[t])
        /\ tstatus' \in [Tickets -> Live \union {"none", "deleted"}]
        /\ \A u \in Tickets \ {t} : tstatus'[u] = tstatus[u]
    BY DEF AutoClose, AutoClosed, Live, Terminal
  <1>2. /\ closedAt' \in [Tickets -> BOOLEAN]
        /\ closedAt'[t] = (closedAt[t] \/ tstatus[t] = "waiting_user")
        /\ \A u \in Tickets \ {t} : closedAt'[u] = closedAt[u]
    BY DEF AutoClose, AutoClosed
  <1>3. UNCHANGED <<clock, about, usage, lastUser, lastAdmin, unheard, hstage, on, read,
                    stamp, reported, att, file>>
    BY DEF AutoClose
  <1>4. TicketsTypeOK'
    BY <1>1, <1>2, <1>3
  <1>5. ReadsAreOfTickets'
    BY <1>1, <1>3 DEF ReadsAreOfTickets
  <1>6. ClosedHasDate'
    BY <1>1, <1>2 DEF ClosedHasDate
  <1>7. BoundToTicket'
    BY <1>1, <1>3 DEF BoundToTicket, Exists, Live, Terminal
  <1>8. UnheardAwaitsAdmin'
    BY <1>1, <1>3 DEF UnheardAwaitsAdmin
  <1> QED
    BY <1>4, <1>5, <1>6, <1>7, <1>8

LEMMA TicketInvUnchanged ==
    ASSUME TicketInv, UNCHANGED ticketVars
    PROVE TicketInv'
  BY DEF ticketVars, TicketInv, TicketsTypeOK, ReadsAreOfTickets, ClosedHasDate, BoundToTicket,
         UnheardAwaitsAdmin, Exists

LEMMA CrashKeepsTickets ==
    ASSUME TicketInv, Crash
    PROVE TicketInv'
  <1>1. Over(Handlers)
        /\ UNCHANGED <<clock, tstatus, about, usage, closedAt, lastUser, lastAdmin, unheard, att, file>>
    BY DEF Crash
  <1>2. TicketsTypeOK' /\ ReadsAreOfTickets'
    BY <1>1, OverKeeps DEF TicketInv, TicketsTypeOK, ReadsAreOfTickets
  <1> QED
    BY <1>1, <1>2 DEF TicketInv, ClosedHasDate, BoundToTicket, UnheardAwaitsAdmin, Exists

LEMMA TicketInvStep ==
    ASSUME TicketInv, [Next]_vars
    PROVE TicketInv'
  <1>1. CASE TicketReads
    BY <1>1, FilesKeep, HandlersReadKeeps DEF TicketReads
  <1>2. CASE TicketWrites
    <2>1. ASSUME NEW t \in Tickets, NEW A, AdminNotes(t, A) PROVE TicketInv'
      BY <2>1, AdminKeeps, "open" \in Live DEF Live
    <2>2. ASSUME NEW t \in Tickets, NEW s \in Live, AdminSetsStatus(t, s) PROVE TicketInv'
      BY <2>2, AdminKeeps
    <2> QED
      BY <1>2, <2>1, <2>2, CreateTicketKeeps, CommitReportKeeps, CommitReplyKeeps, CommitCloseKeeps,
         AdminRepliesKeeps, DeleteRowsKeeps, FilesKeep
      DEF TicketWrites
  <1>3. CASE \E h \in Handlers, c \in Charges : Report(h, c)
    BY <1>3, HandlersReadKeeps DEF Report
  <1>4. CASE SweepFiles \/ SweepRows \/ Tick
    BY <1>4, FilesKeep
  <1>5. CASE \E t \in Tickets : CloseSilent(t)
    BY <1>5, AutoCloseKeeps, TicketInvUnchanged DEF CloseSilent
  <1>6. CASE Crash
    BY <1>6, CrashKeepsTickets
  <1>7. CASE UNCHANGED ticketVars
    BY <1>7, TicketInvUnchanged
  <1> QED
    BY <1>1, <1>2, <1>3, <1>4, <1>5, <1>6, <1>7
    DEF Next, OthersStep, WorkerStep, SelectAttachments, SelectSilent, SilentDone, SelectExpired,
        SelectOrphans, SelectObjects, ObjectsDone, Lock, RemoveFile, CommitClean, CleanFails, vars

-----------------------------------------------------------------------------
(* The objects.  The types.                                                  *)
LEMMA ObjectTypeStep ==
    ASSUME EvidenceTypeOK, [Next]_vars
    PROVE EvidenceTypeOK'
  <1> USE EvidenceAssumption DEF EvidenceTypeOK
  <1>1. ASSUME NEW c \in Charges, RequestReads(c), UNCHANGED workerVars PROVE EvidenceTypeOK'
    <2>1. ASSUME NEW o \in {"body", "meta"}, NEW from, PutObject(c, from, o, o) PROVE EvidenceTypeOK'
      <3>1. onDisk' \in [Charges -> SUBSET {"body", "meta"}]
        BY <2>1 DEF PutObject
      <3>2. at' \in [Charges -> {"idle", "body", "bodyRef", "serving", "meta", "metaRef", "over"}]
        BY <2>1 DEF PutObject
      <3> QED
        BY <1>1, <2>1, <3>1, <3>2 DEF PutObject, workerVars
    <2>2. ASSUME Leave(c) \/ Age(c) PROVE EvidenceTypeOK'
      BY <1>1, <2>2 DEF Leave, Age, workerVars
    <2> QED
      BY <1>1, <2>1, <2>2 DEF RequestReads, PutBody, PutMeta
  <1>2. ASSUME NEW c \in Charges, RequestWrites(c), UNCHANGED workerVars PROVE EvidenceTypeOK'
    <2>1. ASSUME NEW o \in {"body", "meta"}, NEW to \in {"bodyRef", "metaRef"}, RecordObject(c, o, to)
          PROVE EvidenceTypeOK'
      BY <1>2, <2>1 DEF RecordObject, workerVars
    <2>2. ASSUME Reserve(c) \/ SettleRow(c) PROVE EvidenceTypeOK'
      <3>1. row' \in [Charges -> {"none", "reserved", "needs_review"} \union Ended]
        BY <2>2 DEF Reserve, SettleRow, Ended
      <3>2. keys' \in [Charges -> SUBSET {"body", "meta"}]
        BY <2>2 DEF Reserve, SettleRow
      <3>3. at' \in [Charges -> {"idle", "body", "bodyRef", "serving", "meta", "metaRef", "over"}]
        BY <2>2 DEF Reserve, SettleRow
      <3> QED
        BY <1>2, <2>2, <3>1, <3>2, <3>3 DEF Reserve, SettleRow, workerVars
    <2>3. ASSUME NEW s \in {"failed_released", "needs_review"}, EndUnsettled(c, s) PROVE EvidenceTypeOK'
      BY <1>2, <2>3 DEF EndUnsettled, workerVars, Ended
    <2> QED
      BY <1>2, <2>1, <2>2, <2>3 DEF RequestWrites, RecordBody, RecordMeta
  <1>3. ASSUME NEW c \in Charges, Lock(c) PROVE EvidenceTypeOK'
    BY <1>3 DEF Lock, evidenceVars
  <1>4. ASSUME NEW o \in {"body", "meta"}, RemoveFile(o) PROVE EvidenceTypeOK'
    BY <1>4 DEF RemoveFile
  <1>5. ASSUME CommitClean PROVE EvidenceTypeOK'
    BY <1>5 DEF CommitClean
  <1>6. ASSUME CleanFails \/ Crash PROVE EvidenceTypeOK'
    <2>1. faults' \in 0..MaxFaults
      BY <1>6 DEF CleanFails, Crash
    <2>2. at' \in [Charges -> {"idle", "body", "bodyRef", "serving", "meta", "metaRef", "over"}]
      BY <1>6 DEF CleanFails, Crash, evidenceVars
    <2> QED
      BY <1>6, <2>1, <2>2 DEF CleanFails, Crash, evidenceVars
  <1>7. ASSUME UNCHANGED <<evidenceVars, cleaning, gone, faults>> PROVE EvidenceTypeOK'
    BY <1>7 DEF evidenceVars
  <1> QED
    BY <1>1, <1>2, <1>3, <1>4, <1>5, <1>6, <1>7
    DEF Next, OthersStep, WorkerStep, Enter, SelectAttachments, SelectSilent, SilentDone, SelectExpired,
        SelectOrphans, SelectObjects, ObjectsDone, SweepFiles, SweepRows, CloseSilent, vars, workerVars

(* While maintenance holds the lock, what it rechecked stays so: no row, no  *)
(* key, no ticket changes.                                                   *)
LEMMA LockHolds ==
    ASSUME UNCHANGED <<row, keys, refs, tstatus, about, mstage, cleaning>>,
           old \subseteq old', Recheck(cleaning)
    PROVE Recheck(cleaning)'
  <1>1. OpenOn(cleaning)' <=> OpenOn(cleaning)
    BY DEF OpenOn, OpenTickets
  <1> QED
    BY <1>1 DEF Recheck, Expired, Orphaned

(* The request's handler touches what is its own.                            *)
LEMMA RequestKeeps ==
    ASSUME ObjectInv, EvidenceTypeOK', NEW c \in Charges,
           RequestReads(c) \/ (Unlocked /\ RequestWrites(c)),
           UNCHANGED <<ticketVars, workerVars>>
    PROVE KeysLeadToObjects' /\ HandlersHoldObjects'
  <1> USE DEF ObjectInv, EvidenceTypeOK
  <1> DEFINE Good(d) ==
        /\ keys[d] \subseteq refs[d]
        /\ row[d] = "none" => keys[d] = {}
        /\ "meta" \in keys[d] => row[d] = "settled"
        /\ ~(d \in old /\ row[d] \in Ended) => keys[d] \subseteq onDisk[d]
        /\ row[d] # "none" /\ "body" \in onDisk[d] => "body" \in keys[d]
        /\ at[d] \in {"idle", "body", "bodyRef"} => row[d] = "none" /\ d \notin old
        /\ at[d] = "serving" => row[d] # "none"
        /\ at[d] \in {"meta", "metaRef"} => row[d] # "none" /\ "meta" \in onDisk[d]
        /\ at[d] \in {"body", "bodyRef"} => "body" \in onDisk[d]
        /\ at[d] = "idle" => onDisk[d] = {}
        /\ at[d] = "bodyRef" => "body" \in refs[d]
        /\ at[d] = "metaRef" => "meta" \in refs[d]
        /\ row[d] = "none" => "meta" \notin refs[d]
        /\ row[d] = "settled" => at[d] = "over"
        /\ d \in old => at[d] \in {"over", "meta", "metaRef"}
  <1>1. SUFFICES \A d \in Charges : Good(d)'
    BY DEF KeysLeadToObjects, HandlersHoldObjects
  <1>2. \A d \in Charges : Good(d)
    BY DEF KeysLeadToObjects, HandlersHoldObjects
  <1>3. \A d \in Charges \ {c} :
           /\ row'[d] = row[d] /\ keys'[d] = keys[d] /\ refs'[d] = refs[d]
           /\ onDisk'[d] = onDisk[d] /\ at'[d] = at[d] /\ (d \in old' <=> d \in old)
    BY DEF RequestReads, RequestWrites, PutBody, PutMeta, PutObject, RecordBody, RecordMeta, RecordObject,
           Reserve, SettleRow, Leave, EndUnsettled, Age
  <1>4. \A d \in Charges \ {c} : Good(d)'
    BY <1>2, <1>3
  <1>5. Good(c)'
    <2>1. ASSUME PutBody(c) PROVE Good(c)'
      BY <1>2, <2>1 DEF PutBody, PutObject, Ended
    <2>2. ASSUME PutMeta(c) PROVE Good(c)'
      BY <1>2, <2>2 DEF PutMeta, PutObject, Ended
    <2>3. ASSUME RecordBody(c) \/ RecordMeta(c) PROVE Good(c)'
      BY <1>2, <2>3 DEF RecordBody, RecordMeta, RecordObject, Ended
    <2>4. ASSUME Reserve(c) PROVE Good(c)'
      BY <1>2, <2>4 DEF Reserve, Ended
    <2>5. ASSUME SettleRow(c) PROVE Good(c)'
      BY <1>2, <2>5 DEF SettleRow, Ended
    <2>6. ASSUME Leave(c) \/ Age(c) PROVE Good(c)'
      BY <1>2, <2>6 DEF Leave, Age, Ended
    <2>7. ASSUME NEW s \in {"failed_released", "needs_review"}, EndUnsettled(c, s) PROVE Good(c)'
      BY <1>2, <2>7 DEF EndUnsettled, Ended
    <2> QED
      BY <2>1, <2>2, <2>3, <2>4, <2>5, <2>6, <2>7 DEF RequestReads, RequestWrites
  <1> QED
    BY <1>4, <1>5

(* Objects are removed only of a charge that is over, and its keys go only   *)
(* when its files have gone.                                                 *)
LEMMA RemoveFileKeeps ==
    ASSUME ObjectInv, NEW o \in {"body", "meta"}, RemoveFile(o)
    PROVE KeysLeadToObjects' /\ HandlersHoldObjects' /\ CleanedIsUnreported'
  <1> USE DEF ObjectInv, EvidenceTypeOK
  <1> DEFINE c == cleaning
  <1>1. c \in Charges /\ Recheck(c) /\ mstage \in {"expired", "orphaned"} /\ o \in Doomed
    BY DEF RemoveFile, CleanedIsUnreported
  <1>2. UNCHANGED <<row, keys, refs, old, at, mstage, cleaning, tstatus, about>>
    BY DEF RemoveFile, ticketVars
  <1>3. onDisk' = [onDisk EXCEPT ![c] = @ \ {o}]
    BY DEF RemoveFile
  <1>4. Recheck(cleaning)'
    BY <1>1, <1>2, LockHolds
  <1>5. c \in old /\ (row[c] \in Ended \/ row[c] = "none")
    BY <1>1 DEF Recheck, Expired, Orphaned
  <1>6. KeysLeadToObjects'
    BY <1>1, <1>2, <1>3, <1>5 DEF KeysLeadToObjects
  <1>7. at[c] \in {"meta", "metaRef"} => o # "meta"
    <2>1. CASE mstage = "expired"
      BY <1>1, <2>1 DEF Doomed, KeysLeadToObjects, HandlersHoldObjects
    <2>2. CASE mstage # "expired"
      BY <1>1, <2>2 DEF Recheck, Orphaned, Doomed, HandlersHoldObjects
    <2> QED
      BY <2>1, <2>2
  <1>8. HandlersHoldObjects'
    <2>1. \A d \in Charges \ {c} : onDisk'[d] = onDisk[d]
      BY <1>3
    <2>2. onDisk'[c] = onDisk[c] \ {o}
      BY <1>1, <1>3
    <2>3. at[c] \in {"over", "meta", "metaRef"}
      BY <1>1, <1>5 DEF HandlersHoldObjects
    <2> HIDE DEF c
    <2> QED
      BY <1>2, <1>7, <2>1, <2>2, <2>3 DEF HandlersHoldObjects
  <1>9. CleanedIsUnreported'
    <2>1. Doomed' = Doomed
      BY <1>2 DEF Doomed
    <2>2. gone' \subseteq Doomed' /\ gone' \intersect onDisk'[cleaning'] = {}
      BY <1>1, <1>2, <1>3, <2>1 DEF RemoveFile, CleanedIsUnreported
    <2> QED
      BY <1>1, <1>2, <1>4, <2>2 DEF CleanedIsUnreported
  <1> QED
    BY <1>6, <1>8, <1>9

LEMMA CommitCleanKeeps ==
    ASSUME ObjectInv, CommitClean
    PROVE KeysLeadToObjects' /\ HandlersHoldObjects' /\ CleanedIsUnreported'
  <1> USE DEF ObjectInv, EvidenceTypeOK
  <1> DEFINE c == cleaning
  <1>1. c \in Charges /\ Recheck(c) /\ gone \intersect onDisk[c] = {} /\ gone = Doomed
    BY DEF CommitClean, CleanedIsUnreported
  <1>2. UNCHANGED <<row, onDisk, old, at>> /\ cleaning' = NoCharge
    BY DEF CommitClean, ticketVars
  <1>3. keys' = [keys EXCEPT ![c] = {}] /\ refs' = [refs EXCEPT ![c] = @ \ gone]
    BY DEF CommitClean
  <1>4. c \in old /\ (row[c] # "none" => Doomed = keys[c])
    BY <1>1 DEF Recheck, Expired, Orphaned, Doomed
  <1>5. row[c] # "none" => "body" \notin onDisk[c]
    BY <1>1, <1>4 DEF KeysLeadToObjects
  <1>6. at[c] \in {"over", "meta", "metaRef"}
    BY <1>1, <1>4 DEF HandlersHoldObjects
  <1>7. at[c] = "metaRef" => "meta" \in refs'[c]
    <2>1. at[c] = "metaRef" => row[c] # "none" /\ "meta" \notin keys[c]
      BY <1>1 DEF HandlersHoldObjects, KeysLeadToObjects
    <2> QED
      BY <1>1, <1>3, <1>4, <2>1 DEF HandlersHoldObjects
  <1>8. /\ keys'[c] = {} /\ refs'[c] \subseteq refs[c]
        /\ \A d \in Charges \ {c} : keys'[d] = keys[d] /\ refs'[d] = refs[d]
    BY <1>1, <1>3
  <1> HIDE DEF c
  <1>9. KeysLeadToObjects'
    BY <1>2, <1>5, <1>8 DEF KeysLeadToObjects
  <1>10. HandlersHoldObjects'
    BY <1>2, <1>6, <1>7, <1>8 DEF HandlersHoldObjects
  <1> QED
    BY <1>2, <1>9, <1>10 DEF CleanedIsUnreported

(* What others do while maintenance holds the lock leaves its recheck true,  *)
(* and brings back no file that it has removed.                              *)
LEMMA OthersKeepCleaning ==
    ASSUME ObjectInv, OthersStep
    PROVE CleanedIsUnreported'
  <1> USE DEF ObjectInv, EvidenceTypeOK
  <1>1. CASE cleaning = NoCharge
    BY <1>1 DEF OthersStep, CleanedIsUnreported, workerVars
  <1>2. CASE cleaning # NoCharge
    <2>1. cleaning \in Charges /\ Recheck(cleaning) /\ mstage \in {"expired", "orphaned"}
          /\ gone \subseteq Doomed /\ gone \intersect onDisk[cleaning] = {}
      BY <1>2 DEF CleanedIsUnreported
    <2>2. UNCHANGED workerVars
      BY DEF OthersStep
    <2>3. /\ UNCHANGED <<row, keys, refs, tstatus, about>>
          /\ old \subseteq old'
          /\ \/ onDisk' = onDisk
             \/ \E c \in Charges : PutBody(c) \/ PutMeta(c)
      BY <1>2
      DEF OthersStep, Unlocked, TicketReads, Tick, Begin, AdminBegins, CountReplies, RemoveTicketFiles,
          GiveUp, Upload, Report, BeginReport, RequestReads, PutBody, PutMeta, PutObject, Leave, Age, evidenceVars, ticketVars
    <2>4. Recheck(cleaning)' /\ Doomed' = Doomed
      BY <2>1, <2>2, <2>3, LockHolds DEF workerVars, Doomed
    <2>5. gone \intersect onDisk'[cleaning] = {}
      <3>1. CASE onDisk' = onDisk
        BY <2>1, <3>1
      <3>2. ASSUME NEW c \in Charges, PutBody(c) PROVE gone \intersect onDisk'[cleaning] = {}
        <4>1. cleaning # c
          BY <2>1, <3>2 DEF PutBody, PutObject, Recheck, Expired, Orphaned, HandlersHoldObjects
        <4> QED
          BY <2>1, <3>2, <4>1 DEF PutBody, PutObject
      <3>3. ASSUME NEW c \in Charges, PutMeta(c) PROVE gone \intersect onDisk'[cleaning] = {}
        <4>1. ASSUME cleaning = c PROVE "meta" \notin gone
          <5>1. c \in old /\ at[c] \in {"serving", "over"} /\ (at[c] = "over" => row[c] = "needs_review")
            BY <2>1, <3>3, <4>1 DEF PutMeta, PutObject, Recheck, Expired, Orphaned
          <5>2. row[c] = "needs_review"
            BY <5>1 DEF HandlersHoldObjects
          <5> QED
            BY <2>1, <4>1, <5>2 DEF Recheck, Expired, Orphaned, Ended
        <4> QED
          BY <2>1, <3>3, <4>1 DEF PutMeta, PutObject
      <3> QED
        BY <2>3, <3>1, <3>2, <3>3
    <2> QED
      BY <2>1, <2>2, <2>4, <2>5 DEF CleanedIsUnreported, workerVars
  <1> QED
    BY <1>1, <1>2

LEMMA ObjectInvStep ==
    ASSUME ObjectInv, [Next]_vars
    PROVE ObjectInv'
  <1>1. EvidenceTypeOK'
    BY ObjectTypeStep DEF ObjectInv
  <1>2. CASE OthersStep
    <2>1. CleanedIsUnreported'
      BY <1>2, OthersKeepCleaning
    <2>2. CASE UNCHANGED evidenceVars
      BY <1>1, <2>1, <2>2 DEF ObjectInv, evidenceVars, KeysLeadToObjects, HandlersHoldObjects
    <2>3. ASSUME NEW c \in Charges, RequestReads(c) \/ (Unlocked /\ RequestWrites(c)),
                 UNCHANGED <<ticketVars, workerVars>>
          PROVE ObjectInv'
      BY <1>1, <2>1, <2>3, RequestKeeps DEF ObjectInv
    <2> QED
      BY <1>2, <2>2, <2>3 DEF OthersStep
  <1>3. ASSUME NEW o \in {"body", "meta"}, RemoveFile(o) PROVE ObjectInv'
    BY <1>1, <1>3, RemoveFileKeeps DEF ObjectInv
  <1>4. CASE CommitClean
    BY <1>1, <1>4, CommitCleanKeeps DEF ObjectInv
  <1>5. ASSUME NEW c \in Charges, Lock(c) PROVE ObjectInv'
    <2>1. UNCHANGED <<evidenceVars, mstage, tstatus, about>> /\ gone' = {}
          /\ cleaning' = (IF Recheck(c) THEN c ELSE NoCharge)
      BY <1>5 DEF Lock, ticketVars
    <2>2. cleaning' # NoCharge => Recheck(cleaning)'
      <3>1. CASE Recheck(c)
        <4>1. cleaning' = c
          BY <2>1, <3>1
        <4> QED
          BY <2>1, <3>1, <4>1 DEF evidenceVars, Recheck, Expired, Orphaned, OpenOn, OpenTickets
      <3> QED
        BY <2>1, <3>1
    <2>3. CleanedIsUnreported'
      BY <1>5, <2>1, <2>2 DEF Lock, CleanedIsUnreported
    <2> QED
      BY <1>1, <2>1, <2>3 DEF ObjectInv, evidenceVars, KeysLeadToObjects, HandlersHoldObjects
  <1>6. CASE CleanFails \/ Crash
    <2>1. cleaning' = NoCharge /\ UNCHANGED <<row, keys, refs, onDisk, old>>
      BY <1>6 DEF CleanFails, Crash, evidenceVars
    <2>2. KeysLeadToObjects' /\ CleanedIsUnreported'
      BY <2>1 DEF ObjectInv, KeysLeadToObjects, CleanedIsUnreported
    <2>3. \A c \in Charges : at'[c] = at[c] \/ (at[c] # "idle" /\ at'[c] = "over")
      BY <1>6 DEF CleanFails, Crash, evidenceVars, ObjectInv, EvidenceTypeOK
    <2>4. HandlersHoldObjects'
      BY <2>1, <2>3 DEF ObjectInv, HandlersHoldObjects
    <2> QED
      BY <1>1, <2>2, <2>4 DEF ObjectInv
  <1>7. CASE UNCHANGED <<evidenceVars, cleaning, gone>> /\ cleaning = NoCharge
    BY <1>1, <1>7 DEF ObjectInv, evidenceVars, KeysLeadToObjects, HandlersHoldObjects, CleanedIsUnreported
  <1>8. CASE UNCHANGED vars
    <2>1. UNCHANGED <<row, keys, refs, onDisk, old, at, mstage, cleaning, gone, tstatus, about>>
      BY <1>8 DEF vars, evidenceVars, workerVars, ticketVars
    <2>2. cleaning # NoCharge => Recheck(cleaning)'
      BY <2>1, LockHolds DEF ObjectInv, CleanedIsUnreported
    <2>3. CleanedIsUnreported'
      BY <2>1, <2>2 DEF ObjectInv, CleanedIsUnreported, Doomed
    <2> QED
      BY <1>1, <2>1, <2>3 DEF ObjectInv, KeysLeadToObjects, HandlersHoldObjects
  <1>9. cleaning # NoCharge => mstage \in {"expired", "orphaned"}
    BY DEF ObjectInv, CleanedIsUnreported
  <1> QED
    BY <1>2, <1>3, <1>4, <1>5, <1>6, <1>7, <1>8, <1>9
    DEF Next, WorkerStep, Enter, SelectAttachments, SelectSilent, SilentDone, SelectExpired, SelectOrphans,
        SelectObjects, ObjectsDone, SweepFiles, SweepRows, CloseSilent

-----------------------------------------------------------------------------
(* SupportInv holds throughout: closed tickets have their date, attachments  *)
(* belong to tickets that exist, a ticket with an unheard message never      *)
(* waits for the user, keys lead to their objects, and what maintenance      *)
(* cleans has no open ticket, for any numbers of them and any interleaving.  *)
THEOREM SupportHolds == Spec => []SupportInv
  <1>1. Init => SupportInv
    BY SupportInitInv
  <1>2. SupportInv /\ [Next]_vars => SupportInv'
    BY TicketInvStep, ObjectInvStep DEF SupportInv
  <1> QED
    BY <1>1, <1>2, PTL DEF Spec

(* No step removes a file of a charge with an open ticket: the recheck under *)
(* the lock sees every ticket that was opened since the selection.           *)
THEOREM EvidenceIsKept == Spec => OpenReportKeepsEvidence
  <1>1. SupportInv /\ [Next]_vars => [\A c \in Charges : OpenOn(c) => onDisk[c] \subseteq onDisk'[c]]_vars
    <2> SUFFICES ASSUME SupportInv, [Next]_vars, NEW c \in Charges, OpenOn(c)
                 PROVE onDisk[c] \subseteq onDisk'[c]
      OBVIOUS
    <2> USE DEF SupportInv, ObjectInv, EvidenceTypeOK
    <2>1. ASSUME NEW o \in {"body", "meta"}, RemoveFile(o) PROVE onDisk[c] \subseteq onDisk'[c]
      <3>1. cleaning \in Charges /\ ~OpenOn(cleaning)
        BY <2>1 DEF RemoveFile, CleanedIsUnreported, Recheck, Expired, Orphaned
      <3> QED
        BY <2>1, <3>1 DEF RemoveFile
    <2>2. ASSUME NEW d \in Charges, RequestReads(d) \/ RequestWrites(d) PROVE onDisk[c] \subseteq onDisk'[c]
      BY <2>2 DEF RequestReads, RequestWrites, PutBody, PutMeta, PutObject, RecordBody, RecordMeta,
                  RecordObject, Reserve, SettleRow, Leave, EndUnsettled, Age
    <2>3. CASE onDisk' = onDisk
      BY <2>3
    <2> QED
      BY <2>1, <2>2, <2>3
      DEF Next, OthersStep, WorkerStep, Enter, SelectAttachments, SelectSilent, SilentDone, SelectExpired,
          SelectOrphans, SelectObjects, ObjectsDone, SweepFiles, SweepRows, CloseSilent, Lock, CommitClean,
          CleanFails, Crash, evidenceVars, vars
  <1> QED
    BY <1>1, SupportHolds, PTL DEF Spec, OpenReportKeepsEvidence

(* A ticket on which an unheard message stands is not closed by maintenance: *)
(* it does not wait for the user, whatever maintenance had selected.         *)
THEOREM UnheardStaysOpen == Spec => UnheardIsNotClosed
  <1>1. SupportInv /\ [Next]_vars =>
          [mstage = "closing" /\ todo' # todo => \A t \in unheard : tstatus'[t] = tstatus[t]]_vars
    <2> SUFFICES ASSUME SupportInv, [Next]_vars, mstage = "closing", todo' # todo,
                        NEW t \in unheard
                 PROVE tstatus'[t] = tstatus[t]
      OBVIOUS
    <2>1. t \in Tickets /\ tstatus[t] # "waiting_user"
      BY DEF SupportInv, TicketInv, TicketsTypeOK, UnheardAwaitsAdmin
    <2>2. ASSUME NEW u \in Tickets, CloseSilent(u) PROVE tstatus'[t] = tstatus[t]
      BY <2>1, <2>2 DEF CloseSilent, AutoClose, AutoClosed, SupportInv, TicketInv, TicketsTypeOK, ticketVars
    <2>3. CASE UNCHANGED tstatus
      BY <2>3
    <2>4. ~OthersStep
      BY DEF OthersStep, workerVars
    <2> QED
      BY <2>2, <2>3, <2>4
      DEF Next, WorkerStep, Enter, SelectAttachments, SelectSilent, SilentDone, SelectExpired, SelectOrphans,
          SelectObjects, ObjectsDone, SweepFiles, SweepRows, Lock, RemoveFile, CommitClean, CleanFails, Crash,
          ticketVars, vars
  <1> QED
    BY <1>1, SupportHolds, PTL DEF Spec, UnheardIsNotClosed
=============================================================================
