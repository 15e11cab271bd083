----------------------------- MODULE ShareSync -----------------------------
(* The two-way synchronisation of shares with the router                   *)
(* (src/router_client.rs).  The market copies the router's list of shares  *)
(* into router_shares: a loop every 30 seconds, a request that finds no    *)
(* candidate, an admin.  The other way it tells the router which shares it *)
(* holds back (rests, model and capability blocks): single changes by      *)
(* spawned calls that nobody waits for, and the whole picture, with        *)
(* replace=true, after each turn of the loop and after a release.          *)
EXTENDS Integers

CONSTANTS
    Shares,       \* the shares of the router
    Loop,         \* spawn_share_sync
    OneShots,     \* the requests and admins that synchronise or release
    MaxChanges,   \* bound on changes of the listing and on new marks
    MaxGarbage    \* bound on answers that do not parse as a list

ASSUME SyncAssumption ==
    /\ Loop \notin OneShots
    /\ MaxChanges \in Nat
    /\ MaxGarbage \in Nat

VARIABLES
    entry,        \* the router's list: how each share stands in it
    rows,         \* the shares in router_shares
    marks,        \* what the market holds back, as <<share, kind>>
    view,         \* what the router believes the market holds back
    deltas,       \* single changes on their way, as <<"set" or "clear", mark>>
    wstage,       \* where the loop and the one-shots are
    answer,       \* the list each of them got
    batch,        \* the picture each of them read
    changes,      \* changes left
    garbage       \* garbage answers left

syncVars == <<entry, rows, marks, view, deltas, wstage, answer, batch, changes, garbage>>

Workers == {Loop} \union OneShots
Entries == {"absent", "good", "invalid", "ownerless"}
Kinds == {"cooldown", "model_block", "capability_block"}
Marks == Shares \X Kinds
EmptyList == [s \in Shares |-> "absent"]

SyncInit ==
    /\ entry \in [Shares -> {"absent", "good"}]
    /\ rows = {}
    /\ marks = {} /\ view = {} /\ deltas = {}
    /\ wstage = [w \in Workers |-> "idle"]
    /\ answer = [w \in Workers |-> EmptyList]
    /\ batch = [w \in Workers |-> {}]
    /\ changes = MaxChanges
    /\ garbage = MaxGarbage

Change == changes > 0 /\ changes' = changes - 1

-----------------------------------------------------------------------------
(* The router's list changes; an entry may be one that does not parse, or  *)
(* one without an owner, which sync_shares leaves out.                     *)
ListingChanges(s, e) ==
    /\ Change
    /\ entry[s] # e
    /\ entry' = [entry EXCEPT ![s] = e]
    /\ UNCHANGED <<rows, marks, view, deltas, wstage, answer, batch, garbage>>

(* A failure rests a share (only if it still has a row), or blocks a model *)
(* on it; the change is reported whether or not there was a row.           *)
ShareFails(s, k) ==
    /\ Change
    /\ k \in {"cooldown", "model_block"}
    /\ marks' = IF k = "cooldown" /\ s \notin rows THEN marks ELSE marks \union {<<s, k>>}
    /\ deltas' = deltas \union {<<"set", <<s, k>>>>}
    /\ UNCHANGED <<entry, rows, view, wstage, answer, batch, garbage>>

(* A success ends the rest and reports its end.                            *)
ShareRecovers(s) ==
    /\ <<s, "cooldown">> \in marks
    /\ marks' = marks \ {<<s, "cooldown">>}
    /\ deltas' = deltas \union {<<"clear", <<s, "cooldown">>>>}
    /\ UNCHANGED <<entry, rows, view, wstage, answer, batch, changes, garbage>>

(* A failure that does not count overwrites the rest with none, and what   *)
(* it reports is a failure, not the end of a rest.                         *)
RestIsDropped(s) ==
    /\ <<s, "cooldown">> \in marks
    /\ marks' = marks \ {<<s, "cooldown">>}
    /\ UNCHANGED <<entry, rows, view, deltas, wstage, answer, batch, changes, garbage>>

(* Admins bar and unbar capabilities; only the next picture reports it.    *)
AdminBars(s) ==
    /\ Change
    /\ marks' = marks \union {<<s, "capability_block">>}
    /\ UNCHANGED <<entry, rows, view, deltas, wstage, answer, batch, garbage>>

AdminUnbars(s) ==
    /\ <<s, "capability_block">> \in marks
    /\ marks' = marks \ {<<s, "capability_block">>}
    /\ UNCHANGED <<entry, rows, view, deltas, wstage, answer, batch, changes, garbage>>

(* A rest or a model block carries its end, which both sides know.         *)
Expires(m) ==
    /\ m[2] # "capability_block"
    /\ m \in marks \union view
    /\ marks' = marks \ {m}
    /\ view' = view \ {m}
    /\ batch' = [w \in Workers |-> batch[w] \ {m}]
    /\ deltas' = deltas \ {<<"set", m>>}
    /\ UNCHANGED <<entry, rows, wstage, answer, changes, garbage>>

-----------------------------------------------------------------------------
(* report_share_runtime_state: the calls are unordered and may be lost.    *)
DeltaArrives(d) ==
    /\ d \in deltas
    /\ deltas' = deltas \ {d}
    /\ view' = IF d[1] = "set" THEN view \union {d[2]} ELSE view \ {d[2]}
    /\ UNCHANGED <<entry, rows, marks, wstage, answer, batch, changes, garbage>>

DeltaIsLost(d) ==
    /\ d \in deltas
    /\ deltas' = deltas \ {d}
    /\ UNCHANGED <<entry, rows, marks, view, wstage, answer, batch, changes, garbage>>

-----------------------------------------------------------------------------
(* sync_shares: GET the list, then write all of it in one transaction.     *)
Ask(w) ==
    /\ wstage[w] = "idle"
    /\ wstage' = [wstage EXCEPT ![w] = "asking"]
    /\ UNCHANGED <<entry, rows, marks, view, deltas, answer, batch, changes, garbage>>

RouterAnswers(w) ==
    /\ wstage[w] = "asking"
    /\ wstage' = [wstage EXCEPT ![w] = "answered"]
    /\ answer' = [answer EXCEPT ![w] = entry]
    /\ UNCHANGED <<entry, rows, marks, view, deltas, batch, changes, garbage>>

(* A body that is no list counts as an empty one (unwrap_or_default).      *)
AnswerIsGarbage(w) ==
    /\ wstage[w] = "asking"
    /\ garbage > 0
    /\ garbage' = garbage - 1
    /\ wstage' = [wstage EXCEPT ![w] = "answered"]
    /\ answer' = [answer EXCEPT ![w] = EmptyList]
    /\ UNCHANGED <<entry, rows, marks, view, deltas, batch, changes>>

CallFails(w) ==
    /\ wstage[w] \in {"asking", "posting"}
    /\ wstage' = [wstage EXCEPT ![w] = "idle"]
    /\ batch' = [batch EXCEPT ![w] = {}]
    /\ UNCHANGED <<entry, rows, marks, view, deltas, answer, changes, garbage>>
RowsAfter_NoPrune(list) == rows \union {s \in Shares : list[s] = "good"}

(* Upserts keep a row's rest; rows missing from the list are pruned with   *)
(* their rest, unless some entry did not parse.  Blocks stay.              *)
RowsAfter(list) ==
    LET seen == {s \in Shares : list[s] = "good"} IN
    IF \E s \in Shares : list[s] = "invalid" THEN rows \union seen ELSE seen

Apply(w) ==
    /\ wstage[w] = "answered"
    /\ rows' = RowsAfter(answer[w])
    /\ marks' = marks \ {<<s, "cooldown">> : s \in Shares \ RowsAfter(answer[w])}
    /\ wstage' = [wstage EXCEPT ![w] = IF w = Loop THEN "reading" ELSE "idle"]
    /\ answer' = [answer EXCEPT ![w] = EmptyList]
    /\ UNCHANGED <<entry, view, deltas, batch, changes, garbage>>

(* release_share_state: remove one mark, then send the whole picture.      *)
Release(w, m) ==
    /\ w # Loop
    /\ wstage[w] = "idle"
    /\ m \in marks
    /\ marks' = marks \ {m}
    /\ wstage' = [wstage EXCEPT ![w] = "reading"]
    /\ UNCHANGED <<entry, rows, view, deltas, answer, batch, changes, garbage>>

(* The picture: what is in force when it is read ...                       *)
ReadPicture(w) ==
    /\ wstage[w] = "reading"
    /\ batch' = [batch EXCEPT ![w] = marks]
    /\ wstage' = [wstage EXCEPT ![w] = "posting"]
    /\ UNCHANGED <<entry, rows, marks, view, deltas, answer, changes, garbage>>
Replaced_AddsOnly(states) == view \union states

(* ... replaces what the router believes.                                  *)
Replaced(states) == states

PictureArrives(w) ==
    /\ wstage[w] = "posting"
    /\ view' = Replaced(batch[w])
    /\ batch' = [batch EXCEPT ![w] = {}]
    /\ wstage' = [wstage EXCEPT ![w] = "idle"]
    /\ UNCHANGED <<entry, rows, marks, deltas, answer, changes, garbage>>

SyncNext ==
    \/ \E s \in Shares :
         \/ \E e \in Entries : ListingChanges(s, e)
         \/ \E k \in Kinds : ShareFails(s, k)
         \/ ShareRecovers(s) \/ RestIsDropped(s) \/ AdminBars(s) \/ AdminUnbars(s)
    \/ \E m \in Marks : Expires(m)
    \/ \E d \in deltas : DeltaArrives(d) \/ DeltaIsLost(d)
    \/ \E w \in Workers :
         \/ Ask(w) \/ RouterAnswers(w) \/ AnswerIsGarbage(w) \/ CallFails(w) \/ Apply(w)
         \/ ReadPicture(w) \/ PictureArrives(w)
         \/ \E m \in Marks : Release(w, m)

SyncSpec == SyncInit /\ [][SyncNext]_syncVars

-----------------------------------------------------------------------------
SyncStages == {"idle", "asking", "answered", "reading", "posting"}

SyncTypeOK ==
    /\ entry \in [Shares -> Entries]
    /\ rows \subseteq Shares
    /\ marks \subseteq Marks /\ view \subseteq Marks
    /\ deltas \subseteq {"set", "clear"} \X Marks
    /\ wstage \in [Workers -> SyncStages]
    /\ answer \in [Workers -> [Shares -> Entries]]
    /\ batch \in [Workers -> SUBSET Marks]
    /\ changes \in 0..MaxChanges /\ garbage \in 0..MaxGarbage

Listed == {s \in Shares : entry[s] = "good"}

(* When the router's list stops changing, the market's rows become it and  *)
(* stay it, though answers were garbage, failed, or written in another     *)
(* order than given; an entry that does not parse keeps old rows alive.    *)
RowsBecomeTheList ==
    <>[](/\ Listed \subseteq rows
         /\ rows \subseteq Listed \/ \E s \in Shares : entry[s] = "invalid")

(* When the marks stop changing, the router's view of them becomes them    *)
(* and stays them, though single reports were lost, came late or were      *)
(* never sent, and pictures crossed.                                       *)
RouterSeesTheMarks == <>[](view = marks)
=============================================================================
