------------------------------ MODULE Routing ------------------------------
(***************************************************************************)
(* Which shares a request is sent to (proxy.rs): selection from the table  *)
(* of shares, the sticky routes that keep a session on one share, the      *)
(* retries over at most three candidates, and what each answer does to the *)
(* health of the share (module ShareHealth).                               *)
(*                                                                         *)
(* Each action is one statement of a handler, or one transaction, or one   *)
(* wait for the router; the SELECTs of one selection, which follow each    *)
(* other without anything in between, are one action. What a handler keeps in its locals (the candidates *)
(* it selected, the route it saw, the failures it counted) may be stale    *)
(* when it uses it. The charge that the request reserves and settles is    *)
(* the subject of module Charges, whose "routing" and "calling" stages are *)
(* the loop modelled here.                                                 *)
(*                                                                         *)
(* The score of a share and the rendezvous hash are data: shares that are  *)
(* equal in everything else come in any order.                             *)
(***************************************************************************)
EXTENDS ShareHealth, Sequences, SequencesExt, FiniteSets, FiniteSetsExt

CONSTANTS
    Keys,         \* session keys: sticky_route_key of a user, API key and session
    Requests,     \* clients, each sending one request of its session after the other
    NoShare,      \* no route: the key has no live row
    NoKey,        \* a response that no row of market_response_sticky_routes names
    NoModel,      \* a model without a price
    PrimaryKey,   \* session key of each request
    HistoryKey,   \* key of the conversation so far, or NoKey (message_history_session_hint)
    Follows,      \* set with the request whose response each request names, or {}
    Asks,         \* model each request asks for
    PriceModel,   \* model whose price a share bills when asked for a model, or NoModel
    Protocol,     \* "responses" for shares that chat requests reach over /v1/responses
    Identified,   \* requests whose responses have an id
    FailsWith,    \* failures that each share may answer with
    Listings,     \* states of the table that a synchronisation may leave
    Allowlists,   \* allow-lists a user may give the API key; {} allows all shares
    RuleMode,     \* mode of the routing rule of each model
    RuleLists,    \* shares an admin may put on the rule
    StickyEnabled,\* market_share_sticky_enabled
    SelectLimit,  \* rows that selection reads; 100 in the code (proxy.rs:389)
    MaxAttempts,  \* candidates a request tries; 3 in the code (proxy.rs:413)
    MaxFailures   \* bound: a share with this many failures does not fail again

RowStates == {"absent", "offline", "disabled", "unsold", "idle", "full"}

ASSUME RoutingAssumption ==
    /\ IsFiniteSet(Shares)
    /\ FailsWith \in [Shares -> SUBSET FailureKinds]
    /\ NoKind \notin FailureKinds
    /\ NoShare \notin Shares
    /\ NoKey \notin Keys
    /\ NoModel \notin Models
    /\ PrimaryKey \in [Requests -> Keys]
    /\ HistoryKey \in [Requests -> Keys \cup {NoKey}]
    /\ Follows \in [Requests -> SUBSET Requests]
    /\ Asks \in [Requests -> Models]
    /\ PriceModel \in [Shares -> [Models -> Models \cup {NoModel}]]
    /\ Protocol \in [Shares -> {"chat", "responses"}]
    /\ Listings \subseteq [Shares -> RowStates]
    /\ RuleMode \in [Models -> {"all", "include_only", "exclude"}]
    /\ Allowlists \subseteq SUBSET Shares
    /\ RuleLists \subseteq SUBSET Shares
    /\ StickyEnabled \in BOOLEAN
    /\ SelectLimit \in Nat \ {0}
    /\ MaxAttempts \in Nat \ {0}
    /\ MaxFailures \in Nat

VARIABLES
    row,          \* router_shares: "absent", "offline", "disabled" by this market,
                  \* "unsold" (not on sale for the app, or out of quota), "idle", or
                  \* "full" (active_requests at parallel_limit)
    barred,       \* market_share_capability_blocks of the app that is asked for
    allow,        \* market_api_key_share_allowlist of the API key
    ruled,        \* model_routing_rule_shares of each model
    relisting,    \* shares that an admin's update has still to insert
    route,        \* market_share_sticky_routes: the share each key leads to
    answerKey,    \* market_response_sticky_routes: the key of each request's response
    stage,        \* where each request's handler is
    fallback,     \* fallback_sticky_key of the request's scope
    bound,        \* history: the share that the request's session was on when it
                  \* selected and when it ordered, if it could serve the request
    found,        \* shares that selection has found
    candidates,   \* shares to try, in order
    at,           \* index of the candidate being tried
    failed,       \* failure of the candidate being tried
    counted       \* failure_count that record_share_failure has read

tableVars == <<row, barred, allow, ruled, relisting>>
stickyVars == <<route, answerKey>>
requestVars == <<stage, fallback, bound, found, candidates, at, failed, counted>>
vars == <<healthVars, tableVars, stickyVars, requestVars>>

Stages == {"idle", "scoped", "syncing", "synced", "selected", "calling", "served",
           "kept", "counting", "failing"}

Init ==
    /\ HealthInit
    /\ row \in Listings
    /\ barred = {}
    /\ allow = {}
    /\ ruled = [m \in Models |-> {}]
    /\ relisting = [m \in Models |-> {}]
    /\ route = [k \in Keys |-> NoShare]
    /\ answerKey = [r \in Requests |-> NoKey]
    /\ stage = [r \in Requests |-> "idle"]
    /\ fallback = [r \in Requests |-> NoKey]
    /\ bound = [r \in Requests |-> NoShare]
    /\ found = [r \in Requests |-> {}]
    /\ candidates = [r \in Requests |-> <<>>]
    /\ at = [r \in Requests |-> 1]
    /\ failed = [r \in Requests |-> NoKind]
    /\ counted = [r \in Requests |-> 0]

GoTo(r, next) == stage' = [stage EXCEPT ![r] = next]

\* The handler ends and its locals with it.
End(r) ==
    /\ GoTo(r, "idle")
    /\ fallback' = [fallback EXCEPT ![r] = NoKey]
    /\ bound' = [bound EXCEPT ![r] = NoShare]
    /\ found' = [found EXCEPT ![r] = {}]
    /\ candidates' = [candidates EXCEPT ![r] = <<>>]
    /\ at' = [at EXCEPT ![r] = 1]
    /\ failed' = [failed EXCEPT ![r] = NoKind]
    /\ counted' = [counted EXCEPT ![r] = 0]

(***************************************************************************)
(* Sticky routes.                                                          *)
(***************************************************************************)
\* StickyRouteScope::sticky_keys: the session's own key, then the fallback.
StickyKeys(r) == {PrimaryKey[r]} \cup ({fallback[r]} \ {NoKey})

\* lookup_sticky_route_pair_by_keys: the first live row of these keys.
SeenRoute(r) ==
    IF route[PrimaryKey[r]] # NoShare \/ fallback[r] = NoKey
    THEN route[PrimaryKey[r]] ELSE route[fallback[r]]

\* share_session_loads_for_app
SessionLoad(s) == Cardinality({k \in Keys : route[k] = s})

RefreshStickyRoutes(r, s) ==
    route' = IF StickyEnabled THEN [k \in Keys |-> IF k \in StickyKeys(r) THEN s ELSE route[k]]
                              ELSE route

ClearStickyRoutesForShare(r, s) ==
    route' = [k \in Keys |-> IF k \in StickyKeys(r) /\ route[k] = s THEN NoShare ELSE route[k]]

\* resolve_sticky_route_scope: the response the request names leads to the key
\* of its session, which becomes the fallback.
ResolveScope(r) ==
    /\ stage[r] = "idle"
    /\ LET named == {k \in Keys \ {PrimaryKey[r]} : \E q \in Follows[r] : answerKey[q] = k}
       IN  \E key \in IF StickyEnabled /\ named # {} THEN named ELSE {HistoryKey[r]} :
              fallback' = [fallback EXCEPT ![r] = key]
    /\ GoTo(r, "scoped")
    /\ UNCHANGED <<healthVars, tableVars, stickyVars, bound, found, candidates, at, failed, counted>>

(***************************************************************************)
(* Selection.                                                              *)
(***************************************************************************)
RuleAdmits(s, m) ==
    CASE RuleMode[m] = "all" -> TRUE
      [] RuleMode[m] = "include_only" -> s \in ruled[m]
      [] RuleMode[m] = "exclude" -> s \notin ruled[m]

\* resolve_share_pricing: shares that bill a model with a price when r asks
\* for its model.
Priced(r) == {s \in Shares : PriceModel[s][Asks[r]] # NoModel}

\* The WHERE clause of select_share_candidates, but for the load.
CanServe(s, r) ==
    /\ row[s] \in {"idle", "full", "unsold"}
    /\ rest[s] = 0
    /\ s \notin barred
    /\ allow = {} \/ s \in allow
    /\ <<Asks[r], s>> \notin blocks
    /\ RuleAdmits(s, Asks[r])

\* A full share takes only the sessions it already has.
Fits_FullNever(s, r) == CanServe(s, r) /\ row[s] # "full"
Fits(s, r) == CanServe(s, r) /\ (row[s] # "full" \/ s = SeenRoute(r))
FitShares(r) == {s \in Shares : Fits(s, r)}

\* The rows that ORDER BY and LIMIT leave: the sticky share is the first.
Rows(r) ==
    LET size == IF Cardinality(FitShares(r)) < SelectLimit
                THEN Cardinality(FitShares(r)) ELSE SelectLimit
    IN  {rows \in kSubset(size, FitShares(r)) :
            SeenRoute(r) \in FitShares(r) => SeenRoute(r) \in rows}

\* The filters after it: shares that sell this app's tokens and have a price.
ForSale(s, r) == row[s] # "unsold" /\ s \in Priced(r)

\* Only shares of the first one's protocol stay (proxy.rs:401-407).
OfProtocol(rows, first) == {s \in rows : Protocol[s] = Protocol[first]}

SelectShareCandidates(r) ==
    /\ stage[r] \in {"scoped", "synced"}
    /\ \E rows \in Rows(r) :
          LET sold == {s \in rows : ForSale(s, r)}
          IN  \E first \in sold :
                /\ SeenRoute(r) \in sold => first = SeenRoute(r)
                /\ found' = [found EXCEPT ![r] = OfProtocol(sold, first)]
    /\ bound' = [bound EXCEPT ![r] =
           IF SeenRoute(r) # NoShare /\ CanServe(SeenRoute(r), r) /\ ForSale(SeenRoute(r), r)
           THEN SeenRoute(r) ELSE NoShare]
    /\ GoTo(r, "selected")
    /\ UNCHANGED <<healthVars, tableVars, stickyVars, fallback, candidates, at, failed, counted>>

\* No share: the table is synchronised and read again, once, unless a share is
\* merely disabled by this market (proxy.rs:3316-3341). An empty list of the
\* rule ends selection before that is known.
SelectNone(r) ==
    /\ stage[r] \in {"scoped", "synced"}
    /\ \E rows \in Rows(r) : \A s \in rows : ~ForSale(s, r)
    /\ LET unruled == RuleMode[Asks[r]] = "include_only" /\ ruled[Asks[r]] = {}
           again == stage[r] = "scoped" /\ (unruled \/ \A s \in Shares : row[s] # "disabled")
       IN  IF again
           THEN /\ GoTo(r, "syncing")
                /\ UNCHANGED <<fallback, bound, found, candidates, at, failed, counted>>
           ELSE End(r)
    /\ UNCHANGED <<healthVars, tableVars, stickyVars>>

\* sync_shares: rows of shares that are not listed go, and their health with
\* them; other rows keep theirs (router_client.rs:535-610).
SyncShares(listing) ==
    /\ row' = listing
    /\ ClearHealth({s \in Shares : listing[s] = "absent"})
    /\ UNCHANGED <<blocks, barred, allow, ruled, relisting>>

SyncBeforeRetry(r) ==
    /\ stage[r] = "syncing"
    /\ \/ /\ \E listing \in Listings : SyncShares(listing)
          /\ GoTo(r, "synced")
          /\ UNCHANGED <<fallback, bound, found, candidates, at, failed, counted>>
       \/ /\ End(r)
          /\ UNCHANGED <<healthVars, tableVars>>
    /\ UNCHANGED stickyVars

\* order_share_candidates and truncate(3). A single candidate is not ordered.
InOrder(order, seen) ==
    \A i, j \in DOMAIN order :
        i < j => \/ order[i] = seen
                 \/ order[j] # seen /\ SessionLoad(order[i]) <= SessionLoad(order[j])

OrderShareCandidates(r) ==
    /\ stage[r] = "selected"
    /\ \E order \in SetToSeqs(found[r]) :
          /\ StickyEnabled => InOrder(order, SeenRoute(r))
          /\ candidates' = [candidates EXCEPT ![r] =
                 SubSeq(order, 1, IF Len(order) < MaxAttempts THEN Len(order) ELSE MaxAttempts)]
    /\ found' = [found EXCEPT ![r] = {}]
    /\ bound' = [bound EXCEPT ![r] = IF @ = SeenRoute(r) THEN @ ELSE NoShare]
    /\ at' = [at EXCEPT ![r] = 1]
    /\ GoTo(r, "calling")
    /\ UNCHANGED <<healthVars, tableVars, stickyVars, fallback, failed, counted>>

(***************************************************************************)
(* The retry loop: forward_non_stream_with_retries and                     *)
(* forward_stream_with_retries.                                            *)
(***************************************************************************)
Candidate(r) == candidates[r][at[r]]

\* The price of the first candidate names the model of the whole request,
\* whichever candidate answers (proxy.rs:419-423).
BilledModel(r) == PriceModel[candidates[r][1]][Asks[r]]

ShareServes(r) ==
    /\ stage[r] = "calling"
    /\ RecordShareSuccess(Candidate(r))
    /\ GoTo(r, "served")
    /\ UNCHANGED <<tableVars, stickyVars, fallback, bound, found, candidates, at, failed, counted>>

\* An answer that is not 2xx: record_share_failure reads the count of failures.
ShareErrs(r) ==
    /\ stage[r] = "calling"
    /\ failures[Candidate(r)] < MaxFailures
    /\ \E kind \in FailsWith[Candidate(r)] \ {"bad_request"} :
          failed' = [failed EXCEPT ![r] = kind]
    /\ counted' = [counted EXCEPT ![r] = failures[Candidate(r)]]
    /\ GoTo(r, "counting")
    /\ UNCHANGED <<healthVars, tableVars, stickyVars, fallback, bound, found, candidates, at>>

\* And writes it; a row that a synchronisation has removed stays away.
RestShare(r) ==
    /\ stage[r] = "counting"
    /\ IF row[Candidate(r)] # "absent"
       THEN RecordShareFailure(Candidate(r), failed[r], counted[r])
       ELSE UNCHANGED healthVars
    /\ GoTo(r, "failing")
    /\ UNCHANGED <<tableVars, stickyVars, fallback, bound, found, candidates, at, failed, counted>>

\* No answer at all, or one that blames the request, is not held against the
\* share.
CallFails(r) ==
    /\ stage[r] = "calling"
    /\ \E kind \in FailsWith[Candidate(r)] \cap
            {"bad_request", "connect_timeout", "connect_refused", "tunnel_unavailable",
             "bad_gateway_response"} :
          failed' = [failed EXCEPT ![r] = kind]
    /\ GoTo(r, "failing")
    /\ UNCHANGED <<healthVars, tableVars, stickyVars, fallback, bound, found, candidates, at, counted>>

\* The session leaves the share; the next candidate is tried if the failure
\* may be another's to answer.
LeaveShare(r) ==
    /\ stage[r] = "failing"
    /\ ClearStickyRoutesForShare(r, Candidate(r))
    /\ MaybeBlockModelShare(BilledModel(r), Candidate(r), failed[r])
    /\ IF IsRetryable(failed[r]) /\ at[r] < Len(candidates[r])
       THEN /\ at' = [at EXCEPT ![r] = @ + 1]
            /\ failed' = [failed EXCEPT ![r] = NoKind]
            /\ counted' = [counted EXCEPT ![r] = 0]
            /\ GoTo(r, "calling")
            /\ UNCHANGED <<fallback, bound, found, candidates>>
       ELSE End(r)
    /\ UNCHANGED <<tableVars, answerKey>>

\* The session stays with the share that answered.
KeepRoute(r) ==
    /\ stage[r] = "served"
    /\ RefreshStickyRoutes(r, Candidate(r))
    /\ GoTo(r, "kept")
    /\ UNCHANGED <<healthVars, tableVars, answerKey, fallback, bound, found, candidates, at,
                   failed, counted>>

\* record_response_sticky_route: a later request may name this response.
RecordResponse(r) ==
    /\ stage[r] = "kept"
    /\ answerKey' = IF StickyEnabled /\ r \in Identified
                     THEN [answerKey EXCEPT ![r] = PrimaryKey[r]] ELSE answerKey
    /\ End(r)
    /\ UNCHANGED <<healthVars, tableVars, route>>

\* The client leaves, an admission check refuses, a response has no usage,
\* or the process stops.
HandlerStops(r) ==
    /\ stage[r] # "idle"
    /\ End(r)
    /\ UNCHANGED <<healthVars, tableVars, stickyVars>>

(***************************************************************************)
(* The rest of the market.                                                 *)
(***************************************************************************)
\* The periodic synchronisation, or an admin's.
Sync ==
    /\ \E listing \in Listings : SyncShares(listing)
    /\ UNCHANGED <<stickyVars, requestVars>>

\* set_api_key_share_allowlist_endpoint: the key's sessions start afresh.
SetAllowlist ==
    /\ \E list \in Allowlists \ {allow} :
          /\ \A s \in list : row[s] \in {"unsold", "idle", "full"}
          /\ allow' = list
    /\ route' = [k \in Keys |-> NoShare]
    /\ answerKey' = [r \in Requests |-> NoKey]
    /\ UNCHANGED <<healthVars, row, barred, ruled, relisting, requestVars>>

\* admin_put_model_routing_shares: the rule's shares are deleted and inserted
\* one by one, outside a transaction.
PutRoutingShares(m) ==
    /\ relisting[m] = {}
    /\ RuleMode[m] # "all"
    /\ \E list \in RuleLists : relisting' = [relisting EXCEPT ![m] = list]
    /\ ruled' = [ruled EXCEPT ![m] = {}]
    /\ UNCHANGED <<healthVars, row, barred, allow, stickyVars, requestVars>>

InsertRoutingShare(m) ==
    /\ \E s \in relisting[m] :
          /\ ruled' = [ruled EXCEPT ![m] = @ \cup {s}]
          /\ relisting' = [relisting EXCEPT ![m] = @ \ {s}]
    /\ UNCHANGED <<healthVars, row, barred, allow, stickyVars, requestVars>>

\* create_share_capability_block, delete_share_capability_block, release_share_state
BarShare(s) ==
    /\ \/ barred' = barred \cup {s}
       \/ barred' = barred \ {s}
    /\ UNCHANGED <<healthVars, row, allow, ruled, relisting, stickyVars, requestVars>>

RouteExpires(k) ==
    /\ route[k] # NoShare
    /\ route' = [route EXCEPT ![k] = NoShare]
    /\ UNCHANGED <<healthVars, tableVars, answerKey, requestVars>>

ResponseExpires(r) ==
    /\ answerKey[r] # NoKey
    /\ answerKey' = [answerKey EXCEPT ![r] = NoKey]
    /\ UNCHANGED <<healthVars, tableVars, route, requestVars>>

HealthPasses ==
    /\ \/ \E s \in Shares : RestEnds(s) \/ ReleaseCooldown(s)
       \/ \E m \in Models, s \in Shares : BlockEnds(m, s)
    /\ UNCHANGED <<tableVars, stickyVars, requestVars>>

RequestStep(r) ==
    \/ ResolveScope(r) \/ SelectShareCandidates(r) \/ SelectNone(r) \/ SyncBeforeRetry(r)
    \/ OrderShareCandidates(r) \/ ShareServes(r) \/ ShareErrs(r) \/ RestShare(r)
    \/ CallFails(r) \/ LeaveShare(r) \/ KeepRoute(r) \/ RecordResponse(r) \/ HandlerStops(r)

Next ==
    \/ \E r \in Requests : RequestStep(r) \/ ResponseExpires(r)
    \/ Sync \/ SetAllowlist \/ HealthPasses
    \/ \E m \in Models : PutRoutingShares(m) \/ InsertRoutingShare(m)
    \/ \E s \in Shares : BarShare(s)
    \/ \E k \in Keys : RouteExpires(k)

Spec == Init /\ [][Next]_vars

(***************************************************************************)
(* Properties.                                                             *)
(***************************************************************************)
TablesTypeOK ==
    /\ row \in [Shares -> RowStates]
    /\ barred \subseteq Shares
    /\ allow \subseteq Shares
    /\ ruled \in [Models -> SUBSET Shares]
    /\ relisting \in [Models -> SUBSET Shares]

StickyTypeOK ==
    /\ route \in [Keys -> Shares \cup {NoShare}]
    /\ answerKey \in [Requests -> Keys \cup {NoKey}]

RequestsTypeOK ==
    /\ stage \in [Requests -> Stages]
    /\ fallback \in [Requests -> Keys \cup {NoKey}]
    /\ bound \in [Requests -> Shares \cup {NoShare}]
    /\ found \in [Requests -> SUBSET Shares]
    /\ candidates \in [Requests -> Seq(Shares)]
    /\ at \in [Requests -> Nat]
    /\ failed \in [Requests -> FailureKinds \cup {NoKind}]
    /\ counted \in [Requests -> 0..RestSteps]

TypeOK == HealthTypeOK /\ TablesTypeOK /\ StickyTypeOK /\ RequestsTypeOK

\* A request that tries shares has one to try and knows how it failed, it
\* tries none that has no price for what it asks, and while sticky routing is on, the first it tries is the one its session was
\* on: select_share_candidates, the protocol filter, order_share_candidates
\* and truncate all keep it (proxy.rs:386-413).
CandidatesAgree ==
    \A r \in Requests :
        /\ found[r] \subseteq Priced(r)
        /\ candidates[r] \in Seq(Priced(r))
        /\ stage[r] = "selected" => found[r] # {}
        /\ stage[r] \in {"calling", "served", "kept", "counting", "failing"} =>
              at[r] \in 1 .. Len(candidates[r])
        /\ stage[r] \in {"counting", "failing"} => failed[r] # NoKind
        /\ StickyEnabled /\ bound[r] # NoShare =>
              \/ stage[r] = "selected" /\ bound[r] \in found[r]
              \/ /\ stage[r] \in {"calling", "served", "kept", "counting", "failing"}
                 /\ candidates[r][1] = bound[r]

\* What the routing of requests keeps, and enough of it to be inductive.
RoutingInv == TypeOK /\ HealthAgrees /\ CandidatesAgree

\* The candidates that request r has tried without success.
Tried(r) == {candidates[r][i] : i \in 1 .. at[r] - 1}

\* A session stays on its share while that share serves it. A request moves a
\* live route elsewhere only if the share was not able to serve when the request was
\* routed, or has just failed it, or if the request saw another route, because
\* a concurrent request of the session has changed it since. This is what
\* selecting, ordering, clearing and refreshing are for together: selection
\* must not cut the sticky share off, not even when it is full
\* (proxy.rs:3160, 3211), and ordering must put it first (proxy.rs:3765).
SessionStaysWhileServed ==
    [][\A k \in Keys :
        route[k] # NoShare /\ route'[k] \notin {NoShare, route[k]} =>
            \E r \in Requests :
                /\ stage[r] = "served"
                /\ k \in StickyKeys(r)
                /\ bound[r] # route[k] \/ route[k] \in Tried(r)]_vars
=============================================================================
