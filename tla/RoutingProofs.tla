--------------------------- MODULE RoutingProofs ---------------------------
(***************************************************************************)
(* Proofs about routing: types, that the columns of a share's health agree *)
(* although the count of failures is read before it is written, and that   *)
(* a session stays on its share while that share serves it.                *)
(***************************************************************************)
EXTENDS Routing, FiniteSetTheorems, SequenceTheorems, TLAPS

-----------------------------------------------------------------------------
(* The health of the shares *)

LEMMA ProductType ==
  ASSUME NEW a \in Nat, NEW b \in Nat
  PROVE  a * b \in Nat
OBVIOUS

LEMMA CooldownType ==
  ASSUME NEW kind \in FailureKinds, NEW count \in 0..RestSteps
  PROVE  CooldownSecs(kind, count) \in 0..LongestRest
<1>1. BaseCooldown(kind) \in Nat
  BY DEF BaseCooldown, FailureKinds
<1>2. Multiplier(count) \in Nat
  BY DEF Multiplier, RestSteps
<1>3. BaseCooldown(kind) * Multiplier(count) \in Nat
  BY <1>1, <1>2, ProductType
<1> QED BY <1>3 DEF CooldownSecs, LongestRest

LEMMA CountType ==
  ASSUME NEW kind \in FailureKinds, NEW read \in 0..RestSteps
  PROVE  /\ CountAfter(kind, read) \in 0..RestSteps
         /\ RestAfter(kind, read) \in 0..LongestRest
         /\ CountsAgainstShare(kind) => CountAfter(kind, read) > 0
<1>1. CountAfter(kind, read) \in 0..RestSteps
  BY DEF CountAfter, RestSteps
<1>2. RestAfter(kind, read) \in 0..LongestRest
  <2>1. CooldownSecs(kind, CountAfter(kind, read)) \in 0..LongestRest
    BY <1>1, CooldownType
  <2>2. CASE CountsAgainstShare(kind)
    BY <2>1, <2>2 DEF RestAfter
  <2>3. CASE ~CountsAgainstShare(kind)
    BY <2>3 DEF RestAfter, LongestRest
  <2> QED BY <2>2, <2>3
<1>3. CountsAgainstShare(kind) => CountAfter(kind, read) > 0
  BY DEF CountAfter, RestSteps
<1> QED BY <1>1, <1>2, <1>3

HealthInv == HealthTypeOK /\ HealthAgrees

LEMMA HealthInitially ==
  HealthInit => HealthInv
BY DEF HealthInit, HealthInv, HealthTypeOK, HealthAgrees, RestSteps, LongestRest

LEMMA ClearKeepsHealth ==
  ASSUME NEW gone \in SUBSET Shares, HealthInv, ClearHealth(gone), UNCHANGED blocks
  PROVE  HealthInv'
BY DEF HealthInv, HealthTypeOK, HealthAgrees, ClearHealth, RestSteps, LongestRest

LEMMA SuccessKeepsHealth ==
  ASSUME NEW s \in Shares, HealthInv, RecordShareSuccess(s)
  PROVE  HealthInv'
<1>1. CASE WasOfTheShare(s)
  BY <1>1, ClearKeepsHealth DEF RecordShareSuccess
<1>2. CASE ~WasOfTheShare(s)
  BY <1>2 DEF RecordShareSuccess, HealthInv, HealthTypeOK, HealthAgrees
<1> QED BY <1>1, <1>2

LEMMA FailureKeepsHealth ==
  ASSUME NEW s \in Shares, NEW kind \in FailureKinds, NEW read \in 0..RestSteps,
         NoKind \notin FailureKinds, HealthInv, RecordShareFailure(s, kind, read)
  PROVE  HealthInv'
<1>1. HealthTypeOK'
  BY CountType DEF RecordShareFailure, HealthInv, HealthTypeOK
<1>2. ASSUME NEW x \in Shares, x # s
      PROVE  failures'[x] = failures[x] /\ rest'[x] = rest[x] /\ lastKind'[x] = lastKind[x]
  BY <1>2 DEF RecordShareFailure, HealthInv, HealthTypeOK
<1>3. /\ failures'[s] = CountAfter(kind, read)
      /\ rest'[s] = RestAfter(kind, read)
      /\ lastKind'[s] = kind /\ lastKind'[s] # NoKind
  BY DEF RecordShareFailure, HealthInv, HealthTypeOK
<1>4. HealthAgrees'
  BY <1>2, <1>3, CountType DEF HealthInv, HealthAgrees, RestAfter
<1> QED BY <1>1, <1>4 DEF HealthInv

LEMMA RestOfHealthSteps ==
  ASSUME HealthInv,
         \/ \E s \in Shares : RestEnds(s) \/ ReleaseCooldown(s)
         \/ \E m \in Models, s \in Shares : BlockEnds(m, s)
         \/ \E m \in Models, s \in Shares, kind \in FailureKinds : MaybeBlockModelShare(m, s, kind)
         \/ UNCHANGED healthVars
  PROVE  HealthInv'
<1>1. ASSUME NEW s \in Shares, RestEnds(s)
      PROVE  HealthInv'
  BY <1>1 DEF RestEnds, HealthInv, HealthTypeOK, HealthAgrees, LongestRest
<1>2. ASSUME NEW s \in Shares, ReleaseCooldown(s)
      PROVE  HealthInv'
  BY <1>2, ClearKeepsHealth DEF ReleaseCooldown
<1>3. ASSUME NEW m \in Models, NEW s \in Shares, BlockEnds(m, s)
      PROVE  HealthInv'
  BY <1>3 DEF BlockEnds, HealthInv, HealthTypeOK, HealthAgrees
<1>4. ASSUME NEW m \in Models, NEW s \in Shares, NEW kind \in FailureKinds,
             MaybeBlockModelShare(m, s, kind)
      PROVE  HealthInv'
  BY <1>4 DEF MaybeBlockModelShare, HealthInv, HealthTypeOK, HealthAgrees
<1>5. CASE UNCHANGED healthVars
  BY <1>5 DEF healthVars, HealthInv, HealthTypeOK, HealthAgrees
<1> QED BY <1>1, <1>2, <1>3, <1>4, <1>5

-----------------------------------------------------------------------------
(* What a request may do to the health, to the tables and to the routes *)

LEMMA CandidateType ==
  ASSUME NEW r \in Requests, RequestsTypeOK, CandidatesAgree,
         stage[r] \in {"calling", "served", "kept", "counting", "failing"}
  PROVE  /\ at[r] \in 1 .. Len(candidates[r])
         /\ Candidate(r) \in Shares
         /\ BilledModel(r) \in Models
<1>1. candidates[r] \in Seq(Shares) /\ candidates[r] \in Seq(Priced(r)) /\ at[r] \in 1 .. Len(candidates[r])
  BY DEF RequestsTypeOK, CandidatesAgree
<1>2. 1 \in 1 .. Len(candidates[r])
  BY <1>1
<1>3. candidates[r][1] \in Priced(r) /\ Candidate(r) \in Shares
  BY <1>1, <1>2, ElementOfSeq DEF Candidate
<1>4. \A s \in Shares, m \in Models : PriceModel[s][m] \in Models \cup {NoModel}
  BY RoutingAssumption
<1>5. Asks[r] \in Models
  BY RoutingAssumption
<1>6. BilledModel(r) \in Models
  BY <1>3, <1>4, <1>5 DEF BilledModel, Priced
<1> QED BY <1>1, <1>3, <1>6

LEMMA SyncKeeps ==
  ASSUME NEW listing \in Listings, HealthInv, SyncShares(listing)
  PROVE  HealthInv' /\ row' \in [Shares -> RowStates]
<1>1. HealthInv'
  BY ClearKeepsHealth DEF SyncShares
<1> QED BY <1>1, RoutingAssumption DEF SyncShares

LEMMA HealthStep ==
  ASSUME RoutingInv, [Next]_vars
  PROVE  HealthInv'
<1> USE DEF RoutingInv, TypeOK
<1>0. HealthInv
  BY DEF HealthInv
<1>1. CASE UNCHANGED healthVars
  BY <1>0, <1>1, RestOfHealthSteps
<1>2. ASSUME NEW r \in Requests, RequestStep(r)
      PROVE  HealthInv'
  <2>1. CASE SyncBeforeRetry(r)
    <3>1. UNCHANGED healthVars \/ \E listing \in Listings : SyncShares(listing)
      BY <2>1 DEF SyncBeforeRetry
    <3> QED BY <3>1, <1>0, <1>1, SyncKeeps
  <2>2. CASE ShareServes(r)
    <3>1. RecordShareSuccess(Candidate(r)) /\ Candidate(r) \in Shares
      BY <2>2, CandidateType DEF ShareServes
    <3> QED BY <3>1, <1>0, SuccessKeepsHealth
  <2>3. CASE RestShare(r)
    <3>1. Candidate(r) \in Shares
      BY <2>3, CandidateType DEF RestShare
    <3>2. failed[r] \in FailureKinds /\ counted[r] \in 0..RestSteps
      BY <2>3 DEF RestShare, CandidatesAgree, RequestsTypeOK
    <3>3. UNCHANGED healthVars \/ RecordShareFailure(Candidate(r), failed[r], counted[r])
      BY <2>3 DEF RestShare
    <3> QED BY <3>1, <3>2, <3>3, <1>0, <1>1, FailureKeepsHealth, RoutingAssumption
  <2>4. CASE LeaveShare(r)
    <3>1. /\ Candidate(r) \in Shares /\ BilledModel(r) \in Models
          /\ MaybeBlockModelShare(BilledModel(r), Candidate(r), failed[r])
          /\ failed[r] \in FailureKinds
      BY <2>4, CandidateType DEF LeaveShare, CandidatesAgree, RequestsTypeOK
    <3> QED BY <3>1, <1>0, RestOfHealthSteps
  <2>5. CASE ~(SyncBeforeRetry(r) \/ ShareServes(r) \/ RestShare(r) \/ LeaveShare(r))
    BY <1>1, <1>2, <2>5 DEF RequestStep, ResolveScope, SelectShareCandidates, SelectNone,
       OrderShareCandidates, ShareErrs, CallFails, KeepRoute, RecordResponse, HandlerStops
  <2> QED BY <2>1, <2>2, <2>3, <2>4, <2>5
<1>3. CASE Sync
  BY <1>3, <1>0, SyncKeeps DEF Sync
<1>4. CASE HealthPasses
  BY <1>4, <1>0, RestOfHealthSteps DEF HealthPasses
<1>5. CASE SetAllowlist \/ (\E r \in Requests : ResponseExpires(r)) \/ (\E k \in Keys : RouteExpires(k))
           \/ (\E m \in Models : PutRoutingShares(m) \/ InsertRoutingShare(m))
           \/ \E s \in Shares : BarShare(s)
  BY <1>5, <1>1 DEF SetAllowlist, ResponseExpires, RouteExpires, PutRoutingShares,
     InsertRoutingShare, BarShare
<1>6. CASE UNCHANGED vars
  BY <1>6, <1>1 DEF vars
<1> QED BY <1>2, <1>3, <1>4, <1>5, <1>6 DEF Next

LEMMA TablesStep ==
  ASSUME RoutingInv, [Next]_vars
  PROVE  TablesTypeOK'
<1> USE DEF RoutingInv, TypeOK, TablesTypeOK
<1>1. CASE UNCHANGED tableVars
  BY <1>1 DEF tableVars
<1>2. ASSUME NEW listing \in Listings, SyncShares(listing)
      PROVE  TablesTypeOK'
  BY <1>2, RoutingAssumption DEF SyncShares
<1>3. ASSUME NEW r \in Requests, RequestStep(r)
      PROVE  TablesTypeOK'
  <2>1. CASE SyncBeforeRetry(r)
    BY <1>1, <1>2, <2>1 DEF SyncBeforeRetry
  <2>2. CASE ~SyncBeforeRetry(r)
    BY <1>1, <1>3, <2>2 DEF RequestStep, ResolveScope, SelectShareCandidates, SelectNone,
       OrderShareCandidates, ShareServes, ShareErrs, RestShare, CallFails, LeaveShare,
       KeepRoute, RecordResponse, HandlerStops
  <2> QED BY <2>1, <2>2
<1>4. CASE Sync
  BY <1>4, <1>2 DEF Sync
<1>5. CASE SetAllowlist
  BY <1>5, RoutingAssumption DEF SetAllowlist
<1>6. ASSUME NEW m \in Models, PutRoutingShares(m) \/ InsertRoutingShare(m)
      PROVE  TablesTypeOK'
  <2>1. CASE PutRoutingShares(m)
    <3>1. PICK list \in SUBSET Shares :
             relisting' = [relisting EXCEPT ![m] = list] /\ ruled' = [ruled EXCEPT ![m] = {}]
      BY <2>1, RoutingAssumption DEF PutRoutingShares
    <3> QED BY <2>1, <3>1 DEF PutRoutingShares
  <2>2. CASE InsertRoutingShare(m)
    <3>1. PICK s \in relisting[m] :
             /\ ruled' = [ruled EXCEPT ![m] = @ \cup {s}]
             /\ relisting' = [relisting EXCEPT ![m] = @ \ {s}]
      BY <2>2 DEF InsertRoutingShare
    <3>2. ruled[m] \cup {s} \in SUBSET Shares /\ relisting[m] \ {s} \in SUBSET Shares
      OBVIOUS
    <3> QED BY <2>2, <3>1, <3>2 DEF InsertRoutingShare
  <2> QED BY <1>6, <2>1, <2>2
<1>7. ASSUME NEW s \in Shares, BarShare(s)
      PROVE  TablesTypeOK'
  BY <1>7 DEF BarShare
<1>8. CASE HealthPasses \/ (\E r \in Requests : ResponseExpires(r))
           \/ (\E k \in Keys : RouteExpires(k)) \/ UNCHANGED vars
  BY <1>8, <1>1 DEF HealthPasses, ResponseExpires, RouteExpires, vars
<1> QED BY <1>3, <1>4, <1>5, <1>6, <1>7, <1>8 DEF Next

LEMMA RoutesStep ==
  ASSUME RoutingInv, [Next]_vars
  PROVE  StickyTypeOK'
<1> USE DEF RoutingInv, TypeOK, StickyTypeOK
<1>1. CASE UNCHANGED stickyVars
  BY <1>1 DEF stickyVars
<1>2. ASSUME NEW r \in Requests, RequestStep(r)
      PROVE  StickyTypeOK'
  <2>1. CASE LeaveShare(r)
    BY <2>1 DEF LeaveShare, ClearStickyRoutesForShare
  <2>2. CASE KeepRoute(r)
    <3>1. Candidate(r) \in Shares
      BY <2>2, CandidateType DEF KeepRoute
    <3> QED BY <2>2, <3>1 DEF KeepRoute, RefreshStickyRoutes
  <2>3. CASE RecordResponse(r)
    BY <2>3, RoutingAssumption DEF RecordResponse
  <2>4. CASE ~(LeaveShare(r) \/ KeepRoute(r) \/ RecordResponse(r))
    BY <1>1, <1>2, <2>4 DEF RequestStep, ResolveScope, SelectShareCandidates, SelectNone,
       SyncBeforeRetry, OrderShareCandidates, ShareServes, ShareErrs, RestShare, CallFails,
       HandlerStops
  <2> QED BY <2>1, <2>2, <2>3, <2>4
<1>3. CASE SetAllowlist
  BY <1>3 DEF SetAllowlist
<1>4. ASSUME NEW r \in Requests, ResponseExpires(r)
      PROVE  StickyTypeOK'
  BY <1>4 DEF ResponseExpires
<1>5. ASSUME NEW k \in Keys, RouteExpires(k)
      PROVE  StickyTypeOK'
  BY <1>5 DEF RouteExpires
<1>6. CASE Sync \/ HealthPasses \/ (\E m \in Models : PutRoutingShares(m) \/ InsertRoutingShare(m))
           \/ (\E s \in Shares : BarShare(s)) \/ UNCHANGED vars
  BY <1>6, <1>1 DEF Sync, HealthPasses, PutRoutingShares, InsertRoutingShare, BarShare, vars
<1> QED BY <1>2, <1>3, <1>4, <1>5, <1>6 DEF Next

-----------------------------------------------------------------------------
(* What a request keeps *)

LEMMA OrderFacts ==
  ASSUME NEW S, IsFiniteSet(S), S # {}, NEW order \in SetToSeqs(S)
  PROVE  /\ order \in Seq(S)
         /\ Len(order) >= 1
         /\ \A x \in S : \E i \in 1 .. Len(order) : order[i] = x
<1> DEFINE n == Cardinality(S)
<1>1. n \in Nat /\ n # 0
  BY FS_CardinalityType, FS_EmptySet
<1>2. order \in [1..n -> S] /\ \A i, j \in 1..n : i # j => order[i] # order[j]
  BY DEF SetToSeqs
<1>3. order \in Seq(S) /\ Len(order) = n
  BY <1>1, <1>2, IsASeq, LenProperties
<1>4. ASSUME NEW x \in S, \A i \in 1..n : order[i] # x
      PROVE  FALSE
  <2> DEFINE D == 1..n  T == S \ {x}
  <2>1. IsFiniteSet(T) /\ Cardinality(T) = n - 1
    BY FS_RemoveElement
  <2>2. IsFiniteSet(D) /\ Cardinality(D) = n
    BY <1>1, FS_Interval
  <2>3. order \in [D -> T]
    BY <1>2, <1>4
  <2>4. Cardinality(T) < Cardinality(D)
    BY <1>1, <2>1, <2>2
  <2>5. \E i, j \in D : i # j /\ order[i] = order[j]
    <3> HIDE DEF n, D, T
    <3> QED BY <2>1, <2>2, <2>3, <2>4, FS_PigeonHole
  <2> QED BY <2>5, <1>2
<1> QED BY <1>1, <1>3, <1>4

LEMMA TruncateFacts ==
  ASSUME NEW S, NEW order \in Seq(S), Len(order) >= 1, NEW most \in Nat \ {0}
  PROVE  LET cut == SubSeq(order, 1, IF Len(order) < most THEN Len(order) ELSE most)
         IN  cut \in Seq(S) /\ Len(cut) >= 1 /\ cut[1] = order[1]
<1> DEFINE len == IF Len(order) < most THEN Len(order) ELSE most
<1>1. len \in 1 .. Len(order)
  BY LenProperties
<1>2. /\ SubSeq(order, 1, len) \in Seq(S)
      /\ Len(SubSeq(order, 1, len)) = len
      /\ SubSeq(order, 1, len)[1] = order[1]
  BY <1>1, SubSeqProperties
<1> QED BY <1>1, <1>2

\* What CandidatesAgree says of one request.
RequestAgrees(r) ==
    /\ found[r] \subseteq Priced(r)
    /\ candidates[r] \in Seq(Priced(r))
    /\ stage[r] = "selected" => found[r] # {}
    /\ stage[r] \in {"calling", "served", "kept", "counting", "failing"} =>
          at[r] \in 1 .. Len(candidates[r])
    /\ stage[r] \in {"counting", "failing"} => failed[r] # NoKind
    /\ StickyEnabled /\ bound[r] # NoShare =>
          \/ stage[r] = "selected" /\ bound[r] \in found[r]
          \/ /\ stage[r] \in {"calling", "served", "kept", "counting", "failing"}
             /\ candidates[r][1] = bound[r]

LocalsInv == RequestsTypeOK /\ \A r \in Requests : RequestAgrees(r)

LEMMA LocalsIff ==
  RequestsTypeOK /\ CandidatesAgree <=> LocalsInv
BY DEF LocalsInv, CandidatesAgree, RequestAgrees

LEMMA EndKeepsLocals ==
  ASSUME NEW r \in Requests, LocalsInv, End(r)
  PROVE  LocalsInv'
<1>1. RequestsTypeOK'
  BY EmptySeq DEF End, GoTo, LocalsInv, RequestsTypeOK, Stages, RestSteps
<1>2. RequestAgrees(r)'
  BY EmptySeq DEF End, GoTo, LocalsInv, RequestsTypeOK, RequestAgrees, Priced
<1>3. ASSUME NEW q \in Requests, q # r
      PROVE  RequestAgrees(q)'
  BY <1>3 DEF End, GoTo, LocalsInv, RequestsTypeOK, RequestAgrees, Priced
<1> QED BY <1>1, <1>2, <1>3 DEF LocalsInv

LEMMA LocalsUnchanged ==
  ASSUME LocalsInv, UNCHANGED requestVars
  PROVE  LocalsInv'
BY DEF LocalsInv, requestVars, RequestsTypeOK, RequestAgrees, Priced

LEMMA SelectKeepsLocals ==
  ASSUME NEW r \in Requests, LocalsInv, StickyTypeOK, SelectShareCandidates(r)
  PROVE  LocalsInv'
<1>1. PICK rows \in Rows(r) : \E first \in {s \in rows : ForSale(s, r)} :
         /\ SeenRoute(r) \in {s \in rows : ForSale(s, r)} => first = SeenRoute(r)
         /\ found' = [found EXCEPT ![r] = OfProtocol({s \in rows : ForSale(s, r)}, first)]
  BY DEF SelectShareCandidates
<1> DEFINE sold == {s \in rows : ForSale(s, r)}
<1>2. PICK first \in sold :
         /\ SeenRoute(r) \in sold => first = SeenRoute(r)
         /\ found' = [found EXCEPT ![r] = OfProtocol(sold, first)]
  BY <1>1
<1>0. /\ OfProtocol(sold, first) \subseteq Priced(r)
      /\ OfProtocol(sold, first) \subseteq Shares
      /\ first \in OfProtocol(sold, first)
      /\ SeenRoute(r) \in FitShares(r) => SeenRoute(r) \in rows
  BY DEF Rows, kSubset, FitShares, ForSale, OfProtocol
<1>3. SeenRoute(r) \in Shares \cup {NoShare}
  BY RoutingAssumption DEF SeenRoute, StickyTypeOK, LocalsInv, RequestsTypeOK
<1> HIDE DEF sold
<1>4. RequestsTypeOK'
  BY <1>2, <1>0, <1>3
     DEF SelectShareCandidates, GoTo, LocalsInv, RequestsTypeOK, Stages
<1>5. RequestAgrees(r)'
  <2>1. /\ stage'[r] = "selected" /\ found'[r] = OfProtocol(sold, first)
        /\ candidates' = candidates
        /\ bound'[r] # NoShare => /\ bound'[r] = SeenRoute(r) /\ SeenRoute(r) \in Shares
                                  /\ CanServe(SeenRoute(r), r) /\ ForSale(SeenRoute(r), r)
    BY <1>2, <1>3 DEF SelectShareCandidates, GoTo, LocalsInv, RequestsTypeOK
  <2>2. bound'[r] # NoShare => bound'[r] = first
    BY <1>0, <1>2, <2>1 DEF FitShares, Fits, sold
  <2> QED BY <1>0, <2>1, <2>2 DEF LocalsInv, RequestAgrees, Priced
<1>6. ASSUME NEW q \in Requests, q # r
      PROVE  RequestAgrees(q)'
  BY <1>2, <1>6
     DEF SelectShareCandidates, GoTo, LocalsInv, RequestsTypeOK, RequestAgrees, Priced
<1> QED BY <1>4, <1>5, <1>6 DEF LocalsInv

LEMMA OrderKeepsLocals ==
  ASSUME NEW r \in Requests, LocalsInv, OrderShareCandidates(r)
  PROVE  LocalsInv'
<1> DEFINE Cut(order) ==
       SubSeq(order, 1, IF Len(order) < MaxAttempts THEN Len(order) ELSE MaxAttempts)
<1>0. /\ stage[r] = "selected" /\ found[r] # {} /\ found[r] \subseteq Priced(r)
      /\ IsFiniteSet(found[r]) /\ MaxAttempts \in Nat \ {0}
  BY RoutingAssumption, FS_Subset
     DEF OrderShareCandidates, LocalsInv, RequestAgrees, RequestsTypeOK
<1>1. PICK order \in SetToSeqs(found[r]) :
         /\ StickyEnabled => InOrder(order, SeenRoute(r))
         /\ candidates' = [candidates EXCEPT ![r] = Cut(order)]
  BY DEF OrderShareCandidates
<1>2. /\ order \in Seq(found[r]) /\ Len(order) >= 1
      /\ \A x \in found[r] : \E i \in 1 .. Len(order) : order[i] = x
  BY <1>0, OrderFacts
<1>3. Cut(order) \in Seq(found[r]) /\ Len(Cut(order)) >= 1 /\ Cut(order)[1] = order[1]
  BY <1>0, <1>2, TruncateFacts
<1>4. Cut(order) \in Seq(Shares) /\ Cut(order) \in Seq(Priced(r))
  BY <1>0, <1>3, SeqMonotonic DEF Priced
<1>5. ASSUME StickyEnabled, bound[r] # NoShare, bound[r] = SeenRoute(r)
      PROVE  Cut(order)[1] = bound[r]
  <2>1. bound[r] \in found[r]
    BY <1>0, <1>5 DEF LocalsInv, RequestAgrees
  <2>2. PICK i \in 1 .. Len(order) : order[i] = bound[r]
    BY <1>2, <2>1
  <2>3. 1 \in DOMAIN order /\ i \in DOMAIN order /\ (i # 1 => 1 < i)
    BY <1>2, LenProperties
  <2>4. order[1] = bound[r]
    BY <1>1, <1>5, <2>2, <2>3 DEF InOrder
  <2> QED BY <1>3, <2>4
<1> HIDE DEF Cut
<1>6. RequestsTypeOK'
  BY <1>1, <1>4 DEF OrderShareCandidates, GoTo, LocalsInv, RequestsTypeOK, Stages
<1>7. RequestAgrees(r)'
  <2>1. /\ stage'[r] = "calling" /\ found'[r] = {} /\ at'[r] = 1
        /\ candidates'[r] = Cut(order)
        /\ bound'[r] = IF bound[r] = SeenRoute(r) THEN bound[r] ELSE NoShare
    BY <1>1 DEF OrderShareCandidates, GoTo, LocalsInv, RequestsTypeOK
  <2>2. 1 \in 1 .. Len(Cut(order))
    BY <1>3, LenProperties
  <2> QED BY <1>4, <1>5, <2>1, <2>2 DEF RequestAgrees, Priced
<1>8. ASSUME NEW q \in Requests, q # r
      PROVE  RequestAgrees(q)'
  BY <1>1, <1>8
     DEF OrderShareCandidates, GoTo, LocalsInv, RequestsTypeOK, RequestAgrees, Priced
<1> QED BY <1>6, <1>7, <1>8 DEF LocalsInv

LEMMA LoopKeepsLocals ==
  ASSUME NEW r \in Requests, LocalsInv, HealthTypeOK, StickyTypeOK,
         \/ ResolveScope(r) \/ ShareServes(r) \/ ShareErrs(r) \/ RestShare(r) \/ CallFails(r)
         \/ KeepRoute(r)
  PROVE  LocalsInv'
<1> USE DEF GoTo, LocalsInv, RequestsTypeOK, RequestAgrees, Priced
<1>1. CASE ResolveScope(r)
  <2>1. HistoryKey[r] \in Keys \cup {NoKey}
    BY RoutingAssumption
  <2>2. PICK key \in Keys \cup {NoKey} : fallback' = [fallback EXCEPT ![r] = key]
    <3> DEFINE named == {k \in Keys \ {PrimaryKey[r]} : \E q \in Follows[r] : answerKey[q] = k}
    <3>1. named \subseteq Keys
      OBVIOUS
    <3>2. \E key \in IF StickyEnabled /\ named # {} THEN named ELSE {HistoryKey[r]} :
             fallback' = [fallback EXCEPT ![r] = key]
      BY <1>1 DEF ResolveScope
    <3> HIDE DEF named
    <3> QED BY <2>1, <3>1, <3>2
  <2> QED BY <1>1, <2>2 DEF ResolveScope, Stages
<1>2. CASE ShareServes(r)
  BY <1>2 DEF ShareServes, Stages
<1>3. CASE ShareErrs(r)
  <2>1. Candidate(r) \in Shares
    BY <1>3, CandidateType, LocalsIff DEF ShareErrs
  <2>2. FailsWith[Candidate(r)] \subseteq FailureKinds
    BY <2>1, RoutingAssumption
  <2>3. failures[Candidate(r)] \in 0..RestSteps
    BY <2>1 DEF HealthTypeOK
  <2>4. PICK kind \in FailureKinds : failed' = [failed EXCEPT ![r] = kind]
    BY <1>3, <2>2 DEF ShareErrs
  <2>5. kind # NoKind
    BY RoutingAssumption
  <2> QED BY <1>3, <2>3, <2>4, <2>5 DEF ShareErrs, Stages
<1>4. CASE RestShare(r)
  BY <1>4 DEF RestShare, Stages
<1>5. CASE CallFails(r)
  <2>1. Candidate(r) \in Shares
    BY <1>5, CandidateType, LocalsIff DEF CallFails
  <2>2. FailsWith[Candidate(r)] \subseteq FailureKinds
    BY <2>1, RoutingAssumption
  <2>3. PICK kind \in FailureKinds : failed' = [failed EXCEPT ![r] = kind]
    BY <1>5, <2>2 DEF CallFails
  <2>4. kind # NoKind
    BY RoutingAssumption
  <2> QED BY <1>5, <2>3, <2>4 DEF CallFails, Stages
<1>6. CASE KeepRoute(r)
  BY <1>6 DEF KeepRoute, Stages
<1> QED BY <1>1, <1>2, <1>3, <1>4, <1>5, <1>6

LEMMA LeaveKeepsLocals ==
  ASSUME NEW r \in Requests, LocalsInv, LeaveShare(r)
  PROVE  LocalsInv'
<1>1. CASE IsRetryable(failed[r]) /\ at[r] < Len(candidates[r])
  <2>1. /\ at' = [at EXCEPT ![r] = @ + 1]
        /\ failed' = [failed EXCEPT ![r] = NoKind]
        /\ counted' = [counted EXCEPT ![r] = 0]
        /\ stage' = [stage EXCEPT ![r] = "calling"]
        /\ UNCHANGED <<fallback, bound, found, candidates>>
    BY <1>1 DEF LeaveShare, GoTo
  <2>2. stage[r] = "failing" /\ Len(candidates[r]) \in Nat
    BY LenProperties DEF LeaveShare, LocalsInv, RequestsTypeOK
  <2>3. RequestsTypeOK'
    BY <2>1 DEF LocalsInv, RequestsTypeOK, Stages, RestSteps
  <2>4. at[r] \in 1 .. Len(candidates[r]) /\ at'[r] = at[r] + 1
    BY <2>1, <2>2 DEF LocalsInv, RequestsTypeOK, RequestAgrees
  <2>5. at'[r] \in 1 .. Len(candidates[r])
    BY <1>1, <2>2, <2>4
  <2>6. RequestAgrees(r)'
    BY <2>1, <2>2, <2>5 DEF LocalsInv, RequestsTypeOK, RequestAgrees, Priced
  <2>7. ASSUME NEW q \in Requests, q # r
        PROVE  RequestAgrees(q)'
    BY <2>1, <2>7 DEF LocalsInv, RequestsTypeOK, RequestAgrees, Priced
  <2> QED BY <2>3, <2>6, <2>7 DEF LocalsInv
<1>2. CASE ~(IsRetryable(failed[r]) /\ at[r] < Len(candidates[r]))
  BY <1>2, EndKeepsLocals DEF LeaveShare
<1> QED BY <1>1, <1>2

LEMMA SyncKeepsLocals ==
  ASSUME NEW r \in Requests, LocalsInv, SelectNone(r) \/ SyncBeforeRetry(r)
  PROVE  LocalsInv'
<1>1. \/ End(r)
      \/ /\ GoTo(r, "syncing") \/ GoTo(r, "synced")
         /\ stage[r] \in {"scoped", "syncing"}
         /\ UNCHANGED <<fallback, bound, found, candidates, at, failed, counted>>
  BY DEF SelectNone, SyncBeforeRetry
<1>2. CASE End(r)
  BY <1>2, EndKeepsLocals
<1>3. CASE ~End(r)
  BY <1>1, <1>3 DEF GoTo, LocalsInv, RequestsTypeOK, RequestAgrees, Priced, Stages
<1> QED BY <1>2, <1>3

LEMMA LocalsStep ==
  ASSUME RoutingInv, [Next]_vars
  PROVE  LocalsInv'
<1>0. LocalsInv
  BY LocalsIff DEF RoutingInv, TypeOK
<1>1. ASSUME NEW r \in Requests, RequestStep(r)
      PROVE  LocalsInv'
  <2>1. CASE SelectShareCandidates(r)
    BY <2>1, <1>0, SelectKeepsLocals DEF RoutingInv, TypeOK
  <2>2. CASE OrderShareCandidates(r)
    BY <2>2, <1>0, OrderKeepsLocals
  <2>3. CASE LeaveShare(r)
    BY <2>3, <1>0, LeaveKeepsLocals
  <2>4. CASE SelectNone(r) \/ SyncBeforeRetry(r)
    BY <2>4, <1>0, SyncKeepsLocals
  <2>5. CASE RecordResponse(r) \/ HandlerStops(r)
    BY <2>5, <1>0, EndKeepsLocals DEF RecordResponse, HandlerStops
  <2>6. CASE \/ ResolveScope(r) \/ ShareServes(r) \/ ShareErrs(r) \/ RestShare(r) \/ CallFails(r)
             \/ KeepRoute(r)
    BY <2>6, <1>0, LoopKeepsLocals DEF RoutingInv, TypeOK
  <2> QED BY <1>1, <2>1, <2>2, <2>3, <2>4, <2>5, <2>6 DEF RequestStep
<1>2. CASE UNCHANGED requestVars
  BY <1>0, <1>2, LocalsUnchanged
<1>3. CASE ~\E r \in Requests : RequestStep(r)
  BY <1>2, <1>3 DEF Next, vars, ResponseExpires, Sync, SetAllowlist, HealthPasses,
     PutRoutingShares, InsertRoutingShare, BarShare, RouteExpires
<1> QED BY <1>1, <1>3

-----------------------------------------------------------------------------
(* Theorems *)

LEMMA RoutingInitially ==
  Init => RoutingInv
<1> SUFFICES ASSUME Init PROVE RoutingInv
  OBVIOUS
<1>1. HealthTypeOK /\ HealthAgrees
  BY HealthInitially DEF Init, HealthInv
<1>2. TablesTypeOK
  BY RoutingAssumption DEF Init, TablesTypeOK
<1>3. StickyTypeOK
  BY DEF Init, StickyTypeOK
<1>4. RequestsTypeOK
  BY EmptySeq DEF Init, RequestsTypeOK, Stages, RestSteps
<1>5. CandidatesAgree
  BY EmptySeq DEF Init, CandidatesAgree
<1> QED BY <1>1, <1>2, <1>3, <1>4, <1>5 DEF RoutingInv, TypeOK

LEMMA RoutingStep ==
  RoutingInv /\ [Next]_vars => RoutingInv'
BY HealthStep, TablesStep, RoutesStep, LocalsStep, LocalsIff, PTL
   DEF RoutingInv, TypeOK, HealthInv

\* For any shares, sessions, models and tables, whatever concurrent requests
\* answer or fail and however users, admins and synchronisations change the
\* tables: every column keeps its type; a share rests only for a failure that
\* counts, for as long as that failure and its count prescribe; a request only
\* tries shares with a price, and the share its session is on first
\* (proxy.rs:386-413, 2534-2679).
THEOREM RoutingKeepsInv ==
  Spec => []RoutingInv
BY RoutingInitially, RoutingStep, PTL DEF Spec

\* A session stays on its share while that share serves it (proxy.rs:3731-3776,
\* 3867-3986), for any number of requests of the session at once.
THEOREM SessionsStay ==
  Spec => SessionStaysWhileServed
<1> DEFINE Stays == \A k \in Keys :
        route[k] # NoShare /\ route'[k] \notin {NoShare, route[k]} =>
            \E r \in Requests :
                /\ stage[r] = "served"
                /\ k \in StickyKeys(r)
                /\ bound[r] # route[k] \/ route[k] \in Tried(r)
<1>1. RoutingInv /\ [Next]_vars => [Stays]_vars
  <2> SUFFICES ASSUME RoutingInv, Next, NEW k \in Keys, route[k] # NoShare,
                      route'[k] \notin {NoShare, route[k]}
               PROVE  \E r \in Requests :
                        /\ stage[r] = "served"
                        /\ k \in StickyKeys(r)
                        /\ bound[r] # route[k] \/ route[k] \in Tried(r)
    BY DEF vars
  <2>1. PICK r \in Requests : KeepRoute(r)
    <3>1. \A q \in Requests : LeaveShare(q) => route'[k] \in {NoShare, route[k]}
      BY DEF LeaveShare, ClearStickyRoutesForShare
    <3>2. \A x \in Keys : RouteExpires(x) => route'[k] \in {NoShare, route[k]}
      BY DEF RouteExpires, RoutingInv, TypeOK, StickyTypeOK
    <3>3. SetAllowlist => route'[k] = NoShare
      BY DEF SetAllowlist
    <3> QED BY <3>1, <3>2, <3>3 DEF Next, RequestStep, stickyVars, ResolveScope,
         SelectShareCandidates, SelectNone, SyncBeforeRetry, OrderShareCandidates, ShareServes,
         ShareErrs, RestShare, CallFails, RecordResponse, HandlerStops, ResponseExpires, Sync,
         HealthPasses, PutRoutingShares, InsertRoutingShare, BarShare
  <2>2. /\ StickyEnabled /\ stage[r] = "served" /\ k \in StickyKeys(r)
        /\ route'[k] = Candidate(r)
    BY <2>1 DEF KeepRoute, RefreshStickyRoutes
  <2>3. ASSUME bound[r] = route[k]
        PROVE  route[k] \in Tried(r)
    <3>1. candidates[r][1] = route[k] /\ at[r] \in 1 .. Len(candidates[r])
      BY <2>2, <2>3 DEF RoutingInv, CandidatesAgree
    <3>2. at[r] \in Nat /\ at[r] # 1
      BY <2>2, <3>1 DEF Candidate, RoutingInv, TypeOK, RequestsTypeOK
    <3>3. 1 \in 1 .. at[r] - 1
      BY <3>1, <3>2
    <3> QED BY <3>1, <3>3 DEF Tried
  <2> QED BY <2>2, <2>3
<1>2. Spec => [][Stays]_vars
  BY <1>1, RoutingKeepsInv, PTL DEF Spec
<1> QED BY <1>2 DEF SessionStaysWhileServed
=============================================================================
