---------------------------- MODULE ShareHealth ----------------------------
(***************************************************************************)
(* The health of the shares as the market sees it (failure.rs, proxy.rs):  *)
(* consecutive failures, the rest (cooldown) a share takes after them, and *)
(* the models a share has said it does not serve.                          *)
(*                                                                         *)
(* What an answer does to a row of router_shares is one UPDATE; the number *)
(* of failures it writes was read by a SELECT of its own before. A rest is *)
(* kept as its length in seconds, 0 for none, and ends when its time has   *)
(* passed. Only the first RestSteps failures in a row are told apart, as   *)
(* both the length of a rest (failure.rs:189) and the score of a share     *)
(* (proxy.rs:3228) tell them apart.                                        *)
(***************************************************************************)
EXTENDS Naturals

CONSTANTS
    Shares,       \* shares of providers that the router offers this market
    Models,       \* ids of models
    NoKind        \* no failure is recorded: last_failure_kind IS NULL

VARIABLES
    failures,     \* failure_count of each share
    rest,         \* seconds of the rest in force, 0 when there is none
    lastKind,     \* last_failure_kind of each share, or NoKind
    blocks        \* live rows of model_share_blocks: <<model, share>>

healthVars == <<failures, rest, lastKind, blocks>>

(***************************************************************************)
(* The policy table of failure.rs.                                         *)
(***************************************************************************)
FailureKinds == {"connect_timeout", "connect_refused", "tunnel_unavailable",
                 "upstream_429", "quota_exhausted", "model_unsupported",
                 "auth_invalid", "upstream_5xx", "bad_gateway_response",
                 "bad_request", "stream_interrupted", "unknown"}

Scope(kind) ==
    CASE kind \in {"connect_timeout", "connect_refused", "tunnel_unavailable"} -> "market_path"
      [] kind \in {"upstream_429", "quota_exhausted", "auth_invalid"}          -> "owner"
      [] kind = "model_unsupported"                                            -> "model"
      [] kind = "bad_request"                                                  -> "request"
      [] OTHER                                                                 -> "share"

BaseCooldown(kind) ==
    CASE kind = "connect_timeout"    -> 15
      [] kind = "upstream_429"       -> 120
      [] kind = "quota_exhausted"    -> 900
      [] kind = "model_unsupported"  -> 3600
      [] kind = "auth_invalid"       -> 1800
      [] kind = "bad_request"        -> 0
      [] kind = "stream_interrupted" -> 10
      [] OTHER                       -> 30

CountsAgainstShare(kind) == kind \notin {"model_unsupported", "bad_request"}

IsRetryable(kind) == kind \notin {"model_unsupported", "auth_invalid", "bad_request"}

\* A failure's rest doubles with each further one, at most four times and to
\* at most an hour.
RestSteps == 5
LongestRest == 3600
Multiplier(count) == <<1, 1, 2, 4, 8, 16>>[(IF count > RestSteps THEN RestSteps ELSE count) + 1]
CooldownSecs(kind, count) ==
    LET secs == BaseCooldown(kind) * Multiplier(count)
    IN  IF secs > LongestRest THEN LongestRest ELSE secs

HealthInit ==
    /\ failures = [s \in Shares |-> 0]
    /\ rest = [s \in Shares |-> 0]
    /\ lastKind = [s \in Shares |-> NoKind]
    /\ blocks = {}

(***************************************************************************)
(* What the handlers do to the health of a share.                          *)
(***************************************************************************)
WasOfTheShare(s) == lastKind[s] = NoKind \/ Scope(lastKind[s]) \in {"share", "market_path"}

ClearHealth(gone) ==
    /\ failures' = [s \in Shares |-> IF s \in gone THEN 0 ELSE failures[s]]
    /\ rest' = [s \in Shares |-> IF s \in gone THEN 0 ELSE rest[s]]
    /\ lastKind' = [s \in Shares |-> IF s \in gone THEN NoKind ELSE lastKind[s]]

\* record_share_success: an answer clears what earlier failures left, unless
\* the last of them was the owner's or the model's.
RecordShareSuccess(s) ==
    /\ IF WasOfTheShare(s) THEN ClearHealth({s}) ELSE UNCHANGED <<failures, rest, lastKind>>
    /\ UNCHANGED blocks

\* record_share_failure, its UPDATE; `read` is what its SELECT returned.
CountAfter(kind, read) ==
    IF CountsAgainstShare(kind) /\ read < RestSteps THEN read + 1 ELSE read
RestAfter_AnyKind(kind, read) == CooldownSecs(kind, CountAfter(kind, read))
RestAfter(kind, read) ==
    IF CountsAgainstShare(kind) THEN CooldownSecs(kind, CountAfter(kind, read)) ELSE 0
RecordShareFailure(s, kind, read) ==
    /\ failures' = [failures EXCEPT ![s] = CountAfter(kind, read)]
    /\ rest' = [rest EXCEPT ![s] = RestAfter(kind, read)]
    /\ lastKind' = [lastKind EXCEPT ![s] = kind]
    /\ UNCHANGED blocks

\* maybe_block_model_share: the share is not asked for this model for a day.
MaybeBlockModelShare(model, s, kind) ==
    /\ blocks' = IF kind = "model_unsupported" THEN blocks \cup {<<model, s>>} ELSE blocks
    /\ UNCHANGED <<failures, rest, lastKind>>

\* The time of a rest, or of a block, passes.
RestEnds(s) ==
    /\ rest[s] # 0
    /\ rest' = [rest EXCEPT ![s] = 0]
    /\ UNCHANGED <<failures, lastKind, blocks>>

\* The day passes; or the router's admin or the market's owner releases the
\* block (release_share_state); or an admin deletes the model.
BlockEnds(model, s) ==
    /\ <<model, s>> \in blocks
    /\ blocks' = blocks \ {<<model, s>>}
    /\ UNCHANGED <<failures, rest, lastKind>>

\* release_share_state, for a cooldown.
ReleaseCooldown(s) ==
    /\ ClearHealth({s})
    /\ UNCHANGED blocks

HealthTypeOK ==
    /\ failures \in [Shares -> 0..RestSteps]
    /\ rest \in [Shares -> 0..LongestRest]
    /\ lastKind \in [Shares -> FailureKinds \cup {NoKind}]
    /\ blocks \subseteq Models \X Shares

(***************************************************************************)
(* The columns of a row agree, although the count was read earlier than it *)
(* is written: a share rests only for a failure that counts, for as long   *)
(* as that failure and its count prescribe, and a share without a recorded *)
(* failure has no count (proxy.rs:2564-2665).                              *)
(***************************************************************************)
HealthAgrees ==
    \A s \in Shares :
        IF lastKind[s] = NoKind
        THEN failures[s] = 0 /\ rest[s] = 0
        ELSE IF CountsAgainstShare(lastKind[s])
             THEN failures[s] > 0 /\ rest[s] \in {0, CooldownSecs(lastKind[s], failures[s])}
             ELSE rest[s] = 0
=============================================================================
