---------------------------- MODULE MCRouterLink ----------------------------
(***************************************************************************)
(* The synchronisation of shares with the router (ShareSync) and the       *)
(* logins through it, with the files of users (Access), for TLC.  They     *)
(* share no state, so one run takes them one at a time: the initial state  *)
(* says which, the variables of the others stay as they begin.             *)
(*                                                                         *)
(* Fairness.  The loop of spawn_share_sync never returns, a handler that   *)
(* began goes on or fails, and the person keeps trying.  Of the router and *)
(* the network: a call that is made again and again gets through at some   *)
(* time, and its answer comes before the next failure (strong fairness).   *)
(***************************************************************************)
EXTENDS ShareSync, Access

CONSTANT Focal

VARIABLE focus
mcVars == <<syncVars, accessVars, focus>>

\* One change among all shares, or MaxChanges of them on one share.
Within ==
    \/ focus = "shares" /\ changes' >= MaxChanges - 1
    \/ /\ focus = "share"
       /\ \A s \in Shares \ {Focal} : entry'[s] = "absent"
       /\ marks' \subseteq {Focal} \X Kinds
       /\ \A d \in deltas' : d[2][1] = Focal
SyncStep(A) == A /\ Within /\ UNCHANGED <<accessVars, focus>>
LoginStep(A) == focus = "logins" /\ A /\ UNCHANGED <<syncVars, keyVars, focus>>
KeysStep(A) == focus = "keys" /\ A /\ UNCHANGED <<syncVars, loginVars, focus>>

MCInit ==
    /\ SyncInit /\ LoginInit /\ KeysInit
    /\ focus \in {"shares", "share", "logins", "keys"}
    /\ focus # "shares" => \A s \in Shares : entry[s] = "good" => s = Focal /\ focus = "share"

MCNext == SyncStep(SyncNext) \/ LoginStep(LoginNext) \/ KeysStep(KeysNext)

SharesGoOn ==
    /\ WF_mcVars(SyncStep(Ask(Loop)))
    /\ WF_mcVars(SyncStep(Apply(Loop)))
    /\ WF_mcVars(SyncStep(ReadPicture(Loop)))
    /\ SF_mcVars(SyncStep(RouterAnswers(Loop)))
    /\ SF_mcVars(SyncStep(PictureArrives(Loop)))

LoginsGoOn ==
    \A u \in Persistent :
        /\ WF_mcVars(LoginStep(RequestCode(u)))
        /\ WF_mcVars(LoginStep(LoginFails(u)))
        /\ SF_mcVars(LoginStep(EnterCode(u)))
        /\ SF_mcVars(LoginStep(Register(u)))
        /\ SF_mcVars(LoginStep(SaveIdentity(u)))
        /\ SF_mcVars(LoginStep(CodeIsSent(u) \/ ResetIdentity(u)))
        /\ SF_mcVars(LoginStep(Reload(u)))
        /\ SF_mcVars(LoginStep(CodeIsAccepted(u)))

MCSpec == MCInit /\ [][MCNext]_mcVars /\ SharesGoOn /\ LoginsGoOn

-----------------------------------------------------------------------------
(* RowsBecomeTheList of ShareSync, in the instance where its steps are     *)
(* taken: the copy of the router's list (sync_shares) settles.             *)
ListIsCopied == focus \in {"shares", "share"} => RowsBecomeTheList

(* RouterSeesTheMarks of ShareSync, likewise: the router's picture of      *)
(* rests and blocks (sync_share_runtime_states) settles.                   *)
PictureSettles == focus \in {"shares", "share"} => RouterSeesTheMarks

(* LoginSucceeds of Access, in the instance where its steps are taken: who *)
(* keeps asking for codes (request_router_email_code) is let in.           *)
LoginsSucceed == focus = "logins" => LoginSucceeds
=============================================================================
