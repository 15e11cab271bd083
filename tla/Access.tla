------------------------------ MODULE Access ------------------------------
(* Logging in through the router (src/auth.rs) and the life of a user's    *)
(* API keys (src/api_keys.rs).  Both keep a file that every handler reads  *)
(* and writes without a lock: the identity under which the market asks the *)
(* router for login codes, and the list of the user's key secrets.         *)
(* A login step that fails leaves the user where the next try begins.      *)
EXTENDS Integers, FiniteSets

CONSTANTS
    Users,        \* people who log in
    Persistent,   \* those of them who try again until they are in
    Ids,          \* installation ids of the router; enough that one is free
    Keys,         \* API keys of one user
    Handlers,     \* requests about them that are handled at a time
    MaxForgets    \* bound on how often the router forgets an installation

ASSUME AccessAssumption ==
    /\ Persistent \subseteq Users
    /\ Cardinality(Ids) > 2 * Cardinality(Users) + 1
    /\ MaxForgets \in Nat

NoId == "none"

VARIABLES
    known,        \* installations that the router knows
    idFile,       \* the id in web-auth-identity.json
    login,        \* where each user's login is
    used,         \* the id its handler holds
    code,         \* the id under which the user's code was sent
    retried,      \* whether this request already replaced the identity
    forgets

loginVars == <<known, idFile, login, used, code, retried, forgets>>

VARIABLES
    keyRow,       \* row of each key: "none", "active", "paused", "deleted"
    allowlist,    \* keys with rows in market_api_key_share_allowlist
    op,           \* how far each handler is
    opKey,        \* the key it works on
    readFile,     \* what it read in the file
    secretFile,   \* the keys whose secrets are in the user's file
    torn,         \* whether the file is being written, or was left half written
    disturbed     \* whether handlers ever overlapped or were cut off

keyVars == <<keyRow, allowlist, op, opKey, readFile, secretFile, torn, disturbed>>
accessVars == <<loginVars, keyVars>>

-----------------------------------------------------------------------------
LoginInit ==
    /\ known = {}
    /\ idFile = NoId
    /\ login = [u \in Users |-> "out"]
    /\ used = [u \in Users |-> NoId]
    /\ code = [u \in Users |-> NoId]
    /\ retried = [u \in Users |-> FALSE]
    /\ forgets = MaxForgets

(* load_web_auth_identity; without a file the handler registers.  The      *)
(* stages of asking for a code and of verifying one differ in their name.  *)
Load(u, register, go) ==
    IF idFile = NoId
      THEN /\ login' = [login EXCEPT ![u] = register]
           /\ UNCHANGED used
      ELSE /\ login' = [login EXCEPT ![u] = go]
           /\ used' = [used EXCEPT ![u] = idFile]

RequestCode(u) ==
    /\ login[u] \in {"out", "coded"}
    /\ Load(u, "register", "ask")
    /\ code' = [code EXCEPT ![u] = NoId]
    /\ retried' = [retried EXCEPT ![u] = FALSE]
    /\ UNCHANGED <<known, idFile, forgets>>

EnterCode(u) ==
    /\ login[u] = "coded"
    /\ Load(u, "registerToVerify", "verify")
    /\ UNCHANGED <<known, idFile, code, retried, forgets>>

(* The router gives an id that nobody holds; which one makes no difference. *)
FreeId == CHOOSE i \in Ids : i # idFile /\ \A v \in Users : i # used[v] /\ i # code[v]

Register(u) ==
    /\ login[u] \in {"register", "registerToVerify"}
    /\ known' = known \union {FreeId}
    /\ used' = [used EXCEPT ![u] = FreeId]
    /\ login' = [login EXCEPT ![u] = IF @ = "register" THEN "save" ELSE "saveToVerify"]
    /\ UNCHANGED <<idFile, code, retried, forgets>>

SaveIdentity(u) ==
    /\ login[u] \in {"save", "saveToVerify"}
    /\ idFile' = used[u]
    /\ login' = [login EXCEPT ![u] = IF @ = "save" THEN "ask" ELSE "verify"]
    /\ UNCHANGED <<known, used, code, retried, forgets>>

(* The router sends a code, or does not know the installation: then the    *)
(* handler deletes the file, whatever is in it by now, and begins again,   *)
(* once a request.                                                         *)
CodeIsSent(u) ==
    /\ login[u] = "ask"
    /\ used[u] \in known
    /\ code' = [code EXCEPT ![u] = used[u]]
    /\ login' = [login EXCEPT ![u] = "coded"]
    /\ used' = [used EXCEPT ![u] = NoId]
    /\ UNCHANGED <<known, idFile, retried, forgets>>
ResetIdentity_KeepsFile(u) ==
    /\ login[u] = "ask"
    /\ used[u] \notin known
    /\ ~retried[u]
    /\ login' = [login EXCEPT ![u] = "reload"]
    /\ used' = [used EXCEPT ![u] = NoId]
    /\ retried' = [retried EXCEPT ![u] = TRUE]
    /\ UNCHANGED <<known, idFile, code, forgets>>

ResetIdentity(u) ==
    /\ login[u] = "ask"
    /\ used[u] \notin known
    /\ ~retried[u]
    /\ idFile' = NoId
    /\ login' = [login EXCEPT ![u] = "reload"]
    /\ used' = [used EXCEPT ![u] = NoId]
    /\ retried' = [retried EXCEPT ![u] = TRUE]
    /\ UNCHANGED <<known, code, forgets>>

Reload(u) ==
    /\ login[u] = "reload"
    /\ Load(u, "register", "ask")
    /\ UNCHANGED <<known, idFile, code, retried, forgets>>

(* The session is opened when the router accepts the code under the        *)
(* identity the market has now, which need not be the one it was sent      *)
(* under.                                                                  *)
CodeIsAccepted(u) ==
    /\ login[u] = "verify"
    /\ used[u] \in known /\ used[u] = code[u]
    /\ login' = [login EXCEPT ![u] = "in"]
    /\ used' = [used EXCEPT ![u] = NoId]
    /\ code' = [code EXCEPT ![u] = NoId]
    /\ UNCHANGED <<known, idFile, retried, forgets>>

(* A refused code, an unknown installation after the retry, a call without *)
(* answer, a file that could not be read or written.                       *)
LoginFails(u) ==
    /\ login[u] \notin {"out", "coded", "in"}
    /\ login' = [login EXCEPT ![u] = "out"]
    /\ used' = [used EXCEPT ![u] = NoId]
    /\ code' = [code EXCEPT ![u] = NoId]
    /\ UNCHANGED <<known, idFile, retried, forgets>>

(* Logout, or the session expires and maintenance revokes it.              *)
SessionEnds(u) ==
    /\ login[u] = "in"
    /\ login' = [login EXCEPT ![u] = "out"]
    /\ UNCHANGED <<known, idFile, used, code, retried, forgets>>

RouterForgets(i) ==
    /\ forgets > 0
    /\ i \in known
    /\ known' = known \ {i}
    /\ forgets' = forgets - 1
    /\ UNCHANGED <<idFile, login, used, code, retried>>

UserStep(u) ==
    \/ RequestCode(u) \/ EnterCode(u) \/ Register(u) \/ SaveIdentity(u) \/ CodeIsSent(u)
    \/ ResetIdentity(u) \/ Reload(u) \/ CodeIsAccepted(u) \/ LoginFails(u) \/ SessionEnds(u)

LoginNext ==
    \/ \E u \in Users : UserStep(u)
    \/ \E i \in Ids : RouterForgets(i)

-----------------------------------------------------------------------------
KeysInit ==
    /\ keyRow = [k \in Keys |-> "none"]
    /\ allowlist = {}
    /\ op = [h \in Handlers |-> "idle"]
    /\ opKey = [h \in Handlers |-> NoId]
    /\ readFile = [h \in Handlers |-> {}]
    /\ secretFile = {}
    /\ torn = FALSE
    /\ disturbed = FALSE

(* The rows are changed by one guarded UPDATE each; what follows, in files *)
(* and other tables, is a sequence of steps of the same handler.           *)
Start(h, k, stage) ==
    /\ op[h] = "idle"
    /\ op' = [op EXCEPT ![h] = stage]
    /\ opKey' = [opKey EXCEPT ![h] = k]
    /\ disturbed' = (disturbed \/ \E g \in Handlers \ {h} : op[g] # "idle")

CreateKey(h, k) ==
    /\ Start(h, k, "adding")
    /\ keyRow[k] = "none"
    /\ keyRow' = [keyRow EXCEPT ![k] = "active"]
    /\ UNCHANGED <<allowlist, readFile, secretFile, torn>>

SetKeyStatus(k) ==
    /\ \/ keyRow[k] = "active" /\ keyRow' = [keyRow EXCEPT ![k] = "paused"]
       \/ keyRow[k] = "paused" /\ keyRow' = [keyRow EXCEPT ![k] = "active"]
    /\ UNCHANGED <<allowlist, op, opKey, readFile, secretFile, torn, disturbed>>

(* Only a paused key, and only once: a deletion that was cut off cannot be *)
(* repeated.                                                               *)
DeleteKey(h, k) ==
    /\ Start(h, k, "removing")
    /\ keyRow[k] = "paused"
    /\ keyRow' = [keyRow EXCEPT ![k] = "deleted"]
    /\ UNCHANGED <<allowlist, readFile, secretFile, torn>>

(* A file that does not parse reads as an empty list.                      *)
ReadSecrets(h) ==
    /\ op[h] \in {"adding", "removing"}
    /\ readFile' = [readFile EXCEPT ![h] = IF torn THEN {} ELSE secretFile]
    /\ op' = [op EXCEPT ![h] = IF @ = "adding" THEN "truncateToAdd" ELSE "truncateToRemove"]
    /\ UNCHANGED <<keyRow, allowlist, opKey, secretFile, torn, disturbed>>

(* fs::write empties the file before it fills it.                          *)
TruncateSecrets(h) ==
    /\ op[h] \in {"truncateToAdd", "truncateToRemove"}
    /\ torn' = TRUE
    /\ op' = [op EXCEPT ![h] = IF @ = "truncateToAdd" THEN "fillToAdd" ELSE "fillToRemove"]
    /\ UNCHANGED <<keyRow, allowlist, opKey, readFile, secretFile, disturbed>>
Written_OnlyNew(h) ==
    IF op[h] = "fillToAdd" THEN {opKey[h]} ELSE readFile[h] \ {opKey[h]}

Written(h) ==
    IF op[h] = "fillToAdd" THEN readFile[h] \union {opKey[h]} ELSE readFile[h] \ {opKey[h]}

(* Filling what another handler has filled since the truncation may leave  *)
(* the tail of a longer list behind.                                       *)
FillSecrets(h) ==
    /\ op[h] \in {"fillToAdd", "fillToRemove"}
    /\ secretFile' = Written(h)
    /\ torn' \in IF torn THEN {FALSE} ELSE BOOLEAN
    /\ op' = [op EXCEPT ![h] = IF @ = "fillToAdd" THEN "idle" ELSE "clearing"]
    /\ opKey' = [opKey EXCEPT ![h] = IF op[h] = "fillToAdd" THEN NoId ELSE @]
    /\ readFile' = [readFile EXCEPT ![h] = {}]
    /\ UNCHANGED <<keyRow, allowlist, disturbed>>

ClearAllowlist(h) ==
    /\ op[h] = "clearing"
    /\ allowlist' = allowlist \ {opKey[h]}
    /\ op' = [op EXCEPT ![h] = "idle"]
    /\ opKey' = [opKey EXCEPT ![h] = NoId]
    /\ UNCHANGED <<keyRow, readFile, secretFile, torn, disturbed>>

(* set_api_key_share_allowlist_endpoint asks for a key that is not deleted *)
(* before the transaction that writes the rows.                            *)
CheckOwner(h, k) ==
    /\ Start(h, k, "allowing")
    /\ keyRow[k] \in {"active", "paused"}
    /\ UNCHANGED <<keyRow, allowlist, readFile, secretFile, torn>>

PutAllowlist(h) ==
    /\ op[h] = "allowing"
    /\ allowlist' \in {allowlist \union {opKey[h]}, allowlist \ {opKey[h]}}
    /\ op' = [op EXCEPT ![h] = "idle"]
    /\ opKey' = [opKey EXCEPT ![h] = NoId]
    /\ UNCHANGED <<keyRow, readFile, secretFile, torn, disturbed>>

(* The process stops, or a file or statement fails, between two steps.     *)
CutOff(h) ==
    /\ op[h] # "idle"
    /\ op' = [op EXCEPT ![h] = "idle"]
    /\ opKey' = [opKey EXCEPT ![h] = NoId]
    /\ readFile' = [readFile EXCEPT ![h] = {}]
    /\ disturbed' = TRUE
    /\ UNCHANGED <<keyRow, allowlist, secretFile, torn>>

KeysNext ==
    \/ \E k \in Keys : SetKeyStatus(k)
    \/ \E h \in Handlers :
         \/ \E k \in Keys : CreateKey(h, k) \/ DeleteKey(h, k) \/ CheckOwner(h, k)
         \/ ReadSecrets(h) \/ TruncateSecrets(h) \/ FillSecrets(h) \/ ClearAllowlist(h)
         \/ PutAllowlist(h) \/ CutOff(h)

KeysSpec == KeysInit /\ [][KeysNext]_keyVars

-----------------------------------------------------------------------------
(* The router may forget installations, handlers may replace each other's  *)
(* identity and codes may come under one that is gone: whoever keeps       *)
(* trying to log in is let in.                                             *)
LoginSucceeds == \A u \in Persistent : (login[u] # "in") ~> (login[u] = "in")

(* The secrets a user is shown are those of the keys not deleted, and no   *)
(* deleted key has an allowlist, unless two handlers overlapped or one was *)
(* cut off; and whatever happened, no secret is shown of a key that was    *)
(* never made.                                                             *)
SecretsAgreeWithKeys ==
    LET alive == {k \in Keys : keyRow[k] \in {"active", "paused"}} IN
    /\ secretFile \subseteq {k \in Keys : keyRow[k] # "none"}
    /\ ~disturbed /\ (\A h \in Handlers : op[h] = "idle")
         => ~torn /\ secretFile = alive /\ allowlist \subseteq alive
=============================================================================
