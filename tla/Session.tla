------------------------------ MODULE Session ------------------------------
(***************************************************************************)
(* Sign-in, sign-out and the check of every signed-in request, for one     *)
(* account: auth.controller.ts, AuthBusiness, TokenBusiness,               *)
(* UserAccessBusiness, the JWT strategy and token-claims.ts.  Each handler *)
(* is split at its database statements; none of them runs in a             *)
(* transaction.  Meanwhile the account may be disabled, its school moved   *)
(* or deleted and an organisation suspended.                               *)
(***************************************************************************)
EXTENDS Naturals, FiniteSets

CONSTANTS
    Login,      \* sign-ins; each issues at most one token, which goes by its name
    Orgs,       \* organisations
    NoOrg,      \* a school without an organisation
    MaxEdits,   \* bound: changes to the account, the school and the organisations
    MaxFaults   \* bound: failed statements

ASSUME SessionAssumption ==
    NoOrg \notin Orgs /\ MaxEdits \in Nat /\ MaxFaults \in Nat

VARIABLES
    serial,     \* the account's clients wait for one another: no two handlers in progress; never changes
    enabled,    \* the account: neither disabled, deleted, inactive nor removed
    school,     \* its school: organisation and soft delete
    suspended,  \* organisations that are suspended or deleted
    login,      \* the step each sign-in is at
    claim,      \* the organisation in its token
    tokens,     \* the tokens table
    access,     \* the rpiuseraccess row of each sign-in
    logout,     \* the step of the sign-out with each token
    request,    \* the step of a request made with each token
    stale,      \* history: that request started when its organisation was suspended already
    order,      \* history: how many tokens were stored before each
    edits, faults

people   == <<serial, enabled, school, suspended, edits>>
sessions == <<tokens, access, order>>
checks   == <<request, stale>>
vars     == <<people, login, claim, sessions, logout, checks, faults>>

Busy ==
    \/ \E l \in Login : login[l] \notin {"idle", "in", "refused", "failed"}
    \/ \E l \in Login : logout[l] \notin {"idle", "out", "failed"}
    \/ \E l \in Login : request[l] \notin {"idle", "accepted", "refused"}

MayStart == serial => ~Busy

Init ==
    /\ serial \in BOOLEAN
    /\ enabled = TRUE
    /\ school \in [org : Orgs \cup {NoOrg}, deleted : {FALSE}]
    /\ suspended \in SUBSET Orgs
    /\ login = [l \in Login |-> "idle"] /\ claim = [l \in Login |-> NoOrg]
    /\ tokens = {} /\ access = [l \in Login |-> "none"] /\ order = [l \in Login |-> 0]
    /\ logout = [l \in Login |-> "idle"]
    /\ request = [l \in Login |-> "idle"] /\ stale = {}
    /\ edits = 0 /\ faults = 0

LoginGoes(l, step) == login' = [login EXCEPT ![l] = step]

-----------------------------------------------------------------------------
(* AuthBusiness.login: the account, its school and the school's organisation. *)
SignIn(l) ==
    /\ login[l] = "idle" /\ MayStart
    /\ claim' = [claim EXCEPT ![l] = school.org]
    /\ LoginGoes(l, IF enabled /\ ~school.deleted /\ school.org # NoOrg THEN "org" ELSE "refused")
    /\ UNCHANGED <<logout, faults>> /\ UNCHANGED people /\ UNCHANGED sessions /\ UNCHANGED checks

(* assertCanSignIn: the organisation is active. *)
assertCanSignIn(l) ==
    /\ login[l] = "org"
    /\ LoginGoes(l, IF claim[l] \in suspended THEN "refused" ELSE "record")
    /\ UNCHANGED <<claim, logout, faults>> /\ UNCHANGED people /\ UNCHANGED sessions /\ UNCHANGED checks

(* createuseraccesslog: the new access row first... *)
RecordAccess(l) ==
    /\ login[l] = "record"
    /\ access' = [access EXCEPT ![l] = "open"]
    /\ LoginGoes(l, "close")
    /\ UNCHANGED <<claim, tokens, order, logout, faults>> /\ UNCHANGED people /\ UNCHANGED checks

(* The close forgets to leave out the new row. *)
CloseOthers_all(l) ==
    /\ login[l] = "close"
    /\ access' = [k \in Login |-> IF access[k] = "open" THEN "replaced" ELSE access[k]]
    /\ LoginGoes(l, "clear")
    /\ UNCHANGED <<claim, tokens, order, logout, faults>> /\ UNCHANGED people /\ UNCHANGED checks

(* ... then every other open one is closed. *)
CloseOthers(l) ==
    /\ login[l] = "close"
    /\ access' = [k \in Login |-> IF k # l /\ access[k] = "open" THEN "replaced" ELSE access[k]]
    /\ LoginGoes(l, "clear")
    /\ UNCHANGED <<claim, tokens, order, logout, faults>> /\ UNCHANGED people /\ UNCHANGED checks

(* The tokens of earlier sign-ins are left alone. *)
ClearTokens_kept(l) ==
    /\ login[l] \in {"clear", "destroy"}
    /\ LoginGoes(l, IF login[l] = "clear" THEN "destroy" ELSE "create")
    /\ UNCHANGED <<claim, logout, faults>> /\ UNCHANGED people /\ UNCHANGED sessions /\ UNCHANGED checks

(* clearAccessToken, and again the destroy of saveToken. *)
ClearTokens(l) ==
    /\ login[l] \in {"clear", "destroy"}
    /\ tokens' = {}
    /\ LoginGoes(l, IF login[l] = "clear" THEN "destroy" ELSE "create")
    /\ UNCHANGED <<claim, access, order, logout, faults>> /\ UNCHANGED people /\ UNCHANGED checks

(* A token on record is taken for the user's own: nothing is stored. *)
CreateToken_existing(l) ==
    /\ login[l] = "create"
    /\ tokens' = IF tokens = {} THEN {l} ELSE tokens
    /\ order' = [order EXCEPT ![l] = 1 + Cardinality({k \in Login : order[k] > 0})]
    /\ LoginGoes(l, "in")
    /\ UNCHANGED <<claim, access, logout, faults>> /\ UNCHANGED people /\ UNCHANGED checks

(* saveToken's create; the client gets its token. *)
CreateToken(l) ==
    /\ login[l] = "create"
    /\ tokens' = tokens \cup {l}
    /\ order' = [order EXCEPT ![l] = 1 + Cardinality({k \in Login : order[k] > 0})]
    /\ LoginGoes(l, "in")
    /\ UNCHANGED <<claim, access, logout, faults>> /\ UNCHANGED people /\ UNCHANGED checks

-----------------------------------------------------------------------------
LogoutGoes(l, step) == logout' = [logout EXCEPT ![l] = step]

(* verifyTokenBody: only a token on record signs out. *)
SignOut(l) ==
    /\ logout[l] = "idle" /\ login[l] = "in" /\ MayStart
    /\ LogoutGoes(l, IF l \in tokens THEN "access" ELSE "out")
    /\ UNCHANGED <<login, claim, faults>> /\ UNCHANGED people /\ UNCHANGED sessions /\ UNCHANGED checks

(* AuthBusiness.logout: the user's open access rows are closed... *)
CloseAccess(l) ==
    /\ logout[l] = "access"
    /\ access' = [k \in Login |-> IF access[k] = "open" THEN "signedout" ELSE access[k]]
    /\ LogoutGoes(l, "clear")
    /\ UNCHANGED <<login, claim, tokens, order, faults>> /\ UNCHANGED people /\ UNCHANGED checks

(* ... then the user's access tokens are cleared. *)
ClearOnLogout(l) ==
    /\ logout[l] = "clear"
    /\ tokens' = {}
    /\ LogoutGoes(l, "out")
    /\ UNCHANGED <<login, claim, access, order, faults>> /\ UNCHANGED people /\ UNCHANGED checks

-----------------------------------------------------------------------------
RequestGoes(l, step) == request' = [request EXCEPT ![l] = step]

(* tokenExists *)
CheckToken(l) ==
    /\ request[l] = "idle" /\ login[l] = "in" /\ MayStart
    /\ RequestGoes(l, IF l \in tokens THEN "org" ELSE "refused")
    /\ stale' = IF claim[l] \in suspended THEN stale \cup {l} ELSE stale
    /\ UNCHANGED <<login, claim, logout, faults>> /\ UNCHANGED people /\ UNCHANGED sessions

(* The organisation of the token was checked when it signed in: not again. *)
CheckOrganisation_once(l) ==
    /\ request[l] = "org"
    /\ RequestGoes(l, "school")
    /\ UNCHANGED <<stale, login, claim, logout, faults>> /\ UNCHANGED people /\ UNCHANGED sessions

(* checkTokenClaims: the organisation in the token is active... *)
CheckOrganisation(l) ==
    /\ request[l] = "org"
    /\ RequestGoes(l, IF claim[l] \in suspended THEN "refused" ELSE "school")
    /\ UNCHANGED <<stale, login, claim, logout, faults>> /\ UNCHANGED people /\ UNCHANGED sessions

(* ... and the school is still that organisation's. *)
CheckSchool(l) ==
    /\ request[l] = "school"
    /\ RequestGoes(l, IF ~school.deleted /\ school.org = claim[l] THEN "accepted" ELSE "refused")
    /\ UNCHANGED <<stale, login, claim, logout, faults>> /\ UNCHANGED people /\ UNCHANGED sessions

(* The client makes another request. *)
RequestAgain(l) ==
    /\ request[l] \in {"accepted", "refused"}
    /\ RequestGoes(l, "idle") /\ stale' = stale \ {l}
    /\ UNCHANGED <<login, claim, logout, faults>> /\ UNCHANGED people /\ UNCHANGED sessions

-----------------------------------------------------------------------------
(* An administrator or an import changes the account, the school or an organisation. *)
Administer ==
    /\ edits < MaxEdits /\ edits' = edits + 1
    /\ \/ enabled' = ~enabled /\ UNCHANGED <<school, suspended>>
       \/ \E o \in Orgs : school' = [school EXCEPT !.org = o] /\ UNCHANGED <<enabled, suspended>>
       \/ school' = [school EXCEPT !.deleted = TRUE] /\ UNCHANGED <<enabled, suspended>>
       \/ \E o \in Orgs : suspended' = suspended \cup {o} /\ UNCHANGED <<enabled, school>>
    /\ UNCHANGED <<serial, login, claim, logout, faults>> /\ UNCHANGED sessions /\ UNCHANGED checks

(* A statement of a handler fails: the handler ends, what it did so far stays. *)
Fail(l) ==
    /\ faults < MaxFaults /\ faults' = faults + 1
    /\ \/ login[l] \in {"record", "close", "clear", "destroy", "create"} /\ LoginGoes(l, "failed") /\ logout' = logout
       \/ logout[l] \in {"access", "clear"} /\ LogoutGoes(l, "failed") /\ login' = login
    /\ UNCHANGED claim /\ UNCHANGED people /\ UNCHANGED sessions /\ UNCHANGED checks

Next ==
    \/ \E l \in Login :
         \/ SignIn(l) \/ assertCanSignIn(l) \/ RecordAccess(l) \/ CloseOthers(l) \/ ClearTokens(l) \/ CreateToken(l)
         \/ SignOut(l) \/ CloseAccess(l) \/ ClearOnLogout(l)
         \/ CheckToken(l) \/ CheckOrganisation(l) \/ CheckSchool(l) \/ RequestAgain(l)
         \/ Fail(l)
    \/ Administer

Spec == Init /\ [][Next]_vars

-----------------------------------------------------------------------------
(* Types; a token is on record only for a sign-in that went through. *)
TypeOK ==
    /\ serial \in BOOLEAN /\ enabled \in BOOLEAN /\ school \in [org : Orgs \cup {NoOrg}, deleted : BOOLEAN] /\ suspended \subseteq Orgs
    /\ login \in [Login -> {"idle", "org", "record", "close", "clear", "destroy", "create", "in", "refused", "failed"}]
    /\ claim \in [Login -> Orgs \cup {NoOrg}]
    /\ tokens \subseteq {l \in Login : login[l] = "in"} /\ stale \subseteq Login /\ order \in [Login -> Nat]
    /\ access \in [Login -> {"none", "open", "replaced", "signedout"}]
    /\ logout \in [Login -> {"idle", "access", "clear", "out", "failed"}]
    /\ request \in [Login -> {"idle", "org", "school", "accepted", "refused"}]
    /\ edits \in 0..MaxEdits /\ faults \in 0..MaxFaults

(***************************************************************************)
(* One access token per user: a second sign-in ends the first session, as  *)
(* long as sign-ins and sign-outs follow one another.                      *)
(***************************************************************************)
OneTokenInTurn == serial => Cardinality(tokens) <= 1

(***************************************************************************)
(* The sign-in that stored its token last is not thrown out by an earlier  *)
(* one still in progress: its token lives until somebody signs out or      *)
(* another sign-in gets as far as clearing tokens, for itself, later.      *)
(***************************************************************************)
LastSignInStaysIn ==
    (\A l \in Login : logout[l] \in {"idle", "access"} /\ login[l] \in {"idle", "org", "record", "close", "in", "refused"})
        => \A l \in Login : order[l] > 0 /\ (\A k \in Login : order[k] <= order[l]) => l \in tokens

(***************************************************************************)
(* The access log agrees with the tokens while nothing is in progress and  *)
(* nothing has failed: the one open row is that of the live token.         *)
(***************************************************************************)
AccessLogAgrees ==
    serial /\ ~Busy /\ faults = 0 => tokens = {l \in Login : access[l] = "open"}

(***************************************************************************)
(* A request is never accepted on a token whose organisation was suspended *)
(* or deleted before the request began, however long ago it signed in; nor *)
(* on one that names no organisation.                                      *)
(***************************************************************************)
SuspendedIsRefused ==
    \A l \in Login : request[l] = "accepted" => l \notin stale /\ claim[l] # NoOrg

-----------------------------------------------------------------------------
=============================================================================
