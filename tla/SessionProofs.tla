---------------------------- MODULE SessionProofs ----------------------------
(***************************************************************************)
(* For any number of sign-ins, organisations, changes and failed           *)
(* statements: the invariants of Session, each from an inductive invariant *)
(* about one part of the state.                                            *)
(***************************************************************************)
EXTENDS Session, TLAPS, FiniteSetTheorems

(* Every action names the variables it changes; the proofs use it through these steps. *)
LoginStep(l)   == SignIn(l) \/ assertCanSignIn(l) \/ RecordAccess(l) \/ CloseOthers(l) \/ ClearTokens(l) \/ CreateToken(l)
LogoutStep(l)  == SignOut(l) \/ CloseAccess(l) \/ ClearOnLogout(l)
RequestStep(l) == CheckToken(l) \/ CheckOrganisation(l) \/ CheckSchool(l) \/ RequestAgain(l)

(* A step is a request's, a failed statement or the administrator's. *)
LEMMA NextSteps ==
    ASSUME [Next]_vars
    PROVE  \/ \E l \in Login : LoginStep(l) \/ LogoutStep(l) \/ RequestStep(l) \/ Fail(l)
           \/ Administer
           \/ UNCHANGED vars
  BY DEF Next, LoginStep, LogoutStep, RequestStep

(* The sign-ins that have stored a token, in the order in which they did. *)
Counted == {l \in Login : order[l] > 0}

Counting ==
    /\ IsFiniteSet(Counted)
    /\ \A l \in Login : order[l] <= Cardinality(Counted)
    /\ \A l \in Counted : login[l] = "in"

TypeInv == TypeOK /\ Counting

(* A token is stored: its sign-in is counted, behind all others. *)
LEMMA NextInOrder ==
    ASSUME TypeInv, NEW l \in Login, CreateToken(l)
    PROVE  /\ order' = [order EXCEPT ![l] = 1 + Cardinality(Counted)]
           /\ Cardinality(Counted) \in Nat
           /\ Counted' = Counted \cup {l} /\ IsFiniteSet(Counted')
           /\ Cardinality(Counted') = 1 + Cardinality(Counted)
<1>1. order' = [order EXCEPT ![l] = 1 + Cardinality(Counted)] /\ login[l] = "create" BY DEF CreateToken, Counted
<1>2. IsFiniteSet(Counted) /\ Cardinality(Counted) \in Nat BY FS_CardinalityType DEF TypeInv, Counting
<1>3. l \notin Counted BY <1>1 DEF TypeInv, Counting
<1>4. Counted' = Counted \cup {l} BY <1>1, <1>2 DEF Counted, TypeInv, TypeOK
<1>5. QED BY <1>1, <1>2, <1>3, <1>4, FS_AddElement

(* The tokens are numbered as they are stored. *)
LEMMA CountingStep ==
    ASSUME TypeInv, [Next]_vars
    PROVE  Counting'
<1>1. ASSUME NEW l \in Login, CreateToken(l) PROVE Counting'
  <2>1. login' = [login EXCEPT ![l] = "in"] BY <1>1 DEF CreateToken, LoginGoes
  <2>2. \A k \in Login : order'[k] <= Cardinality(Counted')
    BY <1>1, NextInOrder DEF TypeInv, TypeOK, Counting
  <2>3. \A k \in Counted' : login'[k] = "in" BY <1>1, <2>1, NextInOrder DEF TypeInv, TypeOK, Counting
  <2>4. QED BY <1>1, <2>2, <2>3, NextInOrder DEF Counting
<1>2. ASSUME order' = order, \A k \in Login : login[k] = "in" => login'[k] = "in" PROVE Counting'
  <2>1. Counted' = Counted BY <1>2 DEF Counted
  <2>2. Counted \subseteq Login BY DEF Counted
  <2>3. QED BY <1>2, <2>1, <2>2 DEF TypeInv, Counting
<1>3. ASSUME NEW l \in Login, LoginStep(l), ~CreateToken(l) PROVE Counting'
  <2>1. order' = order /\ \E step : login' = [login EXCEPT ![l] = step]
    BY <1>3 DEF LoginStep, SignIn, assertCanSignIn, RecordAccess, CloseOthers, ClearTokens, LoginGoes, sessions
  <2>2. login[l] # "in"
    BY <1>3 DEF LoginStep, SignIn, assertCanSignIn, RecordAccess, CloseOthers, ClearTokens
  <2>3. QED BY <1>2, <2>1, <2>2 DEF TypeInv, TypeOK
<1>4. ASSUME NEW l \in Login, LogoutStep(l) \/ RequestStep(l) PROVE Counting'
  BY <1>2, <1>4 DEF LogoutStep, RequestStep, SignOut, CloseAccess, ClearOnLogout, CheckToken, CheckOrganisation,
                    CheckSchool, RequestAgain, sessions
<1>5. ASSUME NEW l \in Login, Fail(l) PROVE Counting'
  BY <1>2, <1>5 DEF Fail, LoginGoes, sessions, TypeInv, TypeOK
<1>6. CASE Administer BY <1>2, <1>6 DEF Administer, sessions
<1>7. CASE UNCHANGED vars BY <1>2, <1>7 DEF vars, sessions
<1>8. QED BY <1>1, <1>3, <1>4, <1>5, <1>6, <1>7, NextSteps

(* No step of a handler leaves the types. *)
LEMMA TypeStep ==
    ASSUME TypeInv, [Next]_vars
    PROVE  TypeOK'
<1>1. ASSUME NEW l \in Login, LoginStep(l) PROVE TypeOK'
  <2>1. CASE SignIn(l) BY <2>1 DEF TypeInv, TypeOK, SignIn, LoginGoes, people, sessions, checks
  <2>2. CASE assertCanSignIn(l) BY <2>2 DEF TypeInv, TypeOK, assertCanSignIn, LoginGoes, people, sessions, checks
  <2>3. CASE RecordAccess(l) BY <2>3 DEF TypeInv, TypeOK, RecordAccess, LoginGoes, people, checks
  <2>4. CASE CloseOthers(l) BY <2>4 DEF TypeInv, TypeOK, CloseOthers, LoginGoes, people, checks
  <2>5. CASE ClearTokens(l) BY <2>5 DEF TypeInv, TypeOK, ClearTokens, LoginGoes, people, checks
  <2>6. CASE CreateToken(l)
    <3>1. order' \in [Login -> Nat] BY <2>6, NextInOrder DEF TypeInv, TypeOK
    <3>2. QED BY <2>6, <3>1 DEF TypeInv, TypeOK, CreateToken, LoginGoes, people, checks
  <2>7. QED BY <1>1, <2>1, <2>2, <2>3, <2>4, <2>5, <2>6 DEF LoginStep
<1>2. ASSUME NEW l \in Login, LogoutStep(l) PROVE TypeOK'
  <2>1. CASE SignOut(l) BY <2>1 DEF TypeInv, TypeOK, SignOut, LogoutGoes, people, sessions, checks
  <2>2. CASE CloseAccess(l) BY <2>2 DEF TypeInv, TypeOK, CloseAccess, LogoutGoes, people, checks
  <2>3. CASE ClearOnLogout(l) BY <2>3 DEF TypeInv, TypeOK, ClearOnLogout, LogoutGoes, people, checks
  <2>4. QED BY <1>2, <2>1, <2>2, <2>3 DEF LogoutStep
<1>3. ASSUME NEW l \in Login, RequestStep(l) PROVE TypeOK'
  BY <1>3 DEF RequestStep, TypeInv, TypeOK, CheckToken, CheckOrganisation, CheckSchool, RequestAgain, RequestGoes,
              people, sessions
<1>4. ASSUME NEW l \in Login, Fail(l) PROVE TypeOK'
  BY <1>4, SessionAssumption DEF Fail, TypeInv, TypeOK, LoginGoes, LogoutGoes, people, sessions, checks
<1>5. CASE Administer
  <2>1. school' \in [org : Orgs \cup {NoOrg}, deleted : BOOLEAN] BY <1>5 DEF Administer, TypeInv, TypeOK
  <2>2. suspended' \subseteq Orgs /\ enabled' \in BOOLEAN BY <1>5 DEF Administer, TypeInv, TypeOK
  <2>3. QED BY <1>5, <2>1, <2>2, SessionAssumption DEF Administer, TypeInv, TypeOK, sessions, checks
<1>6. CASE UNCHANGED vars BY <1>6 DEF vars, TypeInv, TypeOK, people, sessions, checks
<1>7. QED BY <1>1, <1>2, <1>3, <1>4, <1>5, <1>6, NextSteps

(* The types hold at first and no step of any handler leaves them. *)
THEOREM TypeCorrect == Spec => []TypeInv
<1>1. Init => TypeInv
  <2> SUFFICES ASSUME Init PROVE TypeInv OBVIOUS
  <2>1. school \in [org : Orgs \cup {NoOrg}, deleted : BOOLEAN] BY DEF Init
  <2>2. TypeOK BY <2>1, SessionAssumption DEF Init, TypeOK
  <2>3. Counted = {} BY DEF Init, Counted
  <2>4. Counting BY <2>3, FS_EmptySet DEF Init, Counting
  <2>5. QED BY <2>2, <2>4 DEF TypeInv
<1>2. TypeInv /\ [Next]_vars => TypeInv' BY TypeStep, CountingStep DEF TypeInv
<1>3. QED BY <1>1, <1>2, PTL DEF Spec

(***************************************************************************)
(* A sign-in that stores its token last keeps it: clearing takes a sign-in *)
(* or a sign-out out of the places the property speaks of, and the only    *)
(* way back is to store a token of its own, behind all others.             *)
(***************************************************************************)
THEOREM LastStays == Spec => []LastSignInStaysIn
<1> DEFINE Calm == \A l \in Login : /\ logout[l] \in {"idle", "access"}
                                    /\ login[l] \in {"idle", "org", "record", "close", "in", "refused"}
           Last == \A l \in Login : order[l] > 0 /\ (\A k \in Login : order[k] <= order[l]) => l \in tokens
<1>1. Init => LastSignInStaysIn BY DEF Init, LastSignInStaysIn
<1>2. TypeInv /\ LastSignInStaysIn /\ [Next]_vars => LastSignInStaysIn'
  <2> SUFFICES ASSUME TypeInv, LastSignInStaysIn, [Next]_vars, Calm' PROVE Last'
    BY DEF LastSignInStaysIn
  <2> HIDE DEF Calm, Last
  <2>1. ASSUME NEW l \in Login, CreateToken(l) PROVE Last'
    <3>1. tokens' = tokens \cup {l} BY <2>1 DEF CreateToken
    <3>2. \A k \in Login \ {l} : order'[k] < order'[l]
      BY <2>1, NextInOrder DEF TypeInv, TypeOK, Counting
    <3>3. QED BY <3>1, <3>2, NextInOrder, <2>1 DEF Last, TypeInv, TypeOK
  <2>2. ASSUME UNCHANGED <<order, tokens>>, Calm PROVE Last' BY <2>2 DEF Calm, Last, LastSignInStaysIn
  <2>3. ASSUME NEW l \in Login, LoginStep(l), ~CreateToken(l) PROVE Last'
    <3>1. ~ClearTokens(l) BY DEF ClearTokens, LoginGoes, Calm, TypeInv, TypeOK
    <3>2. UNCHANGED <<order, tokens, logout>>
      BY <2>3, <3>1 DEF LoginStep, SignIn, assertCanSignIn, RecordAccess, CloseOthers, sessions
    <3>3. PICK step : login' = [login EXCEPT ![l] = step]
      BY <2>3, <3>1 DEF LoginStep, SignIn, assertCanSignIn, RecordAccess, CloseOthers, LoginGoes
    <3>4. login[l] \in {"idle", "org", "record", "close"}
      BY <2>3, <3>1 DEF LoginStep, SignIn, assertCanSignIn, RecordAccess, CloseOthers
    <3>5. Calm BY <3>2, <3>3, <3>4 DEF Calm, TypeInv, TypeOK
    <3>6. QED BY <2>2, <3>2, <3>5
  <2>4. ASSUME NEW l \in Login, LogoutStep(l) PROVE Last'
    <3>1. SignOut(l)
      BY <2>4 DEF LogoutStep, CloseAccess, ClearOnLogout, LogoutGoes, Calm, TypeInv, TypeOK
    <3>2. QED BY <2>2, <3>1 DEF SignOut, LogoutGoes, sessions, Calm, TypeInv, TypeOK
  <2>5. ASSUME NEW l \in Login, RequestStep(l) PROVE Last'
    BY <2>2, <2>5 DEF RequestStep, CheckToken, CheckOrganisation, CheckSchool, RequestAgain, sessions, Calm
  <2>6. ASSUME NEW l \in Login, Fail(l) PROVE FALSE
    BY <2>6 DEF Fail, LoginGoes, LogoutGoes, Calm, TypeInv, TypeOK
  <2>7. CASE Administer BY <2>2, <2>7 DEF Administer, sessions, Calm
  <2>8. CASE UNCHANGED vars BY <2>2, <2>8 DEF vars, sessions, Calm
  <2>9. QED BY <2>1, <2>3, <2>4, <2>5, <2>6, <2>7, <2>8, NextSteps
<1>3. QED BY <1>1, <1>2, TypeCorrect, PTL DEF Spec

-----------------------------------------------------------------------------
(***************************************************************************)
(* What a request in progress has found out.  The organisation in a token  *)
(* is fixed once its sign-in is through, and a suspension is not undone.   *)
(***************************************************************************)
Judged ==
    \A l \in Login :
        /\ login[l] \notin {"idle", "refused"} => claim[l] # NoOrg
        /\ request[l] # "idle" => login[l] = "in"
        /\ request[l] = "idle" => l \notin stale
        /\ request[l] = "org" /\ l \in stale => claim[l] \in suspended
        /\ request[l] \in {"school", "accepted"} => l \notin stale

(* A request on a token of a suspended organisation is refused, however old the token. *)
THEOREM SuspensionHolds == Spec => []SuspendedIsRefused
<1>1. Init => Judged BY DEF Init, Judged
<1>2. TypeInv /\ Judged /\ [Next]_vars => Judged'
  <2> SUFFICES ASSUME TypeInv, Judged, [Next]_vars PROVE Judged' OBVIOUS
  <2>1. ASSUME NEW l \in Login, LoginStep(l) PROVE Judged'
    <3>1. CASE SignIn(l) BY <3>1 DEF SignIn, LoginGoes, people, checks, Judged, TypeInv, TypeOK
    <3>2. CASE ~SignIn(l)
      <4>1. /\ login[l] \notin {"idle", "refused", "in"} /\ \E step : login' = [login EXCEPT ![l] = step]
            /\ UNCHANGED <<claim, suspended, request, stale>>
        BY <2>1, <3>2 DEF LoginStep, assertCanSignIn, RecordAccess, CloseOthers, ClearTokens, CreateToken, LoginGoes,
                          people, checks
      <4>2. QED BY <4>1 DEF Judged, TypeInv, TypeOK
    <3>3. QED BY <3>1, <3>2
  <2>2. ASSUME NEW l \in Login, LogoutStep(l) PROVE Judged'
    BY <2>2 DEF LogoutStep, SignOut, CloseAccess, ClearOnLogout, people, checks, Judged
  <2>3. ASSUME NEW l \in Login, RequestStep(l) PROVE Judged'
    BY <2>3 DEF RequestStep, CheckToken, CheckOrganisation, CheckSchool, RequestAgain, RequestGoes, people,
                Judged, TypeInv, TypeOK
  <2>4. ASSUME NEW l \in Login, Fail(l) PROVE Judged'
    BY <2>4 DEF Fail, LoginGoes, LogoutGoes, people, checks, Judged, TypeInv, TypeOK
  <2>5. CASE Administer BY <2>5 DEF Administer, checks, Judged
  <2>6. CASE UNCHANGED vars BY <2>6 DEF vars, people, checks, Judged
  <2>7. QED BY <2>1, <2>2, <2>3, <2>4, <2>5, <2>6, NextSteps
<1>3. Judged => SuspendedIsRefused BY DEF Judged, SuspendedIsRefused
<1>4. QED BY <1>1, <1>2, <1>3, TypeCorrect, PTL DEF Spec

-----------------------------------------------------------------------------
(* One handler at a time, for an account whose clients wait for one another. *)
SigningIn(l)  == login[l] \in {"org", "record", "close", "clear", "destroy", "create"}
SigningOut(l) == logout[l] \in {"access", "clear"}

InTurn ==
    \A k, l \in Login :
        /\ SigningIn(k) /\ SigningIn(l) => k = l
        /\ SigningOut(k) /\ SigningOut(l) => k = l
        /\ ~(SigningIn(k) /\ SigningOut(l))

(* What has been cleared and what not, at every step of a handler in its turn. *)
Cleared ==
    /\ \A l \in Login : login[l] \in {"destroy", "create"} => tokens = {}
    /\ \A k, l \in tokens : k = l

(* The open rows of the access log, at every step, as long as no statement has failed. *)
Open == {l \in Login : access[l] = "open"}

Logged ==
    /\ (\A l \in Login : login[l] \notin {"close", "clear", "destroy", "create"} /\ logout[l] # "clear")
            => tokens = Open
    /\ \A l \in Login : login[l] = "close" => access[l] = "open"
    /\ \A l \in Login : login[l] \in {"clear", "destroy", "create"} => Open = {l}
    /\ \A l \in Login : logout[l] = "clear" => Open = {}

SerialInv == serial => InTurn /\ Cleared /\ (faults = 0 => Logged)

(* A handler that starts in its turn is the only one in progress. *)
LEMMA StartsAlone ==
    ASSUME TypeInv, serial, MayStart, NEW l \in Login
    PROVE  ~SigningIn(l) /\ ~SigningOut(l)
  BY DEF MayStart, Busy, SigningIn, SigningOut, TypeInv, TypeOK

(* Sign-ins, one at a time: cleared before they store, closed before they clear. *)
LEMMA SerialLogin ==
    ASSUME TypeInv, SerialInv, serial, NEW l \in Login, LoginStep(l)
    PROVE  SerialInv'
<1> USE DEF LoginGoes, people, sessions, SerialInv, InTurn, Cleared, Logged, SigningIn, SigningOut, TypeInv, TypeOK, Open
<1>1. CASE SignIn(l)
  <2>1. \A k \in Login : ~SigningIn(k) /\ ~SigningOut(k) BY <1>1, StartsAlone DEF SignIn
  <2>2. QED BY <1>1, <2>1 DEF SignIn
<1>2. CASE assertCanSignIn(l) BY <1>2 DEF assertCanSignIn
<1>3. CASE RecordAccess(l) BY <1>3 DEF RecordAccess
<1>4. CASE CloseOthers(l) BY <1>4 DEF CloseOthers
<1>5. CASE ClearTokens(l) BY <1>5 DEF ClearTokens
<1>6. CASE CreateToken(l) BY <1>6 DEF CreateToken
<1>7. QED BY <1>1, <1>2, <1>3, <1>4, <1>5, <1>6 DEF LoginStep

(* Sign-outs, one at a time: the access row is closed before the tokens are cleared. *)
LEMMA SerialLogout ==
    ASSUME TypeInv, SerialInv, serial, NEW l \in Login, LogoutStep(l)
    PROVE  SerialInv'
<1> USE DEF LogoutGoes, people, sessions, SerialInv, InTurn, Cleared, Logged, SigningIn, SigningOut, TypeInv, TypeOK, Open
<1>1. CASE SignOut(l)
  <2>1. \A k \in Login : ~SigningIn(k) /\ ~SigningOut(k) BY <1>1, StartsAlone DEF SignOut
  <2>2. QED BY <1>1, <2>1 DEF SignOut
<1>2. CASE CloseAccess(l) BY <1>2 DEF CloseAccess
<1>3. CASE ClearOnLogout(l) BY <1>3 DEF ClearOnLogout
<1>4. QED BY <1>1, <1>2, <1>3 DEF LogoutStep

(* A request leaves the tables alone; a failed statement ends the claim about the access log. *)
LEMMA SerialOthers ==
    ASSUME TypeInv, SerialInv, serial, NEW l \in Login, RequestStep(l) \/ Fail(l)
    PROVE  SerialInv'
<1> USE DEF SerialInv, InTurn, Cleared, Logged, SigningIn, SigningOut, Open
<1>1. CASE RequestStep(l)
  <2>1. UNCHANGED <<serial, login, logout, tokens, access, faults>>
    BY <1>1 DEF RequestStep, CheckToken, CheckOrganisation, CheckSchool, RequestAgain, people, sessions
  <2>2. QED BY <2>1
<1>2. CASE Fail(l)
  <2>1. faults' # 0 /\ UNCHANGED <<serial, tokens, access>>
    BY <1>2 DEF Fail, people, sessions, TypeInv, TypeOK
  <2>2. \A k \in Login : login'[k] \in {login[k], "failed"} /\ logout'[k] \in {logout[k], "failed"}
    BY <1>2 DEF Fail, LoginGoes, LogoutGoes, TypeInv, TypeOK
  <2>3. QED BY <2>1, <2>2
<1>3. QED BY <1>1, <1>2

(* The invariant of an account whose clients wait for one another. *)
THEOREM SerialInvariant == Spec => []SerialInv
<1>1. Init => SerialInv
  BY DEF Init, SerialInv, InTurn, Cleared, Logged, SigningIn, SigningOut, Open
<1>2. TypeInv /\ SerialInv /\ [Next]_vars => SerialInv'
  <2> SUFFICES ASSUME TypeInv, SerialInv, [Next]_vars, serial' PROVE SerialInv' BY DEF SerialInv
  <2>1. serial
    BY NextSteps DEF LoginStep, SignIn, assertCanSignIn, RecordAccess, CloseOthers, ClearTokens, CreateToken,
       LogoutStep, SignOut, CloseAccess, ClearOnLogout, RequestStep, CheckToken, CheckOrganisation, CheckSchool,
       RequestAgain, Fail, Administer, vars, people
  <2>2. CASE \E l \in Login : LoginStep(l) \/ LogoutStep(l) \/ RequestStep(l) \/ Fail(l)
    BY <2>1, <2>2, SerialLogin, SerialLogout, SerialOthers
  <2>3. CASE Administer \/ UNCHANGED vars
    <3>1. UNCHANGED <<serial, login, logout, tokens, access, faults>>
      BY <2>3 DEF Administer, vars, people, sessions
    <3>2. QED BY <3>1 DEF SerialInv, InTurn, Cleared, Logged, SigningIn, SigningOut, Open
  <2>4. QED BY <2>2, <2>3, NextSteps
<1>3. QED BY <1>1, <1>2, TypeCorrect, PTL DEF Spec

(* One access token per user, for an account whose sign-ins and sign-outs follow one another. *)
THEOREM OneToken == Spec => []OneTokenInTurn
<1>1. SerialInv => OneTokenInTurn
  <2> SUFFICES ASSUME SerialInv, serial PROVE Cardinality(tokens) <= 1 BY DEF OneTokenInTurn
  <2>1. CASE tokens = {}
    <3>1. Cardinality(tokens) = 0 BY <2>1, FS_EmptySet
    <3>2. QED BY <3>1
  <2>2. CASE tokens # {}
    <3>1. PICK l \in tokens : TRUE BY <2>2
    <3>2. tokens = {l} BY <3>1 DEF SerialInv, Cleared
    <3>3. Cardinality(tokens) = 1 BY <3>2, FS_Singleton
    <3>4. QED BY <3>3
  <2>3. QED BY <2>1, <2>2
<1>2. QED BY <1>1, SerialInvariant, PTL

(* The access log agrees with the tokens between handlers, until a statement fails. *)
THEOREM LogAgrees == Spec => []AccessLogAgrees
<1>1. SerialInv => AccessLogAgrees
  <2> SUFFICES ASSUME SerialInv, serial, ~Busy, faults = 0 PROVE tokens = Open
    BY DEF AccessLogAgrees, Open
  <2>1. \A l \in Login : login[l] \notin {"close", "clear", "destroy", "create"} /\ logout[l] # "clear"
    BY DEF Busy
  <2>2. QED BY <2>1 DEF SerialInv, Logged
<1>2. QED BY <1>1, SerialInvariant, PTL
=============================================================================
