--------------------------- MODULE SessionProofs ---------------------------
(***************************************************************************)
(* Proofs about Session, for any number of tokens, requests, failures and  *)
(* revocations.                                                            *)
(***************************************************************************)
EXTENDS Session, TLAPS

-----------------------------------------------------------------------------
(* Type correctness, one group of variables at a time                      *)

ScreenOK ==
    /\ status \in {"checking", "setup", "locked", "unlocked"}
    /\ role \in Roles \cup {None} /\ storedRole \in Roles \cup {None}
    /\ submitting \in BOOLEAN /\ pinConfigured \in BOOLEAN
    /\ accountsExist \in BOOLEAN /\ deferred \in BOOLEAN
    /\ authView \in {"register", "login", "pin"}
    /\ token \in Tokens \cup {None}

ServerOK ==
    /\ failures \in Nat /\ revocations \in Nat
    /\ grants \in [Tokens -> Roles \cup {None}] /\ live \subseteq Tokens
    /\ pinSet \in BOOLEAN /\ accountsMade \in BOOLEAN

RequestsOK == requests \subseteq Request

\* What the server gave out, and what the tab and its requests hold of it.
GrantInv ==
    /\ \A t \in live : grants[t] # None
    /\ token # None => /\ grants[token] # None
                       /\ storedRole = grants[token]
                          \/ (storedRole = None /\ grants[token] = "owner")
    /\ \A q \in requests :
          /\ q.token # None => grants[q.token] # None
          /\ q.kind \in SignIns /\ q.answer = "ok" =>
                q.granted # None /\ grants[q.granted] # None

TypedInv == ScreenOK /\ ServerOK /\ RequestsOK /\ GrantInv

LEMMA TypedInvTypes == TypedInv => TypeOK
  BY DEF TypedInv, TypeOK, ScreenOK, ServerOK, RequestsOK

\* A request just sent, or answered without a session.
LEMMA SentIsRequest ==
  ASSUME NEW kind \in Kinds, NEW t \in Tokens \cup {None}
  PROVE  Sent(kind, t) \in Request
  BY DEF Sent, Request

LEMMA AnsweredIsRequest ==
  ASSUME NEW q \in Request, NEW a \in {"none", "ok", "401", "refused"}
  PROVE  [q EXCEPT !.answer = a] \in Request
  BY DEF Request

LEMMA GrantedIsRequest ==
  ASSUME NEW q \in Request, NEW t \in Tokens
  PROVE  [q EXCEPT !.answer = "ok", !.granted = t] \in Request
  BY DEF Request

LEMMA ScreenStays ==
  ASSUME ScreenOK, UNCHANGED <<screen, deferred, storage>>
  PROVE  ScreenOK'
<1>1. /\ UNCHANGED <<status, role, submitting, pinConfigured, accountsExist, authView>>
      /\ UNCHANGED <<deferred, token, storedRole>>
  BY DEF screen, storage
<1>2. QED
  BY <1>1 DEF ScreenOK

LEMMA ServerStays ==
  ASSUME ServerOK, UNCHANGED <<grants, pinSet, accountsMade>>, live' \subseteq Tokens,
         failures' \in Nat, revocations' \in Nat
  PROVE  ServerOK'
  BY DEF ServerOK

\* Every token that was given out keeps its role.
GrantsGrow == \A t \in Tokens : grants[t] # None => grants'[t] = grants[t]

LEMMA AuthenticateIsTyped ==
  ASSUME TypedInv, NEW q \in requests, q.answer = "none", Authenticate(q),
         UNCHANGED <<screen, deferred, storage, failures, revocations>>
  PROVE  TypedInv' /\ GrantsGrow
<1> USE SessionAssumption
<1>1. q \in Request /\ requests \subseteq Request
  BY DEF TypedInv, RequestsOK
<1>2. ASSUME NEW r \in Roles, Grant(q, r),
             pinSet' \in BOOLEAN, accountsMade' \in BOOLEAN
      PROVE  TypedInv' /\ GrantsGrow
  <2>1. PICK t \in Tokens :
          /\ grants[t] = None
          /\ grants' = [grants EXCEPT ![t] = r]
          /\ live' = live \cup {t}
          /\ requests' = (requests \ {q}) \cup
                             {[q EXCEPT !.answer = "ok", !.granted = t]}
    BY <1>2 DEF Grant
  <2> DEFINE a == [q EXCEPT !.answer = "ok", !.granted = t]
  <2>2. a \in Request /\ a.token = q.token /\ a.kind = q.kind /\ a.granted = t
    BY <1>1, GrantedIsRequest DEF Request
  <2>3. grants \in [Tokens -> Roles \cup {None}] /\ live \subseteq Tokens
    BY DEF TypedInv, ServerOK
  <2>4. /\ grants' \in [Tokens -> Roles \cup {None}] /\ live' \subseteq Tokens
        /\ grants'[t] = r /\ GrantsGrow
    BY <2>1, <2>3 DEF GrantsGrow
  <2>5. RequestsOK' /\ requests' = (requests \ {q}) \cup {a}
    BY <1>1, <2>1, <2>2 DEF RequestsOK
  <2>6. ServerOK' /\ ScreenOK'
    BY <1>2, <2>4, ScreenStays DEF TypedInv, ServerOK
  <2>7. r # None
    BY SessionAssumption, <2>1, <2>4 DEF Roles
  <2>8. UNCHANGED <<token, storedRole>>
    BY DEF storage
  <2>9. GrantInv'
    <3>1. token' # None => /\ grants'[token'] # None
                           /\ storedRole' = grants'[token']
                              \/ (storedRole' = None /\ grants'[token'] = "owner")
      BY <2>4, <2>8 DEF TypedInv, GrantInv, ScreenOK, GrantsGrow
    <3>2. \A x \in live' : grants'[x] # None
      BY <2>1, <2>3, <2>4, <2>7 DEF TypedInv, GrantInv, GrantsGrow
    <3>3. ASSUME NEW p \in requests'
          PROVE  /\ p.token # None => grants'[p.token] # None
                 /\ p.kind \in SignIns /\ p.answer = "ok" =>
                       p.granted # None /\ grants'[p.granted] # None
      <4>1. CASE p \in requests
        BY <1>1, <2>4, <4>1 DEF TypedInv, GrantInv, GrantsGrow, Request
      <4>2. CASE p = a
        BY <1>1, <2>2, <2>4, <2>7, <4>2 DEF TypedInv, GrantInv, GrantsGrow, Request
      <4>3. QED
        BY <2>5, <3>3, <4>1, <4>2
    <3>4. QED
      BY <3>1, <3>2, <3>3 DEF GrantInv
  <2>10. QED
    BY <2>4, <2>5, <2>6, <2>9 DEF TypedInv
<1>3. ASSUME NEW a \in {"401", "refused"}, Answered(q, a),
             UNCHANGED <<grants, live, pinSet, accountsMade>>
      PROVE  TypedInv' /\ GrantsGrow
  <2>1. [q EXCEPT !.answer = a] \in Request
    BY <1>1, AnsweredIsRequest
  <2>2. RequestsOK'
    BY <1>1, <1>3, <2>1 DEF RequestsOK, Answered
  <2>3. ServerOK' /\ ScreenOK'
    BY <1>3, ScreenStays, ServerStays DEF TypedInv, ServerOK
  <2>4. GrantInv'
    BY <1>1, <1>3 DEF TypedInv, GrantInv, Answered, Request, storage
  <2>5. QED
    BY <1>3, <2>2, <2>3, <2>4 DEF TypedInv, GrantsGrow
<1>4. pinSet \in BOOLEAN /\ accountsMade \in BOOLEAN
  BY DEF TypedInv, ServerOK
<1>5. QED
  BY <1>2, <1>3, <1>4 DEF Authenticate, SignIns, Roles

LEMMA AuthoriseIsTyped ==
  ASSUME TypedInv, NEW q \in requests, q.answer = "none", Authorise(q),
         UNCHANGED <<screen, deferred, storage, failures, revocations>>
  PROVE  TypedInv' /\ GrantsGrow
<1>1. q \in Request /\ requests \subseteq Request
  BY DEF TypedInv, RequestsOK
<1>2. PICK a \in {"ok", "401", "refused"} : Answered(q, a)
  BY Zenon DEF Authorise
<1>3. /\ q.kind \notin SignIns /\ live' \subseteq live
      /\ UNCHANGED <<grants, pinSet, accountsMade>>
  BY DEF Authorise
<1>4. [q EXCEPT !.answer = a] \in Request
  BY <1>1, AnsweredIsRequest
<1>5. RequestsOK'
  BY <1>1, <1>2, <1>4 DEF RequestsOK, Answered
<1>6. ServerOK' /\ ScreenOK'
  BY <1>3, ScreenStays, ServerStays DEF TypedInv, ServerOK
<1>7. GrantInv'
  BY <1>1, <1>2, <1>3 DEF TypedInv, GrantInv, Answered, Request, storage
<1>8. QED
  BY <1>3, <1>5, <1>6, <1>7 DEF TypedInv, GrantsGrow

\* A request with the token of now, or with none, is sent.
LEMMA SendingIsTyped ==
  ASSUME TypedInv, NEW kind \in Kinds, NEW t \in {token, None},
         requests' = requests \cup {Sent(kind, t)},
         ScreenOK', UNCHANGED <<storage, failures, server>>
  PROVE  TypedInv' /\ GrantsGrow
<1>1. t \in Tokens \cup {None} /\ requests \subseteq Request
  BY DEF TypedInv, ScreenOK, RequestsOK
<1>2. RequestsOK'
  BY <1>1, SentIsRequest DEF RequestsOK
<1>3. UNCHANGED <<grants, live, pinSet, accountsMade, revocations, token, storedRole>>
  BY DEF server, storage
<1>4. ServerOK'
  BY <1>3 DEF TypedInv, ServerOK
<1>5. GrantInv'
  BY <1>1, <1>3 DEF TypedInv, GrantInv, Sent, Request
<1>6. QED
  BY <1>2, <1>3, <1>4, <1>5 DEF TypedInv, GrantsGrow

\* The tab changes what it holds, and requests are answered: the server does not move.
LEMMA SettleIsTyped ==
  ASSUME ScreenOK, NEW s \in {"checking", "setup", "locked", "unlocked"},
         NEW pin \in BOOLEAN, NEW accounts \in BOOLEAN, Settle(s, pin, accounts)
  PROVE  /\ status' \in {"checking", "setup", "locked", "unlocked"}
         /\ pinConfigured' \in BOOLEAN /\ accountsExist' \in BOOLEAN
         /\ authView' \in {"register", "login", "pin"}
  BY DEF Settle, ScreenOK, computeDefaultView

LEMMA TabIsTyped ==
  ASSUME TypedInv, ScreenOK', requests' \subseteq requests,
         failures' \in Nat, UNCHANGED server,
         \/ UNCHANGED <<token, storedRole>>
         \/ token' = None
         \/ grants[token'] # None /\ storedRole' = grants[token']
  PROVE  TypedInv' /\ GrantsGrow
<1>1. UNCHANGED <<grants, live, pinSet, accountsMade, revocations>>
  BY DEF server
<1>2. RequestsOK' /\ ServerOK'
  BY <1>1 DEF TypedInv, RequestsOK, ServerOK
<1>3. GrantInv'
  BY <1>1 DEF TypedInv, GrantInv
<1>4. QED
  BY <1>1, <1>2, <1>3 DEF TypedInv, GrantsGrow

\* What an answer, or its loss, does to the tab: nothing, a sign-out, a sign-in.
TabMoves(q) ==
    \/ UNCHANGED <<status, role, pinConfigured, accountsExist, authView, storage>>
    \/ SignedOut /\ GoTo("locked")
    \/ q.kind \in SignIns /\ q.answer = "ok" /\ SignedIn(q.granted)

LEMMA DeliverMoves ==
  ASSUME NEW q, Deliver(q)
  PROVE  TabMoves(q) /\ submitting' \in {submitting, FALSE}
<1>1. CASE SignInAnswered(q)
  BY <1>1 DEF SignInAnswered, TabMoves, unauthorizedHandler
<1>2. CASE LockAnswered(q)
  BY <1>2 DEF LockAnswered, TabMoves
<1>3. CASE Resolved(q)
  BY <1>3 DEF Resolved, TabMoves, unauthorizedHandler, screen
<1>4. QED
  BY <1>1, <1>2, <1>3 DEF Deliver

LEMMA LoseMoves ==
  ASSUME NEW q, Lose(q)
  PROVE  TabMoves(q) /\ submitting' \in {submitting, FALSE}
<1>1. CASE /\ submitting' = FALSE
           /\ UNCHANGED <<status, role, pinConfigured, accountsExist, authView, storage>>
  BY <1>1 DEF TabMoves
<1>2. CASE LockAnswered(q)
  BY <1>2 DEF LockAnswered, TabMoves
<1>3. CASE UseLost(q)
  BY <1>3 DEF UseLost, TabMoves, screen
<1>4. QED
  BY <1>1, <1>2, <1>3 DEF Lose

LEMMA MovesAreTyped ==
  ASSUME TypedInv, NEW q \in requests, TabMoves(q), requests' = requests \ {q},
         submitting' \in {submitting, FALSE}, failures' \in Nat,
         UNCHANGED <<deferred, server>>
  PROVE  TypedInv' /\ GrantsGrow
<1>1. submitting' \in BOOLEAN
  BY Zenon DEF TypedInv, ScreenOK
<1>2. deferred' \in BOOLEAN /\ pinConfigured \in BOOLEAN /\ accountsExist \in BOOLEAN
  BY DEF TypedInv, ScreenOK
<1>3. CASE UNCHANGED <<status, role, pinConfigured, accountsExist, authView, storage>>
  <2>1. ScreenOK'
    BY <1>1, <1>2, <1>3 DEF TypedInv, ScreenOK, storage
  <2>2. QED
    BY <1>3, <2>1, TabIsTyped DEF storage
<1>4. CASE SignedOut /\ GoTo("locked")
  <2>1. ScreenOK'
    BY <1>1, <1>2, <1>4, SettleIsTyped DEF TypedInv, ScreenOK, SignedOut, GoTo
  <2>2. QED
    BY <1>4, <2>1, TabIsTyped DEF SignedOut
<1>5. CASE q.kind \in SignIns /\ q.answer = "ok" /\ SignedIn(q.granted)
  <2>1. q.granted \in Tokens /\ grants[q.granted] # None
    BY <1>5 DEF TypedInv, RequestsOK, GrantInv, Request
  <2>2. grants[q.granted] \in Roles
    BY <2>1 DEF TypedInv, ServerOK
  <2>3. ScreenOK'
    BY <1>1, <1>2, <1>5, <2>1, <2>2, SettleIsTyped DEF TypedInv, ScreenOK, SignedIn, GoTo
  <2>4. QED
    BY <1>5, <2>1, <2>3, TabIsTyped DEF SignedIn
<1>6. QED
  BY <1>3, <1>4, <1>5 DEF TabMoves

LEMMA NextTyped == TypedInv /\ [Next]_vars => TypedInv' /\ GrantsGrow
<1> SUFFICES ASSUME TypedInv, [Next]_vars
             PROVE  TypedInv' /\ GrantsGrow
  OBVIOUS
<1> USE DEF vars
<1>1. ASSUME NEW view \in {"register", "login", "pin"}, FollowLink(view)
      PROVE  TypedInv' /\ GrantsGrow
  <2>1. ScreenOK'
    BY <1>1 DEF FollowLink, TypedInv, ScreenOK, storage
  <2>2. QED
    BY <1>1, <2>1, TabIsTyped DEF FollowLink, TypedInv, ServerOK, storage
<1>2. CASE Submit
  <2>1. FormKind \in Kinds
    BY <1>2 DEF FormKind, Submit, TypedInv, ScreenOK, Kinds, SignIns
  <2>2. submitting' \in BOOLEAN
    BY <1>2, Zenon DEF Submit
  <2>3. ScreenOK'
    BY <1>2, <2>2 DEF Submit, TypedInv, ScreenOK, storage
  <2>4. QED
    BY <1>2, <2>1, <2>3, SendingIsTyped DEF Submit
<1>3. CASE Lock \/ Poll \/ Change
  <2>1. PICK kind \in {"logout", "session", "write", "pin"} :
            requests' = requests \cup {Sent(kind, token)}
    BY <1>3 DEF Lock, Poll, Change
  <2>2. UNCHANGED <<screen, deferred, storage, failures, server>>
    BY <1>3 DEF Lock, Poll, Change
  <2>3. ScreenOK'
    BY <2>2, ScreenStays DEF TypedInv
  <2>4. QED
    BY <2>1, <2>2, <2>3, SendingIsTyped DEF Kinds
<1>4. CASE Defer
  <2>1. deferred' \in BOOLEAN
    BY <1>4, Zenon DEF Defer
  <2>2. ScreenOK'
    BY <1>4, <2>1 DEF Defer, TypedInv, ScreenOK, screen, storage
  <2>3. QED
    BY <1>4, <2>2, TabIsTyped DEF Defer, TypedInv, ServerOK, storage
<1>5. CASE FireDeferred
  <2>1. deferred' \in BOOLEAN
    BY <1>5, Zenon DEF FireDeferred
  <2>2. ScreenOK'
    BY <1>5, <2>1 DEF FireDeferred, TypedInv, ScreenOK, screen, storage
  <2>3. QED
    BY <1>5, <2>2, SendingIsTyped DEF FireDeferred, Kinds
<1>6. ASSUME NEW q \in requests, Serve(q)
      PROVE  TypedInv' /\ GrantsGrow
  BY <1>6, AuthenticateIsTyped, AuthoriseIsTyped DEF Serve
<1>7. ASSUME NEW q \in requests, Deliver(q)
      PROVE  TypedInv' /\ GrantsGrow
  BY <1>7, DeliverMoves, MovesAreTyped DEF Deliver, TypedInv, ServerOK
<1>8. ASSUME NEW q \in requests, Lose(q)
      PROVE  TypedInv' /\ GrantsGrow
  <2>1. failures' \in Nat /\ requests' = requests \ {q} /\ UNCHANGED <<deferred, server>>
    BY <1>8 DEF Lose, TypedInv, ServerOK
  <2>2. QED
    BY <1>8, <2>1, LoseMoves, MovesAreTyped
<1>9. CASE StatusAnswered \/ StatusLost
  <2>1. PICK s \in {"setup", "unlocked", "locked"}, pin \in BOOLEAN, accounts \in BOOLEAN :
            Settle(s, pin, accounts)
    <3>1. CASE StatusAnswered
      <4>1. pinSet \in BOOLEAN /\ accountsMade \in BOOLEAN
        BY DEF TypedInv, ServerOK
      <4>2. QED
        BY <1>9, <3>1, <4>1 DEF StatusAnswered
    <3>2. CASE StatusLost
      <4>1. pinConfigured \in BOOLEAN /\ accountsExist \in BOOLEAN
        BY DEF TypedInv, ScreenOK
      <4>2. QED
        BY <3>2, <4>1 DEF StatusLost, GoTo
    <3>3. QED
      BY <1>9, <3>1, <3>2
  <2>2. role' \in Roles \cup {None}
    BY <1>9 DEF StatusAnswered, StatusLost, TypedInv, ScreenOK, Roles
  <2>3. UNCHANGED <<submitting, deferred, token, storedRole, requests, server>>
    BY <1>9 DEF StatusAnswered, StatusLost, storage
  <2>4. failures \in Nat
    BY DEF TypedInv, ServerOK
  <2>5. failures' \in Nat
    <3>1. CASE StatusAnswered
      BY <2>4, <3>1 DEF StatusAnswered
    <3>2. CASE StatusLost
      <4>1. failures' = failures + 1
        BY <3>2 DEF StatusLost
      <4>2. QED
        BY <2>4, <4>1
    <3>3. QED
      BY <1>9, <3>1, <3>2
  <2>6. ScreenOK'
    BY <2>1, <2>2, <2>3, SettleIsTyped DEF TypedInv, ScreenOK
  <2>7. QED
    BY <2>3, <2>5, <2>6, TabIsTyped
<1>10. CASE Reload
  <2>1. /\ submitting' \in BOOLEAN /\ pinConfigured' \in BOOLEAN
        /\ accountsExist' \in BOOLEAN /\ deferred' \in BOOLEAN
    BY <1>10, Zenon DEF Reload
  <2>2. ScreenOK'
    BY <1>10, <2>1 DEF Reload, TypedInv, ScreenOK, storage
  <2>3. QED
    BY <1>10, <2>2, TabIsTyped DEF Reload, TypedInv, ServerOK, storage
<1>11. ASSUME NEW t \in Tokens, Revoke(t)
       PROVE  TypedInv' /\ GrantsGrow
  <2>1. live' \subseteq live /\ revocations' \in Nat
        /\ UNCHANGED <<screen, deferred, storage, requests, failures, grants, pinSet,
                       accountsMade>>
    BY <1>11 DEF Revoke, TypedInv, ServerOK
  <2>2. ScreenOK' /\ ServerOK' /\ RequestsOK'
    BY <2>1, ScreenStays, ServerStays DEF TypedInv, ServerOK, RequestsOK
  <2>3. GrantInv' /\ GrantsGrow
    BY <2>1 DEF TypedInv, GrantInv, GrantsGrow, storage
  <2>4. QED
    BY <2>2, <2>3 DEF TypedInv
<1>12. CASE UNCHANGED vars
  <2>1. ScreenOK'
    BY <1>12, ScreenStays DEF TypedInv
  <2>2. QED
    BY <1>12, <2>1, TabIsTyped DEF TypedInv, ServerOK, storage
<1>13. QED
  BY <1>1, <1>2, <1>3, <1>4, <1>5, <1>6, <1>7, <1>8, <1>9, <1>10, <1>11, <1>12 DEF Next

LEMMA InitTyped == Init => TypedInv
<1> SUFFICES ASSUME Init PROVE TypedInv
  OBVIOUS
<1> USE SessionAssumption
<1>1. /\ status = "checking" /\ role = None /\ authView = "register"
      /\ submitting \in BOOLEAN /\ pinConfigured \in BOOLEAN /\ accountsExist \in BOOLEAN
      /\ deferred \in BOOLEAN /\ pinSet \in BOOLEAN /\ accountsMade \in BOOLEAN
  BY Zenon DEF Init
<1>2. requests = {} /\ failures = 0 /\ revocations = 0
  BY DEF Init
<1>3. RequestsOK
  BY <1>2 DEF RequestsOK
<1>4. CASE /\ token = None /\ storedRole = None
           /\ grants = [t \in Tokens |-> None] /\ live = {}
  <2>1. ScreenOK /\ ServerOK
    BY <1>1, <1>2, <1>4 DEF ScreenOK, ServerOK
  <2>2. GrantInv
    BY <1>2, <1>4 DEF GrantInv
  <2>3. QED
    BY <1>3, <2>1, <2>2 DEF TypedInv
<1>5. ASSUME NEW t \in Tokens, NEW r \in Roles,
             token = t, storedRole = r \/ (r = "owner" /\ storedRole = None),
             grants = [x \in Tokens |-> IF x = t THEN r ELSE None], live \in {{}, {t}}
      PROVE  TypedInv
  <2>1. ScreenOK
    BY <1>1, <1>5 DEF ScreenOK
  <2>2. grants \in [Tokens -> Roles \cup {None}] /\ live \subseteq Tokens
    BY <1>5
  <2>3. ServerOK
    BY <1>1, <1>2, <2>2 DEF ServerOK
  <2>4. GrantInv
    BY <1>2, <1>5 DEF GrantInv, Roles
  <2>5. QED
    BY <1>3, <2>1, <2>3, <2>4 DEF TypedInv
<1>6. QED
  BY <1>4, <1>5 DEF Init

\* The tab, its requests and the server are well typed; what is honoured was given out,
\* and the stored role is the one the stored token was given out with.
THEOREM TypeCorrect == Spec => [](TypeOK /\ GrantInv)
<1>1. TypedInv => TypeOK /\ GrantInv
  BY TypedInvTypes DEF TypedInv
<1>2. QED
  BY <1>1, InitTyped, NextTyped, PTL DEF Spec

-----------------------------------------------------------------------------
(* What the tab shows, and what it sends                                   *)

\* A change is sent with a token that was not given to a guest.
WritesInv ==
    \A q \in requests :
        q.kind = "write" => q.token \in Tokens /\ grants[q.token] \notin {None, "guest"}

RightsInv == TypedInv /\ RoleIsTheTokens /\ WritesInv

\* The tab stays as it is, and no change is sent.
LEMMA RightsStay ==
  ASSUME RightsInv, TypedInv', GrantsGrow, UNCHANGED <<status, role, token>>,
         \A q \in requests' : q.kind = "write" =>
             \E p \in requests : p.kind = "write" /\ p.token = q.token
  PROVE  RightsInv'
<1>1. RoleIsTheTokens'
  BY DEF RightsInv, RoleIsTheTokens, TypedInv, ScreenOK, GrantInv, GrantsGrow
<1>2. WritesInv'
  BY DEF RightsInv, WritesInv, GrantsGrow
<1>3. QED
  BY <1>1, <1>2 DEF RightsInv

\* The tab is locked, or loaded again.
LEMMA RightsEnd ==
  ASSUME RightsInv, TypedInv', GrantsGrow, status' # "unlocked", requests' \subseteq requests
  PROVE  RightsInv'
  BY DEF RightsInv, RoleIsTheTokens, WritesInv, GrantsGrow

LEMMA MovesKeepRights ==
  ASSUME RightsInv, TypedInv', GrantsGrow, NEW q \in requests, TabMoves(q),
         requests' = requests \ {q}, UNCHANGED server
  PROVE  RightsInv'
<1>1. CASE UNCHANGED <<status, role, pinConfigured, accountsExist, authView, storage>>
  BY <1>1, RightsStay DEF storage
<1>2. CASE SignedOut /\ GoTo("locked")
  BY <1>2, RightsEnd DEF GoTo, Settle
<1>3. CASE q.kind \in SignIns /\ q.answer = "ok" /\ SignedIn(q.granted)
  <2>1. q.granted # None /\ UNCHANGED grants
    BY <1>3 DEF RightsInv, TypedInv, GrantInv, server
  <2>2. RoleIsTheTokens'
    BY <1>3, <2>1 DEF RoleIsTheTokens, SignedIn
  <2>3. WritesInv'
    BY <2>1 DEF RightsInv, WritesInv
  <2>4. QED
    BY <2>2, <2>3 DEF RightsInv
<1>4. QED
  BY <1>1, <1>2, <1>3 DEF TabMoves

LEMMA NextRights == RightsInv /\ [Next]_vars => RightsInv'
<1> SUFFICES ASSUME RightsInv, [Next]_vars
             PROVE  RightsInv'
  OBVIOUS
<1>1. TypedInv' /\ GrantsGrow
  BY NextTyped DEF RightsInv
<1> USE <1>1
<1>2. ASSUME NEW view, FollowLink(view)
      PROVE  RightsInv'
  BY <1>2, RightsStay DEF FollowLink, storage
<1>3. CASE Submit
  <2>1. FormKind # "write"
    BY <1>3 DEF FormKind, Submit, RightsInv, TypedInv, ScreenOK
  <2>2. QED
    BY <1>3, <2>1, RightsStay DEF Submit, Sent, storage
<1>4. CASE Lock \/ Poll \/ Defer \/ FireDeferred
  BY <1>4, RightsStay DEF Lock, Poll, Defer, FireDeferred, Sent, screen, storage
<1>5. CASE Change
  <2>1. UNCHANGED <<status, role, token, grants>>
    BY <1>5 DEF Change, screen, storage, server
  <2>2. token \in Tokens /\ grants[token] \notin {None, "guest"}
    <3>1. status = "unlocked" /\ role # "guest" /\ token # None /\ role = grants[token]
      BY <1>5 DEF Change, RightsInv, RoleIsTheTokens
    <3>2. QED
      BY <3>1 DEF RightsInv, TypedInv, ScreenOK, GrantInv
  <2>3. WritesInv'
    BY <1>5, <2>1, <2>2 DEF Change, RightsInv, WritesInv, Sent
  <2>4. QED
    BY <2>1, <2>3 DEF RightsInv, RoleIsTheTokens
<1>6. ASSUME NEW q \in requests, Serve(q)
      PROVE  RightsInv'
  <2>1. UNCHANGED <<status, role, token>>
    BY <1>6 DEF Serve, screen, storage
  <2>2. \E p : p.kind = q.kind /\ p.token = q.token /\ requests' = (requests \ {q}) \cup {p}
    <3>1. q \in Request
      BY DEF RightsInv, TypedInv, RequestsOK
    <3>2. ASSUME NEW a, Answered(q, a)
          PROVE  \E p : /\ p.kind = q.kind /\ p.token = q.token
                        /\ requests' = (requests \ {q}) \cup {p}
      BY <3>1, <3>2 DEF Answered, Request
    <3>3. ASSUME NEW r, Grant(q, r)
          PROVE  \E p : /\ p.kind = q.kind /\ p.token = q.token
                        /\ requests' = (requests \ {q}) \cup {p}
      BY <3>1, <3>3 DEF Grant, Request
    <3>4. (\E a : Answered(q, a)) \/ (\E r : Grant(q, r))
      BY <1>6, Zenon DEF Serve, Authenticate, Authorise
    <3>5. QED
      BY <3>2, <3>3, <3>4
  <2>3. QED
    BY <2>1, <2>2, RightsStay
<1>7. ASSUME NEW q \in requests, Deliver(q)
      PROVE  RightsInv'
  BY <1>7, DeliverMoves, MovesKeepRights DEF Deliver
<1>8. ASSUME NEW q \in requests, Lose(q)
      PROVE  RightsInv'
  BY <1>8, LoseMoves, MovesKeepRights DEF Lose
<1>9. CASE StatusAnswered \/ StatusLost
  <2>1. UNCHANGED <<token, storedRole, requests, grants>>
    BY <1>9 DEF StatusAnswered, StatusLost, storage, server
  <2>2. status' = "unlocked" =>
            token # None /\ role' = IF storedRole = None THEN "owner" ELSE storedRole
    BY <1>9 DEF StatusAnswered, StatusLost, GoTo, Settle
  <2>3. RoleIsTheTokens'
    BY <2>1, <2>2 DEF RightsInv, TypedInv, GrantInv, RoleIsTheTokens
  <2>4. WritesInv'
    BY <2>1 DEF RightsInv, WritesInv
  <2>5. QED
    BY <2>3, <2>4 DEF RightsInv
<1>10. CASE Reload
  BY <1>10, RightsEnd DEF Reload
<1>11. ASSUME NEW t, Revoke(t)
       PROVE  RightsInv'
  BY <1>11, RightsStay DEF Revoke, screen, storage
<1>12. CASE UNCHANGED vars
  BY <1>12, RightsStay DEF vars, screen, storage
<1>13. QED
  BY <1>2, <1>3, <1>4, <1>5, <1>6, <1>7, <1>8, <1>9, <1>10, <1>11, <1>12 DEF Next

LEMMA InitRights == Init => RightsInv
<1> SUFFICES ASSUME Init PROVE RightsInv
  OBVIOUS
<1>1. status # "unlocked" /\ requests = {}
  BY DEF Init
<1>2. QED
  BY <1>1, InitTyped DEF RightsInv, RoleIsTheTokens, WritesInv

\* An unlocked tab shows the page of the role its token was given out with, over
\* reloads, late answers and overlapping sign-ins.
THEOREM TheRoleIsRight == Spec => []RoleIsTheTokens
<1>1. RightsInv => RoleIsTheTokens
  BY DEF RightsInv
<1>2. QED
  BY <1>1, InitRights, NextRights, PTL DEF Spec

\* The page asks for a change with no guest's token.
THEOREM GuestsReadOnly == Spec => []GuestsOnlyRead
<1>1. RightsInv => GuestsOnlyRead
  BY DEF RightsInv, WritesInv, GuestsOnlyRead
<1>2. QED
  BY <1>1, InitRights, NextRights, PTL DEF Spec

-----------------------------------------------------------------------------
(* What ends a session                                                     *)

\* Sign-ins carry no token, and a 401 says of the token it answers that the server
\* does not honour it, unless it says that the current PIN was wrong.
RefusalInv ==
    \A q \in requests :
        /\ q.kind \in SignIns => q.token = None
        /\ q.answer = "401" /\ q.kind \notin SignIns \cup {"pin"} => q.token \notin live

KeptInv == TypedInv /\ RefusalInv

LEMMA RefusalStays ==
  ASSUME KeptInv, requests' \subseteq requests, live' \subseteq live
  PROVE  RefusalInv'
  BY DEF KeptInv, RefusalInv

LEMMA RefusalOfSent ==
  ASSUME KeptInv, NEW kind, NEW t, requests' = requests \cup {Sent(kind, t)},
         kind \in SignIns => t = None, UNCHANGED live
  PROVE  RefusalInv'
  BY DEF KeptInv, RefusalInv, Sent

LEMMA RefusalOfServed ==
  ASSUME KeptInv, NEW q \in requests, Serve(q)
  PROVE  RefusalInv'
<1> USE SessionAssumption
<1>1. q \in Request /\ live \subseteq Tokens
  BY DEF KeptInv, TypedInv, RequestsOK, ServerOK
<1>2. ASSUME NEW r, Grant(q, r), q.kind \in SignIns
      PROVE  RefusalInv'
  <2>1. PICK t \in Tokens :
          /\ grants[t] = None /\ live' = live \cup {t}
          /\ requests' = (requests \ {q}) \cup
                             {[q EXCEPT !.answer = "ok", !.granted = t]}
    BY <1>2 DEF Grant
  <2>2. \A p \in requests : p.token # t
    BY <2>1 DEF KeptInv, TypedInv, GrantInv
  <2>3. QED
    BY <1>1, <1>2, <2>1, <2>2 DEF KeptInv, RefusalInv, Request
<1>3. ASSUME NEW a, Answered(q, a), live' \subseteq live,
             a = "401" /\ q.kind \notin SignIns \cup {"pin"} => q.token \notin live
      PROVE  RefusalInv'
  BY <1>1, <1>3 DEF KeptInv, RefusalInv, Answered, Request
<1>4. CASE Authenticate(q)
  BY <1>2, <1>3, <1>4 DEF Authenticate, SignIns
<1>5. CASE Authorise(q)
  <2>1. live' \subseteq live
    BY <1>5 DEF Authorise
  <2>2. CASE q.token \in live \/ Open
    <3>1. \/ Answered(q, "ok") \/ Answered(q, "refused")
          \/ q.kind = "pin" /\ Answered(q, "401")
      BY <1>5, <2>2, Zenon DEF Authorise
    <3>2. QED
      BY <1>3, <2>1, <3>1
  <2>3. CASE ~(q.token \in live \/ Open)
    BY <1>3, <1>5, <2>1, <2>3 DEF Authorise
  <2>4. QED
    BY <2>2, <2>3
<1>6. QED
  BY <1>4, <1>5 DEF Serve

LEMMA NextKept == KeptInv /\ [Next]_vars => KeptInv'
<1> SUFFICES ASSUME KeptInv, [Next]_vars
             PROVE  RefusalInv'
  BY NextTyped DEF KeptInv
<1>1. CASE Submit
  BY <1>1, RefusalOfSent DEF Submit, server
<1>2. CASE Lock \/ Poll \/ Change \/ FireDeferred
  BY <1>2, RefusalOfSent DEF Lock, Poll, Change, FireDeferred, server, SignIns
<1>3. ASSUME NEW q \in requests, Serve(q)
      PROVE  RefusalInv'
  BY <1>3, RefusalOfServed
<1>4. ASSUME NEW q \in requests, Deliver(q) \/ Lose(q)
      PROVE  RefusalInv'
  BY <1>4, RefusalStays DEF Deliver, Lose, server
<1>5. ASSUME NEW view, FollowLink(view)
      PROVE  RefusalInv'
  BY <1>5, RefusalStays DEF FollowLink, server
<1>6. CASE Defer \/ StatusAnswered \/ StatusLost \/ Reload
  BY <1>6, RefusalStays DEF Defer, StatusAnswered, StatusLost, Reload, server
<1>7. ASSUME NEW t, Revoke(t)
      PROVE  RefusalInv'
  BY <1>7, RefusalStays DEF Revoke
<1>8. CASE UNCHANGED vars
  BY <1>8, RefusalStays DEF vars, server
<1>9. QED
  BY <1>1, <1>2, <1>3, <1>4, <1>5, <1>6, <1>7, <1>8 DEF Next

KeepsLiveSession ==
    (token \in live /\ token' # token) =>
        \E q \in requests \ requests' : q.kind \in {"logout", "pin"} \/ q.token # token

LEMMA StepsKeepSessions == KeptInv /\ [Next]_vars => KeepsLiveSession
<1> SUFFICES ASSUME KeptInv, [Next]_vars, token \in live, token' # token
             PROVE  \E q \in requests \ requests' :
                       q.kind \in {"logout", "pin"} \/ q.token # token
  BY DEF KeepsLiveSession
<1>1. token # None
  BY SessionAssumption DEF KeptInv, TypedInv, ServerOK
<1>2. ASSUME NEW q \in requests, Deliver(q)
      PROVE  q.kind \in {"logout", "pin"} \/ q.token # token
  <2>1. CASE q.kind \in SignIns
    BY <1>1, <2>1 DEF KeptInv, RefusalInv
  <2>2. CASE LockAnswered(q)
    BY <2>2 DEF LockAnswered
  <2>3. CASE Resolved(q)
    <3>1. q.answer = "401" /\ q.kind \notin SignIns
      BY <2>3 DEF Resolved, storage
    <3>2. QED
      BY <3>1 DEF KeptInv, RefusalInv
  <2>4. QED
    BY <1>2, <2>1, <2>2, <2>3 DEF Deliver, SignInAnswered
<1>3. ASSUME NEW q \in requests, Lose(q)
      PROVE  q.kind = "logout"
  BY <1>3 DEF Lose, LockAnswered, UseLost, storage
<1>4. \E q \in requests : Deliver(q) \/ Lose(q)
  BY DEF Next, FollowLink, Submit, Lock, Poll, Change, Defer, FireDeferred, Serve,
         StatusAnswered, StatusLost, Reload, Revoke, storage, vars
<1>5. QED
  BY <1>2, <1>3, <1>4 DEF Deliver, Lose

\* A session the server honours ends in the tab because the user locked it, on the
\* answer to a request with another token, or for a wrong current PIN.
THEOREM LiveSessionsStay == Spec => LiveSessionsAreKept
<1>1. Init => KeptInv
  BY InitTyped DEF Init, KeptInv, RefusalInv
<1>2. KeptInv /\ [Next]_vars => [KeepsLiveSession]_vars
  BY StepsKeepSessions
<1>3. QED
  BY <1>1, <1>2, NextKept, PTL DEF Spec, LiveSessionsAreKept, KeepsLiveSession
=============================================================================
