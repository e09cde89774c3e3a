------------------------------- MODULE Session -------------------------------
(***************************************************************************)
(* The session of one browser tab: src/frontend/src/useAuth.js, the token  *)
(* and the answers' status codes in api.js, and the sign-in screens of     *)
(* App.jsx.                                                                *)
(*                                                                         *)
(* The tab keeps a token and a role in localStorage and the same role in   *)
(* its state.  A request carries the token that is stored when it is sent; *)
(* its answer may come after the tab has been locked and unlocked again,   *)
(* and a 401 clears whatever token is stored by then.  `requests` holds    *)
(* what is under way, in no order; two equal requests are one.             *)
(*                                                                         *)
(* The server (`grants`, `live`, `pinSet`, `accountsMade`) is what         *)
(* middleware.go and handlers_auth.go let a client see.  Other tabs, which *)
(* share localStorage, are not modelled.                                   *)
(***************************************************************************)
EXTENDS Naturals, FiniteSets

CONSTANTS
    Tokens,         \* session tokens the server can hand out
    None,           \* no token, no role
    InFlight,       \* bound: requests under way at once, besides the polls
    MaxFailures,    \* bound: requests that the network fails
    MaxRevocations  \* bound: sessions the server ends by itself

Roles == {"owner", "guest", "user"}

ASSUME SessionAssumption ==
    /\ None \notin Tokens \cup Roles
    /\ InFlight \in Nat \ {0} /\ MaxFailures \in Nat /\ MaxRevocations \in Nat

VARIABLES
    \* the tab
    status,         \* "checking", "setup", "locked", "unlocked"
    role,
    submitting,
    pinConfigured,  \* what the last answer about the set-up said
    accountsExist,
    authView,       \* "register", "login", "pin"
    deferred,       \* a DELETE waits for its Undo window to end
    \* localStorage
    token,
    storedRole,
    \* the network
    requests,
    failures,
    \* the server
    grants,         \* the role each token was given out with
    live,           \* the sessions it honours
    pinSet, accountsMade,
    revocations

screen == <<status, role, submitting, pinConfigured, accountsExist, authView>>
storage == <<token, storedRole>>
server == <<grants, live, pinSet, accountsMade, revocations>>
vars == <<screen, deferred, storage, requests, failures, server>>

SignIns == {"setup", "login", "register", "account"}
Kinds == SignIns \cup {"logout", "session", "write", "pin", "late"}
Request == [kind : Kinds, token : Tokens \cup {None},
            answer : {"none", "ok", "401", "refused"},
            granted : Tokens \cup {None}]

TypeOK ==
    /\ status \in {"checking", "setup", "locked", "unlocked"}
    /\ role \in Roles \cup {None} /\ storedRole \in Roles \cup {None}
    /\ submitting \in BOOLEAN /\ pinConfigured \in BOOLEAN
    /\ accountsExist \in BOOLEAN /\ deferred \in BOOLEAN
    /\ authView \in {"register", "login", "pin"}
    /\ token \in Tokens \cup {None}
    /\ requests \subseteq Request
    /\ failures \in Nat /\ revocations \in Nat
    /\ grants \in [Tokens -> Roles \cup {None}] /\ live \subseteq Tokens
    /\ pinSet \in BOOLEAN /\ accountsMade \in BOOLEAN

\* The page opens, in a browser that has never been signed in or that still holds
\* the token of an earlier visit, honoured or not; an owner's may be from before
\* roles were stored.
Init ==
    /\ status = "checking" /\ role = None /\ submitting = FALSE
    /\ pinConfigured = TRUE /\ accountsExist = TRUE
    /\ authView = "register" /\ deferred = FALSE
    /\ requests = {} /\ failures = 0 /\ revocations = 0
    /\ pinSet \in BOOLEAN /\ accountsMade \in BOOLEAN
    /\ \/ /\ token = None /\ storedRole = None
          /\ grants = [t \in Tokens |-> None] /\ live = {}
       \/ \E t \in Tokens, r \in Roles :
             /\ r = "user" => accountsMade
             /\ r # "user" => pinSet
             /\ token = t /\ (storedRole = r \/ (r = "owner" /\ storedRole = None))
             /\ grants = [x \in Tokens |-> IF x = t THEN r ELSE None]
             /\ live \in {{}, {t}}

-----------------------------------------------------------------------------
(* The sign-in screens                                                      *)

\* computeDefaultView
computeDefaultView(pin, accounts) ==
    IF accounts THEN "login" ELSE IF pin THEN "pin" ELSE "register"

\* The status and the facts change; the effect on them picks the default screen.
Settle(s, pin, accounts) ==
    /\ status' = s /\ pinConfigured' = pin /\ accountsExist' = accounts
    /\ authView' = IF /\ s \in {"setup", "locked"}
                      /\ <<s, pin, accounts>> # <<status, pinConfigured, accountsExist>>
                   THEN computeDefaultView(pin, accounts) ELSE authView

GoTo(s) == Settle(s, pinConfigured, accountsExist)

\* The links under each form.
Links ==
    CASE authView = "register" -> {IF pinConfigured THEN "pin" ELSE "login"}
      [] authView = "login"    -> {"register"} \cup (IF pinConfigured THEN {"pin"} ELSE {})
      [] authView = "pin"      -> {"register"} \cup (IF accountsExist THEN {"login"} ELSE {})

FollowLink(view) ==
    /\ status \in {"setup", "locked"} /\ ~submitting
    /\ view \in Links
    /\ authView' = view
    /\ UNCHANGED <<status, role, submitting, pinConfigured, accountsExist,
                   deferred, storage, requests, failures, server>>

\* The request the form on screen sends.
FormKind ==
    CASE authView = "register" -> "register"
      [] authView = "login"    -> "account"
      [] authView = "pin"      -> IF status = "setup" THEN "setup" ELSE "login"

-----------------------------------------------------------------------------
(* Sending.  A request without a token goes out without the header.         *)

Room == Cardinality({q \in requests : q.kind # "session"}) < InFlight
Sent(kind, t) == [kind |-> kind, token |-> t, answer |-> "none", granted |-> None]

\* handleSetup, handleLogin, handleRegister, handleAccountLogin, up to the await.
\* The forms are disabled while submitting; the keys of the PIN pad too, but for
\* a pad filled again within the 150 ms before its first submission.
Submit ==
    /\ status \in {"setup", "locked"}
    /\ submitting => authView = "pin"
    /\ Room
    /\ requests' = requests \cup {Sent(FormKind, None)}
    /\ submitting' = TRUE
    /\ UNCHANGED <<status, role, pinConfigured, accountsExist, authView, deferred,
                   storage, failures, server>>

\* lock, up to the await: the tab stays as it is until the answer.
Lock ==
    /\ status = "unlocked" /\ Room
    /\ requests' = requests \cup {Sent("logout", token)}
    /\ UNCHANGED <<screen, deferred, storage, failures, server>>

\* The poll of the session; a page that loads its data, or loads it again, sends
\* the same request and treats the answer's status the same way.  Bound: one of
\* them under way with each token.
Poll ==
    /\ status = "unlocked"
    /\ \A q \in requests : q.kind = "session" => q.token # token
    /\ requests' = requests \cup {Sent("session", token)}
    /\ UNCHANGED <<screen, deferred, storage, failures, server>>

\* Mutant: the form is shown to everybody.
ChangeByAnyone ==
    /\ status = "unlocked" /\ Room
    /\ requests' = requests \cup {Sent("write", token)}
    /\ UNCHANGED <<screen, deferred, storage, failures, server>>

\* A change, or one that asks for the current PIN as well: the PIN, the guests'
\* PIN.  The page shows a guest nothing that makes one.
Change ==
    /\ status = "unlocked" /\ role # "guest"
    /\ Room
    /\ \E kind \in {"write", "pin"} : requests' = requests \cup {Sent(kind, token)}
    /\ UNCHANGED <<screen, deferred, storage, failures, server>>

\* A deletion waits for its Undo window; the timer outlives the lock screen.
Defer ==
    /\ status = "unlocked" /\ role # "guest"
    /\ deferred' = TRUE
    /\ UNCHANGED <<screen, storage, requests, failures, server>>

FireDeferred ==
    /\ deferred /\ Room
    /\ deferred' = FALSE
    /\ requests' = requests \cup {Sent("late", token)}
    /\ UNCHANGED <<screen, storage, failures, server>>

-----------------------------------------------------------------------------
(* The server                                                               *)

Open == ~pinSet /\ ~accountsMade
Answered(q, a) == requests' = (requests \ {q}) \cup {[q EXCEPT !.answer = a]}

\* A session is opened for the request.
Grant(q, r) ==
    \E t \in Tokens :
        /\ grants[t] = None
        /\ grants' = [grants EXCEPT ![t] = r]
        /\ live' = live \cup {t}
        /\ requests' = (requests \ {q}) \cup
                           {[q EXCEPT !.answer = "ok", !.granted = t]}

Authenticate(q) ==
    /\ q.kind \in SignIns
    /\ \/ /\ q.kind = "register" \/ (q.kind = "setup" /\ ~pinSet)
          /\ Grant(q, IF q.kind = "register" THEN "user" ELSE "owner")
          /\ accountsMade' = (accountsMade \/ q.kind = "register")
          /\ pinSet' = (pinSet \/ q.kind = "setup")
       \/ /\ q.kind = "login" /\ pinSet
          /\ \E r \in {"owner", "guest"} : Grant(q, r)
          /\ UNCHANGED <<pinSet, accountsMade>>
       \/ /\ q.kind = "account" /\ accountsMade
          /\ Grant(q, "user") /\ UNCHANGED <<pinSet, accountsMade>>
       \/ \* a wrong PIN, a wrong password, or an unknown account
          /\ q.kind = "account" \/ (q.kind = "login" /\ pinSet)
          /\ Answered(q, "401") /\ UNCHANGED <<grants, live, pinSet, accountsMade>>
       \/ \* locked out, already registered, already set up
          /\ q.kind \in {"login", "register", "setup"}
          /\ Answered(q, "refused")
          /\ UNCHANGED <<grants, live, pinSet, accountsMade>>

\* withAuth, and the logout.
Authorise(q) ==
    /\ q.kind \notin SignIns
    /\ IF q.token \in live \/ Open
       THEN /\ \/ Answered(q, IF /\ q.token \in live /\ grants[q.token] = "guest"
                                 /\ q.kind \in {"write", "pin", "late"}
                              THEN "refused" ELSE "ok")
               \/ \* the current PIN is wrong
                  /\ q.kind = "pin" /\ pinSet /\ q.token \in live
                  /\ grants[q.token] # "guest"
                  /\ Answered(q, "401")
            /\ live' = IF q.kind = "logout" THEN live \ {q.token} ELSE live
       ELSE Answered(q, "401") /\ UNCHANGED live
    /\ UNCHANGED <<grants, pinSet, accountsMade>>

Serve(q) ==
    /\ q.answer = "none"
    /\ Authenticate(q) \/ Authorise(q)
    /\ UNCHANGED <<screen, deferred, storage, failures, revocations>>

\* A session expires, or the owner removes guest access or changes the PIN.
Revoke(t) ==
    /\ t \in live /\ revocations < MaxRevocations
    /\ live' = live \ {t} /\ revocations' = revocations + 1
    /\ UNCHANGED <<screen, deferred, storage, requests, failures, grants, pinSet,
                   accountsMade>>

-----------------------------------------------------------------------------
(* Answers                                                                  *)

SignedOut == token' = None /\ storedRole' = None /\ role' = None

\* The handler useAuth registers for a 401, whichever request it answers.
unauthorizedHandler == SignedOut /\ GoTo("locked")

\* Mutant: the role is kept in the page only.
SignedInRoleless(t) ==
    /\ token' = t /\ role' = grants[t] /\ UNCHANGED storedRole
    /\ GoTo("unlocked")

\* What the four sign-in handlers do with a token and a role.
SignedIn(t) ==
    /\ token' = t /\ storedRole' = grants[t] /\ role' = grants[t]
    /\ GoTo("unlocked")

\* Mutant: submitting is reset after a success only.
SignInAnsweredOK(q) ==
    /\ q.kind \in SignIns
    /\ submitting' = (q.answer # "ok")
    /\ \/ q.answer = "ok" /\ SignedIn(q.granted)
       \/ q.answer = "401" /\ unauthorizedHandler
       \/ /\ q.answer = "refused"
          /\ UNCHANGED <<status, role, pinConfigured, accountsExist, authView, storage>>

\* The rest of a sign-in handler, after its await.
SignInAnswered(q) ==
    /\ q.kind \in SignIns
    /\ submitting' = FALSE
    /\ \/ q.answer = "ok" /\ SignedIn(q.granted)
       \/ q.answer = "401" /\ unauthorizedHandler
       \/ /\ q.answer = "refused"
          /\ UNCHANGED <<status, role, pinConfigured, accountsExist, authView, storage>>

\* The rest of lock: whatever the answer.
LockAnswered(q) ==
    /\ q.kind = "logout"
    /\ SignedOut /\ GoTo("locked") /\ UNCHANGED submitting

\* Mutant: no handler is registered.
ResolvedQuietly(q) ==
    /\ q.kind \notin SignIns \cup {"logout"}
    /\ UNCHANGED <<screen, storage>>

\* handleResponse for every other request.
Resolved(q) ==
    /\ q.kind \notin SignIns \cup {"logout"}
    /\ IF q.answer = "401" THEN unauthorizedHandler /\ UNCHANGED submitting
       ELSE UNCHANGED <<screen, storage>>

Deliver(q) ==
    /\ q.answer # "none"
    /\ requests' = requests \ {q}
    /\ SignInAnswered(q) \/ LockAnswered(q) \/ Resolved(q)
    /\ UNCHANGED <<deferred, failures, server>>

\* Mutant: a poll that fails ends the session.
PollLost(q) ==
    /\ q.kind \notin SignIns \cup {"logout"}
    /\ unauthorizedHandler /\ UNCHANGED submitting

\* A failed poll or use is no evidence that the session is gone.
UseLost(q) ==
    /\ q.kind \notin SignIns \cup {"logout"}
    /\ UNCHANGED <<screen, storage>>

\* The request or its answer is lost: the promise is rejected.
Lose(q) ==
    /\ failures < MaxFailures
    /\ failures' = failures + 1
    /\ requests' = requests \ {q}
    /\ \/ /\ q.kind \in SignIns
          /\ submitting' = FALSE
          /\ UNCHANGED <<status, role, pinConfigured, accountsExist, authView, storage>>
       \/ LockAnswered(q)
       \/ UseLost(q)
    /\ UNCHANGED <<deferred, server>>

\* checkStatus with the answer of /auth/status; its facts are kept, however
\* old they get, until the page is loaded again.
StatusAnswered ==
    /\ status = "checking"
    /\ IF Open THEN Settle("setup", FALSE, FALSE) /\ UNCHANGED role
       ELSE IF token # None
       THEN /\ Settle("unlocked", pinSet, accountsMade)
            /\ role' = IF storedRole = None THEN "owner" ELSE storedRole
       ELSE Settle("locked", pinSet, accountsMade) /\ UNCHANGED role
    /\ UNCHANGED <<submitting, deferred, storage, requests, failures, server>>

\* checkStatus when the server cannot be reached.
StatusLost ==
    /\ status = "checking" /\ failures < MaxFailures
    /\ failures' = failures + 1
    /\ IF token # None
       THEN GoTo("unlocked") /\ role' = IF storedRole = None THEN "owner" ELSE storedRole
       ELSE GoTo("locked") /\ UNCHANGED role
    /\ UNCHANGED <<submitting, deferred, storage, requests, server>>

\* The page is loaded anew; answers to the old one go nowhere.
Reload ==
    /\ status' = "checking" /\ role' = None /\ submitting' = FALSE
    /\ pinConfigured' = TRUE /\ accountsExist' = TRUE /\ authView' = "register"
    /\ deferred' = FALSE /\ requests' = {}
    /\ UNCHANGED <<storage, failures, server>>

Next ==
    \/ \E view \in {"register", "login", "pin"} : FollowLink(view)
    \/ Submit \/ Lock \/ Poll \/ Change \/ Defer \/ FireDeferred
    \/ \E q \in requests : Serve(q) \/ Deliver(q) \/ Lose(q)
    \/ StatusAnswered \/ StatusLost \/ Reload
    \/ \E t \in Tokens : Revoke(t)

Spec == Init /\ [][Next]_vars

\* The browser runs the poll's interval, and the polls and the sign-ins are answered
\* or fail.
FairSpec ==
    /\ Spec
    /\ WF_vars(Poll)
    /\ WF_vars(\E q \in requests : q.kind = "session" /\ Serve(q))
    /\ WF_vars(\E q \in requests : q.kind = "session" /\ Deliver(q))
    /\ WF_vars(\E q \in requests : q.kind \in SignIns /\ Serve(q))
    /\ WF_vars(\E q \in requests : q.kind \in SignIns /\ Deliver(q))

-----------------------------------------------------------------------------
(* What makes it correct                                                    *)

\* An unlocked tab holds a token and shows the page of the role that token was
\* given out with, over reloads, late answers and two sign-ins at once.
RoleIsTheTokens ==
    status = "unlocked" => token # None /\ role = grants[token]

\* The page never asks for a change with a guest's token, but for a deletion that
\* was waiting when the guest signed in.
GuestsOnlyRead ==
    \A q \in requests : q.kind = "write" /\ q.token # None => grants[q.token] # "guest"

\* A session the server honours is dropped by the tab only when the user locks it,
\* on the answer to a request that did not carry its token, or when the user gives
\* a wrong current PIN: never because a poll failed or a guest was refused.
LiveSessionsAreKept ==
    [][(token \in live /\ token' # token) =>
          (\E q \in requests \ requests' :
               q.kind \in {"logout", "pin"} \/ q.token # token)]_vars

\* The same without the wrong PIN, which does not end a session on the server.
SessionsEndForAReason ==
    [][(token \in live /\ token' # token) =>
          (\E q \in requests \ requests' : q.kind = "logout" \/ q.token # token)]_vars

\* A tab whose session has been revoked goes back to the lock screen by itself.
RevokedIsBounced ==
    \A t \in Tokens :
        (status = "unlocked" /\ token = t /\ t \notin live)
            ~> (status # "unlocked" \/ token # t)

\* The sign-in forms do not stay disabled.
SubmittingEnds == submitting ~> ~submitting
=============================================================================
