-------------------------------- MODULE SignIn --------------------------------
(***************************************************************************)
(* Signing in and out in one browser tab: the two forms of Login.tsx, the  *)
(* session kept by the auth store, the guard of the app's routes, and the  *)
(* client that ends the session and loads the page anew when a request is  *)
(* refused with 401 (stores/auth.ts).                                      *)
(*                                                                         *)
(* The store outlives a load of the page, the rest does not: forms, query  *)
(* cache, requests on their way.  Logout is no load of the page.  Sessions *)
(* are numbered, a number standing for a token, which expires some time.   *)
(* The query ['me'] stands for what is cached; a request retried after     *)
(* the session has changed is left out.                                    *)
(***************************************************************************)
EXTENDS Naturals, QueryCache

CONSTANTS
    Users, MfaUsers,    \* the accounts; those with a second factor
    Nobody,
    MaxSessions         \* bound of the model: sessions begun

ASSUME SignInAssumption ==
    /\ Nobody \notin Users /\ MfaUsers \subseteq Users
    /\ MaxSessions \in Nat

VARIABLES
    place,       \* the page shown: "login" or "app"
    email,       \* whose address and password are typed
    mfaToken,    \* the user whose code is asked for, if any
    loading,
    attempts,    \* sign-in requests on their way
    session,     \* what the auth store holds
    begun,       \* sessions begun
    expired,     \* sessions whose token has expired
    calls,       \* other requests on their way, by the session that sent them
    me,          \* cache entry of ['me']
    asker,       \* the session the fetch of ['me'] was sent by
    submitted,   \* history: the user of the form submitted last
    clean,       \* history: no earlier session's request was on its way at sign-in
    handed       \* history: a session was left in this page without loading it

signInVars == <<place, email, mfaToken, loading, attempts, session, begun, expired, calls,
           me, asker, submitted, clean, handed>>
forms == <<email, mfaToken, loading>>
store == <<session, begun, clean, handed>>
cache == <<me, asker>>

\* here: the form that asked is shown still.
Attempts == [kind: {"login", "verify"}, user: Users, here: BOOLEAN]
Sessions == [n: 0 .. MaxSessions, user: Users \union {Nobody}]
NoSession == [n |-> 0, user |-> Nobody]
SignedIn == session # NoSession

SignInInit ==
    /\ place = "login" /\ email = Nobody /\ mfaToken = Nobody /\ loading = FALSE
    /\ attempts = {} /\ session = NoSession /\ begun = 0 /\ expired = {}
    /\ calls = {} /\ me = NoEntry(Nobody) /\ asker = NoSession
    /\ submitted = Nobody /\ clean = TRUE /\ handed = FALSE

-----------------------------------------------------------------------------
(* The forms                                                               *)

\* Mounted anew, or not mounted: what was typed or awaited is forgotten.
FormsAnew == email' = Nobody /\ mfaToken' = Nobody /\ loading' = FALSE
Abandoned(as) == {[a EXCEPT !.here = FALSE] : a \in as}

Type(u) ==
    /\ place = "login" /\ mfaToken = Nobody /\ u # email /\ email' = u
    /\ UNCHANGED <<place, mfaToken, loading, attempts, store, expired, calls, cache,
                   submitted>>

\* Mutant: the buttons stay enabled while an answer is awaited.
ButtonsStayEnabled == place = "login"

ButtonEnabled == place = "login" /\ ~loading

Submits(kind, u) ==
    /\ attempts' = attempts \union {[kind |-> kind, user |-> u, here |-> TRUE]}
    /\ loading' = TRUE
    /\ UNCHANGED <<place, email, mfaToken, store, expired, calls, cache>>

handleLogin ==
    /\ ButtonEnabled /\ mfaToken = Nobody /\ email # Nobody
    /\ Submits("login", email) /\ submitted' = email

handleMfaVerify ==
    /\ ButtonEnabled /\ mfaToken # Nobody
    /\ Submits("verify", mfaToken) /\ submitted' = mfaToken

BackToSignIn ==
    /\ place = "login" /\ mfaToken # Nobody /\ mfaToken' = Nobody
    /\ UNCHANGED <<place, email, loading, attempts, store, expired, calls, cache,
                   submitted>>

-----------------------------------------------------------------------------
(* A load of the page, which the store outlives                            *)

Loaded(kept) ==
    /\ FormsAnew /\ attempts' = {} /\ calls' = {}
    /\ me' = NoEntry(Nobody) /\ asker' = NoSession
    /\ session' = kept /\ handed' = FALSE
    /\ UNCHANGED <<begun, clean, expired, submitted>>

\* Mutant: the login page is shown without loading it.
OnlyShowsLogin ==
    /\ place' = "login" /\ session' = NoSession
    /\ FormsAnew /\ attempts' = Abandoned(attempts)
    /\ UNCHANGED <<calls, cache, begun, clean, handed, expired, submitted>>

\* The interceptor on 401: clearAuth, and the login page is loaded.
AutoLogout == place' = "login" /\ Loaded(NoSession)

Reload ==
    /\ place' = IF SignedIn THEN place ELSE "login"
    /\ Loaded(session)

\* Mutant: a failed attempt to sign in ends the session, too.
EveryRefusal(isAuthAttempt) == TRUE

EndsSession(isAuthAttempt) == ~isAuthAttempt

-----------------------------------------------------------------------------
(* Answers to the forms                                                    *)

\* finishLogin: the store is set and the app shown, even if the form that
\* asked was left meanwhile.
finishLogin(u) ==
    /\ begun < MaxSessions /\ begun' = begun + 1
    /\ session' = [n |-> begun + 1, user |-> u]
    /\ clean' = (calls = {} /\ me.fetch = "idle")
    /\ handed' = (handed \/ SignedIn)
    /\ place' = "app" /\ FormsAnew

Accepted(a) ==
    /\ a.kind = "login" => a.user \notin MfaUsers
    /\ finishLogin(a.user) /\ attempts' = Abandoned(attempts \ {a})
    /\ UNCHANGED <<expired, calls, cache, submitted>>

\* The form stops waiting and asks for a code of user u, or for a password.
StopsWaiting(a, u) ==
    /\ attempts' = attempts \ {a}
    /\ IF a.here THEN mfaToken' = u /\ loading' = FALSE ELSE UNCHANGED <<mfaToken, loading>>
    /\ UNCHANGED <<place, email, store, expired, calls, cache, submitted>>

Challenged(a) ==
    /\ a.kind = "login" /\ a.user \in MfaUsers /\ StopsWaiting(a, a.user)

\* 401, another error, or no answer in time.
AttemptRefused(a) ==
    IF EndsSession(TRUE) THEN AutoLogout
    ELSE \/ StopsWaiting(a, mfaToken)
         \/ a.kind = "verify" /\ StopsWaiting(a, Nobody)

-----------------------------------------------------------------------------
(* The session                                                             *)

Logout ==
    /\ place = "app" /\ place' = "login" /\ FormsAnew
    /\ session' = NoSession /\ handed' = TRUE
    /\ UNCHANGED <<attempts, begun, clean, expired, calls, cache, submitted>>

\* Mutant: the guard lets everybody in.
HistoryUnguarded ==
    /\ place' = IF place = "login" THEN "app" ELSE "login"
    /\ FormsAnew /\ attempts' = Abandoned(attempts)
    /\ UNCHANGED <<store, expired, calls, cache, submitted>>

\* Back and forward: the login page can be shown to who is signed in, and the
\* guard of the app shows it anew to who is not.
History ==
    /\ place' = IF place = "login" /\ SignedIn THEN "app" ELSE "login"
    /\ FormsAnew /\ attempts' = Abandoned(attempts)
    /\ UNCHANGED <<store, expired, calls, cache, submitted>>

\* Tokens nobody holds or has sent may expire unnoticed.
Expire(n) ==
    /\ n \notin expired /\ n \in calls \union {session.n, asker.n}
    /\ expired' = expired \union {n}
    /\ UNCHANGED <<place, forms, attempts, store, calls, cache, submitted>>

Call ==
    /\ place = "app" /\ calls' = calls \union {session.n}
    /\ UNCHANGED <<place, forms, attempts, store, expired, cache, submitted>>

CallAnswered(n) ==
    IF n \in expired /\ EndsSession(FALSE) THEN AutoLogout
    ELSE /\ calls' = calls \ {n}
         /\ UNCHANGED <<place, forms, attempts, store, expired, cache, submitted>>

\* A page that uses ['me'] is opened.
Profile(old) ==
    /\ place = "app" /\ me' = Observed(Aged(me, old))
    /\ asker' = IF me.fetch = "idle" /\ me'.fetch = "sent" THEN session ELSE asker
    /\ UNCHANGED <<place, forms, attempts, store, expired, calls, submitted>>

MeIsRead ==
    /\ me.fetch = "sent"
    /\ IF asker.n \in expired THEN AutoLogout
       ELSE /\ me' = BackendReads(me, asker.user)
            /\ UNCHANGED <<place, forms, attempts, store, expired, calls, asker, submitted>>

MeArrives ==
    /\ me.fetch = "read" /\ me' = Received(me) /\ asker' = NoSession
    /\ UNCHANGED <<place, forms, attempts, store, expired, calls, submitted>>

SignInNext ==
    \/ \E u \in Users : Type(u)
    \/ handleLogin \/ handleMfaVerify \/ BackToSignIn \/ Reload
    \/ \E a \in attempts : Accepted(a) \/ Challenged(a) \/ AttemptRefused(a)
    \/ Logout \/ History \/ Call \/ MeIsRead \/ MeArrives
    \/ \E n \in 1 .. begun : Expire(n)
    \/ \E n \in calls : CallAnswered(n)
    \/ \E old \in Ages(me) : Profile(old)

SignInSpec == SignInInit /\ [][SignInNext]_signInVars

-----------------------------------------------------------------------------
SignInTypeOK ==
    /\ place \in {"login", "app"} /\ (place = "app" => SignedIn)
    /\ email \in Users \union {Nobody} /\ mfaToken \in Users \union {Nobody} /\ loading \in BOOLEAN
    /\ attempts \subseteq Attempts
    /\ session \in Sessions /\ asker \in Sessions
    /\ begun \in 0 .. MaxSessions
    /\ expired \subseteq 1 .. begun /\ calls \subseteq 1 .. begun
    /\ me \in Entries(Users \union {Nobody})
    /\ submitted \in Users \union {Nobody} /\ clean \in BOOLEAN /\ handed \in BOOLEAN

\* A session that begins is that of the user whose form was submitted last, in
\* whatever order forms are switched and answers come.  Left out is an answer to
\* a form that was left by the browser's own buttons.
SignedInAsSubmitted ==
    [][session' \notin {session, NoSession} /\ (\A a \in attempts : a.here)
        => session'.user = submitted]_signInVars

\* A session ends when its user signs out or its own token is refused: the late
\* refusal of another request does not end it, a failed attempt to sign in
\* neither.  That needs no request of an earlier session to be on its way when
\* it begins, since the interceptor does not look whose token was refused.
EndsByItself ==
    [][SignedIn /\ session' = NoSession /\ clean => session.n \in expired \/ Logout]_signInVars

\* What is cached of a user is that of the one signed in, unless another
\* session was left without loading the page: the cache outlives Logout.
CacheIsOwn ==
    SignedIn /\ ~handed /\ me.has => me.data = session.user
=============================================================================
