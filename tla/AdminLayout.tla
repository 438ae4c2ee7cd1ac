----------------------------- MODULE AdminLayout -----------------------------
(***************************************************************************)
(* The admin panel's auth guard, services/admin-web/app/(admin)/layout.tsx. *)
(*                                                                         *)
(* The layout reads token and user from the auth store.  An effect on      *)
(* [token, user, isLoadingUser] sends the browser to /login when there is  *)
(* no token, and otherwise, when no user is loaded and none is loading,    *)
(* sets isLoadingUser and calls fetchUser; its catch pushes /login and its *)
(* finally clears isLoadingUser.  "Выйти" awaits logout and pushes /login. *)
(*                                                                         *)
(* The auth store and the login page are not in this repository and the   *)
(* spec leaves authentication out of scope: their effects are modelled as  *)
(* the choices they could make.  fetchUser stores the user on success and  *)
(* may or may not clear the token on failure; logout clears both; a login  *)
(* stores a new token and may or may not keep the old user.                *)
(*                                                                         *)
(* A token is "valid", "expired" (the API refuses it) or "none".  Each     *)
(* visit to /admin is a new mount of the layout, numbered by mount.        *)
(***************************************************************************)
EXTENDS Naturals, FiniteSets

CONSTANTS
    MaxMounts,           \* bound on visits to /admin (logins)
    MaxFetchesPerMount,  \* bound on fetchUser calls by one mount
    ServerErrors         \* whether GET of the current user may fail anyway

ASSUME MaxMounts \in Nat \ {0} /\ MaxFetchesPerMount \in Nat \ {0}
       /\ ServerErrors \in BOOLEAN

Tokens == {"none", "valid", "expired"}
Mounts == 1..MaxMounts

VARIABLES
    token,          \* the store's token
    user,           \* the store holds a user
    route,          \* the page shown: "admin" (this layout) or "login"
    nav,            \* router.push("/login") issued and not yet committed
    mount,          \* the current mount of the layout
    isLoadingUser,  \* isLoadingUser of the current mount
    effectDue,      \* a dependency of the effect changed in the last render
    fetches,        \* fetchUser calls in flight: [mount, n, phase]
    fetched,        \* fetchUser calls made by the current mount
    loggingOut      \* handleLogout is awaiting logout()

vars == <<token, user, route, nav, mount, isLoadingUser, effectDue, fetches,
          fetched, loggingOut>>

Fetch == [mount : Mounts, n : 1..MaxFetchesPerMount,
          phase : {"sent", "ok", "failed"}]

Mounted == route = "admin"

\* A render of the mounted layout with a new token, user or isLoadingUser:
\* the effect is due after it.
DepsChanged == <<token', user', isLoadingUser'>> # <<token, user, isLoadingUser>>

\* effectDue after a step other than the effect itself.
EffectDue == effectDue' = (effectDue \/ (Mounted /\ DepsChanged))

-----------------------------------------------------------------------------
(* The layout                                                              *)

\* The effect without !isLoadingUser in its condition.
RunEffectUnguarded ==
    /\ Mounted /\ effectDue
    /\ \/ /\ token = "none"
          /\ nav' = TRUE
          /\ UNCHANGED <<isLoadingUser, fetches, fetched>>
       \/ /\ token # "none" /\ ~user
          /\ fetched < MaxFetchesPerMount
          /\ isLoadingUser' = TRUE
          /\ fetches' = fetches \union
                {[mount |-> mount, n |-> fetched + 1, phase |-> "sent"]}
          /\ fetched' = fetched + 1
          /\ UNCHANGED nav
       \/ /\ token # "none" /\ (user \/ fetched = MaxFetchesPerMount)
          /\ UNCHANGED <<nav, isLoadingUser, fetches, fetched>>
    /\ UNCHANGED <<token, user, route, mount, loggingOut>>
    /\ effectDue' = DepsChanged

\* The effect after a render that changed token, user or isLoadingUser:
\* no token sends the browser to /login; a token with no user loaded and
\* none loading starts fetchUser (isLoadingUser changes, so the effect is
\* due again); otherwise it does nothing.
RunEffect ==
    /\ Mounted /\ effectDue
    /\ \/ /\ token = "none"
          /\ nav' = TRUE
          /\ UNCHANGED <<isLoadingUser, fetches, fetched>>
       \/ /\ token # "none" /\ ~user /\ ~isLoadingUser
          /\ fetched < MaxFetchesPerMount
          /\ isLoadingUser' = TRUE
          /\ fetches' = fetches \union
                {[mount |-> mount, n |-> fetched + 1, phase |-> "sent"]}
          /\ fetched' = fetched + 1
          /\ UNCHANGED nav
       \/ /\ token # "none"
          /\ user \/ isLoadingUser \/ fetched = MaxFetchesPerMount
          /\ UNCHANGED <<nav, isLoadingUser, fetches, fetched>>
    /\ UNCHANGED <<token, user, route, mount, loggingOut>>
    /\ effectDue' = DepsChanged

\* fetchUser succeeded: the store holds the user; finally clears
\* isLoadingUser if this mount is still the one shown.
FetchUserSucceeded(r) ==
    /\ r \in fetches /\ r.phase = "ok"
    /\ fetches' = fetches \ {r}
    /\ user' = TRUE
    /\ isLoadingUser' = IF r.mount = mount /\ Mounted THEN FALSE ELSE isLoadingUser
    /\ UNCHANGED <<token, route, nav, mount, fetched, loggingOut>>
    /\ EffectDue

\* catch without router.push: the failure is swallowed.
FetchUserFailedNoRedirect(r) ==
    /\ r \in fetches /\ r.phase = "failed"
    /\ fetches' = fetches \ {r}
    /\ token' \in {token, "none"}
    /\ isLoadingUser' = IF r.mount = mount /\ Mounted THEN FALSE ELSE isLoadingUser
    /\ UNCHANGED <<user, route, nav, mount, fetched, loggingOut>>
    /\ EffectDue

\* fetchUser failed (the store may have dropped the token): catch pushes
\* /login through the global router, whichever mount made the call;
\* finally clears isLoadingUser of its own mount.
FetchUserFailed(r) ==
    /\ r \in fetches /\ r.phase = "failed"
    /\ fetches' = fetches \ {r}
    /\ token' \in {token, "none"}
    /\ nav' = (nav \/ Mounted)
    /\ isLoadingUser' = IF r.mount = mount /\ Mounted THEN FALSE ELSE isLoadingUser
    /\ UNCHANGED <<user, route, mount, fetched, loggingOut>>
    /\ EffectDue

\* "Выйти": handleLogout awaits logout().
ClickLogout ==
    /\ Mounted /\ token # "none" /\ ~loggingOut
    /\ loggingOut' = TRUE
    /\ UNCHANGED <<token, user, route, nav, mount, isLoadingUser, effectDue,
                   fetches, fetched>>

\* logout() cleared the store; handleLogout pushes /login.
LogoutDone ==
    /\ loggingOut
    /\ loggingOut' = FALSE
    /\ token' = "none" /\ user' = FALSE
    /\ nav' = (nav \/ Mounted)
    /\ UNCHANGED <<route, mount, isLoadingUser, fetches, fetched>>
    /\ EffectDue

\* The navigation to /login commits: the layout unmounts.
NavigateToLogin ==
    /\ Mounted /\ nav
    /\ route' = "login"
    /\ nav' = FALSE
    /\ effectDue' = FALSE
    /\ UNCHANGED <<token, user, mount, isLoadingUser, fetches, fetched, loggingOut>>

-----------------------------------------------------------------------------
(* The API and the login page                                              *)

\* GET of the current user: refused for an expired token, answered for a
\* valid one, either way if the store no longer holds one, and failing on
\* a network or server error.
ServeMe(r) ==
    /\ r \in fetches /\ r.phase = "sent"
    /\ \E ph \in {"ok", "failed"} :
         /\ \/ ph = "ok" /\ token # "expired"
            \/ ph = "failed" /\ (token # "valid" \/ ServerErrors)
         /\ fetches' = (fetches \ {r}) \union {[r EXCEPT !.phase = ph]}
    /\ UNCHANGED <<token, user, route, nav, mount, isLoadingUser, effectDue,
                   fetched, loggingOut>>

\* The session expires on the server.
Expire ==
    /\ token = "valid"
    /\ token' = "expired"
    /\ UNCHANGED <<user, route, nav, mount, isLoadingUser, fetches, fetched,
                   loggingOut>>
    /\ EffectDue

\* A login on /login stores a new token and opens /admin: a new mount.
Login ==
    /\ route = "login" /\ mount < MaxMounts
    /\ token' = "valid"
    /\ user' \in {FALSE, user}
    /\ route' = "admin"
    /\ mount' = mount + 1
    /\ isLoadingUser' = FALSE /\ effectDue' = TRUE
    /\ fetched' = 0
    /\ UNCHANGED <<nav, fetches, loggingOut>>

-----------------------------------------------------------------------------

\* /admin opened with whatever the persisted store holds.
Init ==
    /\ token \in Tokens
    /\ user \in IF token = "none" THEN {FALSE} ELSE BOOLEAN
    /\ route = "admin" /\ nav = FALSE
    /\ mount = 1
    /\ isLoadingUser = FALSE /\ effectDue = TRUE
    /\ fetches = {} /\ fetched = 0
    /\ loggingOut = FALSE

Next ==
    \/ RunEffect
    \/ \E r \in fetches : \/ ServeMe(r)
                          \/ FetchUserSucceeded(r) \/ FetchUserFailed(r)
    \/ ClickLogout \/ LogoutDone
    \/ NavigateToLogin
    \/ Expire \/ Login

\* React runs a due effect, the API answers, promise callbacks run and a
\* pushed navigation commits; the admin need not click or log in.
Fairness ==
    /\ WF_vars(RunEffect)
    /\ \A m \in Mounts, n \in 1..MaxFetchesPerMount :
         LET Call(r) == r.mount = m /\ r.n = n IN
         /\ WF_vars(\E r \in fetches : Call(r) /\ ServeMe(r))
         /\ WF_vars(\E r \in fetches :
                      Call(r) /\ (FetchUserSucceeded(r) \/ FetchUserFailed(r)))
    /\ WF_vars(LogoutDone)
    /\ WF_vars(NavigateToLogin)

Spec == Init /\ [][Next]_vars /\ Fairness

-----------------------------------------------------------------------------
(* Properties                                                              *)

\* One mount of the layout never has two fetchUser calls in flight: the
\* effect runs again as soon as isLoadingUser is set, and only that flag
\* stops it from calling fetchUser a second time.
OneFetchUserAtATime ==
    \A m \in Mounts : Cardinality({r \in fetches : r.mount = m}) <= 1

\* Every visit to /admin ends either with a user loaded for a token the
\* store holds, or on /login: a failing fetchUser is not retried forever.
AdminResolves ==
    route = "admin" ~> (route = "login" \/ (token # "none" /\ user))
====
