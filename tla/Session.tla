------------------------------ MODULE Session ------------------------------
(***************************************************************************)
(* Signing in to the console: App.tsx, ProtectedRoute.tsx, Login.tsx, the  *)
(* answers' interceptor of apiClient.ts and the logout of ProfilePage.tsx, *)
(* with the cookie the hub sets.  A full load of a page forgets every      *)
(* request under way; a step of the router does not.                       *)
(*                                                                         *)
(* GET /auth/session accepts any cookie, the other routes only one they    *)
(* can verify: "refused" is a cookie signed with a key that was replaced.  *)
(***************************************************************************)
EXTENDS Naturals

CONSTANTS Pages,     \* the protected paths, "/" among them
          MaxOpens   \* bound on the paths the analyst opens

VARIABLES
    path,            \* window.location.pathname
    redirect,        \* the redirect parameter of the login page and the sign-in
    guard,           \* ProtectedRoute: "verifying", "valid", "none"
    verifyCall,      \* its GET /auth/session
    loginCall,       \* the GET /auth/session of the login page
    pageCall,        \* a request of the page itself
    cookie,          \* "none", "good", "refused"
    opens

callVars == <<verifyCall, loginCall, pageCall>>
sessionVars == <<path, redirect, guard, callVars, cookie, opens>>

Calls == {"none", "sent", "ok", "401", "403"}

SessionTypeOK ==
    /\ path \in Pages \cup {"/login", "/unauthorized", "google"}
    /\ redirect \in Pages \cup {"none"}
    /\ guard \in {"verifying", "valid", "none"}
    /\ verifyCall \in Calls /\ loginCall \in Calls /\ pageCall \in Calls
    /\ cookie \in {"none", "good", "refused"}
    /\ opens \in 0..MaxOpens

\* Mounting what the routes of App.tsx have for a path.
Mount(p, r) ==
    /\ path' = p
    /\ redirect' = r
    /\ guard' = IF p \in Pages THEN "verifying" ELSE "none"
    /\ verifyCall' = IF p \in Pages THEN "sent" ELSE "none"
    /\ loginCall' = IF p = "/login" THEN "sent" ELSE "none"

\* window.location.href = ...
Load(p, r) == Mount(p, r) /\ pageCall' = "none"

\* navigate(...), <Navigate ... />: the request of the page lives on.
Navigate(p, r) == Mount(p, r) /\ UNCHANGED pageCall

SessionInit ==
    /\ path \in Pages
    /\ redirect = "none"
    /\ guard = "verifying"
    /\ verifyCall = "sent" /\ loginCall = "none" /\ pageCall = "none"
    /\ cookie \in {"none", "good", "refused"}
    /\ opens = 0

-----------------------------------------------------------------------------
(* The analyst.                                                            *)
Open(p) ==
    /\ opens < MaxOpens
    /\ opens' = opens + 1
    /\ Load(p, "none")
    /\ UNCHANGED cookie

\* A link of the sidebar: ProtectedRoute stays mounted and does not ask again.
Follow(p) ==
    /\ guard = "valid" /\ p # path /\ opens < MaxOpens
    /\ opens' = opens + 1
    /\ path' = p
    /\ UNCHANGED <<redirect, guard, callVars, cookie>>

PageAsks ==
    /\ guard = "valid" /\ pageCall = "none"
    /\ pageCall' = "sent"
    /\ UNCHANGED <<path, redirect, guard, verifyCall, loginCall, cookie, opens>>

\* handleLogout after its await; the request may have failed.
LogoutEnds ==
    /\ guard = "valid"
    /\ Navigate("/login", "none")
    /\ cookie' \in {"none", cookie}
    /\ UNCHANGED opens

SignIn ==
    /\ path = "/login"
    /\ Load("google", IF redirect = "none" THEN "/" ELSE redirect)
    /\ UNCHANGED <<cookie, opens>>

\* auth_google_callback sends the browser to the path in its state token.
GoogleReturns ==
    /\ path = "google"
    /\ cookie' = "good"
    /\ Load(redirect, "none")
    /\ UNCHANGED <<opens>>

ReturnToCommandCenter ==
    /\ path = "/unauthorized"
    /\ Navigate("/", "none")
    /\ UNCHANGED <<cookie, opens>>

-----------------------------------------------------------------------------
(* The hub.                                                                *)
CookieChanges ==
    /\ \/ cookie # "none" /\ cookie' = "none"       \* its max_age is over
       \/ cookie = "good" /\ cookie' = "refused"    \* the key was replaced
    /\ UNCHANGED <<path, redirect, guard, callVars, opens>>

SessionAnswer == IF cookie = "none" THEN "401" ELSE "ok"
DataAnswers == IF cookie = "good" THEN {"ok", "403"} ELSE {"401"}

HubDecides ==
    /\ \/ verifyCall = "sent" /\ verifyCall' = SessionAnswer /\ UNCHANGED <<loginCall, pageCall>>
       \/ loginCall = "sent" /\ loginCall' = SessionAnswer /\ UNCHANGED <<verifyCall, pageCall>>
       \/ pageCall = "sent" /\ pageCall' \in DataAnswers /\ UNCHANGED <<verifyCall, loginCall>>
    /\ UNCHANGED <<path, redirect, guard, cookie, opens>>

-----------------------------------------------------------------------------
(* Answers.                                                                *)
VerifySucceeds ==
    /\ verifyCall = "ok"
    /\ verifyCall' = "none"
    /\ guard' = "valid"
    /\ UNCHANGED <<path, redirect, loginCall, pageCall, cookie, opens>>

RedirectTo(p) == p

\* No answer: ProtectedRoute goes to the login page.
VerifyFails ==
    /\ verifyCall # "none"
    /\ Navigate("/login", RedirectTo(path))
    /\ UNCHANGED <<cookie, opens>>

CheckSucceeds ==
    /\ loginCall = "ok"
    /\ Navigate(IF redirect = "none" THEN "/" ELSE redirect, "none")
    /\ UNCHANGED <<cookie, opens>>

\* Mutant: every 401 loads the login page.
LoadsLoginAlways == TRUE

LoadsLogin == path # "/login"

\* The interceptor on a 401, whichever request it answers.  What the caller
\* does then is lost with the page, unless it is the login page, which stays.
Unauthenticated ==
    /\ "401" \in {verifyCall, loginCall, pageCall}
    /\ IF LoadsLogin
         THEN Load("/login", IF path \in Pages THEN RedirectTo(path) ELSE redirect)
         ELSE /\ loginCall' = IF loginCall = "401" THEN "none" ELSE loginCall
              /\ pageCall' = IF pageCall = "401" THEN "none" ELSE pageCall
              /\ UNCHANGED <<path, redirect, guard, verifyCall>>
    /\ UNCHANGED <<cookie, opens>>

Forbidden ==
    /\ pageCall = "403"
    /\ Load("/unauthorized", "none")
    /\ UNCHANGED <<cookie, opens>>

CallEnds ==
    /\ \/ pageCall = "ok" /\ pageCall' = "none" /\ UNCHANGED loginCall
       \/ loginCall = "sent" /\ loginCall' = "none" /\ UNCHANGED pageCall  \* no answer
    /\ UNCHANGED <<path, redirect, guard, verifyCall, cookie, opens>>

Answers == VerifySucceeds \/ VerifyFails \/ CheckSucceeds \/ Unauthenticated
              \/ Forbidden \/ CallEnds

SessionNext ==
    \/ \E p \in Pages \cup {"/login"} : Open(p)
    \/ \E p \in Pages : Follow(p)
    \/ PageAsks \/ LogoutEnds \/ SignIn \/ GoogleReturns \/ ReturnToCommandCenter
    \/ CookieChanges \/ HubDecides \/ Answers

-----------------------------------------------------------------------------
\* Without a cookie the console comes to rest on the login page: the 401s of
\* the pages lead there, and the 401 of the login page itself leads nowhere.
RestsOnLogin ==
    cookie = "none" ~>
        \/ path = "/login" /\ loginCall = "none"
        \/ cookie # "none" \/ path \in {"google", "/unauthorized"}
=============================================================================
