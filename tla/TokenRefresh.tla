------------------------------ MODULE TokenRefresh ------------------------------
(***************************************************************************)
(* The session of a browser: jwt.interceptor.ts, auth.service.ts and who   *)
(* calls it (login, signup, logout, the start of the application).         *)
(*                                                                         *)
(* Every request but those to /auth/login, /auth/signup and /auth/refresh  *)
(* runs through the interceptor, /auth/me too.  Observables resolve        *)
(* synchronously: an action is the arrival of one answer, with all that    *)
(* the operators that wait for it do, or a page that gives up a request:   *)
(* what a page asks for is unsubscribed when the page is left, and, where  *)
(* an effect asks, when the effect runs again.                             *)
(*                                                                         *)
(* Requests have numbers: 1..N for what the pages ask for, SessionMe for   *)
(* the /auth/me of a login or of the start, MeOf(i) for the one that       *)
(* request i makes after it has renewed the token.                         *)
(***************************************************************************)
EXTENDS Integers, FiniteSets

CONSTANTS
    N,            \* bound: requests of the pages
    MaxTokens,    \* bound: access tokens issued
    MaxSessions   \* bound: sessions, one for every login

ASSUME RefreshAssumption ==
    /\ N \in Nat \ {0}
    /\ MaxTokens \in Nat \ {0}
    /\ MaxSessions \in Nat \ {0}

VARIABLES
    accessToken,  \* accessToken(), or None
    me,           \* whose profile meSubject has, or None
    refreshing,   \* the flag of the interceptor
    req,          \* every request
    page,         \* "start", "login" or "app"
    flow,         \* the session flow: login, signup or tryRestoreSession
    logout,       \* a request to /auth/logout is on its way
    cookie,       \* whose refresh token the browser holds, or None
    owner,        \* whose each access token is; issued in this order
    issued,
    expired,      \* the tokens up to this one have expired
    letdown,      \* history: who waited when the last renewal ended in vain
    stuck,        \* history: the flag is that of a renewal that was given up
    meddled,      \* history: a failed retry has reset the flag of a renewal
    ended,        \* history: the session has been ended by a logout
    excused       \* history: by then a renewal ran, or the backend failed

clientVars == <<accessToken, me, page>>
serverVars == <<cookie, owner, issued>>
historyVars == <<letdown, stuck, meddled, ended, excused>>

vars == <<clientVars, refreshing, req, flow, logout, serverVars, expired, historyVars>>

None == 0

Pages == 1..N

SessionMe == N + 1

MeOf(i) == N + 1 + i

Requests == 1..2 * N + 2

Sessions == 1..MaxSessions

Tokens == 1..MaxTokens

(* "token" is what the request carries; "fresh" what its retry carries;    *)
(* "cookie" the refresh token its renewal was sent with.  A request that   *)
(* has "failed" is over without an answer: an error, or it was given up.   *)
Request ==
    [at     : {"new", "sent", "waiting", "refreshing", "loading", "retried", "leading", "ok", "failed"},
     token  : Tokens \cup {None},
     fresh  : Tokens \cup {None},
     cookie : Sessions \cup {None}]

Unsent == [at |-> "new", token |-> None, fresh |-> None, cookie |-> None]

SentWith(token) == [Unsent EXCEPT !.at = "sent", !.token = token]

At(S) == {i \in Requests : req[i].at \in S}

(* Who renews the token: the refresh is on its way, or /auth/me is. *)
Leaders == At({"refreshing", "loading"})

Good(token) == token # None /\ token > expired

-------------------------------------------------------------------------------
(* provideAppInitializer: tryRestoreSession, with or without a cookie. *)
Init ==
    /\ accessToken = None
    /\ me = None
    /\ refreshing = FALSE
    /\ req = [i \in Requests |-> Unsent]
    /\ page = "start"
    /\ flow = "restore"
    /\ logout = FALSE
    /\ cookie \in {None, 1}
    /\ owner = [t \in Tokens |-> 1]
    /\ issued = 0
    /\ expired = 0
    /\ letdown = {}
    /\ stuck = FALSE
    /\ meddled = FALSE
    /\ ended = FALSE
    /\ excused = FALSE

-------------------------------------------------------------------------------
Expire ==
    /\ expired < issued
    /\ expired' = expired + 1
    /\ UNCHANGED <<clientVars, refreshing, req, flow, logout, serverVars, historyVars>>

(* The backend issues a pair of tokens; the answer brings both. *)
Issue(session) ==
    /\ issued < MaxTokens
    /\ issued' = issued + 1
    /\ owner' = [owner EXCEPT ![issued + 1] = session]
    /\ cookie' = session
    /\ accessToken' = issued + 1

(* The session flow has its tokens and asks for the profile. *)
LoadMe ==
    /\ req' = [req EXCEPT ![SessionMe] = SentWith(issued + 1)]
    /\ flow' = IF flow = "restore" THEN "restoreMe" ELSE "loginMe"

(* The flow has failed: a login shows its error and changes nothing else;  *)
(* tryRestoreSession logs out and goes to the login page.                  *)
FlowFails(requests) ==
    /\ flow' = "idle"
    /\ req' = requests
    /\ logout' = (logout \/ flow \in {"restore", "restoreMe"})
    /\ page' = "login"

Restored ==
    /\ flow = "restore"
    /\ cookie # None
    /\ Issue(cookie)
    /\ LoadMe
    /\ UNCHANGED <<me, page, refreshing, logout, expired, historyVars>>

NotRestored ==
    /\ flow = "restore"
    /\ FlowFails(req)
    /\ UNCHANGED <<accessToken, me, refreshing, serverVars, expired, historyVars>>

(* submit of the login and the signup page. *)
Submit ==
    /\ page = "login" /\ flow = "idle"
    /\ \A t \in 1..issued : owner[t] < MaxSessions
    /\ flow' = "login"
    /\ ended' = FALSE
    /\ excused' = FALSE
    /\ UNCHANGED <<clientVars, refreshing, req, logout, serverVars, expired, letdown, stuck, meddled>>

LoggedIn ==
    /\ flow = "login"
    /\ \E s \in Sessions : (\A t \in 1..issued : owner[t] < s) /\ s # cookie /\ Issue(s)
    /\ LoadMe
    /\ UNCHANGED <<me, page, refreshing, logout, expired, historyVars>>

NotLoggedIn ==
    /\ flow = "login"
    /\ FlowFails(req)
    /\ UNCHANGED <<accessToken, me, refreshing, serverVars, expired, historyVars>>

(* handleLogout of the main layout: the page changes at once. *)
Logout ==
    /\ page = "app"
    /\ page' = "login"
    /\ logout' = TRUE
    /\ UNCHANGED <<accessToken, me, refreshing, req, flow, serverVars, expired, historyVars>>

(* A mutant of LoggedOut: only the profile is cleared. *)
LoggedOutProfileOnly(ok) ==
    /\ logout
    /\ logout' = FALSE
    /\ me' = None
    /\ cookie' = IF ok THEN None ELSE cookie
    /\ ended' = TRUE
    /\ excused' = (~ok \/ Leaders # {} \/ flow # "idle")
    /\ UNCHANGED <<accessToken, page, refreshing, req, flow, owner, issued, expired, letdown, stuck, meddled>>

(* The answer to /auth/logout, which is never rejected: state is cleared   *)
(* whether it succeeds, and takes the cookie away, or fails.               *)
LoggedOut(ok) ==
    /\ logout
    /\ logout' = FALSE
    /\ accessToken' = None
    /\ me' = None
    /\ cookie' = IF ok THEN None ELSE cookie
    /\ ended' = TRUE
    /\ excused' = (~ok \/ Leaders # {} \/ flow # "idle")
    /\ UNCHANGED <<page, refreshing, req, flow, owner, issued, expired, letdown, stuck, meddled>>

-------------------------------------------------------------------------------
(* A page asks for something, with the token there is. *)
Ask(i) ==
    /\ page = "app"
    /\ req[i].at = "new"
    /\ req' = [req EXCEPT ![i] = SentWith(accessToken)]
    /\ UNCHANGED <<clientVars, refreshing, flow, logout, serverVars, expired, historyVars>>

(* A mutant of Rejected: the flag is not raised. *)
RejectedUnflagged(i) ==
    /\ req[i].at = "sent"
    /\ ~Good(req[i].token)
    /\ i <= SessionMe
    /\ req' = [req EXCEPT ![i].at = "refreshing", ![i].cookie = cookie]
    /\ UNCHANGED <<clientVars, refreshing, flow, logout, serverVars, expired, historyVars>>

(* 401: the first to come renews the token, the others wait for it.  The   *)
(* interceptor looks at an answer once: a retry is not renewed again.      *)
(* Bound: the /auth/me of a renewal does not renew in its turn.            *)
Rejected(i) ==
    /\ req[i].at = "sent"
    /\ ~Good(req[i].token)
    /\ IF refreshing
       THEN /\ req' = [req EXCEPT ![i].at = "waiting"]
            /\ UNCHANGED <<refreshing, letdown>>
       ELSE /\ i <= SessionMe
            /\ refreshing' = TRUE
            /\ req' = [req EXCEPT ![i].at = "refreshing", ![i].cookie = cookie]
            /\ letdown' = {}
    /\ UNCHANGED <<clientVars, flow, logout, serverVars, expired, stuck, meddled, ended, excused>>

(* The answer to /auth/refresh: the token is kept for the retries, and the *)
(* profile is asked for before anybody is released.                        *)
Refreshed(i) ==
    /\ req[i].at = "refreshing"
    /\ req[i].cookie # None
    /\ Issue(req[i].cookie)
    /\ req' = [req EXCEPT ![i].at = "loading", ![i].fresh = issued + 1,
                          ![MeOf(i)] = SentWith(issued + 1)]
    /\ UNCHANGED <<me, page, refreshing, flow, logout, expired, historyVars>>

(* Whoever waits when the last renewal ends in vain. *)
WaitInVain(i) == IF Leaders = {i} THEN At({"waiting"}) ELSE letdown

(* Mutants of LeaderFails: the flag stays up; refreshSubject is told, and  *)
(* releases those that wait.                                               *)
LeaderFailsFlagged(i, requests) ==
    /\ accessToken' = None
    /\ me' = None
    /\ letdown' = WaitInVain(i)
    /\ IF i = SessionMe THEN FlowFails(requests)
       ELSE req' = requests /\ page' = "login" /\ UNCHANGED <<flow, logout>>
    /\ UNCHANGED <<refreshing, serverVars, expired, stuck, meddled, ended, excused>>

LeaderFailsReleasing(i, requests) ==
    LET all == [r \in Requests |-> IF requests[r].at = "waiting"
                                   THEN [requests[r] EXCEPT !.at = "retried"] ELSE requests[r]]
    IN  /\ refreshing' = FALSE
        /\ accessToken' = None
        /\ me' = None
        /\ letdown' = WaitInVain(i)
        /\ stuck' = FALSE
        /\ meddled' = (meddled \/ (req[i].at = "leading" /\ Leaders # {}))
        /\ IF i = SessionMe THEN FlowFails(all)
           ELSE req' = all /\ page' = "login" /\ UNCHANGED <<flow, logout>>
        /\ UNCHANGED <<serverVars, expired, ended, excused>>

(* The catchError around a renewal, the profile and the leader's retry. *)
LeaderFails(i, requests) ==
    /\ refreshing' = FALSE
    /\ accessToken' = None
    /\ me' = None
    /\ letdown' = WaitInVain(i)
    /\ stuck' = FALSE
    /\ meddled' = (meddled \/ (req[i].at = "leading" /\ Leaders # {}))
    /\ IF i = SessionMe THEN FlowFails(requests)
       ELSE req' = requests /\ page' = "login" /\ UNCHANGED <<flow, logout>>
    /\ UNCHANGED <<serverVars, expired, ended, excused>>

NotRefreshed(i) ==
    /\ req[i].at = "refreshing"
    /\ LeaderFails(i, [req EXCEPT ![i].at = "failed"])

Carried(i) == IF req[i].at = "sent" THEN req[i].token ELSE req[i].fresh

(* A page has its answer. *)
Answered(i) ==
    /\ req[i].at \in {"sent", "retried", "leading"}
    /\ Good(Carried(i))
    /\ req' = [req EXCEPT ![i].at = "ok"]
    /\ UNCHANGED <<clientVars, refreshing, flow, logout, serverVars, expired, historyVars>>

(* The session flow has its profile, and goes to the application. *)
ProfileLoaded ==
    /\ req[SessionMe].at \in {"sent", "retried", "leading"}
    /\ Good(Carried(SessionMe))
    /\ req' = [req EXCEPT ![SessionMe].at = "ok"]
    /\ me' = owner[Carried(SessionMe)]
    /\ flow' = "idle"
    /\ page' = "app"
    /\ UNCHANGED <<accessToken, refreshing, logout, serverVars, expired, historyVars>>

(* A mutant of Release: refreshSubject is not told. *)
ReleaseLeaderOnly(i) ==
    /\ req[i].at = "loading"
    /\ req[MeOf(i)].at \in {"sent", "retried"}
    /\ Good(Carried(MeOf(i)))
    /\ me' = owner[Carried(MeOf(i))]
    /\ refreshing' = FALSE
    /\ stuck' = FALSE
    /\ req' = [req EXCEPT ![i].at = "leading", ![MeOf(i)].at = "ok"]
    /\ UNCHANGED <<accessToken, page, flow, logout, serverVars, expired, letdown, meddled, ended, excused>>

(* A renewal has its profile: the flag, everybody who waits, the retry of  *)
(* the leader.                                                             *)
Release(i) ==
    /\ req[i].at = "loading"
    /\ req[MeOf(i)].at \in {"sent", "retried"}
    /\ Good(Carried(MeOf(i)))
    /\ me' = owner[Carried(MeOf(i))]
    /\ refreshing' = FALSE
    /\ stuck' = FALSE
    /\ req' = [r \in Requests |->
                 CASE r = i       -> [req[r] EXCEPT !.at = "leading"]
                   [] r = MeOf(i) -> [req[r] EXCEPT !.at = "ok"]
                   [] r # i /\ r # MeOf(i) /\ req[r].at = "waiting" ->
                         [req[r] EXCEPT !.at = "retried", !.fresh = req[i].fresh]
                   [] OTHER       -> req[r]]
    /\ UNCHANGED <<accessToken, page, flow, logout, serverVars, expired, letdown, meddled, ended, excused>>

(* Any other error, and 401 to a retry: of a page, the session's profile,  *)
(* the profile of a renewal.                                               *)
PageFails(i) ==
    /\ req[i].at \in {"sent", "retried"}
    /\ req' = [req EXCEPT ![i].at = "failed"]
    /\ UNCHANGED <<clientVars, refreshing, flow, logout, serverVars, expired, historyVars>>

RetryOfLeaderFails(i) ==
    /\ req[i].at = "leading"
    /\ LeaderFails(i, [req EXCEPT ![i].at = "failed"])

ProfileFails ==
    /\ req[SessionMe].at \in {"sent", "retried"}
    /\ me' = None
    /\ FlowFails([req EXCEPT ![SessionMe].at = "failed"])
    /\ UNCHANGED <<accessToken, refreshing, serverVars, expired, historyVars>>

RenewalFails(i) ==
    /\ req[i].at = "loading"
    /\ req[MeOf(i)].at \in {"sent", "retried"}
    /\ LeaderFails(i, [req EXCEPT ![i].at = "failed", ![MeOf(i)].at = "failed"])

(* A page that is left, or whose effect runs again, unsubscribes.  What    *)
(* the operators wait for is torn down, the /auth/me of a renewal with it; *)
(* nothing lowers the flag or tells those that wait.  The backend may have *)
(* handled the refresh by then.                                            *)
Unsubscribe(i) ==
    /\ req[i].at \in {"sent", "waiting", "refreshing", "loading", "retried", "leading"}
    /\ req' = IF req[i].at = "loading"
              THEN [req EXCEPT ![i].at = "failed", ![MeOf(i)].at = "failed"]
              ELSE [req EXCEPT ![i].at = "failed"]
    /\ \/ UNCHANGED cookie
       \/ req[i].at = "refreshing" /\ req[i].cookie # None /\ cookie' = req[i].cookie
    /\ letdown' = WaitInVain(i)
    /\ stuck' = (stuck \/ (refreshing /\ i \in Leaders))
    /\ UNCHANGED <<clientVars, refreshing, flow, logout, owner, issued, expired, meddled, ended, excused>>

-------------------------------------------------------------------------------
Next ==
    \/ Expire
    \/ Restored \/ NotRestored
    \/ Submit
    \/ LoggedIn \/ NotLoggedIn
    \/ Logout
    \/ \E ok \in BOOLEAN : LoggedOut(ok)
    \/ \E i \in Pages : Ask(i) \/ Answered(i) \/ PageFails(i) \/ Unsubscribe(i)
    \/ ProfileLoaded \/ ProfileFails
    \/ \E i \in Requests : Rejected(i)
    \/ \E i \in Pages \cup {SessionMe} :
          Refreshed(i) \/ NotRefreshed(i) \/ Release(i) \/ RenewalFails(i) \/ RetryOfLeaderFails(i)

(* Every request has an answer in the end. *)
Fairness ==
    /\ WF_vars(Restored \/ NotRestored)
    /\ WF_vars(LoggedIn \/ NotLoggedIn)
    /\ WF_vars(\E ok \in BOOLEAN : LoggedOut(ok))
    /\ WF_vars(ProfileLoaded \/ ProfileFails \/ Rejected(SessionMe) \/ RetryOfLeaderFails(SessionMe))
    /\ \A i \in Pages :
          WF_vars(Answered(i) \/ PageFails(i) \/ Rejected(i) \/ RetryOfLeaderFails(i))
    /\ \A i \in Pages \cup {SessionMe} :
          /\ WF_vars(Refreshed(i) \/ NotRefreshed(i))
          /\ WF_vars(Release(i) \/ RenewalFails(i) \/ Rejected(MeOf(i)))

Spec == Init /\ [][Next]_vars /\ Fairness

-------------------------------------------------------------------------------
(* The flag is up only while a request renews the token, or since one that *)
(* did was given up; a renewal that loads the profile has sent the request *)
(* for it.  Code: refreshing, refreshSubject and the fields of             *)
(* AuthService.                                                            *)
TypeOK ==
    /\ accessToken \in 0..issued
    /\ me \in Sessions \cup {None}
    /\ refreshing \in BOOLEAN
    /\ req \in [Requests -> Request]
    /\ page \in {"start", "login", "app"}
    /\ flow \in {"restore", "restoreMe", "login", "loginMe", "idle"}
    /\ cookie \in Sessions \cup {None}
    /\ issued \in 0..MaxTokens
    /\ expired \in 0..issued
    /\ letdown \subseteq Requests
    /\ refreshing => Leaders # {} \/ stuck
    /\ stuck => refreshing
    /\ \A i \in Leaders : req[i].at = "loading" => req[MeOf(i)].at \in {"sent", "waiting", "retried"}

(* One renewal at a time, until the retry of an earlier renewal fails      *)
(* while one runs and resets its flag.  Code: refreshing.                  *)
OneRenewal == ~meddled => Cardinality(Leaders) <= 1

(* After a logout there is no access token until somebody logs in, unless  *)
(* the backend failed to log out or a login or renewal was running: "so    *)
(* user is logged out".  Code: logout and clear, the renewal of requests   *)
(* that are rejected after a logout.                                       *)
LoggedOutStaysOut == ended /\ ~excused => accessToken = None

(* Whoever waits while the token is renewed is released, or gives up,      *)
(* unless every renewal that runs ends in vain, by a failure or because    *)
(* its page is left, or its /auth/me is rejected and waits for itself.     *)
(* That holds again of the next renewal for those that still wait.  Code:  *)
(* refreshSubject, which is told of success only.                          *)
WaitersReleased ==
    \A i \in Requests :
        req[i].at = "waiting" /\ Leaders # {}
            ~> (req[i].at # "waiting" \/ i \in letdown \/ \E j \in Leaders : req[MeOf(j)].at = "waiting")

(* The interceptor is a group renewal. *)
Renewal == INSTANCE GroupRenewal WITH
               busy     <- refreshing,
               renewing <- Leaders,
               waiting  <- At({"waiting"}),
               released <- At({"retried", "leading"})

(* Every step of the interceptor is a step of the group renewal: waiters   *)
(* are released together and by a success, and the flag alone decides who  *)
(* waits; only giving up a renewal leaves it raised.  Code: the two        *)
(* branches of catchError in jwtInterceptor.                               *)
RenewsAsAGroup == Renewal!Spec
================================================================================
