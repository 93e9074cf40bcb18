--------------------------- MODULE TokenRefreshProofs ---------------------------
(***************************************************************************)
(* The invariants of TokenRefresh, and that it implements GroupRenewal,    *)
(* for any number of requests, tokens and sessions.                        *)
(*                                                                         *)
(* A step moves one request, or one renewal with its /auth/me and whoever  *)
(* waits.  What makes that a step of GroupRenewal, and what keeps one      *)
(* renewal at a time, is that the /auth/me of a renewal is there only      *)
(* while the renewal loads the profile (ProfilesOfRenewals), and that of   *)
(* the session only during its flow (SessionAtRest); and that the flag is  *)
(* up whenever there is a renewal, until a failed retry meddles with it,   *)
(* and stays up when the renewal is given up (FlagGuards).  After a logout *)
(* nothing is on its way that could bring a token (NothingBringsTokens).   *)
(***************************************************************************)
EXTENDS TokenRefresh, FiniteSetTheorems, TLAPS

(* Who may renew the token. *)
Principals == Pages \cup {SessionMe}

(* A request that is not under way, and one that waits for an answer. *)
AtRest(i) == req[i].at \in {"new", "ok", "failed"}

UnderWay(i) == req[i].at \in {"sent", "waiting", "retried"}

(* The types of all variables but req; Flags are for the prover that knows *)
(* Boolean variables.                                                      *)
Scalars ==
    /\ accessToken \in 0..issued
    /\ me \in Sessions \cup {None}
    /\ page \in {"start", "login", "app"}
    /\ flow \in {"restore", "restoreMe", "login", "loginMe", "idle"}
    /\ cookie \in Sessions \cup {None}
    /\ owner \in [Tokens -> Sessions]
    /\ issued \in 0..MaxTokens
    /\ expired \in 0..issued
    /\ letdown \subseteq Requests

Flags ==
    /\ refreshing \in BOOLEAN
    /\ logout \in BOOLEAN
    /\ stuck \in BOOLEAN
    /\ meddled \in BOOLEAN
    /\ ended \in BOOLEAN
    /\ excused \in BOOLEAN

(* Only a page's request or the session's renews a token. *)
LeadersArePrincipals ==
    \A i \in Requests : req[i].at \in {"refreshing", "loading", "leading"} => i \in Principals

(* The /auth/me of a renewal is under way while the renewal loads the      *)
(* profile, and only then.                                                 *)
ProfilesOfRenewals ==
    \A i \in Principals :
        IF req[i].at = "loading" THEN UnderWay(MeOf(i)) ELSE AtRest(MeOf(i))

(* The session's /auth/me is there while its flow waits for it. *)
SessionAtRest ==
    flow \notin {"restoreMe", "loginMe"} => AtRest(SessionMe)

(* The flag means a renewal that runs or was given up.  Until a failed     *)
(* retry has reset it, it is up during every renewal, and there is only    *)
(* one.                                                                    *)
FlagGuards ==
    /\ refreshing => Leaders # {} \/ stuck
    /\ stuck => refreshing
    /\ ~meddled => /\ Leaders # {} => refreshing
                   /\ \A i, j \in Leaders : i = j

(* After a logout that nothing excuses there is no token, and nothing on   *)
(* its way brings one: no flow, and no renewal that has a cookie.          *)
NothingBringsTokens ==
    ended /\ ~excused =>
        /\ accessToken = None
        /\ cookie = None
        /\ flow = "idle"
        /\ \A i \in Requests : req[i].at = "refreshing" => req[i].cookie = None

IInv ==
    /\ Scalars
    /\ Flags
    /\ req \in [Requests -> Request]
    /\ LeadersArePrincipals
    /\ ProfilesOfRenewals
    /\ SessionAtRest
    /\ FlagGuards
    /\ NothingBringsTokens

-------------------------------------------------------------------------------
(* The numbers of the requests. *)
LEMMA Numbers ==
    /\ SessionMe \in Principals /\ Pages \subseteq Principals
    /\ Principals \subseteq Requests
    /\ \A i \in Principals : MeOf(i) \in Requests /\ MeOf(i) \notin Principals
    /\ \A i, j \in Principals : MeOf(i) = MeOf(j) => i = j
    /\ \A i \in Requests : i <= SessionMe <=> i \in Principals
BY RefreshAssumption DEF Principals, Pages, SessionMe, MeOf, Requests

LEMMA IInvImpliesTypeOK == IInv => TypeOK
<1> SUFFICES ASSUME IInv PROVE TypeOK
  OBVIOUS
<1>1. \A i \in Leaders : req[i].at = "loading" => req[MeOf(i)].at \in {"sent", "waiting", "retried"}
  BY DEF IInv, Leaders, At, LeadersArePrincipals, ProfilesOfRenewals, UnderWay
<1>2. refreshing \in BOOLEAN /\ (refreshing => Leaders # {} \/ stuck) /\ (stuck => refreshing)
  BY Zenon DEF IInv, Flags, FlagGuards
<1>3. /\ accessToken \in 0..issued
      /\ me \in Sessions \cup {None}
      /\ req \in [Requests -> Request]
      /\ page \in {"start", "login", "app"}
      /\ flow \in {"restore", "restoreMe", "login", "loginMe", "idle"}
      /\ cookie \in Sessions \cup {None}
      /\ issued \in 0..MaxTokens
      /\ expired \in 0..issued
      /\ letdown \subseteq Requests
  BY Zenon DEF IInv, Scalars
<1> QED
  BY <1>1, <1>2, <1>3, Zenon DEF TypeOK

LEMMA InitIInv == Init => IInv
<1> SUFFICES ASSUME Init PROVE IInv
  OBVIOUS
<1>1. /\ req \in [Requests -> Request]
      /\ \A i \in Requests : req[i].at = "new"
  BY DEF Init, Unsent, Request, None
<1>2. Scalars
  BY RefreshAssumption DEF Init, Scalars, None, Sessions, Tokens
<1>3. Flags
  BY Zenon DEF Init, Flags
<1>4. LeadersArePrincipals /\ Leaders = {}
  BY <1>1 DEF LeadersArePrincipals, Leaders, At
<1>5. FlagGuards
  BY <1>4, Zenon DEF Init, FlagGuards
<1>6. ProfilesOfRenewals /\ SessionAtRest
  BY <1>1, Numbers DEF ProfilesOfRenewals, SessionAtRest, AtRest, UnderWay
<1>7. NothingBringsTokens
  BY Zenon DEF Init, NothingBringsTokens
<1> QED
  BY <1>1, <1>2, <1>3, <1>4, <1>5, <1>6, <1>7 DEF IInv

-------------------------------------------------------------------------------
(* One request goes on, and nothing else of req changes. *)
Moves(i, at) ==
    /\ req' \in [Requests -> Request]
    /\ req'[i].at = at
    /\ \A r \in Requests \ {i} : req'[r] = req[r]

LEMMA MovesOne ==
    ASSUME NEW i \in Requests, req \in [Requests -> Request],
           NEW a \in {"new", "sent", "waiting", "refreshing", "loading", "retried", "leading", "ok", "failed"},
           req' = [req EXCEPT ![i].at = a]
    PROVE  Moves(i, a)
<1> DEFINE q == [at |-> a, token |-> req[i].token, fresh |-> req[i].fresh, cookie |-> req[i].cookie]
<1>1. req[i] \in Request
  OBVIOUS
<1>2. q \in Request
  BY <1>1 DEF Request
<1>3. [req[i] EXCEPT !.at = a] = q
  BY <1>1 DEF Request
<1>4. req' = [req EXCEPT ![i] = q]
  BY <1>3
<1>5. q.at = a
  OBVIOUS
<1> HIDE DEF q
<1> QED
  BY <1>2, <1>4, <1>5 DEF Moves

(* What a step of a page's or the session's request leaves as it was, when *)
(* it neither begins nor ends a renewal.                                   *)
LEMMA PrincipalMoves ==
    ASSUME IInv, NEW i \in Principals, NEW a, Moves(i, a),
           req[i].at \notin {"refreshing", "loading"}, a \notin {"refreshing", "loading"}
    PROVE  /\ req' \in [Requests -> Request]
           /\ Leaders' = Leaders
           /\ LeadersArePrincipals'
           /\ ProfilesOfRenewals'
           /\ \A r \in Requests : req'[r].at = "refreshing" => req[r].at = "refreshing" /\ req'[r].cookie = req[r].cookie
<1>1. req' \in [Requests -> Request] /\ Leaders' = Leaders /\ LeadersArePrincipals'
  BY Numbers DEF Moves, Leaders, At, IInv, LeadersArePrincipals
<1>2. ProfilesOfRenewals'
  BY Numbers DEF Moves, IInv, ProfilesOfRenewals, UnderWay, AtRest
<1> QED
  BY <1>1, <1>2 DEF Moves

-------------------------------------------------------------------------------
(* Steps that leave the requests alone. *)

LEMMA SameRequests ==
    ASSUME IInv, req' = req, UNCHANGED refreshing
    PROVE  /\ req' \in [Requests -> Request]
           /\ Leaders' = Leaders
           /\ LeadersArePrincipals'
           /\ ProfilesOfRenewals'
           /\ UNCHANGED Renewal!vars
BY DEF IInv, Leaders, At, LeadersArePrincipals, ProfilesOfRenewals, UnderWay, AtRest, Renewal!vars

LEMMA ExpireStep ==
    ASSUME IInv, Expire
    PROVE  IInv' /\ UNCHANGED Renewal!vars
<1>1. /\ expired < issued /\ expired' = expired + 1
      /\ UNCHANGED <<accessToken, me, page, refreshing, req, flow, logout, cookie, owner, issued,
                     letdown, stuck, meddled, ended, excused>>
  BY DEF Expire, clientVars, serverVars, historyVars
<1>2. Scalars'
  BY <1>1, RefreshAssumption DEF IInv, Scalars
<1>3. Flags'
  BY <1>1 DEF IInv, Flags
<1>4. SessionAtRest' /\ NothingBringsTokens'
  BY <1>1 DEF IInv, SessionAtRest, AtRest, NothingBringsTokens
<1>5. FlagGuards'
  BY <1>1, SameRequests, Zenon DEF IInv, FlagGuards
<1> QED
  BY <1>1, <1>2, <1>3, <1>4, <1>5, SameRequests DEF IInv

LEMMA SubmitStep ==
    ASSUME IInv, Submit
    PROVE  IInv' /\ UNCHANGED Renewal!vars
<1>1. /\ flow = "idle" /\ flow' = "login" /\ ended' = FALSE /\ excused' = FALSE
      /\ UNCHANGED <<accessToken, me, page, refreshing, req, logout, cookie, owner, issued,
                     expired, letdown, stuck, meddled>>
  BY DEF Submit, clientVars, serverVars
<1>2. Scalars'
  BY <1>1 DEF IInv, Scalars
<1>3. Flags' /\ NothingBringsTokens'
  BY <1>1, Zenon DEF IInv, Flags, NothingBringsTokens
<1>4. SessionAtRest'
  BY <1>1 DEF IInv, SessionAtRest, AtRest
<1>5. FlagGuards'
  BY <1>1, SameRequests, Zenon DEF IInv, FlagGuards
<1> QED
  BY <1>1, <1>2, <1>3, <1>4, <1>5, SameRequests DEF IInv

LEMMA LogoutStep ==
    ASSUME IInv, Logout
    PROVE  IInv' /\ UNCHANGED Renewal!vars
<1>1. /\ page' = "login" /\ logout' = TRUE
      /\ UNCHANGED <<accessToken, me, refreshing, req, flow, cookie, owner, issued,
                     expired, letdown, stuck, meddled, ended, excused>>
  BY DEF Logout, serverVars, historyVars
<1>2. Scalars'
  BY <1>1 DEF IInv, Scalars
<1>3. Flags'
  BY <1>1, Zenon DEF IInv, Flags
<1>4. SessionAtRest' /\ NothingBringsTokens'
  BY <1>1 DEF IInv, SessionAtRest, AtRest, NothingBringsTokens
<1>5. FlagGuards'
  BY <1>1, SameRequests, Zenon DEF IInv, FlagGuards
<1> QED
  BY <1>1, <1>2, <1>3, <1>4, <1>5, SameRequests DEF IInv

LEMMA LoggedOutStep ==
    ASSUME IInv, NEW ok \in BOOLEAN, LoggedOut(ok)
    PROVE  IInv' /\ UNCHANGED Renewal!vars
<1>1. /\ logout' = FALSE /\ accessToken' = None /\ me' = None
      /\ cookie' = IF ok THEN None ELSE cookie
      /\ ended' = TRUE
      /\ excused' = (~ok \/ Leaders # {} \/ flow # "idle")
      /\ UNCHANGED <<page, refreshing, req, flow, owner, issued, expired, letdown, stuck, meddled>>
  BY DEF LoggedOut
<1>2. Scalars'
  BY <1>1 DEF IInv, Scalars, None
<1>3. Flags'
  BY <1>1, Zenon DEF IInv, Flags
<1>4. SessionAtRest'
  BY <1>1 DEF IInv, SessionAtRest, AtRest
<1>5. NothingBringsTokens'
  <2>1. SUFFICES ASSUME ok, Leaders = {}, flow = "idle"
                 PROVE  NothingBringsTokens'
    BY <1>1, Zenon DEF NothingBringsTokens
  <2>2. \A i \in Requests : req'[i].at # "refreshing"
    BY <1>1, <2>1 DEF Leaders, At
  <2>3. accessToken' = None /\ cookie' = None /\ flow' = "idle"
    BY <1>1, <2>1
  <2> QED
    BY <2>2, <2>3, Zenon DEF NothingBringsTokens
<1>6. FlagGuards'
  BY <1>1, SameRequests, Zenon DEF IInv, FlagGuards
<1> QED
  BY <1>1, <1>2, <1>3, <1>4, <1>5, <1>6, SameRequests DEF IInv

LEMMA NoTokensStep ==
    ASSUME IInv, NotRestored \/ NotLoggedIn
    PROVE  IInv' /\ UNCHANGED Renewal!vars
<1>1. /\ flow \in {"restore", "login"} /\ flow' = "idle" /\ page' = "login"
      /\ logout' = (logout \/ flow \in {"restore", "restoreMe"})
      /\ UNCHANGED <<accessToken, me, refreshing, req, cookie, owner, issued, expired,
                     letdown, stuck, meddled, ended, excused>>
  BY DEF NotRestored, NotLoggedIn, FlowFails, serverVars, historyVars
<1>2. Scalars'
  BY <1>1 DEF IInv, Scalars
<1>3. Flags'
  BY <1>1, Zenon DEF IInv, Flags
<1>4. SessionAtRest' /\ NothingBringsTokens'
  BY <1>1 DEF IInv, SessionAtRest, AtRest, NothingBringsTokens
<1>5. FlagGuards'
  BY <1>1, SameRequests, Zenon DEF IInv, FlagGuards
<1> QED
  BY <1>1, <1>2, <1>3, <1>4, <1>5, SameRequests DEF IInv

-------------------------------------------------------------------------------
(* Steps of one request that neither begin nor end a renewal. *)

LEMMA SentWithRecord ==
    ASSUME NEW t
    PROVE  SentWith(t) = [at |-> "sent", token |-> t, fresh |-> None, cookie |-> None]
<1> DEFINE q == [Unsent EXCEPT !.at = "sent"]
<1>1. q = [at |-> "sent", token |-> None, fresh |-> None, cookie |-> None]
  BY DEF Unsent
<1>2. SentWith(t) = [q EXCEPT !.token = t]
  BY DEF SentWith
<1> QED
  BY <1>1, <1>2

LEMMA Sent ==
    ASSUME NEW i \in Requests, NEW t \in Tokens \cup {None}, req \in [Requests -> Request],
           req' = [req EXCEPT ![i] = SentWith(t)]
    PROVE  Moves(i, "sent")
<1>1. SentWith(t) = [at |-> "sent", token |-> t, fresh |-> None, cookie |-> None]
  BY SentWithRecord
<1>2. SentWith(t) \in Request /\ SentWith(t).at = "sent"
  BY <1>1 DEF Request
<1> QED
  BY <1>2 DEF Moves

(* What a step keeps that lets a request go on and changes nothing that    *)
(* renewals depend on.                                                     *)
LEMMA QuietMove ==
    ASSUME IInv, NEW i \in Principals, NEW a, Moves(i, a),
           req[i].at \notin {"refreshing", "loading"}, a \notin {"refreshing", "loading"},
           UNCHANGED <<refreshing, stuck, meddled, ended, excused>>,
           ended /\ ~excused => UNCHANGED <<accessToken, cookie>> /\ flow' \in {flow, "idle"}
    PROVE  FlagGuards' /\ NothingBringsTokens'
<1>1. FlagGuards'
  <2>1. Leaders' = Leaders
    BY PrincipalMoves
  <2> QED
    BY <2>1, Zenon DEF IInv, FlagGuards
<1>2. NothingBringsTokens'
  <2>1. SUFFICES ASSUME ended, ~excused
                 PROVE  /\ accessToken' = None /\ cookie' = None /\ flow' = "idle"
                        /\ \A r \in Requests : req'[r].at = "refreshing" => req'[r].cookie = None
    BY Zenon DEF NothingBringsTokens
  <2>2. /\ accessToken = None /\ cookie = None /\ flow = "idle"
        /\ \A r \in Requests : req[r].at = "refreshing" => req[r].cookie = None
    BY <2>1, Zenon DEF IInv, NothingBringsTokens
  <2>3. accessToken' = None /\ cookie' = None /\ flow' = "idle"
    BY <2>1, <2>2
  <2>4. \A r \in Requests : req'[r].at = "refreshing" => req[r].at = "refreshing" /\ req'[r].cookie = req[r].cookie
    BY PrincipalMoves
  <2> QED
    BY <2>2, <2>3, <2>4
<1> QED
  BY <1>1, <1>2

(* It is nothing to the group, or the end of what was sent once more. *)
LEMMA MoveMaps ==
    ASSUME NEW i \in Requests, req \in [Requests -> Request], NEW a, Moves(i, a),
           req[i].at \in {"new", "ok", "failed", "sent", "retried", "leading"},
           a \in {"sent", "ok", "failed"},
           UNCHANGED refreshing
    PROVE  Renewal!Next \/ UNCHANGED Renewal!vars
<1>1. CASE req[i].at \in {"retried", "leading"}
  <2>1. /\ i \in At({"retried", "leading"})
        /\ At({"retried", "leading"})' = At({"retried", "leading"}) \ {i}
        /\ Leaders' = Leaders
        /\ At({"waiting"})' = At({"waiting"})
    BY <1>1 DEF Moves, At, Leaders
  <2>2. Renewal!Settle(i)
    BY <2>1 DEF Renewal!Settle
  <2> QED
    BY <2>2 DEF Renewal!Next
<1>2. CASE req[i].at \notin {"retried", "leading"}
  <2>1. /\ At({"retried", "leading"})' = At({"retried", "leading"})
        /\ Leaders' = Leaders
        /\ At({"waiting"})' = At({"waiting"})
    BY <1>2 DEF Moves, At, Leaders
  <2> QED
    BY <2>1 DEF Renewal!vars
<1> QED
  BY <1>1, <1>2

LEMMA AskStep ==
    ASSUME IInv, NEW i \in Pages, Ask(i)
    PROVE  IInv' /\ (Renewal!Next \/ UNCHANGED Renewal!vars)
<1>1. /\ req[i].at = "new" /\ req' = [req EXCEPT ![i] = SentWith(accessToken)]
      /\ UNCHANGED <<accessToken, me, page, refreshing, flow, logout, cookie, owner, issued, expired,
                     letdown, stuck, meddled, ended, excused>>
  BY DEF Ask, clientVars, serverVars, historyVars
<1>2. i \in Principals /\ i \in Requests /\ i # SessionMe /\ SessionMe \in Requests
  BY Numbers, RefreshAssumption DEF Pages, SessionMe
<1>3. Moves(i, "sent")
  <2>1. accessToken \in Tokens \cup {None} /\ req \in [Requests -> Request]
    BY RefreshAssumption DEF IInv, Scalars, Tokens, None
  <2> QED
    BY <1>1, <1>2, <2>1, Sent
<1>4. Scalars' /\ Flags'
  BY <1>1 DEF IInv, Scalars, Flags
<1>5. SessionAtRest'
  BY <1>1, <1>2, <1>3 DEF IInv, SessionAtRest, AtRest, Moves
<1>6. FlagGuards' /\ NothingBringsTokens'
  BY <1>1, <1>2, <1>3, QuietMove
<1>7. req' \in [Requests -> Request] /\ LeadersArePrincipals' /\ ProfilesOfRenewals'
  BY <1>1, <1>2, <1>3, PrincipalMoves
<1>8. Renewal!Next \/ UNCHANGED Renewal!vars
  BY <1>1, <1>2, <1>3, MoveMaps DEF IInv
<1> QED
  BY <1>4, <1>5, <1>6, <1>7, <1>8 DEF IInv

(* The answer to a page: the same for success and failure. *)
LEMMA AnswerStep ==
    ASSUME IInv, NEW i \in Pages, Answered(i) \/ PageFails(i)
    PROVE  IInv' /\ (Renewal!Next \/ UNCHANGED Renewal!vars)
<1>1. PICK a \in {"ok", "failed"} :
        /\ req[i].at \in {"sent", "retried", "leading"} /\ req' = [req EXCEPT ![i].at = a]
        /\ UNCHANGED <<accessToken, me, page, refreshing, flow, logout, cookie, owner, issued, expired,
                       letdown, stuck, meddled, ended, excused>>
  BY DEF Answered, PageFails, clientVars, serverVars, historyVars
<1>2. i \in Principals /\ i \in Requests /\ i # SessionMe /\ SessionMe \in Requests
  BY Numbers, RefreshAssumption DEF Pages, SessionMe
<1>3. Moves(i, a)
  BY <1>1, <1>2, MovesOne DEF IInv
<1>4. Scalars' /\ Flags'
  BY <1>1 DEF IInv, Scalars, Flags
<1>5. SessionAtRest'
  BY <1>1, <1>2, <1>3 DEF IInv, SessionAtRest, AtRest, Moves
<1>6. FlagGuards' /\ NothingBringsTokens'
  BY <1>1, <1>2, <1>3, QuietMove
<1>7. req' \in [Requests -> Request] /\ LeadersArePrincipals' /\ ProfilesOfRenewals'
  BY <1>1, <1>2, <1>3, PrincipalMoves
<1>8. Renewal!Next \/ UNCHANGED Renewal!vars
  BY <1>1, <1>2, <1>3, MoveMaps DEF IInv
<1> QED
  BY <1>4, <1>5, <1>6, <1>7, <1>8 DEF IInv

(* The session's profile arrives. *)
LEMMA ProfileLoadedStep ==
    ASSUME IInv, ProfileLoaded
    PROVE  IInv' /\ (Renewal!Next \/ UNCHANGED Renewal!vars)
<1>1. /\ req[SessionMe].at \in {"sent", "retried", "leading"}
      /\ Good(Carried(SessionMe))
      /\ req' = [req EXCEPT ![SessionMe].at = "ok"]
      /\ me' = owner[Carried(SessionMe)] /\ flow' = "idle" /\ page' = "app"
      /\ UNCHANGED <<accessToken, refreshing, logout, cookie, owner, issued, expired,
                     letdown, stuck, meddled, ended, excused>>
  BY DEF ProfileLoaded, serverVars, historyVars
<1>2. SessionMe \in Principals /\ SessionMe \in Requests
  BY Numbers
<1>3. Moves(SessionMe, "ok")
  BY <1>1, <1>2, MovesOne DEF IInv
<1>4. Carried(SessionMe) \in Tokens
  <2>1. req[SessionMe] \in Request
    BY <1>2 DEF IInv
  <2> QED
    BY <1>1, <2>1 DEF Good, Carried, Request
<1>5. Scalars'
  BY <1>1, <1>4 DEF IInv, Scalars
<1>6. Flags'
  BY <1>1 DEF IInv, Flags
<1>7. SessionAtRest'
  BY <1>3 DEF SessionAtRest, AtRest, Moves
<1>8. FlagGuards' /\ NothingBringsTokens'
  BY <1>1, <1>2, <1>3, QuietMove
<1>9. req' \in [Requests -> Request] /\ LeadersArePrincipals' /\ ProfilesOfRenewals'
  BY <1>1, <1>2, <1>3, PrincipalMoves
<1>10. Renewal!Next \/ UNCHANGED Renewal!vars
  BY <1>1, <1>2, <1>3, MoveMaps DEF IInv
<1> QED
  BY <1>5, <1>6, <1>7, <1>8, <1>9, <1>10 DEF IInv

LEMMA ProfileFailsStep ==
    ASSUME IInv, ProfileFails
    PROVE  IInv' /\ (Renewal!Next \/ UNCHANGED Renewal!vars)
<1>1. /\ req[SessionMe].at \in {"sent", "retried"}
      /\ req' = [req EXCEPT ![SessionMe].at = "failed"]
      /\ me' = None /\ flow' = "idle" /\ page' = "login"
      /\ logout' = (logout \/ flow \in {"restore", "restoreMe"})
      /\ UNCHANGED <<accessToken, refreshing, cookie, owner, issued, expired,
                     letdown, stuck, meddled, ended, excused>>
  BY DEF ProfileFails, FlowFails, serverVars, historyVars
<1>2. SessionMe \in Principals /\ SessionMe \in Requests
  BY Numbers
<1>3. Moves(SessionMe, "failed")
  BY <1>1, <1>2, MovesOne DEF IInv
<1>5. Scalars'
  BY <1>1 DEF IInv, Scalars
<1>6. Flags'
  BY <1>1, Zenon DEF IInv, Flags
<1>7. SessionAtRest'
  BY <1>3 DEF SessionAtRest, AtRest, Moves
<1>8. FlagGuards' /\ NothingBringsTokens'
  BY <1>1, <1>2, <1>3, QuietMove
<1>9. req' \in [Requests -> Request] /\ LeadersArePrincipals' /\ ProfilesOfRenewals'
  BY <1>1, <1>2, <1>3, PrincipalMoves
<1>10. Renewal!Next \/ UNCHANGED Renewal!vars
  BY <1>1, <1>2, <1>3, MoveMaps DEF IInv
<1> QED
  BY <1>5, <1>6, <1>7, <1>8, <1>9, <1>10 DEF IInv

(* The session flow has new tokens and asks for the profile. *)
LEMMA SessionIssued ==
    ASSUME IInv, Restored \/ LoggedIn
    PROVE  IInv' /\ (Renewal!Next \/ UNCHANGED Renewal!vars)
<1>1. PICK s \in Sessions :
        /\ flow \in {"restore", "login"} /\ flow' \in {"restoreMe", "loginMe"}
        /\ issued < MaxTokens /\ issued' = issued + 1
        /\ owner' = [owner EXCEPT ![issued + 1] = s]
        /\ cookie' = s /\ accessToken' = issued + 1
        /\ req' = [req EXCEPT ![SessionMe] = SentWith(issued + 1)]
        /\ UNCHANGED <<me, page, refreshing, logout, expired, letdown, stuck, meddled, ended, excused>>
  BY DEF Restored, LoggedIn, Issue, LoadMe, historyVars, IInv, Scalars
<1>2. SessionMe \in Principals /\ SessionMe \in Requests
  BY Numbers
<1>3. issued + 1 \in Tokens
  BY <1>1, RefreshAssumption DEF IInv, Scalars, Tokens
<1>4. Moves(SessionMe, "sent")
  BY <1>1, <1>2, <1>3, Sent DEF IInv
<1>5. Scalars'
  BY <1>1, <1>3, RefreshAssumption DEF IInv, Scalars
<1>6. Flags'
  BY <1>1 DEF IInv, Flags
<1>7. SessionAtRest'
  BY <1>1 DEF SessionAtRest
<1>8. req[SessionMe].at \in {"new", "ok", "failed"}
  BY <1>1 DEF IInv, SessionAtRest, AtRest
<1>9. ~(ended /\ ~excused)
  <2>1. flow # "idle"
    BY <1>1
  <2> QED
    BY <2>1, Zenon DEF IInv, NothingBringsTokens
<1>10. FlagGuards' /\ NothingBringsTokens'
  BY <1>1, <1>2, <1>4, <1>8, <1>9, QuietMove
<1>11. req' \in [Requests -> Request] /\ LeadersArePrincipals' /\ ProfilesOfRenewals'
  BY <1>2, <1>4, <1>8, PrincipalMoves
<1>12. Renewal!Next \/ UNCHANGED Renewal!vars
  BY <1>1, <1>2, <1>4, <1>8, MoveMaps DEF IInv
<1> QED
  BY <1>5, <1>6, <1>7, <1>10, <1>11, <1>12 DEF IInv

-------------------------------------------------------------------------------
(* Whatever fails in a renewal: the request that renews fails, its         *)
(* /auth/me with it, the flag goes down and the session is cleared.        *)

LEMMA LeaderFailsEffect ==
    ASSUME IInv, NEW i \in Principals, NEW q, LeaderFails(i, q)
    PROVE  /\ refreshing' = FALSE /\ stuck' = FALSE /\ accessToken' = None /\ req' = q
           /\ meddled' = (meddled \/ (req[i].at = "leading" /\ Leaders # {}))
           /\ flow' = IF i = SessionMe THEN "idle" ELSE flow
           /\ UNCHANGED <<cookie, ended, excused>>
           /\ Scalars' /\ Flags'
<1>1. /\ refreshing' = FALSE /\ stuck' = FALSE /\ accessToken' = None /\ me' = None
      /\ letdown' \subseteq Requests
      /\ meddled' = (meddled \/ (req[i].at = "leading" /\ Leaders # {}))
      /\ UNCHANGED <<cookie, owner, issued, expired, ended, excused>>
  BY DEF LeaderFails, serverVars, WaitInVain, At, IInv, Scalars
<1>2. CASE i = SessionMe
  <2>1. /\ flow' = "idle" /\ req' = q /\ page' = "login"
        /\ logout' = (logout \/ flow \in {"restore", "restoreMe"})
    BY <1>2 DEF LeaderFails, FlowFails
  <2>2. Scalars'
    BY <1>1, <2>1 DEF IInv, Scalars, None
  <2>3. Flags'
    BY <1>1, <2>1, Zenon DEF IInv, Flags
  <2> QED
    BY <1>1, <1>2, <2>1, <2>2, <2>3
<1>3. CASE i # SessionMe
  <2>1. /\ req' = q /\ page' = "login" /\ flow' = flow /\ logout' = logout
    BY <1>3 DEF LeaderFails
  <2>2. Scalars'
    BY <1>1, <2>1 DEF IInv, Scalars, None
  <2>3. Flags'
    BY <1>1, <2>1, Zenon DEF IInv, Flags
  <2> QED
    BY <1>1, <1>3, <2>1, <2>2, <2>3
<1> QED
  BY <1>2, <1>3

LEMMA LeaderFailsStep ==
    ASSUME IInv, NEW i \in Principals, NEW q \in [Requests -> Request], LeaderFails(i, q),
           req[i].at \in {"refreshing", "loading", "leading"},
           q[i].at = "failed",
           \A r \in Requests \ {i, MeOf(i)} : q[r] = req[r],
           IF req[i].at = "loading"
           THEN req[MeOf(i)].at \in {"sent", "retried"} /\ q[MeOf(i)].at = "failed"
           ELSE q[MeOf(i)] = req[MeOf(i)]
    PROVE  IInv' /\ Renewal!Next
<1>1. /\ refreshing' = FALSE /\ stuck' = FALSE /\ accessToken' = None /\ req' = q
      /\ meddled' = (meddled \/ (req[i].at = "leading" /\ Leaders # {}))
      /\ flow' = IF i = SessionMe THEN "idle" ELSE flow
      /\ UNCHANGED <<cookie, ended, excused>>
      /\ Scalars' /\ Flags'
  BY LeaderFailsEffect
<1>2. /\ i \in Requests /\ MeOf(i) \in Requests /\ MeOf(i) # i /\ MeOf(i) # SessionMe
      /\ \A j \in Principals : j # i => MeOf(j) # MeOf(i) /\ MeOf(j) # i
      /\ \A j \in Principals : MeOf(i) # j /\ j \in Requests /\ MeOf(j) \in Requests
  BY Numbers
<1>3. req' \in [Requests -> Request] /\ LeadersArePrincipals'
  BY <1>1, <1>2 DEF IInv, LeadersArePrincipals
<1>4. ProfilesOfRenewals'
  <2> SUFFICES ASSUME NEW j \in Principals
               PROVE  IF req'[j].at = "loading" THEN UnderWay(MeOf(j))' ELSE AtRest(MeOf(j))'
    BY DEF ProfilesOfRenewals
  <2>1. CASE j = i
    BY <1>1, <1>2, <2>1 DEF IInv, ProfilesOfRenewals, UnderWay, AtRest
  <2>2. CASE j # i
    <3>1. req'[j] = req[j] /\ req'[MeOf(j)] = req[MeOf(j)]
      BY <1>1, <1>2, <2>2
    <3> QED
      BY <3>1 DEF IInv, ProfilesOfRenewals, UnderWay, AtRest
  <2> QED
    BY <2>1, <2>2
<1>5. SessionAtRest'
  <2>1. CASE i = SessionMe
    BY <1>1, <2>1 DEF SessionAtRest, AtRest
  <2>2. CASE i # SessionMe
    <3>1. req'[SessionMe] = req[SessionMe] /\ flow' = flow
      BY <1>1, <1>2, <2>2, Numbers
    <3> QED
      BY <3>1 DEF IInv, SessionAtRest, AtRest
  <2> QED
    BY <2>1, <2>2
<1>6. Leaders' = Leaders \ {i}
  BY <1>1, <1>2 DEF Leaders, At, IInv, ProfilesOfRenewals, AtRest, UnderWay
<1>7. FlagGuards'
  <2>1. SUFFICES ASSUME ~meddled' PROVE Leaders' = {}
    BY <1>1, Zenon DEF FlagGuards
  <2>2. ~meddled /\ ~(req[i].at = "leading" /\ Leaders # {})
    BY <1>1, <2>1
  <2>3. CASE req[i].at = "leading"
    <3>1. Leaders = {}
      BY <2>2, <2>3
    <3> QED
      BY <1>6, <3>1
  <2>4. CASE req[i].at # "leading"
    <3>1. i \in Leaders
      BY <1>2, <2>4 DEF Leaders, At
    <3>2. \A j, k \in Leaders : j = k
      BY <2>2, Zenon DEF IInv, FlagGuards
    <3> QED
      BY <1>6, <3>1, <3>2
  <2> QED
    BY <2>3, <2>4
<1>8. NothingBringsTokens'
  <2>1. SUFFICES ASSUME ended, ~excused
                 PROVE  /\ cookie' = None /\ flow' = "idle"
                        /\ \A r \in Requests : req'[r].at = "refreshing" => req'[r].cookie = None
    BY <1>1, Zenon DEF NothingBringsTokens
  <2>2. /\ cookie = None /\ flow = "idle"
        /\ \A r \in Requests : req[r].at = "refreshing" => req[r].cookie = None
    BY <2>1, Zenon DEF IInv, NothingBringsTokens
  <2>3. \A r \in Requests : req'[r].at = "refreshing" => req'[r] = req[r]
    BY <1>1, <1>2
  <2> QED
    BY <1>1, <2>2, <2>3
<1>9. Renewal!Next
  <2>1. At({"waiting"})' = At({"waiting"})
    BY <1>1, <1>2 DEF At, IInv, ProfilesOfRenewals, AtRest, UnderWay
  <2>2. CASE req[i].at = "leading"
    <3>1. i \in At({"retried", "leading"}) /\ At({"retried", "leading"})' = At({"retried", "leading"}) \ {i}
      BY <1>1, <1>2, <2>2 DEF At
    <3>2. Leaders' = Leaders
      BY <1>6, <2>2 DEF Leaders, At
    <3> QED
      BY <1>1, <1>2, <2>1, <3>1, <3>2 DEF Renewal!Settle, Renewal!Next
  <2>3. CASE req[i].at # "leading"
    <3>1. i \in Leaders
      BY <1>2, <2>3 DEF Leaders, At
    <3>2. \E s \in At({"retried", "leading"}) \cup {i} :
             At({"retried", "leading"})' = At({"retried", "leading"}) \ {s}
      <4>1. CASE req[MeOf(i)].at = "retried" /\ req[i].at = "loading"
        <5>1. /\ MeOf(i) \in At({"retried", "leading"})
              /\ At({"retried", "leading"})' = At({"retried", "leading"}) \ {MeOf(i)}
          BY <1>1, <1>2, <2>3, <4>1 DEF At
        <5> QED
          BY <5>1
      <4>2. CASE ~(req[MeOf(i)].at = "retried" /\ req[i].at = "loading")
        <5>1. At({"retried", "leading"})' = At({"retried", "leading"}) \ {i}
          BY <1>1, <1>2, <2>3, <4>2 DEF At, IInv, ProfilesOfRenewals, UnderWay
        <5> QED
          BY <5>1
      <4> QED
        BY <4>1, <4>2
    <3>3. Renewal!Fail(i)
      BY <1>1, <1>6, <2>1, <3>1, <3>2 DEF Renewal!Fail
    <3> QED
      BY <1>2, <3>3 DEF Renewal!Next
  <2> QED
    BY <2>2, <2>3
<1> QED
  BY <1>1, <1>3, <1>4, <1>5, <1>7, <1>8, <1>9 DEF IInv

LEMMA FailureSteps ==
    ASSUME IInv, NEW i \in Principals, NotRefreshed(i) \/ RenewalFails(i) \/ RetryOfLeaderFails(i)
    PROVE  IInv' /\ Renewal!Next
<1>1. /\ i \in Requests /\ MeOf(i) \in Requests /\ MeOf(i) # i
      /\ req \in [Requests -> Request] /\ req[i] \in Request /\ req[MeOf(i)] \in Request
  BY Numbers DEF IInv
<1> DEFINE Failed(r) == [at |-> "failed", token |-> req[r].token, fresh |-> req[r].fresh, cookie |-> req[r].cookie]
<1>2. \A r \in {i, MeOf(i)} : /\ [req[r] EXCEPT !.at = "failed"] = Failed(r)
                              /\ Failed(r) \in Request /\ Failed(r).at = "failed"
  BY <1>1 DEF Request
<1> HIDE DEF Failed
<1>3. CASE NotRefreshed(i) \/ RetryOfLeaderFails(i)
  <2> DEFINE q == [req EXCEPT ![i].at = "failed"]
  <2>1. LeaderFails(i, q) /\ req[i].at \in {"refreshing", "leading"}
    BY <1>3 DEF NotRefreshed, RetryOfLeaderFails
  <2>2. q = [req EXCEPT ![i] = Failed(i)]
    BY <1>1, <1>2
  <2>3. /\ q \in [Requests -> Request] /\ q[i].at = "failed"
        /\ \A r \in Requests \ {i} : q[r] = req[r]
    BY <1>1, <1>2, <2>2
  <2> HIDE DEF q
  <2> QED
    BY <1>1, <2>1, <2>3, LeaderFailsStep
<1>4. CASE RenewalFails(i)
  <2> DEFINE q == [req EXCEPT ![i].at = "failed", ![MeOf(i)].at = "failed"]
  <2>1. LeaderFails(i, q) /\ req[i].at = "loading" /\ req[MeOf(i)].at \in {"sent", "retried"}
    BY <1>4 DEF RenewalFails
  <2>2. q = [req EXCEPT ![i] = Failed(i), ![MeOf(i)] = Failed(MeOf(i))]
    BY <1>1, <1>2
  <2>3. /\ q \in [Requests -> Request] /\ q[i].at = "failed" /\ q[MeOf(i)].at = "failed"
        /\ \A r \in Requests \ {i, MeOf(i)} : q[r] = req[r]
    BY <1>1, <1>2, <2>2
  <2> HIDE DEF q
  <2> QED
    BY <1>1, <2>1, <2>3, LeaderFailsStep
<1> QED
  BY <1>3, <1>4

-------------------------------------------------------------------------------
(* A rejected request waits for a renewal, or renews the token. *)

LEMMA WaitStep ==
    ASSUME IInv, NEW i \in Requests, Rejected(i), refreshing
    PROVE  IInv' /\ Renewal!Next
<1>1. /\ req[i].at = "sent" /\ req' = [req EXCEPT ![i].at = "waiting"]
      /\ UNCHANGED <<accessToken, me, page, refreshing, flow, logout, cookie, owner, issued, expired,
                     letdown, stuck, meddled, ended, excused>>
  BY DEF Rejected, clientVars, serverVars
<1>2. Moves(i, "waiting")
  BY <1>1, MovesOne DEF IInv
<1>3. Scalars' /\ Flags'
  BY <1>1 DEF IInv, Scalars, Flags
<1>4. SessionAtRest'
  BY <1>1, <1>2, Numbers DEF IInv, SessionAtRest, AtRest, Moves
<1>5. req' \in [Requests -> Request] /\ LeadersArePrincipals' /\ Leaders' = Leaders
  BY <1>1, <1>2 DEF Moves, Leaders, At, IInv, LeadersArePrincipals
<1>6. ProfilesOfRenewals'
  BY <1>1, <1>2, Numbers DEF Moves, IInv, ProfilesOfRenewals, UnderWay, AtRest
<1>7. FlagGuards'
  BY <1>1, <1>5, Zenon DEF IInv, FlagGuards
<1>8. NothingBringsTokens'
  <2>1. \A r \in Requests : req'[r].at = "refreshing" => req'[r] = req[r]
    BY <1>2 DEF Moves
  <2> QED
    BY <1>1, <2>1 DEF IInv, NothingBringsTokens
<1>9. Renewal!Next
  <2>2. /\ i \notin Leaders \cup At({"waiting"}) \cup At({"retried", "leading"})
        /\ At({"waiting"})' = At({"waiting"}) \cup {i}
        /\ At({"retried", "leading"})' = At({"retried", "leading"})
    BY <1>1, <1>2 DEF Moves, At, Leaders
  <2> QED
    BY <1>1, <1>5, <2>2 DEF Renewal!Wait, Renewal!Idle, Renewal!Next
<1> QED
  BY <1>3, <1>4, <1>5, <1>6, <1>7, <1>8, <1>9 DEF IInv

LEMMA RenewStep ==
    ASSUME IInv, NEW i \in Requests, Rejected(i), ~refreshing
    PROVE  IInv' /\ Renewal!Next
<1>1. /\ req[i].at = "sent" /\ i <= SessionMe
      /\ req' = [req EXCEPT ![i].at = "refreshing", ![i].cookie = cookie]
      /\ refreshing' = TRUE /\ letdown' = {}
      /\ UNCHANGED <<accessToken, me, page, flow, logout, cookie, owner, issued, expired,
                     stuck, meddled, ended, excused>>
  BY DEF Rejected, clientVars, serverVars
<1>2. i \in Principals /\ req[i] \in Request /\ cookie \in Sessions \cup {None}
  BY <1>1, Numbers DEF IInv, Scalars
<1> DEFINE q == [at |-> "refreshing", token |-> req[i].token, fresh |-> req[i].fresh, cookie |-> cookie]
<1> DEFINE p == [at |-> "refreshing", token |-> req[i].token, fresh |-> req[i].fresh, cookie |-> req[i].cookie]
<1>3. [req[i] EXCEPT !.at = "refreshing"] = p /\ [p EXCEPT !.cookie = cookie] = q
  BY <1>2 DEF Request
<1>4. req' = [req EXCEPT ![i] = q]
  <2>1. [req EXCEPT ![i].at = "refreshing"] = [req EXCEPT ![i] = p]
    BY <1>3
  <2> DEFINE r == [req EXCEPT ![i] = p]
  <2>2. r[i] = p
    BY DEF IInv
  <2>3. req' = [r EXCEPT ![i].cookie = cookie]
    BY <1>1, <2>1
  <2> HIDE DEF r
  <2>4. req' = [r EXCEPT ![i] = q]
    BY <1>3, <2>2, <2>3
  <2> QED
    BY <2>4 DEF r, IInv
<1>5. q \in Request /\ q.at = "refreshing" /\ q.cookie = cookie
  BY <1>2 DEF Request
<1> HIDE DEF q
<1>6. Moves(i, "refreshing") /\ req'[i].cookie = cookie
  BY <1>4, <1>5 DEF Moves, IInv
<1>7. Scalars' /\ Flags'
  BY <1>1 DEF IInv, Scalars, Flags
<1>8. SessionAtRest'
  BY <1>1, <1>6, Numbers DEF IInv, SessionAtRest, AtRest, Moves
<1>9. req' \in [Requests -> Request] /\ LeadersArePrincipals' /\ Leaders' = Leaders \cup {i}
  BY <1>1, <1>2, <1>6 DEF Moves, Leaders, At, IInv, LeadersArePrincipals
<1>10. ProfilesOfRenewals'
  BY <1>1, <1>2, <1>6, Numbers DEF Moves, IInv, ProfilesOfRenewals, UnderWay, AtRest
<1>11. FlagGuards'
  <2>1. ~meddled => Leaders = {}
    BY Zenon DEF IInv, FlagGuards
  <2>2. /\ ~meddled => \A j, k \in Leaders' : j = k
        /\ Leaders' # {}
    BY <1>9, <2>1
  <2> QED
    BY <1>1, <2>2, Zenon DEF FlagGuards
<1>12. NothingBringsTokens'
  <2>1. \A r \in Requests \ {i} : req'[r] = req[r]
    BY <1>6 DEF Moves
  <2> QED
    BY <1>1, <1>6, <2>1 DEF IInv, NothingBringsTokens
<1>13. Renewal!Next
  <2>1. /\ i \notin Leaders \cup At({"waiting"}) \cup At({"retried", "leading"})
        /\ At({"waiting"})' = At({"waiting"})
        /\ At({"retried", "leading"})' = At({"retried", "leading"})
    BY <1>1, <1>6 DEF Moves, At, Leaders
  <2> QED
    BY <1>1, <1>9, <2>1 DEF Renewal!Renew, Renewal!Idle, Renewal!Next
<1> QED
  BY <1>7, <1>8, <1>9, <1>10, <1>11, <1>12, <1>13 DEF IInv

-------------------------------------------------------------------------------
(* The token is renewed, then the profile is there. *)

LEMMA RefreshedEffect ==
    ASSUME IInv, NEW i \in Principals, Refreshed(i)
    PROVE  /\ req' \in [Requests -> Request]
           /\ req'[i].at = "loading" /\ req'[MeOf(i)].at = "sent"
           /\ \A r \in Requests \ {i, MeOf(i)} : req'[r] = req[r]
<1>1. /\ i \in Requests /\ MeOf(i) \in Requests /\ MeOf(i) # i /\ req[i] \in Request
      /\ issued + 1 \in Tokens /\ issued + 1 \in Tokens \cup {None}
  BY Numbers, RefreshAssumption DEF IInv, Scalars, Refreshed, Issue, Tokens
<1> DEFINE p == [at |-> "loading", token |-> req[i].token, fresh |-> req[i].fresh, cookie |-> req[i].cookie]
           q == [at |-> "loading", token |-> req[i].token, fresh |-> issued + 1, cookie |-> req[i].cookie]
           m == [at |-> "sent", token |-> issued + 1, fresh |-> None, cookie |-> None]
           r1 == [req EXCEPT ![i] = p]
           r2 == [req EXCEPT ![i] = q]
<1>2. [req[i] EXCEPT !.at = "loading"] = p /\ [p EXCEPT !.fresh = issued + 1] = q
  BY <1>1 DEF Request
<1>3. p \in Request /\ q \in Request /\ m \in Request /\ q.at = "loading" /\ m.at = "sent"
  BY <1>1 DEF Request
<1>4. SentWith(issued + 1) = m
  BY SentWithRecord
<1> HIDE DEF p, q, m
<1>5. [req EXCEPT ![i].at = "loading"] = r1
  BY <1>2
<1>6. r1[i] = p /\ r1 \in [Requests -> Request]
  BY <1>1, <1>3 DEF IInv
<1>7. [req EXCEPT ![i].at = "loading", ![i].fresh = issued + 1, ![MeOf(i)] = SentWith(issued + 1)]
        = [r1 EXCEPT ![i].fresh = issued + 1, ![MeOf(i)] = m]
  BY <1>4, <1>5
<1>8. [r1 EXCEPT ![i] = q] = r2
  BY <1>1, <1>3 DEF IInv
<1> HIDE DEF r1
<1>9. [r1 EXCEPT ![i].fresh = issued + 1] = [r1 EXCEPT ![i] = q]
  BY <1>2, <1>6
<1>10. [r1 EXCEPT ![i].fresh = issued + 1, ![MeOf(i)] = m] = [r2 EXCEPT ![MeOf(i)] = m]
  BY <1>8, <1>9
<1>11. req' = [r2 EXCEPT ![MeOf(i)] = m]
  BY <1>7, <1>10 DEF Refreshed
<1> QED
  BY <1>1, <1>3, <1>11 DEF IInv

LEMMA RefreshedStep ==
    ASSUME IInv, NEW i \in Principals, Refreshed(i)
    PROVE  IInv' /\ UNCHANGED Renewal!vars
<1>1. /\ req[i].at = "refreshing" /\ req[i].cookie # None
      /\ issued < MaxTokens /\ issued' = issued + 1
      /\ owner' = [owner EXCEPT ![issued + 1] = req[i].cookie]
      /\ cookie' = req[i].cookie /\ accessToken' = issued + 1
      /\ UNCHANGED <<me, page, refreshing, flow, logout, expired, letdown, stuck, meddled, ended, excused>>
  BY DEF Refreshed, Issue, historyVars
<1>2. /\ req' \in [Requests -> Request]
      /\ req'[i].at = "loading" /\ req'[MeOf(i)].at = "sent"
      /\ \A r \in Requests \ {i, MeOf(i)} : req'[r] = req[r]
  BY RefreshedEffect
<1>3. /\ i \in Requests /\ MeOf(i) \in Requests /\ MeOf(i) # i /\ MeOf(i) # SessionMe
      /\ \A j \in Principals : j # i => MeOf(j) # MeOf(i) /\ MeOf(j) # i
      /\ \A j \in Principals : MeOf(i) # j /\ j \in Requests /\ MeOf(j) \in Requests
      /\ SessionMe \in Requests
  BY Numbers
<1>4. req[MeOf(i)].at \in {"new", "ok", "failed"}
  BY <1>1 DEF IInv, ProfilesOfRenewals, AtRest
<1>5. Scalars'
  <2>1. req[i].cookie \in Sessions
    BY <1>1, <1>3 DEF IInv, Request
  <2> QED
    BY <1>1, <2>1, RefreshAssumption DEF IInv, Scalars, Tokens
<1>6. Flags'
  BY <1>1 DEF IInv, Flags
<1>7. SessionAtRest'
  <2>1. flow' = flow
    BY <1>1
  <2>2. SessionMe = i => flow \in {"restoreMe", "loginMe"}
    BY <1>1 DEF IInv, SessionAtRest, AtRest
  <2>3. SessionMe # i => req'[SessionMe] = req[SessionMe]
    BY <1>2, <1>3
  <2> QED
    BY <2>1, <2>2, <2>3 DEF IInv, SessionAtRest, AtRest
<1>8. LeadersArePrincipals' /\ Leaders' = Leaders
  BY <1>1, <1>2, <1>3, <1>4 DEF IInv, LeadersArePrincipals, Leaders, At
<1>9. ProfilesOfRenewals'
  <2> SUFFICES ASSUME NEW j \in Principals
               PROVE  IF req'[j].at = "loading" THEN UnderWay(MeOf(j))' ELSE AtRest(MeOf(j))'
    BY DEF ProfilesOfRenewals
  <2>1. CASE j = i
    BY <1>2, <2>1 DEF UnderWay
  <2>2. CASE j # i
    <3>1. req'[j] = req[j] /\ req'[MeOf(j)] = req[MeOf(j)]
      BY <1>2, <1>3, <2>2
    <3> QED
      BY <3>1 DEF IInv, ProfilesOfRenewals, UnderWay, AtRest
  <2> QED
    BY <2>1, <2>2
<1>10. FlagGuards'
  BY <1>1, <1>8, Zenon DEF IInv, FlagGuards
<1>11. NothingBringsTokens'
  <2>1. ~(ended /\ ~excused)
    BY <1>1, <1>3, Zenon DEF IInv, NothingBringsTokens
  <2> QED
    BY <1>1, <2>1, Zenon DEF NothingBringsTokens
<1>12. UNCHANGED Renewal!vars
  <2>1. /\ At({"waiting"})' = At({"waiting"})
        /\ At({"retried", "leading"})' = At({"retried", "leading"})
    BY <1>1, <1>2, <1>3, <1>4 DEF At
  <2> QED
    BY <1>1, <1>8, <2>1 DEF Renewal!vars
<1> QED
  BY <1>2, <1>5, <1>6, <1>7, <1>8, <1>9, <1>10, <1>11, <1>12 DEF IInv

LEMMA ReleaseEffect ==
    ASSUME IInv, NEW i \in Principals, Release(i)
    PROVE  /\ req' \in [Requests -> Request]
           /\ req'[i].at = "leading" /\ req'[MeOf(i)].at = "ok"
           /\ \A r \in Requests \ {i, MeOf(i)} :
                 IF req[r].at = "waiting" THEN req'[r].at = "retried" ELSE req'[r] = req[r]
<1>1. /\ i \in Requests /\ MeOf(i) \in Requests /\ MeOf(i) # i
      /\ req \in [Requests -> Request]
  BY Numbers DEF IInv
<1> DEFINE Put(r, a, f) == [at |-> a, token |-> req[r].token, fresh |-> f, cookie |-> req[r].cookie]
<1>2. \A r \in Requests :
        /\ [req[r] EXCEPT !.at = "leading"] = Put(r, "leading", req[r].fresh)
        /\ [req[r] EXCEPT !.at = "ok"] = Put(r, "ok", req[r].fresh)
        /\ [req[r] EXCEPT !.at = "retried", !.fresh = req[i].fresh] = Put(r, "retried", req[i].fresh)
  <2> TAKE r \in Requests
  <2>1. req[r] \in Request
    BY <1>1
  <2>2. /\ [req[r] EXCEPT !.at = "leading"] = Put(r, "leading", req[r].fresh)
        /\ [req[r] EXCEPT !.at = "ok"] = Put(r, "ok", req[r].fresh)
        /\ [req[r] EXCEPT !.at = "retried"] = Put(r, "retried", req[r].fresh)
    BY <2>1 DEF Request
  <2>3. [Put(r, "retried", req[r].fresh) EXCEPT !.fresh = req[i].fresh] = Put(r, "retried", req[i].fresh)
    OBVIOUS
  <2> QED
    BY <2>2, <2>3
<1>3. \A r \in Requests :
        /\ Put(r, "leading", req[r].fresh) \in Request
        /\ Put(r, "ok", req[r].fresh) \in Request
        /\ Put(r, "retried", req[i].fresh) \in Request
        /\ \A a, f : Put(r, a, f).at = a
  BY <1>1 DEF Request
<1> HIDE DEF Put
<1>4. req' = [r \in Requests |->
                CASE r = i       -> Put(r, "leading", req[r].fresh)
                  [] r = MeOf(i) -> Put(r, "ok", req[r].fresh)
                  [] r # i /\ r # MeOf(i) /\ req[r].at = "waiting" -> Put(r, "retried", req[i].fresh)
                  [] OTHER       -> req[r]]
  BY <1>1, <1>2 DEF Release
<1>5. /\ req'[i] = Put(i, "leading", req[i].fresh)
      /\ req'[MeOf(i)] = Put(MeOf(i), "ok", req[MeOf(i)].fresh)
      /\ \A r \in Requests \ {i, MeOf(i)} :
            req'[r] = IF req[r].at = "waiting" THEN Put(r, "retried", req[i].fresh) ELSE req[r]
  BY <1>1, <1>4
<1>6. \A r \in Requests : req'[r] \in Request
  BY <1>1, <1>3, <1>5
<1> QED
  BY <1>1, <1>3, <1>4, <1>5, <1>6

LEMMA ReleaseStep ==
    ASSUME IInv, NEW i \in Principals, Release(i)
    PROVE  IInv' /\ Renewal!Next
<1>1. /\ req[i].at = "loading" /\ req[MeOf(i)].at \in {"sent", "retried"}
      /\ Good(Carried(MeOf(i)))
      /\ me' = owner[Carried(MeOf(i))] /\ refreshing' = FALSE /\ stuck' = FALSE
      /\ UNCHANGED <<accessToken, page, flow, logout, cookie, owner, issued, expired,
                     letdown, meddled, ended, excused>>
  BY DEF Release, serverVars
<1>2. /\ req' \in [Requests -> Request]
      /\ req'[i].at = "leading" /\ req'[MeOf(i)].at = "ok"
      /\ \A r \in Requests \ {i, MeOf(i)} :
            IF req[r].at = "waiting" THEN req'[r].at = "retried" ELSE req'[r] = req[r]
  BY ReleaseEffect
<1>3. /\ i \in Requests /\ MeOf(i) \in Requests /\ MeOf(i) # i /\ MeOf(i) # SessionMe
      /\ \A j \in Principals : j # i => MeOf(j) # MeOf(i) /\ MeOf(j) # i
      /\ \A j \in Principals : MeOf(i) # j /\ j \in Requests /\ MeOf(j) \in Requests
      /\ SessionMe \in Requests
  BY Numbers
<1>4. Scalars'
  <2>1. req[MeOf(i)] \in Request
    BY <1>3 DEF IInv
  <2>2. Carried(MeOf(i)) \in Tokens
    BY <1>1, <2>1 DEF Good, Carried, Request
  <2> QED
    BY <1>1, <2>2 DEF IInv, Scalars
<1>5. Flags'
  BY <1>1, Zenon DEF IInv, Flags
<1>6. SessionAtRest'
  <2>1. SUFFICES ASSUME flow \notin {"restoreMe", "loginMe"}
                 PROVE  AtRest(SessionMe)'
    BY <1>1 DEF SessionAtRest
  <2>2. req[SessionMe].at \in {"new", "ok", "failed"}
    BY <2>1 DEF IInv, SessionAtRest, AtRest
  <2>3. req'[SessionMe] = req[SessionMe]
    BY <1>1, <1>2, <1>3, <2>2
  <2> QED
    BY <2>2, <2>3 DEF AtRest
<1>7. LeadersArePrincipals' /\ Leaders' = Leaders \ {i}
  BY <1>1, <1>2, <1>3 DEF IInv, LeadersArePrincipals, Leaders, At
<1>8. ProfilesOfRenewals'
  <2> SUFFICES ASSUME NEW j \in Principals
               PROVE  IF req'[j].at = "loading" THEN UnderWay(MeOf(j))' ELSE AtRest(MeOf(j))'
    BY DEF ProfilesOfRenewals
  <2>1. CASE j = i
    BY <1>2, <2>1 DEF AtRest
  <2>2. CASE j # i
    <3>1. j \in Requests \ {i, MeOf(i)} /\ MeOf(j) \in Requests \ {i, MeOf(i)}
      BY <1>3, <2>2
    <3>2. IF req[j].at = "loading" THEN UnderWay(MeOf(j)) ELSE AtRest(MeOf(j))
      BY DEF IInv, ProfilesOfRenewals
    <3>3. (req'[j].at = "loading") <=> (req[j].at = "loading")
      BY <1>2, <3>1
    <3>4. (UnderWay(MeOf(j)) => UnderWay(MeOf(j))') /\ (AtRest(MeOf(j)) => AtRest(MeOf(j))')
      BY <1>2, <3>1 DEF UnderWay, AtRest
    <3> QED
      BY <3>2, <3>3, <3>4
  <2> QED
    BY <2>1, <2>2
<1>9. i \in Leaders
  BY <1>1, <1>3 DEF Leaders, At
<1>10. FlagGuards'
  <2>1. SUFFICES ASSUME ~meddled PROVE Leaders' = {}
    BY <1>1, Zenon DEF FlagGuards
  <2>2. \A j, k \in Leaders : j = k
    BY <2>1, Zenon DEF IInv, FlagGuards
  <2> QED
    BY <1>7, <1>9, <2>2
<1>11. NothingBringsTokens'
  <2>1. \A r \in Requests : req'[r].at = "refreshing" => req'[r] = req[r]
    BY <1>2
  <2> QED
    BY <1>1, <2>1 DEF IInv, NothingBringsTokens
<1>12. Renewal!Next
  <2>1. At({"waiting"})' = {}
    BY <1>2 DEF At
  <2>2. \E s \in At({"retried", "leading"}) \cup {i} :
           At({"retried", "leading"})' = (At({"retried", "leading"}) \ {s}) \cup At({"waiting"}) \cup {i}
    <3>1. CASE req[MeOf(i)].at = "retried"
      <4>1. /\ MeOf(i) \in At({"retried", "leading"})
            /\ At({"retried", "leading"})'
                 = (At({"retried", "leading"}) \ {MeOf(i)}) \cup At({"waiting"}) \cup {i}
        BY <1>1, <1>2, <1>3, <3>1 DEF At
      <4> QED
        BY <4>1
    <3>2. CASE req[MeOf(i)].at = "sent"
      <4>1. At({"retried", "leading"})'
              = (At({"retried", "leading"}) \ {i}) \cup At({"waiting"}) \cup {i}
        BY <1>1, <1>2, <1>3, <3>2 DEF At
      <4> QED
        BY <4>1
    <3> QED
      BY <1>1, <3>1, <3>2
  <2>3. Renewal!Succeed(i)
    BY <1>1, <1>7, <1>9, <2>1, <2>2 DEF Renewal!Succeed
  <2> QED
    BY <1>3, <2>3 DEF Renewal!Next
<1> QED
  BY <1>2, <1>4, <1>5, <1>6, <1>7, <1>8, <1>10, <1>11, <1>12 DEF IInv

-------------------------------------------------------------------------------
(* A page gives up a request: the renewal that the request leads is torn   *)
(* down, with its /auth/me, and the flag stays up.                         *)

LEMMA UnsubscribeEffect ==
    ASSUME IInv, NEW i \in Pages, Unsubscribe(i)
    PROVE  /\ req' \in [Requests -> Request]
           /\ req'[i].at = "failed"
           /\ \A r \in Requests \ {i, MeOf(i)} : req'[r] = req[r]
           /\ IF req[i].at = "loading" THEN req'[MeOf(i)].at = "failed"
              ELSE req'[MeOf(i)] = req[MeOf(i)]
<1>1. /\ i \in Requests /\ MeOf(i) \in Requests /\ MeOf(i) # i
      /\ req \in [Requests -> Request] /\ req[i] \in Request /\ req[MeOf(i)] \in Request
  BY Numbers DEF IInv
<1> DEFINE Failed(r) == [at |-> "failed", token |-> req[r].token, fresh |-> req[r].fresh, cookie |-> req[r].cookie]
<1>2. \A r \in {i, MeOf(i)} : /\ [req[r] EXCEPT !.at = "failed"] = Failed(r)
                              /\ Failed(r) \in Request /\ Failed(r).at = "failed"
  BY <1>1 DEF Request
<1> HIDE DEF Failed
<1>3. CASE req[i].at = "loading"
  <2>1. req' = [req EXCEPT ![i] = Failed(i), ![MeOf(i)] = Failed(MeOf(i))]
    BY <1>1, <1>2, <1>3 DEF Unsubscribe
  <2> QED
    BY <1>1, <1>2, <1>3, <2>1
<1>4. CASE req[i].at # "loading"
  <2>1. req' = [req EXCEPT ![i] = Failed(i)]
    BY <1>1, <1>2, <1>4 DEF Unsubscribe
  <2> QED
    BY <1>1, <1>2, <1>4, <2>1
<1> QED
  BY <1>3, <1>4

LEMMA UnsubscribeStep ==
    ASSUME IInv, NEW i \in Pages, Unsubscribe(i)
    PROVE  IInv' /\ (Renewal!Next \/ UNCHANGED Renewal!vars)
<1>1. /\ req[i].at \in {"sent", "waiting", "refreshing", "loading", "retried", "leading"}
      /\ cookie' = cookie \/ (req[i].at = "refreshing" /\ req[i].cookie # None /\ cookie' = req[i].cookie)
      /\ letdown' = WaitInVain(i)
      /\ UNCHANGED <<accessToken, me, page, refreshing, flow, logout, owner, issued, expired,
                     meddled, ended, excused>>
  BY Zenon DEF Unsubscribe, clientVars
<1>2. /\ req' \in [Requests -> Request]
      /\ req'[i].at = "failed"
      /\ \A r \in Requests \ {i, MeOf(i)} : req'[r] = req[r]
      /\ IF req[i].at = "loading" THEN req'[MeOf(i)].at = "failed"
         ELSE req'[MeOf(i)] = req[MeOf(i)]
  BY UnsubscribeEffect
<1>3. /\ i \in Principals /\ i \in Requests /\ i # SessionMe /\ SessionMe \in Requests
      /\ MeOf(i) \in Requests /\ MeOf(i) # i /\ MeOf(i) # SessionMe
      /\ \A j \in Principals : j # i => MeOf(j) # MeOf(i) /\ MeOf(j) # i
      /\ \A j \in Principals : MeOf(i) # j /\ j \in Requests /\ MeOf(j) \in Requests
  BY Numbers, RefreshAssumption DEF Pages, SessionMe
<1>4. Scalars'
  <2>1. req[i] \in Request /\ WaitInVain(i) \subseteq Requests
    BY <1>3 DEF IInv, Scalars, WaitInVain, At
  <2>2. cookie' \in Sessions \cup {None}
    BY <1>1, <2>1 DEF Request, IInv, Scalars
  <2> QED
    BY <1>1, <2>1, <2>2 DEF IInv, Scalars
<1>5. stuck' = (stuck \/ (refreshing /\ i \in Leaders))
  BY DEF Unsubscribe
<1>6. Flags'
  BY <1>1, <1>5, Zenon DEF IInv, Flags
<1>7. SessionAtRest'
  BY <1>1, <1>2, <1>3 DEF IInv, SessionAtRest, AtRest
<1>8. LeadersArePrincipals' /\ Leaders' = Leaders \ {i}
  BY <1>1, <1>2, <1>3 DEF IInv, LeadersArePrincipals, ProfilesOfRenewals, UnderWay, Leaders, At
<1>9. ProfilesOfRenewals'
  <2> SUFFICES ASSUME NEW j \in Principals
               PROVE  IF req'[j].at = "loading" THEN UnderWay(MeOf(j))' ELSE AtRest(MeOf(j))'
    BY DEF ProfilesOfRenewals
  <2>1. CASE j = i
    BY <1>2, <1>3, <2>1 DEF IInv, ProfilesOfRenewals, UnderWay, AtRest
  <2>2. CASE j # i
    <3>1. req'[j] = req[j] /\ req'[MeOf(j)] = req[MeOf(j)]
      BY <1>2, <1>3, <2>2
    <3> QED
      BY <3>1 DEF IInv, ProfilesOfRenewals, UnderWay, AtRest
  <2> QED
    BY <2>1, <2>2
<1>10. FlagGuards'
  <2>1. Leaders # {} => i \in Leaders \/ Leaders' # {}
    BY <1>8
  <2>2. /\ Leaders' # {} => Leaders # {}
        /\ (\A j, k \in Leaders : j = k) => \A j, k \in Leaders' : j = k
    BY <1>8
  <2>3. /\ (refreshing' <=> refreshing) /\ (meddled' <=> meddled)
        /\ (stuck' <=> stuck \/ (refreshing /\ i \in Leaders))
    BY <1>1, <1>5
  <2> QED
    BY <2>1, <2>2, <2>3, Zenon DEF IInv, FlagGuards
<1>11. NothingBringsTokens'
  <2>1. SUFFICES ASSUME ended, ~excused
                 PROVE  /\ accessToken' = None /\ cookie' = None /\ flow' = "idle"
                        /\ \A r \in Requests : req'[r].at = "refreshing" => req'[r].cookie = None
    BY <1>1, Zenon DEF NothingBringsTokens
  <2>2. /\ accessToken = None /\ cookie = None /\ flow = "idle"
        /\ \A r \in Requests : req[r].at = "refreshing" => req[r].cookie = None
    BY <2>1, Zenon DEF IInv, NothingBringsTokens
  <2>3. \A r \in Requests : req'[r].at = "refreshing" => req'[r] = req[r]
    BY <1>2
  <2> QED
    BY <1>1, <1>3, <2>2, <2>3
<1>12. Renewal!Next \/ UNCHANGED Renewal!vars
  <2>1. CASE req[i].at \in {"refreshing", "loading"}
    <3>1. i \in Leaders
      BY <1>3, <2>1 DEF Leaders, At
    <3> DEFINE s == IF req[i].at = "loading" THEN MeOf(i) ELSE i
    <3>2. s \in Requests
      BY <1>3
    <3>3. /\ At({"waiting"})' = At({"waiting"}) \ {s}
          /\ At({"retried", "leading"})' = At({"retried", "leading"}) \ {s}
      BY <1>1, <1>2, <1>3, <2>1 DEF At
    <3>4. Renewal!GiveUp(i)
      BY <1>1, <1>8, <3>1, <3>2, <3>3 DEF Renewal!GiveUp
    <3> QED
      BY <1>3, <3>4 DEF Renewal!Next
  <2>2. CASE req[i].at \in {"sent", "waiting", "retried", "leading"}
    <3>1. Leaders' = Leaders
      BY <1>8, <2>2 DEF Leaders, At
    <3>2. /\ At({"waiting"})' = At({"waiting"}) \ {i}
          /\ At({"retried", "leading"})' = At({"retried", "leading"}) \ {i}
      BY <1>1, <1>2, <1>3, <2>2 DEF At
    <3>3. CASE req[i].at = "waiting"
      <4>1. /\ i \in At({"waiting"})
            /\ At({"retried", "leading"})' = At({"retried", "leading"})
        BY <1>3, <3>2, <3>3 DEF At
      <4> QED
        BY <1>1, <1>3, <3>1, <3>2, <4>1 DEF Renewal!Leave, Renewal!Next
    <3>4. CASE req[i].at \in {"retried", "leading"}
      <4>1. /\ i \in At({"retried", "leading"})
            /\ At({"waiting"})' = At({"waiting"})
        BY <1>3, <3>2, <3>4 DEF At
      <4> QED
        BY <1>1, <1>3, <3>1, <3>2, <4>1 DEF Renewal!Settle, Renewal!Next
    <3>5. CASE req[i].at = "sent"
      <4>1. /\ At({"waiting"})' = At({"waiting"})
            /\ At({"retried", "leading"})' = At({"retried", "leading"})
        BY <3>2, <3>5 DEF At
      <4> QED
        BY <1>1, <3>1, <4>1 DEF Renewal!vars
    <3> QED
      BY <2>2, <3>3, <3>4, <3>5
  <2> QED
    BY <1>1, <2>1, <2>2
<1> QED
  BY <1>2, <1>4, <1>6, <1>7, <1>8, <1>9, <1>10, <1>11, <1>12 DEF IInv

-------------------------------------------------------------------------------
LEMMA Step ==
    ASSUME IInv, [Next]_vars
    PROVE  IInv' /\ [Renewal!Next]_Renewal!vars
<1>1. CASE Expire
  BY <1>1, ExpireStep
<1>2. CASE Restored \/ LoggedIn
  BY <1>2, SessionIssued
<1>3. CASE NotRestored \/ NotLoggedIn
  BY <1>3, NoTokensStep
<1>4. CASE Submit \/ Logout
  BY <1>4, SubmitStep, LogoutStep
<1>5. ASSUME NEW ok \in BOOLEAN, LoggedOut(ok)
      PROVE  IInv' /\ [Renewal!Next]_Renewal!vars
  BY <1>5, LoggedOutStep
<1>6. ASSUME NEW i \in Pages, Ask(i) \/ Answered(i) \/ PageFails(i) \/ Unsubscribe(i)
      PROVE  IInv' /\ [Renewal!Next]_Renewal!vars
  BY <1>6, AskStep, AnswerStep, UnsubscribeStep
<1>7. CASE ProfileLoaded \/ ProfileFails
  BY <1>7, ProfileLoadedStep, ProfileFailsStep
<1>8. ASSUME NEW i \in Requests, Rejected(i)
      PROVE  IInv' /\ [Renewal!Next]_Renewal!vars
  BY <1>8, WaitStep, RenewStep
<1>9. ASSUME NEW i \in Principals,
             Refreshed(i) \/ NotRefreshed(i) \/ Release(i) \/ RenewalFails(i) \/ RetryOfLeaderFails(i)
      PROVE  IInv' /\ [Renewal!Next]_Renewal!vars
  BY <1>9, RefreshedStep, ReleaseStep, FailureSteps
<1>10. CASE UNCHANGED vars
  <2>1. UNCHANGED <<accessToken, me, page, refreshing, req, flow, logout, cookie, owner, issued,
                    expired, letdown, stuck, meddled, ended, excused>>
    BY <1>10 DEF vars, clientVars, serverVars, historyVars
  <2>2. Scalars' /\ Flags' /\ SessionAtRest' /\ NothingBringsTokens'
    BY <2>1 DEF IInv, Scalars, Flags, SessionAtRest, AtRest, NothingBringsTokens
  <2>3. FlagGuards'
    BY <2>1, SameRequests, Zenon DEF IInv, FlagGuards
  <2> QED
    BY <2>1, <2>2, <2>3, SameRequests DEF IInv
<1> QED
  BY <1>1, <1>2, <1>3, <1>4, <1>5, <1>6, <1>7, <1>8, <1>9, <1>10 DEF Next, Principals

(* Whatever the pages ask for, however answers, failures, expiries, logins *)
(* and logouts interleave.  Code: jwtInterceptor, AuthService.             *)
THEOREM InductiveInvariant == Spec => []IInv
<1>1. Init => IInv
  BY InitIInv
<1>2. IInv /\ [Next]_vars => IInv'
  BY Step
<1> QED
  BY <1>1, <1>2, PTL DEF Spec

(* Every variable keeps its type; the flag means a renewal that runs or    *)
(* one that was given up since.                                            *)
THEOREM TypeCorrect == Spec => []TypeOK
<1>1. IInv => TypeOK
  BY IInvImpliesTypeOK
<1> QED
  BY <1>1, InductiveInvariant, PTL

(* Until a failed retry resets the flag of a renewal that runs, there is   *)
(* one renewal at a time.  Code: the flag refreshing of jwtInterceptor.    *)
THEOREM OneRenewalAtATime == Spec => []OneRenewal
<1>1. IInv => OneRenewal
  <2>1. SUFFICES ASSUME IInv, ~meddled PROVE Cardinality(Leaders) <= 1
    BY Zenon DEF OneRenewal
  <2>2. \A i, j \in Leaders : i = j
    BY <2>1, Zenon DEF IInv, FlagGuards
  <2>3. CASE Leaders = {}
    BY <2>3, FS_EmptySet
  <2>4. CASE Leaders # {}
    <3>1. PICK i : Leaders = {i}
      BY <2>2, <2>4
    <3> QED
      BY <3>1, FS_Singleton
  <2> QED
    BY <2>3, <2>4
<1> QED
  BY <1>1, InductiveInvariant, PTL

(* After a logout there is no token until somebody logs in, unless the     *)
(* backend failed or a login or renewal was running.  Code: logout and     *)
(* clear of AuthService.                                                   *)
THEOREM LogoutLasts == Spec => []LoggedOutStaysOut
<1>1. IInv => LoggedOutStaysOut
  BY Zenon DEF IInv, NothingBringsTokens, LoggedOutStaysOut
<1> QED
  BY <1>1, InductiveInvariant, PTL

(* The interceptor implements the group renewal.  Code: both branches of   *)
(* catchError in jwtInterceptor.                                           *)
THEOREM Implements == Spec => RenewsAsAGroup
<1>1. Init => Renewal!Init
  <2> SUFFICES ASSUME Init PROVE Renewal!Init
    OBVIOUS
  <2>1. \A i \in Requests : req[i].at = "new"
    BY DEF Init, Unsent
  <2>2. ~refreshing
    BY DEF Init
  <2> QED
    BY <2>1, <2>2 DEF Renewal!Init, Leaders, At
<1>2. IInv /\ [Next]_vars => [Renewal!Next]_Renewal!vars
  BY Step
<1> QED
  BY <1>1, <1>2, InductiveInvariant, PTL DEF Spec, RenewsAsAGroup, Renewal!Spec
================================================================================
