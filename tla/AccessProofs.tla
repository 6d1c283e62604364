----------------------------- MODULE AccessProofs ----------------------------
(***************************************************************************)
(* Proofs about Access, for every number of users, handlers, roles,        *)
(* permissions, starts and edits: the inductive invariant, and from it what *)
(* log-in, tokens, the checks and the bootstrap promise.                   *)
(***************************************************************************)
EXTENDS Access, TLAPS

-----------------------------------------------------------------------------
(* How the parts of the invariant that concern one request are kept.       *)

(* A change of users or grants that Notice follows: callers are told what  *)
(* they have now, and nobody is served by it (app/api/deps.py).            *)
LEMMA NoticeKeepsCalls ==
  ASSUME TypeOK, RequestInv, ServedHadRights, Notice,
         \A r \in Request : Calling(r)' => pc'[r] = pc[r] /\ req'[r] = req[r],
         \A r \in Request : pc'[r] = "served" => pc[r] = "served"
  PROVE  /\ \A r \in Request : CallOf(r)'
         /\ ServedHadRights'
         /\ lacked' \in [Request -> SUBSET {"active", "permission"}]
<1>1. lacked' \in [Request -> SUBSET {"active", "permission"}]
  BY DEF Notice, TypeOK
<1>2. ASSUME NEW r \in Request PROVE CallOf(r)'
  <2>1. Calling(r)' => lacked'[r] = lacked[r] \cap Lacking(req[r].id, req[r].code)'
    BY DEF Notice, Calling
  <2>2. QED
    BY <2>1 DEF CallOf, RequestInv, Calling
<1>3. ServedHadRights'
  BY DEF Notice, ServedHadRights, Calling
<1> QED
  BY <1>1, <1>2, <1>3

(* The times of tokens made now.                                           *)
LEMMA Times ==
  ASSUME TypeOK
  PROVE  /\ now \in Nat /\ now + AccessLife \in Nat /\ now + RefreshLife \in Nat
         /\ now + AccessLife <= now + RefreshLife
<1>1. now \in 0 .. MaxTime
  BY DEF TypeOK
<1>2. /\ MaxTime \in Nat /\ AccessLife \in Nat /\ RefreshLife \in Nat
      /\ AccessLife <= RefreshLife
  BY AccessAssumption
<1> QED
  BY <1>1, <1>2

(* Edits stay within their bound.                                          *)
LEMMA EditsCounted ==
  ASSUME TypeOK, edits < MaxEdits, edits' = edits + 1
  PROVE  edits' \in 0 .. MaxEdits
<1>1. edits \in 0 .. MaxEdits
  BY DEF TypeOK
<1>2. MaxEdits \in Nat
  BY AccessAssumption
<1> QED
  BY <1>1, <1>2

(* What concerns one request is kept by a step that it and the tables have *)
(* no part in.                                                             *)
LEMMA SameRequest ==
  ASSUME RequestInv, NEW q \in Request, UNCHANGED <<user, used, grant, server>>,
         pc'[q] = pc[q], req'[q] = req[q], lacked'[q] = lacked[q]
  PROVE  (RequestOf(q) /\ CallOf(q))'
<1>1. RequestOf(q)'
  BY DEF RequestInv, RequestOf
<1>2. CallOf(q)'
  <2>1. Lacking(req[q].id, req[q].code)' = Lacking(req[q].id, req[q].code)
    BY DEF Lacking, IsActive, IsPermitted, IsGranted
  <2> QED
    BY <2>1 DEF RequestInv, CallOf, Calling
<1> QED
  BY <1>1, <1>2

(* A step of a handler that neither reads the clock nor writes a table.    *)
LEMMA GotoStep ==
  ASSUME AccessInv, NEW r \in Request, NEW step \in {"insert", "permission"} \cup Answer,
         Goto(r, step), pc[r] \in Awaiting,
         step = "permission" => pc[r] = "user" /\ "active" \notin lacked[r],
         step = "served" => lacked[r] = {}
  PROVE  AccessInv'
<1> USE DEF AccessInv, Goto, Proceed, tables
<1>1. TypeOK'
  BY DEF TypeOK, NoRequest, Awaiting, Answer
<1>2. RequestInv'
  <2> SUFFICES ASSUME NEW q \in Request PROVE (RequestOf(q) /\ CallOf(q))'
    BY DEF RequestInv
  <2>1. CASE q = r
    BY <2>1 DEF TypeOK, RequestInv, RequestOf, CallOf, Calling, Awaiting, Answer, Lacking,
                IsActive, IsPermitted, IsGranted
  <2>2. CASE q # r
    <3>1. UNCHANGED <<user, used, grant, server>>
      OBVIOUS
    <3>2. pc'[q] = pc[q] /\ req'[q] = req[q] /\ lacked'[q] = lacked[q]
      BY <2>2 DEF TypeOK
    <3> QED
      BY <3>1, <3>2, SameRequest
  <2> QED
    BY <2>1, <2>2
<1>3. BootRow' /\ BootCovers'
  BY DEF BootRow, BootCovers, RowsOf, Differing
<1>4. TokensExpire' /\ BannedSessionsEnd'
  BY DEF TokensExpire, BannedSessionsEnd, Banned
<1>5. SuperAdminInForce'
  BY DEF SuperAdminInForce, RowsOf
<1>6. ServedHadRights'
  BY DEF ServedHadRights, TypeOK
<1> QED
  BY <1>1, <1>2, <1>3, <1>4, <1>5, <1>6

(* New tokens go to users that are not banned.                             *)
LEMMA IssueStep ==
  ASSUME AccessInv, NEW r \in Request, NEW u \in UserId, Issue(r, u),
         pc[r] \in Awaiting, ~Banned(u)
  PROVE  AccessInv'
<1> USE DEF AccessInv, Issue, Proceed, tables, seen
<1>a. /\ now \in Nat /\ now + AccessLife \in Nat /\ now + RefreshLife \in Nat
      /\ now + AccessLife <= now + RefreshLife
  BY Times
<1>1. TypeOK'
  <2>1. expiry' \in [UserId -> [access : Nat \cup {-1}, refresh : Nat \cup {-1}]]
    BY <1>a DEF TypeOK
  <2>2. /\ pc' \in [Request -> {"idle"} \cup Awaiting \cup Answer]
        /\ req' \in [Request -> [person : Person \cup {None}, id : UserId \cup {None},
                                 code : Code \cup {None}]]
    BY DEF TypeOK, NoRequest, Awaiting, Answer
  <2> QED
    BY <2>1, <2>2 DEF TypeOK
<1>2. RequestInv'
  <2> SUFFICES ASSUME NEW q \in Request PROVE (RequestOf(q) /\ CallOf(q))'
    BY DEF RequestInv
  <2>1. CASE q = r
    BY <2>1 DEF TypeOK, RequestOf, CallOf, Calling, Awaiting
  <2>2. CASE q # r
    <3>1. UNCHANGED <<user, used, grant, server>>
      OBVIOUS
    <3>2. pc'[q] = pc[q] /\ req'[q] = req[q] /\ lacked'[q] = lacked[q]
      BY <2>2 DEF TypeOK
    <3> QED
      BY <3>1, <3>2, SameRequest
  <2> QED
    BY <2>1, <2>2
<1>3. BootRow' /\ BootCovers'
  BY DEF BootRow, BootCovers, RowsOf, Differing
<1>4. TokensExpire' /\ BannedSessionsEnd'
  <2>1. expiry'[u] = [access |-> now + AccessLife, refresh |-> now + RefreshLife]
    BY DEF TypeOK
  <2>2. \A v \in UserId \ {u} : expiry'[v] = expiry[v]
    BY DEF TypeOK
  <2>3. TokensExpire'
    BY <1>a, <2>1, <2>2 DEF TokensExpire
  <2>4. BannedSessionsEnd'
    BY <2>2 DEF BannedSessionsEnd, Banned, TypeOK
  <2> QED
    BY <2>3, <2>4
<1>5. SuperAdminInForce'
  BY DEF SuperAdminInForce, RowsOf
<1>6. ServedHadRights'
  BY DEF ServedHadRights, TypeOK
<1> QED
  BY <1>1, <1>2, <1>3, <1>4, <1>5, <1>6

(* A request arrives and has not been looked at.                           *)
LEMMA ArriveStep ==
  ASSUME AccessInv, NEW r \in Request, NEW request, NEW step,
         Arrive(r, request, step),
         request \in [person : Person \cup {None}, id : UserId \cup {None},
                      code : Code \cup {None}],
         step \in {"login", "refresh", "user", "error", "unauthorized"},
         step \in {"refresh", "user"} => request.id \in used,
         IF step = "user" THEN lacked' = [lacked EXCEPT ![r] = Lacking(request.id, request.code)]
                          ELSE UNCHANGED lacked
  PROVE  AccessInv'
<1> USE DEF AccessInv, Arrive, Proceed, tables
<1>1. TypeOK'
  BY DEF TypeOK, NoRequest, Awaiting, Answer, Lacking
<1>2. RequestInv'
  <2> SUFFICES ASSUME NEW q \in Request PROVE (RequestOf(q) /\ CallOf(q))'
    BY DEF RequestInv
  <2>1. CASE q = r
    <3>1. pc'[r] = step /\ (step \in Awaiting => req'[r] = request)
      BY DEF TypeOK
    <3>2. RequestOf(r)'
      BY <3>1 DEF RequestOf, Awaiting
    <3>3. CallOf(r)'
      BY <3>1 DEF TypeOK, CallOf, Calling, Awaiting, Lacking, IsActive, IsPermitted, IsGranted
    <3> QED
      BY <2>1, <3>2, <3>3
  <2>2. CASE q # r
    <3>1. UNCHANGED <<user, used, grant, server>>
      OBVIOUS
    <3>2. pc'[q] = pc[q] /\ req'[q] = req[q] /\ lacked'[q] = lacked[q]
      BY <2>2 DEF TypeOK
    <3> QED
      BY <3>1, <3>2, SameRequest
  <2> QED
    BY <2>1, <2>2
<1>3. BootRow' /\ BootCovers'
  BY DEF BootRow, BootCovers, RowsOf, Differing
<1>4. TokensExpire' /\ BannedSessionsEnd'
  BY DEF TokensExpire, BannedSessionsEnd, Banned
<1>5. SuperAdminInForce'
  BY DEF SuperAdminInForce, RowsOf
<1>6. ServedHadRights'
  BY DEF ServedHadRights, TypeOK
<1> QED
  BY <1>1, <1>2, <1>3, <1>4, <1>5, <1>6

-----------------------------------------------------------------------------
(* The handlers.                                                           *)

(* Requests arrive (app/core/security.py, app/api/deps.py:10-20).          *)
LEMMA ReceiveSteps ==
  ASSUME AccessInv, NEW r \in Request,
         ReceiveLogin(r) \/ ReceiveRefresh(r) \/ ReceiveCall(r)
  PROVE  AccessInv'
<1>1. CASE ReceiveLogin(r)
  <2>1. PICK p \in Person, genuine \in BOOLEAN :
          Arrive(r, [NoRequest EXCEPT !.person = p], IF genuine THEN "login" ELSE "error")
    BY <1>1 DEF ReceiveLogin
  <2>2. [NoRequest EXCEPT !.person = p] \in [person : Person \cup {None},
           id : UserId \cup {None}, code : Code \cup {None}]
    BY DEF NoRequest
  <2>3. UNCHANGED lacked
    BY <1>1 DEF ReceiveLogin
  <2> QED
    BY <2>1, <2>2, <2>3, ArriveStep
<1>2. CASE ReceiveRefresh(r)
  <2>1. PICK u \in used :
          Arrive(r, [NoRequest EXCEPT !.id = u],
                 IF expiry[u].refresh >= now THEN "refresh" ELSE "unauthorized")
    BY <1>2 DEF ReceiveRefresh
  <2>2. /\ [NoRequest EXCEPT !.id = u] \in [person : Person \cup {None},
              id : UserId \cup {None}, code : Code \cup {None}]
        /\ [NoRequest EXCEPT !.id = u].id = u
    BY DEF NoRequest, AccessInv, TypeOK
  <2>3. UNCHANGED lacked
    BY <1>2 DEF ReceiveRefresh
  <2> QED
    BY <2>1, <2>2, <2>3, ArriveStep
<1>3. CASE ReceiveCall(r)
  <2>1. PICK u \in used, code \in Code :
          IF expiry[u].access >= now
          THEN /\ Arrive(r, [NoRequest EXCEPT !.id = u, !.code = code], "user")
               /\ lacked' = [lacked EXCEPT ![r] = Lacking(u, code)]
          ELSE Arrive(r, NoRequest, "unauthorized") /\ UNCHANGED lacked
    BY <1>3 DEF ReceiveCall
  <2> DEFINE call == [NoRequest EXCEPT !.id = u, !.code = code]
  <2>2. /\ NoRequest \in [person : Person \cup {None}, id : UserId \cup {None},
                          code : Code \cup {None}]
        /\ call \in [person : Person \cup {None}, id : UserId \cup {None},
                     code : Code \cup {None}]
        /\ call.id = u /\ call.code = code
    BY DEF NoRequest, AccessInv, TypeOK
  <2>3. CASE expiry[u].access >= now
    <3> HIDE DEF call
    <3>1. Arrive(r, call, "user") /\ lacked' = [lacked EXCEPT ![r] = Lacking(call.id, call.code)]
      BY <2>1, <2>2, <2>3 DEF call
    <3> QED
      BY <2>2, <3>1, ArriveStep
  <2>4. CASE ~(expiry[u].access >= now)
    BY <2>1, <2>2, <2>4, ArriveStep
  <2> QED
    BY <2>3, <2>4
<1> QED
  BY <1>1, <1>2, <1>3

(* A log-in: tokens for the super admin, or for who is listed and active   *)
(* (app/api/auth.py:20-43).                                                *)
LEMMA LoginSteps ==
  ASSUME AccessInv, NEW r \in Request,
         LoginKnown(r) \/ LoginUnknown(r) \/ InsertTwice(r) \/ Reload(r)
  PROVE  AccessInv'
<1>1. CASE LoginKnown(r)
  <2>1. PICK u \in RowsOf(req[r].person) :
          IF Welcome(u) THEN Issue(r, u) ELSE Goto(r, "forbidden")
    BY <1>1 DEF LoginKnown
  <2>2. u \in DOMAIN user /\ u \in UserId /\ pc[r] \in Awaiting
    BY <1>1 DEF RowsOf, LoginKnown, Awaiting, AccessInv, TypeOK
  <2>3. CASE Welcome(u)
    <3>1. ~Banned(u)
      BY <2>2, <2>3 DEF Welcome, Banned
    <3> QED
      BY <2>1, <2>2, <2>3, <3>1, IssueStep
  <2>4. CASE ~Welcome(u)
    BY <2>1, <2>2, <2>4, GotoStep DEF Answer
  <2> QED
    BY <2>3, <2>4
<1>2. CASE LoginUnknown(r)
  BY <1>2, GotoStep DEF LoginUnknown, Answer, Awaiting
<1>3. CASE InsertTwice(r)
  BY <1>3, GotoStep DEF InsertTwice, Answer, Awaiting
<1>4. CASE Reload(r)
  <2>1. pc[r] \in Awaiting
    BY <1>4 DEF Reload, Awaiting
  <2>2. CASE req[r].id \in DOMAIN user
    <3>1. ~Banned(req[r].id) /\ req[r].id \in UserId
      BY <1>4, <2>2 DEF Reload, Banned, AccessInv, TypeOK, RequestInv, RequestOf
    <3> QED
      BY <1>4, <2>1, <2>2, <3>1, IssueStep DEF Reload
  <2>3. CASE req[r].id \notin DOMAIN user
    BY <1>4, <2>1, <2>3, GotoStep DEF Reload, Answer
  <2> QED
    BY <2>2, <2>3
<1> QED
  BY <1>1, <1>2, <1>3, <1>4

(* A refresh: tokens for an active user only (app/api/auth.py:53-57).      *)
LEMMA RefreshStep ==
  ASSUME AccessInv, NEW r \in Request, RefreshUser(r)
  PROVE  AccessInv'
<1>1. pc[r] \in Awaiting
  BY DEF RefreshUser, Awaiting
<1>2. CASE IsActive(req[r].id)
  <2>1. ~Banned(req[r].id) /\ req[r].id \in UserId
    BY <1>2 DEF Banned, IsActive, AccessInv, TypeOK
  <2> QED
    BY <1>1, <1>2, <2>1, IssueStep DEF RefreshUser
<1>3. CASE ~IsActive(req[r].id)
  BY <1>1, <1>3, GotoStep DEF RefreshUser, Answer
<1> QED
  BY <1>2, <1>3

(* Both checks: what they find now the caller has not lacked all along.    *)
LEMMA CheckSteps ==
  ASSUME AccessInv, NEW r \in Request, GetUser(r) \/ CheckPermission(r)
  PROVE  AccessInv'
<1> DEFINE id == req[r].id
           code == req[r].code
<1>1. pc[r] \in Awaiting /\ lacked[r] \subseteq {"active", "permission"}
  BY DEF GetUser, CheckPermission, Awaiting, AccessInv, TypeOK
<1>2. lacked[r] \subseteq Lacking(id, code)
  BY DEF GetUser, CheckPermission, AccessInv, RequestInv, CallOf, Calling
<1>3. CASE GetUser(r)
  <2>1. CASE ~IsActive(id)
    <3>1. Goto(r, "forbidden")
      BY <1>3, <2>1 DEF GetUser
    <3> QED
      BY <1>1, <3>1, GotoStep DEF Answer
  <2>2. CASE IsActive(id) /\ user[id].super
    <3>1. lacked[r] = {}
      BY <1>2, <2>2 DEF Lacking, IsActive, IsPermitted
    <3>2. Goto(r, "served")
      BY <1>3, <2>2 DEF GetUser
    <3> QED
      BY <1>1, <3>1, <3>2, GotoStep DEF Answer
  <2>3. CASE IsActive(id) /\ ~user[id].super
    <3>1. "active" \notin lacked[r]
      BY <1>2, <2>3 DEF Lacking
    <3>2. Goto(r, "permission") /\ pc[r] = "user"
      BY <1>3, <2>3 DEF GetUser
    <3> QED
      BY <1>1, <3>1, <3>2, GotoStep
  <2> QED
    BY <2>1, <2>2, <2>3
<1>4. CASE CheckPermission(r)
  <2>1. CASE IsGranted(id, code)
    <3>1. lacked[r] = {}
      BY <1>1, <1>2, <1>4, <2>1
        DEF Lacking, IsPermitted, CheckPermission, AccessInv, RequestInv, CallOf
    <3>2. Goto(r, "served")
      BY <1>4, <2>1 DEF CheckPermission
    <3> QED
      BY <1>1, <3>1, <3>2, GotoStep DEF Answer
  <2>2. CASE ~IsGranted(id, code)
    BY <1>1, <1>4, <2>2, GotoStep DEF CheckPermission, Answer
  <2> QED
    BY <2>1, <2>2
<1> QED
  BY <1>3, <1>4

-----------------------------------------------------------------------------
(* Users and grants change.                                                *)

(* The row a log-in makes is the super admin's and active.                 *)
LEMMA InsertStep ==
  ASSUME AccessInv, NEW r \in Request, InsertUser(r)
  PROVE  AccessInv'
<1> USE DEF AccessInv
<1>1. PICK u \in UserId \ used :
        /\ user' = [v \in DOMAIN user \cup {u} |->
                      IF v = u THEN NewRow(SuperAdmin, "own", TRUE) ELSE user[v]]
        /\ used' = used \cup {u}
        /\ Proceed(r, [NoRequest EXCEPT !.person = SuperAdmin, !.id = u], "reload")
  BY DEF InsertUser
<1>2. /\ pc[r] = "insert" /\ Vacant(SuperAdmin) /\ Notice
      /\ UNCHANGED <<grant, server, expiry, now, edits, since, meddled>>
  BY DEF InsertUser
<1>3. server.step = "up"
  BY <1>2 DEF RequestInv, RequestOf, Awaiting
<1>4. pc' = [pc EXCEPT ![r] = "reload"] /\ req'[r].id = u /\ \A q \in Request \ {r} : req'[q] = req[q]
  BY <1>1 DEF Proceed, NoRequest, TypeOK, Awaiting
<1>5. (\A q \in Request : CallOf(q)') /\ ServedHadRights'
      /\ lacked' \in [Request -> SUBSET {"active", "permission"}]
  <2>1. \A q \in Request : Calling(q)' => pc'[q] = pc[q] /\ req'[q] = req[q]
    BY <1>4 DEF Calling, TypeOK
  <2>2. \A q \in Request : pc'[q] = "served" => pc[q] = "served"
    BY <1>4 DEF TypeOK
  <2> QED
    BY <1>2, <2>1, <2>2, NoticeKeepsCalls
<1>6. TypeOK'
  <2>1. /\ used' \subseteq UserId /\ DOMAIN user' \subseteq used' /\ user' \in [DOMAIN user' -> Row]
    BY <1>1, AccessAssumption DEF TypeOK, NewRow, Row
  <2>2. \A v, w \in DOMAIN user' : user'[v].person = user'[w].person => v = w
    BY <1>1, <1>2 DEF TypeOK, NewRow, Vacant, RowsOf
  <2>3. /\ pc' \in [Request -> {"idle"} \cup Awaiting \cup Answer]
        /\ req' \in [Request -> [person : Person \cup {None}, id : UserId \cup {None},
                                 code : Code \cup {None}]]
    BY <1>1, AccessAssumption DEF TypeOK, Proceed, NoRequest, Awaiting
  <2> QED
    BY <1>2, <1>5, <2>1, <2>2, <2>3 DEF TypeOK
<1>7. \A q \in Request : RequestOf(q)'
  <2> SUFFICES ASSUME NEW q \in Request PROVE RequestOf(q)'
    OBVIOUS
  <2>1. CASE q = r
    BY <1>1, <1>2, <1>3, <1>4, <2>1 DEF RequestOf, TypeOK, NewRow
  <2>2. CASE q # r
    BY <1>1, <1>2, <1>4, <2>2 DEF RequestInv, RequestOf, TypeOK
  <2> QED
    BY <2>1, <2>2
<1>8. BootRow' /\ BootCovers'
  BY <1>2, <1>3 DEF BootRow, BootCovers
<1>9. TokensExpire' /\ BannedSessionsEnd'
  BY <1>1, <1>2 DEF TokensExpire, BannedSessionsEnd, Banned, NewRow, TypeOK
<1>10. SuperAdminInForce'
  BY <1>2, <1>3 DEF SuperAdminInForce, Vacant
<1> QED
  BY <1>5, <1>6, <1>7, <1>8, <1>9, <1>10 DEF RequestInv

(* A user that is added has a fresh id, so no start is about to write it.  *)
LEMMA AddUserStep ==
  ASSUME AccessInv, AddUser
  PROVE  AccessInv'
<1> USE DEF AccessInv
<1>1. PICK p \in Person \ {SuperAdmin}, u \in UserId \ used :
        /\ RowsOf(p) = {} /\ Held(u) = {}
        /\ user' = [v \in DOMAIN user \cup {u} |-> IF v = u THEN NewRow(p, "own", FALSE)
                                                            ELSE user[v]]
        /\ used' = used \cup {u}
  BY DEF AddUser
<1>2. /\ Notice /\ edits < MaxEdits /\ edits' = edits + 1
      /\ UNCHANGED <<grant, since, meddled, server, requests, now>>
  BY DEF AddUser, Edit
<1>3. (\A q \in Request : CallOf(q)') /\ ServedHadRights'
      /\ lacked' \in [Request -> SUBSET {"active", "permission"}]
  BY <1>2, NoticeKeepsCalls DEF Calling, requests
<1>4. TypeOK'
  <2>1. /\ used' \subseteq UserId /\ DOMAIN user' \subseteq used' /\ user' \in [DOMAIN user' -> Row]
    BY <1>1 DEF TypeOK, NewRow, Row
  <2>2. \A v, w \in DOMAIN user' : user'[v].person = user'[w].person => v = w
    BY <1>1 DEF TypeOK, NewRow, RowsOf
  <2>3. edits' \in 0 .. MaxEdits
    BY <1>2, EditsCounted
  <2> QED
    BY <1>2, <1>3, <2>1, <2>2, <2>3 DEF TypeOK, requests
<1>5. \A q \in Request : RequestOf(q)'
  BY <1>1, <1>2 DEF RequestInv, RequestOf, TypeOK, requests
<1>6. BootRow'
  BY <1>1, <1>2 DEF BootRow, Held, RowsOf, NewRow, Column, TypeOK
<1>7. BootCovers'
  <2>1. server.step = "commit" /\ ~server.new => server.id # u
    BY <1>1 DEF BootRow
  <2>2. server.id \in DOMAIN user /\ server.id # u =>
          server.id \in DOMAIN user' /\ Differing(user[server.id])' = Differing(user[server.id])
    BY <1>1, <1>2 DEF Differing
  <2> QED
    BY <1>2, <2>1, <2>2 DEF BootCovers
<1>8. TokensExpire' /\ BannedSessionsEnd'
  BY <1>1, <1>2 DEF TokensExpire, BannedSessionsEnd, Banned, NewRow, TypeOK, requests
<1>9. SuperAdminInForce'
  BY <1>1, <1>2 DEF SuperAdminInForce, RowsOf, TypeOK
<1> QED
  BY <1>3, <1>4, <1>5, <1>6, <1>7, <1>8, <1>9 DEF RequestInv

(* Who is edited to be banned was not so before, and is from now on; what  *)
(* the start has found different in a row stays so while it holds the row. *)
LEMMA EditUserStep ==
  ASSUME AccessInv, NEW u \in DOMAIN user, EditUser(u)
  PROVE  AccessInv'
<1> USE DEF AccessInv
<1>1. PICK row \in EditsOf(user[u]) \ {user[u]} :
        /\ IF row.roles = user[u].roles THEN Held(u) \subseteq {"roles"}
                                        ELSE "roles" \notin Held(u)
        /\ user' = [user EXCEPT ![u] = row]
        /\ since' = IF user[u].active /\ ~row.active THEN [since EXCEPT ![u] = now] ELSE since
  BY DEF EditUser
<1>2. /\ Notice /\ edits < MaxEdits /\ edits' = edits + 1
      /\ meddled' = (meddled \/ user[u].person = SuperAdmin)
      /\ UNCHANGED <<used, grant, server, requests, now>>
  BY DEF EditUser, Edit
<1>3. row \in Row /\ row.person = user[u].person
  <2>1. user[u] \in Row
    BY DEF TypeOK
  <2>2. row \in EditsOf(user[u])
    OBVIOUS
  <2> HIDE DEF AccessInv
  <2>3. CASE row \in {[user[u] EXCEPT !.active = ~@], [user[u] EXCEPT !.listed = ~@],
                      [user[u] EXCEPT !.super = ~@]}
    BY <2>1, <2>3 DEF Row
  <2>4. CASE \E role \in Role : \/ row = [user[u] EXCEPT !.roles = @ \cup {role}]
                               \/ row = [user[u] EXCEPT !.roles = @ \ {role}]
    BY <2>1, <2>4 DEF Row
  <2> QED
    BY <2>2, <2>3, <2>4 DEF EditsOf
<1>4. (\A q \in Request : CallOf(q)') /\ ServedHadRights'
      /\ lacked' \in [Request -> SUBSET {"active", "permission"}]
  BY <1>2, NoticeKeepsCalls DEF Calling, requests
<1>5. TypeOK'
  <2>1. /\ DOMAIN user' = DOMAIN user /\ user' \in [DOMAIN user' -> Row]
        /\ \A v \in DOMAIN user : user'[v].person = user[v].person
    BY <1>1, <1>3 DEF TypeOK
  <2>2. since' \in [UserId -> 0 .. MaxTime] /\ meddled' \in BOOLEAN
    BY <1>1, <1>2 DEF TypeOK
  <2>3. edits' \in 0 .. MaxEdits
    BY <1>2, EditsCounted
  <2> QED
    BY <1>2, <1>4, <2>1, <2>2, <2>3 DEF TypeOK, requests
<1>6. /\ DOMAIN user' = DOMAIN user
      /\ \A v \in DOMAIN user : user'[v].person = user[v].person
      /\ \A v \in DOMAIN user \ {u} : user'[v] = user[v]
      /\ user'[u] = row
  BY <1>1, <1>3 DEF TypeOK
<1>7. \A q \in Request : RequestOf(q)'
  BY <1>2, <1>6 DEF RequestInv, RequestOf, requests
<1>8. BootRow'
  BY <1>2, <1>6 DEF BootRow, RowsOf
<1>9. BootCovers'
  <2> SUFFICES ASSUME ~meddled' PROVE BootCovers'
    BY DEF BootCovers
  <2>1. ~meddled /\ user[u].person # SuperAdmin
    BY <1>2 DEF TypeOK
  <2>2. server.step = "commit" /\ ~server.new => server.id # u
    BY <2>1 DEF BootRow
  <2>3. server.id \in DOMAIN user /\ server.id # u =>
          server.id \in DOMAIN user' /\ Differing(user[server.id])' = Differing(user[server.id])
    BY <1>2, <1>6 DEF Differing
  <2> QED
    BY <1>2, <2>1, <2>2, <2>3 DEF BootCovers
<1>10. TokensExpire'
  BY <1>2 DEF TokensExpire, requests
<1>11. BannedSessionsEnd'
  <2> SUFFICES ASSUME NEW v \in used, Banned(v)'
               PROVE  /\ expiry[v].access <= since'[v] + RefreshLife
                      /\ expiry[v].refresh <= since'[v] + RefreshLife
    BY <1>2 DEF BannedSessionsEnd, requests
  <2>1. CASE Banned(v) /\ since'[v] = since[v]
    BY <2>1 DEF BannedSessionsEnd
  <2>2. CASE since'[v] = now
    BY <2>2 DEF TokensExpire, TypeOK
  <2>3. since'[v] = now \/ (Banned(v) /\ since'[v] = since[v])
    BY <1>1, <1>3, <1>6 DEF Banned, TypeOK, Row
  <2> QED
    BY <2>1, <2>2, <2>3
<1>12. SuperAdminInForce'
  <2> SUFFICES ASSUME ~meddled', server.step = "up" PROVE SuperAdminInForce'
    BY <1>2 DEF SuperAdminInForce
  <2>1. ~meddled /\ user[u].person # SuperAdmin
    BY <1>2 DEF TypeOK
  <2> QED
    BY <1>2, <1>6, <2>1 DEF SuperAdminInForce, RowsOf
<1> QED
  BY <1>4, <1>5, <1>7, <1>8, <1>9, <1>10, <1>11, <1>12 DEF RequestInv

(* The tokens of who is deleted now expire one refresh period from now.    *)
LEMMA DeleteUserStep ==
  ASSUME AccessInv, NEW u \in DOMAIN user, DeleteUser(u)
  PROVE  AccessInv'
<1> USE DEF AccessInv
<1>1. /\ Held(u) = {} /\ Notice /\ edits < MaxEdits /\ edits' = edits + 1
      /\ user' = [v \in DOMAIN user \ {u} |-> user[v]]
      /\ since' = [since EXCEPT ![u] = now]
      /\ meddled' = (meddled \/ user[u].person = SuperAdmin)
      /\ UNCHANGED <<used, grant, server, requests, now>>
  BY DEF DeleteUser, Edit
<1>2. (\A q \in Request : CallOf(q)') /\ ServedHadRights'
      /\ lacked' \in [Request -> SUBSET {"active", "permission"}]
  BY <1>1, NoticeKeepsCalls DEF Calling, requests
<1>3. TypeOK'
  <2>1. /\ DOMAIN user' \subseteq used' /\ user' \in [DOMAIN user' -> Row]
        /\ \A v, w \in DOMAIN user' : user'[v].person = user'[w].person => v = w
    BY <1>1 DEF TypeOK
  <2>2. since' \in [UserId -> 0 .. MaxTime] /\ meddled' \in BOOLEAN
    BY <1>1 DEF TypeOK
  <2>3. edits' \in 0 .. MaxEdits
    BY <1>1, EditsCounted
  <2> QED
    BY <1>1, <1>2, <2>1, <2>2, <2>3 DEF TypeOK, requests
<1>4. \A q \in Request : RequestOf(q)'
  BY <1>1 DEF RequestInv, RequestOf, requests
<1>5. BootRow'
  BY <1>1 DEF BootRow, Held, RowsOf
<1>6. BootCovers'
  <2> SUFFICES ASSUME ~meddled' PROVE BootCovers'
    BY DEF BootCovers
  <2>1. ~meddled /\ user[u].person # SuperAdmin
    BY <1>1 DEF TypeOK
  <2>2. server.step = "commit" /\ ~server.new => server.id # u
    BY <2>1 DEF BootRow
  <2>3. server.id \in DOMAIN user /\ server.id # u =>
          server.id \in DOMAIN user' /\ Differing(user[server.id])' = Differing(user[server.id])
    BY <1>1 DEF Differing
  <2> QED
    BY <1>1, <2>1, <2>2, <2>3 DEF BootCovers
<1>7. TokensExpire'
  BY <1>1 DEF TokensExpire, requests
<1>8. BannedSessionsEnd'
  <2> SUFFICES ASSUME NEW v \in used, Banned(v)'
               PROVE  /\ expiry[v].access <= since'[v] + RefreshLife
                      /\ expiry[v].refresh <= since'[v] + RefreshLife
    BY <1>1 DEF BannedSessionsEnd, requests
  <2>1. CASE v = u
    BY <1>1, <2>1 DEF TokensExpire, TypeOK
  <2>2. CASE v # u
    <3>1. Banned(v) /\ since'[v] = since[v]
      BY <1>1, <2>2 DEF Banned, TypeOK
    <3> QED
      BY <3>1 DEF BannedSessionsEnd
  <2> QED
    BY <2>1, <2>2
<1>9. SuperAdminInForce'
  <2> SUFFICES ASSUME ~meddled', server.step = "up" PROVE SuperAdminInForce'
    BY <1>1 DEF SuperAdminInForce
  <2>1. ~meddled /\ user[u].person # SuperAdmin
    BY <1>1 DEF TypeOK
  <2> QED
    BY <1>1, <2>1 DEF SuperAdminInForce, RowsOf
<1> QED
  BY <1>2, <1>3, <1>4, <1>5, <1>6, <1>7, <1>8, <1>9 DEF RequestInv

(* A grant that changes is noticed by callers, and meddles with a start.   *)
LEMMA EditGrantStep ==
  ASSUME AccessInv, EditGrant
  PROVE  AccessInv'
<1> USE DEF AccessInv
<1>1. PICK g \in Role \X Code : grant' = IF g \in grant THEN grant \ {g} ELSE grant \cup {g}
  BY DEF EditGrant
<1>2. /\ meddled' = TRUE /\ Notice /\ edits < MaxEdits /\ edits' = edits + 1
      /\ UNCHANGED <<user, used, since, server, requests, now>>
  BY DEF EditGrant, Edit
<1>3. (\A q \in Request : CallOf(q)') /\ ServedHadRights'
      /\ lacked' \in [Request -> SUBSET {"active", "permission"}]
  BY <1>2, NoticeKeepsCalls DEF Calling, requests
<1>4. TypeOK'
  <2>1. grant' \subseteq Role \X Code
    BY <1>1 DEF TypeOK
  <2>2. edits' \in 0 .. MaxEdits
    BY <1>2, EditsCounted
  <2> QED
    BY <1>2, <1>3, <2>1, <2>2 DEF TypeOK, requests
<1>5. \A q \in Request : RequestOf(q)'
  BY <1>2 DEF RequestInv, RequestOf, requests
<1>6. BootRow' /\ BootCovers' /\ SuperAdminInForce'
  BY <1>2 DEF BootRow, BootCovers, SuperAdminInForce, RowsOf
<1>7. TokensExpire' /\ BannedSessionsEnd'
  BY <1>2 DEF TokensExpire, BannedSessionsEnd, Banned, requests
<1> QED
  BY <1>3, <1>4, <1>5, <1>6, <1>7 DEF RequestInv

-----------------------------------------------------------------------------
(* The process starts, dies, and time passes.                              *)

(* A start knows nothing of the database yet.                              *)
LEMMA StartStep ==
  ASSUME AccessInv, Start
  PROVE  AccessInv'
<1> USE DEF AccessInv, Start, NoBoot, tables, requests
<1>1. TypeOK'
  BY DEF TypeOK
<1>2. RequestInv'
  BY DEF RequestInv, RequestOf, CallOf, Calling, Lacking, IsActive, IsPermitted, IsGranted
<1>3. BootRow' /\ BootCovers' /\ SuperAdminInForce'
  BY DEF BootRow, BootCovers, SuperAdminInForce
<1>4. TokensExpire' /\ BannedSessionsEnd'
  BY DEF TokensExpire, BannedSessionsEnd, Banned
<1>5. ServedHadRights'
  BY DEF ServedHadRights
<1> QED
  BY <1>1, <1>2, <1>3, <1>4, <1>5

(* With what it adds, the grants have all defaults.                        *)
LEMMA BootGrantsStep ==
  ASSUME AccessInv, BootGrants
  PROVE  AccessInv'
<1> USE DEF AccessInv, BootGrants, NoBoot, tables, requests, seen
<1>1. TypeOK'
  BY DEF TypeOK
<1>2. RequestInv'
  BY DEF RequestInv, RequestOf, CallOf, Calling, Lacking, IsActive, IsPermitted, IsGranted
<1>3. BootRow' /\ BootCovers' /\ SuperAdminInForce'
  BY DEF BootRow, BootCovers, SuperAdminInForce
<1>4. TokensExpire' /\ BannedSessionsEnd'
  BY DEF TokensExpire, BannedSessionsEnd, Banned
<1>5. ServedHadRights'
  BY DEF ServedHadRights
<1> QED
  BY <1>1, <1>2, <1>3, <1>4, <1>5

(* The row that the start settles on, and what it will write to it.        *)
LEMMA BootAdminStep ==
  ASSUME AccessInv, BootAdmin
  PROVE  AccessInv'
<1> USE DEF AccessInv
<1>1. server.step = "admin" /\ UNCHANGED <<tables, requests, now, edits, seen>>
  BY DEF BootAdmin
<1>2. \/ \E u \in RowsOf(SuperAdmin) :
           server' = [server EXCEPT !.step = "commit", !.id = u, !.write = Differing(user[u])]
      \/ /\ RowsOf(SuperAdmin) = {}
         /\ \E u \in UserId \ used :
              server' = [server EXCEPT !.step = "commit", !.id = u, !.new = TRUE,
                                       !.write = Column]
  BY DEF BootAdmin
<1>3. server'.step = "commit" /\ server'.add = server.add
  BY <1>2 DEF TypeOK
<1>4. server' \in [step : {"down", "grants", "admin", "commit", "up"}, add : SUBSET Default,
                   id : UserId \cup {None}, new : BOOLEAN, write : SUBSET Column]
  <2>1. \A u \in RowsOf(SuperAdmin) : u \in UserId /\ Differing(user[u]) \subseteq Column
    BY DEF RowsOf, TypeOK, Differing
  <2>2. server \in [step : {"down", "grants", "admin", "commit", "up"}, add : SUBSET Default,
                     id : UserId \cup {None}, new : BOOLEAN, write : SUBSET Column]
    BY DEF TypeOK
  <2> HIDE DEF AccessInv
  <2>3. CASE \E u \in RowsOf(SuperAdmin) :
               server' = [server EXCEPT !.step = "commit", !.id = u,
                                        !.write = Differing(user[u])]
    BY <2>1, <2>2, <2>3
  <2>4. CASE \E u \in UserId \ used :
               server' = [server EXCEPT !.step = "commit", !.id = u, !.new = TRUE,
                                        !.write = Column]
    BY <2>2, <2>4
  <2> QED
    BY <1>2, <2>3, <2>4
<1>5. TypeOK'
  BY <1>1, <1>4 DEF TypeOK, tables, requests, seen
<1>6. RequestInv'
  BY <1>1 DEF RequestInv, RequestOf, CallOf, Calling, Lacking, IsActive, IsPermitted, IsGranted,
              tables, requests, seen
<1>7. BootRow' /\ BootCovers'
  <2>1. CASE \E u \in RowsOf(SuperAdmin) :
               server' = [server EXCEPT !.step = "commit", !.id = u,
                                        !.write = Differing(user[u])]
    <3>1. PICK u \in RowsOf(SuperAdmin) :
            server' = [server EXCEPT !.step = "commit", !.id = u, !.write = Differing(user[u])]
      BY <2>1
    <3>2. server'.id = u /\ server'.write = Differing(user[u]) /\ ~server'.new
      BY <1>1, <3>1 DEF TypeOK, BootRow
    <3>3. u \in DOMAIN user /\ u \in used /\ u \in UserId /\ user[u].person = SuperAdmin
      BY DEF RowsOf, TypeOK
    <3>4. UNCHANGED <<user, used, grant, meddled>> /\ server.step = "admin"
      BY <1>1 DEF tables, seen
    <3>5. BootRow'
      BY <3>2, <3>3, <3>4 DEF BootRow
    <3>6. BootCovers'
      BY <1>3, <3>2, <3>3, <3>4 DEF BootCovers, Differing
    <3> QED
      BY <3>5, <3>6
  <2>2. CASE /\ RowsOf(SuperAdmin) = {}
             /\ \E u \in UserId \ used :
                  server' = [server EXCEPT !.step = "commit", !.id = u, !.new = TRUE,
                                           !.write = Column]
    <3>1. PICK u \in UserId \ used :
            server' = [server EXCEPT !.step = "commit", !.id = u, !.new = TRUE, !.write = Column]
      BY <2>2
    <3>2. server'.id = u /\ server'.write = Column /\ server'.new
      BY <3>1 DEF TypeOK
    <3>3. UNCHANGED <<user, used, grant, meddled>> /\ server.step = "admin"
      BY <1>1 DEF tables, seen
    <3>4. BootRow'
      BY <2>2, <3>2, <3>3 DEF BootRow, RowsOf
    <3>5. BootCovers'
      BY <1>3, <3>2, <3>3 DEF BootCovers
    <3> QED
      BY <3>4, <3>5
  <2> QED
    BY <1>2, <2>1, <2>2
<1>8. TokensExpire' /\ BannedSessionsEnd' /\ SuperAdminInForce' /\ ServedHadRights'
  BY <1>1, <1>3 DEF TokensExpire, BannedSessionsEnd, Banned, SuperAdminInForce, ServedHadRights,
                    tables, requests, seen
<1> QED
  BY <1>5, <1>6, <1>7, <1>8

(* What is written is a row of the same account, with what was different.  *)
LEMMA ConfiguredRow ==
  ASSUME NEW row \in Row, NEW c \in SUBSET Column
  PROVE  /\ Configured(row, c) \in Row
         /\ Configured(row, c).person = row.person
         /\ Differing(row) \subseteq c => Differing(Configured(row, c)) = {}
<1>1. "Super Admin" \in Role
  BY AccessAssumption
<1>2. Configured(row, c) \in Row /\ Configured(row, c).person = row.person
  BY <1>1 DEF Configured, Row
<1>3. /\ Configured(row, c).name = IF "name" \in c THEN "configured" ELSE row.name
      /\ Configured(row, c).super = ("super" \in c \/ row.super)
      /\ Configured(row, c).active = ("active" \in c \/ row.active)
      /\ Configured(row, c).roles = IF "roles" \in c THEN row.roles \cup {"Super Admin"}
                                                     ELSE row.roles
  BY DEF Configured, Row
<1>4. ASSUME Differing(row) \subseteq c PROVE Differing(Configured(row, c)) = {}
  <2>1. /\ "name" \in c \/ row.name = "configured"
        /\ "super" \in c \/ row.super
        /\ "active" \in c \/ row.active
        /\ "roles" \in c \/ "Super Admin" \in row.roles
    BY <1>4 DEF Differing, Column
  <2> QED
    BY <1>3, <2>1 DEF Differing, Column
<1> QED
  BY <1>2, <1>4

(* The commit of a start: the row of the super admin is in order, unless   *)
(* somebody meddled, and with it every default grant.                      *)
LEMMA BootCommitStep ==
  ASSUME AccessInv, BootCommit
  PROVE  AccessInv'
<1> USE DEF AccessInv
<1> DEFINE id == server.id
           fresh == NewRow(SuperAdmin, "configured", TRUE)
<1>1. /\ server.step = "commit" /\ Notice
      /\ user' = [u \in DOMAIN user \cup (IF server.new THEN {id} ELSE {}) |->
                    IF u # id THEN user[u]
                    ELSE Configured(IF server.new THEN fresh ELSE user[u], server.write)]
      /\ used' = used \cup {id}
      /\ grant' = grant \cup server.add
      /\ server' = NoBoot("up")
      /\ UNCHANGED <<requests, now, edits, since, meddled>>
  BY DEF BootCommit, Written
<1>2. server'.step = "up" /\ ~server'.new
  BY <1>1 DEF NoBoot
<1>3. id \in UserId /\ server.write \in SUBSET Column /\ server.add \subseteq Default
  BY <1>1 DEF BootRow, TypeOK
<1>4. fresh \in Row /\ fresh.person = SuperAdmin
  BY AccessAssumption DEF NewRow, Row
<1>5. /\ \A v \in DOMAIN user \ {id} : v \in DOMAIN user' /\ user'[v] = user[v]
      /\ DOMAIN user' = DOMAIN user \cup (IF server.new THEN {id} ELSE {})
  BY <1>1
<1>6. ASSUME id \in DOMAIN user'
      PROVE  /\ user'[id] \in Row /\ user'[id].person = SuperAdmin
             /\ ~meddled => Differing(user'[id]) = {}
  <2>1. CASE server.new
    <3>1. user'[id] = Configured(fresh, server.write) /\ server.write = Column
      BY <1>1, <1>6, <2>1 DEF BootRow
    <3>2. Differing(fresh) \subseteq Column
      BY DEF Differing
    <3> HIDE DEF AccessInv, fresh
    <3> QED
      BY <1>3, <1>4, <3>1, <3>2, ConfiguredRow
  <2>2. CASE ~server.new
    <3>1. id \in DOMAIN user /\ user[id] \in Row /\ user[id].person = SuperAdmin
      BY <1>1, <1>6, <2>2 DEF BootRow, TypeOK
    <3>2. user'[id] = Configured(user[id], server.write)
      BY <1>1, <1>6, <2>2
    <3>3. ~meddled => Differing(user[id]) \subseteq server.write
      BY <1>1, <2>2 DEF BootCovers
    <3> HIDE DEF AccessInv
    <3> QED
      BY <1>3, <3>1, <3>2, <3>3, ConfiguredRow
  <2> QED
    BY <2>1, <2>2
<1>7. (\A q \in Request : CallOf(q)') /\ ServedHadRights'
      /\ lacked' \in [Request -> SUBSET {"active", "permission"}]
  BY <1>1, NoticeKeepsCalls DEF Calling, requests
<1>8. TypeOK'
  <2>1. used' \subseteq UserId /\ DOMAIN user' \subseteq used'
    BY <1>1, <1>3, <1>5 DEF TypeOK
  <2>2. user' \in [DOMAIN user' -> Row]
    <3>1. \A v \in DOMAIN user' : user'[v] \in Row
      BY <1>5, <1>6 DEF TypeOK
    <3> QED
      BY <1>1, <3>1
  <2>3. \A v, w \in DOMAIN user' : user'[v].person = user'[w].person => v = w
    <3>1. \A v \in DOMAIN user \ {id} : id \in DOMAIN user' => user[v].person # SuperAdmin
      BY <1>1, <1>5 DEF BootRow, RowsOf, TypeOK
    <3> QED
      BY <1>5, <1>6, <3>1 DEF TypeOK
  <2>4. grant' \subseteq Role \X Code
    BY <1>1, <1>3, AccessAssumption DEF TypeOK
  <2>5. server' \in [step : {"down", "grants", "admin", "commit", "up"}, add : SUBSET Default,
                     id : UserId \cup {None}, new : BOOLEAN, write : SUBSET Column]
    BY <1>1 DEF NoBoot
  <2> QED
    BY <1>1, <1>7, <2>1, <2>2, <2>3, <2>4, <2>5 DEF TypeOK, requests
<1>9. \A q \in Request : RequestOf(q)'
  BY <1>1, <1>2 DEF RequestInv, RequestOf, Awaiting, requests
<1>10. BootRow' /\ BootCovers'
  BY <1>2 DEF BootRow, BootCovers
<1>11. TokensExpire'
  BY <1>1 DEF TokensExpire, requests
<1>12. BannedSessionsEnd'
  <2> SUFFICES ASSUME NEW v \in used', Banned(v)'
               PROVE  Banned(v) /\ v \in used
    BY <1>1 DEF BannedSessionsEnd, requests
  <2>1. CASE v # id
    BY <1>1, <1>5, <2>1 DEF Banned
  <2>2. CASE v = id
    BY <1>1, <1>5, <1>6, <2>2 DEF Banned, BootRow
  <2> QED
    BY <2>1, <2>2
<1>13. SuperAdminInForce'
  <2> SUFFICES ASSUME ~meddled'
               PROVE  /\ \E u \in RowsOf(SuperAdmin)' :
                           /\ user'[u].super /\ user'[u].active /\ user'[u].name = "configured"
                           /\ "Super Admin" \in user'[u].roles
                      /\ Default \subseteq grant'
    BY DEF SuperAdminInForce
  <2>1. id \in DOMAIN user'
    BY <1>1, <1>5 DEF BootCovers
  <2>2. id \in RowsOf(SuperAdmin)' /\ Differing(user'[id]) = {}
    BY <1>1, <1>6, <2>1 DEF RowsOf
  <2>3. /\ user'[id].super /\ user'[id].active /\ user'[id].name = "configured"
        /\ "Super Admin" \in user'[id].roles
    BY <2>2 DEF Differing, Column
  <2>4. Default \subseteq grant'
    BY <1>1 DEF BootCovers
  <2> QED
    BY <2>2, <2>3, <2>4
<1> QED
  BY <1>7, <1>8, <1>9, <1>10, <1>11, <1>12, <1>13 DEF RequestInv

(* A process that dies holds nothing and serves nobody.                    *)
LEMMA CrashStep ==
  ASSUME AccessInv, Crash
  PROVE  AccessInv'
<1> USE DEF AccessInv, Crash, NoBoot, tables
<1>1. TypeOK'
  BY DEF TypeOK, NoRequest, Answer
<1>2. \A r \in Request : pc'[r] \notin Awaiting
  BY DEF TypeOK, Awaiting
<1>3. RequestInv'
  BY <1>2 DEF RequestInv, RequestOf, CallOf, Calling, Awaiting
<1>4. BootRow' /\ BootCovers' /\ SuperAdminInForce'
  BY DEF BootRow, BootCovers, SuperAdminInForce
<1>5. TokensExpire' /\ BannedSessionsEnd'
  BY DEF TokensExpire, BannedSessionsEnd, Banned
<1>6. ServedHadRights'
  BY DEF ServedHadRights
<1> QED
  BY <1>1, <1>3, <1>4, <1>5, <1>6

(* The clock only shortens the life of tokens.                             *)
LEMMA TickStep ==
  ASSUME AccessInv, Tick
  PROVE  AccessInv'
<1> USE DEF AccessInv, Tick, tables, requests, seen
<1>1. now \in Nat /\ now' = now + 1 /\ now' \in 0 .. MaxTime /\ RefreshLife \in Nat
  <2>1. now \in 0 .. MaxTime /\ now < MaxTime /\ now' = now + 1
    BY DEF TypeOK
  <2>2. MaxTime \in Nat /\ RefreshLife \in Nat
    BY AccessAssumption
  <2> HIDE DEF AccessInv
  <2> QED
    BY <2>1, <2>2
<1>2. TypeOK'
  BY <1>1 DEF TypeOK
<1>3. RequestInv'
  BY DEF RequestInv, RequestOf, CallOf, Calling, Lacking, IsActive, IsPermitted, IsGranted
<1>4. BootRow' /\ BootCovers' /\ SuperAdminInForce'
  BY DEF BootRow, BootCovers, SuperAdminInForce, RowsOf, Differing
<1>5. TokensExpire'
  <2> SUFFICES ASSUME NEW u \in UserId
               PROVE  /\ expiry[u].access <= now' + RefreshLife
                      /\ expiry[u].refresh <= now' + RefreshLife
    BY DEF TokensExpire
  <2>1. expiry[u].access \in Int /\ expiry[u].refresh \in Int
    BY DEF TypeOK
  <2>2. expiry[u].access <= now + RefreshLife /\ expiry[u].refresh <= now + RefreshLife
    BY DEF TokensExpire
  <2> HIDE DEF AccessInv
  <2> QED
    BY <1>1, <2>1, <2>2
<1>6. BannedSessionsEnd' /\ ServedHadRights'
  BY DEF BannedSessionsEnd, Banned, ServedHadRights
<1> QED
  BY <1>2, <1>3, <1>4, <1>5, <1>6

-----------------------------------------------------------------------------
(* The invariant.                                                          *)

(* An empty database, and no process.                                      *)
LEMMA InitHolds == ASSUME Init PROVE AccessInv
<1> USE DEF Init, NoBoot
<1>a. MaxTime \in Nat /\ MaxEdits \in Nat /\ RefreshLife \in Nat
  BY AccessAssumption
<1>b. expiry = [u \in UserId |-> [access |-> -1, refresh |-> -1]]
  BY DEF NoTokens
<1>1. TypeOK
  <2>1. DOMAIN user = {} /\ user \in [DOMAIN user -> Row]
    OBVIOUS
  <2>2. expiry \in [UserId -> [access : Nat \cup {-1}, refresh : Nat \cup {-1}]]
    BY <1>b
  <2>3. /\ pc \in [Request -> {"idle"} \cup Awaiting \cup Answer]
        /\ req \in [Request -> [person : Person \cup {None}, id : UserId \cup {None},
                                code : Code \cup {None}]]
    BY DEF NoRequest
  <2>4. /\ now \in 0 .. MaxTime /\ edits \in 0 .. MaxEdits
        /\ since \in [UserId -> 0 .. MaxTime]
    BY <1>a
  <2> QED
    BY <2>1, <2>2, <2>3, <2>4 DEF TypeOK
<1>2. RequestInv
  BY DEF RequestInv, RequestOf, CallOf, Calling, Awaiting
<1>3. BootRow /\ BootCovers /\ SuperAdminInForce
  BY DEF BootRow, BootCovers, SuperAdminInForce
<1>4. TokensExpire /\ BannedSessionsEnd
  <2>1. \A u \in UserId : expiry[u].access = -1 /\ expiry[u].refresh = -1
    BY <1>b
  <2>2. now = 0 /\ used = {} /\ -1 <= now + RefreshLife
    BY <1>a
  <2> QED
    BY <2>1, <2>2 DEF TokensExpire, BannedSessionsEnd
<1>5. ServedHadRights
  BY DEF ServedHadRights
<1> QED
  BY <1>1, <1>2, <1>3, <1>4, <1>5 DEF AccessInv

(* A step that changes nothing.                                            *)
LEMMA StutterStep ==
  ASSUME AccessInv, UNCHANGED vars
  PROVE  AccessInv'
<1> USE DEF AccessInv, vars, tables, requests, seen
<1>1. TypeOK'
  BY DEF TypeOK
<1>2. RequestInv'
  BY DEF RequestInv, RequestOf, CallOf, Calling, Lacking, IsActive, IsPermitted, IsGranted
<1>3. BootRow' /\ BootCovers' /\ SuperAdminInForce'
  BY DEF BootRow, BootCovers, SuperAdminInForce, RowsOf, Differing
<1>4. TokensExpire' /\ BannedSessionsEnd' /\ ServedHadRights'
  BY DEF TokensExpire, BannedSessionsEnd, Banned, ServedHadRights
<1> QED
  BY <1>1, <1>2, <1>3, <1>4

(* One case per action.                                                    *)
LEMMA NextStep ==
  ASSUME AccessInv, [Next]_vars
  PROVE  AccessInv'
<1>1. CASE Start
  BY <1>1, StartStep
<1>2. CASE BootGrants
  BY <1>2, BootGrantsStep
<1>3. CASE BootAdmin
  BY <1>3, BootAdminStep
<1>4. CASE BootCommit
  BY <1>4, BootCommitStep
<1>5. CASE Crash
  BY <1>5, CrashStep
<1>6. CASE Tick
  BY <1>6, TickStep
<1>7. CASE Outside
  BY <1>7, AddUserStep, EditGrantStep, EditUserStep, DeleteUserStep DEF Outside
<1>8. CASE \E r \in Request : Handle(r)
  <2>1. PICK r \in Request : Handle(r)
    BY <1>8
  <2> QED
    BY <2>1, ReceiveSteps, LoginSteps, InsertStep, RefreshStep, CheckSteps DEF Handle
<1>9. CASE UNCHANGED vars
  BY <1>9, StutterStep
<1> QED
  BY <1>1, <1>2, <1>3, <1>4, <1>5, <1>6, <1>7, <1>8, <1>9 DEF Next

(* Log-ins, refreshes, calls, starts, crashes and edits in any order and    *)
(* number keep the invariant (app/api/auth.py, app/api/deps.py,            *)
(* app/services/bootstrap.py).                                             *)
THEOREM AccessInvariance == Spec => []AccessInv
<1>1. Init => AccessInv
  BY InitHolds
<1>2. AccessInv /\ [Next]_vars => AccessInv'
  BY NextStep
<1> QED
  BY <1>1, <1>2, PTL DEF Spec

(* Every variable keeps its type, and each person one row, though log-ins  *)
(* of the same person race (app/api/auth.py:30-40).                        *)
THEOREM TypeCorrect == Spec => []TypeOK
<1>1. AccessInv => TypeOK
  BY DEF AccessInv
<1> QED
  BY <1>1, AccessInvariance, PTL

(* A start that was not interfered with leaves the super admin of the      *)
(* configuration and all default grants in force, whatever starts died     *)
(* before it (app/services/bootstrap.py, README.md:78).                    *)
THEOREM SuperAdminEnforced == Spec => []SuperAdminInForce
<1>1. AccessInv => SuperAdminInForce
  BY DEF AccessInv
<1> QED
  BY <1>1, AccessInvariance, PTL

(* The tokens of whoever is banned or deleted expire within one refresh    *)
(* period (app/api/auth.py:54-55).                                         *)
THEOREM SessionsEnd == Spec => []BannedSessionsEnd
<1>1. AccessInv => BannedSessionsEnd
  BY DEF AccessInv
<1> QED
  BY <1>1, AccessInvariance, PTL

(* Whoever is served was active, and was permitted, at some moment of the  *)
(* request (app/api/deps.py:14-46).                                        *)
THEOREM OnlyTheEntitledAreServed == Spec => []ServedHadRights
<1>1. AccessInv => ServedHadRights
  BY DEF AccessInv
<1> QED
  BY <1>1, AccessInvariance, PTL
=============================================================================
