------------------------------- MODULE Access --------------------------------
(***************************************************************************)
(* Who may use the service: the start of the process with its bootstrap    *)
(* (app/main.py, app/services/bootstrap.py), log-in and refresh            *)
(* (app/api/auth.py), the tokens (app/core/security.py) and the check of   *)
(* user and permission that precedes every handler (app/api/deps.py).      *)
(* Each action is one statement of the database; between them users, roles *)
(* and grants are changed from outside, for which the service has no API.  *)
(***************************************************************************)
EXTENDS Integers, FiniteSets

CONSTANTS
  Person,      (* Telegram accounts                                        *)
  SuperAdmin,  (* settings.super_admin_telegram_id                         *)
  UserId,      (* primary keys of users, none of them used twice           *)
  None,        (* no value                                                 *)
  Role, Code,  (* role names and permission codes                          *)
  Default,     (* ROLE_PERMISSIONS: pairs of a role and a code             *)
  Request,     (* the handlers at work at the same time                    *)
  AccessLife,  (* settings.access_token_expire_minutes                     *)
  RefreshLife, (* settings.refresh_token_expire_days                       *)
  MaxTime,     (* bound of the clock                                       *)
  MaxEdits     (* bound of the changes made from outside                   *)

ASSUME AccessAssumption ==
  /\ SuperAdmin \in Person
  /\ None \notin UserId
  /\ "Super Admin" \in Role /\ Default \subseteq Role \X Code
  /\ AccessLife \in Nat /\ RefreshLife \in Nat /\ AccessLife <= RefreshLife
  /\ MaxTime \in Nat /\ MaxEdits \in Nat

VARIABLES
  user,     (* committed users with the roles of user_roles: id -> row     *)
  used,     (* the ids that rows have or had                               *)
  grant,    (* committed role_permissions                                  *)
  server,   (* the process: its step and the transaction of its bootstrap  *)
  pc,       (* what each handler awaits, in the end its answer             *)
  req,      (* the request it serves                                       *)
  expiry,   (* until when the latest tokens of a user id are valid         *)
  now,      (* the clock                                                   *)
  edits,    (* how many changes were made from outside                     *)
  since,    (* when each id was last banned or deleted                     *)
  lacked,   (* what the user of a request has lacked since it arrived      *)
  meddled   (* whether what a start ensures was changed since it began     *)

seen     == <<since, lacked, meddled>>   (* these steer nothing            *)
tables   == <<user, used, grant>>
requests == <<pc, req, expiry>>
vars     == <<tables, server, requests, now, edits, seen>>

Column == {"name", "super", "active", "roles"}   (* what a start sees to   *)
Row == [person : Person, name : {"configured", "own"}, super : BOOLEAN,
        listed : BOOLEAN, active : BOOLEAN, roles : SUBSET Role]

(* Access tokens are of type access and refresh tokens of type refresh;    *)
(* -1 says that none was issued.                                           *)
NoTokens == [access |-> -1, refresh |-> -1]
NoRequest == [person |-> None, id |-> None, code |-> None]
NoBoot(step) == [step |-> step, add |-> {}, id |-> None, new |-> FALSE, write |-> {}]

Init ==
  /\ user = [u \in {} |-> NoTokens] /\ used = {} /\ grant = {}
  /\ server = NoBoot("down")
  /\ pc = [r \in Request |-> "idle"] /\ req = [r \in Request |-> NoRequest]
  /\ expiry = [u \in UserId |-> NoTokens]
  /\ now = 0 /\ edits = 0
  /\ since = [u \in UserId |-> 0] /\ lacked = [r \in Request |-> {}]
  /\ meddled = FALSE

RowsOf(p) == {u \in DOMAIN user : user[u].person = p}

(* Mutant: telegram_id is not unique.                                      *)
AlwaysVacant(p) == TRUE

Vacant(p) == RowsOf(p) = {}

IsActive(u) == u \in DOMAIN user /\ user[u].active
IsGranted(u, code) == u \in DOMAIN user /\ \E role \in user[u].roles : <<role, code>> \in grant
IsPermitted(u, code) == IsGranted(u, code) \/ (u \in DOMAIN user /\ user[u].super)

Lacking(u, code) == (IF IsActive(u) THEN {} ELSE {"active"})
                    \cup (IF IsPermitted(u, code) THEN {} ELSE {"permission"})

Calling(r) == pc[r] \in {"user", "permission"}

(* What each caller still lacks after a change of users or grants.         *)
Notice ==
  lacked' = [r \in Request |-> IF Calling(r)
                               THEN lacked[r] \cap Lacking(req[r].id, req[r].code)' ELSE {}]

-----------------------------------------------------------------------------
(* The start: lifespan runs bootstrap_security, one transaction, before    *)
(* the first request is served.                                            *)

Start ==
  /\ server.step = "down"
  /\ server' = NoBoot("grants")
  /\ meddled' = FALSE
  /\ UNCHANGED <<tables, requests, now, edits, since, lacked>>

(* Permissions and roles that are missing are added, then missing grants.  *)
BootGrants ==
  /\ server.step = "grants"
  /\ server' = [NoBoot("admin") EXCEPT !.add = Default \ grant]
  /\ UNCHANGED <<tables, requests, now, edits, seen>>

(* What the start finds different from the configuration, and writes.      *)
Differing(row) ==
  {c \in Column : CASE c = "name"   -> row.name # "configured"
                    [] c = "super"  -> ~row.super
                    [] c = "active" -> ~row.active
                    [] c = "roles"  -> "Super Admin" \notin row.roles}

Configured(row, c) ==
  [row EXCEPT !.name   = IF "name" \in c THEN "configured" ELSE @,
              !.super  = "super" \in c \/ @,
              !.active = "active" \in c \/ @,
              !.roles  = IF "roles" \in c THEN @ \cup {"Super Admin"} ELSE @]

NewRow(p, name, super) ==
  [person |-> p, name |-> name, super |-> super, listed |-> TRUE, active |-> TRUE,
   roles |-> {}]

(* The super admin is looked up, then inserted or updated; its role is     *)
(* added if it is missing.                                                 *)
BootAdmin ==
  /\ server.step = "admin"
  /\ \/ \E u \in RowsOf(SuperAdmin) :
          server' = [server EXCEPT !.step = "commit", !.id = u, !.write = Differing(user[u])]
     \/ /\ RowsOf(SuperAdmin) = {}
        /\ \E u \in UserId \ used :
             server' = [server EXCEPT !.step = "commit", !.id = u, !.new = TRUE,
                                      !.write = Column]
  /\ UNCHANGED <<tables, requests, now, edits, seen>>

(* Mutant: a super admin that exists is left as it is.                     *)
WrittenIfNew == IF server.new THEN server.write ELSE {}

Written == server.write

(* Nothing that had to be written can have been deleted since: it is locked. *)
BootCommit ==
  /\ server.step = "commit"
  /\ user' = [u \in DOMAIN user \cup (IF server.new THEN {server.id} ELSE {}) |->
                 IF u # server.id THEN user[u]
                 ELSE Configured(IF server.new THEN NewRow(SuperAdmin, "configured", TRUE)
                                               ELSE user[u], Written)]
  /\ used' = used \cup {server.id}
  /\ grant' = grant \cup server.add
  /\ server' = NoBoot("up")
  /\ UNCHANGED <<requests, now, edits, since, meddled>>
  /\ Notice

Awaiting == {"login", "insert", "reload", "refresh", "user", "permission"}

(* The process dies, or its start fails: what is not committed is lost, and *)
(* so are the requests.  The tokens are with the clients.                  *)
Crash ==
  /\ server.step # "down"
  /\ server' = NoBoot("down")
  /\ pc' = [r \in Request |-> IF pc[r] \in Awaiting THEN "failed" ELSE pc[r]]
  /\ req' = [r \in Request |-> NoRequest] /\ lacked' = [r \in Request |-> {}]
  /\ UNCHANGED <<tables, expiry, now, edits, since, meddled>>

-----------------------------------------------------------------------------
(* Requests.  A handler is free for the next one once it has answered.     *)

(* What r awaits next, or its answer, after which the request is forgotten. *)
Proceed(r, request, step) ==
  /\ pc' = [pc EXCEPT ![r] = step]
  /\ req' = [req EXCEPT ![r] = IF step \in Awaiting THEN request ELSE NoRequest]

Arrive(r, request, step) ==
  /\ server.step = "up" /\ pc[r] \notin Awaiting
  /\ Proceed(r, request, step)
  /\ UNCHANGED <<tables, server, expiry, now, edits, since, meddled>>

Goto(r, step) ==
  /\ Proceed(r, req[r], step)
  /\ lacked' = IF step = "forbidden" THEN [lacked EXCEPT ![r] = {}] ELSE lacked
  /\ UNCHANGED <<tables, server, expiry, now, edits, since, meddled>>

Issue(r, u) ==
  /\ Proceed(r, req[r], "ok")
  /\ expiry' = [expiry EXCEPT ![u] = [access |-> now + AccessLife,
                                      refresh |-> now + RefreshLife]]
  /\ UNCHANGED <<tables, server, now, edits, seen>>

(* A request is genuine when verify_telegram_init_data accepts it, a matter *)
(* of cryptography; otherwise it raises an AuthError that nobody catches.    *)
ReceiveLogin(r) ==
  /\ \E p \in Person, genuine \in BOOLEAN :
       Arrive(r, [NoRequest EXCEPT !.person = p], IF genuine THEN "login" ELSE "error")
  /\ UNCHANGED lacked

(* decode_token: a token that has expired is refused before anything is read. *)
ReceiveRefresh(r) ==
  /\ \E u \in used :
       Arrive(r, [NoRequest EXCEPT !.id = u],
              IF expiry[u].refresh >= now THEN "refresh" ELSE "unauthorized")
  /\ UNCHANGED lacked

ReceiveCall(r) ==
  \E u \in used, code \in Code :
    IF expiry[u].access >= now
    THEN /\ Arrive(r, [NoRequest EXCEPT !.id = u, !.code = code], "user")
         /\ lacked' = [lacked EXCEPT ![r] = Lacking(u, code)]
    ELSE Arrive(r, NoRequest, "unauthorized") /\ UNCHANGED lacked

-----------------------------------------------------------------------------
(* telegram_auth                                                           *)

Welcome(u) == user[u].person = SuperAdmin \/ (user[u].listed /\ user[u].active)

LoginKnown(r) ==
  /\ pc[r] = "login"
  /\ \E u \in RowsOf(req[r].person) :
       IF Welcome(u) THEN Issue(r, u) ELSE Goto(r, "forbidden")

LoginUnknown(r) ==
  /\ pc[r] = "login"
  /\ RowsOf(req[r].person) = {}
  /\ Goto(r, IF req[r].person = SuperAdmin THEN "insert" ELSE "forbidden")

(* The super admin is missing: the row is made now, without a role.        *)
InsertUser(r) ==
  /\ pc[r] = "insert"
  /\ Vacant(SuperAdmin)
  /\ \E u \in UserId \ used :
       /\ user' = [v \in DOMAIN user \cup {u} |->
                     IF v = u THEN NewRow(SuperAdmin, "own", TRUE) ELSE user[v]]
       /\ used' = used \cup {u}
       /\ Proceed(r, [NoRequest EXCEPT !.person = SuperAdmin, !.id = u], "reload")
  /\ UNCHANGED <<grant, server, expiry, now, edits, since, meddled>>
  /\ Notice

(* Another log-in was faster: telegram_id is unique.                       *)
InsertTwice(r) ==
  /\ pc[r] = "insert"
  /\ ~Vacant(SuperAdmin)
  /\ Goto(r, "error")

Reload(r) ==
  /\ pc[r] = "reload"
  /\ IF req[r].id \in DOMAIN user THEN Issue(r, req[r].id) ELSE Goto(r, "error")

(* refresh_tokens                                                          *)

(* Mutant: any user there is gets new tokens.                              *)
RefreshExisting(r) ==
  /\ pc[r] = "refresh"
  /\ IF req[r].id \in DOMAIN user THEN Issue(r, req[r].id) ELSE Goto(r, "unauthorized")

RefreshUser(r) ==
  /\ pc[r] = "refresh"
  /\ IF IsActive(req[r].id) THEN Issue(r, req[r].id) ELSE Goto(r, "unauthorized")

(* get_current_user, then permission_required in a second statement.       *)
GetUser(r) ==
  /\ pc[r] = "user"
  /\ Goto(r, IF ~IsActive(req[r].id) THEN "forbidden"
             ELSE IF user[req[r].id].super THEN "served" ELSE "permission")

(* Mutant: the grants of any role are looked up, not those of the user.    *)
CheckAnyRole(r) ==
  /\ pc[r] = "permission"
  /\ Goto(r, IF \E role \in Role : <<role, req[r].code>> \in grant THEN "served"
                                                                   ELSE "forbidden")

CheckPermission(r) ==
  /\ pc[r] = "permission"
  /\ Goto(r, IF IsGranted(req[r].id, req[r].code) THEN "served" ELSE "forbidden")

Handle(r) ==
  \/ ReceiveLogin(r) \/ ReceiveRefresh(r) \/ ReceiveCall(r)
  \/ LoginKnown(r) \/ LoginUnknown(r) \/ InsertUser(r) \/ InsertTwice(r) \/ Reload(r)
  \/ RefreshUser(r) \/ GetUser(r) \/ CheckPermission(r)

-----------------------------------------------------------------------------
(* Changes from outside.  A start that has written a row keeps others from *)
(* its columns until it commits, and from deleting it even if all that it  *)
(* adds is the role.                                                       *)

Held(u) == IF server.step = "commit" /\ server.id = u THEN server.write ELSE {}

Edit ==
  /\ edits < MaxEdits /\ edits' = edits + 1
  /\ UNCHANGED <<server, requests, now>>
  /\ Notice

AddUser ==
  /\ \E p \in Person \ {SuperAdmin}, u \in UserId \ used :
       /\ RowsOf(p) = {} /\ Held(u) = {}
       /\ user' = [v \in DOMAIN user \cup {u} |-> IF v = u THEN NewRow(p, "own", FALSE)
                                                           ELSE user[v]]
       /\ used' = used \cup {u}
  /\ UNCHANGED <<grant, since, meddled>>
  /\ Edit

EditsOf(row) ==
  {[row EXCEPT !.active = ~@], [row EXCEPT !.listed = ~@], [row EXCEPT !.super = ~@]}
  \cup {[row EXCEPT !.roles = @ \cup {role}] : role \in Role}
  \cup {[row EXCEPT !.roles = @ \ {role}] : role \in Role}

EditUser(u) ==
  /\ \E row \in EditsOf(user[u]) \ {user[u]} :
       /\ IF row.roles = user[u].roles THEN Held(u) \subseteq {"roles"}
                                        ELSE "roles" \notin Held(u)
       /\ user' = [user EXCEPT ![u] = row]
       /\ since' = IF user[u].active /\ ~row.active THEN [since EXCEPT ![u] = now] ELSE since
  /\ meddled' = (meddled \/ user[u].person = SuperAdmin)
  /\ UNCHANGED <<used, grant>>
  /\ Edit

DeleteUser(u) ==
  /\ Held(u) = {}
  /\ user' = [v \in DOMAIN user \ {u} |-> user[v]]
  /\ since' = [since EXCEPT ![u] = now]
  /\ meddled' = (meddled \/ user[u].person = SuperAdmin)
  /\ UNCHANGED <<used, grant>>
  /\ Edit

EditGrant ==
  /\ \E g \in Role \X Code :
       /\ g \notin server.add
       /\ grant' = IF g \in grant THEN grant \ {g} ELSE grant \cup {g}
  /\ meddled' = TRUE
  /\ UNCHANGED <<user, used, since>>
  /\ Edit

Outside == AddUser \/ EditGrant \/ \E u \in DOMAIN user : EditUser(u) \/ DeleteUser(u)

Tick ==
  /\ now < MaxTime
  /\ now' = now + 1
  /\ UNCHANGED <<tables, server, requests, edits, seen>>

Next ==
  \/ Start \/ BootGrants \/ BootAdmin \/ BootCommit \/ Crash
  \/ Outside \/ Tick
  \/ \E r \in Request : Handle(r)

Spec == Init /\ [][Next]_vars

-----------------------------------------------------------------------------
(* The shape of the state: every variable has its type.                    *)
Answer == {"ok", "error", "forbidden", "unauthorized", "served", "failed"}

TypeOK ==
  /\ used \subseteq UserId /\ DOMAIN user \subseteq used
  /\ user \in [DOMAIN user -> Row] /\ grant \subseteq Role \X Code
  /\ \A u, v \in DOMAIN user : user[u].person = user[v].person => u = v
  /\ server \in [step : {"down", "grants", "admin", "commit", "up"}, add : SUBSET Default,
                 id : UserId \cup {None}, new : BOOLEAN, write : SUBSET Column]
  /\ req \in [Request -> [person : Person \cup {None}, id : UserId \cup {None},
                          code : Code \cup {None}]]
  /\ pc \in [Request -> {"idle"} \cup Awaiting \cup Answer]
  /\ expiry \in [UserId -> [access : Nat \cup {-1}, refresh : Nat \cup {-1}]]
  /\ now \in 0 .. MaxTime /\ edits \in 0 .. MaxEdits
  /\ since \in [UserId -> 0 .. MaxTime]
  /\ lacked \in [Request -> SUBSET {"active", "permission"}] /\ meddled \in BOOLEAN

(* "Super admin bootstrap runs on startup and is enforced each launch"     *)
(* (README.md:78): whatever was changed, and wherever earlier starts died, *)
(* a process that serves has the configured super admin, active and with   *)
(* its role, and every default grant, until somebody changes them again.   *)
SuperAdminInForce ==
  server.step = "up" /\ ~meddled =>
    /\ \E u \in RowsOf(SuperAdmin) :
         /\ user[u].super /\ user[u].active /\ user[u].name = "configured"
         /\ "Super Admin" \in user[u].roles
    /\ Default \subseteq grant

(* A ban or a deletion ends a session: however often tokens were refreshed *)
(* and renewed while it was being made, those of a user that is gone or    *)
(* banned expire within one refresh period of it (auth.py:54-55).  Only the *)
(* super admin can log in banned (auth.py:27).                             *)
Banned(u) == u \notin DOMAIN user \/ (~user[u].active /\ user[u].person # SuperAdmin)

BannedSessionsEnd ==
  \A u \in used : Banned(u) => /\ expiry[u].access <= since[u] + RefreshLife
                               /\ expiry[u].refresh <= since[u] + RefreshLife

(* "Role/permission checks through dependency middleware" (README.md:36):  *)
(* user and permission are looked up by two statements (deps.py:22, 41),   *)
(* and yet whoever is served was active, and was permitted, at some moment *)
(* of the request, as itself and not by the role of another.               *)
ServedHadRights == \A r \in Request : pc[r] = "served" => lacked[r] = {}

-----------------------------------------------------------------------------
(* The inductive invariant behind these properties.                        *)

(* Requests are served by a process that is up, of ids there are or were.  *)
(* Only the super admin's row is made and read again by a log-in.          *)
RequestOf(r) ==
  /\ pc[r] \in Awaiting => server.step = "up"
  /\ pc[r] \in {"reload", "refresh", "user", "permission"} => req[r].id \in used
  /\ pc[r] = "reload" /\ req[r].id \in DOMAIN user => user[req[r].id].person = SuperAdmin

(* What a caller has now it has not lacked since it arrived, and after its *)
(* first check it has not lacked activity.                                 *)
CallOf(r) ==
  /\ Calling(r) => lacked[r] \subseteq Lacking(req[r].id, req[r].code)
  /\ pc[r] = "permission" => "active" \notin lacked[r]

RequestInv == \A r \in Request : RequestOf(r) /\ CallOf(r)

(* What the bootstrap is about to write: a new row for a super admin who   *)
(* has none, or what was different in the row that it locks.               *)
BootRow ==
  /\ server.new => server.step = "commit"
  /\ server.step = "commit" => server.id \in UserId
  /\ server.new => /\ server.id \notin used /\ server.write = Column
                   /\ RowsOf(SuperAdmin) = {}
  /\ server.step = "commit" /\ ~server.new =>
       /\ server.id \in used
       /\ server.write # {} => server.id \in DOMAIN user
       /\ server.id \in DOMAIN user => user[server.id].person = SuperAdmin

(* Unless somebody meddles, that leaves nothing of the configuration out.  *)
BootCovers ==
  ~meddled =>
    /\ server.step \in {"admin", "commit"} => Default \subseteq grant \cup server.add
    /\ server.step = "commit" /\ ~server.new =>
         server.id \in DOMAIN user /\ Differing(user[server.id]) \subseteq server.write

(* No token outlives one refresh period from now.                          *)
TokensExpire ==
  \A u \in UserId : /\ expiry[u].access <= now + RefreshLife
                     /\ expiry[u].refresh <= now + RefreshLife

AccessInv ==
  /\ TypeOK /\ RequestInv /\ BootRow /\ BootCovers /\ TokensExpire
  /\ BannedSessionsEnd /\ SuperAdminInForce /\ ServedHadRights
=============================================================================
