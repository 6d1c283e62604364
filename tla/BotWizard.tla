------------------------------ MODULE BotWizard ------------------------------
(***************************************************************************)
(* The inline-button workflow of app/bot/bot.py.  A press on the button    *)
(* opens the wizard of its user in the memory of the process; the next     *)
(* message of that user fills in and inserts a KPI instance and closes it. *)
(* The dispatcher handles each update in a task of its own; an action is   *)
(* what a handler does up to the end of one await.  KpiInstances!BotCreate *)
(* is the transaction of such a message seen from the database.            *)
(***************************************************************************)
EXTENDS Integers, FiniteSets

CONSTANTS
  Update,      (* the updates Telegram delivers, each once                 *)
  User,        (* the Telegram users who send them                         *)
  AnswerFails, (* whether an answer to the user may fail                   *)
  Parallel,    (* how many updates are handled at the same time            *)
  MaxEdits     (* bound: how often users and their roles change meanwhile  *)

ASSUME WizardAssumption ==
  /\ IsFiniteSet(Update)
  /\ AnswerFails \in BOOLEAN
  /\ Parallel \in Nat \ {0}
  /\ MaxEdits \in Nat

VARIABLES
  standing,  (* users and user_roles: what each user has in them           *)
  edits,     (* how often they have changed                                *)
  awaiting,  (* KPI_WIZARD_STATE: the users whose wizard is open           *)
  created,   (* the messages whose instance is committed                   *)
  update,    (* what each update is: its user and what it carries          *)
  pc,        (* what the handler of each update awaits                     *)
  result,    (* how each update was dealt with                             *)
  opened,    (* the presses that have opened the wizard of their user      *)
  seen,      (* the presses that had, when a message found the wizard open *)
  had,       (* what its user had in the tables while an update was checked *)
  crossed    (* the users whose messages overlapped, or lost their answer  *)

vars == <<standing, edits, awaiting, created, update, pc, result, opened, seen,
          had, crossed>>

(* A row, and with it the super admin's flag and the Admin or Manager role; *)
(* the roles of a row that is deleted go with it.                          *)
Standing == {s \in SUBSET {"row", "super", "role"} : s # {} => "row" \in s}

(* A press, or a message that is refused (not nine lines, a number or date *)
(* that cannot be parsed) or of nine good lines.                           *)
Payload  == {"press", "malformed", "nine_lines"}
NoUpdate == [payload |-> "none"]
Result   == {"pending", "not_registered", "no_role", "prompted", "ignored",
             "refused", "created", "failed"}

Init ==
  /\ standing \in [User -> Standing] /\ edits = 0
  /\ awaiting = {} /\ created = {} /\ opened = {}
  /\ update = [u \in Update |-> NoUpdate]
  /\ pc = [u \in Update |-> "idle"]
  /\ result = [u \in Update |-> "pending"]
  /\ seen = [u \in Update |-> {}]
  /\ had = [u \in Update |-> {}]
  /\ crossed = {}

Running(u) == pc[u] \notin {"idle", "done"}

Goto(u, step) == pc' = [pc EXCEPT ![u] = step] /\ UNCHANGED result

End(u, outcome) ==
  /\ pc' = [pc EXCEPT ![u] = "done"]
  /\ result' = [result EXCEPT ![u] = outcome]

PressesOf(user) == {o \in opened : update[o].user = user}

-----------------------------------------------------------------------------
(* The handlers are registered on the payload: a press is a callback query. *)
Receive(u) ==
  /\ pc[u] = "idle"
  /\ Cardinality({v \in Update : Running(v)}) < Parallel
  /\ \E user \in User, payload \in Payload :
       /\ update' = [update EXCEPT ![u] = [user |-> user, payload |-> payload]]
       /\ Goto(u, IF payload = "press" THEN "find_user" ELSE "message")
  /\ UNCHANGED <<awaiting, created, opened, seen>>

(* create_kpi_callback.  A super admin is let in whatever roles the second *)
(* query finds, by the flag that the first one has loaded.                 *)
FindUser(u) ==
  /\ pc[u] = "find_user"
  /\ LET found == standing[update[u].user] IN
     IF "row" \notin found THEN End(u, "not_registered")
     ELSE Goto(u, IF "super" \in found THEN "open" ELSE "find_roles")
  /\ UNCHANGED <<awaiting, created, update, opened, seen>>

(* Mutant: whoever is registered may open the wizard.                      *)
FindNoRoles(u) ==
  /\ pc[u] = "find_roles"
  /\ Goto(u, "open")
  /\ UNCHANGED <<awaiting, created, update, opened, seen>>

FindRoles(u) ==
  /\ pc[u] = "find_roles"
  /\ IF "role" \in standing[update[u].user] THEN Goto(u, "open") ELSE End(u, "no_role")
  /\ UNCHANGED <<awaiting, created, update, opened, seen>>

(* Mutant: the wizard is opened for the press, not for its user.           *)
OpenForPress(u) ==
  /\ pc[u] = "open"
  /\ awaiting' = awaiting \cup {u}
  /\ opened' = opened \cup {u}
  /\ Goto(u, "prompt")
  /\ UNCHANGED <<created, update, seen>>

(* The session is closed first; then the wizard opens, and only then is    *)
(* the user asked for the data.                                            *)
Open(u) ==
  /\ pc[u] = "open"
  /\ awaiting' = awaiting \cup {update[u].user}
  /\ opened' = opened \cup {u}
  /\ Goto(u, "prompt")
  /\ UNCHANGED <<created, update, seen>>

(* Mutant: the wizard is opened once the user has been asked for the data, *)
(* again.                                                                  *)
PromptThenOpen(u) ==
  /\ pc[u] = "prompt"
  /\ awaiting' = awaiting \cup {update[u].user}
  /\ End(u, "prompted")
  /\ UNCHANGED <<created, update, opened, seen>>

Prompt(u) ==
  /\ pc[u] = "prompt"
  /\ End(u, "prompted")
  /\ UNCHANGED <<awaiting, created, update, opened, seen>>

(* Mutant: the message is taken whether or not the wizard is open.         *)
TakeAnyMessage(u) ==
  /\ pc[u] = "message"
  /\ update[u].payload = "nine_lines"
  /\ seen' = [seen EXCEPT ![u] = PressesOf(update[u].user)]
  /\ Goto(u, "find_actor")
  /\ UNCHANGED <<awaiting, created, update, opened>>

(* create_kpi_wizard: the check of the wizard and the parsing await        *)
(* nothing.  A message that is refused leaves the wizard open.             *)
TakeMessage(u) ==
  /\ pc[u] = "message"
  /\ update[u].user \in awaiting
  /\ update[u].payload = "nine_lines"
  /\ seen' = [seen EXCEPT ![u] = PressesOf(update[u].user)]
  /\ Goto(u, "find_actor")
  /\ UNCHANGED <<awaiting, created, update, opened>>

IgnoreMessage(u) ==
  /\ pc[u] = "message"
  /\ update[u].user \notin awaiting
  /\ End(u, "ignored")
  /\ UNCHANGED <<awaiting, created, update, opened, seen>>

RefuseMessage(u) ==
  /\ pc[u] = "message"
  /\ update[u].user \in awaiting
  /\ update[u].payload # "nine_lines"
  /\ End(u, "refused")
  /\ UNCHANGED <<awaiting, created, update, opened, seen>>

(* The row is asked for, and no role.                                      *)
FindActor(u) ==
  /\ pc[u] = "find_actor"
  /\ IF "row" \in standing[update[u].user] THEN Goto(u, "commit")
                                           ELSE End(u, "not_registered")
  /\ UNCHANGED <<awaiting, created, update, opened, seen>>

(* Instance, total and audit entry are committed together.  The entry has  *)
(* a foreign key to the user: without the row, Fail is all that is left.   *)
Commit(u) ==
  /\ pc[u] = "commit"
  /\ "row" \in standing[update[u].user]
  /\ created' = created \cup {u}
  /\ Goto(u, "confirm")
  /\ UNCHANGED <<awaiting, update, opened, seen>>

(* Mutant: the wizard stays open.                                          *)
ConfirmOnly(u) ==
  /\ pc[u] = "confirm"
  /\ End(u, "created")
  /\ UNCHANGED <<awaiting, created, update, opened, seen>>

(* The wizard is closed after the user has been told of the new instance,  *)
(* whoever has opened it in the meantime.                                  *)
ConfirmAndClose(u) ==
  /\ pc[u] = "confirm"
  /\ awaiting' = awaiting \ {update[u].user}
  /\ End(u, "created")
  /\ UNCHANGED <<created, update, opened, seen>>

(* A query, the insert or an answer raises; nothing is undone but the      *)
(* transaction, and the wizard stays as it is.                             *)
Fail(u) ==
  /\ Running(u)
  /\ pc[u] \in {"prompt", "confirm"} => AnswerFails
  /\ End(u, "failed")
  /\ UNCHANGED <<awaiting, created, update, opened, seen>>

(* The process restarts: the open wizards and the running tasks are lost.  *)
Restart ==
  /\ awaiting' = {}
  /\ pc' = [u \in Update |-> IF Running(u) THEN "done" ELSE pc[u]]
  /\ result' = [u \in Update |-> IF Running(u) THEN "failed" ELSE result[u]]
  /\ UNCHANGED <<created, update, opened, seen>>

Handle(u) ==
  \/ FindUser(u) \/ FindRoles(u) \/ Open(u) \/ Prompt(u)
  \/ TakeMessage(u) \/ IgnoreMessage(u) \/ RefuseMessage(u)
  \/ FindActor(u) \/ Commit(u) \/ ConfirmAndClose(u)

(* Somebody edits the tables: a user is registered, deleted, promoted or   *)
(* demoted.  None of it touches an open wizard.                            *)
ChangeUser ==
  /\ edits < MaxEdits /\ edits' = edits + 1
  /\ \E user \in User, s \in Standing :
       s # standing[user] /\ standing' = [standing EXCEPT ![user] = s]
  /\ UNCHANGED <<awaiting, created, update, pc, result, opened, seen>>

(* What is noted of each step.  It steers nothing.                         *)

(* A press is checked until it opens the wizard, a message until it is in. *)
Checking(u) == pc[u] \in {"find_user", "find_roles", "open", "find_actor", "commit"}

Entering(u) == pc[u] \in {"find_actor", "commit", "confirm"}

(* A user's message is entered while another one is; or is in, and then    *)
(* the answer fails, which leaves the wizard open.                         *)
Overlap(user) ==
  \E u, v \in Update :
    u # v /\ Entering(u) /\ Entering(v) /\ update[u].user = user /\ update[v].user = user

AnswerLost(user) ==
  \E u \in Update :
    /\ pc[u] = "confirm" /\ update[u].user = user
    /\ result'[u] = "failed" /\ user \in awaiting'

Observe ==
  /\ had' = [u \in Update |->
               had[u] \cup IF Checking(u)' THEN standing'[update'[u].user] ELSE {}]
  /\ crossed' = crossed \cup {user \in User : Overlap(user)' \/ AnswerLost(user)}

Next ==
  /\ \/ ChangeUser
     \/ /\ Restart \/ \E u \in Update : Receive(u) \/ Handle(u) \/ Fail(u)
        /\ UNCHANGED <<standing, edits>>
  /\ Observe

Spec == Init /\ [][Next]_vars

-----------------------------------------------------------------------------
(* The shape of the state: every variable has its type.                    *)
TypeOK ==
  /\ standing \in [User -> Standing] /\ edits \in 0..MaxEdits
  /\ awaiting \subseteq User /\ created \subseteq Update /\ opened \subseteq Update
  /\ update \in [Update -> {NoUpdate} \cup [user : User, payload : Payload]]
  /\ pc \in [Update -> {"idle", "find_user", "find_roles", "open", "prompt", "message",
                        "find_actor", "commit", "confirm", "done"}]
  /\ result \in [Update -> Result]
  /\ seen \in [Update -> SUBSET Update]
  /\ had \in [Update -> SUBSET {"row", "super", "role"}]
  /\ crossed \subseteq User

CreatedBy(user) == {u \in created : update[u].user = user}

Entitled(p) == had[p] \cap {"super", "role"} # {}

(* The message handler asks for no role (bot.py:108-111), so whoever is    *)
(* demoted with a wizard open still makes an instance.  What is left of    *)
(* the check at the button (bot.py:61-71): whoever has made an instance    *)
(* was registered while the message was entered, and had been entitled     *)
(* while a press of the same user was checked, before the message found    *)
(* the wizard open.  No restart, failing step or press of somebody else    *)
(* lets anybody in beside it.                                              *)
CreatedByEntitled ==
  \A u \in created :
    /\ "row" \in had[u]
    /\ \E p \in seen[u] : update[p].user = update[u].user /\ Entitled(p)

(* One press on the button makes at most one instance (bot.py:17, 143).    *)
OneInstancePerPress ==
  \A user \in User : Cardinality(CreatedBy(user)) <= Cardinality(PressesOf(user))

(* There are two ways to a second instance of one press, and no third:     *)
(* two messages that both find the wizard open (bot.py:85) before one of   *)
(* them closes it (bot.py:143), and an answer that fails between the       *)
(* commit and the close (bot.py:130-143).  Restarts, failing statements,   *)
(* presses during a message and edits of the tables make none.             *)
ExtraInstancesExplained ==
  \A user \in User \ crossed : Cardinality(CreatedBy(user)) <= Cardinality(PressesOf(user))

-----------------------------------------------------------------------------
(* The inductive invariant behind CreatedByEntitled.                       *)

(* An update is known once received, and its user noted while it is        *)
(* checked.                                                                *)
ReceivedOf(u) ==
  /\ pc[u] = "idle" => u \notin created \cup opened
  /\ Running(u) => update[u] # NoUpdate
  /\ Checking(u) => standing[update[u].user] \subseteq had[u]

(* A press is let in by the two queries before it opens, and opens once.   *)
PressOf(u) ==
  /\ pc[u] = "open" \/ u \in opened => Entitled(u)
  /\ u \in opened => pc[u] \in {"prompt", "done"}

(* A message is taken from a wizard that a press of its user has opened.   *)
MessageOf(u) ==
  /\ Entering(u) \/ u \in created =>
       \E p \in seen[u] : p \in PressesOf(update[u].user)
  /\ u \in created => "row" \in had[u]

WizardInv ==
  /\ TypeOK
  /\ \A user \in awaiting : PressesOf(user) # {}
  /\ \A u \in Update : ReceivedOf(u) /\ PressOf(u) /\ MessageOf(u)

-----------------------------------------------------------------------------
(* The inductive invariant behind ExtraInstancesExplained.                 *)

(* An open wizard is good for one more instance, until the message that is *)
(* about to close it has committed.                                        *)
Due(user) ==
  user \in awaiting /\ \A u \in Update : pc[u] = "confirm" => update[u].user # user

Owed(user) == Cardinality(CreatedBy(user)) + (IF Due(user) THEN 1 ELSE 0)

(* Of a user who was never crossed, one message is entered at a time, with *)
(* the wizard open; the instances and the one still due have a press each. *)
PressInv ==
  \A user \in User \ crossed :
    /\ \A u \in Update : Entering(u) /\ update[u].user = user => user \in awaiting
    /\ ~Overlap(user)
    /\ Owed(user) <= Cardinality(PressesOf(user))
=============================================================================
