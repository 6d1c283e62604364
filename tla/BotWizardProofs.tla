--------------------------- MODULE BotWizardProofs ---------------------------
(***************************************************************************)
(* Proofs about BotWizard, for any number of users and updates, handled    *)
(* any number at a time, with answers that fail or not and users who are   *)
(* registered, deleted, promoted and demoted meanwhile: whom an instance   *)
(* is made for, and how many.                                              *)
(***************************************************************************)
EXTENDS BotWizard, FiniteSetTheorems, TLAPS

StepOf(u) == Receive(u) \/ Handle(u) \/ Fail(u)

(* The types of what handlers read and write.                              *)
CoreOK ==
  /\ standing \in [User -> Standing] /\ edits \in 0..MaxEdits
  /\ awaiting \subseteq User /\ created \subseteq Update /\ opened \subseteq Update
  /\ update \in [Update -> {NoUpdate} \cup [user : User, payload : Payload]]
  /\ pc \in [Update -> {"idle", "find_user", "find_roles", "open", "prompt", "message",
                        "find_actor", "commit", "confirm", "done"}]
  /\ result \in [Update -> Result]
  /\ seen \in [Update -> SUBSET Update]

(* What WizardInv says of one update.                                      *)
UpdateInv(u) == ReceivedOf(u) /\ PressOf(u) /\ MessageOf(u)

LEMMA Core == TypeOK => CoreOK
BY DEF TypeOK, CoreOK

LEMMA UserOf ==
  ASSUME CoreOK, NEW u \in Update, update[u] # NoUpdate
  PROVE  update[u].user \in User
BY DEF CoreOK

(* A handler leaves the other updates alone.                               *)
LEMMA Frame ==
  ASSUME CoreOK, NEW u \in Update, StepOf(u)
  PROVE  /\ \A v \in Update \ {u} :
              pc'[v] = pc[v] /\ update'[v] = update[v] /\ seen'[v] = seen[v]
         /\ Receive(u) \/ (Running(u) /\ update' = update)
         /\ \/ UNCHANGED <<awaiting, created, opened>>
            \/ Open(u) \/ Commit(u) \/ ConfirmAndClose(u)
<1> USE DEF CoreOK, Goto, End
<1>1. CASE Receive(u) BY <1>1 DEF Receive
<1>2. CASE Fail(u) BY <1>2 DEF Fail
<1>3. CASE FindUser(u) \/ FindRoles(u) \/ FindActor(u)
  BY <1>3 DEF FindUser, FindRoles, FindActor, Running
<1>4. CASE Open(u) \/ Commit(u) \/ ConfirmAndClose(u)
  BY <1>4 DEF Open, Commit, ConfirmAndClose, Running
<1>5. CASE Prompt(u) \/ IgnoreMessage(u) \/ RefuseMessage(u)
  BY <1>5 DEF Prompt, IgnoreMessage, RefuseMessage, Running
<1>6. CASE TakeMessage(u) BY <1>6 DEF TakeMessage, Running
<1>7. QED BY <1>1, <1>2, <1>3, <1>4, <1>5, <1>6 DEF StepOf, Handle

LEMMA CoreStep ==
  ASSUME CoreOK, NEW u \in Update, StepOf(u), UNCHANGED <<standing, edits>>,
         Running(u) => update[u] # NoUpdate
  PROVE  /\ CoreOK'
         /\ Running(u)' => update'[u] # NoUpdate
<1> USE DEF CoreOK
<1>1. CASE Receive(u)
  <2>1. PICK user \in User, payload \in Payload :
          /\ update' = [update EXCEPT ![u] = [user |-> user, payload |-> payload]]
          /\ pc' \in {[pc EXCEPT ![u] = "find_user"], [pc EXCEPT ![u] = "message"]}
          /\ UNCHANGED <<result, awaiting, created, opened, seen>>
    BY <1>1 DEF Receive, Goto
  <2>2. update'[u] # NoUpdate BY <2>1 DEF NoUpdate, Payload
  <2>3. QED BY <2>1, <2>2
<1>2. CASE FindUser(u) \/ FindRoles(u) \/ FindActor(u)
  BY <1>2 DEF FindUser, FindRoles, FindActor, Goto, End, Result, Running
<1>3. CASE Open(u)
  <2>1. update[u].user \in User BY <1>3, UserOf DEF Open, Running
  <2>2. QED BY <1>3, <2>1 DEF Open, Goto, Running
<1>4. CASE Prompt(u) \/ IgnoreMessage(u) \/ RefuseMessage(u) \/ Fail(u)
  BY <1>4 DEF Prompt, IgnoreMessage, RefuseMessage, Fail, End, Result, Running
<1>5. CASE TakeMessage(u)
  <2>1. PressesOf(update[u].user) \subseteq Update BY DEF PressesOf
  <2>2. QED BY <1>5, <2>1 DEF TakeMessage, Goto, Running
<1>6. CASE Commit(u) \/ ConfirmAndClose(u)
  BY <1>6 DEF Commit, ConfirmAndClose, Goto, End, Result, Running
<1>7. QED BY <1>1, <1>2, <1>3, <1>4, <1>5, <1>6 DEF StepOf, Handle

(* What a step does to the presses that have opened a wizard, and to the   *)
(* instances, of every user.                                               *)
LEMMA PressesStep ==
  ASSUME CoreOK, NEW u \in Update, StepOf(u), ReceivedOf(u)
  PROVE  \A user : PressesOf(user)' =
           IF Open(u) /\ update[u].user = user THEN PressesOf(user) \cup {u}
                                               ELSE PressesOf(user)
<1>1. \A v \in opened : update'[v] = update[v]
  <2>1. opened \subseteq Update BY DEF CoreOK
  <2>2. ~Receive(u) \/ u \notin opened BY DEF Receive, ReceivedOf
  <2>3. QED BY <2>1, <2>2, Frame
<1>2. CASE Open(u)
  <2>1. opened' = opened \cup {u} /\ update' = update BY <1>2 DEF Open
  <2>2. QED BY <1>2, <2>1 DEF PressesOf
<1>3. CASE ~Open(u)
  <2>1. opened' = opened BY <1>3, Frame DEF Commit, ConfirmAndClose
  <2>2. QED BY <1>1, <1>3, <2>1 DEF PressesOf
<1>4. QED BY <1>2, <1>3

LEMMA CreatedStep ==
  ASSUME CoreOK, NEW u \in Update, StepOf(u), ReceivedOf(u)
  PROVE  \A user : CreatedBy(user)' =
           IF Commit(u) /\ update[u].user = user THEN CreatedBy(user) \cup {u}
                                                 ELSE CreatedBy(user)
<1>1. \A v \in created : update'[v] = update[v]
  <2>1. created \subseteq Update BY DEF CoreOK
  <2>2. ~Receive(u) \/ u \notin created BY DEF Receive, ReceivedOf
  <2>3. QED BY <2>1, <2>2, Frame
<1>2. CASE Commit(u)
  <2>1. created' = created \cup {u} /\ update' = update BY <1>2 DEF Commit
  <2>2. QED BY <1>2, <2>1 DEF CreatedBy
<1>3. CASE ~Commit(u)
  <2>1. created' = created BY <1>3, Frame DEF Open, ConfirmAndClose
  <2>2. QED BY <1>1, <1>3, <2>1 DEF CreatedBy
<1>4. QED BY <1>2, <1>3

(* What is noted of a step: nothing is forgotten, what the user of a       *)
(* checked update has is had, and who is not crossed by now has crossed    *)
(* nothing in this step.                                                   *)
LEMMA Noted ==
  ASSUME TypeOK, Observe, CoreOK', \A u \in Update : Running(u)' => update'[u] # NoUpdate
  PROVE  /\ had' \in [Update -> SUBSET {"row", "super", "role"}]
         /\ crossed' \subseteq User
         /\ \A u \in Update :
              /\ had[u] \subseteq had'[u]
              /\ Checking(u)' => standing'[update'[u].user] \subseteq had'[u]
         /\ \A user \in User \ crossed' :
              user \notin crossed /\ ~Overlap(user)' /\ ~AnswerLost(user)
<1>1. crossed' = crossed \cup {user \in User : Overlap(user)' \/ AnswerLost(user)}
  BY DEF Observe
<1>2. ASSUME NEW u \in Update, Checking(u)'
      PROVE  standing'[update'[u].user] \subseteq {"row", "super", "role"}
  <2>1. Running(u)' BY <1>2 DEF Checking, Running
  <2>2. update'[u].user \in User BY <2>1 DEF CoreOK
  <2>3. QED BY <2>2 DEF CoreOK, Standing
<1>3. \A u \in Update :
        had'[u] = had[u] \cup IF Checking(u)' THEN standing'[update'[u].user] ELSE {}
  BY DEF Observe
<1>4. had' \in [Update -> SUBSET {"row", "super", "role"}]
  <2>1. \A u \in Update : had'[u] \subseteq {"row", "super", "role"}
    BY <1>2, <1>3 DEF TypeOK
  <2>2. had' = [u \in Update |-> had'[u]] BY DEF Observe
  <2>3. QED BY <2>1, <2>2
<1>5. QED BY <1>1, <1>3, <1>4 DEF TypeOK

-----------------------------------------------------------------------------
(* Whom an instance is made for.                                           *)

(* A step that leaves an update alone keeps what the invariant says of it. *)
LEMMA Untouched ==
  ASSUME NEW v \in Update, UpdateInv(v),
         pc'[v] = pc[v], update'[v] = update[v], seen'[v] = seen[v],
         had[v] \subseteq had'[v],
         Checking(v)' => standing'[update'[v].user] \subseteq had'[v],
         v \in created' => v \in created, v \in opened' <=> v \in opened,
         \A user : PressesOf(user) \subseteq PressesOf(user)'
  PROVE  UpdateInv(v)'
<1>1. ReceivedOf(v)' BY DEF UpdateInv, ReceivedOf, Running, Checking
<1>2. PressOf(v)' BY DEF UpdateInv, PressOf, Entitled
<1>3. MessageOf(v)'
  <2>1. Entering(v)' \/ v \in created' =>
          \E p \in seen[v] : p \in PressesOf(update[v].user)
    BY DEF UpdateInv, MessageOf, Entering
  <2>2. \A p : p \in PressesOf(update[v].user) => p \in PressesOf(update[v].user)'
    <3> DEFINE user == update[v].user
    <3>1. PressesOf(user) = {o \in opened : update[o].user = user} BY DEF PressesOf
    <3>2. PressesOf(update[v].user)' = {o \in opened' : update'[o].user = user} BY DEF PressesOf
    <3>3. \A w : {o \in opened : update[o].user = w} \subseteq {o \in opened' : update'[o].user = w}
      BY DEF PressesOf
    <3>4. QED BY <3>1, <3>2, <3>3
  <2>3. v \in created' => "row" \in had'[v] BY DEF UpdateInv, MessageOf
  <2>4. QED BY <2>1, <2>2, <2>3 DEF MessageOf
<1>4. QED BY <1>1, <1>2, <1>3 DEF UpdateInv

LEMMA WizardByUpdate ==
  WizardInv <=> /\ TypeOK /\ (\A user \in awaiting : PressesOf(user) # {})
                /\ \A u \in Update : UpdateInv(u)
BY DEF WizardInv, UpdateInv

LEMMA WizardInit == Init => WizardInv
<1>1. SUFFICES ASSUME Init PROVE WizardInv
  OBVIOUS
<1>2. TypeOK BY <1>1, WizardAssumption DEF Init, TypeOK, NoUpdate, Result
<1>3. QED BY <1>1, <1>2 DEF Init, WizardInv, PressOf, MessageOf, ReceivedOf, Running,
            Checking, Entering

(* The step of its own handler keeps what the invariant says of an update. *)
LEMMA OwnStep ==
  ASSUME CoreOK, NEW u \in Update, StepOf(u), UpdateInv(u), UNCHANGED standing,
         \A user \in awaiting : PressesOf(user) # {},
         had[u] \subseteq had'[u], Running(u)' => update'[u] # NoUpdate,
         Checking(u)' => standing'[update'[u].user] \subseteq had'[u]
  PROVE  UpdateInv(u)'
<1> USE DEF CoreOK, Goto, End
<1>0. ReceivedOf(u) /\ PressOf(u) /\ MessageOf(u) BY DEF UpdateInv
<1>1. CASE Receive(u)
  <2>1. /\ pc[u] = "idle" /\ pc'[u] \in {"find_user", "message"}
        /\ created' = created /\ opened' = opened
    BY <1>1 DEF Receive
  <2>2. QED BY <1>0, <2>1 DEF UpdateInv, ReceivedOf, PressOf, MessageOf, Running, Entering
<1>2. CASE FindUser(u) \/ FindRoles(u)
  <2>1. /\ pc[u] \in {"find_user", "find_roles"} /\ pc'[u] \in {"find_roles", "open", "done"}
        /\ pc'[u] = "open" => standing[update[u].user] \cap {"super", "role"} # {}
        /\ UNCHANGED <<created, update, opened, seen>>
    BY <1>2 DEF FindUser, FindRoles
  <2>2. standing[update[u].user] \subseteq had[u] BY <1>0, <2>1 DEF ReceivedOf, Checking
  <2>3. u \notin opened BY <1>0, <2>1 DEF PressOf
  <2>4. ReceivedOf(u)' BY <1>0, <2>1 DEF ReceivedOf, Running
  <2>5. PressOf(u)' BY <2>1, <2>2, <2>3 DEF PressOf, Entitled
  <2>6. MessageOf(u)' BY <1>0, <2>1 DEF MessageOf, Entering, PressesOf
  <2>7. QED BY <2>4, <2>5, <2>6 DEF UpdateInv
<1>3. CASE Open(u)
  <2>1. /\ pc[u] = "open" /\ pc'[u] = "prompt" /\ opened' = opened \cup {u}
        /\ UNCHANGED <<created, update, seen>>
    BY <1>3 DEF Open
  <2>2. ReceivedOf(u)' BY <2>1 DEF ReceivedOf, Running
  <2>3. PressOf(u)' BY <1>0, <2>1 DEF PressOf, Entitled
  <2>4. MessageOf(u)' BY <1>0, <2>1 DEF MessageOf, Entering, PressesOf
  <2>5. QED BY <2>2, <2>3, <2>4 DEF UpdateInv
<1>4. CASE Prompt(u) \/ IgnoreMessage(u) \/ RefuseMessage(u) \/ Fail(u) \/ ConfirmAndClose(u)
  <2>1. /\ pc[u] # "idle" /\ pc'[u] = "done" /\ UNCHANGED <<created, update, opened, seen>>
    BY <1>4 DEF Prompt, IgnoreMessage, RefuseMessage, Fail, ConfirmAndClose, Running
  <2>2. PressOf(u)' BY <1>0, <2>1 DEF PressOf, Entitled
  <2>3. MessageOf(u)' BY <1>0, <2>1 DEF MessageOf, Entering, PressesOf
  <2>4. QED BY <2>1, <2>2, <2>3 DEF UpdateInv, ReceivedOf, Running, Checking
<1>5. CASE TakeMessage(u)
  <2>1. /\ pc[u] = "message" /\ pc'[u] = "find_actor" /\ update[u].user \in awaiting
        /\ seen'[u] = PressesOf(update[u].user)
        /\ UNCHANGED <<created, update, opened>>
    BY <1>5 DEF TakeMessage
  <2>2. PressesOf(update[u].user)' = seen'[u] BY <2>1 DEF PressesOf
  <2>3. PressesOf(update[u].user) # {} BY <2>1
  <2>4. u \in created => "row" \in had[u] BY <1>0 DEF MessageOf
  <2>5. MessageOf(u)' BY <2>1, <2>2, <2>3, <2>4 DEF MessageOf
  <2>6. PressOf(u)' BY <1>0, <2>1 DEF PressOf
  <2>7. QED BY <2>1, <2>5, <2>6 DEF UpdateInv, ReceivedOf, Running
<1>6. CASE FindActor(u) \/ Commit(u)
  <2>1. /\ pc[u] \in {"find_actor", "commit"} /\ pc'[u] \in {"commit", "confirm", "done"}
        /\ u \in created' => u \in created \/ "row" \in standing[update[u].user]
        /\ UNCHANGED <<update, opened, seen>>
    BY <1>6 DEF FindActor, Commit
  <2>2. standing[update[u].user] \subseteq had[u] BY <1>0, <2>1 DEF ReceivedOf, Checking
  <2>3. MessageOf(u)' BY <1>0, <2>1, <2>2 DEF MessageOf, Entering, PressesOf
  <2>4. PressOf(u)' BY <1>0, <2>1 DEF PressOf
  <2>5. QED BY <2>1, <2>3, <2>4 DEF UpdateInv, ReceivedOf, Running
<1>7. QED BY <1>1, <1>2, <1>3, <1>4, <1>5, <1>6 DEF StepOf, Handle

LEMMA AwaitingStep ==
  ASSUME CoreOK, NEW u \in Update, StepOf(u), ReceivedOf(u),
         \A user \in awaiting : PressesOf(user) # {}
  PROVE  \A user \in awaiting' : PressesOf(user)' # {}
<1>1. awaiting' \subseteq awaiting \/ (Open(u) /\ awaiting' = awaiting \cup {update[u].user})
  BY Frame DEF Open, Commit, ConfirmAndClose
<1>2. QED BY <1>1, PressesStep

LEMMA WizardStep == WizardInv /\ [Next]_vars => WizardInv'
<1>1. SUFFICES ASSUME WizardInv, [Next]_vars PROVE WizardInv'
  OBVIOUS
<1>2. /\ TypeOK /\ CoreOK /\ (\A user \in awaiting : PressesOf(user) # {})
      /\ \A u \in Update : UpdateInv(u) /\ (Running(u) => update[u] # NoUpdate)
  BY <1>1, WizardByUpdate, Core DEF UpdateInv, ReceivedOf
<1>3. CASE UNCHANGED vars
  BY <1>1, <1>3 DEF vars, WizardInv, TypeOK, PressOf, MessageOf, ReceivedOf, PressesOf,
     Running, Checking, Entering, Entitled
<1>4. CASE ChangeUser /\ Observe
  <2>1. UNCHANGED <<awaiting, created, update, pc, result, opened, seen>> BY <1>4 DEF ChangeUser
  <2>2. CoreOK' BY <1>2, <1>4, WizardAssumption DEF CoreOK, ChangeUser
  <2>3. \A u \in Update : Running(u)' => update'[u] # NoUpdate BY <1>2, <2>1 DEF Running
  <2>4. TypeOK' BY <1>2, <1>4, <2>2, <2>3, Noted DEF TypeOK, CoreOK
  <2>5. \A user : PressesOf(user)' = PressesOf(user) BY <2>1 DEF PressesOf
  <2>6. \A u \in Update : UpdateInv(u)'
    BY <1>2, <1>4, <2>1, <2>2, <2>3, <2>5, Untouched, Noted
  <2>7. QED BY <1>2, <2>1, <2>4, <2>5, <2>6 DEF WizardInv, UpdateInv
<1>5. CASE Restart /\ UNCHANGED <<standing, edits>> /\ Observe
  <2>1. /\ awaiting' = {} /\ UNCHANGED <<created, update, opened, seen>>
        /\ \A u \in Update : pc'[u] \in {"idle", "done"} /\ (pc'[u] = "idle" => pc[u] = "idle")
    BY <1>2, <1>5 DEF Restart, CoreOK, Running
  <2>2. CoreOK' BY <1>2, <1>5 DEF CoreOK, Restart, Result
  <2>3. \A u \in Update : Running(u)' => update'[u] # NoUpdate BY <2>1 DEF Running
  <2>4. /\ TypeOK' /\ \A u \in Update : had[u] \subseteq had'[u]
    BY <1>2, <1>5, <2>2, <2>3, Noted DEF TypeOK, CoreOK
  <2>5. ASSUME NEW u \in Update PROVE UpdateInv(u)'
    <3>1. UpdateInv(u) BY <1>2
    <3>2. ReceivedOf(u)' BY <2>1, <3>1 DEF UpdateInv, ReceivedOf, Running, Checking
    <3>3. PressOf(u)' BY <2>1, <2>4, <3>1 DEF UpdateInv, PressOf, Entitled
    <3>4. MessageOf(u)' BY <2>1, <2>4, <3>1 DEF UpdateInv, MessageOf, Entering, PressesOf
    <3>5. QED BY <3>2, <3>3, <3>4 DEF UpdateInv
  <2>6. QED BY <2>1, <2>4, <2>5 DEF WizardInv, UpdateInv
<1>6. ASSUME NEW u \in Update, StepOf(u), UNCHANGED <<standing, edits>>, Observe
      PROVE  WizardInv'
  <2>1. CoreOK' /\ (Running(u)' => update'[u] # NoUpdate) BY <1>2, <1>6, CoreStep
  <2>2. \A v \in Update : Running(v)' => update'[v] # NoUpdate
    BY <1>2, <1>6, <2>1, Frame DEF Running
  <2>3. /\ TypeOK'
        /\ \A v \in Update : /\ had[v] \subseteq had'[v]
                             /\ Checking(v)' => standing'[update'[v].user] \subseteq had'[v]
    BY <1>2, <1>6, <2>1, <2>2, Noted DEF TypeOK, CoreOK
  <2>4. ReceivedOf(u) BY <1>2 DEF UpdateInv
  <2>5. \A user : PressesOf(user) \subseteq PressesOf(user)'
    BY <1>2, <1>6, <2>4, PressesStep
  <2>6. UpdateInv(u)' BY <1>2, <1>6, <2>2, <2>3, OwnStep
  <2>7. ASSUME NEW v \in Update \ {u} PROVE UpdateInv(v)'
    <3>1. /\ v \in created' => v \in created
          /\ v \in opened' <=> v \in opened
      BY <1>2, <1>6, <2>7, Frame DEF Open, Commit, ConfirmAndClose
    <3>2. pc'[v] = pc[v] /\ update'[v] = update[v] /\ seen'[v] = seen[v]
      BY <1>2, <1>6, <2>7, Frame
    <3>3. QED BY <1>2, <2>3, <2>5, <3>1, <3>2, Untouched
  <2>8. \A user \in awaiting' : PressesOf(user)' # {} BY <1>2, <1>6, <2>4, AwaitingStep
  <2>9. QED BY <2>3, <2>6, <2>7, <2>8 DEF WizardInv, UpdateInv
<1>7. QED BY <1>1, <1>3, <1>4, <1>5, <1>6 DEF Next, StepOf

(* Every variable keeps its type.                                          *)
THEOREM TypeCorrect == Spec => []TypeOK
<1>1. WizardInv => TypeOK BY DEF WizardInv
<1>2. QED BY <1>1, WizardInit, WizardStep, PTL DEF Spec

(* The open wizards, the presses that opened them and the messages that    *)
(* were taken from them fit together: WizardInv is inductive.              *)
THEOREM Wizards == Spec => []WizardInv
BY WizardInit, WizardStep, PTL DEF Spec

(* Whoever has made an instance by a message was registered while it was   *)
(* entered, and had been let in by the button before (bot.py:61-71, 85),   *)
(* through any interleaving, failure, restart and change of the tables.    *)
THEOREM InstancesOfTheEntitled == Spec => []CreatedByEntitled
<1>1. ASSUME WizardInv PROVE CreatedByEntitled
  <2>1. SUFFICES ASSUME NEW u \in created
                 PROVE  /\ "row" \in had[u]
                        /\ \E p \in seen[u] : update[p].user = update[u].user /\ Entitled(p)
    BY DEF CreatedByEntitled
  <2>2. u \in Update /\ opened \subseteq Update BY <1>1 DEF WizardInv, TypeOK
  <2>3. "row" \in had[u] BY <1>1, <2>2 DEF WizardInv, MessageOf
  <2>4. PICK p \in seen[u] : p \in PressesOf(update[u].user)
    BY <1>1, <2>2 DEF WizardInv, MessageOf
  <2>5. p \in opened /\ update[p].user = update[u].user BY <2>4 DEF PressesOf
  <2>6. Entitled(p) BY <1>1, <2>2, <2>5 DEF WizardInv, PressOf
  <2>7. QED BY <2>3, <2>4, <2>5, <2>6
<1>2. WizardInv => CreatedByEntitled BY <1>1
<1>3. QED BY <1>2, Wizards, PTL

-----------------------------------------------------------------------------
(* How many instances are made.                                            *)

(* Of a user who is not crossed by this step, a message is only entered    *)
(* alone.                                                                  *)
LEMMA EnteredAlone ==
  ASSUME NEW user, ~Overlap(user), NEW u \in Update, Entering(u), update[u].user = user,
         NEW v \in Update \ {u}, Entering(v)
  PROVE  update[v].user # user
BY DEF Overlap

(* While a message of a user who is not crossed is entered, the wizard     *)
(* stays open.                                                             *)
LEMMA OpenWhileEntering ==
  ASSUME CoreOK, NEW u \in Update, StepOf(u), NEW user \in User,
         ~Overlap(user), NEW v \in Update,
         \A w \in Update : Entering(w) /\ update[w].user = user => user \in awaiting,
         Entering(v)', update'[v].user = user
  PROVE  user \in awaiting'
<1> USE DEF CoreOK, Goto, End
<1>1. CASE v = u
  <2>1. CASE TakeMessage(u) BY <1>1, <2>1 DEF TakeMessage
  <2>2. CASE FindActor(u) \/ Commit(u)
    BY <1>1, <2>2 DEF FindActor, Commit, Entering
  <2>3. CASE ~TakeMessage(u) /\ ~FindActor(u) /\ ~Commit(u)
    <3>1. pc'[u] \notin {"find_actor", "commit", "confirm"}
      BY <2>3 DEF StepOf, Handle, Receive, Fail, FindUser, FindRoles, Open, Prompt,
         IgnoreMessage, RefuseMessage, ConfirmAndClose
    <3>2. QED BY <1>1, <3>1 DEF Entering
  <2>4. QED BY <2>1, <2>2, <2>3
<1>2. CASE v # u
  <2>1. Entering(v) /\ update[v].user = user BY <1>2, Frame DEF Entering
  <2>2. user \in awaiting BY <2>1
  <2>3. CASE ConfirmAndClose(u)
    <3>1. Entering(u) BY <2>3 DEF ConfirmAndClose, Entering
    <3>2. update[u].user # user BY <1>2, <2>1, <3>1, EnteredAlone
    <3>3. QED BY <2>2, <2>3, <3>2 DEF ConfirmAndClose
  <2>4. CASE ~ConfirmAndClose(u) BY <2>2, <2>4, Frame DEF Open, Commit
  <2>5. QED BY <2>3, <2>4
<1>3. QED BY <1>1, <1>2

(* To whom an instance is due: only a press adds a user, and the commit of *)
(* the message takes the user off.                                         *)
LEMMA DueStep ==
  ASSUME CoreOK, NEW u \in Update, StepOf(u), NEW user \in User,
         ~Overlap(user), ~Overlap(user)', ~AnswerLost(user),
         \A w \in Update : Entering(w) /\ update[w].user = user => user \in awaiting
  PROVE  /\ Due(user)' => Due(user) \/ (Open(u) /\ update[u].user = user)
         /\ Commit(u) /\ update[u].user = user => Due(user) /\ ~Due(user)'
<1> USE DEF CoreOK, Goto, End
<1>0. \A v \in Update \ {u} : pc'[v] = pc[v] /\ update'[v] = update[v] BY Frame
<1>1. CASE Commit(u)
  <2>1. /\ pc[u] = "commit" /\ pc'[u] = "confirm" /\ UNCHANGED <<awaiting, update>>
    BY <1>1 DEF Commit
  <2>2. CASE update[u].user = user
    <3>1. user \in awaiting BY <2>1, <2>2 DEF Entering
    <3>2. \A v \in Update \ {u} : pc[v] = "confirm" => update[v].user # user
      BY <2>1, <2>2, EnteredAlone DEF Entering
    <3>3. Due(user) BY <2>1, <3>1, <3>2 DEF Due
    <3>4. ~Due(user)' BY <2>1, <2>2 DEF Due
    <3>5. QED BY <3>3, <3>4
  <2>3. CASE update[u].user # user
    BY <1>0, <2>1, <2>3 DEF Due
  <2>4. QED BY <2>2, <2>3
<1>2. CASE ConfirmAndClose(u)
  <2>1. /\ awaiting' = awaiting \ {update[u].user} /\ update' = update /\ pc[u] = "confirm"
    BY <1>2 DEF ConfirmAndClose
  <2>2. QED BY <1>0, <2>1 DEF Due, Commit
<1>3. CASE Open(u)
  <2>1. /\ awaiting' = awaiting \cup {update[u].user} /\ pc[u] = "open" /\ update' = update
    BY <1>3 DEF Open
  <2>2. QED BY <1>0, <1>3, <2>1 DEF Due, Commit
<1>4. CASE Fail(u) /\ pc[u] = "confirm" /\ update[u].user = user
  <2>1. user \in awaiting /\ awaiting' = awaiting /\ result'[u] = "failed"
    BY <1>4 DEF Fail, Entering
  <2>2. QED BY <1>4, <2>1 DEF AnswerLost
<1>5. CASE /\ ~Commit(u) /\ ~ConfirmAndClose(u) /\ ~Open(u)
           /\ ~(Fail(u) /\ pc[u] = "confirm" /\ update[u].user = user)
  <2>1. awaiting' = awaiting BY <1>5, Frame
  <2>2. pc[u] # "confirm" \/ update[u].user # user
    BY <1>5 DEF StepOf, Handle, Receive, FindUser, FindRoles, Prompt, TakeMessage,
       IgnoreMessage, RefuseMessage, FindActor
  <2>3. QED BY <1>0, <1>5, <2>1, <2>2 DEF Due
<1>6. QED BY <1>1, <1>2, <1>3, <1>4, <1>5

LEMMA Counted ==
  ASSUME CoreOK, NEW user
  PROVE  /\ IsFiniteSet(CreatedBy(user)) /\ IsFiniteSet(PressesOf(user))
         /\ Cardinality(CreatedBy(user)) \in Nat /\ Cardinality(PressesOf(user)) \in Nat
<1>1. CreatedBy(user) \subseteq Update /\ PressesOf(user) \subseteq Update
  BY DEF CoreOK, CreatedBy, PressesOf
<1>2. QED BY <1>1, WizardAssumption, FS_Subset, FS_CardinalityType

LEMMA OwedStep ==
  ASSUME CoreOK, NEW u \in Update, StepOf(u), ReceivedOf(u), PressOf(u), NEW user \in User,
         Owed(user) <= Cardinality(PressesOf(user)),
         Due(user)' => Due(user) \/ (Open(u) /\ update[u].user = user),
         Commit(u) /\ update[u].user = user => Due(user) /\ ~Due(user)'
  PROVE  Owed(user)' <= Cardinality(PressesOf(user)')
<1> DEFINE C == CreatedBy(user)
           P == PressesOf(user)
<1>1. /\ IsFiniteSet(C) /\ IsFiniteSet(P)
      /\ Cardinality(C) \in Nat /\ Cardinality(P) \in Nat
  BY Counted
<1>2. CASE Open(u) /\ update[u].user = user
  <2>1. u \notin P BY <1>2 DEF Open, PressOf, PressesOf
  <2>2. PressesOf(user)' = P \cup {u} BY <1>2, PressesStep
  <2>3. Cardinality(P \cup {u}) = Cardinality(P) + 1 BY <1>1, <2>1, FS_AddElement
  <2>4. CreatedBy(user)' = C BY <1>2, CreatedStep DEF Open, Commit
  <2> HIDE DEF C, P
  <2>5. QED BY <1>1, <2>2, <2>3, <2>4 DEF Owed, C, P
<1>3. CASE Commit(u) /\ update[u].user = user
  <2>1. PressesOf(user)' = P BY <1>3, PressesStep DEF Open, Commit
  <2>2. CreatedBy(user)' = C \cup {u} BY <1>3, CreatedStep
  <2>3. Cardinality(C \cup {u}) \in {Cardinality(C), Cardinality(C) + 1}
    BY <1>1, FS_AddElement
  <2> HIDE DEF C, P
  <2>4. QED BY <1>1, <1>3, <2>1, <2>2, <2>3 DEF Owed, C, P
<1>4. CASE ~(Open(u) /\ update[u].user = user) /\ ~(Commit(u) /\ update[u].user = user)
  <2>1. PressesOf(user)' = P BY <1>4, PressesStep
  <2>2. CreatedBy(user)' = C BY <1>4, CreatedStep
  <2> HIDE DEF C, P
  <2>3. QED BY <1>1, <1>4, <2>1, <2>2 DEF Owed, C, P
<1>5. QED BY <1>2, <1>3, <1>4

(* What PressInv says of one user.                                         *)
UserInv(user) ==
  /\ \A u \in Update : Entering(u) /\ update[u].user = user => user \in awaiting
  /\ ~Overlap(user)
  /\ Owed(user) <= Cardinality(PressesOf(user))

LEMMA UserStep ==
  ASSUME CoreOK, NEW u \in Update, StepOf(u), ReceivedOf(u), PressOf(u), NEW user \in User,
         UserInv(user), ~Overlap(user)', ~AnswerLost(user)
  PROVE  UserInv(user)'
<1>1. \A w \in Update : Entering(w) /\ update[w].user = user => user \in awaiting
  BY DEF UserInv
<1>2. \A v \in Update : Entering(v)' /\ update'[v].user = user => user \in awaiting'
  BY <1>1, OpenWhileEntering DEF UserInv
<1>3. /\ Due(user)' => Due(user) \/ (Open(u) /\ update[u].user = user)
      /\ Commit(u) /\ update[u].user = user => Due(user) /\ ~Due(user)'
  BY <1>1, DueStep DEF UserInv
<1>4. Owed(user)' <= Cardinality(PressesOf(user)') BY <1>3, OwedStep DEF UserInv
<1>5. QED BY <1>2, <1>4 DEF UserInv

LEMMA PressByUser == PressInv <=> \A user \in User \ crossed : UserInv(user)
BY DEF PressInv, UserInv

LEMMA PressInit == Init => PressInv
<1>1. SUFFICES ASSUME Init PROVE PressInv
  OBVIOUS
<1>2. \A user \in User : CreatedBy(user) = {} /\ PressesOf(user) = {} /\ ~Due(user)
  BY <1>1 DEF Init, CreatedBy, PressesOf, Due
<1>3. Cardinality({}) = 0 BY FS_EmptySet
<1>4. \A user \in User : Owed(user) <= Cardinality(PressesOf(user))
  BY <1>2, <1>3 DEF Owed
<1>5. QED BY <1>1, <1>4 DEF Init, PressInv, Entering, Overlap

LEMMA PressNext == WizardInv /\ WizardInv' /\ PressInv /\ [Next]_vars => PressInv'
<1>1. SUFFICES ASSUME WizardInv, WizardInv', PressInv, [Next]_vars PROVE PressInv'
  OBVIOUS
<1>2. /\ TypeOK /\ CoreOK /\ CoreOK'
      /\ \A u \in Update : ReceivedOf(u) /\ PressOf(u)
      /\ \A u \in Update : Running(u)' => update'[u] # NoUpdate
  BY <1>1, Core DEF WizardInv, ReceivedOf, TypeOK, CoreOK
<1>3. \A user \in User \ crossed : UserInv(user) BY <1>1, PressByUser
<1>4. SUFFICES \A user \in User \ crossed' : UserInv(user)'
  BY DEF PressInv, UserInv
<1>5. CASE UNCHANGED vars
  <2>1. UNCHANGED <<awaiting, created, update, pc, opened, crossed>> BY <1>5 DEF vars
  <2>2. QED BY <1>3, <2>1 DEF UserInv, Entering, Overlap, Owed, Due, CreatedBy, PressesOf
<1>6. CASE Observe
  <2>1. SUFFICES ASSUME NEW user \in User \ crossed' PROVE UserInv(user)'
    OBVIOUS
  <2>2. UserInv(user) /\ ~Overlap(user)' /\ ~AnswerLost(user)
    BY <1>2, <1>3, <1>6, <2>1, Noted
  <2>3. CASE ChangeUser
    <3>1. UNCHANGED <<awaiting, created, update, pc, opened>> BY <2>3 DEF ChangeUser
    <3>2. QED BY <2>2, <3>1 DEF UserInv, Entering, Overlap, Owed, Due, CreatedBy, PressesOf
  <2>4. CASE Restart
    <3>1. /\ awaiting' = {} /\ UNCHANGED <<created, update, opened>>
          /\ \A v \in Update : pc'[v] \in {"idle", "done"}
      BY <1>2, <2>4 DEF Restart, CoreOK, Running
    <3>2. CreatedBy(user)' = CreatedBy(user) /\ PressesOf(user)' = PressesOf(user)
      BY <3>1 DEF CreatedBy, PressesOf
    <3>3. ~Due(user)' BY <3>1 DEF Due
    <3>4. Owed(user)' <= Cardinality(PressesOf(user)')
      BY <1>2, <2>2, <3>2, <3>3, Counted DEF Owed, UserInv
    <3>5. QED BY <2>2, <3>1, <3>4 DEF UserInv, Entering
  <2>5. ASSUME NEW u \in Update, StepOf(u) PROVE UserInv(user)'
    BY <1>2, <2>1, <2>2, <2>5, UserStep
  <2>6. QED BY <1>1, <1>6, <2>3, <2>4, <2>5, <1>5 DEF Next, StepOf
<1>7. QED BY <1>1, <1>5, <1>6 DEF Next

(* Of a user whose messages have not overlapped and lost no answer, an     *)
(* open wizard is good for one more instance, and each has a press of its  *)
(* own: PressInv is inductive.                                             *)
THEOREM Presses == Spec => []PressInv
BY PressInit, PressNext, Wizards, PTL DEF Spec

(* So the two known ways to a second instance of one press are all there   *)
(* are (bot.py:85, 130-143).                                               *)
THEOREM NoThirdWay == Spec => []ExtraInstancesExplained
<1>1. ASSUME TypeOK, PressInv PROVE ExtraInstancesExplained
  <2>1. ASSUME NEW user \in User \ crossed
        PROVE  Cardinality(CreatedBy(user)) <= Cardinality(PressesOf(user))
    <3>1. Owed(user) <= Cardinality(PressesOf(user)) BY <1>1 DEF PressInv
    <3>2. QED BY <1>1, <3>1, Core, Counted DEF Owed
  <2>2. QED BY <2>1 DEF ExtraInstancesExplained
<1>2. TypeOK /\ PressInv => ExtraInstancesExplained BY <1>1
<1>3. QED BY <1>2, TypeCorrect, Presses, PTL
=============================================================================
