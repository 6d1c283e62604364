------------------------------ MODULE Reminders ------------------------------
(***************************************************************************)
(* The monthly reminder of app/tasks/scheduler.py, in the process and over *)
(* the users of Access.  Its jobs live in the memory of the process: on a  *)
(* date that comes while it is down or starting nothing runs, then or later. *)
(***************************************************************************)
EXTENDS Access

CONSTANT Date   (* days of the month with a job of their own               *)

VARIABLES
  past,         (* the dates that have come                                *)
  job,          (* what the job of the last date awaits, or how it ended   *)
  waiting       (* the admins it has found and not reminded                *)

reminder == <<past, job, waiting>>

ReminderInit == Init /\ past = {} /\ job = "idle" /\ waiting = {}

Running == {"admins", "users", "submitted", "send"}

(* A job is done long before the next date.                                *)
DateComes ==
  /\ job \notin Running
  /\ \E d \in Date \ past : past' = past \cup {d}
  /\ job' = IF server.step = "up" THEN "admins" ELSE "missed"
  /\ waiting' = {}

FindAdmins ==
  /\ job = "admins" /\ job' = "users"
  /\ waiting' = {u \in DOMAIN user : user[u].active
                                     /\ user[u].roles \cap {"Super Admin", "Admin"} # {}}
  /\ UNCHANGED past

(* The lists that only the text is made of.                                *)
ListUsers ==
  /\ \/ job = "users" /\ job' = "submitted"
     \/ job = "submitted" /\ job' = "send"
  /\ UNCHANGED <<past, waiting>>

(* The roles of an admin were not loaded, and an AsyncSession refuses to   *)
(* load them when they are read: the first admin ends the job before the   *)
(* first message.  Without admins an empty transaction is committed.       *)
SendAll ==
  /\ job = "send"
  /\ job' = IF waiting = {} THEN "committed" ELSE "raised"
  /\ UNCHANGED <<past, waiting>>

FailJob ==
  /\ job \in Running /\ job' = "failed"
  /\ UNCHANGED <<past, waiting>>

JobStep == DateComes \/ FindAdmins \/ ListUsers \/ SendAll \/ FailJob

(* A job dies with its process.                                            *)
ServiceStep ==
  /\ Next
  /\ job' = IF server'.step = "down" /\ job \in Running THEN "failed" ELSE job
  /\ UNCHANGED <<past, waiting>>

ReminderSpec ==
  ReminderInit /\ [][ServiceStep \/ (JobStep /\ UNCHANGED vars)]_<<vars, reminder>>

(* "APScheduler persistent monthly reminders (20/22/23)" (README.md:19): a *)
(* job that no statement, process or connection failed, and whose process  *)
(* was up, leaves none of the admins it found without the message.         *)
AllReminded == job \in {"committed", "raised"} => waiting = {}
=============================================================================
