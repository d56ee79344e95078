------------------------------- MODULE Emails -------------------------------
(***************************************************************************)
(* The queue of e-mails: a row of email_logs and a BullMQ job for each,    *)
(* and the workers that send them through Resend.                          *)
(*                                                                         *)
(* A job is tried up to MaxTries times.  A job whose worker is lost is     *)
(* taken by another one, once.  The row is read and saved, so that to      *)
(* write the status of a row an admin has deleted throws.                  *)
(***************************************************************************)
EXTENDS Naturals

CONSTANTS
  Letters,    \* e-mails
  MaxTries    \* attempts of defaultJobOptions

ASSUME EmailsAssumption == MaxTries \in Nat \ {0}

VARIABLES
  log,        \* status of the row; "none": not created, "deleted": by an admin
  job,        \* where the job is
  tries,      \* attemptsMade
  stalled,    \* jobs whose worker was lost
  accepted,   \* how often Resend took the e-mail
  unsure      \* history: failures after Resend had taken it

emailVars == <<log, job, tries, stalled, accepted, unsure>>

Active == {"mark", "send", "accepted", "limited", "refused", "thrown"}

EmailTypeOK ==
  /\ log \in [Letters -> {"none", "pending", "sent", "failed", "retrying", "deleted"}]
  /\ job \in [Letters -> {"none", "logged", "waiting", "gone"} \cup Active]
  /\ tries \in [Letters -> 0..MaxTries]
  /\ stalled \subseteq Letters
  /\ accepted \in [Letters -> Nat]
  /\ unsure \in [Letters -> Nat]

EmailInit ==
  /\ log = [e \in Letters |-> "none"]
  /\ job = [e \in Letters |-> "none"]
  /\ tries = [e \in Letters |-> 0]
  /\ stalled = {}
  /\ accepted = [e \in Letters |-> 0]
  /\ unsure = [e \in Letters |-> 0]

-----------------------------------------------------------------------------
Step(e, from, to) ==
  /\ job[e] = from
  /\ job' = [job EXCEPT ![e] = to]

\* updateStatus, which throws if the row is gone.
Status(e, s, from, to) ==
  /\ Step(e, from, IF log[e] = "deleted" THEN "thrown" ELSE to)
  /\ log' = IF log[e] = "deleted" THEN log ELSE [log EXCEPT ![e] = s]

\* logAndQueue creates the row and then adds the job; between the two the
\* process may go down.
LogEmail(e) ==
  /\ Step(e, "none", "logged")
  /\ log' = [log EXCEPT ![e] = "pending"]
  /\ UNCHANGED <<tries, stalled, accepted, unsure>>

Queue(e) ==
  /\ Step(e, "logged", "waiting")
  /\ UNCHANGED <<log, tries, stalled, accepted, unsure>>

Unqueued(e) ==
  /\ Step(e, "logged", "gone")
  /\ UNCHANGED <<log, tries, stalled, accepted, unsure>>

TakeJob(e) ==
  /\ Step(e, "waiting", "mark")
  /\ UNCHANGED <<log, tries, stalled, accepted, unsure>>

\* A slip: the send goes on although the row cannot be marked.
MarkAnyway(e) ==
  /\ Step(e, "mark", "send")
  /\ log' = IF log[e] = "deleted" THEN log ELSE [log EXCEPT ![e] = "pending"]
  /\ UNCHANGED <<tries, stalled, accepted, unsure>>

Mark(e) ==
  /\ Status(e, "pending", "mark", "send")
  /\ UNCHANGED <<tries, stalled, accepted, unsure>>

\* Resend takes the e-mail, limits the rate (429) or refuses; or the call
\* throws, and nobody knows whether the e-mail was taken.
Send(e) ==
  \/ /\ Step(e, "send", "accepted")
     /\ accepted' = [accepted EXCEPT ![e] = @ + 1]
     /\ UNCHANGED <<log, tries, stalled, unsure>>
  \/ /\ Step(e, "send", "limited") \/ Step(e, "send", "refused")
     /\ UNCHANGED <<log, tries, stalled, accepted, unsure>>
  \/ /\ Step(e, "send", "thrown")
     /\ \E n \in {0, 1} :
          /\ accepted' = [accepted EXCEPT ![e] = @ + n]
          /\ unsure' = [unsure EXCEPT ![e] = @ + n]
     /\ UNCHANGED <<log, tries, stalled>>

\* A slip: a refused e-mail is thrown for another try, without its status.
RecordThrow(e) ==
  /\ \/ Status(e, "sent", "accepted", "gone")
     \/ Status(e, "retrying", "limited", "thrown")
     \/ Step(e, "refused", "waiting") /\ UNCHANGED log
  /\ UNCHANGED <<tries, stalled, accepted, unsure>>

Record(e) ==
  /\ \/ Status(e, "sent", "accepted", "gone")
     \/ Status(e, "retrying", "limited", "thrown")
     \/ Status(e, "failed", "refused", "gone")
  /\ UNCHANGED <<tries, stalled, accepted, unsure>>

NextTry(e) ==
  /\ Step(e, "thrown", IF tries[e] + 1 < MaxTries THEN "waiting" ELSE "gone")
  /\ tries' = [tries EXCEPT ![e] = @ + 1]

\* The catch block: FAILED, and the error goes on to BullMQ.
Catch(e) ==
  /\ NextTry(e)
  /\ log' = IF log[e] = "deleted" THEN log ELSE [log EXCEPT ![e] = "failed"]
  /\ UNCHANGED <<stalled, accepted, unsure>>

\* The database refuses a status: before the catch block, or in it.
Failing(e) ==
  /\ \/ \E s \in {"mark", "accepted", "limited", "refused"} : Step(e, s, "thrown") /\ UNCHANGED tries
     \/ NextTry(e)
  /\ unsure' = IF job[e] = "accepted" THEN [unsure EXCEPT ![e] = @ + 1] ELSE unsure
  /\ UNCHANGED <<log, stalled, accepted>>

\* The worker is lost: BullMQ gives the job to another, the first time.
Stall(e) ==
  /\ job[e] \in Active
  /\ job' = [job EXCEPT ![e] = IF e \in stalled THEN "gone" ELSE "waiting"]
  /\ stalled' = stalled \cup {e}
  /\ unsure' = IF job[e] = "accepted" THEN [unsure EXCEPT ![e] = @ + 1] ELSE unsure
  /\ UNCHANGED <<log, tries, accepted>>

DeleteLog(e) ==
  /\ log[e] # "none"
  /\ log' = [log EXCEPT ![e] = "deleted"]
  /\ UNCHANGED <<job, tries, stalled, accepted, unsure>>

Work(e) == TakeJob(e) \/ Mark(e) \/ Send(e) \/ Record(e) \/ Catch(e)

EmailNext ==
  \E e \in Letters :
    LogEmail(e) \/ Queue(e) \/ Unqueued(e) \/ Work(e) \/ Failing(e) \/ Stall(e) \/ DeleteLog(e)

\* Workers take jobs and finish what they began.
EmailFairness == \A e \in Letters : WF_emailVars(Work(e))

EmailSpec == EmailInit /\ [][EmailNext]_emailVars /\ EmailFairness

-----------------------------------------------------------------------------
(* What the queue guarantees                                               *)

\* No e-mail is taken twice by Resend, but for each failure that hid that it
\* had been taken: neither a retry nor the deletion of its row repeats it.
SentOncePerDoubt == \A e \in Letters : accepted[e] <= 1 + unsure[e]

\* A queued e-mail leaves the queue: its tries end.
QueueDrains == \A e \in Letters : job[e] = "waiting" ~> job[e] = "gone"
=============================================================================
