------------------------------ MODULE Schedules ------------------------------
(***************************************************************************)
(* Invitations and reminders that an organisation schedules: the rows of   *)
(* message_schedule, and the replicas that claim the due ones every minute *)
(* and send them.                                                          *)
(*                                                                         *)
(* claimDue turns up to Limit pending rows to sending in one UPDATE (FOR   *)
(* UPDATE SKIP LOCKED); the replica then runs them one after the other.    *)
(* An invitation reserves its seats only then, creates an account for an   *)
(* address that has none, and leaves one mail for each code to the queue.  *)
(***************************************************************************)
EXTENDS Naturals, FiniteSets

CONSTANTS
  Replicas,   \* processes of the service
  Invites,    \* scheduled invitations, all to the same addresses
  N,          \* addresses 1..N, in the order of the list
  Services,   \* purchases whose seats an invitation may use, 1..Services
  Seats,      \* seats left of each purchase
  Limit,      \* rows a replica claims at a time
  Nobody      \* no row, no account

ASSUME SchedulesAssumption ==
  /\ N \in Nat \ {0} /\ Services \in Nat /\ Seats \in Nat /\ Limit \in Nat \ {0}
  /\ Nobody \notin Invites \X {"invite", "remind"}

Addresses == 1..N
Rows == Invites \X {"invite", "remind"}

VARIABLES
  status,     \* status of each row; "none": not stored yet
  held,       \* rows a replica claimed and has not finished
  run,        \* the row it runs
  at,         \* the purchase it takes seats of; Services + 1: it has what it gets
  want,       \* seats it found there and asks for; 0: it has not looked
  seats,      \* seats left
  codes,      \* codes an invitation reserved
  step,       \* where the message of a row to an address is
  account,    \* the invitation whose password an address's account has
  ended,      \* exams that were finished: <<invitation, address>>
  mails,      \* how often the message of a row was left to the queue
  secret,     \* invitations that mailed an address a password
  crashed     \* history: a replica went down with rows it had claimed

work == <<run, at, want>>
people == <<account, secret>>
vars == <<status, held, work, seats, codes, step, people, ended, mails, crashed>>

TypeOK ==
  /\ status \in [Rows -> {"none", "pending", "sending", "done", "failed", "cancelled"}]
  /\ held \in [Replicas -> SUBSET Rows]
  /\ run \in [Replicas -> Rows \cup {Nobody}]
  /\ at \in [Replicas -> 1..(Services + 1)]
  /\ want \in [Replicas -> 0..N]
  /\ seats \in [1..Services -> 0..Seats]
  /\ codes \in [Invites -> 0..N]
  /\ step \in [Rows -> [Addresses -> {"todo", "add", "mail", "sent", "failed", "skipped"}]]
  /\ account \in [Addresses -> Invites \cup {Nobody, "own"}]
  /\ ended \subseteq Invites \X Addresses
  /\ mails \in [Rows -> [Addresses -> Nat]]
  /\ secret \in [Addresses -> SUBSET Invites]
  /\ crashed \in BOOLEAN

Init ==
  /\ status = [r \in Rows |-> IF r[2] = "invite" THEN "pending" ELSE "none"]
  /\ held = [p \in Replicas |-> {}]
  /\ run = [p \in Replicas |-> Nobody]
  /\ at = [p \in Replicas |-> 1]
  /\ want = [p \in Replicas |-> 0]
  /\ seats = [v \in 1..Services |-> Seats]
  /\ codes = [s \in Invites |-> 0]
  /\ step = [r \in Rows |-> [i \in Addresses |-> "todo"]]
  /\ account \in [Addresses -> {Nobody, "own"}]
  /\ ended = {}
  /\ mails = [r \in Rows |-> [i \in Addresses |-> 0]]
  /\ secret = [i \in Addresses |-> {}]
  /\ crashed = FALSE

Least(a, b) == IF a < b THEN a ELSE b

-----------------------------------------------------------------------------
(* cancelSchedule, claimDue, finish                                        *)

Cancel(r) ==
  /\ status[r] = "pending"
  /\ status' = [status EXCEPT ![r] = "cancelled"]
  /\ UNCHANGED <<held, work, seats, codes, step, people, ended, mails, crashed>>

\* A slip: rows that are being sent are due as well.
DueAgain == {r \in Rows : status[r] \in {"pending", "sending"}}

Due == {r \in Rows : status[r] = "pending"}

\* Which rows are due is a matter of their sendAt.
Claim(p) ==
  /\ held[p] = {}
  /\ \E R \in (SUBSET Due) \ {{}} :
       /\ Cardinality(R) <= Limit
       /\ held' = [held EXCEPT ![p] = R]
       /\ status' = [r \in Rows |-> IF r \in R THEN "sending" ELSE status[r]]
  /\ UNCHANGED <<work, seats, codes, step, people, ended, mails, crashed>>

\* A run begins with no address reached.
Start(p) ==
  /\ run[p] = Nobody
  /\ \E r \in held[p] :
       /\ run' = [run EXCEPT ![p] = r]
       /\ step' = [step EXCEPT ![r] = [i \in Addresses |-> "todo"]]
  /\ UNCHANGED <<status, held, at, want, seats, codes, people, ended, mails, crashed>>

Rest(p) ==
  /\ run' = [run EXCEPT ![p] = Nobody]
  /\ at' = [at EXCEPT ![p] = 1]
  /\ want' = [want EXCEPT ![p] = 0]

\* A row is done when its run returns, and failed when it throws; the replica
\* goes on to its next row.
Leave(p, outcome) ==
  /\ status' = [r \in Rows |->
       IF r = run[p] THEN outcome
       ELSE IF outcome = "done" /\ r = <<run[p][1], "remind">> /\ codes[r[1]] > 0 THEN "pending"
       ELSE status[r]]
  /\ held' = [held EXCEPT ![p] = @ \ {run[p]}]
  /\ Rest(p)
  /\ UNCHANGED <<seats, codes, step, people, ended, mails, crashed>>

-----------------------------------------------------------------------------
(* runScheduledInvite: the seats                                           *)

Inviting(p) == run[p] # Nobody /\ run[p][2] = "invite"

\* The seats left of the next purchase; none, or none needed: go on.
Look(p) ==
  /\ Inviting(p) /\ at[p] <= Services /\ want[p] = 0
  /\ LET n == Least(N - codes[run[p][1]], seats[at[p]])
     IN IF n = 0 THEN at' = [at EXCEPT ![p] = @ + 1] /\ UNCHANGED want
        ELSE want' = [want EXCEPT ![p] = n] /\ UNCHANGED at
  /\ UNCHANGED <<status, held, run, seats, codes, step, people, ended, mails, crashed>>

\* A slip: it takes what seats there are and makes all the codes.
TakeSome(p) ==
  /\ Inviting(p) /\ want[p] > 0
  /\ seats' = [seats EXCEPT ![at[p]] = @ - Least(@, want[p])]
  /\ codes' = [codes EXCEPT ![run[p][1]] = @ + want[p]]
  /\ at' = [at EXCEPT ![p] = @ + 1]
  /\ want' = [want EXCEPT ![p] = 0]
  /\ UNCHANGED <<status, held, run, step, people, ended, mails, crashed>>

\* createExam: all the seats asked for, or an error and none.
Take(p) ==
  /\ Inviting(p) /\ want[p] > 0
  /\ LET v == at[p]
     IN IF seats[v] >= want[p]
        THEN /\ seats' = [seats EXCEPT ![v] = @ - want[p]]
             /\ codes' = [codes EXCEPT ![run[p][1]] = @ + want[p]]
        ELSE UNCHANGED <<seats, codes>>
  /\ at' = [at EXCEPT ![p] = @ + 1]
  /\ want' = [want EXCEPT ![p] = 0]
  /\ UNCHANGED <<status, held, run, step, people, ended, mails, crashed>>

-----------------------------------------------------------------------------
(* sendLinkToMail: three workers share the list, each message on its own   *)

\* The address is to get message i of the row of p, which is at step s.
At(p, i, s) ==
  /\ Inviting(p) /\ at[p] = Services + 1
  /\ i <= codes[run[p][1]]
  /\ step[run[p]][i] = s

Set(r, i, s) == step' = [step EXCEPT ![r][i] = s]

FindUser(p, i) ==
  /\ At(p, i, "todo")
  /\ Set(run[p], i, IF account[i] = Nobody THEN "add" ELSE "mail")
  /\ UNCHANGED <<status, held, work, seats, codes, people, ended, mails, crashed>>

\* A new password; the error of an address that has an account is ignored, and
\* the mail carries the password all the same.
AddUser(p, i) ==
  /\ At(p, i, "add")
  /\ account' = [account EXCEPT ![i] = IF @ = Nobody THEN run[p][1] ELSE @]
  /\ secret' = [secret EXCEPT ![i] = @ \cup {run[p][1]}]
  /\ Set(run[p], i, "mail")
  /\ UNCHANGED <<status, held, work, seats, codes, ended, mails, crashed>>

Mail(p, i) ==
  /\ At(p, i, "mail")
  /\ mails' = [mails EXCEPT ![run[p]][i] = @ + 1]
  /\ Set(run[p], i, "sent")
  /\ UNCHANGED <<status, held, work, seats, codes, people, ended, crashed>>

\* One address fails, the others go on.
Fail(p, i) ==
  /\ \E s \in {"todo", "add", "mail"} : At(p, i, s)
  /\ Set(run[p], i, "failed")
  /\ UNCHANGED <<status, held, work, seats, codes, people, ended, mails, crashed>>

\* A slip: an invitation waits for every address of its list.
InvitedAll(p) ==
  /\ Inviting(p) /\ at[p] = Services + 1
  /\ \A i \in Addresses : step[run[p]][i] \in {"sent", "failed"}
  /\ Leave(p, "done")

Invited(p) ==
  /\ Inviting(p) /\ at[p] = Services + 1
  /\ \A i \in 1..codes[run[p][1]] : step[run[p]][i] \in {"sent", "failed"}
  /\ Leave(p, "done")

-----------------------------------------------------------------------------
(* remind: codes one after the other, those that are not finished          *)

Remind(p, i) ==
  /\ run[p] # Nobody /\ run[p][2] = "remind"
  /\ i <= codes[run[p][1]] /\ step[run[p]][i] = "todo"
  /\ \A j \in 1..(i - 1) : step[run[p]][j] # "todo"
  /\ IF <<run[p][1], i>> \in ended
     THEN Set(run[p], i, "skipped") /\ UNCHANGED mails
     ELSE /\ step' \in {[step EXCEPT ![run[p]][i] = s] : s \in {"sent", "failed"}}
          /\ mails' = IF step'[run[p]][i] = "sent"
                      THEN [mails EXCEPT ![run[p]][i] = @ + 1] ELSE mails
  /\ UNCHANGED <<status, held, work, seats, codes, people, ended, crashed>>

Reminded(p) ==
  /\ run[p] # Nobody /\ run[p][2] = "remind"
  /\ \A i \in 1..codes[run[p][1]] : step[run[p]][i] # "todo"
  /\ Leave(p, "done")

-----------------------------------------------------------------------------
\* The drafts of a row cannot be read, or another call of its run throws.
Throw(p) ==
  /\ run[p] # Nobody
  /\ Leave(p, "failed")

\* A replica goes down: nothing takes the rows it claimed.
Crash(p) ==
  /\ held[p] # {}
  /\ held' = [held EXCEPT ![p] = {}]
  /\ Rest(p)
  /\ crashed' = TRUE
  /\ UNCHANGED <<status, seats, codes, step, people, ended, mails>>

\* Another batch takes seats; a candidate finishes the exam of a mailed code.
TakeOther(v) ==
  /\ seats[v] > 0
  /\ seats' = [seats EXCEPT ![v] = @ - 1]
  /\ UNCHANGED <<status, held, work, codes, step, people, ended, mails, crashed>>

EndExam(s, i) ==
  /\ mails[<<s, "invite">>][i] > 0
  /\ ended' = ended \cup {<<s, i>>}
  /\ UNCHANGED <<status, held, work, seats, codes, step, people, mails, crashed>>

Inviter(p) ==
  \/ Look(p) \/ Take(p) \/ Invited(p)
  \/ \E i \in Addresses : FindUser(p, i) \/ AddUser(p, i) \/ Mail(p, i)

Reminder(p) == Reminded(p) \/ \E i \in Addresses : Remind(p, i)

Next ==
  \/ \E r \in Rows : Cancel(r)
  \/ \E p \in Replicas :
       \/ Claim(p) \/ Start(p) \/ Inviter(p) \/ Reminder(p) \/ Throw(p) \/ Crash(p)
       \/ \E i \in Addresses : Fail(p, i)
  \/ \E v \in 1..Services : TakeOther(v)
  \/ \E s \in Invites, i \in Addresses : EndExam(s, i)

\* A replica that is up goes on with what it began.
Fairness == \A p \in Replicas : WF_vars(Start(p) \/ Inviter(p) \/ Reminder(p))

Spec == Init /\ [][Next]_vars /\ Fairness

-----------------------------------------------------------------------------
(* What the schedule guarantees                                            *)

\* "Even if four replicas work at once it is sent once" (claimDue): no address
\* gets the message of a row twice, whatever is cancelled or crashes.
SentOnce == \A r \in Rows, i \in Addresses : mails[r][i] <= 1

\* A row that was cancelled sends nothing, neither before nor after.
CancelledSilent ==
  \A r \in Rows : status[r] = "cancelled" => \A i \in Addresses : mails[r][i] = 0

\* Every code was paid for with a seat: what invitations reserve never exceeds
\* the seats there were, although each looks and takes in two steps.
Reserved == UNION {{s} \X (1..codes[s]) : s \in Invites}
Left == UNION {{v} \X (1..seats[v]) : v \in 1..Services}
CodesPaid == Cardinality(Reserved) + Cardinality(Left) <= Services * Seats

\* What a schedule sends: once, and not when cancelled.
SentRight == SentOnce /\ CancelledSilent

\* A row that is being sent is done or failed at some time, unless a replica
\* goes down.
Settles == \A r \in Rows : status[r] = "sending" ~> (status[r] \in {"done", "failed"} \/ crashed)

\* An address whose account an invitation created, or found created, is mailed
\* no password but its own: "ignore unique-violation and treat as existing user".
PasswordsWork == \A i \in Addresses : secret[i] \subseteq {account[i]}
=============================================================================
