------------------------------ MODULE Messages ------------------------------
(***************************************************************************)
(* The drafts of invitations and reminders: administrators save, activate  *)
(* and delete them, a batch that sends takes the active ones, or the one   *)
(* the sender picked, once before its first message and fills them in for  *)
(* each participant.                                                       *)
(*                                                                         *)
(* What matters of an SMS is its length: that of its plain text, how often *)
(* it names the test and the organisation, and how long these names are    *)
(* once they are in Latin letters.  What matters of an e-mail is where it  *)
(* has its link, its section for new users and the password.               *)
(***************************************************************************)
EXTENDS Integers, Sequences, FiniteSets, FiniteSetsExt

CONSTANTS
  DraftIds, Admins,
  Batches,      \* batches that send at a time
  SmsMax,       \* characters of one SMS
  SampleTest, SampleOrg,   \* lengths of the sample values a draft is saved with
  MaxName,      \* bound: length of a name
  SmsBodies,    \* texts that somebody tries to save for an SMS
  MailBodies,   \* and for an e-mail
  NoBody

ASSUME MessagesAssumption ==
  /\ SmsMax \in Nat /\ SampleOrg \in Nat
  /\ SampleTest \in Nat /\ SampleTest >= 2
  /\ MaxName \in Nat
  /\ SmsBodies \subseteq [plain : Nat, tests : Nat, orgs : Nat, link : BOOLEAN]
  /\ MailBodies \subseteq [tokens : Seq({"link", "open", "close", "password"})]

VARIABLES
  drafts,     \* message_draft: what each id holds, NoBody without a row
  saving,     \* where each administrator's save is
  batch       \* the draft each batch took, and the last message made of it

messageVars == <<drafts, saving, batch>>

Types == {"inviteEmail", "inviteSms"}

Bodies(t) == IF t = "inviteSms" THEN SmsBodies ELSE MailBodies

Has(mail, token) == \E i \in DOMAIN mail.tokens : mail.tokens[i] = token
Idle == [at |-> "idle"]

MessagesInit ==
  /\ drafts = [d \in DraftIds |-> NoBody]
  /\ saving = [a \in Admins |-> Idle]
  /\ batch = [b \in Batches |-> Idle]

-----------------------------------------------------------------------------
(* How a draft is filled in                                                *)

Text(b, test, org) == b.plain + b.tests * test + b.orgs * org

Room(b, org) == SmsMax - Text(b, 2, org)

\* renderSms: a text that is too long has the name of the test cut.
RenderSms(b, test, org) ==
  LET whole == Text(b, test, org)
      cut == Min({test, Max({0, Room(b, org)})})
  IN  IF whole <= SmsMax \/ b.tests = 0 THEN whole ELSE Text(b, cut + 2, org)

\* The first "open" that a "close" follows, and that "close".
Section(mail) ==
  LET o == Min({i \in DOMAIN mail.tokens : mail.tokens[i] = "open"})
  IN  o..Min({i \in DOMAIN mail.tokens : i > o /\ mail.tokens[i] = "close"})

Paired(mail) == \E i, j \in DOMAIN mail.tokens : i < j /\ mail.tokens[i] = "open" /\ mail.tokens[j] = "close"

\* sendInvitationTemplate puts the section in front of a draft that has none.
NeedsSection(mail) == ~Has(mail, "close") /\ ~Has(mail, "open")

\* A lone {account} stands for the default section, which names the password.
ShowsPassword(mail) ==
  LET lone == IF Paired(mail)
                THEN {i \in DOMAIN mail.tokens : mail.tokens[i] = "open"} \ {Min(Section(mail))}
                ELSE {i \in DOMAIN mail.tokens : mail.tokens[i] = "open"}
  IN  NeedsSection(mail) \/ Has(mail, "password") \/ lone # {}

-----------------------------------------------------------------------------
(* saveDraft and deleteDraft                                               *)

Steps(a, record) == saving' = [saving EXCEPT ![a] = record]

\* An SMS needs the link and must fit with the sample values; an e-mail needs
\* a link or button, and the end of the section only after its beginning.
Valid(t, body) ==
  IF t = "inviteSms" THEN body.link /\ RenderSms(body, SampleTest, SampleOrg) <= SmsMax
  ELSE Has(body, "link") /\ (Has(body, "close") => Paired(body))

\* A new draft has an id the table never gave before.
AskSave(a, d, t, isNew) ==
  /\ saving[a] = Idle
  /\ isNew <=> drafts[d] = NoBody
  /\ isNew => \A w \in Admins : saving[w] # Idle => saving[w].id # d
  /\ \E body \in Bodies(t), on \in BOOLEAN :
       /\ Valid(t, body)
       /\ Steps(a, [at |-> IF on THEN "clear" ELSE "write", id |-> d, cleared |-> {},
                    draft |-> [type |-> t, body |-> body, active |-> on]])
  /\ UNCHANGED <<drafts, batch>>

ActiveOf(t) == {d \in DraftIds : drafts[d] # NoBody /\ drafts[d].type = t /\ drafts[d].active}

\* The transaction's first statement: it waits for another that holds the row.
ClearActive(a) ==
  /\ saving[a].at = "clear"
  /\ LET seen == ActiveOf(saving[a].draft.type) IN
       /\ \A w \in Admins \ {a} : saving[w].at = "write" => saving[w].cleared \cap seen = {}
       /\ Steps(a, [saving[a] EXCEPT !.at = "write", !.cleared = seen])
  /\ UNCHANGED <<drafts, batch>>

\* A slip: the index is not there.
ConflictsNever(a) == FALSE

\* uq_message_draft_active: one active row of a type, but for those this
\* transaction has cleared.
Conflicts(a) ==
  /\ saving[a].draft.active
  /\ ~ActiveOf(saving[a].draft.type) \subseteq saving[a].cleared \cup {saving[a].id}

\* save inserts a row that was deleted meanwhile; a conflict undoes it all.
WriteDraft(a) ==
  /\ saving[a].at = "write"
  /\ \A w \in Admins \ {a} : saving[w].at = "write" => saving[a].id \notin saving[w].cleared
  /\ Steps(a, Idle)
  /\ drafts' = IF Conflicts(a) THEN drafts
       ELSE [d \in DraftIds |->
               IF d = saving[a].id THEN saving[a].draft
               ELSE IF drafts[d] # NoBody /\ d \in saving[a].cleared
                 THEN [drafts[d] EXCEPT !.active = FALSE]
               ELSE drafts[d]]
  /\ UNCHANGED batch

DeleteDraft(d) ==
  /\ drafts[d] # NoBody
  /\ \A w \in Admins : saving[w].at = "write" => d \notin saving[w].cleared
  /\ drafts' = [drafts EXCEPT ![d] = NoBody]
  /\ UNCHANGED <<saving, batch>>

-----------------------------------------------------------------------------
(* chooseDrafts and notifyExam, for one participant of a batch             *)

\* The active draft, or the one picked if it is of the type; the built-in
\* texts are left out.
Choose(b, t, d) ==
  /\ d \in ActiveOf(t) \/ (drafts[d] # NoBody /\ drafts[d].type = t)
  /\ batch' = [batch EXCEPT ![b] = [at |-> "chosen", type |-> t, body |-> drafts[d].body]]
  /\ UNCHANGED <<drafts, saving>>

\* A participant's message: sendSkytelSms refuses a text that is too long.
Notify(b, test, org) ==
  /\ batch[b].at = "chosen"
  /\ LET t == batch[b].type
         body == batch[b].body
     IN  batch' = [batch EXCEPT ![b] =
           IF t = "inviteSms"
             THEN [at |-> "sms", body |-> body, org |-> org,
                   refused |-> RenderSms(body, test, org) > SmsMax]
             ELSE [at |-> "mail", body |-> body, password |-> ShowsPassword(body)]]
  /\ UNCHANGED <<drafts, saving>>

MessagesNext ==
  \/ \E a \in Admins :
       \/ \E d \in DraftIds, t \in Types, isNew \in BOOLEAN : AskSave(a, d, t, isNew)
       \/ ClearActive(a) \/ WriteDraft(a)
  \/ \E d \in DraftIds : DeleteDraft(d)
  \/ \E b \in Batches :
       \/ \E t \in Types, d \in DraftIds : Choose(b, t, d)
       \/ \E test, org \in 0..MaxName : Notify(b, test, org)

MessagesSpec == MessagesInit /\ [][MessagesNext]_messageVars

-----------------------------------------------------------------------------
(* Properties                                                              *)

\* uq_message_draft_active: however activations overlap, a type has one
\* active draft at most, so that getActive need not choose.
OneActiveDraft ==
  \A t \in Types : Cardinality(ActiveOf(t)) <= 1

\* saveDraft tries a draft with sample values so that no SMS made from it is
\* refused later: it holds whatever the name of the test, for organisations
\* no longer than the sample, if the draft names the test once at most.
SavedSmsFits ==
  \A b \in Batches : batch[b].at = "sms" /\ batch[b].body.tests <= 1 /\ batch[b].org <= SampleOrg
    => ~batch[b].refused

\* sendInvitationTemplate: a new user gets the password also from a draft
\* without the section for new users, or with one that names it.
PasswordReaches ==
  \A b \in Batches : batch[b].at = "mail" =>
    batch[b].password \/ (Paired(batch[b].body) /\ ~Has(batch[b].body, "password"))

MessagesSafe == OneActiveDraft /\ SavedSmsFits /\ PasswordReaches
=============================================================================
