------------------------------ MODULE MCSeats ------------------------------
(***************************************************************************)
(* The seats of a purchased service, the drafts of the messages that go to *)
(* the participants, the choices of a question and what the studio keeps   *)
(* for a test.  The four share no state: a behaviour is one of one of      *)
(* them, and the others stay as they begin.                                *)
(***************************************************************************)
EXTENDS Seats, Messages, Choices, Studio, TLC

VARIABLE part

MCInit ==
  /\ part \in {"seats", "messages", "choices", "studio"}
  /\ Init /\ MessagesInit /\ ChoicesInit /\ StudioInit
  /\ part # "seats" => soldAt = 0
  /\ part # "studio" => /\ active = Nothing /\ variable = Nothing
                        /\ \A p \in Pages : json[p] = Nothing

MCNext ==
  /\ UNCHANGED part
  /\ \/ part = "seats" /\ Next /\ UNCHANGED <<messageVars, choiceVars, studioVars>>
     \/ part = "messages" /\ MessagesNext /\ UNCHANGED <<vars, choiceVars, studioVars>>
     \/ part = "choices" /\ ChoicesNext /\ UNCHANGED <<vars, messageVars, studioVars>>
     \/ part = "studio" /\ StudioNext /\ UNCHANGED <<vars, messageVars, choiceVars>>

MCSpec == MCInit /\ [][MCNext]_<<part, vars, messageVars, choiceVars, studioVars>>

-----------------------------------------------------------------------------
(* Texts an administrator tries to save: an SMS that names the test, one   *)
(* that names the organisation as well, one that does not fit and one      *)
(* without a link; an e-mail without the section for new users, one whose  *)
(* section lacks the password and one whose section never begins.          *)

Sms(plain, orgs, link) == [plain |-> plain, tests |-> 1, orgs |-> orgs, link |-> link]
Mail(t) == [tokens |-> t]

MCSmsBodies == {Sms(3, 0, TRUE), Sms(2, 1, TRUE), Sms(4, 0, TRUE), Sms(0, 0, FALSE)}
MCMailBodies == {Mail(<<"link">>), Mail(<<"open", "link", "close">>), Mail(<<"close", "link">>)}

\* The two requests of the purchase are the two people of the other parts as
\* well, the drafts are the templates of the test.
Symmetry == Permutations(Requests) \cup Permutations(DraftIds)
=============================================================================
