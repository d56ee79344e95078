------------------------------ MODULE MCAnswers ------------------------------
(***************************************************************************)
(* The answers of a participant, the files and recordings they may refer   *)
(* to, and the copy of a test.  The three share no state: a behaviour is   *)
(* one of one of them, and the others stay as they begin.                  *)
(***************************************************************************)
EXTENDS Answers, Media, Transfer, TLC

VARIABLE part

\* The two tabs are the two replicas and the two groups of answers as well.
Symmetry == Permutations(Tabs) \cup Permutations(Options)

\* A test without rows of other tests.
Plain ==
  /\ home = [q \in Items |-> "own"] /\ choiceOf \in [Choices -> {CHOOSE q \in Items : TRUE}]
  /\ groupOf = [c \in Choices |-> Gone] /\ groupHome = [g \in Groups |-> "own"]
  /\ parentOf = [g \in Groups |-> Gone] /\ links = {}

MCInit ==
  /\ part \in {"answers", "media", "transfer"}
  /\ Init /\ MediaInit /\ TransferInit
  /\ part # "media" => ~enabled
  /\ part # "transfer" => Plain

MCNext ==
  /\ UNCHANGED part
  /\ \/ part = "answers" /\ Next /\ UNCHANGED <<mediaVars, transferVars>>
     \/ part = "media" /\ MediaNext /\ UNCHANGED <<vars, transferVars>>
     \/ part = "transfer" /\ TransferNext /\ UNCHANGED <<vars, mediaVars>>

MCSpec == MCInit /\ [][MCNext]_<<part, vars, mediaVars, transferVars>>
=============================================================================
