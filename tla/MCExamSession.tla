---------------------------- MODULE MCExamSession ----------------------------
(***************************************************************************)
(* An examination in its participant's tabs, the accounts of persons, and  *)
(* a trial exam of the studio.  The three share no state: a behaviour is   *)
(* one of one of them, and the others stay as they begin.                  *)
(***************************************************************************)
EXTENDS ExamSession, Accounts, Previews, TLC

VARIABLE part

MCInit ==
  /\ part \in {"exam", "accounts", "trial"}
  /\ Init /\ AccountsInit /\ PreviewsInit
  /\ part # "exam" => row = CHOOSE r \in Fresh : TRUE

MCNext ==
  /\ UNCHANGED part
  /\ \/ part = "exam" /\ Next /\ UNCHANGED <<accountVars, previewVars>>
     \/ part = "accounts" /\ AccountsNext /\ UNCHANGED <<vars, previewVars>>
     \/ part = "trial" /\ PreviewsNext /\ UNCHANGED <<vars, accountVars>>

MCSpec == MCInit /\ [][MCNext]_<<part, vars, accountVars, previewVars>>

\* The two tabs are the two requests about accounts as well, the passwords are
\* also the codes.
Symmetry == Permutations(Tabs) \cup Permutations(Passwords)

\* What an idle tab's last request read is not read again, nor is what a
\* request about an account that is through was given, or a row it has saved:
\* two states that differ only there are one.
Seen == <<row, answered, pc, page, calls, claims, history, part,
          [t \in Tabs |-> IF pc[t] = "idle" THEN 0 ELSE <<snap[t], to[t], ready[t]>>],
          users, columns, accountHistory,
          [h \in Handlers |-> IF handler[h].step \in {"done", "failed"}
                              THEN <<Is(h, "force"), handler[h].step>> ELSE handler[h]],
          [h \in Handlers |-> IF Holding(h) THEN copy[h] ELSE 0],
          previewVars>>

\* Nothing is claimed of an address whose row was saved over: it is not
\* followed further.
Bounds == overlapped = {}
=============================================================================
