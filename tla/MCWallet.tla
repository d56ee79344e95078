------------------------------ MODULE MCWallet ------------------------------
(***************************************************************************)
(* The wallet of an organisation, what an operator does to a report, the   *)
(* page of a section, and the import of a template into an edited test.    *)
(* The four share no state: a behaviour is one of one of them, and the     *)
(* others stay as they begin.                                              *)
(***************************************************************************)
EXTENDS Wallet, Ops, Serving, Matching

VARIABLE part

MCCharges == {-1, 1, 2}

\* One of two sections has room for all questions, at most one rule at first.
MCLimits == {f \in [Sheets -> 1..Cardinality(Pool)] :
  Cardinality({s \in Sheets : f[s] = 1}) = 1 /\ \E s \in Sheets : f[s] = Cardinality(Pool)}

-----------------------------------------------------------------------------
(* Tests of two groups: two questions with texts of their own, with the    *)
(* same one or one without, and a third question, in groups whose names    *)
(* may be alike.                                                           *)

MCTexts == {"", "p", "q"}

\* Questions are numbered in order.
Question(id, text) == [id |-> id, name |-> text, type |-> "choice"]

MCOriginals ==
  {<<[title |-> "p", questions |-> <<Question(1, "p"), Question(2, second)>>],
     [title |-> title, questions |-> <<Question(3, third)>>]>> :
     second \in MCTexts, third \in MCTexts, title \in {"p", "q"}}

-----------------------------------------------------------------------------

MCInit ==
  /\ part \in {"wallet", "ops", "page", "matching"}
  /\ Init /\ OpsInit /\ MatchingInit
  /\ active \in {{}} \cup {{r} : r \in Rule}
  /\ limit \in MCLimits
  /\ place = CHOOSE f \in [Pool -> 1..Cardinality(Pool)] : \A p, q \in Pool : f[p] = f[q] => p = q
  /\ ServingInit
  /\ part # "ops" => log = "none"
  /\ part # "page" =>
       /\ active = {} /\ limit = CHOOSE f \in MCLimits : TRUE
       /\ sheetOf = [q \in Pool |-> CHOOSE s \in Sheets : TRUE]
  /\ part # "matching" => here = CHOOSE test \in Originals : TRUE

MCNext ==
  /\ UNCHANGED part
  /\ \/ part = "wallet" /\ Next /\ UNCHANGED <<opsVars, servingVars, matchingVars>>
     \/ part = "ops" /\ OpsNext /\ UNCHANGED <<vars, servingVars, matchingVars>>
     \/ part = "page" /\ ServingNext /\ UNCHANGED <<vars, opsVars, matchingVars>>
     \/ part = "matching" /\ MatchingNext /\ UNCHANGED <<vars, opsVars, servingVars>>

MCSpec == MCInit /\ [][MCNext]_<<part, vars, opsVars, servingVars, matchingVars>>
=============================================================================
