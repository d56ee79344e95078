---------------------------- MODULE MCSettlement ----------------------------
(***************************************************************************)
(* The settlement of purchases, the clients of QPay and e-barimt it calls, *)
(* and a client's way to a report that may be sold.  The four share no     *)
(* state: a behaviour is one of one of them, and the others stay as they   *)
(* begin.                                                                  *)
(***************************************************************************)
EXTENDS Settlement, Clients, Viewing, TLC

CONSTANTS s1, s2

\* One service costs less than the other, so that an invoice can be paid in
\* full and still not be enough for the row it is bound to.
MCPrice == (s1 :> 1) @@ (s2 :> 2)

VARIABLE part

MCInit ==
  /\ part \in {"settlement", "qpay", "ebarimt", "viewing"}
  /\ Init /\ ClientsInit /\ ViewInit
  /\ part # "settlement" => /\ sale = [s \in Services |-> "new"]
                            /\ svc = [r \in Requests |-> s1]
  /\ part # "viewing" => ~priced /\ log = "none"

MCNext ==
  /\ UNCHANGED part
  /\ \/ part = "settlement" /\ Next /\ UNCHANGED <<clientVars, viewVars>>
     \/ part = "qpay" /\ QPayNext /\ UNCHANGED <<vars, viewVars>>
     \/ part = "ebarimt" /\ EbarimtNext /\ UNCHANGED <<vars, viewVars>>
     \/ part = "viewing" /\ ViewNext /\ UNCHANGED <<vars, clientVars>>

MCSpec == MCInit /\ [][MCNext]_<<part, vars, clientVars, viewVars>>

\* The requests of the settlement are those of QPay's client as well.
Symmetry == Permutations(Requests)

\* The report server has at most two hand-overs it has not begun.
Bounds == jobs <= 2
=============================================================================
