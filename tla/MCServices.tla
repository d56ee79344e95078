----------------------------- MODULE MCServices -----------------------------
(***************************************************************************)
(* Four parts of the core that share no state: the queue of e-mails, paid  *)
(* access to reports, the clean-up of exams and the cache of definitions.  *)
(* A behaviour is one of one part, the others stay as they begin.          *)
(***************************************************************************)
EXTENDS Emails, ReportAccess, Cleanup, DefinitionCache

CONSTANTS
  home,         \* one of Cores
  first         \* one of DefEdits

VARIABLE part

Parts == <<part, emailVars, accessVars, cleanupVars, cacheVars>>

Init ==
  /\ part \in {"emails", "access", "cleanup", "cache"}
  /\ EmailInit /\ AccessInit /\ CleanupInit /\ CacheInit
  /\ part # "access" => reportPrice = 0 /\ billCode = [b \in Bills |-> CHOOSE c \in ReportCodes : TRUE]
  /\ part # "cache" => kind = "questions"

Next ==
  /\ UNCHANGED part
  /\ \/ part = "emails" /\ EmailNext /\ UNCHANGED <<accessVars, cleanupVars, cacheVars>>
     \/ part = "access" /\ AccessNext /\ UNCHANGED <<emailVars, cleanupVars, cacheVars>>
     \/ part = "cleanup" /\ CleanupNext /\ UNCHANGED <<emailVars, accessVars, cacheVars>>
     \/ part = "cache" /\ CacheNext /\ UNCHANGED <<emailVars, accessVars, cleanupVars>>

Spec == Init /\ [][Next]_Parts /\ EmailFairness

-----------------------------------------------------------------------------
(* The bounds of the cache, which hold in every state of the other parts *)

NotBegun(d) == edit[d] = <<"idle">>

\* From the second edit on everything happens on one replica.
AtHome ==
  /\ \A c \in cached : c[1] \in {home, "redis"}
  /\ \A p \in Cores \ {home} : epochCopy[p] = Unknown
  /\ \A r \in Reads : read[r] = Waiting \/ read[r].core = home
  /\ \A d \in DefEdits : NotBegun(d) \/ edit[d] \in {<<s, home>> : s \in {"committed", "cleared", "done"}}

\* Nothing is claimed once something is broken, so nothing is followed there.
Bounds ==
  /\ ~broken
  /\ \A d \in DefEdits : NotBegun(first) => NotBegun(d)
  /\ AtHome \/ \E d \in DefEdits : NotBegun(d)
=============================================================================
