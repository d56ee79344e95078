------------------------------- MODULE Studio -------------------------------
(***************************************************************************)
(* What the studio keeps for one test: the data for the AI agent, both in  *)
(* a row of the test and in its active template; the variable the          *)
(* templates use; and templates exported to a bundle and imported.  Every  *)
(* save looks for its row and writes in a second statement, the AI data is *)
(* then copied to the active template in a third, and the pages of the     *)
(* studio save whole templates as they read them.                          *)
(***************************************************************************)
EXTENDS Naturals, FiniteSets

CONSTANTS
  Users,        \* requests of the studio, the agent and the transfer at a time
  Pages,        \* the templates of the test
  MaxEdits,     \* bound: versions of the AI data
  MaxTurns      \* bound: activations, saves of templates and removals

ASSUME StudioAssumption == {MaxEdits, MaxTurns} \subseteq Nat

VARIABLES
  active,       \* the active template of the test, or Nothing
  json,         \* aiJsonData of each template: a version of the AI data
  row,          \* the data of assessment_ai_data
  loaded,       \* aiJsonData on the studio's page of each template
  variable,     \* id of the row of the variable, or Nothing
  ids,          \* rows of the variable ever inserted
  task,         \* the request of each user
  edits, turns,
  shows,        \* history: the version a save left in both places alone, or Nothing
  removals,     \* history: requests during which the variable was removed
  bare          \* history: imports that left no variable, though nobody removed it

studioVars == <<active, json, row, loaded, variable, ids, task, edits, turns, shows, removals, bare>>

Nothing == 0
Done == [at |-> "none"]

StudioInit ==
  /\ active \in Pages \cup {Nothing} /\ row = Nothing
  /\ \E v \in {Nothing, 1} : json = [p \in Pages |-> v]     \* templates come with data or without
  /\ loaded = json
  /\ variable \in {Nothing, 1} /\ ids = 1
  /\ task = [u \in Users |-> Done] /\ edits = 1 /\ turns = 0
  /\ shows = Nothing /\ removals = {} /\ bare = 0

Doing(u, at) == task[u].at = at
Set(u, record) == task' = [task EXCEPT ![u] = record]
Data == <<active, json, row, loaded>>
Variable == <<variable, ids, bare>>
SavingData == {u \in Users : task[u].at \in {"insertRow", "updateRow", "sync"}}

-----------------------------------------------------------------------------
(* saveAiData                                                              *)

\* Whatever else changes the data while a save is under way overlaps it.
Overlap == [u \in Users |-> IF u \in SavingData THEN [task[u] EXCEPT !.alone = FALSE] ELSE task[u]]

\* upsert looks for the row of the test.
SaveAiData(u) ==
  /\ Doing(u, "none") /\ edits < MaxEdits /\ edits' = edits + 1
  /\ task' = [Overlap EXCEPT ![u] = [at |-> IF row = Nothing THEN "insertRow" ELSE "updateRow",
                                     version |-> edits + 1, alone |-> SavingData = {}]]
  /\ shows' = Nothing /\ UNCHANGED <<Data, Variable, turns, removals>>

\* One row of a test (a unique column): the second insertion is an error.
WriteRow(u) ==
  /\ \/ Doing(u, "updateRow")
     \/ Doing(u, "insertRow") /\ row = Nothing
  /\ row' = task[u].version /\ Set(u, [task[u] EXCEPT !.at = "sync"])
  /\ UNCHANGED <<active, json, loaded, Variable, edits, turns, shows, removals>>
RefuseRow(u) ==
  /\ Doing(u, "insertRow") /\ row # Nothing /\ Set(u, Done)
  /\ UNCHANGED <<Data, Variable, edits, turns, shows, removals>>

\* A slip: the data is left in its own row until the template is saved.
CopiedNever(version) == json

\* updateActiveAiJsonData.
Copied(version) == [p \in Pages |-> IF p = active THEN version ELSE json[p]]

SyncActive(u) ==
  /\ Doing(u, "sync") /\ json' = Copied(task[u].version)
  /\ shows' = IF task[u].alone THEN task[u].version ELSE shows
  /\ Set(u, Done) /\ UNCHANGED <<active, row, loaded, Variable, edits, turns, removals>>

-----------------------------------------------------------------------------
(* Templates                                                               *)

\* The pages of the studio show and save whole templates.
OpenTemplate(p) ==
  /\ loaded' = [loaded EXCEPT ![p] = json[p]] /\ loaded' # loaded
  /\ UNCHANGED <<active, json, row, Variable, task, edits, turns, shows, removals>>
Turn == turns < MaxTurns /\ turns' = turns + 1 /\ task' = Overlap /\ shows' = Nothing
SaveTemplate(p) ==
  /\ Turn /\ json' = [json EXCEPT ![p] = loaded[p]]
  /\ UNCHANGED <<active, row, loaded, Variable, edits, removals>>
SetActive ==
  /\ Turn /\ active' \in (Pages \cup {Nothing}) \ {active}
  /\ UNCHANGED <<json, row, loaded, Variable, edits, removals>>

-----------------------------------------------------------------------------
(* getAiExportByAssessmentId                                               *)

\* The data of the active template, or else that of the test.
Exported(found, standalone) == IF found # Nothing THEN found ELSE standalone

\* Three reads at once, here one after another; variables are left out.
ReadActive(u) ==
  /\ Doing(u, "none") /\ UNCHANGED <<Data, Variable, edits, turns, shows, removals>>
  /\ Set(u, [at |-> "export", found |-> IF active = Nothing THEN Nothing ELSE json[active],
             before |-> row])
ReadStandalone(u) ==
  /\ Doing(u, "export") /\ UNCHANGED <<Data, Variable, edits, turns, shows, removals>>
  /\ Set(u, [at |-> "exported", before |-> task[u].before,
             data |-> Exported(task[u].found, row)])
Deliver(u) ==
  /\ Doing(u, "exported") /\ Set(u, Done)
  /\ UNCHANGED <<Data, Variable, edits, turns, shows, removals>>

-----------------------------------------------------------------------------
(* The variable: saved and removed in the studio, exported and imported    *)

StartVariable(u) ==
  /\ Doing(u, "none") /\ removals' = removals \ {u}
  /\ UNCHANGED <<Data, Variable, edits, shows>>
  /\ \E kind \in {"saveVar", "removeVar", "bundle"} :
       /\ turns' = IF kind = "removeVar" THEN turns + 1 ELSE turns
       /\ turns' <= MaxTurns
       \* An export has read a template that uses the variable before it reads those.
       /\ kind = "bundle" => variable # Nothing
       /\ Set(u, [at |-> kind, id |-> variable])

\* The update of a row that was removed since touches nothing; a second
\* insertion of the key is an error.
SaveVariable(u) ==
  /\ Doing(u, "saveVar") /\ Set(u, Done)
  /\ IF task[u].id = Nothing /\ variable = Nothing
     THEN variable' = ids + 1 /\ ids' = ids + 1
     ELSE UNCHANGED <<variable, ids>>
  /\ UNCHANGED <<Data, bare, edits, turns, shows, removals>>

RemoveVariable(u) ==
  /\ Doing(u, "removeVar") /\ Set(u, Done)
  /\ IF task[u].id # Nothing /\ task[u].id = variable
     THEN variable' = Nothing /\ removals' = removals \cup {w \in Users : task[w].at # "none"}
     ELSE UNCHANGED <<variable, removals>>
  /\ UNCHANGED <<Data, ids, bare, edits, turns, shows>>

\* exportTemplate reads the variables after the template; the bundle is then
\* imported into the same test, where the transaction looks for the variable...
ReadVariables(u) ==
  /\ Doing(u, "bundle") /\ Set(u, [at |-> "import", has |-> variable # Nothing])
  /\ UNCHANGED <<Data, Variable, edits, turns, shows, removals>>
FindVariable(u) ==
  /\ Doing(u, "import") /\ UNCHANGED <<Data, Variable, edits, turns, shows, removals>>
  /\ Set(u, [at |-> "write", has |-> task[u].has, id |-> variable])
\* ... and updates, skips or inserts it.  A second insertion of the key undoes
\* the whole import, template and all.
ImportVariable(u) ==
  /\ Doing(u, "write") /\ Set(u, Done) /\ UNCHANGED <<Data, edits, turns, shows, removals>>
  /\ LET inserts == task[u].has /\ task[u].id = Nothing
     IN IF inserts /\ variable # Nothing THEN UNCHANGED Variable
        ELSE IF inserts THEN variable' = ids + 1 /\ ids' = ids + 1 /\ UNCHANGED bare
        ELSE /\ UNCHANGED <<variable, ids>>
             /\ bare' = IF variable = Nothing /\ u \notin removals THEN bare + 1 ELSE bare

StudioNext ==
  \/ \E u \in Users :
       \/ SaveAiData(u) \/ WriteRow(u) \/ RefuseRow(u)
       \/ SyncActive(u) \/ ReadActive(u) \/ ReadStandalone(u) \/ Deliver(u)
       \/ StartVariable(u) \/ SaveVariable(u) \/ RemoveVariable(u) \/ ReadVariables(u)
       \/ FindVariable(u) \/ ImportVariable(u)
  \/ \E p \in Pages : OpenTemplate(p) \/ SaveTemplate(p)
  \/ SetActive

StudioSpec == StudioInit /\ [][StudioNext]_studioVars

-----------------------------------------------------------------------------
\* A save of the AI data that nothing overlapped is what the agent gets, at
\* once and until the next change, with an active template and without one.
LastSaveShows ==
  shows # Nothing => Exported(IF active = Nothing THEN Nothing ELSE json[active], row) = shows

\* Once data was saved, the agent is never given none, however its reads fall
\* among saves and activations.
NeverBlank ==
  \A u \in Users : Doing(u, "exported") /\ task[u].before # Nothing => task[u].data # Nothing

\* A template that was exported with its variable and imported has it, unless
\* somebody removed the variable between.
ImportsWhole == bare = 0

StudioSafe == LastSaveShows /\ NeverBlank /\ ImportsWhole
=============================================================================
