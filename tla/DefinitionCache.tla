--------------------------- MODULE DefinitionCache ---------------------------
(***************************************************************************)
(* The cache of the definitions of tests (questions, answers), shared by   *)
(* the replicas through Redis: an entry's key holds the epoch in which it  *)
(* was read, and every edit of a definition starts a new epoch.            *)
(*                                                                         *)
(* Questions are read from their table, answers from a materialized view   *)
(* that is refreshed about two seconds after an edit, whereupon a further  *)
(* epoch starts.  Content is a version number.  An entry may expire or be  *)
(* evicted at any time; for a replica's copy of the epoch 500 ms is a      *)
(* time of unknown length.                                                 *)
(***************************************************************************)
EXTENDS Naturals

CONSTANTS
  Cores,        \* replicas of the core
  Reads,        \* requests that read a definition
  DefEdits      \* edits by an admin

ASSUME CacheAssumption == "redis" \notin Cores

VARIABLES
  kind,         \* the kind of content followed: questions or answers
  table,        \* version of the tables
  view,         \* version in mv_question_answer_full
  epoch,        \* defcache:epoch
  epochCopy,    \* epochL1 of each replica
  cached,       \* entries: <<place, epoch, version>>
  read,         \* what each request does
  edit,         \* where each edit is
  timer,        \* replicas with a scheduled refresh
  refreshing,   \* what doRefresh does on each replica
  broken        \* history: a bump or a refresh was lost, or a write came late

cacheVars == <<kind, table, view, epoch, epochCopy, cached, read, edit, timer, refreshing, broken>>

Kinds == {"questions", "answers"}
Unknown == 99
Source == IF kind = "questions" THEN table ELSE view

Waiting == [at |-> "idle"]

CacheInit ==
  /\ kind \in Kinds
  /\ table = 0 /\ view = 0 /\ epoch = 0
  /\ epochCopy = [p \in Cores |-> Unknown]
  /\ cached = {}
  /\ read = [r \in Reads |-> Waiting]
  /\ edit = [d \in DefEdits |-> <<"idle">>]
  /\ timer = {}
  /\ refreshing = [p \in Cores |-> Waiting]
  /\ broken = FALSE

-----------------------------------------------------------------------------
(* Reading *)

Reading(r, from, to) ==
  /\ read[r].at = from
  /\ read' = [read EXCEPT ![r] = to]

\* epoch(): the copy, or a GET whose answer becomes the copy later, even if
\* a bump has cleared it meanwhile.  Without Redis the cache is bypassed.
AskEpoch(r, p) ==
  /\ Reading(r, "idle", IF epochCopy[p] = Unknown
                        THEN [at |-> "asked", core |-> p, key |-> epoch]
                        ELSE [at |-> "keyed", core |-> p, key |-> epochCopy[p]])
  /\ UNCHANGED <<kind, table, view, epoch, epochCopy, cached, edit, timer, refreshing, broken>>

GotEpoch(r) ==
  /\ Reading(r, "asked", [read[r] EXCEPT !.at = "keyed"])
  /\ epochCopy' = [epochCopy EXCEPT ![read[r].core] = read[r].key]
  /\ UNCHANGED <<kind, table, view, epoch, cached, edit, timer, refreshing, broken>>

\* The entry a request finds in a place under its epoch.
At(r, place) == {c \in cached : c[1] = place /\ c[2] = read[r].key}

\* l1Set or a Redis SET: an entry replaces the one under the same key.
Put(place, key, v) ==
  {c \in cached : c[1] # place \/ c[2] # key} \cup {<<place, key, v>>}

\* L1, then Redis (a hit is kept in L1), then the loader.
LookUp(r) ==
  /\ read[r].at = "keyed"
  /\ \/ At(r, read[r].core) # {} /\ Reading(r, "keyed", Waiting) /\ UNCHANGED cached
     \/ /\ At(r, read[r].core) = {}
        /\ \E c \in At(r, "redis") : cached' = Put(read[r].core, read[r].key, c[3])
        /\ Reading(r, "keyed", Waiting)
     \/ /\ At(r, read[r].core) = {} /\ At(r, "redis") = {}
        /\ Reading(r, "keyed", [read[r] EXCEPT !.at = "load"])
        /\ UNCHANGED cached
  /\ UNCHANGED <<kind, table, view, epoch, epochCopy, edit, timer, refreshing, broken>>

Load(r) ==
  /\ Reading(r, "load", [at |-> "store", core |-> read[r].core, key |-> read[r].key, value |-> Source])
  /\ UNCHANGED <<kind, table, view, epoch, epochCopy, cached, edit, timer, refreshing, broken>>

\* A slip: the value is stored under the epoch of the moment.
StoreNow(r) ==
  /\ Reading(r, "store", Waiting)
  /\ cached' = Put("redis", epoch, read[r].value)
  /\ UNCHANGED <<kind, table, view, epoch, epochCopy, edit, timer, refreshing, broken>>

\* L1, then the SET of Redis, which nobody waits for.
Store(r) ==
  /\ \/ /\ Reading(r, "store", [read[r] EXCEPT !.at = "set"])
        /\ cached' = Put(read[r].core, read[r].key, read[r].value)
     \/ /\ Reading(r, "set", Waiting)
        /\ cached' \in {cached, Put("redis", read[r].key, read[r].value)}
  /\ UNCHANGED <<kind, table, view, epoch, epochCopy, edit, timer, refreshing, broken>>

CopyExpires(p) ==
  /\ epochCopy' = [epochCopy EXCEPT ![p] = Unknown]
  /\ UNCHANGED <<kind, table, view, epoch, cached, read, edit, timer, refreshing, broken>>

EntryExpires(c) ==
  /\ cached' = cached \ {c}
  /\ UNCHANGED <<kind, table, view, epoch, epochCopy, read, edit, timer, refreshing, broken>>

-----------------------------------------------------------------------------
(* Editing *)

\* An admin's request commits; an answer's edit calls viewService.refresh().
CommitEdit(d, p) ==
  /\ edit[d] = <<"idle">>
  /\ edit' = [edit EXCEPT ![d] = <<"committed", p>>]
  /\ table' = table + 1
  /\ timer' = timer \cup {p}
  /\ UNCHANGED <<kind, view, epoch, epochCopy, cached, read, refreshing, broken>>

\* updateAll answers while its recount of the points is still to be written:
\* the write comes after the bump.
LateCommit(d, p) ==
  /\ edit[d] = <<"done", p>>
  /\ edit' = [edit EXCEPT ![d] = <<"written">>]
  /\ table' = table + 1
  /\ broken' = TRUE
  /\ UNCHANGED <<kind, view, epoch, epochCopy, cached, read, timer, refreshing>>

\* bump(), first part: the replica's own L1 and copy.
ClearLocal(p) ==
  /\ cached' = {c \in cached : c[1] # p}
  /\ epochCopy' = [epochCopy EXCEPT ![p] = Unknown]

\* Second part: INCR, which fails without Redis.
Incr ==
  \/ epoch' = epoch + 1 /\ UNCHANGED broken
  \/ UNCHANGED epoch /\ broken' = TRUE

\* The interceptor, after the handler: bump().
BumpEdit(d, p) ==
  \/ /\ edit[d] = <<"committed", p>>
     /\ edit' = [edit EXCEPT ![d] = <<"cleared", p>>]
     /\ ClearLocal(p)
     /\ UNCHANGED <<kind, table, view, epoch, read, timer, refreshing, broken>>
  \/ /\ edit[d] = <<"cleared", p>>
     /\ edit' = [edit EXCEPT ![d] = <<"done", p>>]
     /\ Incr
     /\ UNCHANGED <<kind, table, view, epochCopy, cached, read, timer, refreshing>>

\* The timer of refresh(): doRefresh, or one more pass if one is running.
\* REFRESH reads the tables as they are now and locks the view.
FireTimer(p) ==
  /\ p \in timer
  /\ IF refreshing[p] # Waiting
     THEN UNCHANGED <<timer, refreshing>>
     ELSE /\ \A q \in Cores : refreshing[q].at # "query"
          /\ timer' = timer \ {p}
          /\ refreshing' = [refreshing EXCEPT ![p] = [at |-> "query", seen |-> table]]
  /\ UNCHANGED <<kind, table, view, epoch, epochCopy, cached, read, edit, broken>>

\* The view is replaced, or both REFRESH statements fail and only a line of
\* the log remains; then bump().
Refresh(p) ==
  \/ /\ refreshing[p].at = "query"
     /\ \/ /\ view' = refreshing[p].seen
           /\ refreshing' = [refreshing EXCEPT ![p] = [at |-> "clear"]]
           /\ UNCHANGED broken
        \/ /\ broken' = TRUE
           /\ refreshing' = [refreshing EXCEPT ![p] = Waiting]
           /\ UNCHANGED view
     /\ UNCHANGED <<epoch, epochCopy, cached>>
  \/ /\ refreshing[p].at = "clear"
     /\ refreshing' = [refreshing EXCEPT ![p] = [at |-> "incr"]]
     /\ ClearLocal(p)
     /\ UNCHANGED <<view, epoch, broken>>
  \/ /\ refreshing[p].at = "incr"
     /\ refreshing' = [refreshing EXCEPT ![p] = Waiting]
     /\ Incr
     /\ UNCHANGED <<view, epochCopy, cached>>

RefreshStep(p) == Refresh(p) /\ UNCHANGED <<kind, table, read, edit, timer>>

\* A replica goes down: its timer, its refresh and its bumps are lost.
Down(p) ==
  /\ \/ p \in timer \/ refreshing[p] # Waiting
     \/ \E d \in DefEdits : edit[d] \in {<<"committed", p>>, <<"cleared", p>>}
  /\ broken' = TRUE
  /\ timer' = timer \ {p}
  /\ refreshing' = [refreshing EXCEPT ![p] = Waiting]
  /\ edit' = [d \in DefEdits |->
       IF edit[d] \in {<<"committed", p>>, <<"cleared", p>>} THEN <<"written">> ELSE edit[d]]
  /\ ClearLocal(p)
  /\ read' = [r \in Reads |-> IF read[r] # Waiting /\ read[r].core = p THEN Waiting ELSE read[r]]
  /\ UNCHANGED <<kind, table, view, epoch>>

CacheNext ==
  \/ \E r \in Reads :
       \/ \E p \in Cores : AskEpoch(r, p)
       \/ GotEpoch(r) \/ LookUp(r) \/ Load(r) \/ Store(r)
  \/ \E p \in Cores :
       \/ CopyExpires(p) \/ FireTimer(p) \/ RefreshStep(p) \/ Down(p)
       \/ \E d \in DefEdits : CommitEdit(d, p) \/ BumpEdit(d, p) \/ LateCommit(d, p)
  \/ \E c \in cached : EntryExpires(c)

CacheSpec == CacheInit /\ [][CacheNext]_cacheVars

-----------------------------------------------------------------------------
(* What the cache guarantees                                               *)

AtRest ==
  /\ timer = {}
  /\ \A p \in Cores : refreshing[p] = Waiting
  /\ \A d \in DefEdits : edit[d][1] \in {"idle", "written", "done"}

\* When the edits, the refreshes and their bumps are over, the view has the
\* last edit, and whatever is stored, or will be by a request under way,
\* under the current epoch is the last version; unless a bump or a refresh
\* was lost or a write came after its bump.
NothingStaleAtRest ==
  AtRest /\ ~broken =>
    /\ view = table
    /\ \A c \in cached : c[2] = epoch => c[3] = Source
    /\ \A r \in Reads : read[r].at \in {"store", "set"} /\ read[r].key = epoch =>
         read[r].value = Source
=============================================================================
