---------------------------- MODULE AnswersProofs ----------------------------
(***************************************************************************)
(* Answers, files and copies of tests, for any number of rows.             *)
(*                                                                         *)
(* The ids of rows are never used again, so that a submission deletes and  *)
(* updates rows of its own questions only, however old what it read is     *)
(* (KnownRows).  A question that no two submissions wrote at a time has    *)
(* the rows the one submission under way read and what that one has done   *)
(* since (Progress), and from its deletion on no selection stands.         *)
(*                                                                         *)
(* A row of a recording stands for a whole object, and no step takes away  *)
(* the copy of a file that a request could still be sent to.               *)
(*                                                                         *)
(* What the copier of a test has read refers to what it has read, but for  *)
(* groups (GotOK), and while nothing is edited it is what there is         *)
(* (GotFresh): the groups read lie in every set that holds the groups the  *)
(* test needs with their parents, and are such a set at the end.           *)
(***************************************************************************)
EXTENDS Answers, Media, Transfer, FiniteSetTheorems, TLAPS

StoredRow == [id : Nat, q : Questions, key : Keys, val : Values \cup {Null}]

Shape ==
  /\ rows \subseteq StoredRow /\ nextId \in Nat
  /\ pc \in [Tabs -> {"idle", "delete", "insert", "update"}]
  /\ section \in [Tabs -> Sections]
  /\ DOMAIN sent = Tabs /\ DOMAIN seen = Tabs
  /\ \A t \in Tabs :
       /\ seen[t] \subseteq StoredRow /\ DOMAIN sent[t] \subseteq section[t]
       /\ \A q \in DOMAIN sent[t] : \A k \in DOMAIN sent[t][q] :
            k \in Keys /\ sent[t][q][k] \in Values \cup {Null, Blank}

KnownRows ==
  /\ \A r \in rows : r.id < nextId
  /\ \A r, s \in rows : r.id = s.id => r = s
  /\ \A t \in Tabs : \A s \in seen[t] :
       s.id < nextId /\ \A r \in rows : r.id = s.id => r.q = s.q /\ r.key = s.key

\* A question that two submissions are writing is mixed.
OneWriter ==
  \A t, u \in Tabs : t # u /\ pc[t] # "idle" /\ pc[u] # "idle" =>
    \A q \in DOMAIN sent[t] : q \in DOMAIN sent[u] => q \in mixed

\* What the rows of question q are while tab t writes it alone.
Deleting(t, q) == \A r \in StoredRow : r.q = q => (r \in rows <=> r \in seen[t])
Inserting(t, q) ==
  \A r \in StoredRow : r.q = q =>
    (r \in rows <=> r \in seen[t] /\ r.key \in DOMAIN sent[t][q])
Updating(t, q) ==
  /\ \A r \in rows : r.q = q =>
       /\ r.key \in DOMAIN sent[t][q]
       /\ r \in seen[t] \/ (Stands(t, q, r.key) = {} /\ r.val = sent[t][q][r.key])
  /\ \A r \in seen[t] : r.q = q /\ r.key \in DOMAIN sent[t][q] => r \in rows
  /\ \A k \in DOMAIN sent[t][q] : sent[t][q][k] # Blank => \E r \in rows : r.q = q /\ r.key = k

Progress ==
  \A t \in Tabs : \A q \in DOMAIN sent[t] \ mixed :
    /\ pc[t] = "delete" => Deleting(t, q)
    /\ pc[t] = "insert" => Inserting(t, q) /\ last[q] = Unknown
    /\ pc[t] = "update" => Updating(t, q) /\ last[q] = Unknown

\* What LastAnswerStands says of a question, also while it is read again.
SelectionStands ==
  \A q \in Questions \ mixed :
    last[q] # Unknown =>
      /\ \A r \in RowsOf(q) :
           /\ r.key \in DOMAIN last[q]
           /\ last[q][r.key] \in Values => r.val = last[q][r.key]
      /\ \A k \in DOMAIN last[q] : last[q][k] # Blank => \E r \in RowsOf(q) : r.key = k

AnswersInv == Shape /\ KnownRows /\ OneWriter /\ Progress /\ OneRowEach /\ SelectionStands

USE DEF StoredRow

LEMMA AnswersInit == Init => AnswersInv
<1> SUFFICES ASSUME Init PROVE AnswersInv
  OBVIOUS
<1>1. Shape
  BY DEF Init, Shape
<1>2. KnownRows /\ OneWriter /\ Progress
  BY DEF Init, KnownRows, OneWriter, Progress
<1>3. OneRowEach /\ SelectionStands
  BY DEF Init, OneRowEach, SelectionStands, RowsOf
<1> QED BY <1>1, <1>2, <1>3 DEF AnswersInv

\* Tabs other than t keep what they were doing.
OthersStay(t) ==
  /\ section' \in [Tabs -> Sections] /\ DOMAIN sent' = Tabs /\ DOMAIN seen' = Tabs
  /\ pc' \in [Tabs -> {"idle", "delete", "insert", "update"}]
  /\ \A u \in Tabs \ {t} :
       pc'[u] = pc[u] /\ section'[u] = section[u] /\ sent'[u] = sent[u] /\ seen'[u] = seen[u]

\* What a submission writes: options of a question of its section.
LEMMA SelectionShape ==
  ASSUME NEW sel \in Selections, NEW k \in DOMAIN sel
  PROVE  k \in Keys /\ sel[k] \in Values \cup {Null, Blank}
<1>1. CASE sel \in [{None} -> Values \cup {Null, Blank}]
  BY <1>1 DEF Keys
<1>2. CASE sel \in UNION {[O -> Values] : O \in (SUBSET Options) \ {{}}}
  <2>1. PICK O \in SUBSET Options : sel \in [O -> Values]
    BY <1>2
  <2> QED BY <2>1 DEF Keys
<1> QED BY <1>1, <1>2 DEF Selections

LEMMA SubmitFacts ==
  ASSUME Shape, NEW t \in Tabs, NEW S \in Sections, Submit(t, S)
  PROVE  /\ OthersStay(t) /\ pc[t] = "idle" /\ pc'[t] = "delete"
         /\ section'[t] = S /\ seen'[t] = rows /\ UNCHANGED <<rows, nextId, last>>
         /\ DOMAIN sent'[t] \subseteq S
         /\ \A q \in DOMAIN sent'[t] : \A k \in DOMAIN sent'[t][q] :
              k \in Keys /\ sent'[t][q][k] \in Values \cup {Null, Blank}
         /\ mixed \subseteq mixed'
         /\ \A u \in Tabs \ {t} : pc[u] # "idle" =>
              \A q \in DOMAIN sent[u] : q \in DOMAIN sent'[t] => q \in mixed'
<1> USE DEF Shape
<1>1. PICK D \in (SUBSET S) \ {{}}, sel \in Selections, old \in SUBSET (Questions \ S) :
        LET payload == [q \in D \cup old |-> IF q \in D THEN sel ELSE [k \in {None} |-> Null]]
        IN /\ sent' = [sent EXCEPT ![t] = Kept(payload, S)]
           /\ mixed' = mixed \cup Shared(t, Kept(payload, S))
  BY DEF Submit
<1> DEFINE payload == [q \in D \cup old |-> IF q \in D THEN sel ELSE [k \in {None} |-> Null]]
           kept == Kept(payload, S)
<1>2. DOMAIN kept \subseteq S /\ \A q \in DOMAIN kept : kept[q] = sel
  BY DEF Kept
<1> HIDE DEF payload
<1>3. sent' = [sent EXCEPT ![t] = kept] /\ mixed' = mixed \cup Shared(t, kept)
  BY <1>1 DEF payload
<1> HIDE DEF kept
<1>4. sent'[t] = kept /\ DOMAIN sent' = Tabs /\ \A u \in Tabs \ {t} : sent'[u] = sent[u]
  BY <1>3
<1>5. /\ pc[t] = "idle" /\ pc' = [pc EXCEPT ![t] = "delete"]
      /\ section' = [section EXCEPT ![t] = S]
      /\ seen' = [seen EXCEPT ![t] = rows] /\ UNCHANGED <<rows, nextId, last>>
  BY DEF Submit, Goto
<1>6. OthersStay(t)
  BY <1>4, <1>5 DEF OthersStay
<1>7. \A q \in DOMAIN sent'[t] : \A k \in DOMAIN sent'[t][q] :
        k \in Keys /\ sent'[t][q][k] \in Values \cup {Null, Blank}
  BY <1>2, <1>4, SelectionShape
<1>8. \A u \in Tabs \ {t} : pc[u] # "idle" =>
        \A q \in DOMAIN sent[u] : q \in DOMAIN sent'[t] => q \in mixed'
  BY <1>3, <1>4 DEF Shared
<1> QED BY <1>2, <1>3, <1>4, <1>5, <1>6, <1>7, <1>8

LEMMA SubmitStep ==
  ASSUME AnswersInv, NEW t \in Tabs, NEW S \in Sections, Submit(t, S)
  PROVE  AnswersInv'
<1> USE DEF AnswersInv
<1>1. /\ OthersStay(t) /\ pc[t] = "idle" /\ pc'[t] = "delete"
      /\ section'[t] = S /\ seen'[t] = rows /\ UNCHANGED <<rows, nextId, last>>
      /\ DOMAIN sent'[t] \subseteq S
      /\ \A q \in DOMAIN sent'[t] : \A k \in DOMAIN sent'[t][q] :
           k \in Keys /\ sent'[t][q][k] \in Values \cup {Null, Blank}
      /\ mixed \subseteq mixed'
      /\ \A u \in Tabs \ {t} : pc[u] # "idle" =>
           \A q \in DOMAIN sent[u] : q \in DOMAIN sent'[t] => q \in mixed'
  BY SubmitFacts
<1>2. Shape'
  BY <1>1 DEF Shape, OthersStay
<1>3. KnownRows'
  BY <1>1 DEF KnownRows, OthersStay
<1>4. OneWriter'
  BY <1>1 DEF OneWriter, OthersStay
<1>5. Progress'
  <2> SUFFICES ASSUME NEW u \in Tabs, NEW q \in DOMAIN sent'[u] \ mixed'
               PROVE  /\ pc'[u] = "delete" => Deleting(u, q)'
                      /\ pc'[u] = "insert" => Inserting(u, q)' /\ last'[q] = Unknown
                      /\ pc'[u] = "update" => Updating(u, q)' /\ last'[q] = Unknown
    BY DEF Progress
  <2>1. CASE u = t
    BY <1>1, <2>1 DEF Deleting
  <2>2. CASE u # t
    <3>1. pc'[u] = pc[u] /\ sent'[u] = sent[u] /\ seen'[u] = seen[u] /\ q \in DOMAIN sent[u] \ mixed
      BY <1>1, <2>2 DEF OthersStay
    <3>2. (Deleting(u, q) => Deleting(u, q)') /\ (Inserting(u, q) => Inserting(u, q)')
      BY <1>1, <3>1 DEF Deleting, Inserting
    <3>3. Updating(u, q) => Updating(u, q)'
      BY <1>1, <3>1 DEF Updating, Stands
    <3> QED BY <1>1, <3>1, <3>2, <3>3 DEF Progress
  <2> QED BY <2>1, <2>2
<1>6. OneRowEach' /\ SelectionStands'
  BY <1>1 DEF OneRowEach, SelectionStands, RowsOf
<1> QED BY <1>2, <1>3, <1>4, <1>5, <1>6

\* What a tab reads and sends once it has submitted stays.
LEMMA TabKept ==
  ASSUME Shape, NEW t \in Tabs, NEW from, NEW to \in {"idle", "insert", "update"},
         Goto(t, from, to) \/ (pc[t] # "idle" /\ pc' = [pc EXCEPT ![t] = to]), UNCHANGED request,
         OneWriter, mixed' = mixed, from # "idle"
  PROVE  OthersStay(t) /\ pc'[t] = to /\ pc[t] # "idle" /\ OneWriter'
BY DEF Shape, OthersStay, Goto, request, OneWriter

\* The rows of the questions others write are not those tab t changes.
LEMMA OthersProgress ==
  ASSUME AnswersInv, NEW t \in Tabs, pc[t] # "idle", OthersStay(t), UNCHANGED <<sent, seen, mixed>>,
         \A r \in StoredRow : r.q \notin DOMAIN sent[t] => (r \in rows' <=> r \in rows),
         \A q \in Questions \ DOMAIN sent[t] : last'[q] = last[q],
         rows' \subseteq StoredRow,
         NEW u \in Tabs \ {t}, NEW q \in DOMAIN sent'[u] \ mixed'
  PROVE  /\ pc'[u] = "delete" => Deleting(u, q)'
         /\ pc'[u] = "insert" => Inserting(u, q)' /\ last'[q] = Unknown
         /\ pc'[u] = "update" => Updating(u, q)' /\ last'[q] = Unknown
<1> USE DEF AnswersInv
<1>1. pc'[u] = pc[u] /\ sent' = sent /\ seen' = seen /\ q \in DOMAIN sent[u] \ mixed
  BY DEF OthersStay
<1>2. q \in Questions
  BY <1>1 DEF Shape, Questions
<1>3. pc[u] # "idle" => q \notin DOMAIN sent[t]
  BY <1>1 DEF OneWriter
<1>4. rows \subseteq StoredRow /\ seen[u] \subseteq StoredRow
  BY DEF Shape
<1>5. pc[u] # "idle" => \A r \in StoredRow : r.q = q => (r \in rows' <=> r \in rows)
  BY <1>3
<1>6. pc[u] # "idle" => (Deleting(u, q) => Deleting(u, q)') /\ (Inserting(u, q) => Inserting(u, q)')
  BY <1>1, <1>5 DEF Deleting, Inserting
<1>7. pc[u] # "idle" => (Updating(u, q) => Updating(u, q)')
  BY <1>1, <1>4, <1>5 DEF Updating, Stands
<1> QED BY <1>1, <1>2, <1>3, <1>6, <1>7 DEF Progress

LEMMA DeleteStep ==
  ASSUME AnswersInv, NEW t \in Tabs, Delete(t)
  PROVE  AnswersInv' /\ \A q \in Questions \ section'[t] : RowsOf(q)' = RowsOf(q)
<1> USE DEF AnswersInv
<1>1. /\ OthersStay(t) /\ pc'[t] = "insert" /\ pc[t] = "delete" /\ OneWriter'
      /\ UNCHANGED <<section, sent, seen, mixed, nextId>>
  BY TabKept DEF Delete, Goto, request
<1>2. /\ rows' = {r \in rows : r.id \notin {o.id : o \in Obsolete(t)}}
      /\ \A q \in Questions : last'[q] = IF q \in DOMAIN sent[t] THEN Unknown ELSE last[q]
  BY DEF Delete
<1>3. DOMAIN sent[t] \subseteq section[t] /\ section'[t] = section[t]
      /\ DOMAIN sent[t] \subseteq Questions /\ seen[t] \subseteq StoredRow
  BY <1>1 DEF Shape, Questions
<1>4. Shape'
  BY <1>1, <1>2 DEF Shape, OthersStay
<1>5. KnownRows'
  BY <1>1, <1>2 DEF KnownRows, OthersStay
<1>6. \A r \in rows : r.id \in {o.id : o \in Obsolete(t)} =>
        r.q \in DOMAIN sent[t] /\ r.key \notin DOMAIN sent[t][r.q]
  BY DEF KnownRows, Obsolete
<1>7. \A r \in StoredRow : r.q \notin DOMAIN sent[t] => (r \in rows' <=> r \in rows)
  BY <1>2, <1>6
<1>8. Progress'
  <2> SUFFICES ASSUME NEW u \in Tabs, NEW q \in DOMAIN sent'[u] \ mixed'
               PROVE  /\ pc'[u] = "delete" => Deleting(u, q)'
                      /\ pc'[u] = "insert" => Inserting(u, q)' /\ last'[q] = Unknown
                      /\ pc'[u] = "update" => Updating(u, q)' /\ last'[q] = Unknown
    BY DEF Progress
  <2>1. CASE u = t
    <3>1. Deleting(t, q) /\ q \in DOMAIN sent[t] /\ q \in Questions
      BY <1>1, <1>3, <2>1 DEF Progress
    <3>2. \A r \in StoredRow : r.q = q =>
            (r \in rows' <=> r \in seen[t] /\ r.key \in DOMAIN sent[t][q])
      <4> SUFFICES ASSUME NEW r \in StoredRow, r.q = q
                   PROVE  r \in rows' <=> r \in seen[t] /\ r.key \in DOMAIN sent[t][q]
        OBVIOUS
      <4>1. r \in rows <=> r \in seen[t]
        BY <3>1 DEF Deleting
      <4>2. r \in seen[t] /\ r.key \notin DOMAIN sent[t][q] => r.id \in {o.id : o \in Obsolete(t)}
        BY <3>1 DEF Obsolete
      <4> QED BY <1>2, <1>6, <4>1, <4>2
    <3>3. Inserting(t, q)'
      BY <1>1, <3>2 DEF Inserting
    <3> QED BY <1>1, <1>2, <2>1, <3>1, <3>3
  <2>2. CASE u # t
    BY <1>1, <1>2, <1>4, <1>7, <2>2, OthersProgress DEF Shape
  <2> QED BY <2>1, <2>2
<1>9. OneRowEach'
  BY <1>1, <1>2 DEF OneRowEach, RowsOf
<1>10. SelectionStands'
  <2> SUFFICES ASSUME NEW q \in Questions \ mixed', last'[q] # Unknown
               PROVE  /\ \A r \in RowsOf(q)' :
                           /\ r.key \in DOMAIN last'[q]
                           /\ last'[q][r.key] \in Values => r.val = last'[q][r.key]
                      /\ \A k \in DOMAIN last'[q] : last'[q][k] # Blank => \E r \in RowsOf(q)' : r.key = k
    BY DEF SelectionStands
  <2>1. q \notin DOMAIN sent[t] /\ last'[q] = last[q] /\ q \notin mixed
    BY <1>1, <1>2
  <2>2. RowsOf(q)' = RowsOf(q)
    BY <1>2, <1>6, <2>1 DEF RowsOf
  <2> QED BY <2>1, <2>2 DEF SelectionStands
<1>11. \A q \in Questions \ section'[t] : RowsOf(q)' = RowsOf(q)
  BY <1>2, <1>3, <1>6 DEF RowsOf
<1> QED BY <1>1, <1>4, <1>5, <1>8, <1>9, <1>10, <1>11

\* A row of tab t that is not among those it read.
Added(t, r) ==
  /\ r \in StoredRow /\ r.q \in DOMAIN sent[t] /\ r.key \in DOMAIN sent[t][r.q]
  /\ Stands(t, r.q, r.key) = {} /\ r.val = sent[t][r.q][r.key]
  /\ r.id >= nextId

LEMMA InsertFacts ==
  ASSUME AnswersInv, NEW t \in Tabs, Insert(t)
  PROVE  /\ rows \subseteq rows' /\ nextId' \in Nat /\ nextId' >= nextId
         /\ \A r \in rows' : r \in rows \/ (Added(t, r) /\ r.id < nextId')
         /\ \A r, s \in rows' : r \notin rows /\ s \notin rows /\
              (r.id = s.id \/ (r.q = s.q /\ r.key = s.key)) => r = s
         /\ \A q \in DOMAIN sent[t] : \A k \in DOMAIN sent[t][q] :
              sent[t][q][k] # Blank =>
                Stands(t, q, k) # {} \/ \E r \in rows' : r.q = q /\ r.key = k
<1> USE DEF AnswersInv, Shape
<1> DEFINE new == {w \in Written(t) : Stands(t, w[1], w[2]) = {}}
           Made(ids, w) == [id |-> ids[w], q |-> w[1], key |-> w[2], val |-> sent[t][w[1]][w[2]]]
<1>1. PICK ids \in [new -> nextId..(nextId + Cardinality(new) - 1)] :
        /\ \A v, w \in new : v # w => ids[v] # ids[w]
        /\ rows' = rows \cup {Made(ids, w) : w \in new}
        /\ nextId' = nextId + Cardinality(new)
  BY DEF Insert
<1>2. DOMAIN sent[t] \subseteq Questions
  BY DEF Questions
<1>3. IsFiniteSet(new) /\ Cardinality(new) \in Nat
  <2>1. IsFiniteSet(Keys)
    BY AnswersAssumption, FS_AddElement DEF Keys
  <2>2. IsFiniteSet(Questions \X Keys)
    BY <2>1, AnswersAssumption, FS_Product
  <2>3. new \subseteq Questions \X Keys
    BY <1>2 DEF Written
  <2> HIDE DEF new
  <2> QED BY <2>2, <2>3, FS_Subset, FS_CardinalityType
<1>4. \A w \in new : /\ w[1] \in DOMAIN sent[t] /\ w[2] \in DOMAIN sent[t][w[1]]
                     /\ w = <<w[1], w[2]>> /\ sent[t][w[1]][w[2]] # Blank
                     /\ Stands(t, w[1], w[2]) = {}
  BY DEF Written
<1>5. \A q \in DOMAIN sent[t] : \A k \in DOMAIN sent[t][q] :
        sent[t][q][k] # Blank /\ Stands(t, q, k) = {} => <<q, k>> \in new
  <2> SUFFICES ASSUME NEW q \in DOMAIN sent[t], NEW k \in DOMAIN sent[t][q],
                      sent[t][q][k] # Blank, Stands(t, q, k) = {}
               PROVE  <<q, k>> \in Written(t)
    OBVIOUS
  <2>1. k \in Keys
    OBVIOUS
  <2> QED BY <2>1 DEF Written
<1> HIDE DEF new
<1>6. \A w \in new : ids[w] \in Nat /\ ids[w] >= nextId /\ ids[w] < nextId'
  BY <1>1, <1>3
<1>7. \A w \in new : /\ Made(ids, w).id = ids[w] /\ Made(ids, w).q = w[1]
                     /\ Made(ids, w).key = w[2] /\ Made(ids, w).val = sent[t][w[1]][w[2]]
  OBVIOUS
<1>8. \A w \in new : Made(ids, w) \in StoredRow
  BY <1>2, <1>4, <1>6
<1> HIDE DEF Made
<1>9. \A w \in new : Added(t, Made(ids, w)) /\ Made(ids, w).id < nextId'
  BY <1>4, <1>6, <1>7, <1>8 DEF Added
<1>10. \A r \in rows' : r \in rows \/ \E w \in new : r = Made(ids, w)
  BY <1>1
<1>11. ASSUME NEW r \in rows', NEW s \in rows', r \notin rows, s \notin rows,
              r.id = s.id \/ (r.q = s.q /\ r.key = s.key)
       PROVE  r = s
  <2>1. PICK v \in new : r = Made(ids, v)
    BY <1>10, <1>11
  <2>2. PICK w \in new : s = Made(ids, w)
    BY <1>10, <1>11
  <2>3. r.id = s.id => v = w
    BY <1>1, <1>7, <2>1, <2>2
  <2>4. r.q = s.q /\ r.key = s.key => v = w
    BY <1>4, <1>7, <2>1, <2>2
  <2> QED BY <1>11, <2>1, <2>2, <2>3, <2>4
<1>12. \A q \in DOMAIN sent[t] : \A k \in DOMAIN sent[t][q] :
         sent[t][q][k] # Blank => Stands(t, q, k) # {} \/ \E r \in rows' : r.q = q /\ r.key = k
  <2> SUFFICES ASSUME NEW q \in DOMAIN sent[t], NEW k \in DOMAIN sent[t][q],
                      sent[t][q][k] # Blank, Stands(t, q, k) = {}
               PROVE  \E r \in rows' : r.q = q /\ r.key = k
    OBVIOUS
  <2>1. <<q, k>> \in new
    BY <1>5
  <2>2. Made(ids, <<q, k>>) \in rows' /\ Made(ids, <<q, k>>).q = q /\ Made(ids, <<q, k>>).key = k
    BY <1>1, <1>7, <2>1
  <2> QED BY <2>2
<1>13. rows \subseteq rows' /\ nextId' \in Nat /\ nextId' >= nextId
  BY <1>1, <1>3
<1> QED BY <1>9, <1>10, <1>11, <1>12, <1>13

LEMMA InsertStep ==
  ASSUME AnswersInv, NEW t \in Tabs, Insert(t)
  PROVE  AnswersInv' /\ \A q \in Questions \ section'[t] : RowsOf(q)' = RowsOf(q)
<1> USE DEF AnswersInv
<1>1. /\ OthersStay(t) /\ pc'[t] = "update" /\ pc[t] = "insert" /\ OneWriter'
      /\ UNCHANGED <<section, sent, seen, mixed, last>>
  BY TabKept DEF Insert, Goto, request
<1>2. /\ rows \subseteq rows' /\ nextId' \in Nat /\ nextId' >= nextId
      /\ \A r \in rows' : r \in rows \/ (Added(t, r) /\ r.id < nextId')
      /\ \A r, s \in rows' : r \notin rows /\ s \notin rows /\
           (r.id = s.id \/ (r.q = s.q /\ r.key = s.key)) => r = s
      /\ \A q \in DOMAIN sent[t] : \A k \in DOMAIN sent[t][q] :
           sent[t][q][k] # Blank =>
             Stands(t, q, k) # {} \/ \E r \in rows' : r.q = q /\ r.key = k
  BY InsertFacts
<1>3. DOMAIN sent[t] \subseteq section[t] /\ section'[t] = section[t]
      /\ DOMAIN sent[t] \subseteq Questions /\ seen[t] \subseteq StoredRow
  BY <1>1 DEF Shape, Questions
<1>4. Shape'
  BY <1>1, <1>2 DEF Shape, OthersStay, Added
<1>5. KnownRows'
  <2>1. \A r \in rows : r.id < nextId /\ r.id \in Nat
    BY DEF KnownRows, Shape
  <2>2. \A r \in rows' : r.id < nextId'
    BY <1>2, <2>1 DEF Shape
  <2>3. \A r, s \in rows' : r.id = s.id => r = s
    BY <1>2, <2>1 DEF KnownRows, Added, Shape
  <2>4. ASSUME NEW u \in Tabs, NEW s \in seen[u]
        PROVE  s.id < nextId' /\ \A r \in rows' : r.id = s.id => r.q = s.q /\ r.key = s.key
    <3>1. s.id \in Nat /\ s.id < nextId
      BY DEF Shape, KnownRows
    <3>2. s.id < nextId'
      BY <1>2, <3>1 DEF Shape
    <3>3. \A r \in rows' : r.id = s.id => r \in rows
      BY <1>2, <3>1 DEF Shape, Added
    <3> QED BY <3>2, <3>3 DEF KnownRows
  <2> QED BY <1>1, <2>2, <2>3, <2>4 DEF KnownRows, OthersStay
<1>6. \A r \in rows' : r.q \notin DOMAIN sent[t] => r \in rows
  BY <1>2 DEF Added
\* A question tab t writes alone: what it read and selects is what there is.
<1>7. ASSUME NEW q \in DOMAIN sent[t] \ mixed
      PROVE  /\ Updating(t, q)' /\ last'[q] = Unknown
             /\ \A r, s \in RowsOf(q)' : r.key = s.key => r = s
  <2>1. Inserting(t, q) /\ last[q] = Unknown /\ q \in Questions
    BY <1>1, <1>3 DEF Progress
  <2>2. \A r \in rows : r.q = q => r \in seen[t] /\ r.key \in DOMAIN sent[t][q]
    BY <2>1 DEF Inserting, Shape
  <2>3. \A r \in rows' : r.q = q =>
          /\ r.key \in DOMAIN sent[t][q]
          /\ r \in seen[t] \/ (Stands(t, q, r.key) = {} /\ r.val = sent[t][q][r.key])
    BY <1>2, <2>2 DEF Added
  <2>4. \A r \in seen[t] : r.q = q /\ r.key \in DOMAIN sent[t][q] => r \in rows'
    BY <1>2, <1>3, <2>1 DEF Inserting
  <2>5. \A k \in DOMAIN sent[t][q] : sent[t][q][k] # Blank => \E r \in rows' : r.q = q /\ r.key = k
    <3> SUFFICES ASSUME NEW k \in DOMAIN sent[t][q], sent[t][q][k] # Blank
                 PROVE  \E r \in rows' : r.q = q /\ r.key = k
      OBVIOUS
    <3>1. CASE Stands(t, q, k) # {}
      <4>1. PICK r \in seen[t] : r.q = q /\ r.key = k
        BY <3>1 DEF Stands
      <4> QED BY <2>4, <4>1
    <3>2. CASE Stands(t, q, k) = {}
      BY <1>2, <3>2
    <3> QED BY <3>1, <3>2
  <2>6. Updating(t, q)'
    BY <1>1, <2>3, <2>4, <2>5 DEF Updating, Stands
  <2>7. ASSUME NEW r \in RowsOf(q)', NEW s \in RowsOf(q)', r.key = s.key
        PROVE  r = s
    <3>1. r \in rows' /\ s \in rows' /\ r.q = q /\ s.q = q
      BY DEF RowsOf
    <3>2. CASE r \in rows /\ s \in rows
      BY <2>1, <2>7, <3>1, <3>2 DEF OneRowEach, RowsOf
    <3>3. CASE r \notin rows /\ s \notin rows
      BY <1>2, <2>7, <3>1, <3>3
    <3>4. ASSUME NEW x \in rows, NEW y \in rows', x.q = q, y.q = q, x.key = y.key, y \notin rows PROVE FALSE
      <4>1. Stands(t, q, y.key) = {}
        BY <1>2, <3>4 DEF Added
      <4>2. x \in Stands(t, q, y.key)
        BY <2>2, <3>4 DEF Stands
      <4> QED BY <4>1, <4>2
    <3> QED BY <2>7, <3>1, <3>2, <3>3, <3>4
  <2> QED BY <1>1, <2>1, <2>6, <2>7
<1>8. Progress'
  <2> SUFFICES ASSUME NEW u \in Tabs, NEW q \in DOMAIN sent'[u] \ mixed'
               PROVE  /\ pc'[u] = "delete" => Deleting(u, q)'
                      /\ pc'[u] = "insert" => Inserting(u, q)' /\ last'[q] = Unknown
                      /\ pc'[u] = "update" => Updating(u, q)' /\ last'[q] = Unknown
    BY DEF Progress
  <2>1. CASE u = t
    BY <1>1, <1>7, <2>1
  <2>2. CASE u # t
    BY <1>1, <1>2, <1>4, <1>6, <2>2, OthersProgress DEF Shape
  <2> QED BY <2>1, <2>2
<1>9. \A q \in Questions \ DOMAIN sent[t] : RowsOf(q)' = RowsOf(q)
  BY <1>2, <1>6 DEF RowsOf
<1>10. OneRowEach'
  BY <1>1, <1>7, <1>9 DEF OneRowEach
<1>11. SelectionStands'
  <2> SUFFICES ASSUME NEW q \in Questions \ mixed', last'[q] # Unknown
               PROVE  /\ \A r \in RowsOf(q)' :
                           /\ r.key \in DOMAIN last'[q]
                           /\ last'[q][r.key] \in Values => r.val = last'[q][r.key]
                      /\ \A k \in DOMAIN last'[q] : last'[q][k] # Blank => \E r \in RowsOf(q)' : r.key = k
    BY DEF SelectionStands
  <2>1. last'[q] = last[q] /\ RowsOf(q)' = RowsOf(q) /\ q \notin mixed
    BY <1>1, <1>7, <1>9
  <2> QED BY <2>1 DEF SelectionStands
<1> QED BY <1>1, <1>3, <1>4, <1>5, <1>8, <1>9, <1>10, <1>11

Hit(t, r) == /\ <<r.q, r.key>> \in Written(t)
             /\ Stands(t, r.q, r.key) # {}
             /\ r.id = Updated(t, r.q, r.key).id
Updates(t, r) == IF Hit(t, r) /\ sent[t][r.q][r.key] # Null
                 THEN [r EXCEPT !.val = sent[t][r.q][r.key]] ELSE r

LEMMA UpdatedRow ==
  ASSUME Shape, NEW t \in Tabs, NEW r \in rows
  PROVE  /\ Updates(t, r) \in StoredRow
         /\ Updates(t, r).id = r.id /\ Updates(t, r).q = r.q /\ Updates(t, r).key = r.key
         /\ r.q \notin DOMAIN sent[t] => Updates(t, r) = r
<1>1. r \in StoredRow
  BY DEF Shape
<1>2. CASE Hit(t, r) /\ sent[t][r.q][r.key] # Null
  <2> DEFINE v == sent[t][r.q][r.key]
  <2>1. r.q \in DOMAIN sent[t] /\ r.key \in DOMAIN sent[t][r.q] /\ v # Blank
    BY <1>2 DEF Hit, Written
  <2>2. v \in Values \cup {Null}
    BY <2>1 DEF Shape
  <2>3. Updates(t, r) = [r EXCEPT !.val = v]
    BY <1>2 DEF Updates
  <2> HIDE DEF v
  <2> QED BY <1>1, <2>1, <2>2, <2>3
<1>3. CASE ~(Hit(t, r) /\ sent[t][r.q][r.key] # Null)
  BY <1>1, <1>3 DEF Updates
<1> QED BY <1>2, <1>3

\* The row of an answer that tab t read is brought to what it sent.
LEMMA UpdatesValue ==
  ASSUME AnswersInv, NEW t \in Tabs, NEW q \in DOMAIN sent[t] \ mixed, q \in Questions,
         Updating(t, q), NEW r \in rows, r.q = q, sent[t][q][r.key] \in Values
  PROVE  Updates(t, r).val = sent[t][q][r.key]
<1> USE DEF AnswersInv
<1>1. r \in StoredRow /\ r.key \in DOMAIN sent[t][q] /\ sent[t][q][r.key] \notin {Null, Blank}
  BY AnswersAssumption DEF Shape, Updating
<1>2. CASE Stands(t, q, r.key) = {}
  <2>1. r.val = sent[t][q][r.key]
    BY <1>2 DEF Updating, Stands
  <2>2. ~Hit(t, r)
    BY <1>2 DEF Hit
  <2> QED BY <2>1, <2>2 DEF Updates
<1>3. CASE Stands(t, q, r.key) # {}
  <2>1. \A x \in Stands(t, q, r.key) : x = r
    BY <1>1 DEF Stands, Updating, OneRowEach, RowsOf
  <2>2. r \in Stands(t, q, r.key)
    BY <1>3, <2>1
  <2>3. \A s \in Stands(t, q, r.key) : s.id <= r.id
    BY <1>1, <2>1
  <2>4. Updated(t, q, r.key) \in Stands(t, q, r.key)
    BY <2>2, <2>3 DEF Updated
  <2>5. Updated(t, q, r.key) = r
    BY <2>1, <2>4
  <2>6. <<q, r.key>> \in Written(t)
    BY <1>1 DEF Written
  <2>7. Hit(t, r)
    BY <1>3, <2>5, <2>6 DEF Hit
  <2> QED BY <1>1, <2>7 DEF Updates
<1> QED BY <1>2, <1>3

LEMMA UpdateStep ==
  ASSUME AnswersInv, NEW t \in Tabs, Update(t)
  PROVE  AnswersInv' /\ \A q \in Questions \ section'[t] : RowsOf(q)' = RowsOf(q)
<1> USE DEF AnswersInv
<1>1. /\ OthersStay(t) /\ pc'[t] = "idle" /\ pc[t] = "update" /\ OneWriter'
      /\ UNCHANGED <<section, sent, seen, mixed, nextId>>
  BY TabKept DEF Update, Goto, request
<1>2. rows' = {Updates(t, r) : r \in rows}
  BY DEF Update, Updates, Hit
<1>3. \A q \in Questions : last'[q] = IF q \in DOMAIN sent[t] THEN sent[t][q] ELSE last[q]
  BY DEF Update
<1>4. DOMAIN sent[t] \subseteq section[t] /\ section'[t] = section[t]
      /\ DOMAIN sent[t] \subseteq Questions
  BY <1>1 DEF Shape, Questions
<1>5. \A r \in rows : /\ Updates(t, r) \in StoredRow /\ Updates(t, r).id = r.id
                      /\ Updates(t, r).q = r.q /\ Updates(t, r).key = r.key
                      /\ r.q \notin DOMAIN sent[t] => Updates(t, r) = r
  BY UpdatedRow
<1> HIDE DEF StoredRow
<1>6. \A s \in rows' : \E r \in rows : s = Updates(t, r) /\ s.id = r.id /\ s.q = r.q /\ s.key = r.key
  BY <1>2, <1>5
<1>7. \A r \in rows : Updates(t, r) \in rows'
  BY <1>2
<1>8. Shape'
  BY <1>1, <1>2, <1>5 DEF Shape, OthersStay
<1>9. KnownRows'
  BY <1>1, <1>6 DEF KnownRows, OthersStay
<1>10. \A r \in StoredRow : r.q \notin DOMAIN sent[t] => (r \in rows' <=> r \in rows)
  BY <1>5, <1>6, <1>7
<1>11. Progress'
  <2> SUFFICES ASSUME NEW u \in Tabs, NEW q \in DOMAIN sent'[u] \ mixed'
               PROVE  /\ pc'[u] = "delete" => Deleting(u, q)'
                      /\ pc'[u] = "insert" => Inserting(u, q)' /\ last'[q] = Unknown
                      /\ pc'[u] = "update" => Updating(u, q)' /\ last'[q] = Unknown
    BY DEF Progress
  <2>1. CASE u = t
    BY <1>1, <2>1
  <2>2. CASE u # t
    BY <1>1, <1>3, <1>8, <1>10, <2>2, OthersProgress DEF Shape
  <2> QED BY <2>1, <2>2
<1>12. OneRowEach'
  BY <1>1, <1>6 DEF OneRowEach, RowsOf
<1>13. \A q \in Questions \ DOMAIN sent[t] : RowsOf(q)' = RowsOf(q)
  BY <1>5, <1>6, <1>7 DEF RowsOf
<1>14. SelectionStands'
  <2> SUFFICES ASSUME NEW q \in Questions \ mixed', last'[q] # Unknown
               PROVE  /\ \A r \in RowsOf(q)' :
                           /\ r.key \in DOMAIN last'[q]
                           /\ last'[q][r.key] \in Values => r.val = last'[q][r.key]
                      /\ \A k \in DOMAIN last'[q] : last'[q][k] # Blank => \E r \in RowsOf(q)' : r.key = k
    BY DEF SelectionStands
  <2>1. CASE q \notin DOMAIN sent[t]
    <3>1. last'[q] = last[q] /\ RowsOf(q)' = RowsOf(q) /\ q \notin mixed
      BY <1>1, <1>3, <1>13, <2>1
    <3> QED BY <3>1 DEF SelectionStands
  <2>2. CASE q \in DOMAIN sent[t]
    <3>1. Updating(t, q) /\ q \notin mixed /\ last'[q] = sent[t][q]
      BY <1>1, <1>3, <2>2 DEF Progress
    <3>2. ASSUME NEW s \in RowsOf(q)'
          PROVE  s.key \in DOMAIN sent[t][q] /\ (sent[t][q][s.key] \in Values => s.val = sent[t][q][s.key])
      <4>1. PICK r \in rows : s = Updates(t, r) /\ r.q = q /\ s.key = r.key
        BY <1>6, <3>2 DEF RowsOf
      <4>2. r.key \in DOMAIN sent[t][q]
        BY <3>1, <4>1 DEF Updating
      <4>3. sent[t][q][r.key] \in Values => s.val = sent[t][q][r.key]
        BY <2>2, <3>1, <4>1, UpdatesValue
      <4> QED BY <4>1, <4>2, <4>3
    <3>3. ASSUME NEW k \in DOMAIN sent[t][q], sent[t][q][k] # Blank
          PROVE  \E r \in RowsOf(q)' : r.key = k
      <4>1. PICK r \in rows : r.q = q /\ r.key = k
        BY <3>1, <3>3 DEF Updating
      <4> QED BY <1>5, <1>7, <4>1 DEF RowsOf
    <3> QED BY <3>1, <3>2, <3>3
  <2> QED BY <2>1, <2>2
<1> QED BY <1>1, <1>4, <1>8, <1>9, <1>11, <1>12, <1>13, <1>14

LEMMA AbortStep ==
  ASSUME AnswersInv, NEW t \in Tabs, Abort(t)
  PROVE  AnswersInv' /\ UNCHANGED rows
<1> USE DEF AnswersInv
<1>1. /\ OthersStay(t) /\ pc'[t] = "idle" /\ pc[t] # "idle" /\ OneWriter'
      /\ UNCHANGED <<section, sent, seen, mixed, nextId, rows, last>>
  BY TabKept DEF Abort, request, Shape, OthersStay, OneWriter
<1>2. Shape'
  BY <1>1 DEF Shape, OthersStay
<1>3. KnownRows'
  BY <1>1 DEF KnownRows, OthersStay
<1>4. Progress'
  <2> SUFFICES ASSUME NEW u \in Tabs, NEW q \in DOMAIN sent'[u] \ mixed'
               PROVE  /\ pc'[u] = "delete" => Deleting(u, q)'
                      /\ pc'[u] = "insert" => Inserting(u, q)' /\ last'[q] = Unknown
                      /\ pc'[u] = "update" => Updating(u, q)' /\ last'[q] = Unknown
    BY DEF Progress
  <2>1. CASE u = t
    BY <1>1, <2>1
  <2>2. CASE u # t
    BY <1>1, <1>2, <2>2, OthersProgress DEF Shape
  <2> QED BY <2>1, <2>2
<1>5. OneRowEach' /\ SelectionStands'
  BY <1>1 DEF OneRowEach, SelectionStands, RowsOf
<1> QED BY <1>1, <1>2, <1>3, <1>4, <1>5

LEMMA AnswersStep == AnswersInv /\ [Next]_vars => AnswersInv'
<1> SUFFICES ASSUME AnswersInv, [Next]_vars PROVE AnswersInv'
  OBVIOUS
<1>1. CASE UNCHANGED vars
  <2>1. UNCHANGED <<rows, nextId, pc, section, sent, seen, last, mixed>>
    BY <1>1 DEF vars
  <2>2. Shape' /\ KnownRows'
    BY <2>1 DEF AnswersInv, Shape, KnownRows
  <2>3. OneWriter' /\ OneRowEach' /\ SelectionStands'
    BY <2>1 DEF AnswersInv, OneWriter, OneRowEach, SelectionStands, RowsOf
  <2>4. Progress'
    BY <2>1 DEF AnswersInv, Progress, Deleting, Inserting, Updating, Stands
  <2> QED BY <2>2, <2>3, <2>4 DEF AnswersInv
<1>2. ASSUME NEW t \in Tabs, NEW S \in Sections, Submit(t, S) PROVE AnswersInv'
  BY <1>2, SubmitStep
<1>3. ASSUME NEW t \in Tabs, Delete(t) \/ Insert(t) \/ Update(t) \/ Abort(t) PROVE AnswersInv'
  BY <1>3, DeleteStep, InsertStep, UpdateStep, AbortStep
<1> QED BY <1>1, <1>2, <1>3 DEF Next

\* One answer has one row and the rows of a question are its last completed
\* selection, as long as no two submissions wrote the question at a time.
THEOREM AnswersAlwaysStand == Spec => []AnswersStand
<1>1. AnswersInv => AnswersStand
  BY DEF AnswersInv, AnswersStand, LastAnswerStands, SelectionStands
<1> QED BY AnswersInit, AnswersStep, <1>1, PTL DEF Spec

\* A submission never touches the answers of other sections.
THEOREM OthersUntouched == Spec => OtherSectionsUntouched
<1> DEFINE Untouched == \A t \in Tabs : pc'[t] # pc[t] =>
                          \A q \in Questions \ section'[t] : RowsOf(q)' = RowsOf(q)
<1>1. AnswersInv /\ [Next]_vars => [Untouched]_vars
  <2> SUFFICES ASSUME AnswersInv, Next PROVE Untouched
    OBVIOUS
  <2>1. ASSUME NEW t \in Tabs, NEW S \in Sections, Submit(t, S) PROVE Untouched
    BY <2>1 DEF Submit, RowsOf
  <2>2. ASSUME NEW t \in Tabs, Abort(t) PROVE Untouched
    BY <2>2 DEF Abort, RowsOf
  <2>3. ASSUME NEW t \in Tabs, Delete(t) \/ Insert(t) \/ Update(t) PROVE Untouched
    <3>1. \A q \in Questions \ section'[t] : RowsOf(q)' = RowsOf(q)
      BY <2>3, DeleteStep, InsertStep, UpdateStep
    <3>2. \A u \in Tabs : pc'[u] # pc[u] => u = t
      BY <2>3 DEF Delete, Insert, Update, Goto, AnswersInv, Shape
    <3> QED BY <3>1, <3>2
  <2> QED BY <2>1, <2>2, <2>3 DEF Next
<1>2. AnswersInv /\ [Next]_vars => AnswersInv'
  BY AnswersStep
<1> QED BY AnswersInit, <1>1, <1>2, PTL DEF Spec, OtherSectionsUntouched

-----------------------------------------------------------------------------
(* Files and recordings *)

MediaShape ==
  /\ DOMAIN disk = Media /\ object \in [Media -> {"none", "good", "bad"}]
  /\ mediaRow \in [Media -> {"none", "pending", "ready"}]
  /\ DOMAIN upload = Media /\ DOMAIN moving = Files /\ promised \subseteq Media
  /\ known \in [Replicas -> [Media -> {"unknown", "none", "pending", "ready"}]]
  /\ completing \in [Replicas -> [Recordings -> {"idle", "check", "update", "delete", "deleteRow"}]]

\* A file on its way to the disk is not there yet; the script is only with
\* files that have no row, and a row stands for a whole object.
FileOK(f) ==
  /\ upload[f] \in {"idle", "put", "insert", "open"} => disk[f] = "none"
  /\ disk[f] = "whole" => upload[f] = "done"
  /\ moving[f] # "idle" => disk[f] # "none" /\ mediaRow[f] # "ready"
  /\ moving[f] \in {"whole", "sent"} => disk[f] = "whole"
  /\ moving[f] = "sent" \/ upload[f] = "insert" => object[f] = "good"
  /\ mediaRow[f] \in {"none", "ready"} /\ (mediaRow[f] = "ready" => object[f] = "good" \/ f \in excused)
  /\ f \in promised => disk[f] = "whole" \/ f \in excused
  /\ \A p \in Replicas : known[p][f] \in {"unknown", "none"} \/ (known[p][f] = "ready" /\ mediaRow[f] = "ready")

\* A recording is put once; what was good then is never deleted.
RecordingOK(f) ==
  /\ upload[f] \in {"idle", "signed"} => object[f] = "none"
  /\ upload[f] = "signed" \/ object[f] = "good" => mediaRow[f] # "none"
  /\ mediaRow[f] = "ready" => object[f] = "good"
  /\ f \in promised => mediaRow[f] = "ready"
  /\ \A p \in Replicas :
       /\ completing[p][f] # "idle" => upload[f] = "done"
       /\ completing[p][f] = "update" => object[f] = "good"
       /\ completing[p][f] \in {"delete", "deleteRow"} => object[f] # "good"
       /\ known[p][f] # "none" /\ (known[p][f] = "ready" => mediaRow[f] = "ready")

FileState == \A f \in Files : FileOK(f)
RecordingState == \A f \in Recordings : RecordingOK(f)

MediaInv == MediaShape /\ FileState /\ RecordingState

LEMMA MediaInitInv == MediaInit => MediaInv
BY MediaAssumption DEF MediaInit, MediaInv, MediaShape, FileState, RecordingState, FileOK, RecordingOK, Media

LEMMA FileStep ==
  ASSUME MediaInv, NEW f \in Files,
         \/ Upload(f) \/ PutInline(f) \/ OpenLocal(f) \/ WriteLocal(f) \/ UploadBreaks(f)
         \/ MigrateStat(f) \/ MigrateSend(f) \/ MigrateInsert(f) \/ MigrateBreaks(f)
         \/ \E p \in Replicas : InsertRow(p, f)
  PROVE  MediaInv'
<1> USE MediaAssumption DEF MediaInv, MediaShape, FileState, RecordingState, FileOK, RecordingOK, Media, Goes, MovingGoes, Forget
<1>1. CASE Upload(f)
  BY <1>1 DEF Upload
<1>2. CASE PutInline(f)
  BY <1>2 DEF PutInline
<1>3. CASE OpenLocal(f)
  BY <1>3 DEF OpenLocal
<1>4. CASE WriteLocal(f)
  <2>1. /\ promised' = promised \cup {f}
        /\ UNCHANGED <<enabled, object, mediaRow, known, completing, moving>>
        /\ upload[f] \in {"open", "write"} /\ upload' = [upload EXCEPT ![f] = "done"]
        /\ \/ disk' = [disk EXCEPT ![f] = "whole"] /\ excused' = excused
           \/ disk' = disk /\ excused' = excused \cup {f}
    BY <1>4 DEF WriteLocal
  <2>2. CASE disk' = [disk EXCEPT ![f] = "whole"] /\ excused' = excused
    BY <2>1, <2>2
  <2>3. CASE disk' = disk /\ excused' = excused \cup {f}
    BY <2>1, <2>3
  <2> QED BY <2>1, <2>2, <2>3
<1>5. CASE UploadBreaks(f)
  BY <1>5 DEF UploadBreaks
<1>6. CASE MigrateStat(f)
  <2>1. /\ disk[f] # "none" /\ mediaRow[f] # "ready"
        /\ UNCHANGED <<enabled, disk, object, mediaRow, known, upload, completing, promised, excused>>
    BY <1>6 DEF MigrateStat
  <2>2. CASE disk[f] = "whole" /\ moving' = [moving EXCEPT ![f] = "whole"]
    BY <2>1, <2>2
  <2>3. CASE moving' = [moving EXCEPT ![f] = "part"]
    BY <2>1, <2>3
  <2> QED BY <1>6, <2>2, <2>3 DEF MigrateStat
<1>7. CASE MigrateSend(f)
  BY <1>7 DEF MigrateSend
<1>8. CASE MigrateInsert(f)
  BY <1>8 DEF MigrateInsert
<1>9. CASE MigrateBreaks(f)
  BY <1>9 DEF MigrateBreaks
<1>10. ASSUME NEW p \in Replicas, InsertRow(p, f) PROVE MediaInv'
  BY <1>10 DEF InsertRow
<1> QED BY <1>1, <1>2, <1>3, <1>4, <1>5, <1>6, <1>7, <1>8, <1>9, <1>10

\* What one replica remembers of one file, or does with one recording.
LEMMA OneKnown ==
  ASSUME MediaShape, NEW p \in Replicas, NEW f \in Media,
         NEW v \in {"unknown", "none", "pending", "ready"}, known' = [known EXCEPT ![p][f] = v]
  PROVE  /\ known' \in [Replicas -> [Media -> {"unknown", "none", "pending", "ready"}]]
         /\ known'[p][f] = v
         /\ \A r \in Replicas, g \in Media : r # p \/ g # f => known'[r][g] = known[r][g]
BY DEF MediaShape

LEMMA OneCompleting ==
  ASSUME MediaShape, NEW p \in Replicas, NEW f \in Recordings, NEW from,
         NEW v \in {"idle", "check", "update", "delete", "deleteRow"}, CompleteGoes(p, f, from, v)
  PROVE  /\ completing' \in [Replicas -> [Recordings -> {"idle", "check", "update", "delete", "deleteRow"}]]
         /\ completing[p][f] = from /\ completing'[p][f] = v
         /\ \A r \in Replicas, g \in Recordings : r # p \/ g # f => completing'[r][g] = completing[r][g]
BY DEF MediaShape, CompleteGoes

\* Files are left alone by what happens to recordings.
LEMMA FilesKept ==
  ASSUME MediaInv, UNCHANGED <<disk, moving, excused>>,
         \A g \in Files : /\ object'[g] = object[g] /\ mediaRow'[g] = mediaRow[g] /\ upload'[g] = upload[g]
                          /\ g \in promised' => g \in promised
                          /\ \A p \in Replicas : known'[p][g] \in {known[p][g], "unknown"}
  PROVE  FileState'
BY DEF MediaInv, FileState, FileOK

\* A recording nothing happens to.
LEMMA RecordingKept ==
  ASSUME MediaInv, NEW g \in Recordings,
         object'[g] = object[g], mediaRow'[g] = mediaRow[g], upload'[g] = upload[g],
         g \in promised' => g \in promised,
         \A p \in Replicas : known'[p][g] \in {known[p][g], "unknown"}
                            /\ completing'[p][g] \in {completing[p][g], "idle"}
  PROVE  RecordingOK(g)'
<1>1. RecordingOK(g)
  BY DEF MediaInv, RecordingState
<1>2. ASSUME NEW p \in Replicas
      PROVE  /\ completing'[p][g] # "idle" => upload'[g] = "done"
             /\ completing'[p][g] = "update" => object'[g] = "good"
             /\ completing'[p][g] \in {"delete", "deleteRow"} => object'[g] # "good"
             /\ known'[p][g] # "none" /\ (known'[p][g] = "ready" => mediaRow'[g] = "ready")
  <2>1. completing'[p][g] = completing[p][g] \/ completing'[p][g] = "idle"
    OBVIOUS
  <2>2. known'[p][g] = known[p][g] \/ known'[p][g] = "unknown"
    OBVIOUS
  <2> QED BY <1>1, <2>1, <2>2 DEF RecordingOK
<1> QED BY <1>1, <1>2 DEF RecordingOK

\* What is left to show when f is the recording a step is about.
LEMMA OneRecording ==
  ASSUME MediaInv, NEW f \in Recordings, f \notin Files,
         MediaShape', RecordingOK(f)', UNCHANGED <<disk, moving, excused>>,
         \A g \in Media \ {f} :
           /\ object'[g] = object[g] /\ mediaRow'[g] = mediaRow[g] /\ upload'[g] = upload[g]
           /\ g \in promised' => g \in promised
           /\ \A r \in Replicas : known'[r][g] \in {known[r][g], "unknown"},
         \A g \in Recordings \ {f}, r \in Replicas : completing'[r][g] = completing[r][g]
  PROVE  MediaInv'
<1>1. FileState'
  BY FilesKept DEF Media
<1>2. \A g \in Recordings \ {f} : RecordingOK(g)'
  BY RecordingKept DEF Media
<1> QED BY <1>1, <1>2 DEF MediaInv, RecordingState

LEMMA PutStep ==
  ASSUME MediaInv, NEW f \in Recordings, BrowserPut(f)
  PROVE  MediaInv'
<1>1. RecordingOK(f) /\ f \notin Files /\ MediaShape /\ f \in Media
  BY MediaAssumption DEF MediaInv, RecordingState, Media
<1>2. /\ UNCHANGED <<enabled, disk, mediaRow, known, completing, moving, promised, excused>>
      /\ upload[f] = "signed" /\ upload' = [upload EXCEPT ![f] = "done"]
      /\ object' = [object EXCEPT ![f] = "good"] \/ object' = [object EXCEPT ![f] = "bad"]
  BY DEF BrowserPut, Goes
<1>3. MediaShape'
  BY <1>1, <1>2 DEF MediaShape
<1>4. RecordingOK(f)'
  BY <1>1, <1>2 DEF RecordingOK, MediaShape
<1> QED BY <1>1, <1>2, <1>3, <1>4, OneRecording DEF MediaShape

LEMMA RecordingStep ==
  ASSUME MediaInv, NEW f \in Recordings, NEW p \in Replicas,
         \/ Presign(p, f) \/ Complete(p, f) \/ CheckContent(p, f) \/ MarkReady(p, f)
         \/ DeleteObject(p, f) \/ DeleteRow(p, f) \/ CompleteBreaks(p, f)
  PROVE  MediaInv'
<1> DEFINE Steps == {"idle", "check", "update", "delete", "deleteRow"}
           Known == {"unknown", "none", "pending", "ready"}
<1>1. RecordingOK(f) /\ f \notin Files /\ MediaShape /\ f \in Media
  BY MediaAssumption DEF MediaInv, RecordingState, Media
<1>2. CASE Presign(p, f)
  <2>1. /\ UNCHANGED <<enabled, disk, object, completing, moving, promised, excused>>
        /\ upload[f] = "idle" /\ upload' = [upload EXCEPT ![f] = "signed"]
        /\ mediaRow' = [mediaRow EXCEPT ![f] = "pending"] /\ known' = [known EXCEPT ![p][f] = "unknown"]
    BY <1>2 DEF Presign, Goes, Forget
  <2>2. /\ known' \in [Replicas -> [Media -> Known]] /\ known'[p][f] = "unknown"
        /\ \A r \in Replicas, g \in Media : r # p \/ g # f => known'[r][g] = known[r][g]
    BY <1>1, <2>1, OneKnown
  <2>3. MediaShape'
    BY <1>1, <2>1, <2>2 DEF MediaShape
  <2>4. RecordingOK(f)'
    BY <1>1, <2>1, <2>2 DEF RecordingOK, MediaShape
  <2> QED BY <1>1, OneRecording, <2>1, <2>2, <2>3, <2>4 DEF MediaShape
<1>3. CASE Complete(p, f)
  <2>1. /\ upload[f] \in {"signed", "done"}
        /\ \/ CompleteGoes(p, f, "idle", "check") /\ object[f] # "none"
           \/ CompleteGoes(p, f, "idle", "idle")
        /\ known' = [known EXCEPT ![p][f] = "unknown"]
        /\ \/ promised' = promised \cup {f} /\ (mediaRow[f] = "ready" \/ known[p][f] = "ready")
           \/ promised' = promised
        /\ UNCHANGED <<enabled, disk, object, mediaRow, upload, moving, excused>>
    BY <1>3 DEF Complete, Found, Forget
  <2>2. /\ known' \in [Replicas -> [Media -> Known]] /\ known'[p][f] = "unknown"
        /\ \A r \in Replicas, g \in Media : r # p \/ g # f => known'[r][g] = known[r][g]
    BY <1>1, <2>1, OneKnown
  <2>3. PICK v \in {"idle", "check"} :
          CompleteGoes(p, f, "idle", v) /\ (v = "check" => object[f] # "none")
    BY <2>1
  <2>4. /\ completing' \in [Replicas -> [Recordings -> Steps]] /\ completing'[p][f] = v
        /\ \A r \in Replicas, g \in Recordings : r # p \/ g # f => completing'[r][g] = completing[r][g]
    BY <1>1, <2>3, OneCompleting
  <2>5. \A g \in Media : g \in promised' => g \in promised \/ (g = f /\ mediaRow[f] = "ready")
    BY <1>1, <2>1 DEF RecordingOK
  <2>6. MediaShape'
    BY <1>1, <2>1, <2>2, <2>4 DEF MediaShape
  <2>7. RecordingOK(f)'
    BY <1>1, <2>1, <2>2, <2>3, <2>4, <2>5 DEF RecordingOK, MediaShape
  <2> QED BY <1>1, OneRecording, <2>1, <2>2, <2>4, <2>5, <2>6, <2>7
<1>4. CASE CheckContent(p, f)
  <2>1. UNCHANGED <<enabled, disk, object, mediaRow, known, upload, moving, promised, excused>>
    BY <1>4 DEF CheckContent
  <2>2. PICK v \in {"idle", "update", "delete"} :
          /\ CompleteGoes(p, f, "check", v)
          /\ (v = "update" => object[f] = "good") /\ (v = "delete" => object[f] # "good")
    <3>1. CASE object[f] = "good"
      BY <1>4, <3>1 DEF CheckContent
    <3>2. CASE object[f] = "bad"
      BY <1>4, <3>2 DEF CheckContent
    <3>3. CASE object[f] = "none"
      BY <1>4, <3>3 DEF CheckContent
    <3> QED BY <1>1, <3>1, <3>2, <3>3 DEF MediaShape
  <2>3. /\ completing' \in [Replicas -> [Recordings -> Steps]]
        /\ completing[p][f] = "check" /\ completing'[p][f] = v
        /\ \A r \in Replicas, g \in Recordings : r # p \/ g # f => completing'[r][g] = completing[r][g]
    BY <1>1, <2>2, OneCompleting
  <2>4. MediaShape'
    BY <1>1, <2>1, <2>3 DEF MediaShape
  <2>5. RecordingOK(f)'
    BY <1>1, <2>1, <2>2, <2>3 DEF RecordingOK, MediaShape
  <2> QED BY <1>1, OneRecording, <2>1, <2>3, <2>4, <2>5
<1>5. CASE MarkReady(p, f)
  <2>1. /\ UNCHANGED <<enabled, disk, object, upload, moving, excused>>
        /\ CompleteGoes(p, f, "update", "idle") /\ known' = [known EXCEPT ![p][f] = "unknown"]
        /\ promised' = promised \cup {f}
        /\ mediaRow' = [mediaRow EXCEPT ![f] = IF @ = "none" THEN @ ELSE "ready"]
    BY <1>5 DEF MarkReady, Forget
  <2>2. /\ known' \in [Replicas -> [Media -> Known]] /\ known'[p][f] = "unknown"
        /\ \A r \in Replicas, g \in Media : r # p \/ g # f => known'[r][g] = known[r][g]
    BY <1>1, <2>1, OneKnown
  <2>3. /\ completing' \in [Replicas -> [Recordings -> Steps]]
        /\ completing[p][f] = "update" /\ completing'[p][f] = "idle"
        /\ \A r \in Replicas, g \in Recordings : r # p \/ g # f => completing'[r][g] = completing[r][g]
    BY <1>1, <2>1, OneCompleting
  <2>4. object[f] = "good" /\ mediaRow'[f] = "ready"
    BY <1>1, <2>1, <2>3 DEF RecordingOK, MediaShape
  <2>5. MediaShape'
    BY <1>1, <2>1, <2>2, <2>3 DEF MediaShape
  <2>6. RecordingOK(f)'
    BY <1>1, <2>1, <2>2, <2>3, <2>4 DEF RecordingOK, MediaShape
  <2>7. \A g \in Media \ {f} :
          /\ object'[g] = object[g] /\ mediaRow'[g] = mediaRow[g] /\ upload'[g] = upload[g]
          /\ g \in promised' => g \in promised
          /\ \A r \in Replicas : known'[r][g] \in {known[r][g], "unknown"}
    BY <1>1, <2>1, <2>2 DEF MediaShape
  <2> QED BY <1>1, OneRecording, <2>1, <2>3, <2>5, <2>6, <2>7
<1>6. CASE DeleteObject(p, f)
  <2>1. /\ UNCHANGED <<enabled, disk, mediaRow, known, upload, moving, promised, excused>>
        /\ object' = object \/ object' = [object EXCEPT ![f] = "none"]
        /\ CompleteGoes(p, f, "delete", "deleteRow")
    BY <1>6 DEF DeleteObject
  <2>2. /\ completing' \in [Replicas -> [Recordings -> Steps]]
        /\ completing[p][f] = "delete" /\ completing'[p][f] = "deleteRow"
        /\ \A r \in Replicas, g \in Recordings : r # p \/ g # f => completing'[r][g] = completing[r][g]
    BY <1>1, <2>1, OneCompleting
  <2>3. object[f] # "good" /\ object'[f] \in {object[f], "none"} /\ \A g \in Media \ {f} : object'[g] = object[g]
    BY <1>1, <2>1, <2>2 DEF RecordingOK, MediaShape
  <2>4. MediaShape'
    BY <1>1, <2>1, <2>2 DEF MediaShape
  <2>5. RecordingOK(f)'
    BY <1>1, <2>1, <2>2, <2>3 DEF RecordingOK
  <2> QED BY <1>1, OneRecording, <2>1, <2>2, <2>3, <2>4, <2>5
<1>7. CASE DeleteRow(p, f)
  <2>1. /\ UNCHANGED <<enabled, disk, object, known, upload, moving, promised, excused>>
        /\ mediaRow' = [mediaRow EXCEPT ![f] = "none"]
        /\ CompleteGoes(p, f, "deleteRow", "idle")
    BY <1>7 DEF DeleteRow
  <2>2. /\ completing' \in [Replicas -> [Recordings -> Steps]]
        /\ completing[p][f] = "deleteRow" /\ completing'[p][f] = "idle"
        /\ \A r \in Replicas, g \in Recordings : r # p \/ g # f => completing'[r][g] = completing[r][g]
    BY <1>1, <2>1, OneCompleting
  <2>3. object[f] # "good" /\ upload[f] = "done" /\ mediaRow[f] # "ready"
    BY <1>1, <2>2 DEF RecordingOK
  <2>4. MediaShape'
    BY <1>1, <2>1, <2>2 DEF MediaShape
  <2>5. RecordingOK(f)'
    BY <1>1, <2>1, <2>2, <2>3 DEF RecordingOK, MediaShape
  <2>6. \A g \in Media \ {f} : mediaRow'[g] = mediaRow[g]
    BY <1>1, <2>1 DEF MediaShape
  <2> QED BY <1>1, OneRecording, <2>1, <2>2, <2>4, <2>5, <2>6
<1>8. CASE CompleteBreaks(p, f)
  <2>1. /\ UNCHANGED <<enabled, disk, object, mediaRow, known, upload, moving, promised, excused>>
        /\ \E s \in {"check", "update", "delete", "deleteRow"} : CompleteGoes(p, f, s, "idle")
    BY <1>8 DEF CompleteBreaks
  <2>2. /\ completing' \in [Replicas -> [Recordings -> Steps]] /\ completing'[p][f] = "idle"
        /\ \A r \in Replicas, g \in Recordings : r # p \/ g # f => completing'[r][g] = completing[r][g]
    BY <1>1, <2>1, OneCompleting
  <2>3. MediaShape'
    BY <1>1, <2>1, <2>2 DEF MediaShape
  <2>4. RecordingOK(f)'
    BY <1>1, <2>1, <2>2 DEF RecordingOK
  <2> QED BY <1>1, OneRecording, <2>1, <2>2, <2>3, <2>4
<1> QED BY <1>2, <1>3, <1>4, <1>5, <1>6, <1>7, <1>8

LEMMA LookStep ==
  ASSUME MediaInv,
         Switch \/ \E p \in Replicas, f \in Media : Find(p, f) \/ Expire(p, f)
  PROVE  MediaInv'
<1>1. CASE Switch
  BY <1>1, MediaAssumption DEF Switch, MediaInv, MediaShape, FileState, RecordingState, FileOK, RecordingOK, Media
<1>2. ASSUME NEW p \in Replicas, NEW f \in Media, NEW v \in {"unknown", mediaRow[f]},
             known' = [known EXCEPT ![p][f] = v],
             f \in Recordings => v # "none",
             UNCHANGED <<enabled, disk, object, mediaRow, upload, completing, moving, promised, excused>>
      PROVE  MediaInv'
  <2>1. MediaShape /\ mediaRow[f] \in {"none", "pending", "ready"}
    BY DEF MediaInv, MediaShape
  <2>2. v \in {"unknown", "none", "pending", "ready"}
    BY <2>1
  <2>3. /\ known' \in [Replicas -> [Media -> {"unknown", "none", "pending", "ready"}]]
        /\ known'[p][f] = v
        /\ \A r \in Replicas, g \in Media : r # p \/ g # f => known'[r][g] = known[r][g]
    <3>1. known' = [known EXCEPT ![p][f] = v] /\ MediaShape
      BY <1>2, <2>1
    <3> QED BY <2>2, <3>1 DEF MediaShape
  <2>4. MediaShape'
    BY <1>2, <2>1, <2>3 DEF MediaShape
  <2>5. ASSUME NEW g \in Files PROVE FileOK(g)'
    <3>1. FileOK(g) /\ g \in Media
      BY DEF MediaInv, FileState, Media
    <3>2. \A r \in Replicas : known'[r][g] \in {"unknown", "none"}
                             \/ (known'[r][g] = "ready" /\ mediaRow[g] = "ready")
      BY <1>2, <2>3, <3>1 DEF FileOK
    <3> QED BY <1>2, <3>1, <3>2 DEF FileOK
  <2>6. ASSUME NEW g \in Recordings PROVE RecordingOK(g)'
    <3>1. RecordingOK(g) /\ g \in Media
      BY DEF MediaInv, RecordingState, Media
    <3>2. \A r \in Replicas : known'[r][g] # "none" /\ (known'[r][g] = "ready" => mediaRow[g] = "ready")
      BY <1>2, <2>3, <3>1 DEF RecordingOK
    <3> QED BY <1>2, <3>1, <3>2 DEF RecordingOK
  <2> QED BY <2>4, <2>5, <2>6 DEF MediaInv, FileState, RecordingState
<1> QED BY <1>1, <1>2 DEF Find, Expire, Forget

LEMMA MediaStep == MediaInv /\ [MediaNext]_mediaVars => MediaInv'
<1> SUFFICES ASSUME MediaInv, [MediaNext]_mediaVars PROVE MediaInv'
  OBVIOUS
<1>1. CASE UNCHANGED mediaVars
  BY <1>1 DEF mediaVars, MediaInv, MediaShape, FileState, RecordingState, FileOK, RecordingOK
<1>2. ASSUME NEW f \in Files,
             \/ Upload(f) \/ PutInline(f) \/ OpenLocal(f) \/ WriteLocal(f) \/ UploadBreaks(f)
             \/ MigrateStat(f) \/ MigrateSend(f) \/ MigrateInsert(f) \/ MigrateBreaks(f)
             \/ \E p \in Replicas : InsertRow(p, f)
      PROVE  MediaInv'
  BY <1>2, FileStep
<1>3. ASSUME NEW f \in Recordings, NEW p \in Replicas,
             \/ Presign(p, f) \/ Complete(p, f) \/ CheckContent(p, f) \/ MarkReady(p, f)
             \/ DeleteObject(p, f) \/ DeleteRow(p, f) \/ CompleteBreaks(p, f)
      PROVE  MediaInv'
  BY <1>3, RecordingStep
<1>4. ASSUME NEW f \in Recordings, BrowserPut(f) PROVE MediaInv'
  BY <1>4, PutStep
<1>5. CASE Switch \/ \E p \in Replicas, f \in Media : Find(p, f) \/ Expire(p, f)
  BY <1>5, LookStep
<1> QED BY <1>1, <1>2, <1>3, <1>4, <1>5 DEF MediaNext

\* A file its sender was told is stored is handed out whole by every replica,
\* with the storage on or off; a recording while it is on.
THEOREM PromisedIsServed == MediaSpec => []StoredIsServed
<1>1. MediaInv => StoredIsServed
  <2> SUFFICES ASSUME MediaInv, NEW f \in promised \ excused, NEW p \in Replicas,
                      f \in Files \/ (f \in Recordings /\ enabled /\ known[p][f] # "pending")
               PROVE  Served(p, f)
    BY DEF StoredIsServed, MediaInv, MediaShape, Media
  <2>1. CASE f \in Files
    BY <2>1 DEF MediaInv, FileState, FileOK, Served, Found
  <2>2. CASE f \in Recordings /\ enabled /\ known[p][f] # "pending"
    BY <2>2 DEF MediaInv, MediaShape, RecordingState, RecordingOK, Served, Found, Media
  <2> QED BY <2>1, <2>2
<1> QED BY MediaInitInv, MediaStep, <1>1, PTL DEF MediaSpec

-----------------------------------------------------------------------------
(* The copy of a test *)

Closed(T) ==
  /\ \A g \in Groups : groupHome[g] = "own" => g \in T
  /\ \A c \in OwnChoices : groupOf[c] # Gone => groupOf[c] \in T
  /\ \A g \in T : parentOf[g] # Gone => parentOf[g] \in T

\* A group an answer or another group refers to is there.
RowsOK ==
  /\ home \in [Items -> {"own", "other", Gone}] /\ choiceOf \in [Choices -> Items \cup {Gone}]
  /\ groupOf \in [Choices -> Groups \cup {Gone}] /\ groupHome \in [Groups -> {"own", "other", Gone}]
  /\ parentOf \in [Groups -> Groups \cup {Gone}] /\ links \subseteq Links
  /\ \A c \in Choices : groupOf[c] # Gone => groupHome[groupOf[c]] # Gone
  /\ \A g \in Groups : parentOf[g] # Gone => groupHome[parentOf[g]] # Gone

GotFields == {"items", "choices", "of", "in", "groups", "asked", "up", "links"}

\* What the copier has read refers to what it has read, but for groups.
GotOK ==
  /\ stage \in {"idle", "choices", "groups", "parents", "links", "check", "commit"}
  /\ DOMAIN got = GotFields /\ got.choices \subseteq Choices
  /\ \A c \in got.choices : got.of[c] \in got.items /\ got.in[c] \in Groups \cup {Gone}
  /\ got.groups \subseteq Groups /\ got.up \in [Groups -> Groups \cup {Gone}]
  /\ \A r \in got.links : r.target \in got.items
  /\ stage = "commit" => Forest /\ \A r \in got.links : r.hides \in got.choices \cup {Gone}
  /\ stage # "idle" => copies = {}

\* While nothing is edited it has what there is, and no group it does not need.
GotFresh ==
  /\ stage # "idle" => got.items = OwnItems
  /\ stage = "choices" => got.choices = {}
  /\ stage \in {"choices", "groups"} => got.groups = {} /\ got.asked = {}
  /\ stage \notin {"idle", "choices"} =>
       /\ got.choices = OwnChoices
       /\ \A c \in OwnChoices : got.of[c] = choiceOf[c] /\ got.in[c] = groupOf[c]
  /\ stage \in {"parents", "links", "check", "commit"} =>
       /\ got.asked = got.groups
       /\ \A g \in Groups : groupHome[g] = "own" => g \in got.groups
       /\ \A g \in got.groups : got.up[g] = parentOf[g]
       /\ \A T \in SUBSET Groups : Closed(T) => got.groups \subseteq T
  /\ stage \in {"links", "check", "commit"} => Closed(got.groups)
  /\ stage \in {"check", "commit"} => got.links = {r \in links : r.target \in got.items}

\* What CopyStandsAlone says of a copy, whatever was edited.
Alone(t) ==
  LET choices == {c[1] : c \in t.choices}
      groups == {g[1] : g \in t.groups}
  IN /\ \A c \in t.choices : c[2] \in t.items /\ c[3] \in groups \cup {Gone}
     /\ \A r \in t.links : r[1] \in t.items /\ r[2] \in t.items /\ {r[3], r[4]} \subseteq choices \cup {Gone}
     /\ \A S \in (SUBSET t.groups) \ {{}} : \E g \in S : g[2] \notin {h[1] : h \in S}
     /\ \A g \in t.groups : g[2] \in groups \cup {Gone}

TransferInv ==
  /\ RowsOK /\ GotOK /\ (fresh => GotFresh)
  /\ \A t \in copies : Alone(t) /\ (fresh => Faithful(t))

LEMMA OldestAncestry ==
  ASSUME NEW S \in SUBSET Groups, Closed(S), \A T \in SUBSET Groups : Closed(T) => S \subseteq T
  PROVE  Ancestry = S
<1> DEFINE Least(R) == Closed(R) /\ \A T \in SUBSET Groups : Closed(T) => R \subseteq T
<1>1. Least(S)
  OBVIOUS
<1>2. \A R \in SUBSET Groups : Least(R) => R = S
  OBVIOUS
<1>3. Ancestry = CHOOSE R \in SUBSET Groups : Least(R)
  BY DEF Ancestry, Closed
<1> HIDE DEF Least
<1> QED BY <1>1, <1>2, <1>3

LEMMA TransferInitInv == TransferInit => TransferInv
<1> SUFFICES ASSUME TransferInit PROVE TransferInv
  OBVIOUS
<1>1. /\ got.choices = {} /\ got.groups = {} /\ got.links = {} /\ DOMAIN got = GotFields
      /\ got.up \in [Groups -> Groups \cup {Gone}]
  BY DEF TransferInit, Nothing, GotFields
<1>2. RowsOK
  BY TransferAssumption DEF TransferInit, RowsOK
<1>3. GotOK /\ GotFresh
  BY <1>1 DEF TransferInit, GotOK, GotFresh
<1> QED BY <1>2, <1>3 DEF TransferInit, TransferInv

\* An edit keeps the foreign keys; the copier notices nothing.
LEMMA EditStep ==
  ASSUME TransferInv,
         \/ \E q \in Items : MoveItem(q) \/ DeleteItem(q)
         \/ \E c \in Choices : DeleteChoice(c) \/ \E g \in Groups : Regroup(c, g)
         \/ \E g \in Groups : DeleteGroup(g) \/ \E h \in Groups : SetParent(g, h)
         \/ \E r \in Links : AddLink(r)
  PROVE  TransferInv'
<1>1. fresh' = FALSE /\ UNCHANGED <<stage, got, copies>>
  BY DEF MoveItem, DeleteItem, DeleteChoice, Regroup, DeleteGroup, SetParent, AddLink, Edits, copier
<1>2. GotOK'
  BY <1>1 DEF TransferInv, GotOK, Forest, GroupRef
<1>3. \A t \in copies' : Alone(t)'
  BY <1>1 DEF TransferInv, Alone
<1>4. RowsOK'
  <2> USE DEF RowsOK, TransferInv
  <2>1. ASSUME NEW q \in Items, MoveItem(q) \/ DeleteItem(q) PROVE RowsOK'
    BY <2>1 DEF MoveItem, DeleteItem
  <2>2. ASSUME NEW c \in Choices, DeleteChoice(c) PROVE RowsOK'
    BY <2>2 DEF DeleteChoice
  <2>3. ASSUME NEW c \in Choices, NEW g \in Groups, Regroup(c, g) PROVE RowsOK'
    BY <2>3 DEF Regroup
  <2>4. ASSUME NEW g \in Groups, DeleteGroup(g) PROVE RowsOK'
    BY <2>4, TransferAssumption DEF DeleteGroup
  <2>5. ASSUME NEW g \in Groups, NEW h \in Groups, SetParent(g, h) PROVE RowsOK'
    BY <2>5, TransferAssumption DEF SetParent
  <2>6. ASSUME NEW r \in Links, AddLink(r) PROVE RowsOK'
    BY <2>6 DEF AddLink
  <2> QED BY <2>1, <2>2, <2>3, <2>4, <2>5, <2>6
<1> QED BY <1>1, <1>2, <1>3, <1>4 DEF TransferInv

LEMMA SameTest ==
  ASSUME UNCHANGED testRows
  PROVE  /\ UNCHANGED <<home, choiceOf, groupOf, groupHome, parentOf, links>>
         /\ UNCHANGED <<OwnItems, OwnChoices, OwnLinks, Ancestry>>
         /\ (RowsOK => RowsOK') /\ \A T : Closed(T)' <=> Closed(T)
<1>1. UNCHANGED <<home, choiceOf, groupOf, groupHome, parentOf, links>>
  BY DEF testRows
<1>2. UNCHANGED <<OwnItems, OwnChoices, OwnLinks>>
  BY <1>1 DEF OwnItems, OwnChoices, OwnLinks
<1>3. UNCHANGED Ancestry
  BY <1>1, <1>2 DEF Ancestry
<1>4. (RowsOK => RowsOK') /\ \A T : Closed(T)' <=> Closed(T)
  BY <1>1, <1>2 DEF RowsOK, Closed
<1> QED BY <1>1, <1>2, <1>3, <1>4

LEMMA ReadItemsStep == ASSUME TransferInv, ReadItems PROVE TransferInv'
<1>1. /\ stage' = "choices" /\ copies' = {} /\ fresh' = TRUE /\ UNCHANGED testRows
      /\ got' = [Nothing EXCEPT !.items = OwnItems]
  BY DEF ReadItems, Reads, OwnItems
<1>2. /\ got'.items = OwnItems /\ got'.choices = {} /\ got'.groups = {} /\ got'.asked = {}
      /\ got'.links = {} /\ got'.up = [g \in Groups |-> Gone] /\ DOMAIN got' = GotFields
  BY <1>1 DEF Nothing, GotFields
<1>3. RowsOK' /\ OwnItems' = OwnItems
  BY <1>1, SameTest DEF TransferInv
<1>4. GotOK'
  BY <1>1, <1>2 DEF GotOK
<1>5. GotFresh'
  BY <1>1, <1>2, <1>3 DEF GotFresh
<1> QED BY <1>1, <1>3, <1>4, <1>5 DEF TransferInv

LEMMA ReadChoicesStep == ASSUME TransferInv, ReadChoices PROVE TransferInv'
<1> DEFINE there == {c \in Choices : choiceOf[c] \in got.items}
<1>1. /\ stage = "choices" /\ stage' = "groups" /\ UNCHANGED <<testRows, copies, fresh>>
      /\ got' = [got EXCEPT !.choices = there, !.of = [c \in there |-> choiceOf[c]],
                           !.in = [c \in there |-> groupOf[c]]]
  BY DEF ReadChoices, Reads
<1>2. DOMAIN got = GotFields
  BY DEF TransferInv, GotOK
<1>3. /\ got'.choices = there /\ got'.of = [c \in there |-> choiceOf[c]]
      /\ got'.in = [c \in there |-> groupOf[c]] /\ DOMAIN got' = GotFields
      /\ got'.items = got.items /\ got'.groups = got.groups /\ got'.asked = got.asked
      /\ got'.up = got.up /\ got'.links = got.links
  BY <1>1, <1>2 DEF GotFields
<1>4. /\ UNCHANGED <<home, choiceOf, groupOf, groupHome, parentOf, links>>
      /\ UNCHANGED <<OwnItems, OwnChoices, OwnLinks, Ancestry>> /\ RowsOK'
  BY <1>1, SameTest DEF TransferInv
<1>5. GotOK'
  BY <1>1, <1>3 DEF TransferInv, GotOK, RowsOK
<1>6. fresh => GotFresh'
  BY <1>1, <1>3, <1>4 DEF TransferInv, GotFresh, OwnChoices
<1> QED BY <1>1, <1>4, <1>5, <1>6 DEF TransferInv, GotOK

\* What a query for the groups of S adds.
LEMMA LoadFacts ==
  ASSUME RowsOK, GotOK, NEW S \in SUBSET Groups
  PROVE  LET there == {g \in S : groupHome[g] # Gone} IN
         /\ Load(S).groups = got.groups \cup there /\ Load(S).asked = got.asked \cup S
         /\ Load(S).up \in [Groups -> Groups \cup {Gone}]
         /\ \A g \in Groups : Load(S).up[g] = IF g \in there THEN parentOf[g] ELSE got.up[g]
         /\ Load(S).items = got.items /\ Load(S).choices = got.choices /\ Load(S).of = got.of
         /\ Load(S).in = got.in /\ Load(S).links = got.links /\ DOMAIN Load(S) = GotFields
<1> DEFINE there == {g \in S : groupHome[g] # Gone}
           up == [g \in Groups |-> IF g \in there THEN parentOf[g] ELSE got.up[g]]
<1>1. DOMAIN got = GotFields
  BY DEF GotOK
<1>2. Load(S) = [got EXCEPT !.groups = got.groups \cup there, !.asked = got.asked \cup S, !.up = up]
  BY DEF Load
<1>3. up \in [Groups -> Groups \cup {Gone}]
  BY DEF RowsOK, GotOK
<1>4. \A g \in Groups : up[g] = IF g \in there THEN parentOf[g] ELSE got.up[g]
  OBVIOUS
<1> HIDE DEF up
<1>5. /\ Load(S).groups = got.groups \cup there /\ Load(S).asked = got.asked \cup S /\ Load(S).up = up
      /\ Load(S).items = got.items /\ Load(S).choices = got.choices /\ Load(S).of = got.of
      /\ Load(S).in = got.in /\ Load(S).links = got.links /\ DOMAIN Load(S) = GotFields
  BY <1>1, <1>2 DEF GotFields
<1> QED BY <1>3, <1>4, <1>5

LEMMA ReadGroupsStep == ASSUME TransferInv, ReadGroups PROVE TransferInv'
<1> DEFINE own == {g \in Groups : groupHome[g] = "own"}
<1>1. /\ stage = "groups" /\ stage' = "parents" /\ UNCHANGED <<testRows, copies, fresh>>
      /\ got' = Load(own)
  BY DEF ReadGroups, Reads
<1>2. RowsOK /\ GotOK
  BY DEF TransferInv
<1>3. {g \in own : groupHome[g] # Gone} = own
  BY TransferAssumption
<1>4. /\ got'.groups = got.groups \cup own /\ got'.asked = got.asked \cup own
      /\ got'.up \in [Groups -> Groups \cup {Gone}]
      /\ \A g \in own : got'.up[g] = parentOf[g]
      /\ got'.items = got.items /\ got'.choices = got.choices /\ got'.of = got.of
      /\ got'.in = got.in /\ got'.links = got.links /\ DOMAIN got' = GotFields
  <2>1. own \in SUBSET Groups
    OBVIOUS
  <2> HIDE DEF own
  <2> QED BY <1>1, <1>2, <1>3, <2>1, LoadFacts
<1>5. /\ UNCHANGED <<home, choiceOf, groupOf, groupHome, parentOf, links>>
      /\ UNCHANGED <<OwnItems, OwnChoices, OwnLinks, Ancestry>> /\ RowsOK'
      /\ \A T : Closed(T)' <=> Closed(T)
  BY <1>1, SameTest DEF TransferInv
<1>6. GotOK'
  BY <1>1, <1>2, <1>4 DEF GotOK
<1>7. ASSUME fresh PROVE GotFresh'
  <2>1. GotFresh /\ got'.groups = own /\ got'.asked = own
    BY <1>1, <1>4, <1>7 DEF TransferInv, GotFresh
  <2>2. \A T \in SUBSET Groups : Closed(T)' => got'.groups \subseteq T
    BY <1>5, <2>1 DEF Closed
  <2>3. stage' = "parents" /\ stage = "groups"
    BY <1>1
  <2>4. got'.items = OwnItems' /\ got'.choices = OwnChoices'
    BY <1>4, <1>5, <2>1, <2>3 DEF GotFresh
  <2>5. \A c \in OwnChoices' : got'.of[c] = choiceOf'[c] /\ got'.in[c] = groupOf'[c]
    BY <1>4, <1>5, <2>1, <2>3 DEF GotFresh
  <2>6. \A g \in Groups : groupHome'[g] = "own" => g \in got'.groups
    BY <1>5, <2>1
  <2>7. \A g \in got'.groups : got'.up[g] = parentOf'[g]
    BY <1>4, <1>5, <2>1
  <2>8. got'.asked = got'.groups
    BY <2>1
  <2> QED BY <2>2, <2>3, <2>4, <2>5, <2>6, <2>7, <2>8 DEF GotFresh
<1> QED BY <1>1, <1>2, <1>5, <1>6, <1>7 DEF TransferInv, GotOK

LEMMA MissingGroups ==
  ASSUME RowsOK, GotOK
  PROVE  /\ Missing \in SUBSET Groups
         /\ \A g \in Missing : \/ \E c \in got.choices : g = got.in[c] /\ g # Gone
                              \/ \E h \in got.groups : g = got.up[h] /\ g # Gone
         /\ Missing = {} =>
              /\ \A c \in got.choices : got.in[c] # Gone => got.in[c] \in got.asked
              /\ \A g \in got.groups : got.up[g] # Gone => got.up[g] \in got.asked
<1> DEFINE ofChoices == {got.in[c] : c \in got.choices}
           ofGroups == {got.up[g] : g \in got.groups}
<1>0. Missing = ((ofChoices \cup ofGroups) \ {Gone}) \ got.asked
  BY DEF Missing
<1>1. \A g \in Missing : /\ (\E c \in got.choices : g = got.in[c]) \/ (\E h \in got.groups : g = got.up[h])
                         /\ g # Gone
  BY <1>0
<1>2. \A c \in got.choices : got.in[c] # Gone => got.in[c] \in Missing \/ got.in[c] \in got.asked
  BY DEF Missing
<1>3. \A g \in got.groups : got.up[g] # Gone => got.up[g] \in Missing \/ got.up[g] \in got.asked
  BY DEF Missing
<1>4. Missing \in SUBSET Groups
  BY <1>1 DEF GotOK
<1> QED BY <1>1, <1>2, <1>3, <1>4

LEMMA ReadParentsStep == ASSUME TransferInv, ReadParents PROVE TransferInv'
<1>1. stage = "parents" /\ UNCHANGED <<testRows, copies, fresh>>
  BY DEF ReadParents, Reads
<1>2. RowsOK /\ GotOK
  BY DEF TransferInv
<1>3. /\ UNCHANGED <<home, choiceOf, groupOf, groupHome, parentOf, links>>
      /\ UNCHANGED <<OwnItems, OwnChoices, OwnLinks, Ancestry>> /\ RowsOK'
      /\ \A T : Closed(T)' <=> Closed(T)
  BY <1>1, SameTest DEF TransferInv
<1>4. CASE Missing = {}
  <2>1. got' = got /\ stage' = "links"
    BY <1>4 DEF ReadParents, Reads
  <2>2. GotOK'
    BY <1>1, <1>2, <2>1 DEF GotOK
  <2>3. ASSUME fresh PROVE GotFresh'
    <3>1. GotFresh
      BY <2>3 DEF TransferInv
    <3>2. \A c \in OwnChoices : groupOf[c] # Gone => groupOf[c] \in got.groups
      BY <1>1, <1>2, <1>4, <3>1, MissingGroups DEF GotFresh
    <3>3. \A g \in got.groups : parentOf[g] # Gone => parentOf[g] \in got.groups
      BY <1>1, <1>2, <1>4, <3>1, MissingGroups DEF GotFresh
    <3>4. Closed(got.groups)
      BY <1>1, <3>1, <3>2, <3>3 DEF GotFresh, Closed
    <3>5. Closed(got.groups)'
      BY <1>3, <2>1, <3>4 DEF Closed
    <3> QED BY <1>1, <1>3, <2>1, <3>1, <3>5 DEF GotFresh
  <2> QED BY <1>1, <1>2, <1>3, <2>2, <2>3 DEF TransferInv, GotOK
<1>5. CASE Missing # {}
  <2> DEFINE S == Missing
  <2>1. got' = Load(S) /\ stage' = "parents"
    BY <1>5 DEF ReadParents, Reads
  <2>2. /\ S \in SUBSET Groups
        /\ \A g \in S : \/ \E c \in got.choices : g = got.in[c] /\ g # Gone
                       \/ \E h \in got.groups : g = got.up[h] /\ g # Gone
    BY <1>2, MissingGroups
  <2> HIDE DEF S
  <2> DEFINE there == {g \in S : groupHome[g] # Gone}
  <2>3. /\ got'.groups = got.groups \cup there /\ got'.asked = got.asked \cup S
        /\ got'.up \in [Groups -> Groups \cup {Gone}]
        /\ \A g \in Groups : got'.up[g] = IF g \in there THEN parentOf[g] ELSE got.up[g]
        /\ got'.items = got.items /\ got'.choices = got.choices /\ got'.of = got.of
        /\ got'.in = got.in /\ got'.links = got.links /\ DOMAIN got' = GotFields
    BY <1>2, <2>1, <2>2, LoadFacts
  <2>4. GotOK'
    BY <1>1, <1>2, <2>1, <2>2, <2>3 DEF GotOK
  <2>5. ASSUME fresh PROVE GotFresh'
    <3>1. GotFresh
      BY <2>5 DEF TransferInv
    <3>2. \A g \in S : \/ \E c \in OwnChoices : g = groupOf[c] /\ g # Gone
                      \/ \E h \in got.groups : g = parentOf[h] /\ g # Gone
      BY <1>1, <2>2, <3>1 DEF GotFresh
    <3>3. there = S
      <4>1. \A c \in OwnChoices : c \in Choices
        BY DEF OwnChoices
      <4>2. got.groups \subseteq Groups
        BY <1>2 DEF GotOK
      <4> QED BY <1>2, <3>2, <4>1, <4>2 DEF RowsOK
    <3>4. \A T \in SUBSET Groups : Closed(T) => got'.groups \subseteq T
      <4> SUFFICES ASSUME NEW T \in SUBSET Groups, Closed(T) PROVE got'.groups \subseteq T
        OBVIOUS
      <4>1. got.groups \subseteq T
        BY <1>1, <3>1 DEF GotFresh
      <4>2. S \subseteq T
        BY <3>2, <4>1 DEF Closed
      <4> QED BY <2>3, <4>1, <4>2
    <3>5. got'.asked = got'.groups
      BY <1>1, <2>3, <3>1, <3>3 DEF GotFresh
    <3>6. \A g \in got'.groups : got'.up[g] = parentOf[g]
      BY <1>1, <1>2, <2>2, <2>3, <3>1 DEF GotFresh, GotOK
    <3>7. \A g \in Groups : groupHome[g] = "own" => g \in got'.groups
      BY <1>1, <2>3, <3>1 DEF GotFresh
    <3>8. \A T \in SUBSET Groups : Closed(T)' => got'.groups \subseteq T
      BY <1>3, <3>4
    <3> QED BY <1>1, <1>3, <2>1, <2>3, <3>1, <3>5, <3>6, <3>7, <3>8 DEF GotFresh
  <2> QED BY <1>1, <1>2, <1>3, <2>4, <2>5 DEF TransferInv, GotOK
<1> QED BY <1>4, <1>5

LEMMA ReadLinksStep == ASSUME TransferInv, ReadLinks PROVE TransferInv'
<1>1. /\ stage = "links" /\ stage' = "check" /\ UNCHANGED <<testRows, copies, fresh>>
      /\ got' = [got EXCEPT !.links = {r \in links : r.target \in got.items}]
  BY DEF ReadLinks, Reads
<1>2. RowsOK /\ GotOK /\ DOMAIN got = GotFields
  BY DEF TransferInv, GotOK
<1>3. /\ UNCHANGED <<home, choiceOf, groupOf, groupHome, parentOf, links>>
      /\ UNCHANGED <<OwnItems, OwnChoices, OwnLinks, Ancestry>> /\ RowsOK'
      /\ \A T : Closed(T)' <=> Closed(T)
  BY <1>1, SameTest DEF TransferInv
<1>4. /\ got'.links = {r \in links : r.target \in got.items} /\ DOMAIN got' = GotFields
      /\ got'.items = got.items /\ got'.choices = got.choices /\ got'.of = got.of /\ got'.in = got.in
      /\ got'.groups = got.groups /\ got'.asked = got.asked /\ got'.up = got.up
  BY <1>1, <1>2 DEF GotFields
<1>5. GotOK'
  BY <1>1, <1>2, <1>4 DEF GotOK
<1>6. ASSUME fresh PROVE GotFresh'
  <2>1. GotFresh
    BY <1>6 DEF TransferInv
  <2>2. Closed(got.groups)'
    BY <1>1, <1>3, <1>4, <2>1 DEF GotFresh, Closed
  <2>3. got'.links = {r \in links' : r.target \in got'.items}
    BY <1>3, <1>4
  <2>4. \A T \in SUBSET Groups : Closed(T)' => got'.groups \subseteq T
    BY <1>1, <1>3, <1>4, <2>1 DEF GotFresh
  <2> QED BY <1>1, <1>3, <1>4, <2>1, <2>2, <2>3, <2>4 DEF GotFresh
<1> QED BY <1>1, <1>2, <1>3, <1>5, <1>6 DEF TransferInv, GotOK

LEMMA CheckStep == ASSUME TransferInv, Check PROVE TransferInv'
<1>1. stage = "check" /\ UNCHANGED <<testRows, copies, fresh>>
  BY DEF Check
<1>2. RowsOK /\ GotOK
  BY DEF TransferInv
<1>3. /\ UNCHANGED <<home, choiceOf, groupOf, groupHome, parentOf, links>>
      /\ UNCHANGED <<OwnItems, OwnChoices, OwnLinks, Ancestry>> /\ RowsOK'
      /\ \A T : Closed(T)' <=> Closed(T)
  BY <1>1, SameTest DEF TransferInv
<1>4. CASE /\ Forest /\ \A r \in got.links : r.hides \in got.choices \cup {Gone}
           /\ stage' = "commit" /\ got' = got
  <2>1. GotOK'
    BY <1>1, <1>2, <1>4 DEF GotOK, Forest, GroupRef
  <2>2. ASSUME fresh PROVE GotFresh'
    <3>1. GotFresh
      BY <2>2 DEF TransferInv
    <3>2. Closed(got.groups)'
      BY <1>1, <1>3, <1>4, <3>1 DEF GotFresh, Closed
    <3>3. \A T \in SUBSET Groups : Closed(T)' => got'.groups \subseteq T
      BY <1>1, <1>3, <1>4, <3>1 DEF GotFresh
    <3> QED BY <1>1, <1>3, <1>4, <3>1, <3>2, <3>3 DEF GotFresh
  <2> QED BY <1>1, <1>2, <1>3, <2>1, <2>2 DEF TransferInv, GotOK
<1>5. CASE stage' = "idle" /\ got' = Nothing
  <2>1. /\ got'.choices = {} /\ got'.groups = {} /\ got'.links = {} /\ DOMAIN got' = GotFields
        /\ got'.up \in [Groups -> Groups \cup {Gone}]
    BY <1>5 DEF Nothing, GotFields
  <2>2. GotOK' /\ GotFresh'
    BY <1>1, <1>2, <1>5, <2>1 DEF GotOK, GotFresh
  <2> QED BY <1>1, <1>2, <1>3, <2>2 DEF TransferInv, GotOK
<1> QED BY <1>4, <1>5 DEF Check

\* The rows made of an answer, of a group and of a rule.
ChoiceRow(c) == <<New(c), New(got.of[c]), New(GroupRef(got.in[c]))>>
GroupRow(g) == <<New(g), New(GroupRef(got.up[g]))>>
LinkRow(r) == <<New(r.target), New(r.dep), New(r.answer), New(r.hides)>>
KeptLinks == {r \in got.links : KeptLink(r)}

LEMMA CopyFields ==
  /\ CopiedRows.items = {New(q) : q \in got.items}
  /\ CopiedRows.choices = {ChoiceRow(c) : c \in got.choices}
  /\ CopiedRows.groups = {GroupRow(g) : g \in got.groups}
  /\ CopiedRows.links = {LinkRow(r) : r \in KeptLinks}
BY DEF CopiedRows, ChoiceRow, GroupRow, LinkRow, KeptLinks

\* Two groups that are read are different rows of the copy.
LEMMA NewGroup ==
  ASSUME NEW g \in Groups, NEW ref \in Groups \cup {Gone}, New(ref) = New(g)
  PROVE  ref = g
<1>1. New(g) = <<"new", g>> /\ New(g) # Gone
  BY TransferAssumption DEF New
<1>2. ref # Gone
  BY <1>1 DEF New
<1>3. New(ref) = <<"new", ref>>
  BY <1>2 DEF New
<1> QED BY <1>1, <1>3

LEMMA CopyAlone ==
  ASSUME GotOK, Forest, \A r \in got.links : r.hides \in got.choices \cup {Gone}
  PROVE  Alone(CopiedRows)
<1> DEFINE t == CopiedRows
           choices == {c[1] : c \in t.choices}
           groups == {g[1] : g \in t.groups}
<1>1. /\ t.items = {New(q) : q \in got.items}
      /\ t.choices = {ChoiceRow(c) : c \in got.choices}
      /\ t.groups = {GroupRow(g) : g \in got.groups}
      /\ t.links = {LinkRow(r) : r \in KeptLinks}
  BY CopyFields
<1> HIDE DEF t
<1>2. /\ \A c : ChoiceRow(c)[1] = New(c) /\ ChoiceRow(c)[2] = New(got.of[c]) /\ ChoiceRow(c)[3] = New(GroupRef(got.in[c]))
      /\ \A g : GroupRow(g)[1] = New(g) /\ GroupRow(g)[2] = New(GroupRef(got.up[g]))
      /\ \A r : /\ LinkRow(r)[1] = New(r.target) /\ LinkRow(r)[2] = New(r.dep)
                /\ LinkRow(r)[3] = New(r.answer) /\ LinkRow(r)[4] = New(r.hides)
  BY DEF ChoiceRow, GroupRow, LinkRow
<1>3. (\A c \in got.choices : New(c) \in choices) /\ \A g \in got.groups : New(g) \in groups
  <2>1. ASSUME NEW c \in got.choices PROVE New(c) \in choices
    <3>1. ChoiceRow(c) \in t.choices
      BY <1>1
    <3>2. ChoiceRow(c)[1] = New(c)
      BY <1>2
    <3> QED BY <3>1, <3>2
  <2>2. ASSUME NEW g \in got.groups PROVE New(g) \in groups
    <3>1. GroupRow(g) \in t.groups
      BY <1>1
    <3>2. GroupRow(g)[1] = New(g)
      BY <1>2
    <3> QED BY <3>1, <3>2
  <2> QED BY <2>1, <2>2
<1>4. New(Gone) = Gone
  BY DEF New
<1>5. \A x : GroupRef(x) \in got.groups \cup {Gone}
  BY DEF GroupRef
<1>6. \A x : New(GroupRef(x)) \in groups \cup {Gone}
  BY <1>3, <1>4, <1>5
<1>7. ASSUME NEW c \in t.choices PROVE c[2] \in t.items /\ c[3] \in groups \cup {Gone}
  <2>1. PICK x \in got.choices : c = ChoiceRow(x)
    BY <1>1
  <2>2. got.of[x] \in got.items
    BY DEF GotOK
  <2>3. c[2] = New(got.of[x]) /\ c[3] = New(GroupRef(got.in[x]))
    BY <1>2, <2>1
  <2>4. c[2] \in t.items
    BY <1>1, <2>2, <2>3
  <2>5. c[3] \in groups \cup {Gone}
    BY <1>6, <2>3
  <2> QED BY <2>4, <2>5
<1>8. ASSUME NEW r \in t.links
      PROVE  r[1] \in t.items /\ r[2] \in t.items /\ {r[3], r[4]} \subseteq choices \cup {Gone}
  <2>1. PICK x \in KeptLinks : r = LinkRow(x)
    BY <1>1
  <2>2. /\ x.target \in got.items /\ x.dep \in got.items
        /\ x.answer \in got.choices \cup {Gone} /\ x.hides \in got.choices \cup {Gone}
    BY DEF KeptLinks, KeptLink, GotOK
  <2>3. New(x.answer) \in choices \cup {Gone} /\ New(x.hides) \in choices \cup {Gone}
    BY <1>3, <1>4, <2>2
  <2>4. r[1] = New(x.target) /\ r[2] = New(x.dep) /\ r[3] = New(x.answer) /\ r[4] = New(x.hides)
    BY <1>2, <2>1
  <2>5. r[1] \in t.items /\ r[2] \in t.items
    BY <1>1, <2>2, <2>4
  <2>6. r[3] \in choices \cup {Gone} /\ r[4] \in choices \cup {Gone}
    BY <2>3, <2>4
  <2> QED BY <2>5, <2>6
<1>9. ASSUME NEW g \in t.groups PROVE g[2] \in groups \cup {Gone}
  <2>1. PICK x \in got.groups : g = GroupRow(x)
    BY <1>1
  <2>2. g[2] = New(GroupRef(got.up[x]))
    BY <1>2, <2>1
  <2> QED BY <1>6, <2>2
<1>10. ASSUME NEW S \in (SUBSET t.groups) \ {{}} PROVE \E g \in S : g[2] \notin {h[1] : h \in S}
  <2> DEFINE P == {g \in got.groups : GroupRow(g) \in S}
  <2>1. \A g \in S : \E x \in P : g = GroupRow(x)
    BY <1>1
  <2>2. P \in (SUBSET got.groups) \ {{}}
    BY <2>1
  <2>3. PICK x \in P : GroupRef(got.up[x]) \notin P
    BY <2>2 DEF Forest
  <2>4. GroupRow(x) \in S /\ got.groups \subseteq Groups
    BY <2>3 DEF GotOK
  <2>5. ASSUME NEW h \in S, GroupRow(x)[2] = h[1] PROVE FALSE
    <3>1. PICK k \in P : h = GroupRow(k)
      BY <2>1
    <3>2. New(GroupRef(got.up[x])) = New(k)
      BY <1>2, <2>5, <3>1
    <3>3. k \in Groups /\ GroupRef(got.up[x]) \in Groups \cup {Gone}
      BY <1>5, <2>4, <3>1
    <3>4. GroupRef(got.up[x]) = k
      BY <3>2, <3>3, NewGroup
    <3> QED BY <2>3, <3>1, <3>4
  <2> QED BY <2>4, <2>5
<1> QED BY <1>7, <1>8, <1>9, <1>10 DEF Alone, t

\* What was read while nothing was edited is the test.
LEMMA CopyFaithful ==
  ASSUME RowsOK, GotOK, GotFresh, stage = "commit"
  PROVE  Faithful(CopiedRows)
<1>1. /\ CopiedRows.items = {New(q) : q \in got.items}
      /\ CopiedRows.choices = {ChoiceRow(c) : c \in got.choices}
      /\ CopiedRows.groups = {GroupRow(g) : g \in got.groups}
      /\ CopiedRows.links = {LinkRow(r) : r \in KeptLinks}
  BY CopyFields
<1>2. /\ got.items = OwnItems /\ got.choices = OwnChoices
      /\ \A c \in OwnChoices : got.of[c] = choiceOf[c] /\ got.in[c] = groupOf[c]
      /\ \A g \in got.groups : got.up[g] = parentOf[g]
      /\ Closed(got.groups) /\ got.links = {r \in links : r.target \in OwnItems}
  BY DEF GotFresh
<1>3. got.groups = Ancestry
  <2>1. got.groups \in SUBSET Groups
    BY DEF GotOK
  <2>2. \A T \in SUBSET Groups : Closed(T) => got.groups \subseteq T
    BY DEF GotFresh
  <2> QED BY <1>2, <2>1, <2>2, OldestAncestry
<1>4. \A c \in OwnChoices : ChoiceRow(c) = <<New(c), New(choiceOf[c]), New(groupOf[c])>>
  BY <1>2 DEF ChoiceRow, Closed, GroupRef
<1>5. \A g \in got.groups : GroupRow(g) = <<New(g), New(parentOf[g])>>
  BY <1>2 DEF GroupRow, Closed, GroupRef
<1>6. KeptLinks = OwnLinks
  BY <1>2 DEF KeptLinks, KeptLink, OwnLinks
<1>7. CopiedRows.choices = {<<New(c), New(choiceOf[c]), New(groupOf[c])>> : c \in OwnChoices}
  BY <1>1, <1>2, <1>4
<1>8. CopiedRows.groups = {<<New(g), New(parentOf[g])>> : g \in Ancestry}
  BY <1>1, <1>3, <1>5
<1>9. CopiedRows.links = {<<New(r.target), New(r.dep), New(r.answer), New(r.hides)>> : r \in OwnLinks}
  BY <1>1, <1>6 DEF LinkRow
<1> QED BY <1>1, <1>2, <1>7, <1>8, <1>9 DEF Faithful

LEMMA CommitStep == ASSUME TransferInv, Commit PROVE TransferInv'
<1>1. /\ stage = "commit" /\ stage' = "idle" /\ got' = Nothing /\ UNCHANGED <<testRows, fresh>>
      /\ copies' = copies \/ copies' = {CopiedRows}
  BY DEF Commit
<1>2. RowsOK /\ GotOK /\ copies = {}
  BY <1>1 DEF TransferInv, GotOK
<1>3. /\ UNCHANGED <<home, choiceOf, groupOf, groupHome, parentOf, links>>
      /\ UNCHANGED <<OwnItems, OwnChoices, OwnLinks, Ancestry>> /\ RowsOK'
  BY <1>1, SameTest DEF TransferInv
<1>4. /\ got'.choices = {} /\ got'.groups = {} /\ got'.links = {} /\ DOMAIN got' = GotFields
      /\ got'.up \in [Groups -> Groups \cup {Gone}]
  BY <1>1 DEF Nothing, GotFields
<1>5. GotOK' /\ GotFresh'
  BY <1>1, <1>4 DEF GotOK, GotFresh
<1>6. ASSUME NEW t \in copies' PROVE Alone(t)' /\ (fresh' => Faithful(t)')
  <2>1. t = CopiedRows
    BY <1>1, <1>2, <1>6
  <2>2. Alone(t)
    BY <1>1, <1>2, <2>1, CopyAlone DEF GotOK
  <2>3. fresh => Faithful(t)
    BY <1>1, <1>2, <2>1, CopyFaithful DEF TransferInv
  <2>4. Faithful(t) => Faithful(t)'
    BY <1>3 DEF Faithful
  <2> QED BY <1>1, <2>2, <2>3, <2>4 DEF Alone
<1> QED BY <1>3, <1>5, <1>6 DEF TransferInv

LEMMA TransferStep == TransferInv /\ [TransferNext]_transferVars => TransferInv'
<1> SUFFICES ASSUME TransferInv, [TransferNext]_transferVars PROVE TransferInv'
  OBVIOUS
<1>1. CASE UNCHANGED transferVars
  <2>1. UNCHANGED <<testRows, stage, got, copies, fresh>>
    BY <1>1 DEF transferVars
  <2>2. /\ UNCHANGED <<home, choiceOf, groupOf, groupHome, parentOf, links>>
        /\ UNCHANGED <<OwnItems, OwnChoices, OwnLinks, Ancestry>> /\ RowsOK'
        /\ \A T : Closed(T)' <=> Closed(T)
    BY <2>1, SameTest DEF TransferInv
  <2>3. GotOK'
    BY <2>1 DEF TransferInv, GotOK, Forest, GroupRef
  <2>4. GotFresh => GotFresh'
    BY <2>1, <2>2 DEF GotFresh, Closed
  <2>5. \A t : (Alone(t) => Alone(t)') /\ (Faithful(t) => Faithful(t)')
    BY <2>2 DEF Alone, Faithful
  <2> QED BY <2>1, <2>2, <2>3, <2>4, <2>5 DEF TransferInv
<1>2. CASE \/ \E q \in Items : MoveItem(q) \/ DeleteItem(q)
           \/ \E c \in Choices : DeleteChoice(c) \/ \E g \in Groups : Regroup(c, g)
           \/ \E g \in Groups : DeleteGroup(g) \/ \E h \in Groups : SetParent(g, h)
           \/ \E r \in Links : AddLink(r)
  BY <1>2, EditStep
<1>3. CASE ReadItems \/ ReadChoices \/ ReadGroups \/ ReadParents \/ ReadLinks
  BY <1>3, ReadItemsStep, ReadChoicesStep, ReadGroupsStep, ReadParentsStep, ReadLinksStep
<1>4. CASE Check \/ Commit
  BY <1>4, CheckStep, CommitStep
<1> QED BY <1>1, <1>2, <1>3, <1>4 DEF TransferNext

\* A copy refers to rows of its own only and its groups are a forest, whatever
\* is edited while the test is read; it is the whole test when nothing is.
THEOREM CopiesStandAlone == TransferSpec => []CopyStandsAlone
<1>1. TransferInv => CopyStandsAlone
  BY DEF TransferInv, Alone, CopyStandsAlone
<1> QED BY TransferInitInv, TransferStep, <1>1, PTL DEF TransferSpec
=============================================================================
