-------------------------- MODULE PatternStoreProofs --------------------------
(***************************************************************************)
(* Theorems about PatternStore, for every file of default patterns and any *)
(* number of clients, requests, starts and resets.                         *)
(***************************************************************************)
EXTENDS PatternStore, SequenceTheorems, FiniteSetTheorems, TLAPS

\* An id that was not given yet has no row.
RowInv == \A p \in Ids : p >= nextId => rows[p] = None

\* What a client and its handler carry: a pattern with a name, whose components
\* were read; the row to delete, and the composites of it but for those written
\* since.  Rows that are still to come are none of them.
ClientInv(h) ==
    /\ at[h] \in {"reviewing", "putting"} =>
          /\ req[h].name \in Names
          /\ req[h].comps \subseteq LiveNames \union moved[h]
    /\ at[h] = "drafting" => known[h] \subseteq LiveNames \union moved[h]
    /\ at[h] \in {"deleting", "doomed"} => req[h].id \in Ids /\ req[h].id < nextId
    /\ at[h] = "doomed" =>
          /\ \A p \in req[h].doomed : p < nextId
          /\ \A p \in Live \ fresh[h] : p \in req[h].doomed <=> req[h].id \in rows[p].comps

IInv == TypeOK /\ RowInv /\ \A h \in Handlers : ClientInv(h)

------------------------------------------------------------------------------
Earlier(i) == {k \in DOMAIN File : Before(k, i)}

LEMMA FileType ==
    /\ Len(File) \in Nat /\ DOMAIN File = 1 .. Len(File)
    /\ \A i \in DOMAIN File : File[i].name \in Names /\ File[i].comps \subseteq Names
<1> DEFINE S == [name : Names, comps : SUBSET Names]
<1>1. File \in Seq(S)
  BY FileAssumption
<1> HIDE DEF S
<1>2. Len(File) \in Nat /\ DOMAIN File = 1 .. Len(File) /\ \A i \in 1 .. Len(File) : File[i] \in S
  BY <1>1, ElementOfSeq
<1>3. QED
  BY <1>2 DEF S

LEMMA EarlierFinite ==
    ASSUME NEW i \in DOMAIN File
    PROVE  /\ IsFiniteSet(Earlier(i))
           /\ Cardinality(Earlier(i)) \in Nat
           /\ Cardinality(Earlier(i)) < Len(File)
<1>1. IsFiniteSet(DOMAIN File) /\ Cardinality(DOMAIN File) = Len(File)
  <2>1. IsFiniteSet(1 .. Len(File)) /\ Cardinality(1 .. Len(File)) = Len(File)
    <3>1. IsFiniteSet(1 .. Len(File))
          /\ Cardinality(1 .. Len(File)) = IF 1 > Len(File) THEN 0 ELSE Len(File) - 1 + 1
      <4>1. 1 \in Int /\ Len(File) \in Int
        BY FileType
      <4>2. QED
        BY <4>1, FS_Interval, Zenon
    <3>2. QED
      BY <3>1, FileType
  <2>2. QED
    BY <2>1, FileType
<1>2. Earlier(i) \subseteq DOMAIN File
  BY DEF Earlier
<1>3. i \notin Earlier(i)
  BY FileType DEF Earlier, Before
<1>4. /\ IsFiniteSet(Earlier(i)) /\ Cardinality(Earlier(i)) <= Len(File)
      /\ Cardinality(Earlier(i)) # Len(File)
  BY <1>1, <1>2, <1>3, FS_Subset
<1>5. QED
  BY <1>4, FS_CardinalityType, FileType

\* Two patterns of the file are not given one id.
LEMMA PlaceIsOwn ==
    ASSUME NEW i \in DOMAIN File, NEW k \in DOMAIN File,
           Cardinality(Earlier(i)) = Cardinality(Earlier(k))
    PROVE  i = k
<1> SUFFICES ASSUME i # k PROVE FALSE
  OBVIOUS
<1>1. ASSUME NEW x \in DOMAIN File, NEW y \in DOMAIN File, Before(x, y),
             Cardinality(Earlier(x)) = Cardinality(Earlier(y))
      PROVE  FALSE
  <2>1. Earlier(x) \subseteq Earlier(y)
    BY <1>1, FileType DEF Earlier, Before
  <2>2. x \in Earlier(y) /\ x \notin Earlier(x)
    BY <1>1, FileType DEF Earlier, Before
  <2>3. QED
    BY <1>1, <2>1, <2>2, EarlierFinite, FS_Subset
<1>2. Before(i, k) \/ Before(k, i)
  BY FileType DEF Before
<1>3. QED
  BY <1>1, <1>2

\* The ids of the patterns of the file, when there is room for them.
LEMMA IdIsNew ==
    ASSUME NEW i \in DOMAIN File, nextId \in Nat
    PROVE  IdOf(i) \in Nat /\ nextId <= IdOf(i) /\ IdOf(i) < nextId + Len(File)
<1>1. IdOf(i) = nextId + Cardinality(Earlier(i))
  BY DEF IdOf, Earlier
<1>2. QED
  BY <1>1, EarlierFinite, FileType

LEMMA IdIsOwn ==
    ASSUME NEW i \in DOMAIN File, NEW k \in DOMAIN File, nextId \in Nat, IdOf(i) = IdOf(k)
    PROVE  i = k
<1>1. IdOf(i) = nextId + Cardinality(Earlier(i)) /\ IdOf(k) = nextId + Cardinality(Earlier(k))
  BY DEF IdOf, Earlier
<1>2. Cardinality(Earlier(i)) \in Nat /\ Cardinality(Earlier(k)) \in Nat
  BY EarlierFinite
<1>3. Cardinality(Earlier(i)) = Cardinality(Earlier(k))
  <2>1. \A a, b, n \in Nat : n + a = n + b => a = b
    OBVIOUS
  <2>2. nextId + Cardinality(Earlier(i)) = nextId + Cardinality(Earlier(k))
    BY <1>1, Zenon
  <2>3. QED
    BY <1>2, <2>1, <2>2, Zenon
<1>4. QED
  BY <1>3, PlaceIsOwn

FileNames == {File[i].name : i \in DOMAIN File}

\* What inserting the file does to the rows: those that were there stay, new ones
\* refer to new ones, and the names of the file come on top.
LEMMA Inserted ==
    ASSUME TypeOK, RowInv, nextId + Len(File) - 1 <= MaxPatterns, InsertFile
    PROVE  /\ rows' \in [Ids -> Rows] /\ nextId' \in 1 .. MaxPatterns + 1 /\ nextId <= nextId'
           /\ RowInv'
           /\ \A p \in Ids : p < nextId => rows'[p] = rows[p]
           /\ \A p \in Ids : p >= nextId /\ rows'[p] # None =>
                 \A q \in rows'[p].comps : q >= nextId
           /\ Insertable => LiveNames' = LiveNames \union FileNames
           /\ ~Insertable => LiveNames' = LiveNames
<1>1. CASE ~Insertable
  <2>1. UNCHANGED <<rows, nextId>>
    BY <1>1 DEF InsertFile, store
  <2>2. QED
    BY <1>1, <2>1, BoundAssumption
       DEF TypeOK, RowInv, Rows, LiveNames, NamesOf, Ids
<1>2. CASE Insertable
  <2>1. rows' = FileRows /\ nextId' = nextId + Len(File)
    BY <1>2 DEF InsertFile
  <2>2. nextId \in Nat /\ nextId >= 1 /\ MaxPatterns \in Nat /\ Len(File) \in Nat
    BY BoundAssumption, FileType DEF TypeOK
  <2>3. nextId' \in 1 .. MaxPatterns + 1 /\ nextId <= nextId'
    BY <2>1, <2>2
  <2>4. ASSUME NEW i \in DOMAIN File
        PROVE  /\ IdOf(i) \in Ids /\ nextId <= IdOf(i) /\ IdOf(i) < nextId'
               /\ rows'[IdOf(i)] = FileRow(i)
    <3>1. IdOf(i) \in Nat /\ nextId <= IdOf(i) /\ IdOf(i) < nextId + Len(File)
      BY <2>2, IdIsNew
    <3>2. IdOf(i) \in Ids
      BY <2>2, <3>1 DEF Ids
    <3>3. (CHOOSE k \in DOMAIN File : IdOf(k) = IdOf(i)) = i
      <4>1. \A k \in DOMAIN File : IdOf(k) = IdOf(i) => k = i
        BY <2>2, IdIsOwn
      <4>2. QED
        BY <4>1
    <3>4. QED
      BY <2>1, <3>1, <3>2, <3>3 DEF FileRows
  <2>5. ASSUME NEW p \in Ids, \A i \in DOMAIN File : IdOf(i) # p
        PROVE  rows'[p] = rows[p]
    BY <2>1, <2>5 DEF FileRows
  <2>6. ASSUME NEW i \in DOMAIN File
        PROVE  /\ FileRow(i) \in [name : Names, comps : SUBSET Ids]
               /\ FileRow(i).name = File[i].name
               /\ \A q \in FileRow(i).comps : q >= nextId
    BY <2>4, FileType DEF FileRow
  <2>7. rows' \in [Ids -> Rows]
    <3>1. \A p \in Ids : rows'[p] \in Rows
      BY <2>4, <2>5, <2>6 DEF TypeOK, Rows
    <3>2. QED
      BY <2>1, <3>1 DEF FileRows
  <2>8. RowInv'
    <3> SUFFICES ASSUME NEW p \in Ids, p >= nextId' PROVE rows'[p] = None
      BY DEF RowInv, Ids
    <3>1. \A i \in DOMAIN File : IdOf(i) # p
      BY <2>2, <2>3, <2>4 DEF Ids
    <3>2. QED
      BY <2>2, <2>3, <2>5, <3>1 DEF RowInv, Ids
  <2>9. \A p \in Ids : p < nextId => rows'[p] = rows[p]
    BY <2>2, <2>4, <2>5 DEF Ids
  <2>10. \A p \in Ids : p >= nextId /\ rows'[p] # None => \A q \in rows'[p].comps : q >= nextId
    BY <2>4, <2>5, <2>6 DEF RowInv
  <2>11. LiveNames' = LiveNames \union FileNames
    <3>1. ASSUME NEW n \in LiveNames PROVE n \in LiveNames'
      <4>1. PICK p \in Ids : rows[p] # None /\ n = rows[p].name
        BY DEF LiveNames, NamesOf
      <4>2. p < nextId
        BY <2>2, <4>1 DEF RowInv, Ids
      <4>3. QED
        BY <2>9, <4>1, <4>2 DEF LiveNames, NamesOf
    <3>2. ASSUME NEW n \in FileNames PROVE n \in LiveNames'
      <4>1. PICK i \in DOMAIN File : n = File[i].name
        BY DEF FileNames
      <4>2. rows'[IdOf(i)] # None /\ rows'[IdOf(i)].name = n /\ IdOf(i) \in Ids
        BY <2>4, <2>6, <4>1, NoneAssumption DEF Ids
      <4>3. QED
        BY <4>2 DEF LiveNames, NamesOf
    <3>3. ASSUME NEW n \in LiveNames' PROVE n \in LiveNames \union FileNames
      <4>1. PICK p \in Ids : rows'[p] # None /\ n = rows'[p].name
        BY DEF LiveNames, NamesOf
      <4>2. CASE \E i \in DOMAIN File : IdOf(i) = p
        BY <2>4, <2>6, <4>1, <4>2 DEF FileNames
      <4>3. CASE \A i \in DOMAIN File : IdOf(i) # p
        BY <2>5, <4>1, <4>3 DEF LiveNames, NamesOf
      <4>4. QED
        BY <4>2, <4>3
    <3>4. QED
      BY <3>1, <3>2, <3>3
  <2>12. QED
    BY <1>2, <2>3, <2>7, <2>8, <2>9, <2>10, <2>11
<1>3. QED
  BY <1>1, <1>2

------------------------------------------------------------------------------
LEMMA NothingAsked == NoRequest \in Requests
BY DEF NoRequest, MaxRetries, Requests

LEMMA InvInit == Init => IInv
<1> SUFFICES ASSUME Init PROVE IInv
  OBVIOUS
<1>1. TypeOK
  <2>1. NoRequest \in Requests
    BY NothingAsked
  <2>2. QED
    <3>1. /\ rows \in [Ids -> Rows] /\ at \in [Handlers -> Places]
          /\ req \in [Handlers -> Requests]
      BY <2>1 DEF Init, Rows, Places
    <3>2. /\ nextId \in 1 .. MaxPatterns + 1
          /\ starts \in 0 .. MaxStarts /\ sent \in 0 .. MaxRequests
      BY BoundAssumption DEF Init
    <3>3. QED
      BY <3>1, <3>2 DEF Init, TypeOK
<1>2. RowInv
  BY DEF Init, RowInv
<1>3. \A h \in Handlers : ClientInv(h)
  BY DEF Init, ClientInv
<1>4. QED
  BY <1>1, <1>2, <1>3 DEF IInv

\* A client that a step leaves alone: what it carries stays right, whether the
\* histories note what becomes of the rows or no row changes.
LEMMA OtherClient ==
    ASSUME TypeOK, RowInv, NEW h \in Handlers, ClientInv(h),
           rows' \in [Ids -> Rows], nextId' \in Nat, nextId <= nextId',
           at'[h] = at[h], req'[h] = req[h],
           at[h] = "drafting" => known'[h] = known[h],
           \/ Note(rows')
           \/ rows' = rows /\ moved'[h] = moved[h] /\ fresh'[h] = fresh[h]
    PROVE  ClientInv(h)'
<1>1. CASE rows' = rows /\ moved'[h] = moved[h] /\ fresh'[h] = fresh[h]
  BY <1>1 DEF ClientInv, LiveNames, Live, TypeOK, Ids, Requests, Places, Working
<1>2. CASE Note(rows')
  <2>1. at[h] \in {"drafting", "reviewing", "putting"} =>
           LiveNames \union moved[h] \subseteq LiveNames' \union moved'[h]
    BY <1>2 DEF Note, LiveNames
  <2>2. at[h] = "doomed" => \A p \in Live' \ fresh'[h] : p \in Live \ fresh[h] /\ rows'[p] = rows[p]
    BY <1>2 DEF Note, Live
  <2>3. nextId \in Nat
    BY DEF TypeOK
  <2>4. QED
    BY <2>1, <2>2, <2>3 DEF ClientInv, TypeOK, Ids, Requests, Places, Working
<1>3. QED
  BY <1>1, <1>2

\* The client of a handler that is done, or has not begun, carries nothing.
LEMMA IdleClient == ASSUME NEW h \in Handlers, at'[h] = "idle" PROVE ClientInv(h)'
BY DEF ClientInv

\* Names that can be read are names.
LEMMA NamesLive ==
    ASSUME NEW t \in [Ids -> Rows] PROVE NamesOf(t) \subseteq Names
BY NoneAssumption DEF NamesOf, Rows

\* The type is kept, action by action.
LEMMA TypeStep == TypeOK /\ RowInv /\ (\A h \in Handlers : ClientInv(h)) /\ Next => TypeOK'
<1> SUFFICES ASSUME TypeOK, RowInv, \A h \in Handlers : ClientInv(h), Next PROVE TypeOK'
  OBVIOUS
<1> USE BoundAssumption DEF TypeOK, store, client, history, bounded
<1>t. /\ rows \in [Ids -> Rows] /\ at \in [Handlers -> Places] /\ req \in [Handlers -> Requests]
      /\ nextId \in 1 .. MaxPatterns + 1 /\ known \in [Handlers -> SUBSET Names]
      /\ starts \in 0 .. MaxStarts /\ sent \in 0 .. MaxRequests
  BY DEF TypeOK
<1>w. Places = {"idle", "reviewing", "drafting", "putting", "deleting", "doomed"}
  BY DEF Places, Working
<1>a. ASSUME NEW h \in Handlers, NEW n \in Names, NEW c \in SUBSET Names
      PROVE  [req EXCEPT ![h].name = n, ![h].comps = c] \in [Handlers -> Requests]
  BY <1>t DEF Requests
<1>b. ASSUME NEW h \in Handlers, NEW p \in Ids
      PROVE  [req EXCEPT ![h].id = p] \in [Handlers -> Requests]
  BY <1>t DEF Requests
<1>d. ASSUME NEW h \in Handlers, NEW d \in SUBSET Ids
      PROVE  [req EXCEPT ![h].doomed = d] \in [Handlers -> Requests]
  BY <1>t DEF Requests
<1>n. LiveNames \subseteq Names /\ \A t \in [Ids -> Rows] : NamesOf(t) \subseteq Names
  BY NamesLive DEF LiveNames
<1>m. ASSUME NEW t \in [Ids -> Rows], Note(t)
      PROVE  moved' \in [Handlers -> SUBSET Names] /\ fresh' \in [Handlers -> SUBSET Ids]
  BY <1>n, <1>m DEF Note
<1>f. ASSUME NEW h \in Handlers, Finish(h)
      PROVE  /\ at' \in [Handlers -> Places]
             /\ req' \in [Handlers -> Requests]
  <2>1. NoRequest \in Requests
    BY NothingAsked
  <2>2. QED
    BY <1>f, <1>w, <2>1 DEF Finish
<1>1. CASE Start
  <2>1. starts' \in 0 .. MaxStarts
    BY <1>1, <1>t DEF Start
  <2>2. server' \in {"down", "seeding", "up"}
    BY <1>1 DEF Start
  <2>3. QED
    BY <1>1, <2>1, <2>2 DEF Start
<1>2. CASE Seed \/ ResetInsert
  <2>1. InsertFile /\ nextId + Len(File) - 1 <= MaxPatterns
    BY <1>2 DEF Seed, ResetInsert
  <2>2. rows' \in [Ids -> Rows] /\ nextId' \in 1 .. MaxPatterns + 1
    BY <2>1, Inserted
  <2>3. QED
    BY <1>2, <2>2 DEF Seed, ResetInsert
<1>3. CASE Stop
  <2>1. NoRequest \in Requests
    BY NothingAsked
  <2>2. moved' \in [Handlers -> SUBSET Names] /\ fresh' \in [Handlers -> SUBSET Ids]
    BY <1>3, <1>m DEF Stop
  <2>3. QED
    BY <1>3, <1>w, <2>1, <2>2 DEF Stop, Working
<1>4. CASE ResetDelete
  <2>1. rows' \in [Ids -> Rows] /\ Note(rows')
    BY <1>4 DEF ResetDelete, Rows
  <2>2. QED
    BY <1>4, <1>m, <2>1 DEF ResetDelete
<1>5. CASE ResetKilled
  BY <1>5 DEF ResetKilled
<1>6. ASSUME NEW h \in Handlers, NEW n \in Names, NEW c \in SUBSET Names, Compose(h, n, c)
      PROVE  TypeOK'
  <2>1. [req EXCEPT ![h].name = n, ![h].comps = c] \in [Handlers -> Requests]
    BY <1>a
  <2>2. at' \in [Handlers -> Places]
    BY <1>6, <1>w DEF Compose
  <2>3. sent' \in 0 .. MaxRequests
    BY <1>6, <1>t DEF Compose, Request
  <2>4. moved' \in [Handlers -> SUBSET Names]
    BY <1>6 DEF Compose
  <2>5. QED
    BY <1>6, <2>1, <2>2, <2>3, <2>4 DEF Compose
<1>7. ASSUME NEW h \in Handlers, NEW n \in Names, NEW c \in SUBSET Names, Draft(h, n, c)
      PROVE  TypeOK'
  <2>1. moved' \in [Handlers -> SUBSET Names] /\ fresh' \in [Handlers -> SUBSET Ids]
    BY <1>7, <1>m DEF Draft
  <2>2. known' \in [Handlers -> SUBSET Names]
    BY <1>7 DEF Draft
  <2>3. /\ at' \in [Handlers -> Places]
        /\ req' \in [Handlers -> Requests]
    <3>1. CASE Finish(h)
      BY <1>f, <3>1
    <3>2. CASE Accepts(h, c) /\ ~Finish(h)
      <4>1. /\ at'  = [at EXCEPT ![h] = "reviewing"]
            /\ req' = [req EXCEPT ![h].name = n, ![h].comps = c, ![h].tries = 0]
        BY <1>7, <3>2 DEF Draft
      <4>2. req' \in [Handlers -> Requests]
        <5>1. 0 \in 0 .. MaxRetries /\ req[h] \in Requests
          BY <1>t DEF MaxRetries
        <5>2. [req[h] EXCEPT !.name = n, !.comps = c, !.tries = 0] \in Requests
          BY <1>7, <5>1 DEF Requests
        <5>3. req' = [req EXCEPT ![h] = [req[h] EXCEPT !.name = n, !.comps = c, !.tries = 0]]
          BY <1>t, <4>1
        <5>4. QED
          BY <1>t, <5>2, <5>3
      <4>3. QED
        BY <1>w, <1>t, <4>1, <4>2
    <3>3. CASE ~Accepts(h, c) /\ ~Finish(h)
      <4>1. req[h].tries + 1 < MaxRetries /\ req' = [req EXCEPT ![h].tries = @ + 1] /\ at' = at
        BY <1>7, <3>3 DEF Draft
      <4>2. req' \in [Handlers -> Requests]
        <5>1. req[h] \in Requests /\ req[h].tries \in Nat
          BY <1>t DEF Requests
        <5>2. req[h].tries + 1 \in 0 .. MaxRetries
          BY <4>1, <5>1 DEF MaxRetries
        <5>3. [req[h] EXCEPT !.tries = @ + 1] \in Requests
          BY <5>1, <5>2 DEF Requests
        <5>4. req' = [req EXCEPT ![h] = [req[h] EXCEPT !.tries = @ + 1]]
          BY <1>t, <4>1
        <5>5. QED
          BY <1>t, <5>3, <5>4
      <4>3. QED
        BY <1>t, <4>1, <4>2
    <3>4. QED
      BY <3>1, <3>2, <3>3
  <2>4. QED
    BY <1>7, <2>1, <2>2, <2>3 DEF Draft
<1>8. ASSUME NEW h \in Handlers, FetchContext(h) PROVE TypeOK'
  BY <1>8, <1>n, <1>w DEF FetchContext, Request
<1>9. ASSUME NEW h \in Handlers, Discard(h) PROVE TypeOK'
  BY <1>9, <1>f, <1>m DEF Discard
<1>10. ASSUME NEW h \in Handlers, Create(h) PROVE TypeOK'
  <2>1. rows' \in [Ids -> Rows] /\ nextId' \in 1 .. MaxPatterns + 1 /\ touched' \in BOOLEAN
    <3>1. CASE req[h].name \in LiveNames
      BY <1>10, <3>1 DEF Create, Rows
    <3>2. CASE req[h].name \notin LiveNames
      <4>1. [name |-> req[h].name, comps |-> Refs(req[h].comps)] \in Rows
        BY <1>10 DEF Create, ClientInv, Rows, Refs, Live
      <4>2. QED
        BY <1>10, <3>2, <4>1 DEF Create, Rows, Ids
    <3>3. QED
      BY <3>1, <3>2
  <2>2. QED
    BY <1>10, <1>f, <1>m, <2>1 DEF Create, Rows
<1>11. ASSUME NEW h \in Handlers, NEW p \in Ids, CheckPut(h, p) \/ CheckDelete(h, p)
       PROVE  TypeOK'
  <2>1. [req EXCEPT ![h].id = p] \in [Handlers -> Requests]
    BY <1>b
  <2>2. at' \in [Handlers -> Places]
    BY <1>11, <1>w DEF CheckPut, CheckDelete
  <2>3. sent' \in 0 .. MaxRequests
    BY <1>11, <1>t DEF CheckPut, CheckDelete, Request
  <2>4. QED
    BY <1>11, <2>1, <2>2, <2>3 DEF CheckPut, CheckDelete
<1>12. ASSUME NEW h \in Handlers, Update(h) PROVE TypeOK'
  <2>1. rows' \in [Ids -> Rows] /\ touched' \in BOOLEAN
    <3>1. CASE UNCHANGED <<rows, touched>>
      BY <3>1 DEF Rows
    <3>2. CASE ~UNCHANGED <<rows, touched>>
      <4> DEFINE p   == req[h].id
                 row == [name |-> req[h].name, comps |->
                           {q \in Live : (IF q = p THEN req[h].name ELSE rows[q].name)
                                         \in req[h].comps}]
      <4>1. rows' = [rows EXCEPT ![p] = row] /\ touched' = TRUE
        BY <1>12, <3>2 DEF Update
      <4>2. row \in Rows
        BY <1>12 DEF Update, ClientInv, Rows, Live
      <4> HIDE DEF row
      <4>3. QED
        BY <4>1, <4>2 DEF Rows
    <3>3. QED
      BY <3>1, <3>2
  <2>2. QED
    BY <1>12, <1>f, <1>m, <2>1 DEF Update, Rows
<1>13. ASSUME NEW h \in Handlers, ReadComposites(h) PROVE TypeOK'
  <2>1. CompositesOf(req[h].id) \in SUBSET Ids
    BY DEF CompositesOf, Live
  <2>2. QED
    <3>1. [req EXCEPT ![h].doomed = CompositesOf(req[h].id)] \in [Handlers -> Requests]
      BY <1>d, <2>1
    <3>2. at' \in [Handlers -> Places]
      BY <1>13, <1>w DEF ReadComposites
    <3>3. QED
      BY <1>13, <3>1, <3>2 DEF ReadComposites
<1>14. ASSUME NEW h \in Handlers, Delete(h) PROVE TypeOK'
  <2>1. rows' \in [Ids -> Rows] /\ touched' \in BOOLEAN
    <3>1. CASE UNCHANGED <<rows, touched>>
      BY <3>1
    <3>2. CASE ~UNCHANGED <<rows, touched>>
      <4>1. \A p \in Ids : rows[p] # None => [rows[p] EXCEPT !.comps = @ \ Unreferenced(h)] \in Rows
        BY DEF Rows
      <4>2. QED
        <5>1. rows' = [p \in Ids |->
                 IF p \in req[h].doomed \union {req[h].id} \/ rows[p] = None THEN None
                 ELSE [rows[p] EXCEPT !.comps = @ \ Unreferenced(h)]]
          BY <1>14, <3>2 DEF Delete
        <5>2. \A p \in Ids : rows'[p] \in Rows
          BY <4>1, <5>1 DEF Rows
        <5>3. touched' \in BOOLEAN
          BY <1>14 DEF Delete
        <5>4. QED
          BY <5>1, <5>2, <5>3
    <3>3. QED
      BY <3>1, <3>2
  <2>2. QED
    BY <1>14, <1>f, <1>m, <2>1 DEF Delete
<1>15. QED
  BY <1>1, <1>2, <1>3, <1>4, <1>5, <1>6, <1>7, <1>8, <1>9, <1>10, <1>11, <1>12, <1>13, <1>14
     DEF Next

\* Ids grow, and a row that is not there yet appears at the next one.
LEMMA RowStep == TypeOK /\ RowInv /\ Next => RowInv' /\ nextId <= nextId'
<1> SUFFICES ASSUME TypeOK, RowInv, Next PROVE RowInv' /\ nextId <= nextId'
  OBVIOUS
<1>t. nextId \in Nat /\ rows \in [Ids -> Rows]
  BY DEF TypeOK
<1>1. CASE UNCHANGED store
  BY <1>1, <1>t DEF store, RowInv, Ids
<1>2. CASE Seed \/ ResetInsert
  <2>1. InsertFile /\ nextId + Len(File) - 1 <= MaxPatterns
    BY <1>2 DEF Seed, ResetInsert
  <2>2. QED
    BY <2>1, Inserted
<1>3. CASE ResetDelete
  BY <1>3, <1>t DEF ResetDelete, RowInv
<1>4. ASSUME NEW h \in Handlers, Create(h) PROVE RowInv' /\ nextId <= nextId'
  <2>1. CASE UNCHANGED <<rows, nextId>>
    BY <2>1, <1>t DEF RowInv, Ids
  <2>2. CASE ~UNCHANGED <<rows, nextId>>
    <3>1. PICK row : rows' = [rows EXCEPT ![nextId] = row] /\ nextId' = nextId + 1
      BY <1>4, <2>2 DEF Create, store
    <3>2. \A p \in Ids : p >= nextId + 1 => rows'[p] = rows[p] /\ p >= nextId
      BY <1>t, <3>1 DEF Ids
    <3>3. QED
      BY <1>t, <3>1, <3>2 DEF RowInv
  <2>3. QED
    BY <2>1, <2>2
<1>5. ASSUME NEW h \in Handlers, Update(h) PROVE RowInv' /\ nextId <= nextId'
  <2>1. nextId' = nextId
    BY <1>5 DEF Update
  <2>2. \A p \in Ids : rows[p] = None => rows'[p] = None
    BY <1>5, <1>t DEF Update, Live
  <2>3. QED
    BY <1>t, <2>1, <2>2 DEF RowInv
<1>6. ASSUME NEW h \in Handlers, Delete(h) PROVE RowInv' /\ nextId <= nextId'
  <2>1. nextId' = nextId
    BY <1>6 DEF Delete
  <2>2. \A p \in Ids : rows[p] = None => rows'[p] = None
    BY <1>6, <1>t DEF Delete
  <2>3. QED
    BY <1>t, <2>1, <2>2 DEF RowInv
<1>7. QED
  BY <1>1, <1>2, <1>3, <1>4, <1>5, <1>6
     DEF Next, Start, Stop, ResetKilled, Compose, Draft, FetchContext, Discard, CheckPut,
         CheckDelete, ReadComposites

\* The file brings nothing that a client carries.
LEMMA FileClient ==
    ASSUME TypeOK, RowInv, NEW h \in Handlers, ClientInv(h),
           nextId + Len(File) - 1 <= MaxPatterns, InsertFile, UNCHANGED <<client, history>>
    PROVE  ClientInv(h)'
<1>1. /\ rows' \in [Ids -> Rows] /\ nextId' \in Nat /\ nextId <= nextId'
      /\ \A p \in Ids : p < nextId => rows'[p] = rows[p]
      /\ \A p \in Ids : p >= nextId /\ rows'[p] # None =>
            \A q \in rows'[p].comps : q >= nextId
      /\ LiveNames \subseteq LiveNames'
  BY Inserted, BoundAssumption
<1>2. nextId \in Nat /\ req[h] \in Requests
  BY DEF TypeOK
<1>3. UNCHANGED <<at, req, known, moved, fresh>>
  BY DEF client, history
<1>4. at[h] = "doomed" => \A p \in Live' \ fresh'[h] : p \in req[h].doomed <=> req[h].id \in rows'[p].comps
  <2> SUFFICES ASSUME at[h] = "doomed", NEW p \in Live' \ fresh[h]
               PROVE  p \in req[h].doomed <=> req[h].id \in rows'[p].comps
    BY <1>3
  <2>1. p \in Ids /\ rows'[p] # None /\ req[h].id \in Ids /\ req[h].id < nextId
    BY DEF Live, ClientInv
  <2>2. CASE p < nextId
    BY <1>1, <2>1, <2>2 DEF Live, ClientInv
  <2>3. CASE p >= nextId
    BY <1>1, <1>2, <2>1, <2>3 DEF ClientInv, Ids
  <2>4. QED
    BY <1>2, <2>1, <2>2, <2>3 DEF Ids
<1>5. at[h] = "doomed" => \A p \in req[h].doomed : p < nextId'
  BY <1>1, <1>2 DEF ClientInv, Requests, Ids
<1>6. at[h] \in {"deleting", "doomed"} => req[h].id \in Ids /\ req[h].id < nextId'
  BY <1>1, <1>2 DEF ClientInv, Ids
<1>7. QED
  BY <1>1, <1>3, <1>4, <1>5, <1>6 DEF ClientInv

\* One client or its handler acts, the others are left alone.
LEMMA OneClientActs ==
    ASSUME TypeOK, RowInv, \A g \in Handlers : ClientInv(g), TypeOK', nextId <= nextId',
           NEW h \in Handlers, ClientInv(h)',
           \A g \in Handlers \ {h} : /\ at'[g] = at[g] /\ req'[g] = req[g] /\ known'[g] = known[g]
                                    /\ \/ Note(rows')
                                       \/ /\ rows' = rows
                                          /\ moved'[g] = moved[g] /\ fresh'[g] = fresh[g]
    PROVE  \A g \in Handlers : ClientInv(g)'
<1>1. rows' \in [Ids -> Rows] /\ nextId' \in Nat
  BY DEF TypeOK
<1>2. ASSUME NEW g \in Handlers, g # h PROVE ClientInv(g)'
  BY <1>1, <1>2, OtherClient
<1>3. QED
  BY <1>2

\* The steps that change no row.
LEMMA CarryStep ==
    ASSUME TypeOK, RowInv, \A g \in Handlers : ClientInv(g), TypeOK', nextId <= nextId',
           NEW h \in Handlers,
           \/ \E n \in Names, c \in SUBSET Names : Compose(h, n, c) \/ Draft(h, n, c)
           \/ FetchContext(h)
           \/ \E p \in Ids : CheckPut(h, p) \/ CheckDelete(h, p)
           \/ ReadComposites(h)
    PROVE  \A g \in Handlers : ClientInv(g)'
<1> USE DEF store, client, history, bounded
<1>t. /\ at \in [Handlers -> Places] /\ req \in [Handlers -> Requests]
      /\ known \in [Handlers -> SUBSET Names] /\ moved \in [Handlers -> SUBSET Names]
      /\ fresh \in [Handlers -> SUBSET Ids] /\ rows \in [Ids -> Rows] /\ nextId \in Nat
  BY DEF TypeOK
<1>1. ASSUME NEW n \in Names, NEW c \in SUBSET Names, Compose(h, n, c)
      PROVE  \A g \in Handlers : ClientInv(g)'
  <2>1. ClientInv(h)'
    <3>1. at'[h] = "reviewing" /\ c \subseteq LiveNames /\ LiveNames' = LiveNames
      BY <1>1, <1>t DEF Compose, LiveNames
    <3>2. req[h] \in Requests /\ req'[h] = [req[h] EXCEPT !.name = n, !.comps = c]
      BY <1>1, <1>t DEF Compose
    <3>3. req'[h].name = n /\ req'[h].comps = c
      BY <3>2 DEF Requests
    <3>4. QED
      BY <3>1, <3>3 DEF ClientInv
  <2>2. QED
    BY <1>1, <1>t, <2>1, OneClientActs DEF Compose
<1>2. ASSUME NEW n \in Names, NEW c \in SUBSET Names, Draft(h, n, c)
      PROVE  \A g \in Handlers : ClientInv(g)'
  <2>1. Note(rows') /\ rows' = rows /\ ClientInv(h) /\ at[h] = "drafting"
    BY <1>2 DEF Draft
  <2>2. ClientInv(h)'
    <3>1. CASE at'[h] = "idle"
      BY <3>1, IdleClient
    <3>2. CASE at'[h] = "reviewing"
      <4>1. c \subseteq known[h] /\ req'[h].name = n /\ req'[h].comps = c
        <5>1. /\ Accepts(h, c)
              /\ req' = [req EXCEPT ![h].name = n, ![h].comps = c, ![h].tries = 0]
          BY <1>2, <1>t, <3>2 DEF Draft, Finish
        <5>2. req[h] \in Requests
          BY <1>t
        <5>3. req'[h] = [req[h] EXCEPT !.name = n, !.comps = c, !.tries = 0]
          BY <1>t, <5>1
        <5>4. QED
          BY <5>1, <5>2, <5>3 DEF Accepts, Requests
      <4>2. LiveNames \union moved[h] \subseteq LiveNames' \union moved'[h]
        BY <2>1, <3>2 DEF Note, LiveNames
      <4>3. QED
        BY <2>1, <3>2, <4>1, <4>2 DEF ClientInv
    <3>3. CASE at'[h] = "drafting"
      <4>1. known'[h] = known[h]
        BY <1>2, <1>t, <3>3 DEF Draft
      <4>2. LiveNames \union moved[h] \subseteq LiveNames' \union moved'[h]
        BY <2>1, <3>3 DEF Note, LiveNames
      <4>3. QED
        BY <2>1, <3>3, <4>1, <4>2 DEF ClientInv
    <3>4. QED
      BY <1>2, <1>t, <3>1, <3>2, <3>3 DEF Draft, Finish
  <2>3. QED
    BY <1>2, <1>t, <2>1, <2>2, OneClientActs DEF Draft, Finish
<1>3. ASSUME FetchContext(h) PROVE \A g \in Handlers : ClientInv(g)'
  <2>1. ClientInv(h)'
    BY <1>3, <1>t DEF FetchContext, ClientInv, LiveNames
  <2>2. QED
    BY <1>3, <1>t, <2>1, OneClientActs DEF FetchContext
<1>4. ASSUME NEW p \in Ids, CheckPut(h, p) PROVE \A g \in Handlers : ClientInv(g)'
  <2>1. ClientInv(h)'
    BY <1>4, <1>t DEF CheckPut, ClientInv, LiveNames, Requests
  <2>2. QED
    BY <1>4, <1>t, <2>1, OneClientActs DEF CheckPut
<1>5. ASSUME NEW p \in Ids, CheckDelete(h, p) PROVE \A g \in Handlers : ClientInv(g)'
  <2>1. p < nextId
    BY <1>5, <1>t DEF CheckDelete, RowInv, Live, Ids
  <2>2. ClientInv(h)'
    BY <1>5, <1>t, <2>1 DEF CheckDelete, ClientInv, Requests
  <2>3. QED
    BY <1>5, <1>t, <2>2, OneClientActs DEF CheckDelete
<1>6. ASSUME ReadComposites(h) PROVE \A g \in Handlers : ClientInv(g)'
  <2>1. /\ at'[h] = "doomed" /\ req'[h].doomed = CompositesOf(req[h].id)
        /\ req'[h].id = req[h].id /\ rows' = rows /\ nextId' = nextId
    BY <1>6, <1>t DEF ReadComposites, Requests
  <2>2. req[h].id \in Ids /\ req[h].id < nextId
    BY <1>6 DEF ReadComposites, ClientInv
  <2>3. \A p \in CompositesOf(req[h].id) : p < nextId
    BY <1>t DEF CompositesOf, Live, RowInv, Ids
  <2>4. ClientInv(h)'
    BY <2>1, <2>2, <2>3 DEF ClientInv, CompositesOf, Live
  <2>5. QED
    BY <1>6, <1>t, <2>4, OneClientActs DEF ReadComposites
<1>7. QED
  BY <1>1, <1>2, <1>3, <1>4, <1>5, <1>6

\* The steps that end the work of a client.
LEMMA EndStep ==
    ASSUME TypeOK, RowInv, \A g \in Handlers : ClientInv(g), TypeOK', nextId <= nextId',
           NEW h \in Handlers, Discard(h) \/ Create(h) \/ Update(h) \/ Delete(h)
    PROVE  \A g \in Handlers : ClientInv(g)'
<1>1. Finish(h) /\ Note(rows') /\ known' = known
  BY DEF Discard, Create, Update, Delete, store, history, bounded
<1>2. /\ at'[h] = "idle"
      /\ \A g \in Handlers \ {h} : at'[g] = at[g] /\ req'[g] = req[g]
  BY <1>1 DEF Finish, TypeOK
<1>3. ClientInv(h)'
  BY <1>2, IdleClient
<1>4. QED
  BY <1>1, <1>2, <1>3, OneClientActs

\* What clients carry stays right, whoever acts.
LEMMA ClientStep ==
    TypeOK /\ RowInv /\ (\A h \in Handlers : ClientInv(h)) /\ TypeOK' /\ Next
        => \A h \in Handlers : ClientInv(h)'
<1> SUFFICES ASSUME TypeOK, RowInv, \A h \in Handlers : ClientInv(h), TypeOK', Next
             PROVE  \A h \in Handlers : ClientInv(h)'
  OBVIOUS
<1>t. rows' \in [Ids -> Rows] /\ nextId' \in Nat /\ nextId <= nextId'
  BY RowStep DEF TypeOK
<1>1. CASE Start \/ ResetKilled
  <2>1. UNCHANGED <<store, client, moved, fresh>>
    BY <1>1 DEF Start, ResetKilled
  <2>2. QED
    BY <1>t, <2>1, OtherClient DEF store, client
<1>2. CASE Seed \/ ResetInsert
  <2>1. InsertFile /\ nextId + Len(File) - 1 <= MaxPatterns /\ UNCHANGED <<client, history>>
    BY <1>2 DEF Seed, ResetInsert
  <2>2. QED
    BY <2>1, FileClient
<1>3. CASE Stop
  <2> SUFFICES ASSUME NEW h \in Handlers PROVE ClientInv(h)'
    OBVIOUS
  <2>1. CASE at[h] \in Working
    BY <1>3, <2>1, IdleClient DEF Stop
  <2>2. CASE at[h] \notin Working
    <3>1. at'[h] = at[h] /\ req'[h] = req[h] /\ at[h] # "drafting" /\ Note(rows')
      BY <1>3, <2>2 DEF Stop, Working, store
    <3>2. QED
      BY <1>t, <3>1, OtherClient
  <2>3. QED
    BY <2>1, <2>2
<1>4. CASE ResetDelete
  <2>1. Note(rows') /\ UNCHANGED client
    BY <1>4 DEF ResetDelete
  <2>2. QED
    BY <1>t, <2>1, OtherClient DEF client
<1>5. ASSUME NEW h \in Handlers,
             \/ \E n \in Names, c \in SUBSET Names : Compose(h, n, c) \/ Draft(h, n, c)
             \/ FetchContext(h)
             \/ \E p \in Ids : CheckPut(h, p) \/ CheckDelete(h, p)
             \/ ReadComposites(h)
      PROVE  \A g \in Handlers : ClientInv(g)'
  BY <1>5, <1>t, CarryStep
<1>6. ASSUME NEW h \in Handlers, Discard(h) \/ Create(h) \/ Update(h) \/ Delete(h)
      PROVE  \A g \in Handlers : ClientInv(g)'
  BY <1>6, <1>t, EndStep
<1>7. QED
  BY <1>1, <1>2, <1>3, <1>4, <1>5, <1>6 DEF Next

LEMMA InvStep == IInv /\ [Next]_vars => IInv'
<1> SUFFICES ASSUME IInv, [Next]_vars PROVE IInv'
  OBVIOUS
<1>1. CASE Next
  BY <1>1, TypeStep, RowStep, ClientStep DEF IInv
<1>2. CASE UNCHANGED vars
  BY <1>2 DEF vars, store, client, bounded, history, IInv, TypeOK, RowInv, ClientInv, LiveNames,
              Live
<1>3. QED
  BY <1>1, <1>2

------------------------------------------------------------------------------
\* Rows, requests and histories fit together, whatever clients, starts and resets do.
THEOREM InvariantHolds == Spec => []IInv
BY InvInit, InvStep, PTL DEF Spec

\* Rows refer to rows, requests to patterns with names.
THEOREM TypeCorrect == Spec => []TypeOK
<1>1. IInv => TypeOK
  BY DEF IInv
<1>2. QED
  BY <1>1, InvariantHolds, PTL

\* A component that a save leaves out has gone since its name was read
\* (pattern_db.py, _do_insert).
THEOREM SkippedAlwaysHasCause == Spec => []SkippedHasCause
<1>1. IInv => SkippedHasCause
  BY DEF IInv, ClientInv, SkippedHasCause
<1>2. QED
  BY <1>1, InvariantHolds, PTL

------------------------------------------------------------------------------
\* As long as no client has changed a pattern, the store is empty or filled from
\* the file.
FillInv ==
    /\ ~touched => Live = {} \/ LiveNames = FileNames
    /\ DefaultsComeBack

LEMMA FillStart == Init => FillInv
BY DEF Init, FillInv, Live, DefaultsComeBack

LEMMA FillStep ==
    ASSUME Valid(File), Resolvable, Unique, IInv, FillInv, [Next]_vars
    PROVE  FillInv'
<1> USE DEF store, client, history, bounded
<1>n. DefaultsComeBack <=>
        (server = "up" /\ reset = "none" /\ ~halted /\ ~touched => LiveNames = FileNames)
  BY DEF DefaultsComeBack, FileNames
<1>p. DefaultsComeBack' <=>
        (server' = "up" /\ reset' = "none" /\ ~halted' /\ ~touched' => LiveNames' = FileNames)
  BY DEF DefaultsComeBack, FileNames
<1>e. LiveNames = {} <=> Live = {}
  BY DEF LiveNames, Live, NamesOf
<1>t. TypeOK /\ RowInv
  BY DEF IInv
<1>u. rows' = rows => Live' = Live /\ LiveNames' = LiveNames
  BY DEF Live, LiveNames
<1>1. CASE rows' = rows /\ UNCHANGED <<server, reset, touched, halted>>
  BY <1>1, <1>n, <1>p, <1>u DEF FillInv
<1>2. CASE Start
  <2>1. rows' = rows /\ UNCHANGED <<reset, touched>>
    BY <1>2 DEF Start
  <2>2. server' = "up" => Live # {}
    BY <1>2 DEF Start, IsEmpty
  <2>3. QED
    BY <2>1, <2>2, <1>n, <1>p, <1>u DEF FillInv
<1>3. CASE Seed \/ ResetInsert
  <2>1. InsertFile /\ nextId + Len(File) - 1 <= MaxPatterns /\ UNCHANGED <<touched, halted>>
    BY <1>3 DEF Seed, ResetInsert
  <2>2. CASE Insertable
    <3>1. LiveNames' = LiveNames \union FileNames
      BY <1>t, <2>1, <2>2, Inserted
    <3>2. ~touched => LiveNames' = FileNames
      BY <1>e, <3>1 DEF FillInv
    <3>3. QED
      BY <1>p, <2>1, <3>2 DEF FillInv
  <2>3. CASE ~Insertable
    <3>1. rows' = rows
      BY <2>1, <2>3 DEF InsertFile
    <3>2. LiveNames # {}
      BY <2>3 DEF Insertable
    <3>3. ~touched => LiveNames = FileNames
      BY <1>e, <3>2 DEF FillInv
    <3>4. QED
      BY <1>p, <1>u, <2>1, <3>1, <3>3 DEF FillInv
  <2>4. QED
    BY <2>2, <2>3
<1>4. CASE Stop
  BY <1>4, <1>n, <1>p, <1>u DEF Stop, FillInv
<1>5. CASE ResetDelete
  <2>1. Live' = {} /\ reset' = "emptied"
    BY <1>5 DEF ResetDelete, Live
  <2>2. QED
    BY <2>1, <1>p DEF FillInv
<1>6. CASE ResetKilled
  <2>1. rows' = rows /\ UNCHANGED <<touched, server>> /\ halted' = (Live = {})
    BY <1>6 DEF ResetKilled
  <2>2. QED
    BY <2>1, <1>p, <1>u DEF FillInv
<1>7. ASSUME NEW h \in Handlers, Create(h) \/ Update(h) \/ Delete(h) PROVE FillInv'
  <2>1. UNCHANGED <<server, reset, halted>> /\ (touched' = TRUE \/ UNCHANGED <<rows, touched>>)
    BY <1>7 DEF Create, Update, Delete
  <2>2. QED
    BY <2>1, <1>1, <1>p DEF FillInv
<1>8. QED
  BY <1>1, <1>2, <1>3, <1>4, <1>5, <1>6, <1>7
     DEF Next, vars, Compose, Draft, FetchContext, Discard, CheckPut, CheckDelete, ReadComposites

\* Of a file that can be inserted at all, a server that is up has every pattern,
\* as long as no client has changed one (pattern_seeder.py, seed and reset).
THEOREM DefaultsAlwaysComeBack ==
    ASSUME Valid(File), Resolvable, Unique
    PROVE  Spec => []DefaultsComeBack
<1>1. IInv /\ FillInv /\ [Next]_vars => FillInv'
  BY FillStep
<1>2. FillInv => DefaultsComeBack
  BY DEF FillInv
<1>3. QED
  BY <1>1, <1>2, FillStart, InvariantHolds, PTL DEF Spec

\* A DELETE takes the pattern and what is composed of it, and nothing else
\* (patterns.py, _delete_pattern_cascade).
THEOREM DeleteAlwaysTakesComposites == Spec => DeleteTakesComposites
<1>1. ASSUME IInv, Next, NEW h \in Handlers, Deleting(h), NEW p \in Live
      PROVE  \/ p \in fresh[h]
             \/ rows'[p] = None /\ (p = req[h].id \/ req[h].id \in rows[p].comps)
             \/ /\ rows'[p] # None
                /\ req[h].id \notin rows[p].comps
                /\ \A q \in rows[p].comps \ rows'[p].comps : q \in req[h].doomed
  <2>1. at[h] = "doomed" /\ at'[h] = "idle" /\ server' = server /\ at \in [Handlers -> Places]
    BY <1>1 DEF Deleting, IInv, TypeOK
  <2>2. Delete(h)
    <3>1. ~(Start \/ Seed \/ ResetDelete \/ ResetInsert \/ ResetKilled)
      BY <2>1 DEF Start, Seed, ResetDelete, ResetInsert, ResetKilled, client
    <3>2. ~Stop
      BY <2>1 DEF Stop
    <3>3. ASSUME NEW g \in Handlers, NEW n \in Names, NEW c \in SUBSET Names
          PROVE  ~Compose(g, n, c) /\ ~Draft(g, n, c)
      BY <2>1 DEF Compose, Draft, Finish
    <3>4. ASSUME NEW g \in Handlers
          PROVE  ~FetchContext(g) /\ ~Discard(g) /\ ~Create(g) /\ ~Update(g)
      BY <2>1 DEF FetchContext, Discard, Create, Update, Finish
    <3>5. ASSUME NEW g \in Handlers, NEW q \in Ids PROVE ~CheckPut(g, q) /\ ~CheckDelete(g, q)
      BY <2>1 DEF CheckPut, CheckDelete
    <3>6. ASSUME NEW g \in Handlers, ReadComposites(g) \/ (g # h /\ Delete(g)) PROVE FALSE
      BY <2>1, <3>6 DEF ReadComposites, Delete, Finish
    <3>7. QED
      BY <1>1, <3>1, <3>2, <3>3, <3>4, <3>5, <3>6 DEF Next
  <2>3. p \in Ids /\ rows[p] # None /\ rows[p] \in [name : Names, comps : SUBSET Ids]
    BY <1>1 DEF Live, IInv, TypeOK, Rows
  <2>4. p \notin fresh[h] => (p \in req[h].doomed <=> req[h].id \in rows[p].comps)
    BY <1>1, <2>1 DEF IInv, ClientInv
  <2>5. rows' = [x \in Ids |->
                    IF x \in req[h].doomed \union {req[h].id} \/ rows[x] = None THEN None
                    ELSE [rows[x] EXCEPT !.comps = @ \ Unreferenced(h)]]
    <3> DEFINE kept == [x \in Ids |->
                    IF x \in req[h].doomed \union {req[h].id} \/ rows[x] = None THEN None
                    ELSE [rows[x] EXCEPT !.comps = @ \ Unreferenced(h)]]
    <3>1. \A x \in Ids : kept[x] # None =>
             kept[x].comps \intersect (req[h].doomed \union {req[h].id}) = {}
      BY <1>1 DEF Unreferenced, IInv, TypeOK, Rows
    <3>2. QED
      BY <2>2, <3>1 DEF Delete
  <2>6. CASE p \in req[h].doomed \union {req[h].id}
    BY <2>3, <2>4, <2>5, <2>6
  <2>7. CASE p \notin req[h].doomed \union {req[h].id}
    <3>1. rows'[p] = [rows[p] EXCEPT !.comps = @ \ Unreferenced(h)]
      BY <2>3, <2>5, <2>7
    <3>2. rows'[p] \in [name : Names, comps : SUBSET Ids]
      BY <2>3, <3>1
    <3>3. rows'[p] # None /\ rows'[p].comps = rows[p].comps \ Unreferenced(h)
      BY <2>3, <3>1, <3>2, NoneAssumption DEF Ids
    <3>4. QED
      BY <2>4, <2>7, <3>3 DEF Unreferenced
  <2>8. QED
    BY <2>6, <2>7
<1>2. IInv /\ [Next]_vars => [\A h \in Handlers : Deleting(h) =>
          \A p \in Live :
             \/ p \in fresh[h]
             \/ rows'[p] = None /\ (p = req[h].id \/ req[h].id \in rows[p].comps)
             \/ /\ rows'[p] # None
                /\ req[h].id \notin rows[p].comps
                /\ \A q \in rows[p].comps \ rows'[p].comps : q \in req[h].doomed]_vars
  BY <1>1
<1>3. QED
  BY <1>2, InvariantHolds, PTL DEF Spec, DeleteTakesComposites

===============================================================================
