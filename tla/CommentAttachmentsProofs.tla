----------------------- MODULE CommentAttachmentsProofs -----------------------
(***************************************************************************)
(* Theorems about CommentAttachments, for any comments, files and runs.    *)
(***************************************************************************)
EXTENDS CommentAttachments, TLAPS

\* The names of what may be stored for a comment.
Storable(c) == Files[c] \union {Bundle}

\* What an item says was true when it was written, and stays true.
ItemOK(c, item) ==
    item # None =>
        /\ <<c, item.index>> \in seen
        /\ \A p \in item.paths : <<c, p[1]>> \in seen /\ disk[p] # None
        /\ item.downloaded /\ c \notin bundled => {p[2] : p \in item.paths} = Files[c]

\* Two items have different positions.
Distinct(m) ==
    \A c, d \in Comments :
        m[c] # None /\ m[d] # None /\ m[c].index = m[d].index => c = d

PlaceInv == \A c, d \in Live : place[c] = place[d] => c = d

MetaInv == Distinct(meta) /\ \A c \in Comments : ItemOK(c, meta[c])

ItemsInv == \A r \in Runs : Distinct(items[r]) /\ \A c \in Comments : ItemOK(c, items[r][c])

\* A file on the disk is where a run found its comment.
DiskInv ==
    \A p \in Paths : disk[p] # None => <<disk[p], p[1]>> \in seen /\ p[2] \in Storable(disk[p])

TodoInv == \A r \in Runs : \A c \in todo[r] : pc[r] = "fetching" /\ items[r][c] # None

\* A run that visits no page has nothing of one.
NoPage(r) ==
    /\ tried[r] = {} /\ saved[r] = {} /\ got[r] = {} /\ boxes[r] = {} /\ late[r] = {}

\* Of the page it visits, all concerns the files of the comment, and what it has got
\* is on the disk.  As long as no row has failed, nothing is late, and the rows have
\* got their own files, unless one was asked for with another.
PageOK(r, c) ==
    /\ tried[r] \subseteq Files[c] /\ boxes[r] \subseteq Files[c]
    /\ \A d \in late[r] : d \subseteq Files[c]
    /\ \A f \in got[r] : f \in Storable(c) /\ disk[<<items[r][c].index, f>>] # None
    /\ saved[r] = tried[r] => late[r] = {} /\ (c \notin bundled => got[r] = saved[r])

VisitInv ==
    \A r \in Runs :
        /\ pc[r] \in {"new", "collected", "looked"} => NoPage(r)
        /\ \A c \in Comments : IsTarget(r, c) => PageOK(r, c)

\* A run that met no trouble is alone; the file holds what it has in memory,
\* with every URL, and whatever it need not visit any more is complete.
CleanInv ==
    \A r \in Active \ troubled :
        /\ Active = {r}
        /\ \A c \in Comments : items[r][c] # None => items[r][c].url
        /\ pc[r] # "collected" => meta = items[r]
        /\ pc[r] = "fetching" =>
              /\ saved[r] = tried[r]
              /\ \A c \in Comments \ todo[r] : meta[c] # None => meta[c].downloaded

IInv ==
    TypeOK /\ PlaceInv /\ MetaInv /\ ItemsInv /\ DiskInv /\ TodoInv /\ VisitInv /\ CleanInv

------------------------------------------------------------------------------
LEMMA InvInit == Init => IInv
<1> SUFFICES ASSUME Init
             PROVE  IInv
  OBVIOUS
<1> USE NoneAssumption, BoundAssumption DEF Init, NoItems
<1>1. TypeOK
  BY DEF TypeOK
<1>2. PlaceInv /\ TodoInv /\ DiskInv
  BY DEF PlaceInv, Live, TodoInv, DiskInv
<1>3. MetaInv /\ ItemsInv
  BY DEF MetaInv, ItemsInv, Distinct, ItemOK
<1>4. VisitInv /\ CleanInv
  BY DEF VisitInv, NoPage, IsTarget, CleanInv, Active
<1>5. QED
  BY <1>1, <1>2, <1>3, <1>4 DEF IInv

\* The site moves the comments and leaves the puller alone.
LEMMA SiteStep ==
    ASSUME IInv,
           (\E c \in Comments : Remove(c) \/ \E i \in Positions : Post(c, i))
             \/ (\E i \in Positions : PostPlain(i))
    PROVE  IInv'
<1>1. TypeOK' /\ PlaceInv'
  <2>0. TypeOK /\ PlaceInv /\ \A d \in Comments : place[d] \in Nat
    BY BoundAssumption DEF IInv, TypeOK
  <2>1. ASSUME NEW c \in Comments, Remove(c)
        PROVE  TypeOK' /\ PlaceInv'
    <3>1. \A d \in Comments :
              place'[d] = IF d = c THEN 0
                          ELSE IF place[d] > place[c] THEN place[d] - 1 ELSE place[d]
      BY <2>1 DEF Remove
    <3>2. place' \in [Comments -> 0..MaxPositions]
      BY <2>1, <2>0, BoundAssumption DEF Remove, TypeOK
    <3>3. place[c] # 0 /\ \A d \in Comments \ {c} : place[d] # 0 => place[d] # place[c]
      BY <2>0, <2>1 DEF Remove, PlaceInv, Live
    <3>4. ASSUME NEW d \in Comments, NEW e \in Comments,
                 place'[d] # 0, place'[e] # 0, place'[d] = place'[e]
          PROVE  d = e
      <4>1. d # c /\ e # c
        BY <3>1, <3>4
      <4>2. /\ place[c] \in Nat /\ place[d] \in Nat /\ place[e] \in Nat
            /\ place'[d] = IF place[d] > place[c] THEN place[d] - 1 ELSE place[d]
            /\ place'[e] = IF place[e] > place[c] THEN place[e] - 1 ELSE place[e]
        BY <2>0, <3>1, <4>1
      <4>3. place[d] # 0 /\ place[e] # 0
        <5>1. /\ (IF place[d] > place[c] THEN place[d] - 1 ELSE place[d]) # 0
              /\ (IF place[e] > place[c] THEN place[e] - 1 ELSE place[e]) # 0
          BY <3>4, <4>2
        <5>2. QED
          BY <4>2, <5>1
      <4>4. place[d] # place[c] /\ place[e] # place[c]
        BY <3>3, <4>1, <4>3
      <4>5. place[d] = place[e]
        <5>1. (IF place[d] > place[c] THEN place[d] - 1 ELSE place[d])
                = (IF place[e] > place[c] THEN place[e] - 1 ELSE place[e])
          BY <3>4, <4>2
        <5>2. QED
          BY <4>2, <4>4, <5>1
      <4>6. QED
        BY <2>0, <4>3, <4>5 DEF PlaceInv, Live
    <3>5. QED
      BY <2>0, <2>1, <3>2, <3>4 DEF Remove, TypeOK, PlaceInv, Live, run, visit, page, bounds, history
  <2>2. ASSUME NEW i \in Positions, NEW d \in Comments, NEW e \in Comments,
               Below(i)[d] # 0, Below(i)[e] # 0, Below(i)[d] = Below(i)[e]
        PROVE  d = e
    <3>1. /\ Below(i)[d] = IF d \in Live /\ place[d] >= i THEN place[d] + 1 ELSE place[d]
          /\ Below(i)[e] = IF e \in Live /\ place[e] >= i THEN place[e] + 1 ELSE place[e]
      BY DEF Below
    <3>2. d \in Live /\ e \in Live
      BY <2>2, <3>1 DEF Live
    <3>3. i \in Nat /\ place[d] \in Nat /\ place[e] \in Nat
      BY <2>0, BoundAssumption DEF Positions
    <3>4. place[d] = place[e]
      <4>1. (IF place[d] >= i THEN place[d] + 1 ELSE place[d])
              = (IF place[e] >= i THEN place[e] + 1 ELSE place[e])
        BY <2>2, <3>1, <3>2
      <4>2. QED
        BY <3>3, <4>1
    <3>5. QED
      BY <2>0, <3>2, <3>4 DEF PlaceInv
  <2>3. ASSUME NEW i \in Positions
        PROVE  \A d \in Comments : Below(i)[d] \in Nat /\ Below(i)[d] # i
    <3>1. SUFFICES ASSUME NEW d \in Comments
                   PROVE  Below(i)[d] \in Nat /\ Below(i)[d] # i
      OBVIOUS
    <3>2. i \in Nat /\ i # 0 /\ place[d] \in Nat
      BY <2>0, BoundAssumption DEF Positions
    <3>3. Below(i)[d] = IF d \in Live /\ place[d] >= i THEN place[d] + 1 ELSE place[d]
      BY DEF Below
    <3>4. d \notin Live => place[d] = 0
      BY DEF Live
    <3>5. QED
      BY <3>2, <3>3, <3>4
  <2>4. ASSUME NEW c \in Comments, NEW i \in Positions, Post(c, i)
        PROVE  TypeOK' /\ PlaceInv'
    <3>1. /\ place'[c] = i
          /\ \A d \in Comments \ {c} : place'[d] = Below(i)[d]
      BY <2>4 DEF Post, Below
    <3>2. place' \in [Comments -> Nat]
      BY <2>3, <2>4, BoundAssumption DEF Post, Below, Positions
    <3>3. place' \in [Comments -> 0..MaxPositions]
      BY <2>4, <3>2, BoundAssumption DEF Post
    <3>4. PlaceInv'
      BY <2>2, <2>3, <3>1 DEF PlaceInv, Live
    <3>5. QED
      BY <2>0, <2>4, <3>3, <3>4 DEF Post, TypeOK, run, visit, page, bounds, history
  <2>5. ASSUME NEW i \in Positions, PostPlain(i)
        PROVE  TypeOK' /\ PlaceInv'
    <3>1. place' = Below(i) /\ place' \in [Comments -> Nat]
      BY <2>3, <2>5 DEF PostPlain, Below
    <3>2. place' \in [Comments -> 0..MaxPositions]
      BY <2>5, <3>1, BoundAssumption DEF PostPlain
    <3>3. PlaceInv'
      BY <2>2, <3>1 DEF PlaceInv, Live
    <3>4. QED
      BY <2>0, <2>5, <3>2, <3>3 DEF PostPlain, TypeOK, run, visit, page, bounds, history
  <2>6. QED
    BY <2>1, <2>4, <2>5
<1>2. UNCHANGED <<disk, meta, run, history>>
  BY DEF Remove, Post, PostPlain
<1>3. (MetaInv /\ ItemsInv /\ DiskInv /\ TodoInv /\ VisitInv /\ CleanInv)'
  BY <1>2 DEF IInv, MetaInv, ItemsInv, Distinct, ItemOK, DiskInv, TodoInv, VisitInv, IsTarget,
              NoPage, PageOK, CleanInv, Active, run, visit, page, history
<1>4. QED
  BY <1>1, <1>3 DEF IInv

------------------------------------------------------------------------------
\* A run that met no trouble is the only one.
LEMMA CleanIsAlone ==
    ASSUME IInv, NEW r \in Active, NEW s \in Active \ troubled
    PROVE  s = r
BY DEF IInv, CleanInv

\* What VisitInv says of a run stays true when the run does nothing, and no file
\* goes away.
LEMMA OthersVisit ==
    ASSUME VisitInv, NEW s \in Runs,
           pc'[s] = pc[s], items'[s] = items[s], todo'[s] = todo[s],
           tried'[s] = tried[s], saved'[s] = saved[s], got'[s] = got[s],
           boxes'[s] = boxes[s], late'[s] = late[s], bundled \subseteq bundled',
           \A p : disk[p] # None => disk'[p] # None
    PROVE  /\ pc'[s] \in {"new", "collected", "looked"} => NoPage(s)'
           /\ \A c \in Comments : IsTarget(s, c)' => PageOK(s, c)'
<1>1. pc'[s] \in {"new", "collected", "looked"} => NoPage(s)'
  BY DEF VisitInv, NoPage
<1>2. ASSUME NEW c \in Comments, IsTarget(s, c)'
      PROVE  PageOK(s, c)'
  <2>1. PageOK(s, c)
    BY <1>2 DEF VisitInv, IsTarget
  <2>2. QED
    BY <2>1 DEF PageOK, Storable
<1>3. QED
  BY <1>1, <1>2

LEMMA CollectStep ==
    ASSUME IInv, NEW r \in Runs, NEW found \in SUBSET Live, Collect(r, found)
    PROVE  IInv'
<1> USE NoneAssumption
<1>1. TypeOK /\ PlaceInv /\ MetaInv /\ ItemsInv /\ DiskInv /\ TodoInv /\ VisitInv /\ CleanInv
  BY DEF IInv
<1>2. /\ pc[r] = "new" /\ pc'[r] = "collected"
      /\ \A s \in Runs \ {r} : items'[s] = items[s] /\ pc'[s] = pc[s]
      /\ UNCHANGED <<place, gone, disk, meta, todo, tried, saved, got, boxes, late>>
      /\ UNCHANGED <<crashes, faults, bundled>>
      /\ seen' = seen \union {<<c, place[c]>> : c \in Live}
      /\ troubled' = troubled \union (IF Active = {} THEN {} ELSE Active \union {r})
                              \union (IF found = Live THEN {} ELSE {r})
  BY <1>1 DEF Collect, TypeOK, site, visit, page, bounds
<1>3. /\ seen \subseteq seen'
      /\ \A c \in Live : place[c] \in Positions /\ <<c, place[c]>> \in seen'
  BY <1>1, <1>2, BoundAssumption DEF TypeOK, Live, Positions
<1>4. ASSUME NEW c \in Comments
      PROVE  /\ items'[r][c] \in Item \union {None}
             /\ items'[r][c] # None =>
                   /\ c \in Live /\ items'[r][c].index = place[c]
                   /\ found = Live => items'[r][c].url
                   /\ ~items'[r][c].downloaded /\ items'[r][c].paths = {}
  <2>1. items'[r][c] =
            IF c \in Live
            THEN [index |-> place[c], url |-> c \in found, downloaded |-> FALSE, paths |-> {}]
            ELSE None
    BY <1>1 DEF Collect, TypeOK
  <2>2. CASE c \in Live
    <3>1. CASE c \in found
      <4>1. (c \in found) = TRUE
        BY <3>1
      <4>2. items'[r][c] = [index |-> place[c], url |-> TRUE, downloaded |-> FALSE, paths |-> {}]
        BY <2>1, <2>2, <4>1
      <4>3. items'[r][c] \in Item
        <5>1. place[c] \in Positions
          BY <1>3, <2>2
        <5>2. QED
          BY <4>2, <5>1 DEF Item
      <4>4. QED
        BY <2>2, <4>2, <4>3
    <3>2. CASE c \notin found
      <4>1. (c \in found) = FALSE
        BY <3>2
      <4>2. items'[r][c] = [index |-> place[c], url |-> FALSE, downloaded |-> FALSE, paths |-> {}]
        BY <2>1, <2>2, <4>1
      <4>3. items'[r][c] \in Item
        <5>1. place[c] \in Positions
          BY <1>3, <2>2
        <5>2. QED
          BY <4>2, <5>1 DEF Item
      <4>4. QED
        BY <2>2, <3>2, <4>2, <4>3
    <3>3. QED
      BY <3>1, <3>2
  <2>3. CASE c \notin Live
    BY <2>1, <2>3
  <2>4. QED
    BY <2>2, <2>3
<1>5. TypeOK'
  <2>1. items'[r] \in [Comments -> Item \union {None}]
    <3>1. items'[r] = [c \in Comments |-> items'[r][c]]
      BY <1>1 DEF Collect, TypeOK
    <3>2. QED
      BY <1>4, <3>1
  <2>2. items' \in [Runs -> [Comments -> Item \union {None}]]
    BY <1>1, <2>1 DEF Collect, TypeOK
  <2>3. seen' \subseteq Comments \X Positions
    BY <1>1, <1>2, <1>3 DEF TypeOK, Live
  <2>4. pc' \in [Runs -> {"new", "collected", "looked", "fetching", "done", "dead"}]
    BY <1>1 DEF Collect, TypeOK
  <2>5. troubled' \subseteq Runs
    BY <1>1, <1>2 DEF TypeOK, Active
  <2>6. QED
    BY <1>1, <1>2, <2>2, <2>3, <2>4, <2>5 DEF TypeOK
<1>6. PlaceInv' /\ MetaInv' /\ DiskInv'
  BY <1>1, <1>2, <1>3 DEF PlaceInv, Live, MetaInv, Distinct, ItemOK, DiskInv
<1>7. ItemsInv'
  <2>1. ASSUME NEW s \in Runs
        PROVE  Distinct(items[s])' /\ \A c \in Comments : ItemOK(c, items[s][c])'
    <3>1. CASE s = r
      <4>1. ASSUME NEW c \in Comments, NEW d \in Comments,
                   items'[r][c] # None, items'[r][d] # None,
                   items'[r][c].index = items'[r][d].index
            PROVE  c = d
        <5>1. c \in Live /\ d \in Live /\ place[c] = place[d]
          BY <1>4, <4>1
        <5>2. QED
          BY <1>1, <5>1 DEF PlaceInv
      <4>2. \A c \in Comments : items'[r][c] # None =>
                /\ <<c, items'[r][c].index>> \in seen'
                /\ items'[r][c].paths = {} /\ ~items'[r][c].downloaded
        BY <1>3, <1>4
      <4>3. QED
        BY <3>1, <4>1, <4>2 DEF Distinct, ItemOK
    <3>2. CASE s # r
      BY <1>1, <1>2, <1>3, <3>2 DEF ItemsInv, Distinct, ItemOK
    <3>3. QED
      BY <3>1, <3>2
  <2>2. QED
    BY <2>1 DEF ItemsInv
<1>8. TodoInv'
  BY <1>1, <1>2 DEF TodoInv
<1>9. VisitInv'
  <2>1. ASSUME NEW s \in Runs \ {r}
        PROVE  /\ pc'[s] \in {"new", "collected", "looked"} => NoPage(s)'
               /\ \A c \in Comments : IsTarget(s, c)' => PageOK(s, c)'
    BY <1>1, <1>2, OthersVisit
  <2>2. NoPage(r)' /\ \A c \in Comments : ~IsTarget(r, c)'
    BY <1>1, <1>2 DEF VisitInv, NoPage, IsTarget
  <2>3. QED
    BY <2>1, <2>2 DEF VisitInv
<1>10. CleanInv'
  <2>1. Active' = Active \union {r}
    BY <1>2 DEF Active
  <2>2. ASSUME NEW s \in Active' \ troubled'
        PROVE  s = r /\ Active = {} /\ found = Live
    BY <1>2, <2>1, <2>2
  <2>3. QED
    BY <1>2, <1>4, <2>1, <2>2 DEF CleanInv
<1>11. QED
  BY <1>5, <1>6, <1>7, <1>8, <1>9, <1>10 DEF IInv

LEMMA SaveLookupStep ==
    ASSUME IInv, NEW r \in Runs, SaveLookup(r)
    PROVE  IInv'
<1> USE NoneAssumption
<1>1. TypeOK /\ PlaceInv /\ MetaInv /\ ItemsInv /\ DiskInv /\ TodoInv /\ VisitInv /\ CleanInv
  BY DEF IInv
<1>2. /\ items'[r] = meta' /\ pc[r] = "collected" /\ pc'[r] = "looked"
      /\ \A s \in Runs \ {r} : items'[s] = items[s] /\ pc'[s] = pc[s]
      /\ UNCHANGED <<place, gone, disk, todo, tried, saved, got, boxes, late>>
      /\ UNCHANGED <<crashes, faults, seen, troubled, bundled>>
  BY <1>1 DEF SaveLookup, TypeOK, site, visit, page, bounds, history
<1>3. ASSUME NEW c \in Comments
      PROVE  IF items[r][c] = None THEN meta'[c] = None
             ELSE /\ meta'[c] \in Item
                  /\ meta'[c].index = items[r][c].index
                  /\ meta'[c].url = items[r][c].url
                  /\ ItemOK(c, meta'[c])
  <2>1. meta'[c] = IF items[r][c] = None THEN None ELSE Resumed(c, items[r][c])
    BY DEF SaveLookup
  <2>2. CASE items[r][c] # None
    <3>1. items[r][c] \in Item /\ (meta[c] # None => meta[c] \in Item)
      BY <1>1, <2>2 DEF TypeOK
    <3>2. ItemOK(c, items[r][c]) /\ ItemOK(c, meta[c])
      BY <1>1 DEF ItemsInv, MetaInv
    <3>3. CASE items[r][c].url /\ meta[c] # None /\ meta[c].url
      <4>1. meta'[c] = [items[r][c] EXCEPT !.downloaded = meta[c].downloaded,
                                           !.paths = meta[c].paths]
        BY <2>1, <2>2, <3>3 DEF Resumed
      <4>2. /\ meta'[c].index = items[r][c].index /\ meta'[c].url = items[r][c].url
            /\ meta'[c].downloaded = meta[c].downloaded /\ meta'[c].paths = meta[c].paths
            /\ meta'[c] \in Item
        BY <3>1, <3>3, <4>1 DEF Item
      <4>3. QED
        BY <2>2, <3>2, <3>3, <4>2 DEF ItemOK
    <3>4. CASE ~(items[r][c].url /\ meta[c] # None /\ meta[c].url)
      BY <2>1, <2>2, <3>1, <3>2, <3>4 DEF Resumed
    <3>5. QED
      BY <3>3, <3>4
  <2>3. QED
    BY <2>1, <2>2
<1>4. TypeOK'
  <2>1. meta' = [c \in Comments |-> meta'[c]]
    BY DEF SaveLookup
  <2>2. meta' \in [Comments -> Item \union {None}]
    BY <1>3, <2>1
  <2>3. QED
    BY <1>1, <1>2, <2>2 DEF SaveLookup, TypeOK
<1>5. MetaInv'
  <2>1. Distinct(items[r])
    BY <1>1 DEF ItemsInv
  <2>2. Distinct(meta')
    BY <1>3, <2>1 DEF Distinct
  <2>3. \A c \in Comments : ItemOK(c, meta[c])'
    BY <1>2, <1>3 DEF ItemOK
  <2>4. QED
    BY <2>2, <2>3 DEF MetaInv, Distinct
<1>6. ItemsInv'
  BY <1>1, <1>2, <1>5 DEF MetaInv, ItemsInv, Distinct, ItemOK
<1>7. PlaceInv' /\ DiskInv' /\ TodoInv'
  BY <1>1, <1>2 DEF PlaceInv, Live, DiskInv, TodoInv
<1>8. VisitInv'
  <2>1. ASSUME NEW s \in Runs \ {r}
        PROVE  /\ pc'[s] \in {"new", "collected", "looked"} => NoPage(s)'
               /\ \A c \in Comments : IsTarget(s, c)' => PageOK(s, c)'
    BY <1>1, <1>2, OthersVisit
  <2>2. NoPage(r)' /\ \A c \in Comments : ~IsTarget(r, c)'
    BY <1>1, <1>2 DEF VisitInv, NoPage, IsTarget
  <2>3. QED
    BY <2>1, <2>2 DEF VisitInv
<1>9. CleanInv'
  <2>1. Active' = Active /\ r \in Active
    BY <1>2 DEF Active
  <2>2. ASSUME NEW s \in Active \ troubled
        PROVE  s = r
    BY <2>1, CleanIsAlone
  <2>3. QED
    BY <1>1, <1>2, <1>3, <2>1, <2>2 DEF CleanInv
<1>10. QED
  BY <1>4, <1>5, <1>6, <1>7, <1>8, <1>9 DEF IInv

LEMMA ReadMetaStep ==
    ASSUME IInv, NEW r \in Runs, ReadMeta(r)
    PROVE  IInv'
<1>1. TypeOK /\ PlaceInv /\ MetaInv /\ ItemsInv /\ DiskInv /\ TodoInv /\ VisitInv /\ CleanInv
  BY DEF IInv
<1>2. /\ items'[r] = meta /\ pc[r] = "looked" /\ pc'[r] = "fetching"
      /\ todo'[r] = Unfinished(meta)
      /\ \A s \in Runs \ {r} : items'[s] = items[s] /\ pc'[s] = pc[s] /\ todo'[s] = todo[s]
      /\ UNCHANGED <<place, gone, disk, meta, tried, saved, got, boxes, late>>
      /\ UNCHANGED <<crashes, faults, seen, troubled, bundled>>
  BY <1>1 DEF ReadMeta, TypeOK, site, page, bounds, history
<1>3. NoPage(r)
  BY <1>1, <1>2 DEF VisitInv
<1>4. TypeOK'
  BY <1>1, <1>2 DEF ReadMeta, TypeOK, Unfinished
<1>5. PlaceInv' /\ MetaInv' /\ ItemsInv' /\ DiskInv'
  BY <1>1, <1>2 DEF PlaceInv, Live, MetaInv, ItemsInv, Distinct, ItemOK, DiskInv
<1>6. TodoInv'
  BY <1>1, <1>2 DEF TodoInv, Unfinished
<1>7. VisitInv'
  <2>1. ASSUME NEW s \in Runs \ {r}
        PROVE  /\ pc'[s] \in {"new", "collected", "looked"} => NoPage(s)'
               /\ \A c \in Comments : IsTarget(s, c)' => PageOK(s, c)'
    BY <1>1, <1>2, OthersVisit
  <2>2. pc'[r] = "fetching" /\ \A c \in Comments : PageOK(r, c)'
    BY <1>2, <1>3 DEF NoPage, PageOK
  <2>3. QED
    BY <2>1, <2>2 DEF VisitInv
<1>8. CleanInv'
  <2>1. Active' = Active /\ r \in Active
    BY <1>2 DEF Active
  <2>2. ASSUME NEW s \in Active \ troubled
        PROVE  s = r
    BY <2>1, CleanIsAlone
  <2>3. ASSUME r \notin troubled
        PROVE  /\ Active = {r} /\ meta = items[r]
               /\ \A c \in Comments : meta[c] # None => meta[c].url
    BY <1>1, <1>2, <2>1, <2>3 DEF CleanInv
  <2>4. ASSUME r \notin troubled
        PROVE  \A c \in Comments \ todo'[r] : meta[c] # None => meta[c].downloaded
    BY <1>2, <2>3, <2>4 DEF Unfinished
  <2>5. QED
    BY <1>2, <1>3, <2>1, <2>2, <2>3, <2>4 DEF CleanInv, NoPage
<1>9. QED
  BY <1>4, <1>5, <1>6, <1>7, <1>8 DEF IInv

\* What is the same in the two steps of a page.
LEMMA TargetFacts ==
    ASSUME IInv, NEW r \in Runs, NEW c \in Comments, IsTarget(r, c)
    PROVE  /\ r \in Active
           /\ items[r][c] \in Item /\ items[r][c] # None
           /\ <<c, items[r][c].index>> \in seen /\ items[r][c].index \in Positions
           /\ \A d \in Comments : IsTarget(r, d) => d = c
           /\ \A s \in Active \ troubled : s = r
           /\ Files[c] \subseteq Names
<1>1. pc[r] = "fetching" /\ r \in Active
  BY DEF IsTarget, Active
<1>2. items[r][c] \in Item /\ items[r][c] # None
  BY DEF IsTarget, IInv, TodoInv, TypeOK
<1>3. <<c, items[r][c].index>> \in seen /\ items[r][c].index \in Positions
  BY <1>2 DEF IInv, ItemsInv, ItemOK, Item
<1>4. ASSUME NEW d \in Comments, IsTarget(r, d)
      PROVE  d = c
  <2>1. items[r][d] \in Item /\ items[r][d] # None
    BY <1>4 DEF IsTarget, IInv, TodoInv, TypeOK
  <2>2. items[r][d].index <= items[r][c].index /\ items[r][c].index <= items[r][d].index
    BY <1>4 DEF IsTarget
  <2>3. items[r][d].index = items[r][c].index
    BY <1>2, <2>1, <2>2, BoundAssumption DEF Item, Positions
  <2>4. Distinct(items[r])
    BY DEF IInv, ItemsInv
  <2>5. QED
    BY <1>2, <2>1, <2>3, <2>4 DEF Distinct
<1>5. QED
  BY <1>1, <1>2, <1>3, <1>4, FilesAssumption, CleanIsAlone

\* What is asked for is of the comment, and so is the file that comes of it.
LEMMA FilesAsked ==
    ASSUME NEW c \in Comments, NEW download, download \subseteq Files[c],
           NEW file \in FilesOf(download)
    PROVE  file \in Storable(c)
BY DEF FilesOf, Storable

\* A row that is saved or missed; what came for it was asked for on this page.
LEMMA RowStep ==
    ASSUME IInv, NEW r \in Runs, NEW c \in Comments, NEW n \in Names,
           SaveFile(r, c, n) \/ MissFile(r, c, n)
    PROVE  IInv'
<1> USE NoneAssumption
<1>1. TypeOK /\ PlaceInv /\ MetaInv /\ ItemsInv /\ DiskInv /\ TodoInv /\ VisitInv /\ CleanInv
  BY DEF IInv
<1>2. /\ IsTarget(r, c) /\ n \in Files[c] \ tried[r]
      /\ tried' = [tried EXCEPT ![r] = tried[r] \union {n}]
      /\ boxes' = boxes \/ boxes' = [boxes EXCEPT ![r] = boxes[r] \union {n}]
      /\ troubled' = troubled \/ troubled' = troubled \union {r}
      /\ UNCHANGED <<place, gone, meta, pc, items, todo, crashes, seen>>
  BY <1>1 DEF SaveFile, MissFile, Uncheck, TypeOK, site
<1>3. /\ r \in Active /\ items[r][c] \in Item /\ items[r][c] # None
      /\ <<c, items[r][c].index>> \in seen /\ items[r][c].index \in Positions
      /\ \A d \in Comments : IsTarget(r, d) => d = c
      /\ \A s \in Active \ troubled : s = r
      /\ Files[c] \subseteq Names
  BY <1>2, TargetFacts
<1>4. PageOK(r, c) /\ saved[r] \subseteq tried[r]
  BY <1>1, <1>2 DEF VisitInv, TypeOK
<1>5. PICK file \in Storable(c), asked \in SUBSET Files[c], download \in SUBSET Files[c] :
          /\ asked = Asked(r, n)
          /\ \/ /\ download \in late[r] \union {asked} /\ file \in FilesOf(download)
                /\ late' = [late EXCEPT ![r] = (late[r] \union {asked}) \ {download}]
                /\ disk' = [disk EXCEPT ![<<items[r][c].index, file>>] = c]
                /\ got' = [got EXCEPT ![r] = got[r] \union {file}]
                /\ saved' = [saved EXCEPT ![r] = saved[r] \union {n}]
                /\ bundled' = bundled \union {d \in {c} : asked # {n}}
             \/ /\ late' = late \/ late' = [late EXCEPT ![r] = late[r] \union {asked}]
                /\ disk' = disk /\ got' = got /\ saved' = saved /\ bundled' = bundled
                /\ troubled' = troubled \union {r}
  <2>1. Asked(r, n) \in SUBSET Files[c]
    BY <1>2, <1>4 DEF Asked, PageOK
  <2>2. CASE SaveFile(r, c, n)
    <3>1. PICK download \in late[r] \union {Asked(r, n)} : \E file \in FilesOf(download) :
              /\ late' = [late EXCEPT ![r] = (late[r] \union {Asked(r, n)}) \ {download}]
              /\ disk' = [disk EXCEPT ![<<items[r][c].index, file>>] = c]
              /\ got' = [got EXCEPT ![r] = got[r] \union {file}]
      BY <2>2 DEF SaveFile
    <3>2. PICK file \in FilesOf(download) :
              /\ late' = [late EXCEPT ![r] = (late[r] \union {Asked(r, n)}) \ {download}]
              /\ disk' = [disk EXCEPT ![<<items[r][c].index, file>>] = c]
              /\ got' = [got EXCEPT ![r] = got[r] \union {file}]
      BY <3>1
    <3>3. download \in SUBSET Files[c]
      BY <1>4, <2>1 DEF PageOK
    <3>4. file \in Storable(c)
      BY <3>3, FilesAsked
    <3>5. /\ saved' = [saved EXCEPT ![r] = saved[r] \union {n}]
          /\ bundled' = bundled \union {d \in {c} : Asked(r, n) # {n}}
      BY <2>2 DEF SaveFile
    <3>6. QED
      BY <2>1, <3>2, <3>3, <3>4, <3>5
  <2>3. CASE MissFile(r, c, n)
    <3>1. /\ late' = late \/ late' = [late EXCEPT ![r] = late[r] \union {Asked(r, n)}]
          /\ disk' = disk /\ got' = got /\ saved' = saved /\ bundled' = bundled
          /\ troubled' = troubled \union {r}
      BY <2>3 DEF MissFile
    <3>2. Bundle \in Storable(c)
      BY DEF Storable
    <3>3. QED
      BY <2>1, <3>1, <3>2
  <2>4. QED
    BY <2>2, <2>3
<1>6. /\ \A s \in Runs \ {r} : /\ tried'[s] = tried[s] /\ saved'[s] = saved[s]
                               /\ got'[s] = got[s] /\ boxes'[s] = boxes[s]
                               /\ late'[s] = late[s]
      /\ tried'[r] = tried[r] \union {n}
      /\ bundled \subseteq bundled'
  BY <1>1, <1>2, <1>5 DEF TypeOK
<1>7. <<items[r][c].index, file>> \in Paths /\ file \in Stored
  BY <1>3, <1>5 DEF Paths, Stored, Storable
<1>8. \A p \in Paths : disk[p] # None => disk'[p] # None
  BY <1>1, <1>5 DEF TypeOK
<1>9. TypeOK'
  <2>1. /\ tried' \in [Runs -> SUBSET Names] /\ boxes' \in [Runs -> SUBSET Names]
        /\ saved' \in [Runs -> SUBSET Names] /\ got' \in [Runs -> SUBSET Stored]
        /\ late' \in [Runs -> SUBSET SUBSET Names]
    <3>1. tried' \in [Runs -> SUBSET Names]
      BY <1>1, <1>2 DEF TypeOK
    <3>2. boxes' \in [Runs -> SUBSET Names]
      BY <1>1, <1>2 DEF TypeOK
    <3>3. saved[r] \union {n} \in SUBSET Names /\ got[r] \union {file} \in SUBSET Stored
      BY <1>1, <1>7 DEF TypeOK
    <3>4. saved' \in [Runs -> SUBSET Names] /\ got' \in [Runs -> SUBSET Stored]
      BY <1>1, <1>5, <3>3 DEF TypeOK
    <3>5. /\ late[r] \union {asked} \in SUBSET SUBSET Names
          /\ (late[r] \union {asked}) \ {download} \in SUBSET SUBSET Names
      BY <1>1, <1>3 DEF TypeOK
    <3>6. late' \in [Runs -> SUBSET SUBSET Names]
      <4>1. late' = late \/ \E value \in SUBSET SUBSET Names : late' = [late EXCEPT ![r] = value]
        BY <1>5, <3>5
      <4>2. QED
        BY <1>1, <4>1 DEF TypeOK
    <3>7. QED
      BY <3>1, <3>2, <3>4, <3>6
  <2>2. \A s \in Runs : saved'[s] \subseteq tried'[s]
    BY <1>1, <1>5, <1>6 DEF TypeOK
  <2>3. disk' \in [Paths -> Comments \union {None}]
    BY <1>1, <1>5 DEF TypeOK
  <2>4. troubled' \subseteq Runs /\ bundled' \subseteq Comments
    BY <1>1, <1>2, <1>5 DEF TypeOK
  <2>5. faults' \in 0..MaxFaults
    BY <1>1, BoundAssumption DEF SaveFile, MissFile, Uncheck, TypeOK
  <2>6. QED
    BY <1>1, <1>2, <2>1, <2>2, <2>3, <2>4, <2>5 DEF TypeOK
<1>10. PlaceInv' /\ TodoInv'
  BY <1>1, <1>2 DEF PlaceInv, Live, TodoInv
<1>11. MetaInv' /\ ItemsInv'
  <2>1. ASSUME NEW d \in Comments
        PROVE  ItemOK(d, meta[d])'
    BY <1>1, <1>2, <1>6, <1>8 DEF MetaInv, ItemOK, TypeOK, Item
  <2>2. ASSUME NEW s \in Runs, NEW d \in Comments
        PROVE  ItemOK(d, items[s][d])'
    <3>1. ItemOK(d, items[s][d]) /\ items[s][d] \in Item \union {None}
      BY <1>1 DEF ItemsInv, TypeOK
    <3>2. QED
      BY <1>2, <1>6, <1>8, <3>1 DEF ItemOK, Item
  <2>3. QED
    BY <1>1, <1>2, <2>1, <2>2 DEF MetaInv, ItemsInv, Distinct
<1>12. DiskInv'
  <2>1. ASSUME NEW p \in Paths, disk'[p] # None
        PROVE  <<disk'[p], p[1]>> \in seen /\ p[2] \in Storable(disk'[p])
    <3>1. CASE disk'[p] = disk[p]
      BY <1>1, <2>1, <3>1 DEF DiskInv
    <3>2. CASE disk'[p] # disk[p]
      <4>1. p = <<items[r][c].index, file>> /\ disk'[p] = c
        BY <1>1, <1>5, <1>7, <3>2 DEF TypeOK
      <4>2. QED
        BY <1>3, <1>5, <4>1
    <3>3. QED
      BY <3>1, <3>2
  <2>2. QED
    BY <1>2, <2>1 DEF DiskInv
<1>13. VisitInv'
  <2>1. ASSUME NEW s \in Runs, NEW d \in Comments, IsTarget(s, d)
        PROVE  PageOK(s, d)'
    <3>1. items[s][d].index \in Positions /\ PageOK(s, d)
      BY <1>1, <2>1, TargetFacts DEF VisitInv
    <3>2. \A f \in got[s] : /\ f \in Storable(d)
                            /\ disk'[<<items[s][d].index, f>>] # None
      <4>1. got[s] \subseteq Stored
        BY <1>1 DEF TypeOK
      <4>2. QED
        BY <1>8, <3>1, <4>1 DEF PageOK, Paths
    <3>3. CASE s = r
      <4>1. d = c
        BY <1>3, <2>1, <3>3
      <4>2. tried'[r] \subseteq Files[c] /\ boxes'[r] \subseteq Files[c]
        BY <1>1, <1>2, <1>4 DEF PageOK, TypeOK
      <4>3. \A x \in late'[r] : x \subseteq Files[c]
        <5>1. late'[r] \subseteq late[r] \union {asked}
          BY <1>1, <1>5 DEF TypeOK
        <5>2. QED
          BY <1>4, <1>5, <5>1 DEF PageOK
      <4>4. \A f \in got'[r] : f \in Storable(c) /\ disk'[<<items[r][c].index, f>>] # None
        <5>1. CASE got' = got
          BY <3>2, <3>3, <4>1, <5>1
        <5>2. CASE got' # got
          <6>1. /\ got'[r] = got[r] \union {file}
                /\ disk' = [disk EXCEPT ![<<items[r][c].index, file>>] = c]
            BY <1>1, <1>5, <5>2 DEF TypeOK
          <6>2. disk'[<<items[r][c].index, file>>] # None
            BY <1>1, <1>7, <6>1 DEF TypeOK
          <6>3. QED
            BY <1>5, <3>2, <3>3, <4>1, <6>1, <6>2
        <5>3. QED
          BY <5>1, <5>2
      <4>5. ASSUME saved'[r] = tried'[r]
            PROVE  late'[r] = {} /\ (c \notin bundled' => got'[r] = saved'[r])
        <5>1. n \notin saved[r] /\ n \in saved'[r]
          BY <1>2, <1>4, <1>6, <4>5
        <5>2. /\ download \in late[r] \union {asked} /\ file \in FilesOf(download)
              /\ late' = [late EXCEPT ![r] = (late[r] \union {asked}) \ {download}]
              /\ got' = [got EXCEPT ![r] = got[r] \union {file}]
              /\ saved' = [saved EXCEPT ![r] = saved[r] \union {n}]
              /\ bundled' = bundled \union {x \in {c} : asked # {n}}
          BY <1>5, <5>1
        <5>3. /\ late'[r] = (late[r] \union {asked}) \ {download}
              /\ got'[r] = got[r] \union {file} /\ saved'[r] = saved[r] \union {n}
          BY <1>1, <5>2 DEF TypeOK
        <5>4. saved[r] = tried[r]
          BY <1>2, <1>4, <1>6, <4>5, <5>3
        <5>5. late[r] = {} /\ download = asked
          BY <1>4, <5>2, <5>4 DEF PageOK
        <5>6. ASSUME c \notin bundled'
              PROVE  got'[r] = saved'[r]
          <6>1. asked = {n} /\ c \notin bundled
            BY <5>2, <5>6
          <6>2. file = n
            BY <5>2, <5>5, <6>1 DEF FilesOf
          <6>3. got[r] = saved[r]
            BY <1>4, <5>4, <6>1 DEF PageOK
          <6>4. QED
            BY <5>3, <6>2, <6>3
        <5>7. QED
          BY <5>3, <5>5, <5>6
      <4>6. items' = items
        BY <1>2
      <4>7. QED
        BY <3>3, <4>1, <4>2, <4>3, <4>4, <4>5, <4>6 DEF PageOK, Storable
    <3>4. CASE s # r
      BY <1>2, <1>6, <3>1, <3>2, <3>4 DEF PageOK, Storable
    <3>5. QED
      BY <3>3, <3>4
  <2>2. ASSUME NEW s \in Runs, pc[s] \in {"new", "collected", "looked"}
        PROVE  NoPage(s)'
    <3>1. s # r
      BY <1>2, <2>2 DEF IsTarget
    <3>2. QED
      BY <1>1, <1>6, <2>2, <3>1 DEF VisitInv, NoPage
  <2>3. QED
    BY <1>2, <2>1, <2>2 DEF VisitInv, IsTarget
<1>14. CleanInv'
  <2>1. Active' = Active
    BY <1>2 DEF Active
  <2>2. ASSUME NEW s \in Active \ troubled'
        PROVE  s = r /\ s \notin troubled /\ saved'[s] = tried'[s]
    <3>1. s \notin troubled /\ s = r
      BY <1>2, <1>3, <2>2
    <3>2. saved[r] = tried[r]
      BY <1>1, <1>2, <1>3, <3>1 DEF CleanInv, IsTarget
    <3>3. saved'[r] = saved[r] \union {n}
      BY <1>1, <1>5, <2>2, <3>1 DEF TypeOK
    <3>4. QED
      BY <1>6, <3>1, <3>2, <3>3
  <2>3. QED
    BY <1>1, <1>2, <2>1, <2>2 DEF CleanInv
<1>15. QED
  BY <1>9, <1>10, <1>11, <1>12, <1>13, <1>14 DEF IInv

LEMMA PageStep ==
    ASSUME IInv, NEW r \in Runs, NEW c \in Comments, FinishPage(r, c) \/ FailPage(r, c)
    PROVE  IInv'
<1> USE NoneAssumption
<1>1. TypeOK /\ PlaceInv /\ MetaInv /\ ItemsInv /\ DiskInv /\ TodoInv /\ VisitInv /\ CleanInv
  BY DEF IInv
<1>2. IsTarget(r, c)
  BY DEF FinishPage, FailPage
<1>3. /\ r \in Active /\ items[r][c] \in Item /\ items[r][c] # None
      /\ <<c, items[r][c].index>> \in seen /\ items[r][c].index \in Positions
      /\ \A s \in Active \ troubled : s = r
      /\ Files[c] \subseteq Names
  BY <1>2, TargetFacts
<1>4. PageOK(r, c) /\ saved[r] \subseteq tried[r] /\ got[r] \subseteq Stored
  BY <1>1, <1>2 DEF VisitInv, TypeOK
<1>5. PICK item \in Item :
          /\ LeavePage(r, c, item) /\ ItemOK(c, item)
          /\ item.index = items[r][c].index /\ item.url = items[r][c].url
          /\ \/ troubled' = troubled /\ (saved[r] = tried[r] => item.downloaded)
             \/ troubled' = troubled \union {r}
  <2>1. CASE FinishPage(r, c)
    <3>1. /\ Outcome(r, c).index = items[r][c].index /\ Outcome(r, c).url = items[r][c].url
          /\ Outcome(r, c).downloaded = (saved[r] = Files[c])
          /\ Outcome(r, c).paths = {items[r][c].index} \X got[r]
      BY <1>3 DEF Outcome, Item
    <3>2. Outcome(r, c) \in Item
      <4>1. {items[r][c].index} \X got[r] \in SUBSET Paths
        BY <1>3, <1>4 DEF Paths
      <4>2. QED
        BY <1>3, <4>1 DEF Outcome, Item
    <3>3. {p[2] : p \in {items[r][c].index} \X got[r]} = got[r]
      <4>1. \A f \in got[r] : /\ <<items[r][c].index, f>> \in {items[r][c].index} \X got[r]
                              /\ <<items[r][c].index, f>>[2] = f
        OBVIOUS
      <4>2. QED
        BY <4>1
    <3>4. ItemOK(c, Outcome(r, c))
      <4>1. ASSUME NEW p \in Outcome(r, c).paths
            PROVE  <<c, p[1]>> \in seen /\ disk[p] # None
        <5>1. p = <<items[r][c].index, p[2]>> /\ p[2] \in got[r]
          BY <3>1, <4>1
        <5>2. QED
          BY <1>3, <1>4, <5>1 DEF PageOK
      <4>2. ASSUME Outcome(r, c).downloaded, c \notin bundled
            PROVE  got[r] = Files[c]
        <5>1. saved[r] = Files[c] /\ tried[r] = Files[c]
          BY <2>1, <3>1, <4>2 DEF FinishPage
        <5>2. QED
          BY <1>4, <4>2, <5>1 DEF PageOK
      <4>3. QED
        BY <1>3, <3>1, <3>3, <4>1, <4>2 DEF ItemOK
    <3>5. QED
      BY <2>1, <3>1, <3>2, <3>4 DEF FinishPage
  <2>2. CASE FailPage(r, c)
    <3>1. [items[r][c] EXCEPT !.downloaded = FALSE] \in Item
      BY <1>3 DEF Item
    <3>2. ItemOK(c, [items[r][c] EXCEPT !.downloaded = FALSE])
      BY <1>1, <1>3 DEF ItemsInv, ItemOK, Item
    <3>3. QED
      BY <1>3, <2>2, <3>1, <3>2 DEF FailPage, Item
  <2>3. QED
    BY <2>1, <2>2
<1>6. /\ items' = [items EXCEPT ![r][c] = item] /\ meta' = items'[r]
      /\ todo'[r] = todo[r] \ {c} /\ NoPage(r)'
      /\ \A s \in Runs \ {r} : /\ todo'[s] = todo[s] /\ tried'[s] = tried[s]
                               /\ saved'[s] = saved[s] /\ got'[s] = got[s]
                               /\ boxes'[s] = boxes[s] /\ late'[s] = late[s]
      /\ UNCHANGED <<place, gone, disk, pc, crashes, seen, bundled>>
  BY <1>1, <1>5 DEF LeavePage, NoPage, TypeOK, site
<1>7. /\ items'[r][c] = item
      /\ \A d \in Comments \ {c} : items'[r][d] = items[r][d]
      /\ \A s \in Runs \ {r} : items'[s] = items[s]
  BY <1>1, <1>6 DEF TypeOK
<1>8. TypeOK'
  <2>1. items' \in [Runs -> [Comments -> Item \union {None}]]
    BY <1>1, <1>6 DEF TypeOK
  <2>2. /\ todo' \in [Runs -> SUBSET Comments]
        /\ tried' \in [Runs -> SUBSET Names] /\ saved' \in [Runs -> SUBSET Names]
        /\ got' \in [Runs -> SUBSET Stored] /\ boxes' \in [Runs -> SUBSET Names]
        /\ late' \in [Runs -> SUBSET SUBSET Names]
    BY <1>1, <1>5 DEF LeavePage, TypeOK
  <2>3. \A s \in Runs : saved'[s] \subseteq tried'[s]
    BY <1>1, <1>6 DEF TypeOK, NoPage
  <2>4. troubled' \subseteq Runs
    BY <1>1, <1>5 DEF TypeOK
  <2>5. faults' \in 0..MaxFaults
    BY <1>1, BoundAssumption DEF FinishPage, FailPage, TypeOK
  <2>6. QED
    BY <1>1, <1>6, <2>1, <2>2, <2>3, <2>4, <2>5 DEF TypeOK
<1>9. ItemsInv'
  <2>1. Distinct(items'[r])
    BY <1>1, <1>3, <1>5, <1>7 DEF ItemsInv, Distinct
  <2>2. \A d \in Comments : ItemOK(d, items[r][d])'
    BY <1>1, <1>5, <1>6, <1>7 DEF ItemsInv, ItemOK
  <2>3. ASSUME NEW s \in Runs \ {r}
        PROVE  Distinct(items'[s]) /\ \A d \in Comments : ItemOK(d, items[s][d])'
    BY <1>1, <1>6, <1>7 DEF ItemsInv, Distinct, ItemOK
  <2>4. QED
    BY <2>1, <2>2, <2>3 DEF ItemsInv, Distinct
<1>10. MetaInv'
  BY <1>6, <1>9 DEF MetaInv, ItemsInv, Distinct, ItemOK
<1>11. PlaceInv' /\ DiskInv'
  BY <1>1, <1>6 DEF PlaceInv, Live, DiskInv
<1>12. TodoInv'
  BY <1>1, <1>6, <1>7 DEF TodoInv
<1>13. VisitInv'
  <2>1. ASSUME NEW s \in Runs \ {r}
        PROVE  /\ pc'[s] \in {"new", "collected", "looked"} => NoPage(s)'
               /\ \A d \in Comments : IsTarget(s, d)' => PageOK(s, d)'
    BY <1>1, <1>6, <1>7, OthersVisit
  <2>2. \A d \in Comments : PageOK(r, d)'
    BY <1>6 DEF NoPage, PageOK
  <2>3. QED
    BY <1>6, <2>1, <2>2 DEF VisitInv
<1>14. CleanInv'
  <2>1. Active' = Active
    BY <1>6 DEF Active
  <2>2. ASSUME NEW s \in Active \ troubled'
        PROVE  /\ s = r /\ Active = {r} /\ item.downloaded /\ item.url
               /\ \A d \in Comments : items[r][d] # None => items[r][d].url
               /\ meta = items[r]
               /\ \A d \in Comments \ todo[r] : meta[d] # None => meta[d].downloaded
    <3>1. s \notin troubled /\ s = r /\ pc[r] = "fetching"
      BY <1>2, <1>3, <1>5 DEF IsTarget
    <3>2. /\ Active = {r} /\ meta = items[r] /\ saved[r] = tried[r]
          /\ \A d \in Comments : items[r][d] # None => items[r][d].url
          /\ \A d \in Comments \ todo[r] : meta[d] # None => meta[d].downloaded
      BY <1>1, <1>3, <3>1 DEF CleanInv
    <3>3. QED
      BY <1>3, <1>5, <2>2, <3>1, <3>2
  <2>3. ASSUME NEW s \in Active \ troubled'
        PROVE  /\ \A d \in Comments : items'[r][d] # None => items'[r][d].url
               /\ \A d \in Comments \ todo'[r] : meta'[d] # None => meta'[d].downloaded
    <3>1. ASSUME NEW d \in Comments \ {c}
          PROVE  /\ items'[r][d] # None => items'[r][d].url
                 /\ d \notin todo'[r] /\ meta'[d] # None => meta'[d].downloaded
      BY <1>6, <1>7, <2>2, <3>1
    <3>2. items'[r][c].url /\ meta'[c].downloaded
      BY <1>6, <1>7, <2>2
    <3>3. QED
      BY <3>1, <3>2
  <2>4. QED
    BY <1>6, <2>1, <2>2, <2>3 DEF CleanInv, NoPage
<1>15. QED
  BY <1>8, <1>9, <1>10, <1>11, <1>12, <1>13, <1>14 DEF IInv

LEMMA EndStep ==
    ASSUME IInv, NEW r \in Runs, End(r)
    PROVE  IInv'
<1>1. TypeOK /\ PlaceInv /\ MetaInv /\ ItemsInv /\ DiskInv /\ TodoInv /\ VisitInv /\ CleanInv
  BY DEF IInv
<1>2. /\ pc[r] = "fetching" /\ pc'[r] = "done" /\ todo[r] = {}
      /\ \A s \in Runs \ {r} : pc'[s] = pc[s]
      /\ UNCHANGED <<place, gone, disk, meta, items, todo, tried, saved, got, boxes, late>>
      /\ UNCHANGED <<crashes, faults, seen, troubled, bundled>>
  BY <1>1 DEF End, TypeOK, site, visit, page, bounds, history
<1>3. TypeOK'
  BY <1>1, <1>2 DEF End, TypeOK
<1>4. PlaceInv' /\ MetaInv' /\ ItemsInv' /\ DiskInv' /\ TodoInv'
  BY <1>1, <1>2 DEF PlaceInv, Live, MetaInv, ItemsInv, Distinct, ItemOK, DiskInv, TodoInv
<1>5. VisitInv'
  BY <1>1, <1>2 DEF VisitInv, NoPage, PageOK, Storable, IsTarget
<1>6. CleanInv'
  <2>1. Active' = Active \ {r} /\ r \in Active
    BY <1>2 DEF Active
  <2>2. Active' \ troubled' = {}
    BY <1>2, <2>1, CleanIsAlone
  <2>3. QED
    BY <2>2 DEF CleanInv
<1>7. QED
  BY <1>3, <1>4, <1>5, <1>6 DEF IInv

LEMMA CrashStep ==
    ASSUME IInv, NEW torn \in BOOLEAN, Crash(torn)
    PROVE  IInv'
<1> USE NoneAssumption, BoundAssumption
<1>1. TypeOK /\ PlaceInv /\ MetaInv /\ ItemsInv /\ DiskInv /\ TodoInv /\ VisitInv /\ CleanInv
  BY DEF IInv
<1>2. /\ meta' = meta \/ meta' = NoItems
      /\ pc' = [r \in Runs |-> IF r \in Active THEN "dead" ELSE pc[r]]
      /\ todo' = [r \in Runs |-> {}] /\ troubled' = troubled \union Active
      /\ crashes' \in 0..MaxCrashes
      /\ \A r \in Runs : NoPage(r)'
      /\ UNCHANGED <<place, gone, disk, items, faults, seen, bundled>>
  BY <1>1 DEF Crash, NoPage, TypeOK, site
<1>3. Active' = {}
  BY <1>2 DEF Active
<1>4. TypeOK'
  <2>1. /\ tried' \in [Runs -> SUBSET Names] /\ saved' \in [Runs -> SUBSET Names]
        /\ got' \in [Runs -> SUBSET Stored] /\ boxes' \in [Runs -> SUBSET Names]
        /\ late' \in [Runs -> SUBSET SUBSET Names]
    BY DEF Crash
  <2>2. QED
    BY <1>1, <1>2, <2>1 DEF TypeOK, NoItems, NoPage, Active
<1>5. MetaInv'
  BY <1>1, <1>2 DEF MetaInv, Distinct, ItemOK, NoItems
<1>6. PlaceInv' /\ ItemsInv' /\ DiskInv' /\ TodoInv' /\ CleanInv'
  BY <1>1, <1>2, <1>3 DEF PlaceInv, Live, ItemsInv, Distinct, ItemOK, DiskInv, TodoInv, CleanInv
<1>7. VisitInv'
  BY <1>1, <1>2 DEF VisitInv, IsTarget, Active
<1>8. QED
  BY <1>4, <1>5, <1>6, <1>7 DEF IInv

LEMMA InvStep == IInv /\ [Next]_vars => IInv'
<1> SUFFICES ASSUME IInv, [Next]_vars
             PROVE  IInv'
  OBVIOUS
<1>1. CASE UNCHANGED vars
  <2>1. /\ UNCHANGED <<place, gone, disk, meta, pc, items, todo, tried, saved, got, boxes, late>>
        /\ UNCHANGED <<crashes, faults, seen, troubled, bundled>>
    BY <1>1 DEF vars, site, run, visit, page, bounds, history
  <2>2. TypeOK' /\ PlaceInv'
    BY <2>1 DEF IInv, TypeOK, PlaceInv, Live
  <2>3. (MetaInv /\ ItemsInv /\ DiskInv /\ TodoInv /\ VisitInv /\ CleanInv)'
    BY <2>1 DEF IInv, MetaInv, ItemsInv, Distinct, ItemOK, DiskInv, Storable, TodoInv, VisitInv,
                NoPage, PageOK, IsTarget, CleanInv, Active
  <2>4. QED
    BY <2>2, <2>3 DEF IInv
<1>2. CASE (\E c \in Comments : Remove(c) \/ \E i \in Positions : Post(c, i))
             \/ (\E i \in Positions : PostPlain(i))
  BY <1>2, SiteStep
<1>3. CASE \E r \in Runs : \E found \in SUBSET Live : Collect(r, found)
  BY <1>3, CollectStep
<1>4. CASE \E r \in Runs : SaveLookup(r) \/ ReadMeta(r) \/ End(r)
  BY <1>4, SaveLookupStep, ReadMetaStep, EndStep
<1>5. CASE \E r \in Runs : Page(r)
  BY <1>5, RowStep, PageStep DEF Page
<1>6. CASE \E torn \in BOOLEAN : Crash(torn)
  BY <1>6, CrashStep
<1>7. QED
  BY <1>1, <1>2, <1>3, <1>4, <1>5, <1>6 DEF Next

------------------------------------------------------------------------------
\* The inductive invariant holds in every reachable state.
THEOREM InvariantHolds == Spec => []IInv
BY InvInit, InvStep, PTL DEF Spec

\* Every variable keeps its type.
THEOREM TypeCorrect == Spec => []TypeOK
<1>1. IInv => TypeOK
  BY DEF IInv
<1>2. QED
  BY <1>1, InvariantHolds, PTL

\* An item that counts as downloaded has all its files on the disk (the end of a
\* page in DownloadCommentAttachmentsAction), whatever crashed, overlapped or came late,
\* unless a file of it was asked for with another whose box had stayed checked.
THEOREM DownloadedAlwaysComplete == Spec => []DownloadedIsComplete
<1>1. IInv => DownloadedIsComplete
  BY DEF IInv, MetaInv, ItemOK, DownloadedIsComplete
<1>2. QED
  BY <1>1, InvariantHolds, PTL

\* Every listed file is served, and is of its comment, while no run found the
\* comments elsewhere (list_comment_attachments).
THEOREM ServedAlwaysOwnUnlessMoved == Spec => []ServedIsOwnUnlessMoved
<1>1. IInv => ServedIsOwnUnlessMoved
  <2> SUFFICES ASSUME IInv, NEW c \in Comments, meta[c] # None, NEW p \in meta[c].paths,
                      Unmoved(c, p[2])
               PROVE  Served(c, p) = c
    BY DEF ServedIsOwnUnlessMoved
  <2>1. meta[c] \in Item /\ p \in Paths /\ p[1] \in Positions
    BY DEF IInv, TypeOK, Item, Paths
  <2>2. /\ <<c, p[1]>> \in seen /\ disk[p] # None
    BY DEF IInv, MetaInv, ItemOK
  <2>3. p = <<meta[c].index, p[2]>>
    BY <2>1, <2>2 DEF Unmoved, Paths
  <2>4. disk[p] \in Comments /\ <<disk[p], p[1]>> \in seen /\ p[2] \in Storable(disk[p])
    BY <2>1, <2>2 DEF IInv, TypeOK, DiskInv
  <2>5. p[1] = meta[c].index
    BY <2>1, <2>2 DEF Unmoved
  <2>6. disk[p] = c
    BY <2>4, <2>5 DEF Unmoved, Storable
  <2>7. QED
    BY <2>3, <2>6 DEF Served
<1>2. QED
  BY <1>1, InvariantHolds, PTL

\* A run that is alone and meets no failure leaves every comment it found
\* complete, whatever state the runs before it left, but for a comment that an earlier
\* run took for complete by a file that was not its own.
THEOREM CleanRunAlwaysCompletes == Spec => CleanRunCompletes
<1>1. ASSUME IInv, NEW r \in Runs, End(r), r \notin troubled, NEW c \in Comments, meta[c] # None
      PROVE  /\ meta[c].downloaded
             /\ c \notin bundled => {p[2] : p \in meta[c].paths} = Files[c]
  <2>1. r \in Active \ troubled /\ pc[r] = "fetching" /\ todo[r] = {}
    BY <1>1 DEF End, Active
  <2>2. meta[c].downloaded
    BY <1>1, <2>1 DEF IInv, CleanInv
  <2>3. QED
    BY <1>1, <2>2 DEF IInv, MetaInv, ItemOK
<1>2. IInv /\ [Next]_vars =>
          [\A r \in Runs : End(r) /\ r \notin troubled =>
              \A c \in Comments : meta[c] # None =>
                  /\ meta[c].downloaded
                  /\ c \notin bundled => {p[2] : p \in meta[c].paths} = Files[c]]_vars
  BY <1>1
<1>3. QED
  BY <1>2, InvariantHolds, PTL DEF Spec, CleanRunCompletes

==============================================================================
