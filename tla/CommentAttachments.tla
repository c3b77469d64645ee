-------------------------- MODULE CommentAttachments --------------------------
(***************************************************************************)
(* How the puller fetches the attachments of the comments of one defect    *)
(* (the last two actions of puller/core/action.py), and what its API then  *)
(* serves (puller/ui/api/main.py).  A run reads the comments of the page,  *)
(* writes them to a metadata file with the state an earlier run left       *)
(* there, and downloads what is not complete.  Files are kept under the    *)
(* position of their comment.  Runs of one defect share the directory and  *)
(* the metadata file, and interleave at every await.                       *)
(***************************************************************************)
EXTENDS Naturals

CONSTANTS
    Comments,      \* comments with attachments, each with a URL of its own
    Names,         \* names of files
    Bundle,        \* the name of what the site gives for several rows at once
    Files,         \* the names of the files of each comment
    Runs,          \* bound: runs ever started
    MaxPositions,  \* bound: comments that are on the page at once
    MaxCrashes,    \* bound: crashes of the process
    MaxFaults,     \* bound: rows that fail or whose box stays checked, pages that fail
    None

ASSUME FilesAssumption == Files \in [Comments -> (SUBSET Names) \ {{}}] /\ Bundle \notin Names
ASSUME BoundAssumption == {MaxPositions, MaxCrashes, MaxFaults} \subseteq Nat

Positions == 1..MaxPositions
Stored    == Names \union {Bundle}
Paths     == Positions \X Stored
Item      == [index : Positions, url : BOOLEAN, downloaded : BOOLEAN, paths : SUBSET Paths]

ASSUME NoneAssumption == None \notin Comments \union Item

VARIABLES
    place,     \* the position of each comment on the site, 0 when it is not there
    gone,      \* comments deleted on the site
    disk,      \* whose file there is at a position, under a name
    meta,      \* comment_attachments_meta.json: the item of each comment, or None
    pc,        \* of every run
    items,     \* the items a run has in memory
    todo,      \* the comments a run has still to visit
    tried,     \* the files of the present page that the run has tried
    saved,     \* those of them it has recorded as saved
    got,       \* the files it has saved for them
    boxes,     \* those of them whose box is still checked
    late,      \* downloads of the page that have not come: for which files each was asked
    crashes,   \* bounded by MaxCrashes
    faults,    \* bounded by MaxFaults
    seen,      \* history variable: the comments runs found, with their positions
    troubled,  \* history variable: runs that were not alone, or met a failure
    bundled    \* history variable: comments of which a file was asked for with another

site    == <<place, gone>>
page    == <<tried, saved, got, boxes, late>>
visit   == <<todo, page>>
run     == <<pc, items, visit>>
history == <<seen, troubled, bundled>>
bounds  == <<crashes, faults>>
vars    == <<site, disk, meta, run, bounds, history>>

NoItems == [c \in Comments |-> None]

Live == {c \in Comments : place[c] # 0}

\* Runs between their start and their end.
Active == {r \in Runs : pc[r] \notin {"new", "done", "dead"}}

Init ==
    /\ place    = [c \in Comments |-> 0]
    /\ gone     = {}
    /\ disk     = [p \in Paths |-> None]
    /\ meta     = NoItems
    /\ pc       = [r \in Runs |-> "new"]
    /\ items    = [r \in Runs |-> NoItems]
    /\ todo     = [r \in Runs |-> {}]
    /\ tried    = [r \in Runs |-> {}]
    /\ saved    = [r \in Runs |-> {}]
    /\ got      = [r \in Runs |-> {}]
    /\ boxes    = [r \in Runs |-> {}]
    /\ late     = [r \in Runs |-> {}]
    /\ crashes  = 0
    /\ faults   = 0
    /\ seen     = {}
    /\ troubled = {}
    /\ bundled  = {}

------------------------------------------------------------------------------
\* The site.  Posting a comment moves those below it, as does one that has no
\* attachments; a deleted comment does not come back.
Below(i) ==
    [d \in Comments |-> IF d \in Live /\ place[d] >= i THEN place[d] + 1 ELSE place[d]]

Post(c, i) ==
    /\ c \notin Live \union gone
    /\ place' = [Below(i) EXCEPT ![c] = i]
    /\ \A d \in Comments : place'[d] <= MaxPositions
    /\ UNCHANGED <<gone, disk, meta, run, bounds, history>>

PostPlain(i) ==
    /\ place' = Below(i)
    /\ \A d \in Comments : place'[d] <= MaxPositions
    /\ UNCHANGED <<gone, disk, meta, run, bounds, history>>

Remove(c) ==
    /\ c \in Live
    /\ gone'  = gone \union {c}
    /\ place' = [d \in Comments |->
                    IF d = c THEN 0
                    ELSE IF place[d] > place[c] THEN place[d] - 1 ELSE place[d]]
    /\ UNCHANGED <<disk, meta, run, bounds, history>>

------------------------------------------------------------------------------
\* LookupCommentAttachmentAction: _collect_items and _enrich_with_urls.  A URL
\* is missing when the click on its link times out.
Collect(r, found) ==
    /\ pc[r] = "new"
    /\ found \subseteq Live
    /\ items' = [items EXCEPT ![r] = [c \in Comments |->
                    IF c \in Live
                    THEN [index |-> place[c], url |-> c \in found,
                          downloaded |-> FALSE, paths |-> {}]
                    ELSE None]]
    /\ pc' = [pc EXCEPT ![r] = "collected"]
    /\ seen' = seen \union {<<c, place[c]>> : c \in Live}
    /\ troubled' = troubled \union (IF Active = {} THEN {} ELSE Active \union {r})
                            \union (IF found = Live THEN {} ELSE {r})
    /\ UNCHANGED <<site, disk, meta, visit, bounds, bundled>>

\* The state an earlier run left for an item, which it finds by the URL.
Resumed(c, item) ==
    IF item.url /\ meta[c] # None /\ meta[c].url
    THEN [item EXCEPT !.downloaded = meta[c].downloaded, !.paths = meta[c].paths]
    ELSE item

\* The end of the lookup: _load_existing_meta and _save_meta.
SaveLookup(r) ==
    /\ pc[r] = "collected"
    /\ meta' = [c \in Comments |->
                   IF items[r][c] = None THEN None ELSE Resumed(c, items[r][c])]
    /\ items' = [items EXCEPT ![r] = meta']
    /\ pc' = [pc EXCEPT ![r] = "looked"]
    /\ UNCHANGED <<site, disk, visit, bounds, history>>

\* Mutant of Unfinished: a comment of which there are files counts as complete.
UnfinishedEmpty(m) == {c \in Comments : m[c] # None /\ m[c].url /\ m[c].paths = {}}

Unfinished(m) == {c \in Comments : m[c] # None /\ m[c].url /\ ~m[c].downloaded}

\* DownloadCommentAttachmentsAction reads the file, whoever wrote it.
ReadMeta(r) ==
    /\ pc[r] = "looked"
    /\ items' = [items EXCEPT ![r] = meta]
    /\ todo'  = [todo EXCEPT ![r] = Unfinished(meta)]
    /\ pc'    = [pc EXCEPT ![r] = "fetching"]
    /\ UNCHANGED <<site, disk, meta, page, bounds, history>>

\* The targets are visited in the order of the comments.
IsTarget(r, c) ==
    /\ pc[r] = "fetching"
    /\ c \in todo[r]
    /\ \A d \in todo[r] : items[r][c].index <= items[r][d].index

\* A row of the page: its box is checked, the button is clicked, the next download
\* of the page is taken for the row's, and the box is unchecked.  The site gives the
\* file of the row whose box is checked, and for several one of theirs or a bundle.
Asked(r, n) == boxes[r] \union {n}

FilesOf(download) ==
    IF \E n \in Names : download = {n} THEN download ELSE download \union {Bundle}

\* The row is recorded as saved before its box is unchecked.  When that times out, it
\* is tried again, and what it raises then is swallowed.
Uncheck(r, n) ==
    \/ UNCHANGED <<boxes, troubled, faults>>
    \/ /\ faults < MaxFaults /\ faults' = faults + 1
       /\ boxes' = [boxes EXCEPT ![r] = @ \union {n}] /\ troubled' = troubled \union {r}

\* The download that comes in time is the row's, or one that was late.
SaveFile(r, c, n) ==
    /\ IsTarget(r, c)
    /\ n \in Files[c] \ tried[r]
    /\ \E download \in late[r] \union {Asked(r, n)} : \E file \in FilesOf(download) :
          /\ late' = [late EXCEPT ![r] = (@ \union {Asked(r, n)}) \ {download}]
          /\ disk' = [disk EXCEPT ![<<items[r][c].index, file>>] = c]
          /\ got'  = [got EXCEPT ![r] = @ \union {file}]
    /\ tried'   = [tried EXCEPT ![r] = @ \union {n}]
    /\ saved'   = [saved EXCEPT ![r] = @ \union {n}]
    /\ bundled' = bundled \union {d \in {c} : Asked(r, n) # {n}}
    /\ Uncheck(r, n)
    /\ UNCHANGED <<site, meta, pc, items, todo, crashes, seen>>

\* None comes in time, or the box cannot be checked, or the button not be clicked.
MissFile(r, c, n) ==
    /\ IsTarget(r, c)
    /\ n \in Files[c] \ tried[r]
    /\ faults < MaxFaults /\ faults' = faults + 1
    /\ tried' = [tried EXCEPT ![r] = @ \union {n}]
    /\ late' \in {late, [late EXCEPT ![r] = @ \union {Asked(r, n)}]}
    /\ boxes' \in {boxes, [boxes EXCEPT ![r] = @ \union {n}]}
    /\ troubled' = troubled \union {r}
    /\ UNCHANGED <<site, disk, meta, pc, items, todo, saved, got, crashes, seen, bundled>>

\* After each page the run writes all it has in memory.  The next page is loaded
\* anew: no box is checked, and the browser drops the downloads it still waits for.
LeavePage(r, c, item) ==
    /\ items' = [items EXCEPT ![r][c] = item]
    /\ meta'  = items'[r]
    /\ todo'  = [todo EXCEPT ![r] = @ \ {c}]
    /\ tried' = [tried EXCEPT ![r] = {}]
    /\ saved' = [saved EXCEPT ![r] = {}]
    /\ got'   = [got EXCEPT ![r] = {}]
    /\ boxes' = [boxes EXCEPT ![r] = {}]
    /\ late'  = [late EXCEPT ![r] = {}]
    /\ UNCHANGED <<site, disk, pc, crashes, seen, bundled>>

\* Mutants of Outcome: one file is enough; every row of the page is recorded.
OutcomeAny(r, c) ==
    [items[r][c] EXCEPT !.downloaded = saved[r] # {},
                        !.paths = {items[r][c].index} \X got[r]]

OutcomeEveryRow(r, c) ==
    [items[r][c] EXCEPT !.downloaded = saved[r] = Files[c],
                        !.paths = {items[r][c].index} \X tried[r]]

Outcome(r, c) ==
    [items[r][c] EXCEPT !.downloaded = saved[r] = Files[c],
                        !.paths = {items[r][c].index} \X got[r]]

FinishPage(r, c) ==
    /\ IsTarget(r, c)
    /\ tried[r] = Files[c]
    /\ LeavePage(r, c, Outcome(r, c))
    /\ UNCHANGED <<troubled, faults>>

\* An exception anywhere on the page: download_path stays what it was.
FailPage(r, c) ==
    /\ IsTarget(r, c)
    /\ faults < MaxFaults /\ faults' = faults + 1
    /\ LeavePage(r, c, [items[r][c] EXCEPT !.downloaded = FALSE])
    /\ troubled' = troubled \union {r}

End(r) ==
    /\ pc[r] = "fetching"
    /\ todo[r] = {}
    /\ pc' = [pc EXCEPT ![r] = "done"]
    /\ UNCHANGED <<site, disk, meta, items, visit, bounds, history>>

\* The process dies.  A run that was about to write may have truncated the
\* file, of which nothing can be read then.
Crash(torn) ==
    /\ crashes < MaxCrashes
    /\ crashes' = crashes + 1
    /\ torn => \E r \in Runs : pc[r] = "collected" \/ todo[r] # {}
    /\ meta' = IF torn THEN NoItems ELSE meta
    /\ pc' = [r \in Runs |-> IF r \in Active THEN "dead" ELSE pc[r]]
    /\ troubled' = troubled \union Active
    /\ todo'  = [r \in Runs |-> {}]
    /\ tried' = [r \in Runs |-> {}]
    /\ saved' = [r \in Runs |-> {}]
    /\ got'   = [r \in Runs |-> {}]
    /\ boxes' = [r \in Runs |-> {}]
    /\ late'  = [r \in Runs |-> {}]
    /\ UNCHANGED <<site, disk, items, faults, seen, bundled>>

------------------------------------------------------------------------------
Page(r) ==
    \E c \in Comments :
        \/ \E n \in Names : SaveFile(r, c, n) \/ MissFile(r, c, n)
        \/ FinishPage(r, c)
        \/ FailPage(r, c)

Next ==
    \/ \E c \in Comments : Remove(c) \/ \E i \in Positions : Post(c, i)
    \/ \E i \in Positions : PostPlain(i)
    \/ \E r \in Runs :
          \/ \E found \in SUBSET Live : Collect(r, found)
          \/ SaveLookup(r) \/ ReadMeta(r) \/ Page(r) \/ End(r)
    \/ \E torn \in BOOLEAN : Crash(torn)

Spec == Init /\ [][Next]_vars

------------------------------------------------------------------------------
TypeOK ==
    /\ place    \in [Comments -> 0..MaxPositions]
    /\ gone     \subseteq Comments
    /\ disk     \in [Paths -> Comments \union {None}]
    /\ meta     \in [Comments -> Item \union {None}]
    /\ pc       \in [Runs -> {"new", "collected", "looked", "fetching", "done", "dead"}]
    /\ items    \in [Runs -> [Comments -> Item \union {None}]]
    /\ todo     \in [Runs -> SUBSET Comments]
    /\ tried    \in [Runs -> SUBSET Names]
    /\ saved    \in [Runs -> SUBSET Names]
    /\ \A r \in Runs : saved[r] \subseteq tried[r]
    /\ got      \in [Runs -> SUBSET Stored]
    /\ boxes    \in [Runs -> SUBSET Names]
    /\ late     \in [Runs -> SUBSET SUBSET Names]
    /\ crashes  \in 0..MaxCrashes
    /\ faults   \in 0..MaxFaults
    /\ seen     \subseteq Comments \X Positions
    /\ troubled \subseteq Runs
    /\ bundled  \subseteq Comments

\* An item that counts as downloaded, and is therefore skipped from now on, has
\* every file of its page on the disk, whatever runs overlapped, were cut short
\* or failed, and whatever came late, unless a file of it was ever asked for
\* together with one whose box stayed checked: then a row counts as saved by the
\* file of another or by a bundle (action.py, the end of a page).
DownloadedIsComplete ==
    \A c \in Comments :
        meta[c] # None /\ meta[c].downloaded =>
            /\ c \notin bundled => {p[2] : p \in meta[c].paths} = Files[c]
            /\ \A p \in meta[c].paths : disk[p] # None

\* The file that the API serves for a path of an item: it looks under the
\* position the comment has now (main.py, list_comment_attachments).
Served(c, p) == disk[<<meta[c].index, p[2]>>]

\* No run found the comment elsewhere, nor at its position another one of which
\* there may be a file of that name.
Unmoved(c, name) ==
    /\ \A i \in Positions : <<c, i>> \in seen => i = meta[c].index
    /\ \A d \in Comments :
          <<d, meta[c].index>> \in seen /\ name \in Files[d] \union {Bundle} => d = c

\* Every file that is listed for a comment is served, and is of that comment,
\* while the comments keep their positions.
ServedIsOwnUnlessMoved ==
    \A c \in Comments : meta[c] # None =>
        \A p \in meta[c].paths : Unmoved(c, p[2]) => Served(c, p) = c

\* The design document of the puller, lines 119 and 120: the directory of an
\* index has the attachments of the comment at that index.
ServedIsOwn ==
    \A c \in Comments : meta[c] # None => \A p \in meta[c].paths : Served(c, p) = c

\* The same document, line 151: a run that is repeated completes what is
\* missing, whatever state the runs before it left.  A run that is alone and
\* meets no failure ends with every comment it found complete, but for those
\* that an earlier run took for complete by a file that was not theirs.
CleanRunCompletes ==
    [][\A r \in Runs : End(r) /\ r \notin troubled =>
          \A c \in Comments : meta[c] # None =>
              /\ meta[c].downloaded
              /\ c \notin bundled => {p[2] : p \in meta[c].paths} = Files[c]]_vars

==============================================================================
