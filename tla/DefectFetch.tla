----------------------------- MODULE DefectFetch -----------------------------
(***************************************************************************)
(* How a defect gets into the workspace: POST /api/defect/fetch of the     *)
(* backend (backend/routers/puller.py), its client of the puller           *)
(* (backend/puller_client.py), and the jobs and the file service of the    *)
(* puller (puller/ui/api/main.py).  A fetch starts a job of the puller,    *)
(* polls it, copies the files the puller holds one chunk at a time,        *)
(* unpacks the archives, copies the attachments of the comments and writes *)
(* meta.json.  Fetches of one defect share the puller's directory and the  *)
(* workspace, and interleave at every await.  There is one defect: nothing *)
(* is shared between two.                                                  *)
(***************************************************************************)
EXTENDS Integers, FiniteSets, SequencesExt

CONSTANTS
    Fetches,      \* bound: requests for the defect
    Place,        \* of every file of the workspace in the order of sorted()
    Files,        \* the files the site offers
    Attachments,  \* the attachments of its comments
    UserFiles,    \* files a user adds below user_added_log
    Unspeakable,  \* files whose name does not survive in a URL ("#", "?")
    Inside,       \* archive -> the files in it, in its own folder
    MaxExtract,   \* MAX_EXTRACT_FILES
    Chunks,       \* DOWNLOAD_CHUNK_SIZE: the chunks every file has
    MaxCrashes    \* bound: restarts of the backend and of the puller

Names    == DOMAIN Place
Archives == DOMAIN Inside
Nothing     == "none"

\* The site's files, the attachments and the user's files have folders of their own.
ASSUME NamesAssumption ==
    /\ Place \in [Names -> Int] /\ \A n, m \in Names : Place[n] = Place[m] => n = m
    /\ Files \union Attachments \union UserFiles \subseteq Names /\ Nothing \notin Names
    /\ Files \cap Attachments = {} /\ UserFiles \cap (Files \union Attachments) = {}
    /\ Archives \subseteq Names
    /\ \A a \in Archives : Inside[a] \in Seq(Names)
ASSUME FetchBoundAssumption ==
    MaxExtract \in Nat /\ Chunks \in Nat \ {0} /\ MaxCrashes \in Nat

\* The content of a file: the chunks that are right.  The body of an error
\* answer, or another file of that name, is no chunk of the file: "chunk" 0.
Absent == {}
Empty  == {Chunks + 1}
Whole  == 1..Chunks
Other  == {0}

VARIABLES
    stage,          \* of every fetch
    pjob,        \* jobs of the puller: the job of each fetch
    unsaved,     \* the files a job of the puller has still to download
    copying,     \* the file a job of the puller is writing
    pdir,        \* the puller's directory: "absent", "partial" or "whole"
    pattached,   \* attachments the puller's metadata reports as downloaded
    todo,        \* the files a fetch has still to copy
    offset,      \* the next chunk of the file being copied, 0: not open
    downloaded,  \* local variable of defect_fetch
    origins,     \* the archive_origins of every fetch
    items,       \* the attachments comment_attachment_items has files of
    unpack,      \* locals of the one _extract_archives_recursive there is
    disk,        \* the workspace of the defect
    meta,        \* meta.json: "absent", "empty" or the record of a fetch
    crashes,     \* bounded by MaxCrashes
    disturbed,   \* marks variable: fetches that were not alone
    torn,        \* marks variable: files a restart left half saved
    refetches    \* marks variable: fetches that found something unpacked

puller  == <<pjob, unsaved, copying, pdir, pattached>>
local   == <<todo, offset, downloaded, origins, items, unpack>>
marks == <<disturbed, torn, refetches>>
fetchVars    == <<stage, puller, local, disk, meta, crashes, marks>>

Active == {f \in Fetches : stage[f] \notin {"new", "done", "failed", "dead"}}

Present == {n \in Names : disk[n] # Absent}

\* The one that comes first, in a set of its own.
First(S) == {n \in S : \A m \in S : Place[n] <= Place[m]}

\* At the start of an extraction.
Packed == [round |-> {}, processed |-> {}, total |-> 0, stopped |-> FALSE]

FetchInit ==
    /\ stage         = [f \in Fetches |-> "new"]
    /\ pjob       = [f \in Fetches |-> Nothing]
    /\ unsaved    = [f \in Fetches |-> {}]
    /\ copying    = [f \in Fetches |-> Nothing]
    /\ pdir       = [n \in Files |-> "absent"]
    /\ pattached  = {}
    /\ todo       = [f \in Fetches |-> {}]
    /\ offset     = [f \in Fetches |-> 0]
    /\ downloaded = [f \in Fetches |-> {}]
    /\ origins    = [f \in Fetches |-> <<>>]
    /\ items      = [f \in Fetches |-> {}]
    /\ unpack     = Packed
    /\ disk       = [n \in Names |-> Absent]
    /\ meta       = [state |-> "absent"]
    /\ crashes    = 0
    /\ disturbed  = {}
    /\ torn       = {}
    /\ refetches  = {}

------------------------------------------------------------------------------
\* The puller.

RunningJobs == {f \in Fetches : pjob[f] = "running"}

\* IndividualDownloadAction: one file after the other, copied by the browser.
SaveFile(f, n) ==
    /\ pjob[f] = "running"
    /\ copying[f] = Nothing
    /\ n \in unsaved[f]
    /\ copying' = [copying EXCEPT ![f] = n]
    /\ pdir'    = [pdir EXCEPT ![n] = "partial"]
    /\ UNCHANGED <<stage, pjob, unsaved, pattached, local, disk, meta, crashes, marks>>

FileSaved(f) ==
    /\ pjob[f] = "running"
    /\ copying[f] # Nothing
    /\ pdir'    = [pdir EXCEPT ![copying[f]] = "whole"]
    /\ unsaved' = [unsaved EXCEPT ![f] = @ \ {copying[f]}]
    /\ copying' = [copying EXCEPT ![f] = Nothing]
    /\ UNCHANGED <<stage, pjob, pattached, local, disk, meta, crashes, marks>>

\* A download that times out is recorded in the result, and the next is tried.
FileFails(f, n) ==
    /\ pjob[f] = "running"
    /\ copying[f] = Nothing
    /\ n \in unsaved[f]
    /\ unsaved' = [unsaved EXCEPT ![f] = @ \ {n}]
    /\ UNCHANGED <<stage, pjob, copying, pdir, pattached, local, disk, meta, crashes, marks>>

\* _run_final_job: the run ends well, ends with success: False, or raises, which
\* it may do while a file is written.
JobEnds(f, how) ==
    /\ pjob[f] = "running"
    /\ how = "done" => unsaved[f] = {}
    /\ copying[f] # Nothing => how = "error"
    /\ pjob'    = [pjob EXCEPT ![f] = how]
    /\ unsaved' = [unsaved EXCEPT ![f] = {}]
    /\ copying' = [copying EXCEPT ![f] = Nothing]
    /\ torn'    = torn \union ({copying[f]} \ {Nothing})
    /\ \E got \in SUBSET Attachments : pattached' = pattached \union got
    /\ UNCHANGED <<stage, pdir, local, disk, meta, crashes, disturbed, refetches>>

Outcomes == {"done", "unsuccessful", "error"}

\* The jobs are in memory: a restart forgets them, and what they were copying
\* stays as it is.
PullerRestart ==
    /\ crashes < MaxCrashes
    /\ \E f \in Fetches : pjob[f] \notin {Nothing, "gone"}
    /\ pjob'    = [f \in Fetches |-> IF pjob[f] = Nothing THEN Nothing ELSE "gone"]
    /\ unsaved' = [f \in Fetches |-> {}]
    /\ copying' = [f \in Fetches |-> Nothing]
    /\ torn'    = torn \union {n \in Files : pdir[n] = "partial"}
    /\ crashes' = crashes + 1
    /\ UNCHANGED <<stage, pdir, pattached, local, disk, meta, disturbed, refetches>>

------------------------------------------------------------------------------
\* The backend: one event loop, which does not switch while meta.json is
\* written or archives are unpacked.

LoopFree == \A f \in Fetches : stage[f] \notin {"extracting", "writing"}

\* POST /api/final/start, whose background task is the job.
StartJob(f, next) ==
    /\ LoopFree
    /\ stage[f] = "new"
    /\ stage'      = [stage EXCEPT ![f] = next]
    /\ pjob'    = [pjob EXCEPT ![f] = "running"]
    /\ unsaved' = [unsaved EXCEPT ![f] = Files]
    /\ disturbed' = disturbed \union {g \in Fetches : stage[g] # "new"}
                              \union (IF Active \union RunningJobs = {} THEN {} ELSE {f})
    /\ UNCHANGED <<copying, pdir, pattached, local, disk, meta, crashes, torn, refetches>>

Start(f)     == StartJob(f, "polling")   \* _fetch_defect_async
StartSync(f) == StartJob(f, "waiting")   \* _fetch_defect_sync

\* Mutant of Poll: a job that is not there counts as running.
PollPatient(f) ==
    /\ LoopFree
    /\ stage[f] = "polling"
    /\ pjob[f] \in Outcomes
    /\ pjob' = [pjob EXCEPT ![f] = "gone"]
    /\ stage'   = [stage EXCEPT ![f] = IF pjob[f] = "done" THEN "listing" ELSE "failed"]
    /\ UNCHANGED <<unsaved, copying, pdir, pattached, local, disk, meta, crashes, marks>>

\* Mutant of Poll: an answer that is no failure is taken for the result.
PollHasty(f) ==
    /\ LoopFree
    /\ stage[f] = "polling"
    /\ pjob' = [pjob EXCEPT ![f] = IF @ = "running" THEN @ ELSE "gone"]
    /\ stage'   = [stage EXCEPT ![f] =
                      IF pjob[f] \in {"running", "done"} THEN "listing" ELSE "failed"]
    /\ UNCHANGED <<unsaved, copying, pdir, pattached, local, disk, meta, crashes, marks>>

\* GET /api/job/{id}: the first answer with an outcome deletes the job, and a
\* job that is not there is a 404, which raise_for_status raises.
Poll(f) ==
    /\ LoopFree
    /\ stage[f] = "polling"
    /\ pjob[f] # "running"
    /\ pjob' = [pjob EXCEPT ![f] = "gone"]
    /\ stage'   = [stage EXCEPT ![f] = IF pjob[f] = "done" THEN "listing" ELSE "failed"]
    /\ UNCHANGED <<unsaved, copying, pdir, pattached, local, disk, meta, crashes, marks>>

\* The answer of POST /api/final.
Answer(f) ==
    /\ LoopFree
    /\ stage[f] = "waiting"
    /\ pjob[f] # "running"
    /\ stage' = [stage EXCEPT ![f] = IF pjob[f] = "done" THEN "listing" ELSE "failed"]
    /\ UNCHANGED <<puller, local, disk, meta, crashes, marks>>

\* GET /api/files/{id}.
ListFiles(f) ==
    /\ LoopFree
    /\ stage[f] = "listing"
    /\ todo' = [todo EXCEPT ![f] = {n \in Files : pdir[n] # "absent"}]
    /\ stage'   = [stage EXCEPT ![f] = "copying"]
    /\ UNCHANGED <<puller, offset, downloaded, origins, items, unpack, disk, meta, crashes,
                   marks>>

\* GET /api/comment_attachments/{id}: the files that are downloaded and have no
\* error.
ListAttachments(f) ==
    /\ LoopFree
    /\ stage[f] = "attachments"
    /\ todo'   = [todo EXCEPT ![f] = pattached]
    /\ items'  = [items EXCEPT ![f] = pattached]
    /\ stage'     = [stage EXCEPT ![f] = "attaching"]
    /\ UNCHANGED <<puller, offset, downloaded, origins, unpack, disk, meta, crashes, marks>>

\* _stream_to_file.  The response has begun before the file is opened and
\* emptied; a file the puller does not have is answered by a JSON body.
Served(n) == IF n \in Unspeakable THEN "absent"
             ELSE IF n \in Files THEN pdir[n] ELSE "whole"

OpenFile(f) ==
    /\ LoopFree
    /\ stage[f] \in {"copying", "attaching"}
    /\ offset[f] = 0
    /\ \E n \in First(todo[f]) :
       \/ /\ Served(n) = "whole"
          /\ disk'   = [disk EXCEPT ![n] = Empty]
          /\ offset' = [offset EXCEPT ![f] = 1]
       \/ /\ Served(n) = "absent"
          /\ disk'   = [disk EXCEPT ![n] = Other]
          /\ offset' = [offset EXCEPT ![f] = Chunks + 1]
       \/ /\ Served(n) = "partial"
          /\ disk'   = [disk EXCEPT ![n] = Empty]
          /\ offset' = [offset EXCEPT ![f] = Chunks + 1]
    /\ UNCHANGED <<stage, puller, todo, downloaded, origins, items, unpack, meta, crashes, marks>>

WriteChunk(f) ==
    /\ LoopFree
    /\ offset[f] \in Whole
    /\ \E n \in First(todo[f]) :
       /\ Served(n) = "whole"
       /\ disk' = [disk EXCEPT ![n] = (@ \ Empty) \union {offset[f]}]
    /\ offset' = [offset EXCEPT ![f] = @ + 1]
    /\ UNCHANGED <<stage, puller, todo, downloaded, origins, items, unpack, meta, crashes, marks>>

CloseFile(f) ==
    /\ LoopFree
    /\ offset[f] = Chunks + 1
    /\ offset' = [offset EXCEPT ![f] = 0]
    /\ todo'   = [todo EXCEPT ![f] = @ \ First(@)]
    /\ downloaded' = IF stage[f] = "copying"
                     THEN [downloaded EXCEPT ![f] = @ \union First(todo[f])]
                     ELSE downloaded
    /\ UNCHANGED <<stage, puller, origins, items, unpack, disk, meta, crashes, marks>>

\* _extract_archives_recursive.
Extract(f) ==
    /\ LoopFree
    /\ stage[f] = "copying"
    /\ todo[f] = {}
    /\ refetches' = IF \E a \in Archives : a \in Present /\ a \notin Files \union UserFiles
                    THEN refetches \union {f} ELSE refetches
    /\ stage' = [stage EXCEPT ![f] = "extracting"]
    /\ UNCHANGED <<puller, local, disk, meta, crashes, disturbed, torn>>

\* The archives that were not unpacked yet; a torn one is no zip file.
Pending == {a \in Archives \ unpack.processed : disk[a] = Whole}

\* A round looks for archives, also for those the last one unpacked, until there
\* are none.
NextRound(f) ==
    /\ stage[f] = "extracting"
    /\ unpack.round = {}
    /\ IF unpack.stopped \/ Pending = {}
       THEN stage' = [stage EXCEPT ![f] = "attachments"] /\ unpack' = Packed
       ELSE unpack' = [unpack EXCEPT !.round = Pending] /\ UNCHANGED stage
    /\ UNCHANGED <<puller, todo, offset, downloaded, origins, items, disk, meta, crashes,
                   marks>>

\* Mutant of Source: an archive from an archive is its own source.
SourceOwn(f, a) == a

\* The archive a file is said to come from.
Source(f, a) == IF a \in DOMAIN origins[f] THEN origins[f][a] ELSE a

\* One archive: its files up to the bound, over what is there.  What another
\* archive has replaced since is no zip file any more.
UnpackArchive(f) ==
    /\ stage[f] = "extracting"
    /\ \E a \in First(unpack.round) :
       LET entries == IF disk[a] = Whole THEN Inside[a] ELSE <<>>
           room    == MaxExtract - unpack.total
           taken   == {entries[i] : i \in (1..room) \cap DOMAIN entries}
           full    == Len(entries) > room
       IN  /\ disk[a] # Absent
           /\ disk' = [n \in Names |-> IF n \notin taken THEN disk[n]
                                        ELSE IF n \in Files \union Attachments
                                        THEN Other ELSE Whole]
           /\ origins' = [origins EXCEPT ![f] =
                [n \in taken \union DOMAIN @ |-> IF n \in taken THEN Source(f, a) ELSE @[n]]]
           /\ unpack' = [round     |-> IF full THEN {} ELSE unpack.round \ {a},
                         processed |-> unpack.processed \union {a},
                         total     |-> unpack.total + Len(entries),
                         stopped   |-> full]
    /\ UNCHANGED <<stage, puller, todo, offset, downloaded, items, meta, crashes, marks>>

\* The user has deleted it since the round began: the request fails.
ArchiveGone(f) ==
    /\ stage[f] = "extracting"
    /\ \E a \in First(unpack.round) : disk[a] = Absent
    /\ stage'     = [stage EXCEPT ![f] = "failed"]
    /\ unpack' = Packed
    /\ UNCHANGED <<puller, todo, offset, downloaded, origins, items, disk, meta, crashes, marks>>

\* A request to the puller fails.  Before the comments that ends the fetch; from
\* there on the items of the job's own result take the place of the list.  The
\* job of the puller knows nothing of it.
RequestFails(f) ==
    /\ LoopFree
    /\ stage' = [stage EXCEPT ![f] = IF @ \in {"attachments", "attaching"} THEN "saving"
                               ELSE "failed"]
    /\ pjob' = IF stage[f] = "polling" /\ pjob[f] # "running"
               THEN [pjob EXCEPT ![f] = "gone"] ELSE pjob
    /\ items'  = [items EXCEPT ![f] = {}]
    /\ todo'   = [todo EXCEPT ![f] = {}]
    /\ offset' = [offset EXCEPT ![f] = 0]
    /\ UNCHANGED <<unsaved, copying, pdir, pattached, downloaded, origins, unpack, disk, meta,
                   crashes, marks>>

\* It is lost or times out.
Drop(f) ==
    /\ stage[f] \in {"polling", "waiting", "listing", "copying", "attachments", "attaching"}
    /\ RequestFails(f)

\* The puller rewrites the file it is sending: the answer is cut short.
CutShort(f) ==
    /\ offset[f] \in Whole
    /\ \E n \in First(todo[f]) : Served(n) # "whole"
    /\ RequestFails(f)

Attached(f) ==
    /\ LoopFree
    /\ stage[f] = "attaching"
    /\ todo[f] = {}
    /\ stage' = [stage EXCEPT ![f] = "saving"]
    /\ UNCHANGED <<puller, local, disk, meta, crashes, marks>>

\* open(..., "w") and json.dump.
OpenMeta(f) ==
    /\ LoopFree
    /\ stage[f] = "saving"
    /\ meta' = [state |-> "empty"]
    /\ stage'   = [stage EXCEPT ![f] = "writing"]
    /\ UNCHANGED <<puller, local, disk, crashes, marks>>

WriteMeta(f) ==
    /\ stage[f] = "writing"
    /\ meta' = [state |-> "written", by |-> f, files |-> downloaded[f],
                archive_origins |-> origins[f], items |-> items[f]]
    /\ stage'   = [stage EXCEPT ![f] = "done"]
    /\ UNCHANGED <<puller, local, disk, crashes, marks>>

BackendRestart ==
    /\ crashes < MaxCrashes
    /\ Active # {}
    /\ stage'      = [f \in Fetches |-> IF f \in Active THEN "dead" ELSE stage[f]]
    /\ offset'  = [f \in Fetches |-> 0]
    /\ unpack'  = Packed
    /\ crashes' = crashes + 1
    /\ UNCHANGED <<puller, todo, downloaded, origins, items, disk, meta, marks>>

------------------------------------------------------------------------------
\* The files a user adds, in threads of their own (backend/routers/user_logs.py).

KnownDefect == meta.state # "absent"

AddUserLog(n) ==
    /\ KnownDefect
    /\ n \in UserFiles
    /\ disk[n] # Whole
    /\ disk' = [disk EXCEPT ![n] = Whole]
    /\ UNCHANGED <<stage, puller, local, meta, crashes, marks>>

DeleteUserLog(n) ==
    /\ KnownDefect
    /\ n \in UserFiles
    /\ disk[n] # Absent
    /\ disk' = [disk EXCEPT ![n] = Absent]
    /\ UNCHANGED <<stage, puller, local, meta, crashes, marks>>

PullerJob(f) ==
    \/ \E n \in Files : SaveFile(f, n)
    \/ FileSaved(f)
    \/ \E n \in Files : FileFails(f, n)
    \/ \E how \in Outcomes : JobEnds(f, how)

Fetch(f) ==
    \/ Poll(f) \/ Answer(f) \/ ListFiles(f) \/ ListAttachments(f)
    \/ OpenFile(f) \/ WriteChunk(f) \/ CloseFile(f)
    \/ Extract(f) \/ NextRound(f) \/ UnpackArchive(f) \/ ArchiveGone(f)
    \/ CutShort(f) \/ Attached(f) \/ OpenMeta(f) \/ WriteMeta(f)

FetchNext ==
    \/ \E f \in Fetches : PullerJob(f) \/ Fetch(f) \/ Drop(f) \/ Start(f) \/ StartSync(f)
    \/ PullerRestart \/ BackendRestart
    \/ \E n \in UserFiles : AddUserLog(n) \/ DeleteUserLog(n)

FetchSpec == FetchInit /\ [][FetchNext]_fetchVars

\* Neither event loop stops while something is ready, and a job of the puller
\* goes on: the actions of the browser have timeouts, except for the end of a
\* download it has begun.
Progress == \E f \in Fetches : PullerJob(f) \/ Fetch(f)

FairFetchSpec == FetchSpec /\ WF_fetchVars(Progress)

------------------------------------------------------------------------------
\* What the workspace shows (backend/routers/files.py): the files that are no
\* archives, no attachments and not the user's, with the archive they came from.

Shown == {n \in Present : n \notin Archives \union Attachments \union UserFiles}

Label(n) ==
    IF meta.state = "written" /\ n \in DOMAIN meta.archive_origins
    THEN meta.archive_origins[n] ELSE Nothing

Fetched == IF meta.state = "written" THEN meta.files \union meta.items ELSE {}

\* What _extract_archives_recursive returns: file -> the archive it came from.
Origins == UNION {[S -> Archives] : S \in SUBSET Names}

\* Every variable has a value of its type.
FetchTypeOK ==
    /\ stage \in [Fetches -> {"new", "polling", "waiting", "listing", "copying",
                           "extracting", "attachments", "attaching", "saving", "writing", "done",
                           "failed", "dead"}]
    /\ pjob \in [Fetches -> {Nothing, "running", "gone"} \union Outcomes]
    /\ unsaved \in [Fetches -> SUBSET Files]
    /\ copying \in [Fetches -> Files \union {Nothing}]
    /\ pdir \in [Files -> {"absent", "partial", "whole"}]
    /\ pattached \subseteq Attachments
    /\ todo \in [Fetches -> SUBSET Names] /\ downloaded \in [Fetches -> SUBSET Names]
    /\ offset \in [Fetches -> 0..Chunks + 1]
    /\ origins \in [Fetches -> Origins]
    /\ items \in [Fetches -> SUBSET Attachments]
    /\ disk \in [Names -> SUBSET (0..Chunks + 1)]
    /\ unpack \in [round : SUBSET Archives, processed : SUBSET Archives,
                   total : Nat, stopped : BOOLEAN]
    /\ meta.state \in {"absent", "empty", "written"}
    /\ crashes \in 0..MaxCrashes
    /\ disturbed \union refetches \subseteq Fetches
    /\ torn \subseteq Files

\* meta.json vouches for whole files: what a fetch that nothing disturbed lists
\* is on the disk, chunk for chunk, whatever the puller and the connection did
\* meanwhile.  Files with a name that no URL carries, files a restart of the
\* puller left half saved and files an archive has replaced are not covered:
\* nothing detects them.
FetchedIsWhole ==
    \A n \in Fetched \ (Unspeakable \union torn) :
        meta.by \notin disturbed /\ n \notin DOMAIN meta.archive_origins => disk[n] = Whole

\* Nothing is missing: meta.json lists every file that the puller holds, of a fetch
\* that nothing disturbed.  A file whose download failed is not held.
FetchedIsEverything ==
    meta.state = "written" /\ meta.by \notin disturbed =>
        {n \in Files : pdir[n] # "absent"} \subseteq meta.files

\* A label names an archive the user can find on the defect: a file the site
\* offers, not one that was itself in an archive (the docstring of
\* _extract_archives_recursive).  Of fetches into a fresh directory.
FirstLabelsAreTop ==
    meta.state = "written" /\ meta.by \notin refetches =>
        \A n \in Shown : Label(n) \in Files \union UserFiles \union {Nothing}

\* The same of every fetch.  Violated: a fetch that follows another finds the
\* inner archive the first one unpacked, and takes it for a file of the site.
LabelsAreTop ==
    meta.state = "written" =>
        \A n \in Shown : Label(n) \in Files \union UserFiles \union {Nothing}

\* A fetch ends, though the puller forgets its job, an answer is lost or the
\* backend stops: nothing polls for ever.
FetchEnds == \A f \in Fetches : f \in Active ~> f \notin Active

=============================================================================
