# LogAA, specified

TLA+ modules, TLC configurations and TLAPS proofs about LogAA: the server that
runs log analyses as background jobs, the pipeline it runs and the stores it
draws on, the page that follows its jobs, the fetch of a defect from the
tracker with the browser automation behind it, and the prototype that triages a
defect from source-code documents.

Paths below are relative to `src/`. `AA` stands for `AnalyzingAssistant_v2`.

## The system

LogAA takes the logs of a defect, looks for known problems in a knowledge base
and writes a report with a language model. Four processes work together, and a
fifth program stands beside them:

```
 browser (frontend/) ──> backend (:8800) ──> AA server (:8020) ──> LLM, embedder, reranker
                              │                   │
                              │                   ├── SQLite (jobs, history, cases, patterns, ...)
                              │                   └── ChromaDB (cases, cases_analysis, knowledge)
                              └──> puller (:8000) ──> Playwright ──> defect tracker

 TentativeDefectTriage: logs + log index + analysis documents ──> LLM, one expert per module
```

| Component | State it keeps | Operations | Talks to | Model |
|---|---|---|---|---|
| Analysis job server (`AA/api/worker.py`, `job_store.py`, `main.py`) | table `jobs`, executor queue, `_cancel_events`, threads, clean-up thread | start-up, submit, cancel, progress, done/error/cancelled, clean-up, shutdown | pipeline by callback `on_progress`; SQLite; HTTP clients | `JobServer` |
| Event stream (`main.py`, `frontend/src/api/assistant.js`) | `last_updated_at` of each generator | open, poll, close | reads `jobs`; the browser's `EventSource` | `JobStream` |
| Analysis pipeline (`core/pipeline.py`) | the run itself; writes `history` | stages 1 to 6, router, fallback, rescoring | KB search, LLM, matcher; `on_progress`, cancel event | `AnalysisRun`, `StageOrder` |
| KB search and reranking (`kb_search.py`, `chip_filter.py`) | none | top-k of two collections, rerank, threshold | ChromaDB, reranker | `CaseSearch` |
| Log refinement (`log_refiner.py`, `master_rule.py`) | none | filter, select, parse, collapse, sort, cut, normalise | the pipeline | `LogRefiner` |
| Pattern matching (`pattern_matcher.py`) | none | five types of pattern, composites, score | the pipeline | `PatternMatcher`, `LogAnalysis` |
| Case store and vector index (`router/cases.py`, `core/kb_search.py`) | table `cases` and its link tables; two ChromaDB collections | POST, PUT, DELETE, `/sync`, references | SQLite first, then embedder and ChromaDB | `CaseIndex` |
| Pattern store (`router/patterns.py`, `pattern_db.py`, `pattern_seeder.py`, `pattern_generator.py`) | pattern tables | create, change, delete with the composites, generate, seed, reset | SQLite, LLM | `PatternStore` |
| Defect fetch (`backend/routers/puller.py`, `puller_client.py`, `files.py`, `user_logs.py`; `puller/ui/api/main.py`) | puller's `jobs` dict and files; the workspace of the defect, `meta.json` | start, poll, copy, unpack, record, add and delete user logs | puller, file system | `DefectFetch` |
| Puller interaction engine (`puller/core/`) | the tabs of a browser, `site_config` | steps, conditions, actions, next steps, the modes of `WebDownloader` | Playwright | `Interaction` |
| Comment attachments (`puller/core/action.py`, `puller/ui/api/main.py`) | metadata file and directory of a defect; items in memory of each run | look up, download, list, serve | tracker's page by Playwright; file system | `CommentAttachments` |
| Frontend (`frontend/src/`) | React state of the pages | select, submit, follow, cancel | backend | `AnalyzePage` |
| Tentative triage (`TentativeDefectTriage/`) | none; a pool of threads | refine, observe places, choose material, ask, present | file system, LLM | `Triage` and what it extends |
| Domain knowledge, profiles (`knowledge.py`, `profile.py`) | table and collection `knowledge`; profile rows | CRUD, sync | SQLite, ChromaDB | — |
| History (`router/history.py`) | table `history` | list, read, patch, delete | SQLite | — |
| LLM client, settings, gateway, puller's own pages | — | calls, files, proxying, presentation | external services | — |

What is hard in it:

* **Concurrency.** Job threads, HTTP handlers, stream generators and the
  clean-up thread share the table `jobs` and the dictionary of cancel events,
  with one transaction at a time as the only order between them. Handlers of
  `/cases` write two stores with nothing that spans both; handlers of
  `/patterns` read before their transaction begins. Two fetches of one defect
  share a directory of the puller and one of the backend, and a run of the
  pipeline reads a knowledge base that others edit.
* **Failure.** Any thread may get an exception from SQLite, from the embedder
  or from the model; processes die between any two writes and are restarted.
  The jobs of the puller live in memory and are forgotten when their result is
  read once. A tracker's page is slow, turns into another, closes a popup, or
  delivers a download after its timeout.
* **Cancellation.** It is a flag that the job's thread looks at where a stage
  begins and between two chunks of two streamed calls.
* **Time.** Rows expire by `updated_at`, which counts whole seconds; the stream
  uses the same stamp to tell whether a row has changed. Log lines may have no
  time, and files of one log overlap.
* **Long pipelines of small steps.** Collapsing, filtering, matching, ranking,
  deduplicating and the fallback are simple one by one; what has to hold is
  said of their composition.

What makes each part correct:

* Job server: a job ends once and for good, does not lose its thread, and is
  never done after an early cancel; every job ends.
* Stream: what it reports is how the job ended, and the end is reported.
* Pipeline: a result that names a case rests on evidence of that case, nothing
  is claimed without evidence, the best is shown first, what the fallback found
  is not lost, and the stages are announced in the order the server relies on.
* Refinement and matching: no event is lost by collapsing; a pattern matches
  exactly when the lines are what its type means.
* Case index: an entry stands for the row that is there, or somebody can be
  named who disturbed it, and saving again repairs it.
* Pattern store: the defaults come back, a delete takes what it must and nothing
  else, a component is left out only for a cause.
* Defect fetch: `meta.json` vouches for whole files, and a fetch ends.
* Interaction engine: popups unwind, jumps and files belong to who asked for
  them, a run ends, and an undisturbed one succeeds.
* Comment attachments: what counts as downloaded is there and is what the
  comment has; a run that is repeated completes what is missing.
* Analyse page: a report on the screen belongs to the defect that is selected,
  and a page that says an analysis is running stops saying so.
* Triage: counts are kept, places are told apart truthfully, and a question is
  put only with the document it rests on.

## Modules

| Module | Models | Uses |
|---|---|---|
| `JobLifecycle` | what the job API promises: the life of a job as a polling client sees it (abstract) | — |
| `StageOrder` | in which order the stages of an analysis are announced | — |
| `StageProgress` | what one analysis promises of them (abstract) | extends `StageOrder` |
| `JobServer` | `worker.py`, `job_store.py`, the handlers of `main.py` | extends `StageOrder`, implements `JobLifecycle` |
| `JobStream` | `stream_analyze_result` composed with the whole server | extends `JobServer` |
| `AnalyzePage` | the analyse page of `frontend/src/App.jsx` and `api/assistant.js`, over the job API | instantiates `JobLifecycle` |
| `CaseSearch` | the search of `kb_search.py` as operators | — |
| `AnalysisRun` | `Pipeline.run` while others edit the knowledge base | extends `CaseSearch`, `StageOrder`; implements `StageProgress` |
| `LogRefiner` | `log_refiner.py` and `master_rule.py` as operators | — |
| `PatternMatcher` | `pattern_matcher.py` as operators | extends `LogRefiner` |
| `LogAnalysis` | the stages of the pipeline that call the two | extends `PatternMatcher` |
| `CaseIndex` | `cases.py` and `kb_search.py`: rows and index | — |
| `PatternStore` | `patterns.py`, `pattern_db.py`, `pattern_seeder.py`, the generator | — |
| `DefectFetch` | `backend/routers/puller.py` with `puller_client.py`, over the jobs and files of the puller | — |
| `Interaction` | `interaction.py`, `step.py`, `action.py`, `downloader.py` of the puller | — |
| `CommentAttachments` | two actions of `puller/core/action.py` over the metadata file, and what `puller/ui/api/main.py` serves | — |
| `TriageRefine`, `TriageMaterial` | refinement and choice of material of the triage as operators | the second extends the first |
| `Triage` | `triage.py`, `analyze.py`: the experts in their pool | extends `TriageMaterial` |
| `Loops` | induction over data, for a loop that is written as a recursive function | instantiated by `LogAnalysisProofs` and `TriageProofs`, once for each loop |
| `...Proofs` | theorems about the modules they extend: `ServerProofs` about `JobServer`, `JobStream` and `CaseIndex`, `AnalysisProofs` about `AnalysisRun` and `AnalyzePage`, `PullerProofs` about `Interaction` and `DefectFetch`, the others about the module of their name | |
| `MC...` | the values of the constants for TLC, where a `.cfg` cannot hold them | extend their module |

### JobServer

One step is one transaction on `jobs`, or one change of the in-memory state of
the process. A row is `status`, `progress` and `stamp` (`updated_at`);
`"absent"` means there is no row. `queue` is the work queue of the
`ThreadPoolExecutor`, `event` the dictionary `_cancel_events`, `pc` the place of
a job's thread in `_run_job`:

| `pc` | in the code |
|---|---|
| `none`, `created`, `queued` | before, between and after the two halves of `submit_job` |
| `loading` | after the first `update_job_running`, in `load_inputs` and `merge_profiles` |
| `stage` | in `Pipeline.run`; `step` is the last step `on_progress` announced |
| `returned` | `Pipeline.run` has returned, `update_job_done` is next |
| `cancelling`, `failing` | in the `except` clause for a cancel, for any other exception |
| `ending`, `over` | at the `finally` clause, after it |

The cancel handler reads the row (`AskCancel`) and sets the event later
(`SetCancel`), so anything may happen in between. Each write of the thread may
also fail (`WriteFails`), which takes it where the code's `except` clauses do:
to `failing` before the end, out of `_run_job` with the row as it is at the end.
`NextSteps` is the order in which `Pipeline.run` announces its stages; the
contents of the stages are left out, what they may do (return early, raise, look
at the event) is not.

`cancelledAt` and `zombies` are history variables: no action reads them.

`life`, the refinement mapping to `JobLifecycle`, is the row's status; a row
that is absent counts as `new` before it was created and `expired` afterwards.

### JobStream

Extends the state of the server by one generator per job: open or how it closed,
`last_updated_at`, and whether it has polled in this second of the clock. The
generator sleeps half a second, so the clock may tick only when every open
stream has polled (`TickStreams`). A stream that closed is not opened again
(`assistant.js` opens one `EventSource` per job and closes it on an error).

### CaseIndex

A handler of POST, PUT and DELETE commits, then writes the index, one collection
after the other; each of these is a step, and the embedder may raise or the
process die between any two. PUT and DELETE first look whether the row exists,
in a transaction of their own. A sync reads all rows, then embeds them one by
one. An entry is represented by the content it was embedded from, a content by a
model value, of which `WithAnalysis` have an analysis that is not blank.
`overlapped` and `failed` are history variables.

### AnalyzePage

The page is a client of the server that `JobLifecycle` describes, which
`JobServer` is shown to implement, so that the page is checked against the
promise and not against the whole server (`Serve` is a step of `JobLifecycle`).
JavaScript runs one callback at a time: a click, the part of an `async` function
up to its `await`, the part after it, and an event of an `EventSource` are one
step each. `selected` is `selectedCase`; `status` and `about` are what
`analysisState` says and whose report or error it holds; `jobRef` and `subRef`
are the two refs, `subRef` by the job whose stream its function closes; `open`,
`posting` and `deleting` are the streams and requests that are under way.
`Remount` is a visit to another page and back: the selection comes back from
the session storage, everything else starts anew.

`stray` is a history variable: the jobs whose submission was awaited when the
page turned to something else, and the jobs whose place in the refs a callback
of another one took. Nothing can close their streams.

### CommentAttachments

A run reads the comments of the page and the URLs behind their links
(`Collect`), merges what the metadata file says of those URLs and writes it
(`SaveLookup`), reads the file back (`ReadMeta`), and visits the pages of what is
not complete, a step for each row (`SaveFile`, `MissFile`) and one for the end of
the page, which writes the file again (`FinishPage`, `FailPage`). A row is recorded as
saved before its box is unchecked, and what that raises on a second try is swallowed
(`Uncheck`): the next row then asks for both files (`Asked`) and gets one of them or a
bundle (`FilesOf`). A download that comes after its timeout stays in `late` and is taken
by the next row. The next page is loaded anew, so that both end with the page. Between two
steps there is an `await`, where other runs, a crash, or the site may act; within
a step there is none. A torn file, from a crash while `write_text` runs, is one
without items: that is what the next lookup makes of it.

`place` is the position of a comment in the list of the page, counted from 1, the
code's `index` from 0; comments without attachments only move the others.
Files are `disk`, whose content is the comment it came from. The site is external:
it posts and deletes comments as it likes. One link per comment is modelled, and
its URL is taken to be read right. `seen`, `troubled` and `bundled` are history
variables.

### StageOrder, StageProgress

`NextSteps` is the one place that says which stage may be announced after
which. The job server takes it as what its threads do, the pipeline is shown to
do it: `StageProgress`, its abstract specification, is what `AnalysisRun`
implements. So the percentages of the server and the pipeline's control flow
are checked against the same definition.

### AnalysisRun, CaseSearch

A step is the code between two calls that take long (search, reranker, look-up
of owners, report); between two steps others may delete a case, unlink a pattern
or change `moe_traversal_mode`. `kb` is the knowledge base, `found[v][c]` what the
simple patterns find in view `v` of the logs, in the lines that the keywords of case
`c` leave or those of the pattern itself; a composite is computed from what matched
among the patterns it is matched with (`Matched`), so that one that is linked to a case
without its components never matches there. `near` are the distances of the two
collections; what the reranker answers is chosen in the step, with indices
doubled or out of range. `pc` follows `Pipeline.run`:

| `pc` | in the code |
|---|---|
| `asked`, `refined`, `normalized` | before Stage 1, the master rules, Stage 2 |
| `stage2`, `experts`, `scoring` | the single path, the loop over the experts, at the reranker |
| `selecting`, `matched` | before Stage 3/4, after it |
| `owning`, `rescoring` | `_find_owner_case_ids`, `_rescore_global_matches` |
| `judging`, `reporting`, `reflecting`, `finishing` | verdict, report, reflection, `_finalize_run` |

Distances and the scores of the reranker are in hundredths, the score of a match is
rounded to four places as the matcher does, in ten-thousandths. The mode is read where
Stage 1 begins and again where Stage 2 does (`perExpert`, `runMode`). Where the code
iterates over a set, any order may come out (`Rankings`, `Rescored`).

### LogRefiner, PatternMatcher, LogAnalysis

A message is a model value; a keyword or a regular expression is the set of
messages it is found in, so that "found in" is membership. A line has a message,
a time or none, and a count. The operators follow the steps of `refine` and the
five types of pattern one for one; `LogAnalysis` runs them as the pipeline does,
with the configuration, the master rules and the patterns as inputs. The
reference meanings (`Means`, `Unanswered`, `Events`) are written separately,
over sets of line numbers, and do not use the operators they check.

A loop of the code is a recursive function over the lines it has seen, whose body is an
operator of its own (`Absorb`, `Combine`, `Dedup`, `PresenceStep`, `SequenceStep`,
`AbsenceStep`, `MatchOne`, `MatchComposite`): the body is what the code does with one
line, and what the proofs do an induction step with. A list comprehension is `Chosen`,
the elements at a set of indices in their order. The fields that a pattern needs are
filled (`WellFormed`): the tables allow NULL in them and `float(None)` ends the analysis
with an exception, which is not modelled. A threshold of zero or less is allowed by the
tables too and is modelled: such a WINDOW always matches.

### PatternStore

A transaction is a step; what a handler reads before its first write is a step
of its own, since Python's `sqlite3` begins the transaction with the write. A
row is a name and the rows it is composed of. `at` follows a client and its
handler: `drafting` while the model is asked, `reviewing` while a person looks
at the pattern, `putting`, `deleting` and `doomed` between the reads and the
write of PUT and DELETE. `reset()` is a command-line tool beside the server and
may be killed between its two transactions. `moved`, `fresh`, `touched` and
`halted` are history variables.

### DefectFetch

A request starts a job of the puller, polls it, lists the files, copies them
chunk by chunk, unpacks archives, copies the attachments of the comments and
writes `meta.json`. Each `await` is a place to interleave; the backend's event
loop does not switch between `OpenMeta` and `WriteMeta` or while archives are
unpacked (`LoopFree`), but may die there, and the user's threads go on. The
unpacking is a step for each round and for each archive (`NextRound`,
`UnpackArchive`), as a user may delete an archive between two (`ArchiveGone`:
`FileNotFoundError`, which nothing catches). A file is the set of the chunks that
are right, so a torn, an empty and a mixed file differ; the body of an error
answer, or an archive's file that replaces one of the site's, is a chunk of its own
(`Other`). The order of names, in which files are copied and archives unpacked, is
`Place`. The puller's jobs are lost in a
restart and deleted by the first poll that sees an outcome. `Drop` loses any
request. `disturbed`, `torn` and `refetches` are history variables.

### Interaction

`Interaction.run` over the steps of a site. A configuration is data (`Sites`): a
step is a condition, actions, an expectation and next steps; what a page shows
is abstracted to a place, which is what conditions tell apart. `MCInteraction`
has the first site of `puller/config/config.yaml` with its own bounds
(`max_iterations` 10, `max_failures` 3) and two small ones with the constructs that
site does not use, one of them with an action after a jump, which may fail and
leave the jump to the next execution. `page`, `parent` and `jump` are the three values whose
staleness the code is exposed to. The site is the environment: `SiteMoves`,
`SiteCloses`, `ActionTimesOut`, late downloads (`late`), each a trouble.

### TriageRefine, TriageMaterial, Triage

The first two are pure, the passes over the lines recursive functions over named steps:
refinement of the logs, look-up of messages in the log
index, narrowing of places by the source, sections of the documents by their
citations, one hop, slices of functions, what was left out. The narrowing reads the
values out of the line as it is rendered, with the count of a folded one behind it: of a
format that ends in a value none can be read then (`Values`, `Legible`). Of the files
that no section cites, the first `MaxNamed` (8 in the code) are named and the others
counted (`Named`). `prepare` is a
function of the case, so it is computed once (`context`); `Triage` adds the pool
of threads, the failures of an expert and the collection of the outcomes. The
instance is a driver of four files, two of them with the same base name, made so that
each ambiguity of the index occurs.

## Runs

| Run | Question | Bounds |
|---|---|---|
| `jobs` (`MCJobServer.cfg`) | do the rows keep what they promise; is every behaviour one of the life cycle; does every job end, across crashes and restarts | 2 jobs on 1 thread, so that one waits; all 7 steps, 1 failed write, 2 starts, 1 tick, rows expire after 1 |
| `stream` | does the stream tell the truth, and a new stamp reach the client | 1 job, 3 ticks, rows expire after 2, 1 failed write, 2 starts |
| `analysis` | does a result rest on its own evidence, is the best shown, is nothing lost by the fallback, are the stages announced in order | 3 cases, 3 simple patterns and 2 composites, 2 profiles, 1 change by others; 2 knowledge bases, 2 situations, 5 findings, 4 requests, 3 modes, 5 answers of the reranker |
| `matching` | do collapsing and refining keep events; does a pattern match when it should | logs of up to 4 lines over 4 messages and 3 times, in 1 or 2 files, 7 configurations, 9 patterns of all types, 2 cases, 2 sets of master rules |
| `index` | is a case nobody disturbed right, and repaired by the next save | 2 handlers, 2 cases, 2 contents, one of them without analysis |
| `patterns` | do the defaults come back; does a delete take the composites and nothing else; is a component skipped only for a cause | 2 clients, 3 names, 6 rows, 2 starts, 3 requests; symmetry of the clients |
| `page` | does what the page shows belong to the selected defect; does an analysis that shows as running end on the page | 2 defects, 2 analyses |
| `fetch` | does `meta.json` list whole files only; are labels archives of the site; does a fetch end | 2 fetches, nested archives, a user's archive, an attachment whose name no URL carries; one archive with a file that replaces one of the site; 2 chunks, extraction limit 3, 1 crash |
| `interaction` | do popups, jumps and downloads belong to who asked for them; does every run end, and succeed when nothing disturbs it | 3 configurations, 7 modes, 2 rows to download, 6 tabs, 2 troubles |
| `comments` | is what counts as downloaded complete, what is served the comment's own while comments stay where they are, and what is missing completed by a clean run | 2 comments, one with 2 files, a name in common; 2 runs, 2 positions, 1 crash, 2 faults; symmetry of the runs |
| `triage` | are counts kept, places narrowed truthfully, questions put with their basis, files covered; does every triage end | 4 files, two of one name, 12 rows of the index, logs of up to 4 lines, 1 or 3 experts on 2 threads, materials complete, poor, absent and broken |
| `triage_exit` (violated) | does the failure of one expert stay its own | the same |

Why the bounds are enough. Jobs interact through the queue, the threads and the
process only; two jobs on one thread show waiting, a full pool and a job left
over, and the theorems below cover any number of both. Two
starts are one crash or shutdown with live rows and one recovery;
one failed write reaches every `except` clause. The clock has to pass the
expiry of a row once, and in the stream an expiry must be possible while a
stream that polled is open. For the index two handlers are two writers of one
case, and two cases are what a sync needs to be overtaken in the middle. For the
patterns three names make a composite of a composite, three requests a draft
that is overtaken by a delete and another save. On the
page two analyses are what it takes for one to displace the other. Two runs or
fetches of the puller are two that overlap, or one and its repetition; two
comments with a name in common are what it takes to serve the file of another, and two
faults a box that stays checked and a file that is late or missed;
two chunks tell a torn file from a mixed one. In the logs four lines are a burst
of the threshold and one line more, or a sequence twice; three times are inside,
on and outside a window. Three cases are a main case, another of the same
patterns and one whose keywords hide its own, which also has a composite without its
components. Two troubles of the site are a
failed step and a failed retry.

`MaxTime`, `MaxFaults`, `MaxRestarts`, `MaxCases`, `MaxPositions`, `MaxCrashes`,
`MaxPatterns`, `MaxStarts`, `MaxRequests`, `MaxChanges`, `MaxTroubles` and `Tabs`
bound counters. A crash is
enabled only while a start is left, so that no behaviour ends in a dead process
because the bound was used up. Deadlock is checked in `interaction` only, where
an action `Done` stands for the end of a run: elsewhere the bounds stop the
counters, and a server that was stopped, or has nothing to do, may stay so.

Each state machine has a type invariant (`TypeOK`, `IndexTypeOK`, `FetchTypeOK`,
`StreamTypeOK`; in `LogAnalysis` it is part of the inductive invariant of its proofs).
The proofs start from it where there are any; the others were checked with the same
configurations and are not listed as runs' properties.

### Fairness

* `FairSpec` of `JobServer`: a start-up that began finishes; a crashed process
  is started again, which systemd does (`Restart=on-failure`,
  `deploy/systemd/logaa-aa.service:12`), a stopped one is not; a submit that
  inserted its row goes on; a thread leaves the place where it is, since the
  calls it waits on have timeouts. It is not assumed to do so by announcing
  stage 2 for one more expert: that loop is over a finite list and `Advance`
  leaves it out. Nothing is assumed of clients, of the clean-up thread or of
  failures.
* `StreamSpec`: the event loop polls for every open stream. Nothing is assumed
  of the threads.
* `FairSpec` of `AnalyzePage`: a request is answered or fails (the backend and
  the browser both have timeouts); a job that was submitted ends, which is
  `EveryJobEnds` of the server; the stream of a job that ended is closed by an
  event, the end itself or the error that follows the expiry of the row. Clicks,
  remounts and broken connections are never assumed.
* `FairFetchSpec` of `DefectFetch`: neither event loop stops while something is
  ready, and a job of the puller goes on, since the actions of the browser have
  timeouts. Lost requests, restarts and users are never assumed.
* `Spec` of `Interaction`: the engine goes on, for the same reason; the one
  call without a timeout, `save_as`, is taken to return.
* `Spec` of `Triage`: some thread of the pool or the main thread moves while one
  can; the calls of the model time out.

### What the code does otherwise than it says

One run is violated. `OneFailureStaysAlone`: `triage.py:22` promises that the
failure of an expert stays its own; `load_index` (`probe_match_rate.py:97`) ends with
`sys.exit`, the pool hands `SystemExit` to the main thread, which catches
`Exception` only, and the reports of all the others are lost.

Further configurations are kept beside the runs. TLC finds a counterexample of
each, and what does hold instead is a property of the run of that module:

1. `MCJobServerZombies.cfg`, `ZombiesAreReported`: `mark_zombies_cancelled` exists
   so that a client that polls after a restart is told `cancelled` and not 404
   (`job_store.py:185-186`); `startup` then purges with `ttl_minutes=0`, which
   deletes the rows it has just marked (`worker.py:70`).
2. `MCJobStreamLost.cfg`, `EndIsDelivered`: `updated_at` has whole seconds and
   the stream polls twice a second: a job that ends in the second in which its
   last progress was seen keeps its stamp, and its end is never sent
   (`main.py:101`).
3. `MCCaseIndexOverlap.cfg`, `IndexFollowsRows`: two saves of one case that commit
   in one order may write the index in the other (`cases.py:441`).
4. `MCCaseIndexSync.cfg`, `SyncRebuilds`: `sync_from_db` only upserts, so an entry
   whose row is gone survives every sync (`kb_search.py:359`), against
   `Readme.md:129`.
5. `MCAnalyzePageStale.cfg`, `OutcomeBelongs`: `handleAnalyze` opens the stream
   when the submission is answered, whatever is selected by then (`App.jsx:114`).
6. `MCCommentAttachmentsMoved.cfg`, `ServedIsOwn`: the state of an attachment is
   kept by its URL, its file under the position of the comment (`action.py:793`).
7. `MCLogAnalysisBursts.cfg`, `FastErrorsAreSeen`: collapsing turns a burst into
   one line with a count, and WINDOW counts lines
   (`pattern_matcher.py`, `_match_window`): the faster the errors come, the less
   it sees.
8. `MCAnalysisRunOthers.cfg`, `OneListOfOthers`: of the two lists of other cases,
   of Stage 2 and of the fallback, both may be filled.
9. `MCDefectFetchAgain.cfg`, `LabelsAreTop`: a fetch that follows another finds
   the inner archives the first one unpacked and takes them for files of the site.

Seen while reading, without a configuration of its own:

* Pipeline: an index that the language model names twice makes one case main and
  other at once; the order of equal owners is that of a Python set; the comment
  of `winner_profile_names` speaks of the ensemble only, the single path fills it
  too; `kb_search.search` promises descending relevance, cases of the same chip
  come first.
* Pipeline: a composite that is linked to a case without its components, as the API
  allows (`cases.py:326`), is found among all patterns, has an owner and so is no
  orphan, and does not match among the patterns of the owner: it is lost. So is a
  pattern whose lines the keywords of each of its cases take out.
  `NothingFoundIsLost` names both (`OwnersMiss`) and says that nothing else is lost.
* Logs: ABSENCE misses a silence when triggers overlap or the keywords leave no
  line after the last one; `unique_only` of WINDOW drops a repetition anywhere in
  the log, not in the window; `step_dedup` changes nothing.
* Page: the answer to a cancel, or a stream nobody could close, resets the state
  of an analysis that was started since (`App.jsx:100`, `131`).
* Patterns: the cascade of a delete has one level, so that a composite of a
  deleted composite stays without it; a composite listed before one it is made of
  passes the check of `load_yaml` and fails the insert; a component that is not
  found is left out silently; the API accepts a cycle that `load_yaml` refuses.
* Puller: a download that comes after its timeout is taken for that of the next row
  (`action.py`, `IndividualDownloadAction`; `FilesAreOwn` excepts it by its history
  variable `tardy`); `Kona Main` of the configuration has a `domain_is` with a path, which is
  never true; the body of an error answer is saved as the file; a link whose URL
  is not read in time loses the state of its attachment (`action.py:865`). Of the
  attachments of a comment, a row that is saved while the box of one before it stays
  checked (`action.py:1034-1040`) is recorded with whatever file comes, the other row's
  or a bundle; with it the item counts as downloaded, and no later run fetches the file
  that is missing, against the design document, which promises that a repeated run
  completes it (`puller 기술 설계서.md:151`). `DownloadedIsComplete` and
  `CleanRunCompletes` except the contents of such items (`bundled`).
* Triage: a burst becomes its first line before the keywords are looked for, so that a
  keyword that names an address takes all of a burst or nothing of it; an answer that is no JSON is shown as a report; functions that the
  budget leaves out are not declared; `select_sections` falls back to sections that
  cite the file at all "only for a file with no exact or near one" (its docstring), but
  tells files by their base names: of two `core.c` in the log the second may get no
  section and not be listed as having none. The instance has two such files, and
  `FilesAreCovered` says what does hold, that a section cites one of them. Of the files
  without a section only the first eight are named, the rest a number
  (`analyze.py:384`). A folded line carries its count, `  ×N`, behind the message
  (`analyze.py:273`), which a format that ends in `%s` reads as part of its last value:
  such a line is not narrowed, in particular not to a wrong place.

## Proofs

`tlapm` checks every theorem from nothing. They hold for every value of the
constants: any number of jobs, threads, handlers, clients, runs, fetches, tabs and
rows, every knowledge base and answer of the reranker (`AnalysisRun`), every site
configuration (`Interaction`), every file of default patterns (`PatternStore`), and
whatever bounds. What is assumed of the constants is named in the module that
declares them, and TLC evaluates it in the runs: `Jobs` is finite (needed only to
count threads), `MaxWorkers` and `TTL` are positive, `StageCount` is 6 or 7, the
bounds are naturals, `WithAnalysis` is a subset of `Saves`, `File` is a sequence of
patterns, the experts of a triage and the documents of a kind are sequences, `None`
is no content, defect, job, comment, item, name or row; the requests of an analysis
are sequences of sequences of lines with their configuration, the master rules sequences
of regexes, the patterns of a case and of the database well formed and of different
names; the logs of a triage are sequences of files, and these of lines; each comment
with attachments has files; the site's files, the attachments and the user's files
have folders of their own, and the order of names is a strict one; a bundle has the name
of no file, and `MaxNamed` is a natural. Two theorems assume more, which they name:
`NothingFoundNeverLost` and `DefaultsAlwaysComeBack`; see there.

The theorems that no run lists a property for are the type invariants, the
inductive invariants, and `CancelAlwaysHasCause`, `FinishedStaysFinal`,
`ProgressAlwaysGrows`, `RunningAlwaysBounded`, `StreamsImplementServer`,
`FetchedAlwaysEverything`, `OnlyAnExitEverAborts`, `PresentedAlwaysComplete` and
`AlwaysGivesUpInTime`. Every
inductive invariant was checked by TLC on the instance of the run before it was
proved.

**`ServerProofs`: the server.** None of the invariants is inductive alone: each speaks of
the row, and the row is what a thread, wherever it stands, is about to change.
`IInv` ties the three together, job by job (`JobInv`): what the row and the
progress are at each place of the thread (`RowInv`, `ProgressInv`), when there
is an event and when it was set (`EventInv`), that a cancel before step 4 keeps
the job below step 4 (`CancelInv`), where a job whose report is kept may stand
(`HistoryInv`), that a process that is down has no threads (`ProcessInv`), and
that the queue holds the queued jobs once each (`QueueInv`). The step is proved
one action at a time for the job that acts (`Own...`), and once for all others
(`OtherJobs`), whose part of the state a request or a thread does not touch.

* `TypeCorrect`, `InvariantHolds`.
* `ActiveAlwaysAttended`, `EarlyCancelAlwaysWins`, `CancelAlwaysHasCause`,
  `ReportAlwaysMeansDone` are read off `IInv`.
* `FinishedStaysFinal` and `ProgressAlwaysGrows` are action properties: under
  `IInv` no step that writes a row starts from a finished one, or from a higher
  percentage (`PercentGrows`).
* `RunningAlwaysBounded` adds `PoolInv`, the count of busy threads: a running row
  has a busy thread, and the set of those is never larger than the pool.
* `ServerImplementsLifecycle`: the initial states of `JobServer` map to those of
  `JobLifecycle` and each step to a step or a stutter.

**`ServerProofs`: the streams.** The streams change nothing of the server (`ServerSteps`), so
its `IInv` holds in the composition. `StreamInv` adds that a stream is opened for
a job that was submitted, and that what a closed stream said is what the row says
as long as there is one. It is kept because a finished row stays as it ended
(`FinalStep`, shared with `FinishedStaysFinal`) and because the row of a submitted
job that is gone does not come back (`GoneStays`): without the latter a new row
under the old id could contradict what was said. `StreamTypeCorrect` and
`StreamAlwaysTellsTheTruth` follow. `StreamsImplementServer` is the composition seen
from the server: every step of it is a step of `JobServer` or leaves the server as it
was, so what is proved of the server holds with the streams too.

**`AnalysisProofs`: the run.** `StageInv` says, for each place of the run, which stage was
announced last; behind Stage 4 there are two answers, as the fallback was taken or
not. `PipelineImplementsStages` is the refinement of `StageProgress`: every step
announces nothing or a stage of `NextSteps`, the definition the job server's
percentages are proved with. So the two modules fit whatever the pipeline finds.

The five invariants of the run need what rankings, thresholds and selections do to
lists of any length. The lists are finite, so that this can be had from facts on
finite sets, without induction over sequences: `InOrderSorts` shows that a ranking
is sorted by its score, `TypeCorrect` that scores stay shares and that candidates,
owners and others are cases of the knowledge base the run started with. On that rest

* `EvidenceInv`: a result that names a case has all and only evidence among that
  case's patterns, no case beside it has a better score, and without evidence there
  is nothing beside it. `CaseAlwaysHasOwnEvidence`, `NothingClaimedWithoutEvidence`
  and `MainAlwaysBest` are read off it, together with
* `PlaceInv`, what is known of the outcome where the run stands: nothing is claimed
  before a case is chosen, the fallback starts from what the search left, and its
  repetition only ever replaces a case.
* `OnceInv`: in an ensemble no case is listed twice, which rests on the cases of a
  ranking being those of `Deduplicated`. `EnsembleAlwaysShowsOnce` is read off.
* `LostInv`: while nobody edits the knowledge base, the owners are those of the
  patterns that were found, and once the run has decided each pattern is shown, or is one
  that none of its owners finds by itself (`OwnersMiss`), or a case with evidence is
  kept. What matters of `Matched` is only that it chooses among the patterns it is given.
  `NothingFoundNeverLost` is read off. It assumes
  `NeverRoundedAway`: no pattern weighs so little against all of them that a result
  with it alone is rounded to 0; otherwise an owner scores nothing and what was found
  disappears with it.

**`PullerProofs`: the engine.** `IInv` has three parts. The control of the run (`GivesUpInTime`
is inductive: the failures are below the bound as long as the run goes on);
`TabsInv`, that an open tab was opened by a page and the parent page is the opener
of the page, which retries and popups nobody closes have to keep; `RowsInv`, that
between two rows no box is checked unless one could not be unchecked or a download
came late. `ParentAlwaysOpener`, `FilesAlwaysOwn` and `AlwaysGivesUpInTime` follow
for every configuration, and so does `JumpsAlwaysOwn` (with `JumpInv`): an action that
fails after a jump leaves it behind, but only between executions that fail, while
`failures` is above 0; no expectation is checked and no next step looked for while
there is a jump, so none gets past a step that went through.

**`PullerProofs`: the fetch.** `FetchedIsWhole` speaks of the moment after `meta.json` was
written; its reasons lie in every step before.

* `AloneInv`: a fetch that nothing disturbs is the only active one and the only one
  whose job runs, and the job is over when the fetch goes on. So nobody else writes
  into the workspace, or into the puller's directory.
* `PartialInv`: a file the puller holds in part is being copied by a running job, or
  a restart or an error has left it (`torn`). With the first: while an undisturbed
  fetch copies, every file it is sent is whole or torn.
* `TodoInv`: where a fetch copies, and only files that the puller has.
* `CopyInv`: of the file that is being copied, exactly the chunks before the next one
  have arrived (`OneMore`).
* `VouchInv`: a file joins what the fetch vouches for when it is complete, and is
  not written to after that, except by an archive that the fetch unpacks.
* `HeldInv`: what the puller's directory holds was copied, or is still to be.
* `MetaInv`: the record is what the locals of its fetch were.
* `LoopInv`, `LabelInv`: one fetch holds the event loop; while the first fetch of a
  directory unpacks, each archive that is on the disk or in the round is a file of
  the site or the user's, or has such a one as its source. It is what fails for the
  second fetch (`LabelsAreTop`).

`FetchedAlwaysWhole` and `FirstLabelsAlwaysTop` are read off, for any number of
chunks, any nesting of archives and any bound on what is unpacked, and so is
`FetchedAlwaysEverything`: the record of an undisturbed fetch misses no file that the
puller holds. No run lists the latter (`FetchedIsEverything`); TLC checked it on the
instance of the run `fetch` before it was proved.

**`LogAnalysisProofs`: the logs.** The invariant itself is small (`IInv`: log lines in order
of time, no event missing in them, entries of well-formed patterns, results that are
those of the entries), since each stage computes its result in one step; what there is
to prove is what those computations do to logs of any length. The induction theorems of
the library take an operator as a parameter of a theorem, which the provers cannot
instantiate. `Loops` takes it as a constant of the module instead: `LoopDefined` says that
a loop written as a recursive function has a value for every element, `LoopInvariant` that
what its step keeps holds after each. Both rest on the well-foundedness of the naturals
alone. A proof takes an instance of `Loops` for a loop, with the body of the loop and its
invariant, and thirteen of this module do:

* `CountsAreKept`: a sum does not depend on how the lines are cut or ordered (`SumTo`,
  `InOrder`, `Chosen`), and each merge moves counts from the line that goes to the one
  that stays. The hard step is `CollapseBursts`: bursts may interleave, so `Skip` is
  shown to make the bursts that are kept disjoint, and to leave each line in exactly
  one of them or by itself (`BurstsNest`, `SkipLaw`, `BurstsPart`). This does not need
  the lines to be in order of time: a clock that jumps back loses no event either.
* `NoEventIsHidden`: what is remembered of a fingerprint is its last *reported* line.
* `AbsencesAreSound`: between the trigger that is watched and the line that is read no
  line answered in time. It needs the order of time, hence `SortByTime`.
* `MatchesAreMeant`: for SEQUENCE, a greedy scan from the start finds a sequence whenever
  there is one (`Embeds`), and neither the barrier nor the de-duplication of a step can
  act before the first match is complete. For WINDOW, the left pointer is the least
  place within the window of the right one (`LeftIs`), so that the hits of a window are
  a run of that length (`RunIsWindow`), and conversely.
* `CompositesAreMeant`: the results of the simple patterns are those of their entries
  whatever is computed after them (`Found`), so the second pass reads what it should.

**`TriageProofs`.** `ContextInv` and `PromptInv` say what an expert has been asked and
from what: only one whose material can be read gets to a prompt, and its questions are
those that `AvailableQuestions` gives. With two lemmas on the choice of material,
`QuestionAlwaysHasBasis` and `FilesAlwaysCovered` follow for every material and every
log: `BasisIsSupplied` (what the sections, the whole documents and the background have
nothing of is supplemented) and `SelectSectionsCovers` (the files counted as having no
section are exactly those that the sections do not cover). The proof of the latter showed
that the run had held only because no two files of its instance had one name; the
property now says what the code does, and the instance has two such files.
`OutcomeInv` is about the main thread: the outcomes it has taken are final, and it gives
up only behind an index that `load_index` exits on. `OnlyAnExitEverAborts`, the part of
the violated `OneFailureStaysAlone` that does hold, and `PresentedAlwaysComplete` are
read off; TLC checked both on the instance of the run `triage`.

`CountsAlwaysKept` takes an instance of `Loops` for each pass over the lines, and counts
through all of them the events of a set of messages (`TotalIn`), which in the end is the
set that the keywords let through.

* A marker adds to the line whose message it speaks of (`AbsorbKeeps`, with `MessageIs`).
* `BurstStepKeeps` is the hard step: a burst is folded while its later lines are still to
  come, so the invariant counts the lines not reached yet together with what is put out
  (`Done`). A burst with a line of an earlier one would have its first line there, and
  that line is skipped (`BurstsNest`). The lines need not be in order of time.
* The filter comes after the fold and sees the first line of a burst only. The equation
  holds where the keywords of the expert do not look at addresses (`SeeNoAddress`, a
  condition of `CountsKept`, expert by expert); an attempt at the proof without it failed
  there. TLC evaluates that every expert of the instance meets it.

`NarrowedAlwaysTrue` rests on `WindowFindsItsCall`: the window of a row finds the call
that is written at the row and no neighbour. This holds of material that is `LaidOut` as
the code takes it to be: functions lie one after the other, a call is no longer than the
window of five lines, and the calls that a row may show have rows of their own. It is a
condition of `NarrowedIsTrue`, each part of it was needed (a call of six lines is not
found), and TLC evaluates that every material of the instance meets it.

**`ServerProofs`: the index.** `UndisturbedAgrees` speaks of cases nobody is writing, so
the invariant has to say what a writer carries: of a case that is not disturbed
there is at most one writer (`OneWriter`), it carries the content of the row, and
what it has written so far is right (`WriterInv`). `IndexInvariantHolds`,
`IndexTypeCorrect` and `UndisturbedAlwaysAgrees` follow.

**`PatternStoreProofs`.** `RowInv`: an id that was not given yet has no row.
`ClientInv` says what each handler carries between its steps: names that are there
or were moved since, and of a DELETE the composites of its row but for rows written
since. The insert of the file is the hard step, as it writes many rows at once:
`IdIsNew` and `IdIsOwn`, by counting what comes before a pattern (`Earlier`), show
that it gives new and different ids, and `Inserted` what that does to the rows.
`SkippedAlwaysHasCause` is read off, `DeleteAlwaysTakesComposites` is an action
property. `DefaultsAlwaysComeBack` needs `FillInv`, that the store is empty or
filled as long as no client changed it, and assumes what the code needs as well:
that the file passes `load_yaml`, gives each name once and lists a composite after
the composites it is made of. Without the last the start-up fails for good.

**`AnalysisProofs`: the page.** What the page will show comes from the jobs it waits for,
so the invariant speaks of those (`StreamInv`): a job that is awaited and not
stray was submitted for the selected defect, and so was a job with an open stream
that is not stray, of which there is only the one in `subRef`: stopping it on a
new selection therefore leaves stray streams only. `PageInvariantHolds`,
`PageTypeCorrect` and `OutcomeAlwaysBelongs` follow.

**`CommentAttachmentsProofs`.** An item of the metadata file was written by a run
from its memory, and may be written again by a run that read it long ago, so
`MetaInv` and `ItemsInv` say the same of every item anywhere: its paths are where
a run found its comment, the files are on the disk, and if it counts as
downloaded they are all the files of the page. `DiskInv` says that each file lies
where a run found its comment, `VisitInv` that what a run has saved of the page it
visits is on the disk, which needs the positions of a run's items to be distinct,
hence those on the site (`PlaceInv`). Its part `PageOK` is about late downloads and
boxes: as long as every row that was tried was saved, nothing is late any more, since a
row that missed its file cannot be saved again; and if no file was ever asked for with
another (`bundled`), the files that came are those of the rows. That the next page has no
box checked, and that no download outlives its page, is what loading it does
(`page.goto`). `DownloadedAlwaysComplete` and
`ServedAlwaysOwnUnlessMoved` are read off. `CleanRunAlwaysCompletes` adds
`CleanInv`: a run without trouble is alone, the file holds what it has in memory,
and what it need not visit any more is complete.

Only model-checked:

* Liveness under fairness, and `ENABLED`, which are out of the prover's reach:
  `EveryJobEnds`, `NewStampIsDelivered`, `RunningEnds`, `FetchEnds`, `RunEnds`,
  `TriageEnds`.
* `UndisturbedSucceeds`: it says that the way through one configuration takes its
  `max_iterations`, which is a count over that configuration.
* What the operators of `TriageRefine` and `TriageMaterial` compute beyond what these
  invariants say (the budget of a prompt, the hop, the slices of functions): only the
  bounded inputs of the run exercise it.

## Not modelled

`PROJECT.json` lists every component with its status. Not modelled, and why:

* Domain knowledge and profiles, the analysis history: the first has the shape of
  `CaseIndex` (a row and an entry of a collection), the second is a table of
  finished reports and one read-modify-write of a JSON column. Both are planned.
* LLM client and observability: external services. That a call fails, takes long
  or answers nonsense is modelled where its result is used (`JobServer`,
  `AnalysisRun`, `PatternStore`, `Triage`).
* Settings and authentication: reading and writing configuration files.
* Backend gateway: it passes requests on and keeps nothing but the workspace
  files, which `DefectFetch` has.
* Puller user interfaces: presentation.

Of the components that are partly modelled: the links of cases to patterns and
external references (`cases.py`), the pages of the frontend that are forms over
requests, the lint of regular expressions and the form of a pattern, and of the
triage its contract file, the probes that measure the material, and its prompts
and reports. Throughout, a regular expression is the set of the messages it is
found in, a vector is its distance, a file the set of its right chunks, a web page
a place; prompt texts, the wording of reports, layout and logging are left out.

## Plan

In this order, the most important behaviour first:

1. *Done.* `JobServer` against `JobLifecycle`, `JobStream`, `CaseIndex`,
   `AnalyzePage`, `CommentAttachments`, and their proofs.
2. *Done.* `LogRefiner`, `PatternMatcher`, `CaseSearch` as operators against
   reference meanings; `AnalysisRun` against `StageProgress`, with its refinement
   proved; `DefectFetch`, `Interaction`, `Triage`.
3. *Done.* `PatternStore` and the proofs of its three properties;
   `StreamTellsTheTruth` proved.
4. *Done.* The proofs of `Interaction`, of the five invariants of `AnalysisRun`, of
   the control of `Triage` and of `DefectFetch`, for which three models were made
   provable: the unpacking is one step
   for each archive, the rankings of a run are sets of sequences, the questions of a
   triage are a set.
5. *Done.* Induction over the loops of the code (`Loops`), and with it the five
   invariants of `matching`, for which `LogRefiner` and `PatternMatcher` were rewritten
   as recursive functions over named steps; likewise the invariants of `triage` on
   counts and on places, with `TriageRefine` rewritten.
6. The knowledge store, as an instance of what `CaseIndex` says of cases, and the
   history; the references of cases, whose duplicate check is outside the
   transaction of the insert.
