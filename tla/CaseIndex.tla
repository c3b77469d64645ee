------------------------------ MODULE CaseIndex ------------------------------
(***************************************************************************)
(* The cases of the knowledge base and their vector index: the SQLite      *)
(* table `cases` is the original, two ChromaDB collections are derived     *)
(* from it (api/router/cases.py, core/kb_search.py).  A handler commits    *)
(* its transaction first and writes the index afterwards, one collection   *)
(* at a time, and each handler runs in a thread of its own.                *)
(***************************************************************************)
EXTENDS Integers, FiniteSets

CONSTANTS
    Handlers,     \* threads that run a handler of /cases
    MaxCases,     \* bound: cases ever created
    Saves,        \* contents a client may save in a case
    WithAnalysis, \* those whose analysis is not blank
    None          \* no row, no entry

ASSUME CasesAssumption == MaxCases \in Nat
ASSUME SavesAssumption == WithAnalysis \subseteq Saves /\ None \notin Saves

\* Ids are AUTOINCREMENT: a deleted one is not given again.
Cases == 1 .. MaxCases

VARIABLES
    table,      \* the content of every row, None where there is no row
    nextId,     \* the next id
    desc,       \* collection `cases`: the content each entry was embedded from
    anal,       \* collection `cases_analysis`, likewise
    at,         \* where each handler stands
    target,     \* the case of its POST, PUT or DELETE, 0 for a sync
    pending,    \* what it has still to embed, by case
    overlapped, \* history variable: cases that two handlers wrote at a time
    failed      \* history variable: cases a handler left halfway

store   == <<table, nextId>>
index   == <<desc, anal>>
handler == <<at, target, pending>>
indexVars    == <<store, index, handler, overlapped, failed>>

Nothing == [c \in Cases |-> None]

Embedding == {"description", "analysis"}
Removing  == {"remove", "removeAnalysis"}

\* Handler h has committed, and has not finished the index of case c.
Holds(h, c) ==
    \/ at[h] \in Embedding /\ pending[h][c] # None
    \/ at[h] \in Removing /\ target[h] = c

\* The loop of sync_from_db goes by ascending id.
FirstPending(h, c) ==
    pending[h][c] # None /\ \A d \in Cases : d < c => pending[h][d] = None

\* The entry of cases_analysis that belongs to a content.
AnalysisOf(s) == IF s \in WithAnalysis THEN s ELSE None

\* A handler starts to write the index of the cases in S.  It repairs what an
\* earlier one left unless another one writes, or it writes a row that is gone.
Begin(S, gone) ==
    LET shared == {c \in S : \E h \in Handlers : Holds(h, c)}
    IN  /\ overlapped' = (overlapped \ S) \union shared \union gone
        /\ failed' = failed \ (S \ shared)

Idle(h) ==
    /\ at'      = [at EXCEPT ![h] = "idle"]
    /\ target'  = [target EXCEPT ![h] = 0]
    /\ pending' = [pending EXCEPT ![h] = Nothing]

------------------------------------------------------------------------------
IndexInit ==
    /\ table      = Nothing
    /\ nextId     = 1
    /\ desc       = Nothing
    /\ anal       = Nothing
    /\ at         = [h \in Handlers |-> "idle"]
    /\ target     = [h \in Handlers |-> 0]
    /\ pending    = [h \in Handlers |-> Nothing]
    /\ overlapped = {}
    /\ failed     = {}

\* POST /cases: the insert is committed; a name that exists or a pattern that
\* does not rolls it back, which changes nothing.
Create(h, s) ==
    /\ at[h] = "idle"
    /\ nextId \in Cases
    /\ table'   = [table EXCEPT ![nextId] = s]
    /\ nextId'  = nextId + 1
    /\ at'      = [at EXCEPT ![h] = "description"]
    /\ target'  = [target EXCEPT ![h] = nextId]
    /\ pending' = [pending EXCEPT ![h][nextId] = s]
    /\ Begin({nextId}, {})
    /\ UNCHANGED index

\* PUT and DELETE /cases/{cid} look first whether the row exists.
Check(h, c, next) ==
    /\ at[h] = "idle"
    /\ table[c] # None
    /\ next \in {"update", "delete"}
    /\ at'     = [at EXCEPT ![h] = next]
    /\ target' = [target EXCEPT ![h] = c]
    /\ UNCHANGED <<store, index, pending, overlapped, failed>>

\* PUT: the update is committed; on a row deleted since it touches nothing and
\* the handler goes on all the same.
Update(h, s) ==
    LET c == target[h] IN
    /\ at[h] = "update"
    /\ table'   = IF table[c] = None THEN table ELSE [table EXCEPT ![c] = s]
    /\ at'      = [at EXCEPT ![h] = "description"]
    /\ pending' = [pending EXCEPT ![h][c] = s]
    /\ Begin({c}, IF table[c] = None THEN {c} ELSE {})
    /\ UNCHANGED <<nextId, index, target>>

\* PUT: a name or a pattern that the database refuses rolls everything back.
RejectUpdate(h) ==
    /\ at[h] = "update"
    /\ Idle(h)
    /\ UNCHANGED <<store, index, overlapped, failed>>

\* DELETE: the row is gone, the index still holds the case.
DeleteCase(h) ==
    LET c == target[h] IN
    /\ at[h] = "delete"
    /\ table' = [table EXCEPT ![c] = None]
    /\ at'    = [at EXCEPT ![h] = "remove"]
    /\ Begin({c}, {})
    /\ UNCHANGED <<nextId, index, target, pending>>

\* POST /cases/sync: all rows are read, then embedded one after the other.
Sync(h) ==
    /\ at[h] = "idle"
    /\ table # Nothing
    /\ at'      = [at EXCEPT ![h] = "description"]
    /\ pending' = [pending EXCEPT ![h] = table]
    /\ Begin({c \in Cases : table[c] # None}, {})
    /\ UNCHANGED <<store, index, target>>

\* add_case, first half: the description is embedded and upserted.
EmbedDescription(h, c) ==
    /\ at[h] = "description"
    /\ FirstPending(h, c)
    /\ desc' = [desc EXCEPT ![c] = pending[h][c]]
    /\ at'   = [at EXCEPT ![h] = "analysis"]
    /\ UNCHANGED <<store, anal, target, pending, overlapped, failed>>

\* Mutant of EmbedAnalysis: the entry of an analysis that became blank stays.
EmbedAnalysisKeeps(h, c) ==
    LET rest == [pending[h] EXCEPT ![c] = None] IN
    /\ at[h] = "analysis"
    /\ FirstPending(h, c)
    /\ anal' = IF pending[h][c] \in WithAnalysis
               THEN [anal EXCEPT ![c] = pending[h][c]] ELSE anal
    /\ IF rest = Nothing
       THEN Idle(h)
       ELSE /\ at' = [at EXCEPT ![h] = "description"]
            /\ pending' = [pending EXCEPT ![h] = rest]
            /\ UNCHANGED target
    /\ UNCHANGED <<store, desc, overlapped, failed>>

\* add_case, second half: the analysis is upserted, or its entry deleted when
\* it is blank.
EmbedAnalysis(h, c) ==
    LET rest == [pending[h] EXCEPT ![c] = None] IN
    /\ at[h] = "analysis"
    /\ FirstPending(h, c)
    /\ anal' = [anal EXCEPT ![c] = AnalysisOf(pending[h][c])]
    /\ IF rest = Nothing
       THEN Idle(h)
       ELSE /\ at' = [at EXCEPT ![h] = "description"]
            /\ pending' = [pending EXCEPT ![h] = rest]
            /\ UNCHANGED target
    /\ UNCHANGED <<store, desc, overlapped, failed>>

\* remove_case, one collection after the other.
Remove(h) ==
    /\ at[h] = "remove"
    /\ desc' = [desc EXCEPT ![target[h]] = None]
    /\ at'   = [at EXCEPT ![h] = "removeAnalysis"]
    /\ UNCHANGED <<store, anal, target, pending, overlapped, failed>>

RemoveAnalysis(h) ==
    /\ at[h] = "removeAnalysis"
    /\ anal' = [anal EXCEPT ![target[h]] = None]
    /\ Idle(h)
    /\ UNCHANGED <<store, desc, overlapped, failed>>

\* The embedding server or ChromaDB raises: the handler answers 500 and leaves
\* the row committed.
Fail(h) ==
    /\ at[h] \in Embedding \union Removing
    /\ failed' = failed \union {c \in Cases : Holds(h, c)}
    /\ Idle(h)
    /\ UNCHANGED <<store, index, overlapped>>

\* The process dies; both stores are on disk.
ServerCrash ==
    /\ \E h \in Handlers : at[h] # "idle"
    /\ failed'  = failed \union {c \in Cases : \E h \in Handlers : Holds(h, c)}
    /\ at'      = [h \in Handlers |-> "idle"]
    /\ target'  = [h \in Handlers |-> 0]
    /\ pending' = [h \in Handlers |-> Nothing]
    /\ UNCHANGED <<store, index, overlapped>>

Handle(h) ==
    \/ \E s \in Saves : Create(h, s) \/ Update(h, s)
    \/ \E c \in Cases, next \in {"update", "delete"} : Check(h, c, next)
    \/ RejectUpdate(h) \/ DeleteCase(h) \/ Sync(h)
    \/ \E c \in Cases : EmbedDescription(h, c) \/ EmbedAnalysis(h, c)
    \/ Remove(h) \/ RemoveAnalysis(h) \/ Fail(h)

IndexNext == ServerCrash \/ \E h \in Handlers : Handle(h)

IndexSpec == IndexInit /\ [][IndexNext]_indexVars

------------------------------------------------------------------------------
IndexTypeOK ==
    /\ table      \in [Cases -> Saves \union {None}]
    /\ nextId     \in 1 .. MaxCases + 1
    /\ desc       \in [Cases -> Saves \union {None}]
    /\ anal       \in [Cases -> WithAnalysis \union {None}]
    /\ at         \in [Handlers -> {"idle", "update", "delete"} \union Embedding \union Removing]
    /\ target     \in [Handlers -> Cases \union {0}]
    /\ pending    \in [Handlers -> [Cases -> Saves \union {None}]]
    /\ overlapped \subseteq Cases
    /\ failed     \subseteq Cases

\* The index holds what the row holds.
Agrees(c) == desc[c] = table[c] /\ anal[c] = AnalysisOf(table[c])

Quiet(c) == \A h \in Handlers : ~ Holds(h, c)

\* The index of a case no handler is writing is the row's, unless two handlers
\* wrote it at a time or one was left halfway; and the next save of the case,
\* or a sync, that nobody disturbs puts it right (cases.py, kb_search.py).
UndisturbedAgrees ==
    \A c \in Cases : Quiet(c) /\ c \notin overlapped \union failed => Agrees(c)

\* The design document: a case is saved in SQLite and in ChromaDB together
\* (Technical_Design, AnalyzingAssistant_v2, line 114).
IndexFollowsRows ==
    \A c \in Cases : Quiet(c) /\ c \notin failed => Agrees(c)

\* Readme.md:129: the index can be rebuilt from SQLite by POST /cases/sync.
SyncRebuilds ==
    [][\A h \in Handlers :
          /\ at[h] = "analysis" /\ target[h] = 0
          /\ at'[h] = "idle" /\ failed' = failed
          => \A c \in Cases : Agrees(c)']_indexVars

==============================================================================
