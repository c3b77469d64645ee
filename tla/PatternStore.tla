----------------------------- MODULE PatternStore -----------------------------
(***************************************************************************)
(* The store of the patterns: the tables patterns and pattern_components,  *)
(* the handlers of /patterns (api/router/patterns.py), the generator that  *)
(* proposes new ones (core/pattern_generator.py), and the seeder that      *)
(* fills an empty store from default_patterns.yaml at every start and may  *)
(* be asked to start over (core/pattern_seeder.py).  A row is the name of  *)
(* a pattern and the rows it is composed of.  A transaction of SQLite is   *)
(* one step; what a handler reads before its first write is a step of its  *)
(* own, because the transaction begins with that write.                    *)
(***************************************************************************)
EXTENDS Integers, Sequences, FiniteSets

CONSTANTS
    Handlers,    \* clients, each with the handler that serves it
    Names,       \* names of patterns
    File,        \* default_patterns.yaml: its patterns, in order
    MaxPatterns, \* bound: rows ever inserted
    MaxStarts,   \* bound: starts of the server
    MaxRequests, \* bound: requests of clients
    None

ASSUME FileAssumption ==
    File \in Seq([name : Names, comps : SUBSET Names])

ASSUME BoundAssumption == MaxPatterns \in Nat /\ MaxStarts \in Nat /\ MaxRequests \in Nat

ASSUME NoneAssumption ==
    /\ None \notin Names
    /\ None \notin [name : Names, comps : SUBSET (1 .. MaxPatterns)]

\* MAX_RETRIES of the generator.
MaxRetries == 3

Ids == 1 .. MaxPatterns

NoRequest == [id |-> 0, name |-> None, comps |-> {}, doomed |-> {}, tries |-> 0]

VARIABLES
    rows,    \* of every id: the name and the components, None without a row
    nextId,  \* AUTOINCREMENT: an id is not given again
    server,  \* "down", "seeding", "up"
    reset,   \* "none", or "emptied" between the two transactions of reset()
    at,      \* where each client or its handler stands
    req,     \* its request
    known,   \* the names it has read
    starts,  \* bounded by MaxStarts
    sent,    \* bounded by MaxRequests
    moved,   \* history variable: names deleted or changed since it read them
    fresh,   \* history variable: rows written since a DELETE read the composites
    touched, \* history variable: a client has changed the patterns of the file
    halted   \* history variable: a reset was killed halfway

store   == <<rows, nextId>>
client  == <<at, req, known>>
history == <<moved, fresh, touched, halted>>
bounded == <<starts, sent>>
vars    == <<store, server, reset, client, bounded, history>>

Live      == {p \in Ids : rows[p] # None}
NamesOf(t) == {t[p].name : p \in {q \in Ids : t[q] # None}}
LiveNames == NamesOf(rows)

\* Every handler that works in the process, not in a browser.
Working == {"drafting", "putting", "deleting", "doomed"}

Finish(h) ==
    /\ at'  = [at EXCEPT ![h] = "idle"]
    /\ req' = [req EXCEPT ![h] = NoRequest]

\* What the histories note, for those that are in the middle of a request, of a
\* step that makes t of the rows.
Note(t) ==
    /\ moved' = [h \in Handlers |-> IF at'[h] \in {"drafting", "reviewing", "putting"}
                                    THEN moved[h] \union (LiveNames \ NamesOf(t)) ELSE {}]
    /\ fresh' = [h \in Handlers |-> IF at'[h] = "doomed"
                                    THEN fresh[h] \union {p \in Ids : t[p] # rows[p]} ELSE {}]

Init ==
    /\ rows    = [p \in Ids |-> None]
    /\ nextId  = 1
    /\ server  = "down"
    /\ reset   = "none"
    /\ at      = [h \in Handlers |-> "idle"]
    /\ req     = [h \in Handlers |-> NoRequest]
    /\ known   = [h \in Handlers |-> {}]
    /\ starts  = 0
    /\ sent    = 0
    /\ moved   = [h \in Handlers |-> {}]
    /\ fresh   = [h \in Handlers |-> {}]
    /\ touched = FALSE
    /\ halted  = FALSE

------------------------------------------------------------------------------
\* load_yaml: every component is defined in the file, and none is built of
\* itself.
Defined(file) ==
    LET names == {file[i].name : i \in DOMAIN file}
    IN  \A i \in DOMAIN file : file[i].comps \subseteq names

Acyclic(file) ==
    \E rank \in [Names -> 1 .. Cardinality(Names)] :
        \A i \in DOMAIN file : \A c \in file[i].comps : rank[c] < rank[file[i].name]

Valid(file) == Defined(file) /\ Acyclic(file)

\* _insert_all puts those without components first; a composite finds the id
\* of a component only when it is there already.
Before(k, i) == IF (File[k].comps = {}) = (File[i].comps = {})
                THEN k < i ELSE File[k].comps = {}

Resolvable ==
    \A i \in DOMAIN File : \A n \in File[i].comps :
        \E k \in DOMAIN File : Before(k, i) /\ File[k].name = n

\* A name is given once, in the file and in the table.
Unique == \A i, k \in DOMAIN File : File[i].name = File[k].name => i = k

Insertable ==
    /\ Valid(File) /\ Resolvable /\ Unique
    /\ \A i \in DOMAIN File : File[i].name \notin LiveNames

\* The id that pattern i of the file is given.
IdOf(i) == nextId + Cardinality({k \in DOMAIN File : Before(k, i)})

FileRow(i) ==
    [name  |-> File[i].name,
     comps |-> {IdOf(k) : k \in {x \in DOMAIN File : File[x].name \in File[i].comps}}]

FileRows ==
    [p \in Ids |-> IF \E i \in DOMAIN File : IdOf(i) = p
                   THEN FileRow(CHOOSE i \in DOMAIN File : IdOf(i) = p)
                   ELSE rows[p]]

\* One transaction: all of the file, or an exception and nothing.
InsertFile ==
    IF Insertable
    THEN rows' = FileRows /\ nextId' = nextId + Len(File)
    ELSE UNCHANGED store

\* Mutant of IsEmpty: a database that has been filled once is never seeded.
IsNew == nextId = 1

IsEmpty == Live = {}

\* startup: seed() looks in one transaction whether there is any pattern ...
Start ==
    /\ server = "down"
    /\ starts < MaxStarts
    /\ starts' = starts + 1
    /\ server' = IF IsEmpty THEN "seeding" ELSE "up"
    /\ halted' = FALSE
    /\ UNCHANGED <<store, reset, client, sent, moved, fresh, touched>>

\* ... and inserts the file in another; an exception ends the start-up.
Seed ==
    /\ server = "seeding"
    /\ nextId + Len(File) - 1 <= MaxPatterns
    /\ InsertFile
    /\ server' = IF Insertable THEN "up" ELSE "down"
    /\ UNCHANGED <<reset, client, bounded, history>>

\* The process ends; a client that reviews its pattern in a browser stays.
Stop ==
    /\ server # "down"
    /\ server' = "down"
    /\ at'  = [h \in Handlers |-> IF at[h] \in Working THEN "idle" ELSE at[h]]
    /\ req' = [h \in Handlers |-> IF at[h] \in Working THEN NoRequest ELSE req[h]]
    /\ known' = [h \in Handlers |-> {}]
    /\ Note(rows)
    /\ UNCHANGED <<store, reset, bounded, touched, halted>>

\* reset(), called by hand beside the server: the file is checked, then all
\* rows are deleted, then the file is inserted.
ResetDelete ==
    /\ reset = "none"
    /\ Valid(File)
    /\ nextId + 2 * Len(File) - 1 <= MaxPatterns
    /\ reset' = "emptied"
    /\ rows'  = [p \in Ids |-> None]
    /\ touched' = FALSE
    /\ UNCHANGED client
    /\ Note(rows')
    /\ UNCHANGED <<nextId, server, bounded, halted>>

ResetInsert ==
    /\ reset = "emptied"
    /\ nextId + Len(File) - 1 <= MaxPatterns
    /\ reset' = "none"
    /\ InsertFile
    /\ UNCHANGED <<server, client, bounded, history>>

ResetKilled ==
    /\ reset = "emptied"
    /\ reset'  = "none"
    /\ halted' = (Live = {})
    /\ UNCHANGED <<store, server, client, bounded, moved, fresh, touched>>

------------------------------------------------------------------------------
Request == sent < MaxRequests /\ sent' = sent + 1

\* A client reads the list and composes a pattern of what it read.
Compose(h, name, comps) ==
    /\ server = "up" /\ at[h] = "idle"
    /\ Request
    /\ comps \subseteq LiveNames
    /\ at'    = [at EXCEPT ![h] = "reviewing"]
    /\ req'   = [req EXCEPT ![h].name = name, ![h].comps = comps]
    /\ moved' = [moved EXCEPT ![h] = {}]
    /\ UNCHANGED <<store, server, reset, known, starts, fresh, touched, halted>>

\* PatternGenerator.generate: the names are read, and the model is asked.
FetchContext(h) ==
    /\ server = "up" /\ at[h] = "idle"
    /\ Request
    /\ at'    = [at EXCEPT ![h] = "drafting"]
    /\ known' = [known EXCEPT ![h] = LiveNames]
    /\ moved' = [moved EXCEPT ![h] = {}]
    /\ UNCHANGED <<store, server, reset, req, starts, fresh, touched, halted>>

\* Mutant of Accepts: whatever components the model names are taken.
AcceptsAny(h, comps) == comps \subseteq known[h] \union Names

\* _parse_response: the components must be among the names that were read.
Accepts(h, comps) == comps \subseteq known[h]

\* An answer of the model; after MaxRetries bad ones the generation fails.
Draft(h, name, comps) ==
    /\ at[h] = "drafting"
    /\ \/ /\ Accepts(h, comps)
          /\ at'  = [at EXCEPT ![h] = "reviewing"]
          /\ req' = [req EXCEPT ![h].name = name, ![h].comps = comps, ![h].tries = 0]
       \/ /\ ~Accepts(h, comps)
          /\ req[h].tries + 1 < MaxRetries
          /\ req' = [req EXCEPT ![h].tries = @ + 1]
          /\ UNCHANGED at
       \/ /\ ~Accepts(h, comps)
          /\ req[h].tries + 1 = MaxRetries
          /\ Finish(h)
    /\ known' = [known EXCEPT ![h] = IF at'[h] = "drafting" THEN @ ELSE {}]
    /\ Note(rows)
    /\ UNCHANGED <<store, server, reset, bounded, touched, halted>>

Discard(h) ==
    /\ at[h] = "reviewing"
    /\ Finish(h)
    /\ Note(rows)
    /\ UNCHANGED <<store, server, reset, known, bounded, touched, halted>>

\* The rows of the components that are there; the others are left out silently.
Refs(comps) == {p \in Live : rows[p].name \in comps}

\* POST: insert_pattern, one transaction; a name that exists is a conflict.
Create(h) ==
    /\ server = "up" /\ at[h] = "reviewing"
    /\ nextId \in Ids
    /\ IF req[h].name \in LiveNames
       THEN UNCHANGED <<store, touched>>
       ELSE /\ rows' = [rows EXCEPT ![nextId] =
                           [name |-> req[h].name, comps |-> Refs(req[h].comps)]]
            /\ nextId' = nextId + 1
            /\ touched' = TRUE
    /\ Finish(h)
    /\ Note(rows')
    /\ UNCHANGED <<server, reset, known, bounded, halted>>

\* PUT looks whether the pattern is there ...
CheckPut(h, p) ==
    /\ server = "up" /\ at[h] = "reviewing"
    /\ p \in Live
    /\ at'  = [at EXCEPT ![h] = "putting"]
    /\ req' = [req EXCEPT ![h].id = p]
    /\ UNCHANGED <<store, server, reset, known, bounded, history>>

\* ... and then updates it and writes its components anew, in one transaction.
\* A name that another pattern has, or a component of a row that has gone
\* since, rolls it back; without components the update of a row that has gone
\* touches nothing.  A pattern may come to name itself.
Update(h) ==
    LET p    == req[h].id
        row  == [name |-> req[h].name, comps |->
                    {q \in Live : (IF q = p THEN req[h].name ELSE rows[q].name)
                                  \in req[h].comps}]
    IN  /\ at[h] = "putting"
        /\ IF p \in Live /\ \A q \in Live \ {p} : rows[q].name # req[h].name
           THEN rows' = [rows EXCEPT ![p] = row] /\ touched' = TRUE
           ELSE UNCHANGED <<rows, touched>>
        /\ Finish(h)
        /\ Note(rows')
        /\ UNCHANGED <<nextId, server, reset, known, bounded, halted>>

\* DELETE looks whether the pattern is there, ...
CheckDelete(h, p) ==
    /\ server = "up" /\ at[h] = "idle"
    /\ Request
    /\ p \in Live
    /\ at'  = [at EXCEPT ![h] = "deleting"]
    /\ req' = [req EXCEPT ![h].id = p]
    /\ UNCHANGED <<store, server, reset, known, starts, history>>

CompositesOf(p) == {q \in Live : p \in rows[q].comps}

\* ... reads the composites that refer to it, ...
ReadComposites(h) ==
    /\ at[h] = "deleting"
    /\ at'    = [at EXCEPT ![h] = "doomed"]
    /\ req'   = [req EXCEPT ![h].doomed = CompositesOf(req[h].id)]
    /\ UNCHANGED <<store, server, reset, known, bounded, history>>

\* Mutant of Unreferenced: only the references to the pattern itself go.
UnreferencedSelf(h) == {req[h].id}

\* The rows whose references are removed first: a reference has no cascade.
Unreferenced(h) == req[h].doomed \union {req[h].id}

\* ... and deletes them with the pattern, in one transaction.
Delete(h) ==
    LET removed == req[h].doomed \union {req[h].id}
        kept    == [p \in Ids |->
                       IF p \in removed \/ rows[p] = None THEN None
                       ELSE [rows[p] EXCEPT !.comps = @ \ Unreferenced(h)]]
        whole   == \A p \in Ids : kept[p] # None => kept[p].comps \intersect removed = {}
    IN  /\ at[h] = "doomed"
        /\ IF whole
           THEN rows' = kept /\ touched' = TRUE
           ELSE UNCHANGED <<rows, touched>>
        /\ Finish(h)
        /\ Note(rows')
        /\ UNCHANGED <<nextId, server, reset, known, bounded, halted>>

Next ==
    \/ Start \/ Seed \/ Stop
    \/ ResetDelete \/ ResetInsert \/ ResetKilled
    \/ \E h \in Handlers :
          \/ \E n \in Names, c \in SUBSET Names : Compose(h, n, c) \/ Draft(h, n, c)
          \/ FetchContext(h) \/ Discard(h) \/ Create(h)
          \/ \E p \in Ids : CheckPut(h, p) \/ CheckDelete(h, p)
          \/ Update(h) \/ ReadComposites(h) \/ Delete(h)

Spec == Init /\ [][Next]_vars

------------------------------------------------------------------------------
Rows     == [name : Names, comps : SUBSET Ids] \union {None}
Places   == {"idle", "reviewing"} \union Working
Requests == [id : Ids \union {0}, name : Names \union {None}, comps : SUBSET Names,
             doomed : SUBSET Ids, tries : 0 .. MaxRetries]

TypeOK ==
    /\ rows    \in [Ids -> Rows]
    /\ nextId  \in 1 .. MaxPatterns + 1
    /\ server  \in {"down", "seeding", "up"}
    /\ reset   \in {"none", "emptied"}
    /\ at      \in [Handlers -> Places]
    /\ req     \in [Handlers -> Requests]
    /\ known   \in [Handlers -> SUBSET Names]
    /\ starts  \in 0 .. MaxStarts
    /\ sent    \in 0 .. MaxRequests
    /\ moved   \in [Handlers -> SUBSET Names]
    /\ fresh   \in [Handlers -> SUBSET Ids]
    /\ touched \in BOOLEAN /\ halted \in BOOLEAN

\* A save leaves a component out only when its pattern was deleted or renamed
\* after the client, or the generator, had read the names: the components of a
\* request that is under way are there, or have gone since
\* (pattern_db.py, _do_insert skips a name it does not find, silently).
SkippedHasCause ==
    \A h \in Handlers :
        at[h] \in {"reviewing", "putting"} => req[h].comps \subseteq LiveNames \union moved[h]

Deleting(h) == at[h] = "doomed" /\ at'[h] = "idle" /\ server' = server
Saving(p)   == \E h \in Handlers : at[h] = "putting" /\ at'[h] = "idle" /\ req[h].id = p

\* A DELETE takes the pattern and the composites that refer to it, and nothing
\* else: no foreign key stops it, however the composites are nested, and no other
\* pattern loses a component, but for the composites that are taken along.  Only
\* what was written after it had read the composites may go or stay wrongly
\* (patterns.py, _delete_pattern_cascade).
DeleteTakesComposites ==
    [][\A h \in Handlers : Deleting(h) =>
          \A p \in Live :
             \/ p \in fresh[h]
             \/ rows'[p] = None /\ (p = req[h].id \/ req[h].id \in rows[p].comps)
             \/ /\ rows'[p] # None
                /\ req[h].id \notin rows[p].comps
                /\ \A q \in rows[p].comps \ rows'[p].comps : q \in req[h].doomed
      ]_vars

\* The patterns of the file come back: a server that is up has them all, unless
\* a client has changed some, even when a reset was killed halfway, ran beside
\* the start of the server, or both (pattern_seeder.py, seed and reset).
DefaultsComeBack ==
    server = "up" /\ reset = "none" /\ ~halted /\ ~touched =>
        LiveNames = {File[i].name : i \in DOMAIN File}

==============================================================================
