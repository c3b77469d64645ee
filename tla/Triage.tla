-------------------------------- MODULE Triage --------------------------------
(***************************************************************************)
(* TentativeDefectTriage, triage.py and analyze.py: the experts that the   *)
(* user names work through the same logs, each with the material of its    *)
(* module, in a pool of threads; their reports are presented side by side. *)
(***************************************************************************)
EXTENDS TriageMaterial

CONSTANTS
    Cases,         \* what is asked: logs, mode, and the experts in the order given
    MaxWorkers

(* The experts and the documents of a kind are listed in an order.         *)
ASSUME TriageAssumption ==
    /\ MaxWorkers \in Nat \ {0}
    /\ \A c \in Cases :
          /\ c.logs \in Seq(Seq(RawLine))
          /\ c.experts \in Seq(ToSet(c.experts))
          /\ \A e \in ToSet(c.experts) : \A kind \in DOMAIN e.material.module :
                LET docs == e.material.module[kind] IN docs \in Seq(ToSet(docs))

VARIABLES
    case,          \* one of Cases
    context,       \* per expert what prepare makes of the case, for good
    expert,        \* per expert: how far it is, the questions asked
    awaited,       \* the outcome that the main thread waits for
    phase          \* of the main thread

vars == <<case, context, expert, awaited, phase>>

Experts == DOMAIN case.experts
Material(i) == case.experts[i].material

NoContext == [lines |-> <<>>]

(* prepare is a function of the case: it is computed once, with the case,  *)
(* and nothing looks at it before the expert has prepared.                 *)
ContextOf(c, i) ==
    LET e == c.experts[i]
    IN  IF e.material.present /\ e.material.readable
        THEN Prepare(e.material, c.logs, e.config) ELSE NoContext

Stations == {"waiting", "taken", "observing", "hypothesising",
             "failed", "reported", "exited", "cancelled"}

Working(i) == expert[i].at \in {"taken", "observing", "hypothesising"}

(* What the model may answer to the last prompt: a report, a text without  *)
(* an object, or JSON that is no object.                                   *)
Replies == {"object", "no JSON", "array"}

Init ==
    /\ case \in Cases
    /\ context = [i \in DOMAIN case.experts |-> ContextOf(case, i)]
    /\ expert = [i \in DOMAIN case.experts |-> [at |-> "waiting", asked |-> {}]]
    /\ awaited = 1
    /\ phase = "running"

Becomes(i, at) ==
    /\ expert' = [expert EXCEPT ![i].at = at]
    /\ UNCHANGED <<case, context, awaited, phase>>

\* Mutant of Take: a worker that had an expert is not free again.
TakeOnce(i) ==
    /\ expert[i].at = "waiting"
    /\ \A j \in Experts : j < i => expert[j].at # "waiting"
    /\ Cardinality({j \in Experts : expert[j].at # "waiting"}) < MaxWorkers
    /\ Becomes(i, "taken")

(* A free worker takes the first expert that waits.                        *)
Take(i) ==
    /\ expert[i].at = "waiting"
    /\ \A j \in Experts : j < i => expert[j].at # "waiting"
    /\ Cardinality({j \in Experts : Working(j)}) < MaxWorkers
    /\ Becomes(i, "taken")

(* No module for the profile, no directory of the chip, or no index in it. *)
NoMaterial(i) ==
    /\ expert[i].at = "taken"
    /\ ~Material(i).present
    /\ Becomes(i, "failed")

(* An index that is empty or has another header ends the program.          *)
IndexExits(i) ==
    /\ expert[i].at = "taken"
    /\ Material(i).present
    /\ ~Material(i).readable
    /\ Becomes(i, "exited")

PrepareContext(i) ==
    /\ expert[i].at = "taken"
    /\ Material(i).present
    /\ Material(i).readable
    /\ Becomes(i, IF case.mode = "two_stage" THEN "observing" ELSE "hypothesising")

InGroups(i, groups) == {q \in context[i].questions : q.group \in groups}

(* The first of two calls: the questions of group A.                       *)
Observe(i) ==
    /\ expert[i].at = "observing"
    /\ expert' = [expert EXCEPT ![i].at = "hypothesising", ![i].asked = InGroups(i, {"A"})]
    /\ UNCHANGED <<case, context, awaited, phase>>

(* The last call, and what is made of its answer.                          *)
Hypothesise(i) ==
    /\ expert[i].at = "hypothesising"
    /\ \E reply \in Replies :
          expert' = [expert EXCEPT
              ![i].at = IF reply = "array" THEN "failed" ELSE "reported",
              ![i].asked = InGroups(i, IF case.mode = "two_stage" THEN {"B", "C"}
                                       ELSE {"A", "B", "C"})]
    /\ UNCHANGED <<case, context, awaited, phase>>

(* A call of the model raises.                                             *)
CallFails(i) ==
    /\ expert[i].at \in {"observing", "hypothesising"}
    /\ Becomes(i, "failed")

-----------------------------------------------------------------------------
(* The main thread takes the outcomes in the order the experts were given. *)
Collect ==
    /\ phase = "running"
    /\ awaited \in Experts
    /\ expert[awaited].at \in {"failed", "reported"}
    /\ awaited' = awaited + 1
    /\ UNCHANGED <<case, context, expert, phase>>

(* The exit of a thread comes up in the main thread: what waits is         *)
(* cancelled, what runs is waited for.                                     *)
ExitComesUp ==
    /\ phase = "running"
    /\ awaited \in Experts
    /\ expert[awaited].at = "exited"
    /\ expert' = [i \in Experts |->
                     IF expert[i].at = "waiting" THEN [expert[i] EXCEPT !.at = "cancelled"]
                     ELSE expert[i]]
    /\ phase' = "exiting"
    /\ UNCHANGED <<case, context, awaited>>

Abort ==
    /\ phase = "exiting"
    /\ ~\E i \in Experts : Working(i)
    /\ phase' = "aborted"
    /\ UNCHANGED <<case, context, expert, awaited>>

Present ==
    /\ phase = "running"
    /\ awaited > Len(case.experts)
    /\ phase' = "presented"
    /\ UNCHANGED <<case, context, expert, awaited>>

Main == Collect \/ ExitComesUp \/ Abort \/ Present

Next ==
    \/ Main
    \/ \E i \in Experts :
          \/ Take(i)
          \/ NoMaterial(i)
          \/ IndexExits(i)
          \/ PrepareContext(i)
          \/ Observe(i)
          \/ Hypothesise(i)
          \/ CallFails(i)

Spec == Init /\ [][Next]_vars /\ WF_vars(Next)

-----------------------------------------------------------------------------
(* Properties.                                                             *)

TypeOK ==
    /\ case \in Cases
    /\ expert \in [Experts -> [at : Stations, asked : SUBSET ToSet(Questions)]]
    /\ awaited \in 1..(Len(case.experts) + 1)
    /\ phase \in {"running", "presented", "exiting", "aborted"}

Prepared(i) == expert[i].at \in {"observing", "hypothesising"}

(* What the logs tell: a line that says that the message before it came N  *)
(* times more stands for N events of that message.                         *)
IsMarker(raw, k) == k > 1 /\ Repeats[raw[k].msg] > 0

MessageOf(raw, k) == raw[Max({j \in 1..k : ~IsMarker(raw, j)})].msg

EventsFor(raw, keywords) ==
    SumTo(Len(raw), [k \in DOMAIN raw |->
        IF ~Wanted(keywords, MessageOf(raw, k)) THEN 0
        ELSE IF IsMarker(raw, k) THEN Repeats[raw[k].msg] ELSE 1])

(* Keywords that do not look at addresses.  A burst is folded into its     *)
(* first line before the filter, so that a keyword that does look at them  *)
(* sees the address of that line only, and takes or leaves all the others. *)
SeeNoAddress(keywords) ==
    \A a, b \in Messages :
        Masked[a] = Masked[b] => (Wanted(keywords, a) <=> Wanted(keywords, b))

(* No event is lost without a word: the counts on the lines of a prompt    *)
(* add up to the events that the expert's keywords let through, unless the *)
(* prompt says that the middle was dropped; three ways of folding lines    *)
(* together, a filter and a budget come one after the other                *)
(* (refine.py, refine; analyze.py, omissions).                             *)
CountsKept ==
    \A i \in Experts : Prepared(i) /\ SeeNoAddress(case.experts[i].config.keywords) =>
        LET lines == context[i].lines
        IN  \/ "middle dropped" \in context[i].omissions
            \/ SumTo(Len(lines), [k \in DOMAIN lines |-> lines[k].count])
               = EventsFor(Raw(case.logs), case.experts[i].config.keywords)

(* What is written at a place: a call that starts there, or the name of    *)
(* the function around it.                                                 *)
WrittenAt(m, place, value) ==
    /\ place[1] \in DOMAIN m.source
    /\ LET file == m.source[place[1]]
       IN  \/ /\ value.kind = "call"
              /\ \E c \in file.calls : c.at = place[2] /\ c.text = value.text
           \/ /\ value.kind = "name"
              /\ \E h \in file.heads :
                    h.closed /\ Encloses(h, place[2]) /\ h.name = value.text

(* The layout that narrow counts on: C functions lie one after the other *)
(* in their file, and a call is no longer than the window.                 *)
FunctionsApart(file) ==
    \A h \in {g \in file.heads : g.closed} :
        /\ {h.at, h.open, h.close} \subseteq Nat
        /\ h.at <= h.open /\ h.open <= h.close /\ h.close <= file.length
        /\ \A g \in file.heads : g.closed /\ g # h => g.close < h.at \/ h.close < g.at

CallsFit(file) ==
    \A c \in file.calls :
        /\ {c.at, c.first, c.last} \subseteq Nat
        /\ c.at <= c.first /\ c.first <= c.last /\ c.last <= file.length
        /\ c.last < c.at + SpanOfCall

Shows(rows, text) ==
    \E msg \in Messages : \E e \in rows : \E v \in ToSet(Extracted[<<msg, e.format>>]) : v.text = text

(* A call that a row may show, and that begins in the window of the row,   *)
(* is itself at a row of that key; none runs on into the next row.         *)
CallsHaveRows(rows, path, file) ==
    \A c \in file.calls : Shows(rows, c.text) =>
        \A e \in {f \in rows : f.path = path} :
            /\ c.first \in e.line..(e.line + SpanOfCall - 1)
                  => \E f \in rows : f.path = path /\ f.line = c.at
            /\ c.at < e.line => c.last < e.line

LaidOut(m) ==
    LET index == ToSet(LoadIndex(m))
    IN  /\ \A e \in index : e.key \in Keys /\ e.line \in Nat
        /\ \A path \in DOMAIN m.source :
              LET file == m.source[path]
              IN  /\ file.length \in Nat
                  /\ FunctionsApart(file)
                  /\ CallsFit(file)
                  /\ \A key \in Keys :
                        CallsHaveRows({e \in index : e.key = key}, path, file)

(* A place told apart by the source is one whose code writes what the line *)
(* shows, and no such place is lost: neighbours of the same message are    *)
(* not mistaken for each other, in material that is LaidOut                *)
(* (disambiguate.py, narrow).                                              *)
NarrowedIsTrue ==
    \A i \in Experts : Prepared(i) /\ LaidOut(Material(i)) =>
        LET m == Material(i)
        IN  \A r \in {l \in ToSet(context[i].lines) : l.narrowed} :
                LET key  == BestKey(LoadIndex(m), r.msg)
                    rows == {e \in ToSet(LoadIndex(m)) : e.key = key}
                IN  r.places = {Place(e) : e \in {f \in rows :
                        \E g \in rows : \E v \in Values(r, g.format) :
                            WrittenAt(m, Place(f), v)}}

(* The documents that a prompt has something of.                           *)
DocsIn(i) ==
    {Sections(Material(i))[k].doc : k \in context[i].excerpt \union context[i].hops}
    \union context[i].whole \union context[i].background
    \union {s.doc : s \in context[i].supplements}

(* A question is put only with something of the document it rests on: the  *)
(* gate looks at what exists, the excerpt at what was observed, and the    *)
(* supplement has to close the gap (analyze.py, the comment on the basis   *)
(* documents; prompt.py, available_questions).                             *)
NoQuestionWithoutBasis ==
    \A i \in Experts : \A q \in expert[i].asked :
        Rests(q) => \E d \in BasisOf(Material(i), q) :
                        d.name \in DocsIn(i)

(* The files that the log points to and that no section of the excerpt     *)
(* cites.  The code tells the files of the log by their base names: of two *)
(* with the same name a section that cites either of them will do.         *)
Uncovered(i) ==
    LET places  == Observed(context[i].lines)
        Cited(o) == \E k \in context[i].excerpt :
                       \E c \in ToSet(Sections(Material(i))[k].citations) : SameFile(c.path, o[1])
    IN  {BaseName(p[1]) : p \in places} \ {BaseName(o[1]) : o \in {p \in places : Cited(p)}}

(* A file that the log points to is described by a section that cites it,  *)
(* or the prompt counts it among those that have none: it counts no other, *)
(* and names none that has one, and all of them if they are few            *)
(* (excerpt.py, select_sections; analyze.py, unmatched_files).             *)
FilesAreCovered ==
    \A i \in Experts : Prepared(i) =>
        LET told == context[i].uncited
        IN  /\ told.count = Cardinality(Uncovered(i))
            /\ told.named \subseteq Uncovered(i)
            /\ told.count <= MaxNamed => told.named = Uncovered(i)

(* The failure of an expert, whatever it is, stays its own: the others are *)
(* presented (triage.py, the third principle of its docstring).            *)
OneFailureStaysAlone == phase # "aborted"

(* The program gives up only for an index that load_index exits on; what is  *)
(* presented has the outcome of every expert, and no report was made        *)
(* without material (triage.py, run_triage).                                *)
OnlyAnExitAborts ==
    phase \in {"exiting", "aborted"} =>
        \E i \in Experts : Material(i).present /\ ~Material(i).readable

PresentedIsComplete ==
    /\ phase = "presented" => \A i \in Experts : expert[i].at \in {"failed", "reported"}
    /\ \A i \in Experts : expert[i].at = "reported" => Material(i).present /\ Material(i).readable

(* Every triage ends, presented or not: no expert is left in the pool, and *)
(* the main thread waits for none that does not come.                      *)
TriageEnds == <>(phase \in {"presented", "aborted"})

===============================================================================
