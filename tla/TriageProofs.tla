----------------------------- MODULE TriageProofs -----------------------------
(***************************************************************************)
(* Theorems about Triage, for any cases: whatever the logs, the material   *)
(* of the chips, the number of experts and of threads.                     *)
(***************************************************************************)
EXTENDS Triage, SequenceTheorems, TLAPS

Ready(i) == Material(i).present /\ Material(i).readable

\* What an expert works with is what prepare makes of the case.
ContextInv == context = [i \in Experts |-> ContextOf(case, i)]

\* Only an expert with material that can be read gets as far as a prompt, and the
\* questions of a prompt are those that its material can answer.
PromptInv ==
    \A i \in Experts :
        /\ expert[i].at \in {"observing", "hypothesising", "reported"} => Ready(i)
        /\ expert[i].asked # {} => Ready(i)
        /\ expert[i].asked \subseteq AvailableQuestions(Material(i))

\* The outcomes that the main thread has taken, and why it gives up.
OutcomeInv ==
    /\ \A i \in Experts : i < awaited => expert[i].at \in {"failed", "reported"}
    /\ phase = "presented" => awaited > Len(case.experts)
    /\ \A i \in Experts : expert[i].at = "exited" => Material(i).present /\ ~Material(i).readable
    /\ phase \in {"exiting", "aborted"} => \E i \in Experts : expert[i].at = "exited"

IInv == TypeOK /\ ContextInv /\ PromptInv /\ OutcomeInv

-----------------------------------------------------------------------------
(* What prepare makes of the material.                                     *)

\* The files that select_sections calls unmatched are those of which no section that
\* it chooses cites a file of that name.
LEMMA SelectSectionsCovers ==
    ASSUME NEW sections, NEW places
    PROVE  LET choice   == SelectSections(sections, places)
               Cited(o) == \E k \in choice.chosen :
                              \E c \in ToSet(sections[k].citations) : SameFile(c.path, o[1])
           IN  choice.unmatched =
                   {BaseName(p[1]) : p \in places}
                   \ {BaseName(o[1]) : o \in {p \in places : Cited(p)}}
<1> DEFINE choice   == SelectSections(sections, places)
           Cited(o) == \E k \in choice.chosen :
                          \E c \in ToSet(sections[k].citations) : SameFile(c.path, o[1])
           near     == Citing(sections, places, {TRUE})
           files    == {n[2] : n \in near}
           distant  == Citing(sections, places, {FALSE})
           fallback == {f \in distant : f[2] \notin files}
           covered  == files \union {f[2] : f \in fallback}
<1>1. /\ choice.chosen = {n[1] : n \in near \union fallback}
      /\ choice.unmatched = {BaseName(o[1]) : o \in places} \ covered
  BY DEF SelectSections
<1>2. \A name \in covered : \E o \in places : Cited(o) /\ BaseName(o[1]) = name
  <2> SUFFICES ASSUME NEW name \in covered
               PROVE  \E o \in places : Cited(o) /\ BaseName(o[1]) = name
    OBVIOUS
  <2>1. PICK n \in near \union fallback : n[2] = name
    OBVIOUS
  <2>2. PICK x \in (DOMAIN sections) \X places :
            /\ n = <<x[1], BaseName(x[2][1])>>
            /\ \E c \in ToSet(sections[x[1]].citations) : SameFile(c.path, x[2][1])
    BY <2>1 DEF Citing
  <2>3. x[1] \in choice.chosen
    BY <1>1, <2>1, <2>2
  <2>4. Cited(x[2])
    BY <2>2, <2>3
  <2>5. QED
    BY <2>1, <2>2, <2>4
<1>3. \A o \in places : Cited(o) => BaseName(o[1]) \in covered
  <2> SUFFICES ASSUME NEW o \in places, Cited(o)
               PROVE  BaseName(o[1]) \in covered
    OBVIOUS
  <2>1. PICK k \in choice.chosen :
            \E c \in ToSet(sections[k].citations) : SameFile(c.path, o[1])
    OBVIOUS
  <2>2. PICK c \in ToSet(sections[k].citations) : SameFile(c.path, o[1])
    BY <2>1
  <2>3. k \in DOMAIN sections
    <3>1. PICK f \in near \union fallback : k = f[1]
      BY <1>1, <2>1
    <3>2. PICK x \in (DOMAIN sections) \X places : f = <<x[1], BaseName(x[2][1])>>
      BY <3>1 DEF Citing
    <3>3. QED
      BY <3>1, <3>2
  <2> DEFINE n == <<k, BaseName(o[1])>>
  <2>4. Near(c, o[2]) \in BOOLEAN => n \in near \union distant
    <3>1. <<k, o>> \in (DOMAIN sections) \X places
      BY <2>3
    <3> DEFINE x == <<k, o>>
    <3>2. x[1] = k /\ x[2] = o
      OBVIOUS
    <3>3. \A nearness : Near(c, o[2]) \in nearness => n \in Citing(sections, places, nearness)
      <4> SUFFICES ASSUME NEW nearness, Near(c, o[2]) \in nearness
                   PROVE  n \in Citing(sections, places, nearness)
        OBVIOUS
      <4>1. \E d \in ToSet(sections[x[1]].citations) :
                SameFile(d.path, x[2][1]) /\ Near(d, x[2][2]) \in nearness
        BY <2>2, <3>2
      <4>2. n = <<x[1], BaseName(x[2][1])>>
        BY <3>2
      <4> HIDE DEF x, n
      <4>3. x \in (DOMAIN sections) \X places
        BY <3>1 DEF x
      <4>4. QED
        BY <4>1, <4>2, <4>3 DEF Citing
    <3>4. QED
      BY <3>3, Zenon
  <2>5. n \in near \union distant
    BY <2>4 DEF Near
  <2>6. QED
    BY <2>5
<1> HIDE DEF choice, covered
<1>4. QED
  <2>1. {BaseName(o[1]) : o \in {p \in places : Cited(p)}} \subseteq covered
    BY <1>3
  <2>2. covered \subseteq {BaseName(o[1]) : o \in {p \in places : Cited(p)}}
    BY <1>2
  <2>3. QED
    BY <1>1, <2>1, <2>2 DEF choice

\* The document that a question is supplemented with is one that it rests on.
LEMMA FirstIsBasis ==
    ASSUME NEW m, NEW q, BasisOf(m, q) # {},
           \A kind \in DOMAIN m.module : m.module[kind] \in Seq(ToSet(m.module[kind]))
    PROVE  FirstOf(m, q) \in BasisOf(m, q)
<1>1. CASE q.chip # ""
  BY <1>1 DEF FirstOf, BasisOf
<1>2. CASE q.chip = ""
  <2> DEFINE docs == ResolveModule(m, q.module)
  <2>1. BasisOf(m, q) = ToSet(docs) /\ FirstOf(m, q) = Head(docs)
    BY <1>2 DEF FirstOf, BasisOf
  <2>2. docs \in Seq(ToSet(docs))
    <3>1. CASE q.module \in DOMAIN m.module
      BY <3>1 DEF ResolveModule
    <3>2. CASE q.module \notin DOMAIN m.module
      <4>1. docs = <<>>
        BY <3>2 DEF ResolveModule
      <4>2. <<>> \in Seq(ToSet(<<>>))
        OBVIOUS
      <4>3. QED
        BY <4>1, <4>2
    <3>3. QED
      BY <3>1, <3>2
  <2>3. docs # <<>>
    BY <2>1, <2>2 DEF ToSet
  <2> HIDE DEF docs
  <2>4. Head(docs) \in ToSet(docs)
    BY <2>2, <2>3
  <2>5. QED
    BY <2>1, <2>4
<1>3. QED
  BY <1>1, <1>2

\* A question that is available has something of a document it rests on in the
\* sections, the whole documents, the background or the supplements.
LEMMA BasisIsSupplied ==
    ASSUME NEW m, NEW docs, NEW subsystems, NEW q \in AvailableQuestions(m), Rests(q),
           \A kind \in DOMAIN m.module : m.module[kind] \in Seq(ToSet(m.module[kind]))
    PROVE  \E d \in BasisOf(m, q) :
              d.name \in docs \union Whole(m) \union ConceptualDocs(m)
                         \union {s.doc : s \in Supplements(m, docs, subsystems)}
<1> DEFINE d == FirstOf(m, q)
           s == [doc |-> d.name, sections |-> BasisBody(d, subsystems)]
<1>1. d \in BasisOf(m, q)
  BY FirstIsBasis DEF AvailableQuestions
<1>2. CASE d.name \in docs \union Whole(m) \union ConceptualDocs(m)
  BY <1>1, <1>2
<1>3. CASE d.name \notin docs \union Whole(m) \union ConceptualDocs(m)
  <2>1. s \in Supplements(m, docs, subsystems)
    BY <1>3 DEF Supplements
  <2>2. s.doc = d.name
    OBVIOUS
  <2>3. QED
    BY <1>1, <2>1, <2>2
<1>4. QED
  BY <1>2, <1>3

-----------------------------------------------------------------------------
\* The experts are numbered from one.
LEMMA ExpertsNumbered ==
    ASSUME TypeOK
    PROVE  Experts = 1..Len(case.experts) /\ Len(case.experts) \in Nat
BY TriageAssumption DEF TypeOK, Experts

\* The fields of what prepare has made for an expert that is ready, as far as the
\* theorems speak of them.
LEMMA ContextOfReady ==
    ASSUME TypeOK, ContextInv, NEW i \in Experts, Ready(i)
    PROVE  LET m      == Material(i)
               lines  == context[i].lines
               choice == SelectSections(Sections(m), Observed(lines))
               docs   == {Sections(m)[k].doc : k \in context[i].excerpt}
           IN  /\ context[i].questions = AvailableQuestions(m)
               /\ context[i].excerpt = choice.chosen
               /\ context[i].whole = Whole(m)
               /\ context[i].background = ConceptualDocs(m)
               /\ context[i].supplements = Supplements(m, docs, Subsystems(lines))
               /\ context[i].uncited = [count |-> Cardinality(choice.unmatched),
                                        named |-> Named(choice.unmatched)]
<1> DEFINE m      == Material(i)
           lines  == context[i].lines
           choice == SelectSections(Sections(m), Observed(lines))
           docs   == {Sections(m)[k].doc : k \in context[i].excerpt}
<1>1. PICK config : context[i] = Prepare(m, case.logs, config)
  BY DEF ContextInv, ContextOf, Ready, Material
<1> HIDE DEF m
<1>2. context[i].questions = AvailableQuestions(m)
  BY <1>1 DEF Prepare
<1>3. context[i].excerpt = choice.chosen
  BY <1>1 DEF Prepare
<1>4. context[i].whole = Whole(m) /\ context[i].background = ConceptualDocs(m)
  BY <1>1 DEF Prepare
<1>5. context[i].supplements = Supplements(m, docs, Subsystems(lines))
  BY <1>1 DEF Prepare
<1>6. context[i].uncited = [count |-> Cardinality(choice.unmatched),
                            named |-> Named(choice.unmatched)]
  BY <1>1 DEF Prepare
<1>7. QED
  BY <1>2, <1>3, <1>4, <1>5, <1>6 DEF m

LEMMA InvInit == Init => IInv
<1> SUFFICES ASSUME Init PROVE IInv
  OBVIOUS
<1>1. TypeOK
  BY TriageAssumption DEF Init, TypeOK, Experts, Stations
<1>2. ContextInv
  BY DEF Init, ContextInv, Experts
<1>3. PromptInv
  BY DEF Init, PromptInv, Experts
<1>4. OutcomeInv
  BY ExpertsNumbered, <1>1 DEF Init, OutcomeInv, Experts
<1>5. QED
  BY <1>1, <1>2, <1>3, <1>4 DEF IInv

\* A step of an expert that is no step of the main thread: its station, and what it
\* has been asked.
Moves(i, at, asked) ==
    /\ expert' \in [Experts -> [at : Stations, asked : SUBSET ToSet(Questions)]]
    /\ expert'[i].at = at /\ expert'[i].asked = asked
    /\ \A j \in Experts \ {i} : expert'[j] = expert[j]
    /\ UNCHANGED <<case, context, awaited, phase>>

\* The steps of an expert are such moves: from a station whose outcome is not known,
\* with questions of its material only when the material can be read.
LEMMA ExpertMoves ==
    ASSUME IInv, NEW i \in Experts,
           \/ Take(i) \/ NoMaterial(i) \/ IndexExits(i) \/ PrepareContext(i)
           \/ Observe(i) \/ Hypothesise(i) \/ CallFails(i)
    PROVE  \E at \in Stations : \E asked \in SUBSET AvailableQuestions(Material(i)) :
              /\ expert[i].at \in {"waiting", "taken", "observing", "hypothesising"}
              /\ at \in {"observing", "hypothesising", "reported"} => Ready(i)
              /\ asked # {} => Ready(i)
              /\ at = "exited" => Material(i).present /\ ~Material(i).readable
              /\ Moves(i, at, asked)
<1> DEFINE asked == expert[i].asked
<1>1. /\ expert \in [Experts -> [at : Stations, asked : SUBSET ToSet(Questions)]]
      /\ asked \in SUBSET AvailableQuestions(Material(i))
      /\ asked # {} => Ready(i)
      /\ expert[i].at \in {"observing", "hypothesising", "reported"} => Ready(i)
  BY DEF IInv, TypeOK, PromptInv
<1>2. ASSUME NEW at \in Stations, Becomes(i, at) PROVE Moves(i, at, asked)
  BY <1>1, <1>2 DEF Becomes, Moves
<1>3. ASSUME NEW groups, Ready(i)
      PROVE  /\ InGroups(i, groups) \in SUBSET AvailableQuestions(Material(i))
             /\ InGroups(i, groups) \in SUBSET ToSet(Questions)
  BY <1>3, ContextOfReady DEF InGroups, IInv, AvailableQuestions
<1>4. CASE Take(i)
  BY <1>1, <1>2, <1>4 DEF Take, Stations
<1>5. CASE NoMaterial(i)
  BY <1>1, <1>2, <1>5 DEF NoMaterial, Stations
<1>6. CASE IndexExits(i)
  BY <1>1, <1>2, <1>6 DEF IndexExits, Stations
<1>7. CASE PrepareContext(i)
  BY <1>1, <1>2, <1>7 DEF PrepareContext, Stations, Ready
<1>8. CASE CallFails(i)
  BY <1>1, <1>2, <1>8 DEF CallFails, Stations
<1>9. CASE Observe(i)
  <2>1. Ready(i)
    BY <1>1, <1>9 DEF Observe
  <2>2. Moves(i, "hypothesising", InGroups(i, {"A"}))
    BY <1>1, <1>3, <1>9, <2>1 DEF Observe, Moves, Stations
  <2>3. QED
    BY <2>1, <2>2, <1>3, <1>9 DEF Observe, Stations
<1>10. CASE Hypothesise(i)
  <2>1. Ready(i)
    BY <1>1, <1>10 DEF Hypothesise
  <2> DEFINE groups == IF case.mode = "two_stage" THEN {"B", "C"} ELSE {"A", "B", "C"}
  <2>2. PICK at \in {"failed", "reported"} :
            /\ expert' = [expert EXCEPT ![i].at = at, ![i].asked = InGroups(i, groups)]
            /\ UNCHANGED <<case, context, awaited, phase>>
    BY <1>10 DEF Hypothesise
  <2> HIDE DEF groups
  <2>3. Moves(i, at, InGroups(i, groups))
    BY <1>1, <1>3, <2>1, <2>2 DEF Moves, Stations
  <2>4. QED
    BY <2>1, <2>3, <1>3, <1>10 DEF Hypothesise, Stations
<1>11. QED
  BY <1>4, <1>5, <1>6, <1>7, <1>8, <1>9, <1>10

LEMMA ExpertStep ==
    ASSUME IInv, NEW i \in Experts,
           \/ Take(i) \/ NoMaterial(i) \/ IndexExits(i) \/ PrepareContext(i)
           \/ Observe(i) \/ Hypothesise(i) \/ CallFails(i)
    PROVE  IInv'
<1>1. PICK at \in Stations, asked \in SUBSET AvailableQuestions(Material(i)) :
          /\ expert[i].at \in {"waiting", "taken", "observing", "hypothesising"}
          /\ at \in {"observing", "hypothesising", "reported"} => Ready(i)
          /\ asked # {} => Ready(i)
          /\ at = "exited" => Material(i).present /\ ~Material(i).readable
          /\ Moves(i, at, asked)
  BY ExpertMoves
<1>2. /\ Experts' = Experts /\ UNCHANGED <<case, context, awaited, phase>>
      /\ \A j \in Experts : Material(j)' = Material(j) /\ (Ready(j)' <=> Ready(j))
      /\ \A j \in Experts \ {i} : expert'[j] = expert[j]
      /\ expert'[i].at = at /\ expert'[i].asked = asked
  BY <1>1 DEF Moves, Experts, Material, Ready
<1>3. TypeOK'
  BY <1>1, <1>2 DEF IInv, TypeOK, Moves
<1>4. ContextInv'
  BY <1>2 DEF IInv, ContextInv
<1>5. PromptInv'
  BY <1>1, <1>2 DEF IInv, PromptInv
<1>6. OutcomeInv'
  BY <1>1, <1>2 DEF IInv, OutcomeInv
<1>7. QED
  BY <1>3, <1>4, <1>5, <1>6 DEF IInv

LEMMA MainStep ==
    ASSUME IInv, Main
    PROVE  IInv'
<1>0. /\ Experts = 1..Len(case.experts) /\ Len(case.experts) \in Nat
      /\ expert \in [Experts -> [at : Stations, asked : SUBSET ToSet(Questions)]]
      /\ awaited \in 1..(Len(case.experts) + 1)
  BY ExpertsNumbered DEF IInv, TypeOK
<1>1. /\ Experts' = Experts /\ UNCHANGED <<case, context>>
      /\ \A j \in Experts : Material(j)' = Material(j) /\ (Ready(j)' <=> Ready(j))
  BY DEF Main, Collect, ExitComesUp, Abort, Present, Experts, Material, Ready
<1>2. ContextInv'
  BY <1>1 DEF IInv, ContextInv
<1>3. CASE Collect
  <2>1. TypeOK'
    BY <1>0, <1>1, <1>3 DEF IInv, TypeOK, Collect
  <2>2. PromptInv'
    BY <1>1, <1>3 DEF IInv, PromptInv, Collect
  <2>3. OutcomeInv'
    BY <1>0, <1>1, <1>3 DEF IInv, OutcomeInv, Collect
  <2>4. QED
    BY <1>2, <2>1, <2>2, <2>3 DEF IInv
<1>4. CASE ExitComesUp
  <2>1. \A j \in Experts :
            /\ expert'[j].asked = expert[j].asked
            /\ \/ expert[j].at = "waiting" /\ expert'[j].at = "cancelled"
               \/ expert'[j] = expert[j]
    BY <1>0, <1>4 DEF ExitComesUp
  <2>2. expert' \in [Experts -> [at : Stations, asked : SUBSET ToSet(Questions)]]
    BY <1>0, <1>4 DEF ExitComesUp, Stations
  <2>3. TypeOK'
    BY <1>1, <1>4, <2>2 DEF IInv, TypeOK, ExitComesUp
  <2>4. PromptInv'
    BY <1>1, <2>1 DEF IInv, PromptInv
  <2>5. OutcomeInv'
    BY <1>0, <1>1, <1>4, <2>1 DEF IInv, OutcomeInv, ExitComesUp
  <2>6. QED
    BY <1>2, <2>3, <2>4, <2>5 DEF IInv
<1>5. CASE Abort \/ Present
  <2>1. TypeOK'
    BY <1>1, <1>5 DEF IInv, TypeOK, Abort, Present
  <2>2. PromptInv'
    BY <1>1, <1>5 DEF IInv, PromptInv, Abort, Present
  <2>3. OutcomeInv'
    BY <1>1, <1>5 DEF IInv, OutcomeInv, Abort, Present
  <2>4. QED
    BY <1>2, <2>1, <2>2, <2>3 DEF IInv
<1>6. QED
  BY <1>3, <1>4, <1>5 DEF Main

LEMMA InvStep == IInv /\ [Next]_vars => IInv'
<1> SUFFICES ASSUME IInv, [Next]_vars PROVE IInv'
  OBVIOUS
<1>1. CASE UNCHANGED vars
  BY <1>1 DEF vars, IInv, TypeOK, ContextInv, PromptInv, OutcomeInv, Experts, Material, Ready
<1>2. QED
  BY <1>1, ExpertStep, MainStep DEF Next

-----------------------------------------------------------------------------
\* The invariant holds in every state of a triage.
THEOREM InvariantHolds == Spec => []IInv
BY InvInit, InvStep, PTL DEF Spec

\* The variables of a triage keep their types.
THEOREM TypeCorrect == Spec => []TypeOK
<1>1. IInv => TypeOK
  BY DEF IInv
<1>2. QED
  BY <1>1, InvariantHolds, PTL

\* Whatever was observed, a question is put only with something of a document it
\* rests on (analyze.py, the supplements of prepare).
THEOREM QuestionAlwaysHasBasis == Spec => []NoQuestionWithoutBasis
<1>1. IInv => NoQuestionWithoutBasis
  <2> SUFFICES ASSUME IInv, NEW i \in Experts, NEW q \in expert[i].asked, Rests(q)
               PROVE  \E d \in BasisOf(Material(i), q) : d.name \in DocsIn(i)
    BY DEF NoQuestionWithoutBasis
  <2> DEFINE m    == Material(i)
             docs == {Sections(m)[k].doc : k \in context[i].excerpt}
             subs == Subsystems(context[i].lines)
  <2>1. Ready(i) /\ q \in AvailableQuestions(m)
    BY DEF IInv, PromptInv
  <2>2. /\ context[i].whole = Whole(m) /\ context[i].background = ConceptualDocs(m)
        /\ context[i].supplements = Supplements(m, docs, subs)
    BY <2>1, ContextOfReady DEF IInv
  <2>3. \A kind \in DOMAIN m.module : m.module[kind] \in Seq(ToSet(m.module[kind]))
    <3>1. case \in Cases /\ case.experts[i] \in ToSet(case.experts)
      BY DEF IInv, TypeOK, Experts, ToSet
    <3>2. QED
      BY <3>1, TriageAssumption DEF Material
  <2>4. PICK d \in BasisOf(m, q) :
            d.name \in docs \union Whole(m) \union ConceptualDocs(m)
                       \union {s.doc : s \in Supplements(m, docs, subs)}
    BY <2>1, <2>3, BasisIsSupplied
  <2>5. d.name \in DocsIn(i)
    BY <2>2, <2>4 DEF DocsIn
  <2>6. QED
    BY <2>5
<1>2. QED
  BY <1>1, InvariantHolds, PTL

\* The files that the log points to and no section cites are counted, all of them and
\* no other, and named as far as the prompt names any (excerpt.py, select_sections;
\* analyze.py, unmatched_files).
THEOREM FilesAlwaysCovered == Spec => []FilesAreCovered
<1>1. IInv => FilesAreCovered
  <2> SUFFICES ASSUME IInv, NEW i \in Experts, Prepared(i)
               PROVE  LET told == context[i].uncited
                      IN  /\ told.count = Cardinality(Uncovered(i))
                          /\ told.named \subseteq Uncovered(i)
                          /\ told.count <= MaxNamed => told.named = Uncovered(i)
    BY DEF FilesAreCovered
  <2> DEFINE places == Observed(context[i].lines)
             choice == SelectSections(Sections(Material(i)), places)
  <2>1. /\ context[i].excerpt = choice.chosen
        /\ context[i].uncited = [count |-> Cardinality(choice.unmatched),
                                 named |-> Named(choice.unmatched)]
    BY ContextOfReady DEF IInv, PromptInv, Prepared
  <2>2. choice.unmatched = Uncovered(i)
    BY <2>1, SelectSectionsCovers DEF Uncovered
  <2> HIDE DEF choice
  <2>3. Named(Uncovered(i)) \subseteq Uncovered(i)
    BY DEF Named
  <2>4. Cardinality(Uncovered(i)) <= MaxNamed => Named(Uncovered(i)) = Uncovered(i)
    BY DEF Named
  <2>5. QED
    BY <2>1, <2>2, <2>3, <2>4
<1>2. QED
  BY <1>1, InvariantHolds, PTL

\* An expert that fails in any other way than by the exit of its index takes nobody
\* with it (triage.py, the third principle of its docstring).
THEOREM OnlyAnExitEverAborts == Spec => []OnlyAnExitAborts
<1>1. IInv => OnlyAnExitAborts
  BY DEF IInv, OutcomeInv, OnlyAnExitAborts
<1>2. QED
  BY <1>1, InvariantHolds, PTL

\* What is presented has the outcome of every expert, and a report was made with
\* material (triage.py, run_triage).
THEOREM PresentedAlwaysComplete == Spec => []PresentedIsComplete
<1>1. IInv => PresentedIsComplete
  BY ExpertsNumbered DEF IInv, OutcomeInv, PromptInv, PresentedIsComplete, Ready, TypeOK
<1>2. QED
  BY <1>1, InvariantHolds, PTL

-----------------------------------------------------------------------------
(* Sums.                                                                   *)

SumStep(f, v, k) == v + f[k]
SumGood(f, v, k) == TRUE
Sums == INSTANCE Loops WITH Step <- SumStep, Good <- SumGood

\* Min is the least element of a set of naturals, and Max the greatest of a bounded one.
LEMMA MinIsLeast ==
    ASSUME NEW S \in SUBSET Nat, S # {}
    PROVE  Min(S) \in S /\ \A k \in S : Min(S) <= k
<1>1. \E m \in S : \A k \in S : m <= k
  BY Sums!Least
<1>2. QED
  BY <1>1 DEF Min

LEMMA MaxIsGreatest ==
    ASSUME NEW n \in Nat, NEW S \in SUBSET (0..n), S # {}
    PROVE  Max(S) \in S /\ \A k \in S : Max(S) >= k
<1> DEFINE T == {n - k : k \in S}
<1>1. \A k \in S : k \in Nat /\ n - k \in Nat
  OBVIOUS
<1>2. T \in SUBSET Nat /\ T # {}
  BY <1>1
<1>3. PICK m \in T : \A k \in T : m <= k
  <2> HIDE DEF T
  <2>1. QED
    BY <1>2, Sums!Least
<1>4. PICK g \in S : m = n - g
  BY <1>3
<1>5. \A k \in S : n - g <= n - k
  BY <1>3, <1>4
<1>6. \A k \in S : g >= k
  <2> SUFFICES ASSUME NEW k \in S PROVE g >= k
    OBVIOUS
  <2>1. n - g <= n - k /\ g \in Nat /\ k \in Nat
    BY <1>1, <1>5
  <2> HIDE DEF T
  <2>2. QED
    BY <2>1
<1>7. QED
  BY <1>6 DEF Max

\* SumTo adds one value after the other.
LEMMA SumRun ==
    ASSUME NEW n \in Nat, NEW f
    PROVE  \E s : Sums!Run(f, 0, n, s) /\ SumTo(n, f) = s[n]
<1>1. Sums!Defined(f, 0, n)
  BY Sums!LoopDefined
<1>2. PICK s : /\ s = [k \in 0..n |-> IF k = 0 THEN 0 ELSE s[k - 1] + f[k]]
               /\ SumTo(n, f) = s[n]
  BY <1>1 DEF Sums!Defined, SumTo, SumStep
<1>3. Sums!Run(f, 0, n, s)
  BY <1>2 DEF Sums!Run, SumStep
<1>4. QED
  BY <1>2, <1>3

LEMMA SumLaw ==
    ASSUME NEW n \in Nat, NEW f, \A k \in 1..n : f[k] \in Nat
    PROVE  /\ SumTo(0, f) = 0
           /\ \A k \in 1..n : SumTo(k, f) = SumTo(k - 1, f) + f[k]
           /\ \A k \in 0..n : SumTo(k, f) \in Nat
<1>1. PICK s : Sums!Run(f, 0, n, s) /\ SumTo(n, f) = s[n]
  BY SumRun
<1>2. \A m \in 0..n : SumTo(m, f) = s[m]
  <2> SUFFICES ASSUME NEW m \in 0..n PROVE SumTo(m, f) = s[m]
    OBVIOUS
  <2>1. m \in Nat
    OBVIOUS
  <2>2. PICK t : Sums!Run(f, 0, m, t) /\ SumTo(m, f) = t[m]
    BY <2>1, SumRun
  <2>3. Sums!Run(f, 0, m, s)
    BY <1>1 DEF Sums!Run
  <2>4. \A k \in 0..m : t[k] = s[k]
    BY <2>1, <2>2, <2>3, Sums!LoopPrefix
  <2>5. QED
    BY <2>1, <2>2, <2>4
<1>3. s[0] = 0 /\ \A k \in 1..n : s[k] = s[k - 1] + f[k]
  BY <1>1 DEF Sums!Run, SumStep
<1>4. \A k \in 0..n : s[k] \in Nat
  <2> DEFINE G == {k \in 0..n : s[k] \in Nat}
  <2>1. 0 \in G /\ \A k \in 1..n : k - 1 \in G => k \in G
    BY <1>3
  <2> HIDE DEF G
  <2>2. \A k \in 0..n : k \in G
    BY <2>1, Sums!CountUp
  <2>3. QED
    BY <2>2 DEF G
<1>5. QED
  BY <1>2, <1>3, <1>4

\* The last value of a sum, and nothing of no values.
LEMMA SumLast ==
    ASSUME NEW n \in Nat \ {0}, NEW f, \A k \in 1..n : f[k] \in Nat
    PROVE  /\ SumTo(n, f) = SumTo(n - 1, f) + f[n]
           /\ SumTo(n, f) \in Nat /\ SumTo(n - 1, f) \in Nat
<1>1. n \in 1..n /\ n \in 0..n /\ n - 1 \in 0..n /\ n \in Nat
  OBVIOUS
<1>2. QED
  BY <1>1, SumLaw

LEMMA SumNone ==
    ASSUME NEW f
    PROVE  SumTo(0, f) = 0
<1>1. 0 \in Nat /\ \A k \in 1..0 : f[k] \in Nat
  OBVIOUS
<1>2. QED
  BY <1>1, SumLaw

\* A sum of sums.
LEMMA SumBoth ==
    ASSUME NEW n \in Nat, NEW f, NEW g, NEW h,
           \A k \in 1..n : f[k] \in Nat /\ g[k] \in Nat /\ h[k] = f[k] + g[k]
    PROVE  SumTo(n, h) = SumTo(n, f) + SumTo(n, g) /\ SumTo(n, h) \in Nat
<1> DEFINE G == {k \in 0..n : SumTo(k, h) = SumTo(k, f) + SumTo(k, g)}
<1>1. /\ SumTo(0, f) = 0
      /\ \A k \in 1..n : SumTo(k, f) = SumTo(k - 1, f) + f[k]
      /\ \A k \in 0..n : SumTo(k, f) \in Nat
  BY SumLaw
<1>2. /\ SumTo(0, g) = 0
      /\ \A k \in 1..n : SumTo(k, g) = SumTo(k - 1, g) + g[k]
      /\ \A k \in 0..n : SumTo(k, g) \in Nat
  BY SumLaw
<1>3. /\ SumTo(0, h) = 0
      /\ \A k \in 1..n : SumTo(k, h) = SumTo(k - 1, h) + h[k]
      /\ \A k \in 0..n : SumTo(k, h) \in Nat
  <2>1. \A k \in 1..n : h[k] \in Nat
    OBVIOUS
  <2>2. QED
    BY <2>1, SumLaw
<1>4. 0 \in G
  BY <1>1, <1>2, <1>3
<1>5. \A k \in 1..n : k - 1 \in G => k \in G
  <2> SUFFICES ASSUME NEW k \in 1..n, k - 1 \in G PROVE k \in G
    OBVIOUS
  <2>1. k \in 0..n /\ k - 1 \in 0..n /\ f[k] \in Nat /\ g[k] \in Nat /\ h[k] = f[k] + g[k]
    OBVIOUS
  <2>2. QED
    BY <2>1, <1>1, <1>2, <1>3
<1> HIDE DEF G
<1>6. \A k \in 0..n : k \in G
  BY <1>4, <1>5, Sums!CountUp
<1>7. n \in 0..n
  OBVIOUS
<1>8. QED
  BY <1>3, <1>6, <1>7 DEF G

\* Sums of equal values are equal, and of zeros zero.
LEMMA SumSame ==
    ASSUME NEW n \in Nat, NEW f, NEW g, \A k \in 1..n : f[k] \in Nat /\ g[k] = f[k]
    PROVE  SumTo(n, g) = SumTo(n, f)
<1> DEFINE G == {k \in 0..n : SumTo(k, g) = SumTo(k, f)}
<1>1. 0 \in G /\ \A k \in 1..n : k - 1 \in G => k \in G
  BY SumLaw
<1> HIDE DEF G
<1>2. \A k \in 0..n : k \in G
  BY <1>1, Sums!CountUp
<1>3. QED
  BY <1>2 DEF G

LEMMA SumZero ==
    ASSUME NEW n \in Nat, NEW f, \A k \in 1..n : f[k] = 0
    PROVE  SumTo(n, f) = 0
<1> DEFINE G == {k \in 0..n : SumTo(k, f) = 0}
<1>1. 0 \in G /\ \A k \in 1..n : k - 1 \in G => k \in G
  BY SumLaw
<1> HIDE DEF G
<1>2. \A k \in 0..n : k \in G
  BY <1>1, Sums!CountUp
<1>3. QED
  BY <1>2 DEF G

\* The sum of a single value.
LEMMA SumOne ==
    ASSUME NEW n \in Nat, NEW f, NEW o \in 1..n, f[o] \in Nat,
           \A k \in 1..n : k # o => f[k] = 0
    PROVE  SumTo(n, f) = f[o]
<1> DEFINE G == {k \in 0..n : SumTo(k, f) = IF k < o THEN 0 ELSE f[o]}
<1>1. \A k \in 1..n : f[k] \in Nat
  OBVIOUS
<1>2. 0 \in G /\ \A k \in 1..n : k - 1 \in G => k \in G
  BY <1>1, SumLaw
<1> HIDE DEF G
<1>3. \A k \in 0..n : k \in G
  BY <1>2, Sums!CountUp
<1>4. QED
  BY <1>3 DEF G

-----------------------------------------------------------------------------
(* Places told apart by the source.                                        *)

\* The least of three, and the greater of two.
LEMMA MinOfThree ==
    ASSUME NEW a \in Int, NEW b \in Int, NEW c \in Int
    PROVE  /\ Min({a, b, c}) \in {a, b, c}
           /\ Min({a, b, c}) <= a /\ Min({a, b, c}) <= b /\ Min({a, b, c}) <= c
<1>1. \E m \in {a, b, c} : \A k \in {a, b, c} : m <= k
  OBVIOUS
<1>2. QED
  BY <1>1 DEF Min

LEMMA MaxOfTwo ==
    ASSUME NEW a \in Int, NEW b \in Int
    PROVE  Max({a, b}) = IF a >= b THEN a ELSE b
<1>1. \E m \in {a, b} : \A k \in {a, b} : m >= k
  OBVIOUS
<1>2. Max({a, b}) \in {a, b} /\ \A k \in {a, b} : Max({a, b}) >= k
  BY <1>1 DEF Max
<1>3. QED
  BY <1>2

\* A function is around a line exactly when the nearest head above the line is its
\* head and the line is between its braces.
LEMMA NearestEncloses ==
    ASSUME NEW file, NEW line \in Nat, NEW name, file.length \in Nat, FunctionsApart(file)
    PROVE  (IsEnclosed(file, line) /\ NearestHead(file, line).name = name)
           <=> \E h \in file.heads : h.closed /\ Encloses(h, line) /\ h.name = name
<1> DEFINE above == HeadsAbove(file, line)
           near  == NearestHead(file, line)
<1>1. \A h \in above : /\ h \in file.heads /\ h.closed /\ h.at <= line
                       /\ h.at \in Nat /\ h.open \in Nat /\ h.close \in Nat
                       /\ h.at <= h.open /\ h.open <= h.close /\ h.close <= file.length
  BY DEF HeadsAbove, FunctionsApart
<1>2. ASSUME above # {}
      PROVE  near \in above /\ \A g \in above : g.at <= near.at
  <2> DEFINE S == {line - h.at : h \in above}
  <2>1. S \in SUBSET Nat /\ S # {}
    BY <1>1, <1>2
  <2>2. Min(S) \in S /\ \A k \in S : Min(S) <= k
    <3> HIDE DEF S
    <3>1. QED
      BY <2>1, MinIsLeast
  <2>3. PICK h \in above : Min(S) = line - h.at
    BY <2>2
  <2>4. \A g \in above : line - h.at <= line - g.at
    BY <2>2, <2>3
  <2>5. \A g \in above : g.at <= h.at
    <3>1. TAKE g \in above
    <3>2. line - h.at <= line - g.at /\ h.at \in Nat /\ g.at \in Nat
      BY <2>4, <1>1
    <3>3. QED
      BY <3>2
  <2>6. \E h1 \in above : \A g \in above : g.at <= h1.at
    BY <2>5
  <2>7. QED
    BY <2>6 DEF NearestHead
<1>3. ASSUME IsEnclosed(file, line), near.name = name
      PROVE  \E h \in file.heads : h.closed /\ Encloses(h, line) /\ h.name = name
  <2>1. near \in above /\ Encloses(near, line)
    BY <1>2, <1>3 DEF IsEnclosed
  <2>2. QED
    BY <2>1, <1>1, <1>3
<1>4. ASSUME NEW h \in file.heads, h.closed, Encloses(h, line), h.name = name
      PROVE  IsEnclosed(file, line) /\ near.name = name
  <2>1. h \in above /\ line <= file.length /\ line <= h.close
    BY <1>4 DEF HeadsAbove, Encloses, FunctionsApart
  <2>2. near \in above /\ h.at <= near.at
    BY <2>1, <1>2
  <2>3. near = h
    <3>1. SUFFICES ASSUME near # h PROVE FALSE
      OBVIOUS
    <3>2. near.close < h.at \/ h.close < near.at
      BY <3>1, <2>1, <2>2, <1>1 DEF FunctionsApart
    <3>3. QED
      BY <3>2, <2>1, <2>2, <1>1
  <2>4. QED
    BY <2>1, <2>3, <1>4 DEF IsEnclosed
<1>5. QED
  BY <1>3, <1>4

\* The last line in which the call of a row may end.
LEMMA StopIsBeforeNext ==
    ASSUME NEW rows, \A e \in rows : e.line \in Nat,
           NEW row \in rows, NEW file, file.length \in Nat
    PROVE  LET stop == StopAfter(rows, Place(row), file)
           IN  /\ stop \in Int
               /\ \A e \in rows : e.path = row.path /\ e.line > row.line => stop < e.line
               /\ \/ stop = file.length
                  \/ \E e \in rows : e.path = row.path /\ e.line > row.line /\ stop = e.line - 1
<1> DEFINE later == {e.line : e \in {f \in rows : f.path = row.path /\ f.line > row.line}}
           stop  == StopAfter(rows, Place(row), file)
<1>1. stop = IF later = {} THEN file.length ELSE Min(later) - 1
  BY DEF StopAfter, Place
<1>2. later \in SUBSET Nat
  OBVIOUS
<1>3. CASE later = {}
  BY <1>1, <1>3
<1>4. CASE later # {}
  <2>1. Min(later) \in later /\ \A k \in later : Min(later) <= k
    <3> HIDE DEF later
    <3>1. QED
      BY <1>2, <1>4, MinIsLeast
  <2>2. PICK e \in rows : e.path = row.path /\ e.line > row.line /\ Min(later) = e.line
    BY <2>1
  <2>3. stop = e.line - 1 /\ \A f \in rows : f.path = row.path /\ f.line > row.line => e.line <= f.line
    BY <1>1, <1>4, <2>1, <2>2
  <2>4. QED
    BY <2>2, <2>3
<1>5. QED
  BY <1>3, <1>4

\* The last line of the window of a row.
WindowEnd(rows, row, file) ==
    Min({row.line + SpanOfCall - 1, StopAfter(rows, Place(row), file), file.length})

\* There is a call with the text in the window of a row; there is one at the row.
InWindow(rows, row, file, text) ==
    /\ row.line <= file.length
    /\ \E c \in file.calls : /\ c.text = text /\ c.first >= row.line
                             /\ c.last <= Max({WindowEnd(rows, row, file), row.line})

AtRow(row, file, text) == \E c \in file.calls : c.at = row.line /\ c.text = text

\* The window of a row finds the call that is at the row and no other.
LEMMA WindowFindsItsCall ==
    ASSUME NEW rows, \A e \in rows : e.line \in Nat,
           NEW row \in rows, NEW file, file.length \in Nat, NEW text, Shows(rows, text),
           CallsFit(file), CallsHaveRows(rows, row.path, file)
    PROVE  InWindow(rows, row, file, text) <=> AtRow(row, file, text)
<1> DEFINE stop == StopAfter(rows, Place(row), file)
           last == WindowEnd(rows, row, file)
<1>1. /\ stop \in Int
      /\ \A e \in rows : e.path = row.path /\ e.line > row.line => stop < e.line
      /\ \/ stop = file.length
         \/ \E e \in rows : e.path = row.path /\ e.line > row.line /\ stop = e.line - 1
  BY StopIsBeforeNext
<1>2. /\ last \in Int /\ last \in {row.line + SpanOfCall - 1, stop, file.length}
      /\ last <= row.line + SpanOfCall - 1 /\ last <= stop /\ last <= file.length
  <2> DEFINE far == row.line + SpanOfCall - 1
             end == file.length
  <2>1. far \in Int /\ stop \in Int /\ end \in Int
    BY <1>1 DEF SpanOfCall
  <2>2. last = Min({far, stop, end})
    BY DEF WindowEnd
  <2> HIDE DEF far, stop, end, last
  <2> DEFINE least == Min({far, stop, end})
  <2>3. least \in {far, stop, end} /\ least <= far /\ least <= stop /\ least <= end
    BY <2>1, MinOfThree
  <2> HIDE DEF least
  <2>4. last = least
    BY <2>2 DEF least
  <2>5. QED
    BY <2>1, <2>3, <2>4 DEF far, end
<1>3. Max({last, row.line}) = IF last >= row.line THEN last ELSE row.line
  BY <1>2, MaxOfTwo
<1> HIDE DEF stop, last
<1>4. \A c \in file.calls :
          /\ c.at \in Nat /\ c.first \in Nat /\ c.last \in Nat
          /\ c.at <= c.first /\ c.first <= c.last /\ c.last <= file.length
          /\ c.last < c.at + 5
  BY DEF CallsFit, SpanOfCall
<1>5. ASSUME NEW c \in file.calls, c.text = text, c.first >= row.line,
             c.last <= Max({last, row.line})
      PROVE  c.at = row.line
  <2>1. c.first <= row.line + 4
    BY <1>2, <1>3, <1>4, <1>5 DEF SpanOfCall
  <2>2. /\ c.first \in row.line..(row.line + SpanOfCall - 1)
              => \E f \in rows : f.path = row.path /\ f.line = c.at
        /\ c.at < row.line => c.last < row.line
    BY <1>5 DEF CallsHaveRows
  <2>3. c.first \in row.line..(row.line + SpanOfCall - 1)
    BY <2>1, <1>4, <1>5 DEF SpanOfCall
  <2>4. PICK f \in rows : f.path = row.path /\ f.line = c.at
    BY <2>2, <2>3
  <2>5. ~(c.at < row.line)
    BY <2>2, <1>4, <1>5
  <2>6. ~(c.at > row.line)
    BY <2>4, <1>1, <1>2, <1>3, <1>4, <1>5
  <2>7. QED
    BY <2>5, <2>6, <1>4
<1>6. ASSUME NEW c \in file.calls, c.at = row.line, c.text = text
      PROVE  row.line <= file.length /\ c.first >= row.line /\ c.last <= Max({last, row.line})
  <2>1. \A e \in rows : e.path = row.path /\ e.line > row.line => c.last < e.line
    BY <1>6 DEF CallsHaveRows
  <2>2. c.last <= stop
    BY <2>1, <1>1, <1>4
  <2>3. c.last <= row.line + SpanOfCall - 1
    BY <1>4, <1>6 DEF SpanOfCall
  <2>4. c.last <= last
    BY <1>2, <1>4, <2>2, <2>3
  <2>5. QED
    BY <1>2, <1>3, <1>4, <1>6, <2>4
<1>7. QED
  BY <1>5, <1>6 DEF last, InWindow, AtRow

\* What is read from a line as it is shown is in its message.
LEMMA ValuesAreShown ==
    ASSUME NEW line, NEW format, NEW value \in Values(line, format)
    PROVE  value \in ToSet(Extracted[<<line.msg, format>>])
BY DEF Values, ToSet

\* A candidate matches a value exactly when its code writes it.
LEMMA MatchesIsWritten ==
    ASSUME NEW m, LaidOut(m), NEW key \in Keys,
           NEW rows, rows = {e \in ToSet(LoadIndex(m)) : e.key = key}, NEW row \in rows,
           NEW line, line.msg \in Messages,
           NEW g \in rows, NEW value \in Values(line, g.format)
    PROVE  CandidateMatches(m, rows, Place(row), value) <=> WrittenAt(m, Place(row), value)
<1> DEFINE file == m.source[row.path]
           text == value.text
<1>1. Place(row)[1] = row.path /\ Place(row)[2] = row.line
  BY DEF Place
<1>2. \A e \in rows : e.line \in Nat
  BY DEF LaidOut
<1>3. CASE row.path \notin DOMAIN m.source
  BY <1>1, <1>3 DEF CandidateMatches, WrittenAt
<1>4. CASE row.path \in DOMAIN m.source
  <2>1. /\ file.length \in Nat /\ FunctionsApart(file) /\ CallsFit(file)
        /\ CallsHaveRows(rows, row.path, file)
    BY <1>4 DEF LaidOut
  <2>2. CandidateMatches(m, rows, Place(row), value) <=>
            /\ row.line <= file.length
            /\ \/ value.kind = "call" /\ InWindow(rows, row, file, text)
               \/ /\ value.kind = "name"
                  /\ IsEnclosed(file, row.line) /\ NearestHead(file, row.line).name = text
    BY <1>1, <1>4 DEF CandidateMatches, WindowEnd, InWindow
  <2>3. WrittenAt(m, Place(row), value) <=>
            \/ value.kind = "call" /\ AtRow(row, file, text)
            \/ /\ value.kind = "name"
               /\ \E h \in file.heads : h.closed /\ Encloses(h, row.line) /\ h.name = text
    BY <1>1, <1>4 DEF WrittenAt, AtRow
  <2>4. Shows(rows, text)
    BY ValuesAreShown DEF Shows
  <2>5. InWindow(rows, row, file, text) <=> AtRow(row, file, text)
    <3> HIDE DEF file, text
    <3>1. QED
      BY <1>2, <2>1, <2>4, WindowFindsItsCall
  <2>6. (IsEnclosed(file, row.line) /\ NearestHead(file, row.line).name = text)
        <=> \E h \in file.heads : h.closed /\ Encloses(h, row.line) /\ h.name = text
    <3> HIDE DEF file, text
    <3>1. row.line \in Nat /\ file.length \in Nat /\ FunctionsApart(file)
      BY <1>2, <2>1
    <3>2. QED
      BY <3>1, NearestEncloses
  <2>7. IsEnclosed(file, row.line) => row.line <= file.length
    BY DEF IsEnclosed
  <2>8. InWindow(rows, row, file, text) => row.line <= file.length
    BY DEF InWindow
  <2> HIDE DEF file, text
  <2>9. QED
    BY <2>2, <2>3, <2>5, <2>6, <2>7, <2>8
<1>5. QED
  BY <1>3, <1>4

\* What narrow makes of the rows of a key.
LEMMA NarrowFindsWritten ==
    ASSUME NEW m, LaidOut(m), NEW key \in Keys, NEW line, line.msg \in Messages,
           NEW rows, rows = {e \in ToSet(LoadIndex(m)) : e.key = key},
           Narrow(m, line, rows) # {}
    PROVE  Narrow(m, line, rows) =
               {Place(e) : e \in {f \in rows :
                   \E g \in rows : \E v \in Values(line, g.format) :
                       WrittenAt(m, Place(f), v)}}
<1> DEFINE values == {v \in UNION {Values(line, e.format) : e \in rows} :
                         v.kind \in {"call", "name"}}
<1>1. Narrow(m, line, rows) = {p \in {Place(e) : e \in rows} :
                                 \E v \in values : CandidateMatches(m, rows, p, v)}
  BY DEF Narrow
<1>2. \A f \in rows : (\E v \in values : CandidateMatches(m, rows, Place(f), v))
                       <=> \E g \in rows : \E v \in Values(line, g.format) :
                               WrittenAt(m, Place(f), v)
  <2> SUFFICES ASSUME NEW f \in rows
               PROVE  (\E v \in values : CandidateMatches(m, rows, Place(f), v))
                      <=> \E g \in rows : \E v \in Values(line, g.format) :
                              WrittenAt(m, Place(f), v)
    OBVIOUS
  <2>1. \A g \in rows : \A v \in Values(line, g.format) :
            CandidateMatches(m, rows, Place(f), v) <=> WrittenAt(m, Place(f), v)
    BY MatchesIsWritten
  <2>2. \A v : WrittenAt(m, Place(f), v) => v.kind \in {"call", "name"}
    BY DEF WrittenAt
  <2>3. ASSUME NEW v \in values, CandidateMatches(m, rows, Place(f), v)
        PROVE  \E g \in rows : \E w \in Values(line, g.format) :
                   WrittenAt(m, Place(f), w)
    <3>1. PICK g \in rows : v \in Values(line, g.format)
      OBVIOUS
    <3>2. QED
      BY <2>1, <2>3, <3>1
  <2>4. ASSUME NEW g \in rows, NEW v \in Values(line, g.format),
               WrittenAt(m, Place(f), v)
        PROVE  \E w \in values : CandidateMatches(m, rows, Place(f), w)
    <3>1. v \in values
      BY <2>2, <2>4
    <3>2. QED
      BY <2>1, <2>4, <3>1
  <2>5. QED
    BY <2>3, <2>4
<1> DEFINE written == {f \in rows : \E g \in rows : \E v \in Values(line, g.format) :
                           WrittenAt(m, Place(f), v)}
<1> HIDE DEF values
<1>3. \A p : p \in Narrow(m, line, rows) <=> \E f \in written : p = Place(f)
  BY <1>1, <1>2
<1> HIDE DEF written
<1>4. Narrow(m, line, rows) = {Place(e) : e \in written}
  BY <1>3
<1>5. QED
  BY <1>4 DEF written

\* The places of a line are those whose code writes what the line shows, if they were
\* told apart.
LEMMA ResolveIsTrue ==
    ASSUME NEW m, LaidOut(m), NEW line, Resolve(m, LoadIndex(m), line).narrowed
    PROVE  LET r    == Resolve(m, LoadIndex(m), line)
               key  == BestKey(LoadIndex(m), r.msg)
               rows == {e \in ToSet(LoadIndex(m)) : e.key = key}
           IN  r.places = {Place(e) : e \in {f \in rows :
                   \E g \in rows : \E v \in Values(r, g.format) :
                       WrittenAt(m, Place(f), v)}}
<1> DEFINE index == LoadIndex(m)
           msg   == line.msg
           r     == Resolve(m, index, line)
           key   == BestKey(index, msg)
           rows  == {e \in ToSet(index) : e.key = key}
           all   == {Place(e) : e \in rows}
           got   == IF Cardinality(all) > 1 THEN Narrow(m, line, rows) ELSE {}
<1>1. PICK i \in DOMAIN index : msg \in FoundIn[index[i].key]
  BY DEF Resolve
<1>2. msg \in Messages
  <2>1. index[i].key \in Keys
    BY DEF LaidOut, ToSet
  <2>2. QED
    BY <1>1, <2>1, TriageMaterialAssumption
<1>3. r.msg = msg /\ r.count = line.count /\ r.narrowed = (got # {}) /\ r.places = IF got = {} THEN all ELSE got
  BY <1>1 DEF Resolve
<1>4. got # {}
  BY <1>3
<1>5. got = Narrow(m, line, rows) /\ rows # {}
  <2>1. got = Narrow(m, line, rows) /\ Narrow(m, line, rows) \subseteq all
    BY <1>4 DEF Narrow
  <2>2. QED
    BY <2>1, <1>4
<1>6. key \in Keys
  BY <1>5 DEF LaidOut
<1> HIDE DEF got, key, r, index
<1>7. Narrow(m, line, rows) =
          {Place(e) : e \in {f \in rows :
              \E g \in rows : \E v \in Values(line, g.format) :
                  WrittenAt(m, Place(f), v)}}
  BY <1>2, <1>4, <1>5, <1>6, NarrowFindsWritten DEF index
<1>8. r.places = Narrow(m, line, rows)
  BY <1>3, <1>4, <1>5
<1>9. \A format : Values(r, format) = Values(line, format)
  BY <1>3 DEF Values
<1>10. r.places = {Place(e) : e \in {f \in rows :
           \E g \in rows : \E v \in Values(r, g.format) : WrittenAt(m, Place(f), v)}}
  BY <1>7, <1>8, <1>9
<1>11. QED
  BY <1>3, <1>10 DEF index, key, r

\* A place told apart by the source writes what the line shows, and no such place is
\* lost, if the material is laid out as narrow counts on (disambiguate.py, narrow).
THEOREM NarrowedAlwaysTrue == Spec => []NarrowedIsTrue
<1>1. IInv => NarrowedIsTrue
  <2> SUFFICES ASSUME IInv, NEW i \in Experts, Prepared(i), LaidOut(Material(i)),
                      NEW r \in ToSet(context[i].lines), r.narrowed
               PROVE  LET m    == Material(i)
                          key  == BestKey(LoadIndex(m), r.msg)
                          rows == {e \in ToSet(LoadIndex(m)) : e.key = key}
                      IN  r.places = {Place(e) : e \in {f \in rows :
                              \E g \in rows : \E v \in Values(r, g.format) :
                                  WrittenAt(m, Place(f), v)}}
    BY DEF NarrowedIsTrue
  <2> DEFINE m == Material(i)
  <2>1. Ready(i) /\ LaidOut(m)
    BY DEF IInv, PromptInv, Prepared
  <2>2. PICK config : context[i] = Prepare(m, case.logs, config)
    BY <2>1 DEF IInv, ContextInv, ContextOf, Ready, Material
  <2>3. PICK lines : context[i].lines = ResolveObservations(m, lines)
    BY <2>2 DEF Prepare
  <2>4. PICK k \in DOMAIN lines : r = Resolve(m, LoadIndex(m), lines[k])
    BY <2>3 DEF ResolveObservations, ToSet
  <2> HIDE DEF m
  <2>5. QED
    BY <2>1, <2>4, ResolveIsTrue DEF m
<1>2. QED
  BY <1>1, InvariantHolds, PTL

-----------------------------------------------------------------------------
(* Lines and the events they stand for.                                    *)

Line == [msg : Messages, time : Nat \union {NoTime}, count : Nat]

\* The events of the messages K that each line stands for, and all the lines.
Part(ls, K)    == [k \in 1..Len(ls) |-> IF ls[k].msg \in K THEN ls[k].count ELSE 0]
TotalIn(ls, K) == SumTo(Len(ls), Part(ls, K))

LEMMA LineTyped ==
    ASSUME NEW ls \in Seq(Line)
    PROVE  /\ Len(ls) \in Nat /\ DOMAIN ls = 1..Len(ls)
           /\ \A k \in 1..Len(ls) : ls[k] \in Line /\ ls[k].msg \in Messages
<1>1. Len(ls) \in Nat /\ DOMAIN ls = 1..Len(ls) /\ \A k \in 1..Len(ls) : ls[k] \in Line
  BY LenProperties, ElementOfSeq
<1>2. QED
  BY <1>1 DEF Line

LEMMA LineFacts ==
    ASSUME NEW ls \in Seq(Line), NEW K
    PROVE  /\ Len(ls) \in Nat /\ DOMAIN ls = 1..Len(ls)
           /\ \A k \in 1..Len(ls) :
                 /\ ls[k] \in Line /\ ls[k].msg \in Messages /\ ls[k].count \in Nat
                 /\ ls[k].time \in Nat \union {NoTime}
                 /\ Part(ls, K)[k] = IF ls[k].msg \in K THEN ls[k].count ELSE 0
                 /\ Part(ls, K)[k] \in Nat
<1>1. Len(ls) \in Nat /\ DOMAIN ls = 1..Len(ls) /\ \A k \in 1..Len(ls) : ls[k] \in Line
  BY LenProperties, ElementOfSeq
<1>2. QED
  BY <1>1 DEF Line, Part

LEMMA NoLines ==
    ASSUME NEW K
    PROVE  << >> \in Seq(Line) /\ TotalIn(<< >>, K) = 0
<1>1. << >> \in Seq(Line) /\ Len(<< >>) = 0
  OBVIOUS
<1>2. QED
  BY <1>1, SumNone DEF TotalIn

LEMMA AppendTotal ==
    ASSUME NEW ls \in Seq(Line), NEW l \in Line, NEW K
    PROVE  /\ Append(ls, l) \in Seq(Line) /\ Append(ls, l) # << >>
           /\ Append(ls, l)[Len(Append(ls, l))] = l
           /\ TotalIn(Append(ls, l), K) = TotalIn(ls, K) + IF l.msg \in K THEN l.count ELSE 0
<1> DEFINE q == Append(ls, l)
<1>1. /\ q \in Seq(Line) /\ Len(q) = Len(ls) + 1 /\ Len(ls) \in Nat
      /\ \A k \in 1..Len(ls) : q[k] = ls[k]
      /\ q[Len(ls) + 1] = l
  BY AppendProperties, LineFacts
<1> HIDE DEF q
<1>2. \A k \in 1..Len(q) : Part(q, K)[k] \in Nat
  BY <1>1, LineFacts
<1>3. SumTo(Len(q), Part(q, K)) = SumTo(Len(ls), Part(q, K)) + Part(q, K)[Len(q)]
  <2>1. Len(q) \in Nat \ {0} /\ Len(q) - 1 = Len(ls)
    BY <1>1
  <2>2. QED
    BY <1>2, <2>1, SumLast
<1>4. SumTo(Len(ls), Part(q, K)) = SumTo(Len(ls), Part(ls, K))
  <2>1. \A k \in 1..Len(ls) : Part(ls, K)[k] \in Nat /\ Part(q, K)[k] = Part(ls, K)[k]
    <3> SUFFICES ASSUME NEW k \in 1..Len(ls)
                 PROVE  Part(ls, K)[k] \in Nat /\ Part(q, K)[k] = Part(ls, K)[k]
      OBVIOUS
    <3>1. k \in 1..Len(q) /\ q[k] = ls[k]
      BY <1>1
    <3>2. QED
      BY <1>1, <3>1, LineFacts
  <2>2. QED
    BY <1>1, <2>1, SumSame
<1>5. Part(q, K)[Len(q)] = IF l.msg \in K THEN l.count ELSE 0
  <2>1. Len(q) \in 1..Len(q) /\ q[Len(q)] = l
    BY <1>1
  <2>2. QED
    BY <1>1, <2>1, LineFacts
<1>6. q # << >> /\ q[Len(q)] = l
  BY <1>1
<1>7. QED
  BY <1>1, <1>3, <1>4, <1>5, <1>6 DEF q, TotalIn

LEMMA AddTotal ==
    ASSUME NEW ls \in Seq(Line), ls # << >>, NEW n \in Nat, NEW K
    PROVE  /\ AddTo(ls, n) \in Seq(Line) /\ AddTo(ls, n) # << >>
           /\ AddTo(ls, n)[Len(AddTo(ls, n))].msg = ls[Len(ls)].msg
           /\ TotalIn(AddTo(ls, n), K)
              = TotalIn(ls, K) + IF ls[Len(ls)].msg \in K THEN n ELSE 0
<1> DEFINE q == AddTo(ls, n)
           N == Len(ls)
           more == [ls[N] EXCEPT !.count = @ + n]
<1>1. N \in Nat \ {0} /\ N \in 1..N
  BY EmptySeq, LineFacts
<1>2. ls[N] \in Line
  BY <1>1, LineFacts
<1>3. /\ ls[N].msg \in Messages /\ ls[N].time \in Nat \union {NoTime} /\ ls[N].count \in Nat
      /\ ls[N] = [msg |-> ls[N].msg, time |-> ls[N].time, count |-> ls[N].count]
  BY <1>2 DEF Line
<1>4. more \in Line /\ more.msg = ls[N].msg /\ more.count = ls[N].count + n
  <2>1. more = [msg |-> ls[N].msg, time |-> ls[N].time, count |-> ls[N].count + n]
    BY <1>3
  <2> HIDE DEF more
  <2>2. QED
    BY <1>3, <2>1 DEF Line
<1>5. q = [k \in 1..N |-> IF k = N THEN more ELSE ls[k]]
  BY <1>1, LineFacts DEF AddTo
<1> HIDE DEF q, more
<1>6. q \in Seq(Line) /\ Len(q) = N /\ q[N] = more /\ \A k \in 1..N : k # N => q[k] = ls[k]
  <2>1. \A k \in 1..N : ls[k] \in Line
    BY LineFacts
  <2>2. q \in [1..N -> Line]
    BY <1>4, <1>5, <2>1
  <2>3. q \in Seq(Line) /\ Len(q) = N
    BY <1>1, <2>2
  <2>4. QED
    BY <1>1, <1>5, <2>3
<1>7. \A k \in 1..N : /\ Part(q, K)[k] \in Nat /\ Part(ls, K)[k] \in Nat
                      /\ k # N => Part(q, K)[k] = Part(ls, K)[k]
  BY <1>6, LineFacts
<1>8. Part(q, K)[N] = Part(ls, K)[N] + IF ls[N].msg \in K THEN n ELSE 0
  BY <1>1, <1>3, <1>4, <1>6, LineFacts
<1>9. /\ SumTo(N, Part(q, K)) = SumTo(N - 1, Part(q, K)) + Part(q, K)[N]
      /\ SumTo(N, Part(ls, K)) = SumTo(N - 1, Part(ls, K)) + Part(ls, K)[N]
      /\ SumTo(N - 1, Part(ls, K)) \in Nat
  BY <1>1, <1>7, SumLast
<1>10. SumTo(N - 1, Part(q, K)) = SumTo(N - 1, Part(ls, K))
  <2>1. N - 1 \in Nat
        /\ \A k \in 1..(N - 1) : Part(ls, K)[k] \in Nat /\ Part(q, K)[k] = Part(ls, K)[k]
    BY <1>1, <1>7
  <2>2. QED
    BY <2>1, SumSame
<1>11. TotalIn(q, K) = TotalIn(ls, K) + IF ls[N].msg \in K THEN n ELSE 0
  <2>1. Part(ls, K)[N] \in Nat
    BY <1>1, <1>7
  <2>2. QED
    BY <1>6, <1>8, <1>9, <1>10, <2>1 DEF TotalIn
<1>12. q # << >>
  BY <1>1, <1>6
<1>13. QED
  BY <1>4, <1>6, <1>11, <1>12 DEF q

-----------------------------------------------------------------------------
(* The passes over the lines.                                              *)

LEMMA PartLaw ==
    ASSUME NEW ls \in Seq(Line), NEW K, NEW n \in 1..Len(ls)
    PROVE  /\ SumTo(n, Part(ls, K)) = SumTo(n - 1, Part(ls, K)) + Part(ls, K)[n]
           /\ SumTo(n - 1, Part(ls, K)) \in Nat
<1>1. n \in Nat \ {0} /\ \A k \in 1..n : Part(ls, K)[k] \in Nat
  BY LineFacts
<1>2. QED
  BY <1>1, SumLast

RawStep(logs, v, n) == v \o logs[n]
RawGood(logs, v, n) == v \in Seq(RawLine)
Raws == INSTANCE Loops WITH Step <- RawStep, Good <- RawGood

\* The files one after the other are lines.
LEMMA RawGives ==
    ASSUME NEW logs \in Seq(Seq(RawLine))
    PROVE  Raw(logs) \in Seq(RawLine)
<1>1. Len(logs) \in Nat /\ \A n \in 1..Len(logs) : logs[n] \in Seq(RawLine)
  BY LenProperties, ElementOfSeq
<1>2. Raws!Defined(logs, << >>, Len(logs))
  BY <1>1, Raws!LoopDefined
<1>3. PICK f : /\ f = [n \in 0..Len(logs) |-> IF n = 0 THEN << >> ELSE RawStep(logs, f[n - 1], n)]
               /\ Raw(logs) = f[Len(logs)]
  BY <1>2 DEF Raws!Defined, Raw, RawStep
<1>4. Raws!Run(logs, << >>, Len(logs), f)
  <2> DEFINE N == Len(logs)
  <2>1. N \in Nat /\ f = [n \in 0..N |-> IF n = 0 THEN << >> ELSE RawStep(logs, f[n - 1], n)]
    BY <1>1, <1>3
  <2> HIDE DEF N
  <2>2. f[0] = << >> /\ \A n \in 1..N : f[n] = RawStep(logs, f[n - 1], n)
    BY ONLY <2>1
  <2>3. QED
    BY <2>2 DEF Raws!Run, N
<1>5. RawGood(logs, << >>, 0)
  BY DEF RawGood
<1>6. Raws!Kept(logs, Len(logs))
  BY <1>1, ConcatProperties DEF Raws!Kept, RawStep, RawGood
<1>7. Len(logs) \in 0..Len(logs) /\ \A n \in 0..Len(logs) : RawGood(logs, f[n], n)
  BY <1>1, <1>4, <1>5, <1>6, Raws!LoopInvariant
<1>8. QED
  BY <1>3, <1>7 DEF RawGood

LEMMA ParseGives ==
    ASSUME NEW logs \in Seq(Seq(RawLine))
    PROVE  LET raw == Raw(logs)
               ls  == ParseLines(logs)
           IN  /\ ls \in Seq(Line) /\ Len(ls) = Len(raw) /\ DOMAIN raw = 1..Len(ls)
               /\ \A k \in 1..Len(ls) : ls[k].msg = raw[k].msg /\ ls[k].count = 1
<1> DEFINE raw == Raw(logs)
           ls  == ParseLines(logs)
<1>1. raw \in Seq(RawLine)
  BY RawGives
<1>2. ls = [k \in DOMAIN raw |-> [msg |-> raw[k].msg, time |-> raw[k].time, count |-> 1]]
  BY DEF ParseLines
<1> HIDE DEF raw, ls
<1>3. Len(raw) \in Nat /\ DOMAIN raw = 1..Len(raw) /\ \A k \in 1..Len(raw) : raw[k] \in RawLine
  BY <1>1, LenProperties, ElementOfSeq
<1>4. \A k \in 1..Len(raw) : ls[k] \in Line /\ ls[k].msg = raw[k].msg /\ ls[k].count = 1
  BY <1>2, <1>3 DEF RawLine, Line
<1>5. ls \in [1..Len(raw) -> Line]
  BY <1>2, <1>3, <1>4
<1>6. ls \in Seq(Line) /\ Len(ls) = Len(raw)
  BY <1>3, <1>5
<1>7. QED
  BY <1>3, <1>4, <1>6 DEF raw, ls

\* A marker speaks of the message that the line before it speaks of.
LEMMA MessageIs ==
    ASSUME NEW ls, NEW n \in Nat \ {0}
    PROVE  MessageOf(ls, n) = IF IsMarker(ls, n) THEN MessageOf(ls, n - 1) ELSE ls[n].msg
<1> DEFINE S(k) == {j \in 1..k : ~IsMarker(ls, j)}
<1>1. MessageOf(ls, n) = ls[Max(S(n))].msg /\ MessageOf(ls, n - 1) = ls[Max(S(n - 1))].msg
  BY DEF MessageOf
<1>2. CASE IsMarker(ls, n)
  <2>1. S(n) = S(n - 1)
    BY <1>2
  <2>2. QED
    BY <1>1, <1>2, <2>1
<1>3. CASE ~IsMarker(ls, n)
  <2> DEFINE T == S(n)
  <2>1. n \in T /\ T \in SUBSET (0..n) /\ n \in Nat
    BY <1>3
  <2>2. Max(T) = n
    <3> HIDE DEF T
    <3>1. Max(T) \in T /\ \A k \in T : Max(T) >= k
      BY <2>1, MaxIsGreatest
    <3>2. Max(T) \in 0..n /\ Max(T) >= n
      BY <2>1, <3>1
    <3> HIDE DEF S
    <3>3. QED
      BY <2>1, <3>2
  <2>3. QED
    BY <1>1, <1>3, <2>2
<1>4. QED
  BY <1>2, <1>3

\* The events of the messages K that each line of a log tells of.
Told(ls, K) ==
    [k \in 1..Len(ls) |-> IF MessageOf(ls, k) \notin K THEN 0
                          ELSE IF IsMarker(ls, k) THEN Repeats[ls[k].msg] ELSE 1]

LEMMA ToldNat ==
    ASSUME NEW ls \in Seq(Line), NEW K
    PROVE  \A k \in 1..Len(ls) : Told(ls, K)[k] \in Nat
BY LineFacts, TriageRefineAssumption DEF Told

AbsorbStep(g, v, n) == Absorb(v, g.lines[n])
AbsorbGood(g, v, n) ==
    /\ v \in Seq(Line) /\ (v = << >> <=> n = 0)
    /\ n > 0 => v[Len(v)].msg = MessageOf(g.lines, n)
    /\ TotalIn(v, g.K) = SumTo(n, Told(g.lines, g.K))
Absorbs == INSTANCE Loops WITH Step <- AbsorbStep, Good <- AbsorbGood

\* Markers go, and the events they stand for are with the lines before them.
LEMMA AbsorbKeeps ==
    ASSUME NEW ls \in Seq(Line), \A k \in 1..Len(ls) : ls[k].count = 1, NEW K
    PROVE  /\ AbsorbRepeatMarkers(ls) \in Seq(Line)
           /\ TotalIn(AbsorbRepeatMarkers(ls), K) = SumTo(Len(ls), Told(ls, K))
<1> DEFINE g == [lines |-> ls, K |-> K]
<1>1. Len(ls) \in Nat /\ g.lines = ls /\ g.K = K
  BY LineFacts
<1> HIDE DEF g
<1>2. Absorbs!Defined(g, << >>, Len(ls))
  BY <1>1, Absorbs!LoopDefined
<1>3. PICK f : /\ f = [n \in 0..Len(ls) |-> IF n = 0 THEN << >> ELSE Absorb(f[n - 1], ls[n])]
               /\ AbsorbRepeatMarkers(ls) = f[Len(ls)]
  BY <1>1, <1>2 DEF Absorbs!Defined, AbsorbRepeatMarkers, AbsorbStep
<1>4. Absorbs!Run(g, << >>, Len(ls), f)
  BY <1>1, <1>3 DEF Absorbs!Run, AbsorbStep
<1>5. AbsorbGood(g, << >>, 0)
  BY NoLines, SumNone DEF AbsorbGood
<1>6. Absorbs!Kept(g, Len(ls))
  <2> SUFFICES ASSUME NEW n \in 1..Len(ls), NEW v, AbsorbGood(g, v, n - 1)
               PROVE  AbsorbGood(g, Absorb(v, ls[n]), n)
    BY <1>1 DEF Absorbs!Kept, AbsorbStep
  <2> DEFINE l == ls[n]
             m == MessageOf(ls, n)
  <2>1. l \in Line /\ l.count = 1 /\ Repeats[l.msg] \in Nat
    BY LineFacts, TriageRefineAssumption
  <2>2. SumTo(n, Told(ls, K)) = SumTo(n - 1, Told(ls, K)) + Told(ls, K)[n]
    BY <1>1, ToldNat, SumLaw
  <2>3. Told(ls, K)[n] = IF m \notin K THEN 0
                         ELSE IF IsMarker(ls, n) THEN Repeats[l.msg] ELSE 1
    BY DEF Told
  <2>4. m = IF IsMarker(ls, n) THEN MessageOf(ls, n - 1) ELSE l.msg
    BY <1>1, MessageIs
  <2>5. /\ v \in Seq(Line) /\ (v = << >> <=> n = 1)
        /\ n > 1 => v[Len(v)].msg = MessageOf(ls, n - 1)
        /\ TotalIn(v, K) = SumTo(n - 1, Told(ls, K))
    BY <1>1 DEF AbsorbGood
  <2>6. IsMarker(ls, n) <=> Repeats[l.msg] > 0 /\ v # << >>
    BY <1>1, <2>5 DEF IsMarker
  <2>7. CASE IsMarker(ls, n)
    <3>1. Absorb(v, l) = AddTo(v, Repeats[l.msg])
      BY <2>6, <2>7 DEF Absorb
    <3>2. n > 1 /\ v # << >>
      BY <2>6, <2>7 DEF IsMarker
    <3>3. /\ AddTo(v, Repeats[l.msg]) \in Seq(Line) /\ AddTo(v, Repeats[l.msg]) # << >>
          /\ AddTo(v, Repeats[l.msg])[Len(AddTo(v, Repeats[l.msg]))].msg = v[Len(v)].msg
          /\ TotalIn(AddTo(v, Repeats[l.msg]), K)
             = TotalIn(v, K) + IF v[Len(v)].msg \in K THEN Repeats[l.msg] ELSE 0
      BY <2>1, <2>5, <3>2, AddTotal
    <3> HIDE DEF l, m
    <3>4. QED
      BY <1>1, <2>2, <2>3, <2>4, <2>5, <2>7, <3>1, <3>2, <3>3 DEF AbsorbGood, l, m
  <2>8. CASE ~IsMarker(ls, n)
    <3>1. Absorb(v, l) = Append(v, l)
      BY <2>6, <2>8 DEF Absorb
    <3>2. /\ Append(v, l) \in Seq(Line) /\ Append(v, l) # << >>
          /\ Append(v, l)[Len(Append(v, l))] = l
          /\ TotalIn(Append(v, l), K) = TotalIn(v, K) + IF l.msg \in K THEN l.count ELSE 0
      BY <2>1, <2>5, AppendTotal
    <3> HIDE DEF l, m
    <3>3. QED
      BY <1>1, <2>1, <2>2, <2>3, <2>4, <2>5, <2>8, <3>1, <3>2 DEF AbsorbGood, l, m
  <2>9. QED
    BY <2>7, <2>8
<1>7. Len(ls) \in 0..Len(ls) /\ \A n \in 0..Len(ls) : AbsorbGood(g, f[n], n)
  BY <1>1, <1>4, <1>5, <1>6, Absorbs!LoopInvariant
<1>8. AbsorbGood(g, f[Len(ls)], Len(ls))
  BY <1>7
<1>9. QED
  BY <1>1, <1>3, <1>8 DEF AbsorbGood

CombineStep(g, v, n) == Combine(v, g.lines[n])
CombineGood(g, v, n) ==
    v \in Seq(Line) /\ TotalIn(v, g.K) = SumTo(n, Part(g.lines, g.K))
Combines == INSTANCE Loops WITH Step <- CombineStep, Good <- CombineGood

\* Equal messages in a row become one that stands for all of them.
LEMMA CombineKeeps ==
    ASSUME NEW ls \in Seq(Line), NEW K
    PROVE  /\ CollapseConsecutive(ls) \in Seq(Line)
           /\ TotalIn(CollapseConsecutive(ls), K) = TotalIn(ls, K)
<1> DEFINE g == [lines |-> ls, K |-> K]
<1>1. Len(ls) \in Nat /\ g.lines = ls /\ g.K = K
  BY LineFacts
<1> HIDE DEF g
<1>2. Combines!Defined(g, << >>, Len(ls))
  BY <1>1, Combines!LoopDefined
<1>3. PICK f : /\ f = [n \in 0..Len(ls) |-> IF n = 0 THEN << >> ELSE Combine(f[n - 1], ls[n])]
               /\ CollapseConsecutive(ls) = f[Len(ls)]
  BY <1>1, <1>2 DEF Combines!Defined, CollapseConsecutive, CombineStep
<1>4. Combines!Run(g, << >>, Len(ls), f)
  BY <1>1, <1>3 DEF Combines!Run, CombineStep
<1>5. CombineGood(g, << >>, 0)
  BY NoLines, SumNone DEF CombineGood
<1>6. Combines!Kept(g, Len(ls))
  <2> SUFFICES ASSUME NEW n \in 1..Len(ls), NEW v, CombineGood(g, v, n - 1)
               PROVE  CombineGood(g, Combine(v, ls[n]), n)
    BY <1>1 DEF Combines!Kept, CombineStep
  <2> DEFINE l == ls[n]
  <2>1. /\ l \in Line /\ l.count \in Nat
        /\ Part(ls, K)[n] = IF l.msg \in K THEN l.count ELSE 0
    BY LineFacts
  <2>2. SumTo(n, Part(ls, K)) = SumTo(n - 1, Part(ls, K)) + Part(ls, K)[n]
    BY PartLaw
  <2>3. v \in Seq(Line) /\ TotalIn(v, K) = SumTo(n - 1, Part(ls, K))
    BY <1>1 DEF CombineGood
  <2> HIDE DEF l
  <2>4. CASE v # << >> /\ v[Len(v)].msg = l.msg
    <3>1. Combine(v, l) = AddTo(v, l.count)
      BY <2>4 DEF Combine
    <3>2. /\ AddTo(v, l.count) \in Seq(Line)
          /\ TotalIn(AddTo(v, l.count), K)
             = TotalIn(v, K) + IF v[Len(v)].msg \in K THEN l.count ELSE 0
      BY <2>1, <2>3, <2>4, AddTotal
    <3>3. QED
      BY <1>1, <2>1, <2>2, <2>3, <2>4, <3>1, <3>2 DEF CombineGood, l
  <2>5. CASE ~(v # << >> /\ v[Len(v)].msg = l.msg)
    <3>1. Combine(v, l) = Append(v, l)
      BY <2>5 DEF Combine
    <3>2. QED
      BY <1>1, <2>1, <2>2, <2>3, <3>1, AppendTotal DEF CombineGood, l
  <2>6. QED
    BY <2>4, <2>5
<1>7. Len(ls) \in 0..Len(ls) /\ \A n \in 0..Len(ls) : CombineGood(g, f[n], n)
  BY <1>1, <1>4, <1>5, <1>6, Combines!LoopInvariant
<1>8. CombineGood(g, f[Len(ls)], Len(ls))
  BY <1>7
<1>9. QED
  BY <1>1, <1>3, <1>8 DEF CombineGood, TotalIn

FilterStep(g, v, n) ==
    IF Wanted(g.keywords, g.lines[n].msg) THEN Append(v, g.lines[n]) ELSE v
FilterGood(g, v, n) ==
    v \in Seq(Line) /\ TotalIn(v, Messages) = SumTo(n, Part(g.lines, g.K))
Filters == INSTANCE Loops WITH Step <- FilterStep, Good <- FilterGood

\* The filter leaves all the events of the messages wanted, and no others.
LEMMA FilterKeeps ==
    ASSUME NEW ls \in Seq(Line), NEW keywords, NEW K,
           \A m \in Messages : m \in K <=> Wanted(keywords, m)
    PROVE  /\ FilterByKeywords(ls, keywords) \in Seq(Line)
           /\ TotalIn(FilterByKeywords(ls, keywords), Messages) = TotalIn(ls, K)
<1> DEFINE g == [lines |-> ls, K |-> K, keywords |-> keywords]
<1>1. Len(ls) \in Nat /\ g.lines = ls /\ g.K = K /\ g.keywords = keywords
  BY LineFacts
<1> HIDE DEF g
<1>2. Filters!Defined(g, << >>, Len(ls))
  BY <1>1, Filters!LoopDefined
<1>3. PICK f : /\ f = [n \in 0..Len(ls) |->
                         IF n = 0 THEN << >> ELSE FilterStep(g, f[n - 1], n)]
               /\ FilterByKeywords(ls, keywords) = f[Len(ls)]
  BY <1>1, <1>2 DEF Filters!Defined, FilterByKeywords, FilterStep
<1>4. Filters!Run(g, << >>, Len(ls), f)
  BY <1>1, <1>3 DEF Filters!Run
<1>5. FilterGood(g, << >>, 0)
  BY NoLines, SumNone DEF FilterGood
<1>6. Filters!Kept(g, Len(ls))
  <2> SUFFICES ASSUME NEW n \in 1..Len(ls), NEW v, FilterGood(g, v, n - 1)
               PROVE  FilterGood(g, FilterStep(g, v, n), n)
    BY DEF Filters!Kept
  <2> DEFINE l == ls[n]
  <2>1. /\ l \in Line /\ l.msg \in Messages /\ l.count \in Nat
        /\ Part(ls, K)[n] = IF l.msg \in K THEN l.count ELSE 0
    BY LineFacts
  <2>2. SumTo(n, Part(ls, K)) = SumTo(n - 1, Part(ls, K)) + Part(ls, K)[n]
    BY PartLaw
  <2>3. SumTo(n - 1, Part(ls, K)) \in Nat
    BY PartLaw
  <2>4. v \in Seq(Line) /\ TotalIn(v, Messages) = SumTo(n - 1, Part(ls, K))
    BY <1>1 DEF FilterGood
  <2>5. FilterStep(g, v, n) = IF Wanted(keywords, l.msg) THEN Append(v, l) ELSE v
    BY <1>1 DEF FilterStep
  <2>6. l.msg \in K <=> Wanted(keywords, l.msg)
    BY <2>1
  <2> HIDE DEF l
  <2>7. Append(v, l) \in Seq(Line) /\ TotalIn(Append(v, l), Messages) = TotalIn(v, Messages) + l.count
    BY <2>1, <2>4, AppendTotal
  <2>8. QED
    BY <1>1, <2>1, <2>2, <2>3, <2>4, <2>5, <2>6, <2>7 DEF FilterGood
<1>7. Len(ls) \in 0..Len(ls) /\ \A n \in 0..Len(ls) : FilterGood(g, f[n], n)
  BY <1>1, <1>4, <1>5, <1>6, Filters!LoopInvariant
<1>8. FilterGood(g, f[Len(ls)], Len(ls))
  BY <1>7
<1>9. QED
  BY <1>1, <1>3, <1>8 DEF FilterGood, TotalIn

-----------------------------------------------------------------------------
(* Bursts.                                                                 *)

\* Messages that an address does not tell apart are both in K, or neither is.
Closed(K) == \A a, b \in Messages : Masked[a] = Masked[b] => (a \in K <=> b \in K)

\* A burst of a line begins with it.
LEMMA BurstHas ==
    ASSUME NEW ls \in Seq(Line), NEW window, NEW s \in 1..Len(ls), ls[s].time # NoTime
    PROVE  /\ BurstFrom(ls, s, window) \subseteq s..Len(ls) /\ s \in BurstFrom(ls, s, window)
           /\ \A j \in BurstFrom(ls, s, window) : Masked[ls[j].msg] = Masked[ls[s].msg]
<1>1. s \in Nat /\ Len(ls) \in Nat
  BY LineFacts
<1>2. QED
  BY <1>1 DEF BurstFrom

\* A line within a burst that has a line of a burst before it in its own burst is in
\* the burst before it.
LEMMA BurstsNest ==
    ASSUME NEW ls \in Seq(Line), NEW window,
           NEW s \in 1..Len(ls), NEW n \in 1..Len(ls), NEW j \in 1..Len(ls),
           s < n, n < j, ls[n].time # NoTime,
           j \in BurstFrom(ls, s, window), j \in BurstFrom(ls, n, window)
    PROVE  n \in BurstFrom(ls, s, window)
<1> DEFINE Late(k) == ls[k].time # NoTime /\ ls[k].time - ls[s].time > window
<1>1. s \in Nat /\ n \in Nat /\ j \in Nat /\ Len(ls) \in Nat
  BY LineFacts
<1>2. Masked[ls[j].msg] = Masked[ls[s].msg] /\ Masked[ls[j].msg] = Masked[ls[n].msg]
  BY DEF BurstFrom
<1>3. \A k \in (s + 1)..j : ~Late(k)
  BY DEF BurstFrom
<1>4. n \in s..Len(ls) /\ \A k \in (s + 1)..n : k \in (s + 1)..j
  BY <1>1
<1>5. BurstFrom(ls, s, window)
      = {i \in s..Len(ls) : /\ ls[i].time # NoTime
                            /\ Masked[ls[i].msg] = Masked[ls[s].msg]
                            /\ \A k \in (s + 1)..i : ~Late(k)}
  BY DEF BurstFrom
<1> HIDE DEF Late
<1>6. QED
  BY <1>2, <1>3, <1>4, <1>5

\* The events of the messages K that the lines at the indices I stand for.
At(ls, K, I) == [k \in 1..Len(ls) |-> IF k \in I THEN Part(ls, K)[k] ELSE 0]

LEMMA AtNat ==
    ASSUME NEW ls \in Seq(Line), NEW K, NEW I
    PROVE  \A k \in 1..Len(ls) :
              /\ At(ls, K, I)[k] = IF k \in I THEN Part(ls, K)[k] ELSE 0
              /\ At(ls, K, I)[k] \in Nat
BY LineFacts DEF At

LEMMA AtBoth ==
    ASSUME NEW ls \in Seq(Line), NEW K, NEW I, NEW J, \A k \in J : k \notin I
    PROVE  /\ SumTo(Len(ls), At(ls, K, I \union J))
              = SumTo(Len(ls), At(ls, K, I)) + SumTo(Len(ls), At(ls, K, J))
           /\ SumTo(Len(ls), At(ls, K, I \union J)) \in Nat
<1>1. Len(ls) \in Nat
  BY LineFacts
<1>2. \A k \in 1..Len(ls) :
         /\ At(ls, K, I)[k] \in Nat /\ At(ls, K, J)[k] \in Nat
         /\ At(ls, K, I \union J)[k] = At(ls, K, I)[k] + At(ls, K, J)[k]
  <2> SUFFICES ASSUME NEW k \in 1..Len(ls)
               PROVE  /\ At(ls, K, I)[k] \in Nat /\ At(ls, K, J)[k] \in Nat
                      /\ At(ls, K, I \union J)[k] = At(ls, K, I)[k] + At(ls, K, J)[k]
    OBVIOUS
  <2>1. Part(ls, K)[k] \in Nat
    BY LineFacts
  <2>2. /\ At(ls, K, I)[k] = IF k \in I THEN Part(ls, K)[k] ELSE 0
        /\ At(ls, K, J)[k] = IF k \in J THEN Part(ls, K)[k] ELSE 0
        /\ At(ls, K, I \union J)[k] = IF k \in I \union J THEN Part(ls, K)[k] ELSE 0
    BY AtNat
  <2>3. QED
    BY <2>1, <2>2
<1>3. QED
  BY <1>1, <1>2, SumBoth

\* A single line.
LEMMA AtOne ==
    ASSUME NEW ls \in Seq(Line), NEW K, NEW n \in 1..Len(ls)
    PROVE  SumTo(Len(ls), At(ls, K, {n})) = Part(ls, K)[n]
<1>1. Len(ls) \in Nat /\ Part(ls, K)[n] \in Nat
  BY LineFacts
<1>2. /\ At(ls, K, {n})[n] = Part(ls, K)[n]
      /\ \A k \in 1..Len(ls) : k # n => At(ls, K, {n})[k] = 0
  BY AtNat
<1>3. QED
  BY <1>1, <1>2, SumOne

\* All of a burst, if its messages are in K, and nothing of it otherwise.
LEMMA AtBurst ==
    ASSUME NEW ls \in Seq(Line), NEW K, Closed(K), NEW n \in 1..Len(ls), NEW I,
           \A j \in I : j \in 1..Len(ls) /\ Masked[ls[j].msg] = Masked[ls[n].msg]
    PROVE  /\ CountOf(ls, I) \in Nat
           /\ SumTo(Len(ls), At(ls, K, I)) = IF ls[n].msg \in K THEN CountOf(ls, I) ELSE 0
<1> DEFINE f == [k \in DOMAIN ls |-> IF k \in I THEN ls[k].count ELSE 0]
<1>1. Len(ls) \in Nat /\ CountOf(ls, I) = SumTo(Len(ls), f)
  BY LineFacts DEF CountOf
<1>2. \A k \in 1..Len(ls) : f[k] = IF k \in I THEN ls[k].count ELSE 0
  BY LineFacts
<1> HIDE DEF f
<1>3. \A k \in 1..Len(ls) : f[k] \in Nat
  BY <1>2, LineFacts
<1>4. CountOf(ls, I) \in Nat
  <2>1. Len(ls) \in 0..Len(ls)
    BY <1>1
  <2>2. QED
    BY <1>1, <1>3, <2>1, SumLaw
<1>5. \A j \in I : ls[j].msg \in K <=> ls[n].msg \in K
  BY LineFacts DEF Closed
<1>6. CASE ls[n].msg \in K
  <2>1. \A k \in 1..Len(ls) : f[k] \in Nat /\ At(ls, K, I)[k] = f[k]
    BY <1>2, <1>3, <1>5, <1>6, AtNat, LineFacts
  <2>2. QED
    BY <1>1, <1>4, <1>6, <2>1, SumSame
<1>7. CASE ls[n].msg \notin K
  <2>1. \A k \in 1..Len(ls) : At(ls, K, I)[k] = 0
    BY <1>5, <1>7, AtNat, LineFacts
  <2>2. QED
    BY <1>1, <1>4, <1>7, <2>1, SumZero
<1>8. QED
  BY <1>6, <1>7

\* What of the lines the first n steps have dealt with.
Done(v, n) == 1..n \union v.skip

BurstsStep(g, v, n) == BurstStep(g.lines, g.window, g.threshold, v, n)
BurstsGood(g, v, n) ==
    /\ v.out \in Seq(Line) /\ v.skip \subseteq 1..Len(g.lines)
    /\ TotalIn(v.out, g.K) = SumTo(Len(g.lines), At(g.lines, g.K, Done(v, n)))
    /\ \A j \in v.skip : j > n =>
          \E s \in 1..n : /\ j \in BurstFrom(g.lines, s, g.window)
                          /\ BurstFrom(g.lines, s, g.window) \subseteq v.skip
Bursts == INSTANCE Loops WITH Step <- BurstsStep, Good <- BurstsGood

\* A burst that is folded at n has no line that was dealt with before.
LEMMA BurstIsNew ==
    ASSUME NEW g, g.lines \in Seq(Line), NEW n \in 1..Len(g.lines), NEW v,
           BurstsGood(g, v, n - 1), n \notin v.skip, g.lines[n].time # NoTime
    PROVE  \A j \in BurstFrom(g.lines, n, g.window) : j \notin Done(v, n - 1)
<1> SUFFICES ASSUME NEW j \in BurstFrom(g.lines, n, g.window), j \in Done(v, n - 1)
             PROVE  FALSE
  OBVIOUS
<1>1. Len(g.lines) \in Nat
  BY LineFacts
<1>2. j \in n..Len(g.lines)
  BY DEF BurstFrom
<1>3. j \in v.skip /\ j > n
  BY <1>1, <1>2 DEF Done
<1>4. PICK s \in 1..(n - 1) : /\ j \in BurstFrom(g.lines, s, g.window)
                              /\ BurstFrom(g.lines, s, g.window) \subseteq v.skip
  BY <1>1, <1>3 DEF BurstsGood
<1>5. s \in 1..Len(g.lines) /\ j \in 1..Len(g.lines) /\ s < n /\ n < j
  BY <1>1, <1>2, <1>3
<1>6. n \in BurstFrom(g.lines, s, g.window)
  BY <1>4, <1>5, BurstsNest
<1>7. QED
  BY <1>4, <1>6

LEMMA BurstStepKeeps ==
    ASSUME NEW g, g.lines \in Seq(Line), Closed(g.K), NEW n \in 1..Len(g.lines), NEW v,
           BurstsGood(g, v, n - 1)
    PROVE  BurstsGood(g, BurstsStep(g, v, n), n)
<1> DEFINE ls == g.lines
           K == g.K
           l == ls[n]
           burst == BurstFrom(ls, n, g.window)
           w == BurstsStep(g, v, n)
<1>1. /\ Len(ls) \in Nat /\ n \in Nat /\ l \in Line /\ l.msg \in Messages /\ l.count \in Nat
      /\ l.time \in Nat \union {NoTime}
      /\ Part(ls, K)[n] = IF l.msg \in K THEN l.count ELSE 0
  BY LineFacts
<1>2. /\ v.out \in Seq(Line) /\ v.skip \subseteq 1..Len(ls)
      /\ TotalIn(v.out, K) = SumTo(Len(ls), At(ls, K, Done(v, n - 1)))
      /\ \A j \in v.skip : j > n - 1 =>
            \E s \in 1..(n - 1) : /\ j \in BurstFrom(ls, s, g.window)
                                  /\ BurstFrom(ls, s, g.window) \subseteq v.skip
  BY DEF BurstsGood
<1>3. w = IF n \in v.skip THEN v
          ELSE IF l.time = NoTime \/ Cardinality(burst) < g.threshold
          THEN [out |-> Append(v.out, l), skip |-> v.skip]
          ELSE [out  |-> Append(v.out, [l EXCEPT !.count = CountOf(ls, burst)]),
                skip |-> v.skip \union burst]
  BY DEF BurstsStep, BurstStep
<1>4. \A j \in v.skip : j > n =>
          \E s \in 1..n : /\ j \in BurstFrom(ls, s, g.window)
                          /\ BurstFrom(ls, s, g.window) \subseteq v.skip
  <2> SUFFICES ASSUME NEW j \in v.skip, j > n
               PROVE  \E s \in 1..n : /\ j \in BurstFrom(ls, s, g.window)
                                      /\ BurstFrom(ls, s, g.window) \subseteq v.skip
    OBVIOUS
  <2>1. j > n - 1 /\ \A s \in 1..(n - 1) : s \in 1..n
    BY <1>1, <1>2
  <2>2. QED
    BY <1>2, <2>1
<1> HIDE DEF ls, K, l, burst, w
<1>5. CASE n \in v.skip
  <2>1. w = v /\ Done(v, n) = Done(v, n - 1)
    BY <1>1, <1>3, <1>5 DEF Done
  <2>2. QED
    BY <1>2, <1>4, <2>1 DEF BurstsGood, w, ls, K
<1>6. CASE n \notin v.skip /\ (l.time = NoTime \/ Cardinality(burst) < g.threshold)
  <2>1. w.out = Append(v.out, l) /\ w.skip = v.skip
    BY <1>3, <1>6
  <2>2. Done(w, n) = Done(v, n - 1) \union {n} /\ \A k \in {n} : k \notin Done(v, n - 1)
    BY <1>1, <1>6, <2>1 DEF Done
  <2>3. SumTo(Len(ls), At(ls, K, Done(w, n)))
        = SumTo(Len(ls), At(ls, K, Done(v, n - 1))) + SumTo(Len(ls), At(ls, K, {n}))
    BY <2>2, AtBoth DEF ls
  <2>4. SumTo(Len(ls), At(ls, K, {n})) = IF l.msg \in K THEN l.count ELSE 0
    BY <1>1, AtOne DEF ls
  <2>5. /\ Append(v.out, l) \in Seq(Line)
        /\ TotalIn(Append(v.out, l), K) = TotalIn(v.out, K) + IF l.msg \in K THEN l.count ELSE 0
    BY <1>1, <1>2, AppendTotal
  <2>6. TotalIn(w.out, K) = SumTo(Len(ls), At(ls, K, Done(w, n)))
    BY <1>2, <2>1, <2>3, <2>4, <2>5
  <2>7. QED
    BY <1>2, <1>4, <2>1, <2>5, <2>6 DEF BurstsGood, w, ls, K
<1>7. CASE n \notin v.skip /\ ~(l.time = NoTime \/ Cardinality(burst) < g.threshold)
  <2> DEFINE m == [l EXCEPT !.count = CountOf(ls, burst)]
  <2>1. w.out = Append(v.out, m) /\ w.skip = v.skip \union burst
    BY <1>3, <1>7
  <2>2. /\ burst \subseteq n..Len(ls) /\ n \in burst
        /\ \A j \in burst : Masked[ls[j].msg] = Masked[l.msg]
    BY <1>7, BurstHas DEF burst, ls, l
  <2>3. \A j \in burst : j \notin Done(v, n - 1)
    BY <1>7, BurstIsNew DEF burst, ls, l
  <2>4. Done(w, n) = Done(v, n - 1) \union burst
    BY <1>1, <2>1, <2>2 DEF Done
  <2>5. SumTo(Len(ls), At(ls, K, Done(w, n)))
        = SumTo(Len(ls), At(ls, K, Done(v, n - 1))) + SumTo(Len(ls), At(ls, K, burst))
    BY <2>3, <2>4, AtBoth DEF ls
  <2>6. /\ CountOf(ls, burst) \in Nat
        /\ SumTo(Len(ls), At(ls, K, burst)) = IF l.msg \in K THEN CountOf(ls, burst) ELSE 0
    <3>1. \A j \in burst : j \in 1..Len(ls) /\ Masked[ls[j].msg] = Masked[l.msg]
      BY <1>1, <2>2
    <3>2. QED
      BY <3>1, AtBurst DEF ls, K, l
  <2>7. m \in Line /\ m.msg = l.msg /\ m.count = CountOf(ls, burst)
    <3>1. l = [msg |-> l.msg, time |-> l.time, count |-> l.count]
      BY <1>1 DEF Line
    <3>2. m = [msg |-> l.msg, time |-> l.time, count |-> CountOf(ls, burst)]
      BY <3>1
    <3> HIDE DEF m
    <3>3. QED
      BY <1>1, <2>6, <3>2 DEF Line
  <2> HIDE DEF m
  <2>8. /\ Append(v.out, m) \in Seq(Line)
        /\ TotalIn(Append(v.out, m), K) = TotalIn(v.out, K) + IF m.msg \in K THEN m.count ELSE 0
    BY <1>2, <2>7, AppendTotal
  <2>9. TotalIn(w.out, K) = SumTo(Len(ls), At(ls, K, Done(w, n)))
    BY <1>2, <2>1, <2>5, <2>6, <2>7, <2>8
  <2>10. w.skip \subseteq 1..Len(ls)
    <3>1. n..Len(ls) \subseteq 1..Len(ls)
      BY <1>1
    <3>2. QED
      BY <1>2, <2>1, <2>2, <3>1
  <2>11. \A j \in w.skip : j > n =>
             \E s \in 1..n : /\ j \in BurstFrom(ls, s, g.window)
                             /\ BurstFrom(ls, s, g.window) \subseteq w.skip
    <3> SUFFICES ASSUME NEW j \in w.skip, j > n
                 PROVE  \E s \in 1..n : /\ j \in BurstFrom(ls, s, g.window)
                                        /\ BurstFrom(ls, s, g.window) \subseteq w.skip
      OBVIOUS
    <3>1. CASE j \in v.skip
      BY <1>4, <2>1, <3>1
    <3>2. CASE j \in burst
      BY <1>1, <2>1, <3>2 DEF burst
    <3>3. QED
      BY <2>1, <3>1, <3>2
  <2>12. QED
    BY <2>1, <2>8, <2>9, <2>10, <2>11 DEF BurstsGood, w, ls, K
<1>8. QED
  BY <1>5, <1>6, <1>7

\* A burst becomes one line that stands for all of its events.
LEMMA BurstsKeep ==
    ASSUME NEW ls \in Seq(Line), NEW window, NEW threshold, NEW K, Closed(K)
    PROVE  /\ CollapseBursts(ls, window, threshold) \in Seq(Line)
           /\ TotalIn(CollapseBursts(ls, window, threshold), K) = TotalIn(ls, K)
<1> DEFINE g == [lines |-> ls, K |-> K, window |-> window, threshold |-> threshold]
           none == [out |-> << >>, skip |-> {}]
<1>1. /\ Len(ls) \in Nat /\ g.lines = ls /\ g.K = K
      /\ g.window = window /\ g.threshold = threshold
  BY LineFacts
<1>2. CASE threshold <= 0
  BY <1>2 DEF CollapseBursts
<1>3. CASE ~(threshold <= 0)
  <2>1. none.out = << >> /\ none.skip = {}
    OBVIOUS
  <2> HIDE DEF g
  <2>2. Bursts!Defined(g, none, Len(ls))
    BY <1>1, Bursts!LoopDefined
  <2>3. PICK f : /\ f = [n \in 0..Len(ls) |->
                            IF n = 0 THEN none
                            ELSE BurstStep(ls, window, threshold, f[n - 1], n)]
                 /\ CollapseBursts(ls, window, threshold) = f[Len(ls)].out
    BY <1>1, <1>3, <2>2 DEF Bursts!Defined, CollapseBursts, BurstsStep
  <2> HIDE DEF none
  <2>4. Bursts!Run(g, none, Len(ls), f)
    BY <1>1, <2>3 DEF Bursts!Run, BurstsStep
  <2>5. BurstsGood(g, none, 0)
    <3>1. \A k \in 1..Len(ls) : At(ls, K, Done(none, 0))[k] = 0
      BY <2>1, AtNat DEF Done
    <3>2. SumTo(Len(ls), At(ls, K, Done(none, 0))) = 0
      BY <1>1, <3>1, SumZero
    <3>3. QED
      BY <1>1, <2>1, <3>2, NoLines DEF BurstsGood
  <2>6. Bursts!Kept(g, Len(ls))
    BY <1>1, BurstStepKeeps DEF Bursts!Kept
  <2>7. Len(ls) \in 0..Len(ls) /\ \A n \in 0..Len(ls) : BurstsGood(g, f[n], n)
    BY <1>1, <2>4, <2>5, <2>6, Bursts!LoopInvariant
  <2>8. BurstsGood(g, f[Len(ls)], Len(ls))
    BY <2>7
  <2> DEFINE v == f[Len(ls)]
  <2>9. SumTo(Len(ls), At(ls, K, Done(v, Len(ls)))) = TotalIn(ls, K)
    <3>1. \A k \in 1..Len(ls) : /\ Part(ls, K)[k] \in Nat
                                /\ At(ls, K, Done(v, Len(ls)))[k] = Part(ls, K)[k]
      BY LineFacts, AtNat DEF Done
    <3>2. QED
      BY <1>1, <3>1, SumSame DEF TotalIn
  <2>10. QED
    BY <1>1, <2>3, <2>8, <2>9 DEF BurstsGood
<1>4. QED
  BY <1>2, <1>3

-----------------------------------------------------------------------------
(* No event is lost without a word.                                        *)

\* What a log tells of is what its lines tell of, once they are parsed.
LEMMA EventsAreTold ==
    ASSUME NEW ls \in Seq(Line), NEW raw, Len(ls) = Len(raw), DOMAIN raw = 1..Len(ls),
           \A k \in 1..Len(ls) : ls[k].msg = raw[k].msg,
           NEW keywords, NEW K, \A m \in Messages : m \in K <=> Wanted(keywords, m)
    PROVE  EventsFor(raw, keywords) = SumTo(Len(ls), Told(ls, K))
<1> DEFINE e == [k \in DOMAIN raw |->
                   IF ~Wanted(keywords, MessageOf(raw, k)) THEN 0
                   ELSE IF IsMarker(raw, k) THEN Repeats[raw[k].msg] ELSE 1]
<1>1. EventsFor(raw, keywords) = SumTo(Len(ls), e)
  BY DEF EventsFor
<1>2. Len(ls) \in Nat /\ \A k \in 1..Len(ls) : ls[k].msg \in Messages
  BY LineTyped
<1>3. ASSUME NEW k \in 1..Len(ls)
      PROVE  Told(ls, K)[k] \in Nat /\ e[k] = Told(ls, K)[k]
  <2>1. k \in Nat /\ k \in 1..k /\ \A j \in 1..k : j \in 1..Len(ls)
    BY <1>2
  <2>2. \A j \in 1..k : IsMarker(ls, j) <=> IsMarker(raw, j)
    BY <2>1 DEF IsMarker
  <2>3. MessageOf(ls, k) = MessageOf(raw, k) /\ MessageOf(ls, k) \in Messages
    <3> DEFINE S == {j \in 1..k : ~IsMarker(ls, j)}
    <3>1. S = {j \in 1..k : ~IsMarker(raw, j)}
      BY <2>2
    <3>2. k \in Nat /\ S \in SUBSET (0..k) /\ 1 \in S
      BY <1>2 DEF IsMarker
    <3>3. MessageOf(ls, k) = ls[Max(S)].msg /\ MessageOf(raw, k) = raw[Max(S)].msg
      BY <3>1 DEF MessageOf
    <3>4. Max(S) \in S
      <4> HIDE DEF S
      <4>1. QED
        BY <3>2, MaxIsGreatest
    <3>5. Max(S) \in 1..Len(ls)
      BY <2>1, <3>4
    <3>6. QED
      BY <1>2, <3>3, <3>5
  <2>4. /\ Told(ls, K)[k] = IF MessageOf(ls, k) \notin K THEN 0
                             ELSE IF IsMarker(ls, k) THEN Repeats[ls[k].msg] ELSE 1
        /\ Told(ls, K)[k] \in Nat
    BY ToldNat DEF Told
  <2>5. e[k] = IF ~Wanted(keywords, MessageOf(raw, k)) THEN 0
               ELSE IF IsMarker(raw, k) THEN Repeats[raw[k].msg] ELSE 1
    OBVIOUS
  <2> HIDE DEF e
  <2>6. QED
    BY <2>1, <2>2, <2>3, <2>4, <2>5
<1> HIDE DEF e
<1>4. QED
  BY <1>1, <1>2, <1>3, SumSame

\* What refine leaves, unless the budget cut it, stands for the events the keywords
\* let through.
LEMMA RefineKeeps ==
    ASSUME NEW logs \in Seq(Seq(RawLine)), NEW config, SeeNoAddress(config.keywords),
           "middle dropped" \notin Refine(logs, config).warnings
    PROVE  /\ Refine(logs, config).lines \in Seq(Line)
           /\ TotalIn(Refine(logs, config).lines, Messages)
              = EventsFor(Raw(logs), config.keywords)
<1> DEFINE raw == Raw(logs)
           keywords == config.keywords
           K == {m \in Messages : Wanted(keywords, m)}
           parsed == ParseLines(logs)
           absorbed == AbsorbRepeatMarkers(parsed)
           combined == CollapseConsecutive(absorbed)
           window == config.burstWindow
           threshold == config.burstThreshold
           bursts == CollapseBursts(combined, window, threshold)
           filtered == FilterByKeywords(bursts, keywords)
<1>1. Refine(logs, config).lines = filtered
  BY DEF Refine, Collapse
<1>2. /\ parsed \in Seq(Line) /\ Len(parsed) = Len(raw) /\ DOMAIN raw = 1..Len(parsed)
      /\ \A k \in 1..Len(parsed) : parsed[k].msg = raw[k].msg /\ parsed[k].count = 1
  BY ParseGives
<1>3. Closed(K) /\ \A m \in Messages : m \in K <=> Wanted(keywords, m)
  BY DEF Closed, SeeNoAddress
<1> HIDE DEF parsed, absorbed, combined, bursts, filtered, raw, K, keywords, window, threshold
<1>4. /\ absorbed \in Seq(Line)
      /\ TotalIn(absorbed, K) = SumTo(Len(parsed), Told(parsed, K))
  BY <1>2, AbsorbKeeps DEF absorbed
<1>5. combined \in Seq(Line) /\ TotalIn(combined, K) = TotalIn(absorbed, K)
  BY <1>4, CombineKeeps DEF combined
<1>6. bursts \in Seq(Line) /\ TotalIn(bursts, K) = TotalIn(combined, K)
  <2>1. Closed(K)
    BY <1>3
  <2>2. combined \in Seq(Line)
    BY <1>5
  <2>3. /\ CollapseBursts(combined, window, threshold) \in Seq(Line)
        /\ TotalIn(CollapseBursts(combined, window, threshold), K) = TotalIn(combined, K)
    BY ONLY <2>1, <2>2, BurstsKeep
  <2>4. QED
    BY <2>3 DEF bursts
<1>7. filtered \in Seq(Line) /\ TotalIn(filtered, Messages) = TotalIn(bursts, K)
  BY <1>3, <1>6, FilterKeeps DEF filtered
<1>8. EventsFor(raw, keywords) = SumTo(Len(parsed), Told(parsed, K))
  BY <1>2, <1>3, EventsAreTold
<1>9. QED
  BY <1>1, <1>4, <1>5, <1>6, <1>7, <1>8 DEF raw, keywords

\* To resolve a line changes neither its place nor its count.
LEMMA ResolvedCounts ==
    ASSUME NEW ls \in Seq(Line), NEW m, NEW res, res = ResolveObservations(m, ls)
    PROVE  /\ DOMAIN res = 1..Len(ls) /\ Len(res) = Len(ls)
           /\ \A k \in 1..Len(ls) : res[k].count = ls[k].count
<1> DEFINE N == Len(ls)
           r(k) == Resolve(m, LoadIndex(m), ls[k])
           S == {r(k) : k \in 1..N}
<1>1. N \in Nat /\ DOMAIN ls = 1..N
  BY LineTyped
<1>2. res = [k \in 1..N |-> r(k)]
  BY <1>1 DEF ResolveObservations
<1>3. \A k \in 1..N : r(k).count = ls[k].count
  BY DEF Resolve
<1> HIDE DEF r, N
<1>4. res \in [1..N -> S]
  BY <1>2
<1> HIDE DEF S
<1>5. res \in Seq(S) /\ Len(res) = N
  BY <1>1, <1>4
<1>6. QED
  BY <1>2, <1>3, <1>5 DEF N

LEMMA AllCounted ==
    ASSUME NEW ls \in Seq(Line), NEW f, \A k \in 1..Len(ls) : f[k] = ls[k].count
    PROVE  SumTo(Len(ls), f) = TotalIn(ls, Messages)
<1> DEFINE p == Part(ls, Messages)
<1>1. Len(ls) \in Nat
  BY LineTyped
<1>2. \A k \in 1..Len(ls) : p[k] \in Nat /\ f[k] = p[k]
  BY LineFacts
<1> HIDE DEF p
<1>3. QED
  BY <1>1, <1>2, SumSame DEF TotalIn, p

\* The counts on the lines of a prompt add up to the events that the expert's keywords
\* let through, or the prompt says what was dropped, unless a keyword looks at addresses
\* (refine.py, refine; analyze.py, omissions).
THEOREM CountsAlwaysKept == Spec => []CountsKept
<1>1. IInv => CountsKept
  <2> SUFFICES ASSUME IInv, NEW i \in Experts, Prepared(i),
                      SeeNoAddress(case.experts[i].config.keywords),
                      "middle dropped" \notin context[i].omissions
               PROVE  LET lines == context[i].lines
                      IN  SumTo(Len(lines), [k \in DOMAIN lines |-> lines[k].count])
                          = EventsFor(Raw(case.logs), case.experts[i].config.keywords)
    BY DEF CountsKept
  <2> DEFINE m == Material(i)
             config == case.experts[i].config
             refined == Refine(case.logs, config)
             lines == context[i].lines
             f == [k \in DOMAIN lines |-> lines[k].count]
  <2>1. /\ case \in Cases /\ i \in DOMAIN case.experts
        /\ case.logs \in Seq(Seq(RawLine))
    BY TriageAssumption DEF IInv, TypeOK, Experts
  <2>2. context[i] = Prepare(m, case.logs, config)
    BY DEF IInv, ContextInv, ContextOf, PromptInv, Prepared, Ready, Material
  <2>3. /\ lines = ResolveObservations(m, refined.lines)
        /\ "middle dropped" \notin refined.warnings
    <3> DEFINE all == Prepare(m, case.logs, config)
    <3>1. all.lines = ResolveObservations(m, refined.lines)
      BY DEF Prepare
    <3>2. refined.warnings \subseteq all.omissions
      <4> HIDE DEF m, config
      <4>1. QED
        BY DEF Prepare
    <3> HIDE DEF all, refined
    <3>3. QED
      BY <2>2, <3>1, <3>2 DEF all
  <2>4. SeeNoAddress(config.keywords)
    OBVIOUS
  <2> HIDE DEF m, config, refined, lines
  <2>5. /\ refined.lines \in Seq(Line)
        /\ TotalIn(refined.lines, Messages) = EventsFor(Raw(case.logs), config.keywords)
    BY <2>1, <2>3, <2>4, RefineKeeps DEF refined
  <2>6. /\ DOMAIN lines = 1..Len(refined.lines)
        /\ Len(lines) = Len(refined.lines)
        /\ \A k \in 1..Len(refined.lines) : lines[k].count = refined.lines[k].count
    <3> DEFINE ls == refined.lines
    <3>1. ls \in Seq(Line) /\ lines = ResolveObservations(m, ls)
      BY <2>3, <2>5
    <3> HIDE DEF ls, f
    <3>2. /\ DOMAIN lines = 1..Len(ls) /\ Len(lines) = Len(ls)
          /\ \A k \in 1..Len(ls) : lines[k].count = ls[k].count
      BY ONLY <3>1, ResolvedCounts
    <3>3. QED
      BY <3>2 DEF ls
  <2>7. \A k \in 1..Len(refined.lines) : f[k] = refined.lines[k].count
    BY <2>6
  <2> HIDE DEF f
  <2>8. SumTo(Len(refined.lines), f) = TotalIn(refined.lines, Messages)
    BY <2>5, <2>7, AllCounted
  <2>9. QED
    BY <2>5, <2>6, <2>8 DEF f, lines, config
<1>2. QED
  BY <1>1, InvariantHolds, PTL

===============================================================================
