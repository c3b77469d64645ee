--------------------------- MODULE MCLogAnalysis ---------------------------
(***************************************************************************)
(* Small instance of LogAnalysis: two errors of one fingerprint, an answer *)
(* and a repeat marker, in logs of up to four lines, in order of time in   *)
(* a file; one format that the parser knows and one that it does not.      *)
(***************************************************************************)
EXTENDS LogAnalysis

Error == {"io1", "io2"}
MCMessages == Error \union {"done", "again"}
MCFormats == {"kernel", "other"}
MCFingerprint == "io1" :> "io" @@ "io2" :> "io" @@ "done" :> "done" @@ "again" :> "again"
MCRepeats == [m \in MCMessages |-> IF m = "again" THEN 2 ELSE 0]

Line(m, t) == [msg |-> m, time |-> t, format |-> "kernel"]
Foreign(m) == [msg |-> m, time |-> NoTime, format |-> "other"]

Times == {0, 1, 3}
Ordered(f) == \A i, j \in DOMAIN f : i < j => f[i].time <= f[j].time
FilesOver(msgs, times, n) ==
    {f \in [1..n -> {Line(m, t) : m \in msgs, t \in times}] : Ordered(f)}

Plain == [keywords |-> {}, conditions |-> {}, parsers |-> {"kernel"},
          burstWindow |-> 1, burstThreshold |-> 3, anchors |-> {},
          before |-> 1, after |-> 1, start |-> NoTime, end |-> NoTime]

NoBursts == [Plain EXCEPT !.burstThreshold = 0]
NoParser == [NoBursts EXCEPT !.parsers = {}]
AnyFormat == [NoBursts EXCEPT !.parsers = {"kernel", "other"}]
Anchored == [Plain EXCEPT !.keywords = {Error}, !.conditions = {{"io1"}}, !.anchors = {{"io2"}}]
FromOne == [Plain EXCEPT !.start = 1]

Asked(files, configs) == {[files |-> f, config |-> c] : f \in files, c \in configs}

OneFile(msgs, n) == {<<f>> : f \in FilesOver(msgs, Times, n)}
TwoFiles == {<<f, g>> : f \in FilesOver(MCMessages, {0, 1}, 2),
                        g \in FilesOver({"io1", "done"}, {1}, 1)}
WithForeign ==
    {<<<<Line("io1", 0), Foreign(m), Line(n, 1), Foreign(n)>>>> :
        m \in MCMessages, n \in MCMessages}

MCRequests ==
    Asked(OneFile({"io1", "io2", "done"}, 4), {Plain, NoBursts})
    \union Asked(OneFile(MCMessages, 3), {Plain, NoBursts, NoParser, Anchored, FromOne})
    \union Asked(TwoFiles, {NoBursts, Anchored})
    \union Asked(WithForeign, {Plain, AnyFormat, FromOne})

MCRuleSets == {<<>>, <<Error>>}

Base(name, type, keywords) ==
    [name |-> name, type |-> type, keywords |-> keywords, weight |-> 1]

Presence == Base("presence", "PRESENCE", {Error})
    @@ [regex |-> Error, dedup |-> 2]
Sequence == Base("sequence", "SEQUENCE", {Error, {"done"}})
    @@ [steps |-> <<Error, {"done"}>>, stepDedup |-> TRUE, nonOverlapping |-> TRUE]
Window == Base("window", "WINDOW", {Error})
    @@ [regex |-> Error, unique |-> FALSE, window |-> 2, threshold |-> 2]
Distinct == Base("distinct", "WINDOW", {})
    @@ [regex |-> MCMessages, unique |-> TRUE, window |-> 2, threshold |-> 2]
Always == Base("always", "WINDOW", {{"io2"}})
    @@ [regex |-> {"io2"}, unique |-> FALSE, window |-> 1, threshold |-> -1]
Absence == Base("absence", "ABSENCE", {{"io1"}, {"done"}})
    @@ [trigger |-> {"io1"}, absent |-> {"done"}, window |-> 1]
Composite(name, operator, components) ==
    Base(name, "COMPOSITE", {}) @@ [operator |-> operator, components |-> components]

MCAllPatterns ==
    <<Composite("not", "NOT", <<"window">>), Presence, Sequence, Window, Distinct, Absence,
      Composite("and", "AND", <<"presence", "sequence">>),
      Composite("or", "OR", <<"sequence", "window">>)>>

MCCases ==
    {[keywords |-> {Error, {"done"}}, patterns |-> <<Sequence, Absence, Always>>],
     [keywords |-> {}, patterns |->
        <<[Presence EXCEPT !.dedup = NoTime], Absence, Composite("both", "AND", <<"absence">>)>>]}
=============================================================================
