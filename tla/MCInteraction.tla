---------------------------- MODULE MCInteraction ----------------------------
(***************************************************************************)
(* Instances of Interaction for TLC.  "kona" is the first site of          *)
(* puller/config/config.yaml with its bounds, "study" a small one with     *)
(* what that site does not use: expectations, jumps and nested popups, and *)
(* "leap" one with an action after a jump, which may fail.                 *)
(***************************************************************************)
EXTENDS Interaction

\* "bare" and "linked" are the page of a defect without and with its links to PLM.
MCPlaces == {"login", "main", "bare", "linked", "plm"}
MCMoves  == {<<"bare", "linked">>, <<"linked", "login">>, <<"linked", "main">>,
             <<"plm", "login">>}

Always    == [where |-> MCPlaces, dom |-> FALSE]
Never     == [where |-> {}, dom |-> FALSE]
Url(P)    == [where |-> P, dom |-> FALSE]
Link(P)   == [where |-> P, dom |-> TRUE]
Defect    == {"bare", "linked"}

A(kind, where) == [kind |-> kind, where |-> where]
Read(kind, key, where) == [kind |-> kind, where |-> where, key |-> key]
Popup     == [kind |-> "popup", where |-> {"linked"}, opens |-> "plm"]
To(step)  == [kind |-> "jump", step |-> step]

S(condition, actions, next) ==
    [condition |-> condition, actions |-> actions, expect |-> Always, final |-> FALSE,
     next |-> next]
Then(step)   == <<[condition |-> Always, step |-> step]>>
IfLinked(yes, no) == <<[condition |-> Link({"linked"}), step |-> yes],
                       [condition |-> Link(MCPlaces \ {"linked"}), step |-> no]>>

\* "Kona Main" has a domain_is with a path in its value, which holds nowhere.
KonaStep(s) ==
    CASE s = "Entry"      -> S(Url(Defect), <<>>, Then("Defect"))
      [] s = "Defect"     -> S(Url(Defect), <<A("title", Defect), Read("text", "id", Defect),
                                              Read("text", "description", Defect)>>,
                               IfLinked("Attachment", "Pulling"))
      [] s = "Attachment" -> S(Link({"linked"}), <<Popup>>, Then("Download"))
      [] s = "Download"   -> S(Url({"plm"}), <<A("files", {"plm"}),
                                               Read("table", "list", {"plm"}), A("close", {})>>,
                               Then("Pulling"))
      [] s = "Pulling"    -> S(Url(Defect), <<>>, IfLinked("Window", "Final"))
      [] s = "Window"     -> S(Link({"linked"}), <<Popup>>, Then("Lookup"))
      [] s = "Lookup"     -> S(Url({"plm"}), <<A("lookup", {"plm"})>>, Then("Comments"))
      [] s = "Comments"   -> S(Url({"plm"}), <<A("comments", {})>>, Then("Final"))
      [] s = "Final"      -> [S(Always, <<>>, <<>>) EXCEPT !.final = TRUE]
      [] s = "Log in"     -> S(Url({"login"}), <<A("login", {"login"}), A("goto", {})>>, <<>>)
      [] s = "Kona Main"  -> S(Never, <<A("goto", {})>>, <<>>)

KonaSequence == <<"Entry", "Defect", "Attachment", "Download", "Pulling", "Window", "Lookup",
                  "Comments", "Final">>
KonaOthers   == <<"Log in", "Kona Main">>

Kona == [sequence |-> KonaSequence, others |-> KonaOthers, entry |-> "Entry",
         iterations |-> 10, failures |-> 3, targets |-> Defect,
         step |-> [s \in Range(KonaSequence) \union Range(KonaOthers) |-> KonaStep(s)]]

StudyStep(s) ==
    CASE s = "Open"   -> [S(Link({"linked"}), <<A("wait", {"linked"}), A("click", {"linked"}), Popup>>, Then("Table"))
                          EXCEPT !.expect = Url({"plm"})]
      [] s = "Table"  -> [S(Url({"plm"}), <<Read("table", "rows", {"plm"}), A("close", {})>>,
                            Then("Final")) EXCEPT !.expect = Link({"linked"})]
      [] s = "Final"  -> [S(Always, <<A("download", {"linked"}),
                                      Read("text", "state", {"linked"})>>, <<>>)
                          EXCEPT !.expect = Url({"linked"}), !.final = TRUE]
      [] s = "Log in" -> S(Url({"login"}), <<A("login", {"login"}), A("goto", {}), To("Open")>>,
                           <<>>)
      [] s = "Home"   -> S(Url({"main"}), <<A("goto", {}), To("Open")>>, <<>>)

StudySequence == <<"Open", "Table", "Final">>
StudyOthers   == <<"Log in", "Home">>

Study == [sequence |-> StudySequence, others |-> StudyOthers, entry |-> "Open",
          iterations |-> 5, failures |-> 2, targets |-> {"linked"},
          step |-> [s \in Range(StudySequence) \union Range(StudyOthers) |-> StudyStep(s)]]

LeapStep(s) ==
    CASE s = "Open"   -> S(Url({"linked"}), <<To("Table"), A("wait", {"linked"})>>, Then("Final"))
      [] s = "Table"  -> S(Url({"linked"}), <<Read("table", "rows", {"linked"})>>, Then("Final"))
      [] s = "Final"  -> [S(Always, <<Read("text", "state", {"linked"})>>, <<>>)
                          EXCEPT !.final = TRUE]
      [] s = "Log in" -> S(Url({"login"}), <<A("login", {"login"}), A("goto", {})>>, <<>>)

Leap == [sequence |-> StudySequence, others |-> <<"Log in">>, entry |-> "Open",
         iterations |-> 6, failures |-> 3, targets |-> {"linked"},
         step |-> [s \in Range(StudySequence) \union {"Log in"} |-> LeapStep(s)]]

MCModes == {"final", "download", "lookup", "inspect", "scan", "read_text", "read_table"}

MCSites == [kona |-> Kona, study |-> Study, leap |-> Leap]

=============================================================================
