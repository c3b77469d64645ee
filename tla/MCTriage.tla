------------------------------- MODULE MCTriage -------------------------------
(***************************************************************************)
(* Small instance of Triage.  A driver of three files, two checks in a row *)
(* in drv.c that the log index cannot tell apart, one message of two       *)
(* functions, one of three places, one of a file that no document cites.   *)
(***************************************************************************)
EXTENDS Triage

Drv  == <<"dp", "drv.c">>
Core == <<"dp", "core.c">>
Link == <<"dl", "core.c">>
Lib  == <<"lib", "lib.c">>

MCPaths == <<Link, Core, Drv, Lib>>
MCFileNames == <<"core.c", "drv.c", "lib.c">>

MCMessages == {"chk foo", "chk bar", "ret probe", "denied", "lib 0x1", "lib 0x2", "again"}
MCMasked  == [m \in MCMessages |-> IF m \in {"lib 0x1", "lib 0x2"} THEN "lib" ELSE m]
MCRepeats == [m \in MCMessages |-> IF m = "again" THEN 2 ELSE 0]
MCWidth   == [m \in MCMessages |-> 6]

MCKeys == {"chk", "check", "return", "denied", "lib", "debug", "l"}
MCKeyLength == [k \in MCKeys |-> CASE k = "l" -> 1 [] k = "check" -> 9 [] OTHER -> 8]
MCFoundIn ==
    [k \in MCKeys |->
        CASE k \in {"chk", "check"} -> {"chk foo", "chk bar"}
          [] k = "return" -> {"ret probe"}
          [] k = "denied" -> {"denied"}
          [] k = "lib" -> {"lib 0x1", "lib 0x2"}
          [] OTHER -> MCMessages]

MCFormats == {"expr", "func", "code", "plain"}
Value(kind, text) == [kind |-> kind, text |-> text]
MCExtracted ==
    [x \in MCMessages \X MCFormats |->
        CASE x = <<"chk foo", "expr">> -> <<Value("text", "dp"), Value("call", "foo(a)")>>
          [] x = <<"chk bar", "expr">> -> <<Value("text", "dp"), Value("call", "bar(b)")>>
          [] x = <<"ret probe", "func">> -> <<Value("name", "probe")>>
          [] x = <<"ret probe", "code">> -> <<Value("name", "probe")>>
          [] OTHER -> <<>>]
\* "[%s] %s", "in %s: return\n", "in %s return :%d\n", and one without a %s.
MCLegible == [f \in MCFormats |-> IF f = "expr" THEN 1 ELSE IF f = "func" THEN 1 ELSE 0]

Row(key, format, level, path, line, subsystem) ==
    [key |-> key, format |-> format, level |-> level, path |-> path, line |-> line,
     subsystem |-> subsystem]

Index == <<
    Row("chk", "plain", "ERROR", Core, 3, "hw"),
    Row("check", "expr", "ERROR", Drv, 3, "hw"),
    Row("check", "expr", "ERROR", Drv, 5, "hw"),
    Row("return", "func", "ERROR", Drv, 6, "hw"),
    Row("return", "code", "ERROR", Core, 4, "irq"),
    Row("denied", "plain", "WARN", Drv, 2, "hw"),
    Row("denied", "plain", "WARN", Drv, 4, "hw"),
    Row("denied", "plain", "WARN", Core, 5, "irq"),
    Row("lib", "plain", "INFO", Lib, 9, "lib"),
    Row("lib", "plain", "INFO", Link, 4, "lib"),
    Row("debug", "plain", "T2D", Core, 1, "t2d"),
    Row("l", "plain", "INFO", Core, 1, "l")>>

Function(at, close, name) ==
    [at |-> at, open |-> at, close |-> close, closed |-> TRUE, name |-> name, chars |-> 4]
Call(at, last, text) == [at |-> at, first |-> at, last |-> last, text |-> text]

Source ==
    Drv :> [length |-> 8, heads |-> {Function(1, 7, "probe")},
            calls |-> {Call(3, 4, "foo(a)"), Call(5, 5, "bar(b)")}]
    @@ Core :> [length |-> 7, heads |-> {Function(2, 4, "remove")}, calls |-> {}]

Text(heading, cites, mentions, chars) ==
    [heading |-> heading, cites |-> cites, mentions |-> mentions, chars |-> chars]
Cites(path, line) == [path |-> path, from |-> line, to |-> line]
Short(line)       == Cites(<<>>, line)

Doc(name, text) == [name |-> name, generated |-> FALSE, text |-> text]

Flow == Doc("02_flow.md",
    <<Text(FALSE, <<Short(4)>>, {}, 2),
      Text(TRUE, <<Cites(Drv, 3), Short(5), Cites(Core, 7)>>, {"hw"}, 3),
      Text(TRUE, <<Cites(<<"core.c">>, 4)>>, {"irq"}, 3),
      Text(FALSE, <<Short(3)>>, {"irq"}, 2)>>)
Chain == Doc("03_chain.md",
    <<Text(TRUE, <<Cites(Core, 7)>>, {}, 4), Text(TRUE, <<Cites(Core, 6)>>, {}, 3)>>)
Debug == Doc("07_debug_interfaces.md",
    <<Text(TRUE, <<>>, {"hw"}, 2), Text(TRUE, <<Cites(Drv, 5)>>, {"irq"}, 8)>>)
Sequences == Doc("12_event_sequences.md", <<Text(TRUE, <<Cites(Core, 1)>>, {"lib"}, 4)>>)
Summary == Doc("10_summary_and_findings.md", <<Text(TRUE, <<>>, {}, 4)>>)
Structure == Doc("01_architecture_composition.md", <<Text(TRUE, <<>>, {}, 4)>>)
Inventory == [Doc("_inventory.md", <<Text(TRUE, <<Cites(Lib, 9)>>, {}, 4)>>)
                 EXCEPT !.generated = TRUE]

NoFiles == [p \in {} |-> {}]

Full == [present |-> TRUE, readable |-> TRUE, index |-> Index, source |-> Source,
         docs |-> <<Structure, Flow, Chain, Debug, Summary, Sequences, Inventory>>,
         module |-> "state_model" :> <<Doc("04_state_model.md", <<Text(TRUE, <<>>, {}, 3)>>)>>
             @@ "cross_module_edges" :>
                   <<Doc("06_edges.md", <<Text(TRUE, <<>>, {"irq"}, 1), Text(TRUE, <<>>, {}, 9)>>),
                     Doc("08_log_edges.md", <<Text(TRUE, <<>>, {}, 3)>>)>>
             @@ "log_grammar" :> <<Doc("01_log_grammar.md", <<Text(TRUE, <<>>, {}, 3)>>)>>,
         glossary |-> TRUE]
Poor     == [Full EXCEPT !.docs = <<Flow, Debug>>, !.module = NoFiles, !.glossary = FALSE]
NoSource == [Full EXCEPT !.source = NoFiles, !.docs = <<Chain>>]
Absent   == [Full EXCEPT !.present = FALSE]
Broken   == [Full EXCEPT !.readable = FALSE]

At(m, t) == [msg |-> m, time |-> t]
Logs(n, msgs) == {<<[k \in 1..n |-> At(f[k], k)]>> : f \in [1..n -> msgs]}

Plain  == [keywords |-> {}, burstWindow |-> 1, burstThreshold |-> 2, budget |-> 0]
Wide   == [Plain EXCEPT !.burstWindow = 2, !.burstThreshold = 3]
Tight  == [Plain EXCEPT !.burstThreshold = 0, !.budget = 10]
Keyworded == [Plain EXCEPT !.keywords = {{"chk foo", "chk bar"}, {"lib 0x1", "lib 0x2", "ret probe"}}]

One(m, config) == <<[material |-> m, config |-> config]>>
Ask(logs, mode, experts) == [logs |-> logs, mode |-> mode, experts |-> experts]

MCCases ==
    {Ask(l, "single", One(Full, c)) :
        l \in Logs(4, {"lib 0x1", "lib 0x2", "chk foo", "again"}), c \in {Plain, Wide, Keyworded}}
    \union {Ask(l, "single", One(Full, Tight)) : l \in Logs(4, {"lib 0x1", "denied"})}
    \union {Ask(<<l[1], l[1]>>, "two_stage", One(m, Wide)) :
        l \in Logs(2, MCMessages), m \in {Full, Poor, NoSource}}
    \union {Ask(l, "two_stage", <<[material |-> a, config |-> Plain],
                                  [material |-> b, config |-> Keyworded],
                                  [material |-> c, config |-> Plain]>>) :
        l \in Logs(1, {"chk bar"}), a \in {Full, Absent, Broken}, b \in {Poor, Broken},
        c \in {Full, Broken}}

(* What CountsKept and NarrowedIsTrue presuppose holds of every expert.    *)
MCExperts == UNION {ToSet(c.experts) : c \in MCCases}
ASSUME KeywordsAreBlind == \A e \in MCExperts : SeeNoAddress(e.config.keywords)
ASSUME MaterialsAreLaidOut == \A e \in MCExperts : LaidOut(e.material)

===============================================================================
