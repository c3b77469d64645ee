---------------------------- MODULE MCPatternStore ----------------------------
(***************************************************************************)
(* Model-checking module of PatternStore: a file with a plain pattern and  *)
(* a composite of it, listed in the order that has to be turned round.     *)
(***************************************************************************)
EXTENDS PatternStore, TLC

CONSTANTS a, b, c

MCNames == {a, b, c}
MCFile  == << [name |-> b, comps |-> {a}], [name |-> a, comps |-> {}] >>

\* No handler is told from another.
MCSymmetry == Permutations(Handlers)

==============================================================================
