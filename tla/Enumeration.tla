----------------------------- MODULE Enumeration -----------------------------
(***************************************************************************)
(* The order in which the programs go through things that have numbers in  *)
(* their models: names as sort.Strings gives them (engine/parserstore.go), *)
(* the elements of a list by their index.                                  *)
(***************************************************************************)
EXTENDS Integers, FiniteSets

(* The numbers of S, each once, in their order.                              *)
Ascending(S) ==
    CHOOSE s \in [1 .. Cardinality(S) -> S] :
        \A i, j \in 1 .. Cardinality(S) : i < j => s[i] < s[j]
=============================================================================
