---------------------------- MODULE MCParserStore ----------------------------
(* A built-in parser 1 that users override with two documents, and a parser  *)
(* 2 of their own; one document does not compile.                            *)
EXTENDS ParserStore, TLC

CONSTANTS h1, h2, d1, d2, d3, broken

MCHandlers == {h1, h2}
MCNames == {1, 2}
MCDocs == {d1, d2, d3, broken}
MCDocName == (d1 :> 1) @@ (d2 :> 1) @@ (d3 :> 2) @@ (broken :> 2)
MCCompiling == {d1, d2, d3}
MCBase == <<[name |-> 1, doc |-> d1]>>

HandlerSymmetry == Permutations(MCHandlers)
=============================================================================
