---------------------------- MODULE MCGraphStore ----------------------------
(* An instance of GraphStore: a test that imports, and two files that may be *)
(* what it imports.                                                          *)
EXTENDS GraphStore

CONSTANTS blank, plain, decl, imp

MCTexts == [p \in Paths |-> CASE p = 1 -> {imp}
                              [] p = 2 -> {blank, decl}
                              [] p = 3 -> {plain, decl}]
=============================================================================
