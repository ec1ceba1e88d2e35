--------------------------- MODULE MCSymbolGraph ---------------------------
\* Two files; a function with a qualified name and an enum variant without.
\* A lookup returns one match, so that a namesake in the other file crowds it.
EXTENDS SymbolGraph, TLC

MCDecls == {[name |-> "n", qual |-> "q1", kind |-> "Function"],
            [name |-> "m", qual |-> "", kind |-> "EnumVariant"]}

FileSymmetry == Permutations(Files)
=============================================================================
