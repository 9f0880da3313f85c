--------------------------- MODULE MCSharedContext --------------------------
(* TLC instances of SharedContext: which names and which declarations.     *)
EXTENDS SharedContextProperties

CONSTANTS n1, n2

OneName == {n1}
TwoNames == {n1, n2}
FirstName == {n1}

Define == {"define"}
Postulate == {"opaque"}

Nothing == {}
AppsAndAscriptions == {"pi", "apply", "ascribe"}
=============================================================================
