---------------------------- MODULE MCSemanticCache ----------------------------
(* Two requests of one key, one that asks the same text with other           *)
(* parameters, and an entry of another tenant for that text.                 *)
EXTENDS SemanticCache

CONSTANTS a1, a2, b1, c1

MCRequests == {a1, a2, b1, c1}
MCKeys == {"a", "b", "c"}
MCKeyOf == [r \in MCRequests |-> CASE r = b1 -> "b" [] r = c1 -> "c" [] OTHER -> "a"]
MCScope == [k \in MCKeys |-> IF k = "c" THEN "other" ELSE "tenant"]
MCGate == [k \in MCKeys |-> "l2"]
MCRecalled == MCKeys \X MCKeys
MCRank == [p \in MCKeys \X MCKeys |-> IF p[1] = p[2] THEN 3 ELSE 2]
=============================================================================
