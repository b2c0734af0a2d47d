------------------------------- MODULE MC_Fst -------------------------------
EXTENDS Fst

\* Two short names and one of 13 bytes, stored as its first 12.
MC_Names == {"a", "b", "abcdefghijklm"}
MC_StoredName == [n \in MC_Names |-> IF n = "abcdefghijklm" THEN "abcdefghijkl" ELSE n]
MC_ShortNames == {"a", "b"}
MC_ShortStoredName == [n \in MC_ShortNames |-> n]
MC_Handles == {0}
\* No action reads `signed', so states that differ only there have the same
\* futures for every property that does not mention it.
TreeView == <<fst, handles, hang, ub>>
=============================================================================
