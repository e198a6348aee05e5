--------------------------- MODULE MCPolicyUpload ---------------------------
(* PolicyUpload for TLC: two requests at a time, for two accounts, with two  *)
(* documents and up to three payment identifiers, all interchangeable.       *)
EXTENDS PolicyUpload, TLC

CONSTANTS s1, s2, a1, a2, h1, h2, p1, p2, p3

Symmetry ==
    Permutations(Slots) \cup Permutations(Accounts)
        \cup Permutations(Hashes) \cup Permutations(Pids)
=============================================================================
