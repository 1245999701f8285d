--------------------------- MODULE MCSecureStorage ---------------------------
(* Instances of SecureStorage for TLC. *)
EXTENDS SecureStorage, TLC

CONSTANTS t1, t2, n1, n2, v1, v2

MCThreads == {t1, t2}
MCNames == {n1, n2}
MCValues == {v1, v2}

\* Threads and values are interchangeable in the safety properties.
Symmetry == Permutations(MCThreads) \cup Permutations(MCValues)
=============================================================================
