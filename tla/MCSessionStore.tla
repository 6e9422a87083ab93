--------------------------- MODULE MCSessionStore ---------------------------
(* SessionStore with two sessions of one key and one of another, each key used *)
(* in one directory.                                                          *)
EXTENDS SessionStoreProofs, TLC

CONSTANTS s1, s2, s3

MCScopeOf == [s \in {s1, s2, s3} |-> IF s = s3 THEN "other" ELSE "one"]
Alike == Permutations({s1, s2})
=============================================================================
