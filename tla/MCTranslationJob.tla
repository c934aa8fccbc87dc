---------------------------- MODULE MCTranslationJob ----------------------------
(* Two chunks and two texts; clients, promoters and the chunks are             *)
(* interchangeable.                                                            *)
EXTENDS TranslationJob, TLC

CONSTANTS a, b, g, k1, k2, t1, t2

Symmetry == Permutations(Clients) \cup Permutations(Chunks)
=============================================================================
