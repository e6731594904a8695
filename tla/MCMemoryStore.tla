--------------------------- MODULE MCMemoryStore ---------------------------
(* An instance of MemoryStore: one key in two spellings, and a blank one. *)
EXTENDS MemoryStore, TLC

CONSTANTS k1, padded, blank

TwoSpellings == k1 :> k1 @@ padded :> k1 @@ blank :> None
LifeSpans == {-1, 1}
=============================================================================
