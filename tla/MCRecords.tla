----------------------------- MODULE MCRecords -----------------------------
(* Requests are interchangeable, and so are keys without a row at first:   *)
(* no formula tells them apart.                                            *)
EXTENDS Records, TLC

Interchangeable == Permutations(Requests) \cup Permutations(Keys \ Existing)
=============================================================================
