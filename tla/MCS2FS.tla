------------------------------- MODULE MCS2FS -------------------------------
(* Instances of S2FS for TLC.                                              *)
EXTENDS S2FS

ShortOrLong == [v \in Versions |-> IF v = 0 THEN 2 ELSE 3]
OneLength == [v \in Versions |-> 1]
=============================================================================
