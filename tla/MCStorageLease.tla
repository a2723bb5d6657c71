---------------------------- MODULE MCStorageLease ----------------------------
(* Small instances of the storage lease. *)
EXTENDS StorageLease, TLC

CONSTANTS s1, a1, x1, w1, d1, p1, p2

\* Readers and writers of one process, a deleter of another.
Home == s1 :> p1 @@ a1 :> p1 @@ w1 :> p1 @@ x1 :> p1 @@ d1 :> p2

\* One process.
OneHome == s1 :> p1 @@ a1 :> p1 @@ w1 :> p1 @@ x1 :> p1

\* One reader and one writer of one process.
Pair == a1 :> p1 @@ w1 :> p1
=============================================================================
