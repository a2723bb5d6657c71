------------------------------ MODULE MCBulkRead ------------------------------
(* BulkRead with one or two successive clients of the slot. *)
EXTENDS BulkRead

CONSTANTS o1, o2

OneOwner == {o1}
TwoOwners == {o1, o2}
OneRead == {Read}
=============================================================================
