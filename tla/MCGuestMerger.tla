---------------------------- MODULE MCGuestMerger -----------------------------
EXTENDS GuestMerger

CONSTANTS o1, o2

TwoOwners == {o1, o2}
OneId == {1}
=============================================================================
