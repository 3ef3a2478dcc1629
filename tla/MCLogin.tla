------------------------------ MODULE MCLogin -------------------------------
(* Small instances of Login for TLC.                                       *)
EXTENDS Login

CONSTANTS anna, ben, carl, key1, key2

MCNames == {anna, ben, carl}
MCUsers == {anna, ben}          \* carl is not in username_list
MCEnrolled == {anna}            \* the server has no public key of ben's
MCEphemeral == {key1, key2}
=============================================================================
