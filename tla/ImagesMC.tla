------------------------------- MODULE ImagesMC -------------------------------
(***************************************************************************)
(* An instance of Images for TLC: two programs after a file that does not  *)
(* exist, a program after a malformed one.                                 *)
(***************************************************************************)
EXTENDS Images, TLC

TwoLines == {<<"missing", "good", "good">>, <<"malformed", "good">>}
=============================================================================
