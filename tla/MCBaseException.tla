---------------------------- MODULE MCBaseException ----------------------------
(* Instances of BaseException for TLC: two rules, of which one is blocking. *)
EXTENDS BaseException

CONSTANTS soft, hard

Rules == {soft, hard}
Hard == {hard}
==============================================================================
