---------------------------- MODULE MCOnboarding ----------------------------
(* Onboarding of two DTUs, one of which also connects a second time while    *)
(* the server still has its connection.                                      *)
EXTENDS Onboarding, TLC

CONSTANTS d1, d2

Twice == d1 :> 2 @@ d2 :> 1
=============================================================================
