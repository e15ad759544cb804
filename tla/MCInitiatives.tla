---------------------------- MODULE MCInitiatives ----------------------------
(* An instance of Initiatives for TLC.                                     *)
EXTENDS Initiatives, TLC

CONSTANTS r1, r2, d1

(* Two roots and an item that waits for both.                              *)
JoinDependsOn == (r1 :> {}) @@ (r2 :> {}) @@ (d1 :> {r1, r2})
==============================================================================
