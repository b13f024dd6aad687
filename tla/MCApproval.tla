----------------------------- MODULE MCApproval -----------------------------
(* A small instance of Approval for TLC. *)
EXTENDS Approval

CONSTANTS r1, c1, c2, c3

OneRequest == {r1}
ThreeCalls == {c1, c2, c3}
=============================================================================
