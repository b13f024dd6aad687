-------------------------- MODULE MCCertAuthority --------------------------
(* Small instances of CertAuthority for TLC. *)
EXTENDS CertAuthority, TLC

CONSTANTS p1, p2, t1, t2, t3, c1, c2, k1, k2

TwoProcs == {p1, p2}
ThreeThreads == {t1, t2, t3}
TwoOfOne == t1 :> p1 @@ t2 :> p1 @@ t3 :> p2
TwoCerts == {c1, c2}
TwoKeys == {k1, k2}

\* The two threads of p1 can be exchanged, and so can the paths of each part.
Symmetry ==
    Permutations({t1, t2}) \cup Permutations(CertPaths) \cup Permutations(KeyPaths)
=============================================================================
