-------------------------- MODULE MCEnvelopeStore --------------------------
(* Small instances of EnvelopeStore for TLC. *)
EXTENDS EnvelopeStore

CONSTANTS c1, c2, k1, k2, a, b

TwoCallers == {c1, c2}
TwoKeys == {k1, k2}
TwoTexts == {a, b}
Envelopes == Envelope

Symmetry == Permutations(Callers) \cup Permutations(Keys) \cup Permutations(Texts)
=============================================================================
