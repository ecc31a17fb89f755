----------------------------- MODULE MCConsent ------------------------------
EXTENDS Consent, TLC

\* Calls differ only in their names, and so do addresses.
Symmetry == Permutations(Call) \cup Permutations(Address)
=============================================================================
