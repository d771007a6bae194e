------------------------- MODULE MCProviderAttempts -------------------------
(* Symmetry for ProviderAttempts: its rows, callers and emails are alike,  *)
(* and its two identities are of two providers.                            *)
EXTENDS ProviderAttempts, TLC

Symmetry == Permutations(Attempt) \cup Permutations(Callback) \cup Permutations(Exchange)
              \cup Permutations(Email)
=============================================================================
