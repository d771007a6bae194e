----------------------------- MODULE MCAccounts -----------------------------
(* Small instances of Accounts for TLC.                                    *)
EXTENDS Accounts, TLC

\* Subjects, sessions, challenges and logins are interchangeable ids.
Symmetry == Permutations(Account) \cup Permutations(Session) \cup
            Permutations(Challenge) \cup Permutations(Login)
=============================================================================
