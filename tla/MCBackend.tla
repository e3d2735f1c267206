------------------------------ MODULE MCBackend ------------------------------
(* Backend for TLC: the requests, emails, names and codes of Accounts are     *)
(* interchangeable.                                                           *)
EXTENDS Backend, TLC

Symmetry ==
    Permutations(Reqs) \cup Permutations(Emails) \cup Permutations(Names) \cup Permutations(Codes)

=============================================================================
