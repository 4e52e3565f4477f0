-------------------------- MODULE MCSessionService --------------------------
(***************************************************************************)
(* SessionTurns for TLC: the sets are model values, interchangeable within *)
(* each set.                                                               *)
(***************************************************************************)
EXTENDS SessionTurns, TLC

Symmetric == Permutations(SessionIDs) \cup Permutations(Grants)
               \cup Permutations(Users) \cup Permutations(Requests)

=============================================================================
