-------------------------- MODULE MCAccountService --------------------------
(***************************************************************************)
(* AccountTurns for TLC: every token lives for the same time, and the sets *)
(* are model values, interchangeable within each set.  One run asks three  *)
(* questions, each of a population of callers: overlapping calls of every  *)
(* kind on one account, overlapping changes of address on two, and callers *)
(* of every kind that take turns.                                          *)
(***************************************************************************)
EXTENDS AccountTurns, FiniteSets, TLC

AllKinds == Kinds
EqualTTL == [k \in Kinds |-> 0]

Created == {u \in UserIDs : ~Fresh(u)}
OnlyLegacyPasswords == \A u \in UserIDs : password[u] \notin Passwords \ {LegacyPassword}

\* A second account is only needed where addresses are competed for, and a
\* second password only where calls take turns.
OneAccount == Cardinality(Created) <= 1
OnlyAddresses == \A r \in Busy : call[r].kind = "change" \/ At(r, "create")

Bounds(c) ==
  CASE c = "one account" -> OneAccount' /\ OnlyLegacyPasswords'
    [] c = "changes of address" -> OnlyAddresses' /\ OnlyLegacyPasswords'
    [] c = "in turns" -> OneAccount' \/ (OnlyAddresses' /\ OnlyLegacyPasswords')

MCNext == TurnsNext /\ Bounds(callers)
MCSpec == TurnsInit /\ [][MCNext]_<<vars, callers>>

Symmetric == Permutations(UserIDs) \cup Permutations(Emails)
               \cup Permutations(Tokens) \cup Permutations(Requests)

=============================================================================
