--------------------------- MODULE TokenRotation ---------------------------
(***************************************************************************)
(* What refresh-token rotation promises, without saying how: a session has *)
(* at most one live token, a token goes live at most once, for one         *)
(* session, and is dead for good once it is replaced or its session ends.  *)
(***************************************************************************)
CONSTANTS SessionIDs, Grants, NoGrant

VARIABLES live,  \* live[s]: the token that opens session s, or NoGrant
          used   \* the tokens that have ever been live

Init ==
  /\ live = [s \in SessionIDs |-> NoGrant]
  /\ used = {}

\* Session s is opened, rotated or reopened with a token never seen before.
Issue(s, g) ==
  /\ g \in Grants \ used
  /\ live' = [live EXCEPT ![s] = g]
  /\ used' = used \cup {g}

\* The sessions in S end; their tokens are dead.
Kill(S) ==
  /\ live' = [s \in SessionIDs |-> IF s \in S THEN NoGrant ELSE live[s]]
  /\ UNCHANGED used

Next ==
  \/ \E s \in SessionIDs, g \in Grants : Issue(s, g)
  \/ \E S \in SUBSET SessionIDs : Kill(S)

Spec == Init /\ [][Next]_<<live, used>>

=============================================================================
