---------------------------- MODULE AccountTurns ----------------------------
(***************************************************************************)
(* AccountService with the kind of callers it has, chosen at the start.    *)
(* Some promises of the service are only kept to callers that take turns:  *)
(* a request is only under way while no other is.  This module states      *)
(* them.  The other two populations may overlap; MCAccountService gives    *)
(* each of them the bounds its name says.                                  *)
(***************************************************************************)
EXTENDS AccountService

VARIABLE callers

Busy == {r \in Requests : ~At(r, "idle")}
TakingTurns == \A q, r \in Busy : q = r

TurnsInit == Init /\ callers \in {"one account", "changes of address", "in turns"}
TurnsNext == Next /\ (callers = "in turns" => TakingTurns') /\ UNCHANGED callers
TurnsSpec == TurnsInit /\ [][TurnsNext]_<<vars, callers>>

\* For callers that take turns an account only moves to an address, and is only
\* verified at one, whose own token was presented, and a token is single-use
\* (service.go, RequestEmailChange to ConfirmEmailChange, VerifyEmail).
ProvenInTurns ==
  callers = "in turns" => ChangedAddressIsProven /\ VerifiedIsProven /\ TokenSingleUse

\* For callers that take turns a password the user has chosen is never replaced
\* without the current one or a token (service.go ChangePassword,
\* password_verifier.go).
ChosenPasswordSurvives ==
  [][callers = "in turns" => KeepsChosenPassword]_<<vars, callers>>

=============================================================================
