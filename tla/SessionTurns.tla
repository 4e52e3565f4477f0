---------------------------- MODULE SessionTurns ----------------------------
(***************************************************************************)
(* SessionService with a history variable that remembers whether two calls *)
(* have ever been under way at once.  Three promises of the service do not *)
(* survive a race (MCSessionRevocationLost.cfg shows it of one); they are  *)
(* stated here for callers that take turns.                                *)
(***************************************************************************)
EXTENDS SessionService

VARIABLE overlapped

\* Two calls are under way, or one that takes a single step ran beside another.
Busy == {r \in Requests : ~At(r, "idle")}
Overlap == \/ \E q, r \in Busy' : q # r
           \/ Busy # {} /\ call' = call /\ byID' # byID

TurnsInit == Init /\ overlapped = FALSE
TurnsNext == Next /\ overlapped' = (overlapped \/ Overlap)
TurnsSpec == TurnsInit /\ [][TurnsNext]_<<vars, overlapped>>

\* For callers that take turns a refresh token is single-use, a revocation is
\* final, and no session outlives its user: DeleteAccount revokes first and
\* removes the identity last (service.go, Refresh, Logout, DeleteAccount).
SafeInTurns ==
  ~overlapped => /\ RefreshTokenSingleUse
                 /\ RevocationIsFinal
                 /\ DeletedUserHasNoLiveSession

=============================================================================
