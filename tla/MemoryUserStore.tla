--------------------------- MODULE MemoryUserStore ---------------------------
(***************************************************************************)
(* The user store of the library (memory_store.go): the table of users and *)
(* the indexes by address and by outstanding token.  Every method runs     *)
(* under the store's mutex, so each is one step.                           *)
(*                                                                         *)
(* The table is one function per field of User; users is the set of ids it *)
(* holds, and the fields of an id outside it are empty.  A token and its   *)
(* hash are one value, the empty hash is NoToken.  The five tokens a user  *)
(* can have outstanding are kept by methods of the same shape, so they are *)
(* one family indexed by kind; an SMS code has no index, it is looked up   *)
(* through its user.  One tenant: the store keys every address   *)
(* by tenant, so tenants do not interact.                                  *)
(***************************************************************************)
EXTENDS Integers, FiniteSets

CONSTANTS UserIDs,     \* the ids newID("usr") can mint
          Emails,      \* normalised, non-empty addresses
          Tokens,      \* the tokens and codes randomToken can mint
          Passwords,   \* what a user can choose
          NoID, NoToken

ASSUME NoneAssumption == NoID \notin UserIDs /\ NoToken \notin Tokens

Kinds   == {"reset", "magic", "verify", "change", "sms"}
Indexed == Kinds \ {"sms"}

\* The empty address: no account is registered under it.
Blank     == "blank"
Addresses == Emails \cup {Blank}

\* A stored hash: of a chosen password, empty, or the placeholder a host puts
\* there for an account it is migrating.
Credentials == Passwords \cup {"none", "marker"}

NoExpiry == -1  \* a nil expiry

VARIABLES users, email, password, verified, pending, hash, expiry, byEmail, byToken

fields    == <<email, password, verified, pending>>
storeVars == <<users, fields, hash, expiry, byEmail, byToken>>

StoreTypeOK ==
  /\ users \subseteq UserIDs
  /\ email \in [UserIDs -> Addresses]
  /\ password \in [UserIDs -> Credentials]
  /\ verified \in [UserIDs -> BOOLEAN]
  /\ pending \in [UserIDs -> Addresses]
  /\ hash \in [Kinds -> [UserIDs -> Tokens \cup {NoToken}]]
  /\ expiry \in [Kinds -> [UserIDs -> Int]]
  /\ byEmail \in [Addresses -> UserIDs \cup {NoID}]
  /\ byToken \in [Indexed -> [Tokens -> UserIDs \cup {NoID}]]

StoreInit ==
  /\ users = {}
  /\ email = [u \in UserIDs |-> Blank]
  /\ password = [u \in UserIDs |-> "none"]
  /\ verified = [u \in UserIDs |-> FALSE]
  /\ pending = [u \in UserIDs |-> Blank]
  /\ hash = [k \in Kinds |-> [u \in UserIDs |-> NoToken]]
  /\ expiry = [k \in Kinds |-> [u \in UserIDs |-> NoExpiry]]
  /\ byEmail = [e \in Addresses |-> NoID]
  /\ byToken = [k \in Indexed |-> [t \in Tokens |-> NoID]]

(***************************************************************************)
(* Lookups.  A token leads to a user through its index alone; a code is    *)
(* compared with the one its user holds.                                   *)
(***************************************************************************)
GetUserByEmail(e) == byEmail[e]

GetUserByToken(k, t) ==
  IF k = "sms" THEN {u \in users : hash[k][u] = t}
  ELSE {u \in users : byToken[k][t] = u}

(***************************************************************************)
(* Writes.                                                                 *)
(***************************************************************************)
\* The id is new, so the remaining fields are still empty.
CreateUser(u, e, p, v) ==
  /\ u \notin users
  /\ byEmail[e] = NoID
  /\ users' = users \cup {u}
  /\ email' = [email EXCEPT ![u] = e]
  /\ password' = [password EXCEPT ![u] = p]
  /\ verified' = [verified EXCEPT ![u] = v]
  /\ byEmail' = [byEmail EXCEPT ![e] = u]
  /\ UNCHANGED <<pending, hash, expiry, byToken>>

\* An index without the entry of the token u holds.
Unindexed(k, u) ==
  IF hash[k][u] = NoToken THEN byToken[k]
  ELSE [byToken[k] EXCEPT ![hash[k][u]] = NoID]

\* The record goes as a whole: its fields are empty again.
DeleteUser(u) ==
  /\ u \in users
  /\ users' = users \ {u}
  /\ byEmail' = [byEmail EXCEPT ![email[u]] = NoID]
  /\ byToken' = [k \in Indexed |-> Unindexed(k, u)]
  /\ email' = [email EXCEPT ![u] = Blank]
  /\ password' = [password EXCEPT ![u] = "none"]
  /\ verified' = [verified EXCEPT ![u] = FALSE]
  /\ pending' = [pending EXCEPT ![u] = Blank]
  /\ hash' = [k \in Kinds |-> [hash[k] EXCEPT ![u] = NoToken]]
  /\ expiry' = [k \in Kinds |-> [expiry[k] EXCEPT ![u] = NoExpiry]]

UpdatePassword(u, p) ==
  /\ u \in users
  /\ password' = [password EXCEPT ![u] = p]
  /\ UNCHANGED <<users, email, verified, pending, hash, expiry, byEmail, byToken>>

MarkEmailVerified(u) ==
  /\ u \in users
  /\ verified' = [verified EXCEPT ![u] = TRUE]
  /\ UNCHANGED <<users, email, password, pending, hash, expiry, byEmail, byToken>>

\* Broken variant: the superseded token stays in the index.
UpdateTokenKeepsOld(k, u, t, exp, addr) ==
  /\ u \in users
  /\ hash' = [hash EXCEPT ![k][u] = t]
  /\ expiry' = [expiry EXCEPT ![k][u] = exp]
  /\ byToken' = IF k \in Indexed THEN [byToken EXCEPT ![k][t] = u] ELSE byToken
  /\ pending' = IF k = "change" THEN [pending EXCEPT ![u] = addr] ELSE pending
  /\ UNCHANGED <<users, email, password, verified, byEmail>>

\* UpdateResetToken, UpdateMagicLinkToken, UpdateEmailVerificationToken,
\* UpdateSMSCode and UpdateEmailChangeToken, which also notes the new address.
UpdateToken(k, u, t, exp, addr) ==
  /\ u \in users
  /\ hash' = [hash EXCEPT ![k] = [@ EXCEPT ![u] = t]]
  /\ expiry' = [expiry EXCEPT ![k] = [@ EXCEPT ![u] = exp]]
  /\ byToken' = IF k \in Indexed
                THEN [byToken EXCEPT ![k] = [Unindexed(k, u) EXCEPT ![t] = u]]
                ELSE byToken
  /\ pending' = IF k = "change" THEN [pending EXCEPT ![u] = addr] ELSE pending
  /\ UNCHANGED <<users, email, password, verified, byEmail>>

\* The Clear methods: whatever token of the kind the user holds now goes.
ClearToken(k, u) ==
  /\ u \in users
  /\ hash' = [hash EXCEPT ![k] = [@ EXCEPT ![u] = NoToken]]
  /\ expiry' = [expiry EXCEPT ![k] = [@ EXCEPT ![u] = NoExpiry]]
  /\ byToken' = IF k \in Indexed THEN [byToken EXCEPT ![k] = Unindexed(k, u)] ELSE byToken
  /\ pending' = IF k = "change" THEN [pending EXCEPT ![u] = Blank] ELSE pending
  /\ UNCHANGED <<users, email, password, verified, byEmail>>

\* The address applied is the one pending now, not the one the caller read.
ApplyEmailChange(u) ==
  /\ u \in users
  /\ byEmail[pending[u]] = NoID
  /\ byEmail' = [byEmail EXCEPT ![email[u]] = NoID, ![pending[u]] = u]
  /\ email' = [email EXCEPT ![u] = pending[u]]
  /\ pending' = [pending EXCEPT ![u] = Blank]
  /\ UNCHANGED <<users, password, verified, hash, expiry, byToken>>

=============================================================================
