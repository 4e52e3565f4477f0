--------------------------- MODULE MCOAuthLogin ---------------------------
EXTENDS OAuthLogin, TLC

CONSTANTS u1, u2, t1, t2, e1

\* Two tenants hold an account of the same address; one provider vouches for
\* that address, the other reports an identity without one.
MCAccounts == {[id |-> u1, email |-> e1, tenant |-> t1], [id |-> u2, email |-> e1, tenant |-> t2]}
MCProfiles ==
  {[Provider |-> "google", ProviderID |-> "g", Email |-> e1, EmailVerified |-> TRUE, domainOK |-> TRUE],
   [Provider |-> "github", ProviderID |-> "h", Email |-> NoEmail, EmailVerified |-> Unset, domainOK |-> FALSE]}
Policy(match, strict, domains) ==
  [AutoCreate |-> TRUE, RequireVerifiedEmail |-> strict, AllowedEmailDomains |-> domains, OnEmailMatch |-> match]
MCSetups   == {<<Policy("link", FALSE, FALSE), TRUE>>, <<Policy("conflict", TRUE, FALSE), TRUE>>,
               <<Policy("link", FALSE, TRUE), FALSE>>, <<Policy("reject", FALSE, FALSE), FALSE>>}
Symmetric  == Permutations(Requests)
=============================================================================
