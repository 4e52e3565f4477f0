----------------------------- MODULE MCAuthTools -----------------------------
EXTENDS AuthTools

CONSTANTS u1, t1, t2

MCTopics     == AllTopics
MCPrincipals == {<<u1, t1>>}
MCRequested  == {{Global, UserOf(u1), TenantOf(t2)}}
Ev(u, t, ok) == [Name |-> "login", UserID |-> u, TenantID |-> t, encodes |-> ok]
MCEvents     == {Ev(u1, NoTenant, TRUE), Ev(NoUser, t2, TRUE)}
MCNotices    == {<<UserOf(u1), Ev(u1, t1, FALSE)>>}
=============================================================================
