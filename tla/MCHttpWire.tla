---------------------------- MODULE MCHttpWire ----------------------------
EXTENDS HttpWire, TLC

Deployment(variant, scope, csrf, nested, rs, all, pages, slots, requests, changes) ==
  [variant |-> variant, scope |-> scope, csrf |-> csrf, nested |-> nested, resourceServer |-> rs, allCalls |-> all,
   pages |-> pages, slots |-> slots, requests |-> requests, changes |-> changes]

\* Overlapping requests under stable names; names and scopes that change between
\* requests served in turn; a mount below a group of the prefix's name; a bearer client
\* beside the browser; a resource server.
MCDeployments ==
  {Deployment("host", "root", TRUE, FALSE, FALSE, TRUE, {"own", "other"}, 2, 3, 0),
   Deployment("secure", "domain", TRUE, TRUE, FALSE, FALSE, {"own", "other"}, 1, 3, 0),
   Deployment("plain", "root", FALSE, FALSE, FALSE, TRUE, {"own"}, 1, 3, 2),
   Deployment("secure", "domain", FALSE, FALSE, FALSE, TRUE, {"own"}, 1, 3, 2),
   Deployment("host", "root", TRUE, FALSE, FALSE, TRUE, {"own", "app"}, 1, 3, 0),
   Deployment("host", "root", TRUE, TRUE, TRUE, TRUE, {"own", "other"}, 1, 3, 0)}
Symmetric == Permutations(Tabs)
=============================================================================
