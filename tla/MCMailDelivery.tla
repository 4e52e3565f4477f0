--------------------------- MODULE MCMailDelivery ---------------------------
EXTENDS MailDelivery

CONSTANTS u1, u2, e1, e2, e3, site, shop, foreign

Via(default, changed) == [k \in Senders |-> IF k = "changed" THEN changed ELSE IF k = "sms" /\ default # "none" THEN "gateway" ELSE default]
Deployment(sender, templates, allowed, home, routes, langs, headers, calls, patches, failures) ==
  [sender |-> sender, locale |-> "en", templates |-> templates, allowed |-> allowed, site |-> home, base |-> shop,
   routes |-> routes, langs |-> langs, headers |-> headers, calls |-> calls, patches |-> patches, failures |-> failures]

Bare    == [origin |-> NoSite, referer |-> NoSite]
Known   == [origin |-> site, referer |-> NoSite]
Strange == [origin |-> foreign, referer |-> foreign]

\* Changes of address that overlap and fail; a step-up across one of them; every
\* sending route by mailers, by a webhook and without senders; templates that
\* change under the mails.
MCDeployments ==
  {Deployment(Via("mailer", "mailer"), FALSE, {}, NoSite, {"change", "confirm"}, {"none"}, {Bare}, 3, 0, 1),
   Deployment(Via("webhook", "none"), FALSE, {site}, site, {"reset", "stepup", "change", "confirm"}, {"none"}, {Bare}, 3, 0, 0),
   Deployment(Via("webhook", "mailer"), FALSE, {site}, NoSite, {"reset", "magic", "stepup"}, {"none"}, {Bare, Known, Strange}, 2, 0, 1),
   Deployment(Via("mailer", "none"), TRUE, {site}, site, {"reset", "verify", "sms"}, {"none"}, {Bare, Strange}, 2, 0, 1),
   Deployment(Via("none", "none"), FALSE, {}, NoSite, {"reset", "verify", "magic", "stepup", "sms", "change", "confirm"}, {"none"}, {Bare}, 2, 0, 1),
   Deployment(Via("mailer", "mailer"), TRUE, {}, NoSite, {"verify"}, {"it", "none"}, {Bare}, 2, 2, 1)}
MCFirstEmail == u1 :> e1 @@ u2 :> e2
Symmetric == Permutations(Calls)
=============================================================================
