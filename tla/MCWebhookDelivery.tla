------------------------- MODULE MCWebhookDelivery -------------------------
EXTENDS WebhookDelivery

CONSTANTS t1, s1, s2

\* A subscription of a tenant that is retried once and has a script, and a
\* global one whose retries are negative.
Subscription ==
  [URL |-> "u", Events |-> {"login"}, Secret |-> s1, IsActive |-> Unset, TenantID |-> t1,
   MaxRetries |-> 1, RetryDelay |-> Unset, Provider |-> "stripe",
   AllowedActions |-> {"notify"}, JSScript |-> TRUE]
Negative ==
  [URL |-> "v", Events |-> {"*"}, Secret |-> Unset, IsActive |-> TRUE, TenantID |-> Unset,
   MaxRetries |-> -1, RetryDelay |-> 0, Provider |-> Unset,
   AllowedActions |-> {}, JSScript |-> FALSE]

MCConfigs   == {Subscription, Negative}
MCPatches   == {[Secret |-> s2], [IsActive |-> FALSE]}
MCOutEvents == {[Name |-> "login", TenantID |-> t1], [Name |-> "login", TenantID |-> Unset]}
MCSetups    ==
  {[emitter |-> TRUE,  runner |-> FALSE, hook |-> FALSE, store |-> FALSE],
   [emitter |-> FALSE, runner |-> TRUE,  hook |-> TRUE,  store |-> TRUE],
   [emitter |-> FALSE, runner |-> FALSE, hook |-> FALSE, store |-> TRUE],
   [emitter |-> FALSE, runner |-> TRUE,  hook |-> TRUE,  store |-> FALSE]}
=============================================================================
