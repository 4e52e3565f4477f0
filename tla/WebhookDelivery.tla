--------------------------- MODULE WebhookDelivery ---------------------------
(***************************************************************************)
(* Webhooks both ways.  Out: WebhookEmitter.Emit looks the subscriptions   *)
(* up and starts one goroutine per configuration, which posts, waits and   *)
(* retries on its own (webhook_sender.go).  In: POST <tools>/webhook/      *)
(* {provider} finds a configuration, runs its script and tracks what it    *)
(* declares (tools_webhook.go).  Both work on a copy of the configuration  *)
(* while an administrator changes the store.                               *)
(*                                                                         *)
(* The network may lose a request, lose its answer, or deliver a request   *)
(* after the sender has given up on it.                                    *)
(*                                                                         *)
(* Left out: headers and JSON, the body-size limit (a request is refused   *)
(* or not), the cancellation of a delivery (Emit detaches its context).    *)
(***************************************************************************)
EXTENDS MemoryWebhookStore

CONSTANTS OutEvents,  \* [Name, TenantID] of the events emitted
          Setups,     \* [emitter, runner, hook, store] a host may configure
          InboundRequests,  \* the goroutines of inbound requests
          MaxEmits,   \* bound: calls of Emit
          MaxEdits,   \* bound: changes of configurations and settings
          Ceiling     \* the longest delay: 2^62, a quarter of the values of a time.Duration

ASSUME DeliveryAssumption ==
  /\ Setups \subseteq [emitter : BOOLEAN, runner : BOOLEAN, hook : BOOLEAN, store : BOOLEAN]
  /\ MaxEmits \in Nat /\ MaxEdits \in Nat /\ Ceiling \in Nat \ {0}

VARIABLES
  jobs,       \* the goroutines Emit started: configuration, event, progress
  wire,       \* posts on their way
  received,   \* posts the endpoints have handled
  emits,      \* calls of Emit made
  tools,      \* [emitter, runner, hook, store]: what the host configured
  enabled,    \* settings.EnabledWebhookActions
  inbound,    \* inbound[r]: the state of request r
  tracked,    \* requests whose result was handed to Track
  edits,      \* changes the administrator has made
  enabledFor  \* ghost: enabledFor[r], actions enabled at some time during r

outVars == <<jobs, wire, received, emits>>
inVars  == <<tools, enabled, inbound, tracked, edits, enabledFor>>
deliveryVars == <<hookVars, outVars, inVars>>

(***************************************************************************)
(* The delay.                                                              *)
(***************************************************************************)
Wrap(n) == LET m == n % (4 * Ceiling)
           IN IF m >= 2 * Ceiling THEN m - 4 * Ceiling ELSE m

Doublings(base, attempt) ==
  LET d[i \in 0..attempt] ==
        IF i = 0 THEN base
        ELSE IF d[i - 1] > Ceiling \div 2 THEN Ceiling ELSE Wrap(2 * d[i - 1])
  IN d

WebhookBackoff(base, attempt) == IF base <= 0 THEN 0 ELSE Doublings(base, attempt)[attempt]

(***************************************************************************)
(* A delivery.                                                             *)
(***************************************************************************)
Ended        == {"delivered", "gaveup", "skipped", "failed"}
\* newUUIDv4: a value no other call returns, named after the call.
DeliveryID(j, attempt) == <<j, attempt>>

SignBody(secret, body) == IF secret = Unset THEN Unset ELSE <<secret, body>>

Post(j, uuid) == [job |-> j, attempt |-> jobs[j].attempt, uuid |-> uuid, body |-> jobs[j].ev,
                  url |-> jobs[j].cfg.URL, sig |-> SignBody(jobs[j].cfg.Secret, jobs[j].ev)]

Go(j, st)  == jobs' = [jobs EXCEPT ![j].st = st]
NewJob(id, ev) == [id |-> id, cfg |-> byID[id], ev |-> ev, attempt |-> 0, wait |-> 0, st |-> "send"]

OutInit ==
  /\ jobs = <<>> /\ wire = {} /\ received = {}
  /\ emits = 0

\* The lookup is made on the caller's goroutine; a store that fails, or that
\* was not configured, has no subscriptions.  The deliveries share the event and nothing else.
Emit == \E ev \in OutEvents :
  /\ emits < MaxEmits
  /\ emits' = emits + 1
  /\ \/ tools.emitter /\ LET ids == FindByEvent(ev.Name, ev.TenantID)
        IN jobs' = jobs \o [i \in DOMAIN ids |-> NewJob(ids[i], ev)]
     \/ UNCHANGED jobs
  /\ UNCHANGED <<hookVars, inVars, wire, received>>

\* Broken variant: the configuration is read again for every attempt.
SendRereads(j) ==
  /\ jobs[j].st = "send" /\ jobs[j].attempt <= Retries(jobs[j].cfg)
  /\ wire' = wire \cup {IF jobs[j].id \in DOMAIN byID
                        THEN [Post(j, DeliveryID(j, jobs[j].attempt)) EXCEPT
                                !.sig = SignBody(byID[jobs[j].id].Secret, jobs[j].ev)]
                        ELSE Post(j, DeliveryID(j, jobs[j].attempt))}
  /\ Go(j, "posted")
  /\ UNCHANGED <<hookVars, inVars, received, emits>>

\* One turn of Send's loop, up to the request: a fresh id for every attempt.
Send(j) ==
  /\ jobs[j].st = "send" /\ jobs[j].attempt <= Retries(jobs[j].cfg)
  /\ wire' = wire \cup {Post(j, DeliveryID(j, jobs[j].attempt))}
  /\ Go(j, "posted")
  /\ UNCHANGED <<hookVars, inVars, received, emits>>

\* newUUIDv4 fails: the delivery ends.
SendNoID(j) ==
  /\ jobs[j].st = "send" /\ jobs[j].attempt <= Retries(jobs[j].cfg)
  /\ Go(j, "failed")
  /\ UNCHANGED <<hookVars, inVars, wire, received, emits>>

\* A negative number of retries: the loop is not entered, nothing has failed.
SendNothing(j) ==
  /\ jobs[j].st = "send" /\ jobs[j].attempt > Retries(jobs[j].cfg)
  /\ Go(j, "skipped")
  /\ UNCHANGED <<hookVars, inVars, wire, received, emits>>

\* The endpoint has answered the attempt with a 2xx.
SendAnswered(j) ==
  /\ jobs[j].st = "posted"
  /\ \E p \in received : p.job = j /\ p.attempt = jobs[j].attempt
  /\ Go(j, "delivered")
  /\ UNCHANGED <<hookVars, inVars, wire, received, emits>>

\* Broken variant: the count of attempts is not advanced.
SendFailedForgets(j) ==
  /\ jobs[j].st = "posted"
  /\ IF jobs[j].attempt >= Retries(jobs[j].cfg)
     THEN Go(j, "gaveup")
     ELSE jobs' = [jobs EXCEPT ![j].st = "sleep"]
  /\ UNCHANGED <<hookVars, inVars, wire, received, emits>>

\* Any other end of the request: refused, timed out, answered with an error, or
\* answered and the answer lost.  No wait follows the last attempt.
SendFailed(j) ==
  /\ jobs[j].st = "posted"
  /\ IF jobs[j].attempt >= Retries(jobs[j].cfg)
     THEN Go(j, "gaveup")
     ELSE jobs' = [jobs EXCEPT ![j].st = "sleep", ![j].attempt = @ + 1,
                     ![j].wait = WebhookBackoff(RetryDelay(jobs[j].cfg), jobs[j].attempt)]
  /\ UNCHANGED <<hookVars, inVars, wire, received, emits>>

\* webhookSleep: the timer fires.
SendWake(j) ==
  /\ jobs[j].st = "sleep"
  /\ Go(j, "send")
  /\ UNCHANGED <<hookVars, inVars, wire, received, emits>>

\* The endpoint handles a post, in whatever order and however late.
EndpointReceives == \E p \in wire :
  /\ wire' = wire \ {p}
  /\ received' = received \cup {p}
  /\ UNCHANGED <<hookVars, inVars, jobs, emits>>

NetworkLoses == \E p \in wire :
  /\ wire' = wire \ {p}
  /\ UNCHANGED <<hookVars, inVars, jobs, received, emits>>

(***************************************************************************)
(* The inbound route.                                                      *)
(***************************************************************************)
NoRequest == [st |-> "idle", provider |-> Unset, cfg |-> Unset, actions |-> {},
              ran |-> FALSE]

HasScript(c) == c # Unset /\ c.JSScript

ResolveInboundActions(on, allowed) == on \cap allowed

ToolsInboundMounted == tools.hook \/ tools.store

InInit ==
  /\ tools \in Setups
  /\ enabled = {}
  /\ inbound = [r \in InboundRequests |-> NoRequest]
  /\ tracked = {}
  /\ edits = 0
  /\ enabledFor = [r \in InboundRequests |-> {}]

Step(r, req) ==
  /\ inbound' = [inbound EXCEPT ![r] = req]
  /\ UNCHANGED <<hookVars, outVars, tools, enabled, tracked, edits, enabledFor>>
Stands(r, st) == inbound[r].st = st
To(r, st) == [inbound[r] EXCEPT !.st = st]

\* The body is read before anything is looked up; one that is too long or not
\* JSON is refused.
InboundBegin(r) == \E provider \in Providers \cup {Unset} :
  /\ ToolsInboundMounted
  /\ Stands(r, "idle")
  /\ inbound' = [inbound EXCEPT ![r].provider = provider,
                   ![r].st = IF provider = Unset THEN "refused" ELSE "find"]
  /\ enabledFor' = [enabledFor EXCEPT ![r] = enabled]
  /\ UNCHANGED <<hookVars, outVars, tools, enabled, tracked, edits>>

InboundBadBody(r) == Stands(r, "find") /\ Step(r, To(r, "refused"))

InboundFind(r) ==
  /\ Stands(r, "find")
  /\ LET c == IF tools.store THEN FindByProvider(inbound[r].provider) ELSE Unset
     IN Step(r, [inbound[r] EXCEPT !.cfg = c, !.st = IF HasScript(c) THEN "settings" ELSE "hook"])

InboundFindFails(r) == Stands(r, "find") /\ tools.store /\ Step(r, To(r, "refused"))

\* Broken variant: without a runner the webhook is acknowledged.
InboundSettingsAcks(r) ==
  /\ Stands(r, "settings")
  /\ \E on \in {enabled, {}} :
       Step(r, [inbound[r] EXCEPT !.actions = ResolveInboundActions(on, inbound[r].cfg.AllowedActions),
                                  !.st = IF tools.runner THEN "run" ELSE "hook"])

\* The settings are read, or cannot be, which leaves no action at all; then a
\* host without a runner refuses.
InboundSettings(r) ==
  /\ Stands(r, "settings")
  /\ \E on \in {enabled, {}} :
       Step(r, [inbound[r] EXCEPT !.actions = ResolveInboundActions(on, inbound[r].cfg.AllowedActions),
                                  !.st = IF tools.runner THEN "run" ELSE "refused"])

\* The script runs under a timeout of its own, out of process.
InboundRun(r) ==
  /\ Stands(r, "run")
  /\ \/ Step(r, To(r, "refused"))
     \/ Step(r, [To(r, "track") EXCEPT !.ran = TRUE])
     \/ Step(r, [To(r, "hook") EXCEPT !.ran = TRUE])

\* OnWebhook, when there is no script or it declared nothing.
InboundHook(r) ==
  /\ Stands(r, "hook")
  /\ IF tools.hook THEN \E st \in {"refused", "track", "ok"} : Step(r, To(r, st))
     ELSE Step(r, To(r, "ok"))

\* AuthTools.Track, then the answer.
InboundTrack(r) ==
  /\ Stands(r, "track")
  /\ inbound' = [inbound EXCEPT ![r].st = "ok"]
  /\ tracked' = tracked \cup {r}
  /\ UNCHANGED <<hookVars, outVars, tools, enabled, edits, enabledFor>>

InboundStep(r) ==
  InboundFind(r) \/ InboundSettings(r) \/ InboundRun(r) \/ InboundHook(r) \/ InboundTrack(r)

(***************************************************************************)
(* The administrator, who changes both under them.                         *)
(***************************************************************************)
Edit == edits < MaxEdits /\ edits' = edits + 1

AdminAdd == \E c \in Configs : AddWebhook(c) /\ UNCHANGED <<outVars, inVars>>

AdminEdit == \E id \in DOMAIN byID :
  /\ Edit
  /\ RemoveWebhook(id) \/ \E p \in Patches : UpdateWebhook(id, p)
  /\ UNCHANGED <<outVars, tools, enabled, inbound, tracked, enabledFor>>

SetEnabled == \E on \in SUBSET ActionIDs :
  /\ Edit
  /\ enabled' = on
  /\ enabledFor' = [r \in InboundRequests |-> enabledFor[r] \cup on]
  /\ UNCHANGED <<hookVars, outVars, tools, inbound, tracked>>

DeliveryTypeOK ==
  /\ \A id \in DOMAIN byID :
       /\ id \in 1..lastHook
       /\ DOMAIN byID[id] = ConfigFields
       /\ byID[id].Events \subseteq Names \cup {WebhookEventWildcard}
  /\ \A j \in DOMAIN jobs :
       /\ jobs[j].st \in Ended \cup {"send", "posted", "sleep"}
       /\ jobs[j].attempt \in Nat /\ jobs[j].wait \in Nat
       /\ jobs[j].ev \in OutEvents
  /\ \A p \in wire \cup received : p.job \in DOMAIN jobs
  /\ enabled \subseteq ActionIDs
  /\ \A r \in InboundRequests : inbound[r].st \in {"idle", "find", "settings", "run", "hook", "track", "ok", "refused"}
  /\ tracked \subseteq InboundRequests

DeliveryInit == HookInit /\ OutInit /\ InInit

SenderStep(j) ==
  Send(j) \/ SendNothing(j) \/ SendAnswered(j) \/ SendFailed(j) \/ SendWake(j)

DeliveryNext ==
  \/ Emit \/ EndpointReceives \/ NetworkLoses
  \/ \E j \in DOMAIN jobs : SenderStep(j) \/ SendNoID(j)
  \/ \E r \in InboundRequests : InboundBegin(r) \/ InboundBadBody(r) \/ InboundFindFails(r) \/ InboundStep(r)
  \/ AdminAdd \/ AdminEdit \/ SetEnabled

DeliverySpec == DeliveryInit /\ [][DeliveryNext]_deliveryVars

\* Goroutines run, timers fire, and a request ends: both the deliverer's client
\* and the script runner have a timeout.
Jobs     == 1..(MaxEmits * MaxHooks)
Fairness ==
  /\ \A j \in Jobs : WF_deliveryVars(j \in DOMAIN jobs /\ SenderStep(j))
  /\ \A r \in InboundRequests : WF_deliveryVars(InboundStep(r))
DeliveryFairSpec == DeliverySpec /\ Fairness

(***************************************************************************)
(* Properties.                                                             *)
(***************************************************************************)

\* The delay starts as configured, doubles exactly until it reaches its ceiling
\* and stays there: it never wraps to a negative one, and no delivery waits
\* longer, unless its first delay is configured so.
BackoffExact ==
  /\ \A base \in 1..Ceiling :
       /\ WebhookBackoff(base, 0) = base
       /\ \A attempt \in 0..Ceiling :
            LET twice == 2 * WebhookBackoff(base, attempt)
            IN WebhookBackoff(base, attempt + 1) = IF twice <= Ceiling THEN twice ELSE Ceiling
  /\ \A j \in DOMAIN jobs : jobs[j].wait <= Ceiling \/ jobs[j].wait = RetryDelay(jobs[j].cfg)

\* An endpoint sees each delivery id once: a retry is a new delivery to it, and
\* it never sees more of them than the configuration allows.
AttemptsDistinct ==
  /\ \A p, q \in received : p.uuid = q.uuid => p = q
  /\ \A j \in DOMAIN jobs :
       Cardinality({p \in wire \cup received : p.job = j}) <=
         IF Retries(jobs[j].cfg) < 0 THEN 0 ELSE Retries(jobs[j].cfg) + 1

\* A delivery is reported as made only if an endpoint handled one of its
\* posts, and given up only after the last attempt.
OutcomeIsTrue == \A j \in DOMAIN jobs :
  /\ jobs[j].st = "delivered" => \E p \in received : p.job = j
  /\ jobs[j].st = "gaveup" => jobs[j].attempt = Retries(jobs[j].cfg)
  /\ jobs[j].st = "skipped" => Retries(jobs[j].cfg) < 0

\* All the attempts of a delivery go to one address with one body and one
\* signature, even when the secret is changed between two of them.
AttemptsIdentical == \A p, q \in wire \cup received :
  p.job = q.job => p.url = q.url /\ p.body = q.body /\ p.sig = q.sig

\* What the receiving end and the operator are told of a delivery is true, and
\* the delay between its attempts is the one configured (Send, webhookBackoff).
AttemptsAreTrue == BackoffExact /\ AttemptsDistinct /\ OutcomeIsTrue /\ AttemptsIdentical

\* A script is given no action that its configuration does not list, or that
\* was disabled for the whole of the request: a settings store that is down or
\* empty closes the list.
ScriptActionsAllowed == \A r \in InboundRequests :
  Stands(r, "run") => inbound[r].actions \subseteq inbound[r].cfg.AllowedActions \cap enabledFor[r]

\* A provider is told "ok" only if the script configured for it ran: one that
\* could not run is refused, never acknowledged and dropped.
AckMeansRan == \A r \in InboundRequests :
  (inbound[r].st \in {"ok", "track"} /\ HasScript(inbound[r].cfg)) => inbound[r].ran

\* An inbound webhook does what its configuration and the settings allow and is
\* acknowledged only when it has been done, though both change while it runs.
InboundIsHonest == ScriptActionsAllowed /\ AckMeansRan

\* The state has its type, both halves of the store agree and its pages show
\* each configuration once.
HooksConsistent == DeliveryTypeOK /\ OrderMatchesIndex /\ PagesCover

\* Every delivery ends, and so does every inbound request.
DeliveryEnds ==
  /\ \A j \in Jobs : j \in DOMAIN jobs ~> (j \in DOMAIN jobs /\ jobs[j].st \in Ended)
  /\ \A r \in InboundRequests : ~Stands(r, "idle") ~> inbound[r].st \in {"ok", "refused"}
=============================================================================
