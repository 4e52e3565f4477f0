------------------------- MODULE MemoryWebhookStore -------------------------
(***************************************************************************)
(* The webhook subscriptions of webhook_store.go: byID, the configurations *)
(* by identifier, and order, the order they were added in.  Every method   *)
(* holds the store's mutex, so each is one step.  A configuration keeps    *)
(* what its readers tell apart; Unset is a nil pointer or an empty string. *)
(***************************************************************************)
EXTENDS Integers, Sequences, FiniteSets, SequencesExt

CONSTANTS Names,      \* event names
          Tenants,
          Providers,
          ActionIDs,  \* what an inbound script may be allowed to do
          Unset,
          Configs,    \* the configurations an administrator adds ...
          Patches,    \* ... and the patches, records of the changed fields
          MaxHooks    \* bound: how many configurations are ever added

WebhookEventWildcard     == "*"
DefaultWebhookMaxRetries == 3
DefaultWebhookRetryDelay == 1

ConfigFields == {"URL", "Events", "Secret", "IsActive", "TenantID", "MaxRetries", "RetryDelay",
                 "Provider", "AllowedActions", "JSScript"}

\* What a configuration, or a patch, may hold in a field.
Holds(f, v) ==
  /\ f = "Events" => v \subseteq Names \cup {WebhookEventWildcard}
  /\ f = "IsActive" => v \in BOOLEAN \cup {Unset}
  /\ f \in {"MaxRetries", "RetryDelay"} => v \in Int \cup {Unset}

ASSUME WebhookAssumption ==
  /\ MaxHooks \in Nat
  /\ Unset \notin Names \cup Tenants \cup Providers
  /\ \A c \in Configs : DOMAIN c = ConfigFields
  /\ \A p \in Patches : DOMAIN p \subseteq ConfigFields
  /\ \A c \in Configs \cup Patches : \A f \in DOMAIN c : Holds(f, c[f])

VARIABLES byID, order, lastHook

hookVars == <<byID, order, lastHook>>

(***************************************************************************)
(* A configuration's readers.                                              *)
(***************************************************************************)
Active(c)     == IF c.IsActive = Unset THEN TRUE ELSE c.IsActive
Retries(c)    == IF c.MaxRetries = Unset THEN DefaultWebhookMaxRetries ELSE c.MaxRetries
RetryDelay(c) == IF c.RetryDelay = Unset THEN DefaultWebhookRetryDelay ELSE c.RetryDelay

\* Active only, the tenant's own or a global one, and the name or the wildcard.
Matches(c, name, tenant) ==
  /\ Active(c)
  /\ c.TenantID \in {Unset, tenant}
  /\ {WebhookEventWildcard, name} \cap c.Events # {}

\* A field the patch leaves out keeps its value.
ApplyTo(patch, c) ==
  [f \in DOMAIN c |-> IF f \in DOMAIN patch THEN patch[f] ELSE c[f]]

(***************************************************************************)
(* Lookups.                                                                *)
(***************************************************************************)
FindByEvent(name, tenant) ==
  LET out[i \in 0..Len(order)] ==
        IF i = 0 THEN <<>>
        ELSE IF Matches(byID[order[i]], name, tenant) THEN Append(out[i - 1], order[i])
        ELSE out[i - 1]
  IN out[Len(order)]

\* The first one registered for the provider, active or not; Unset never hits.
FindByProvider(provider) ==
  LET hits == {i \in DOMAIN order : provider # Unset /\ byID[order[i]].Provider = provider}
  IN IF hits = {} THEN Unset ELSE byID[order[Min(hits)]]

ListWebhooks(limit, offset) ==
  IF limit <= 0 \/ offset >= Len(order) THEN <<>>
  ELSE LET from == IF offset < 0 THEN 0 ELSE offset
           end  == IF from + limit > Len(order) THEN Len(order) ELSE from + limit
       IN SubSeq(order, from + 1, end)

HookInit == byID = <<>> /\ order = <<>> /\ lastHook = 0

(***************************************************************************)
(* Mutations.                                                              *)
(***************************************************************************)
AddWebhook(c) ==
  /\ lastHook < MaxHooks
  /\ lastHook' = lastHook + 1
  /\ byID' = [id \in DOMAIN byID \cup {lastHook'} |-> IF id = lastHook' THEN c ELSE byID[id]]
  /\ order' = Append(order, lastHook')

\* An unknown id is not an error and changes nothing.
UpdateWebhook(id, patch) ==
  /\ id \in DOMAIN byID
  /\ byID' = [byID EXCEPT ![id] = ApplyTo(patch, @)]
  /\ UNCHANGED <<order, lastHook>>

\* Broken variant: the identifier stays in the order.
RemoveWebhookLeaves(id) ==
  /\ id \in DOMAIN byID
  /\ byID' = [k \in DOMAIN byID \ {id} |-> byID[k]]
  /\ UNCHANGED <<order, lastHook>>

RemoveWebhook(id) ==
  /\ id \in DOMAIN byID
  /\ byID' = [k \in DOMAIN byID \ {id} |-> byID[k]]
  /\ order' = RemoveFirst(order, id)
  /\ UNCHANGED lastHook

(***************************************************************************)
(* Properties.                                                             *)
(***************************************************************************)

\* The two halves of the store name the same configurations, oldest first, so
\* that a lookup by event or by provider sees each of them exactly once.
OrderMatchesIndex ==
  /\ ToSet(order) = DOMAIN byID
  /\ \A i, j \in DOMAIN order : i < j => order[i] < order[j]

\* Reading page after page shows every configuration once, whatever the size of
\* a page: the page arithmetic of ListWebhooks loses and repeats nothing.
PagesCover == \A limit \in 1..(MaxHooks + 1) :
  FlattenSeq([k \in 1..(MaxHooks + 1) |-> ListWebhooks(limit, (k - 1) * limit)]) = order
=============================================================================
