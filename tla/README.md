# Formal model of awesome-go-auth

TLA+ modules for the parts of the library where requests overlap on shared
state, TLC configurations that check them on small instances, and TLAPS proofs
of the main properties for instances of any size. `PROJECT.json` maps every
definition to its lines, lists the hazards the properties are for and the
findings.

## The system and its parts

The library is a `Service` over stores that the host supplies (in-memory ones
are included), wrapped by `Auth` for HTTP and by one adapter per web framework.
Every HTTP request is a goroutine. A store method holds the store's mutex and is
atomic; a handler makes several store calls, holds no lock between them, and
keeps what it has read in local copies. Almost everything hard in this code
comes from that: a copy is stale when it is written back.

| Part | State | Operations | What is hard | What makes it correct |
|---|---|---|---|---|
| session store (`memory_store.go`) | sessions by id; index from refresh-token hash | create, get, update, revoke, list, delete expired | index and table change together | they agree; nothing deleted comes back |
| session service (`service.go`, `token.go`, `account.go`, `wire.go`) | tokens in clients' hands, sessions | register/login, refresh, logout, revoke, authenticate, delete account, cleanup | read–modify–write of whole records; two clocks (expiry and expiry + skew) | a token is exchanged once, revocation is final, cleanup is safe |
| user store (`memory_store.go`) | users; index by address; one token index per flow | create, delete, update of each field and token | five indexes; replaced tokens | addresses unique; a token leads to what it was sent for |
| account service (`service.go`, `wire_password_email.go`, `password_verifier.go`) | outstanding reset, magic-link, verification, change and SMS tokens | send, redeem, change password, migrate password | lookup and clear are separate calls; the pending address can change | tokens single-use, expiring, tied to account and purpose; addresses proven |
| mail and delivery (`delivery*.go`, `mailer.go`, `template_store.go`) | templates; messages handed to a transport | the six sending routes, the notice of a changed address, editing of templates | store first, send later; headers choose a link's base; half-written templates; answers that must not tell who has an account | messages go home, links lead home, answers are true |
| second factor (`login_2fa.go`, `totp.go`, `passwordless.go`) | step-up tokens, secret and flags on the record, settings | challenge, TOTP, SMS and link step-up, enrol, remove | policy and record read in separate calls, in turns with changes | a required factor cannot be got around |
| identity provider (`idp.go`, `feature_stores.go`) | authorization codes | authorize, token | consumption races; a code outlives its user | a code is honoured once, for what was granted |
| OAuth (`oauth_wire.go`, `oauth.go`, `oauth_provisioning.go`) | state nonces, pending links, linked accounts | begin, callback, link request, link verify, unlink | get-then-delete; first callbacks race; instances share a store | sign-ins are proven and stay in their tenant |
| JWKS client (`resource_server.go`) | cached document, expiry, fetch in flight | verify, refresh, invalidate | one fetch shared by many; orphaned fetches; rate limit | bursts coalesced, nobody waits for ever, the cache does not go back |
| events, SSE and tools (`events.go`, `sse.go`, `auth_tools.go`, `tools_stream.go`) | subscribers; connections with bounded buffers; a distributor | track, notify, publish, subscribe, broadcast, disconnect | snapshots, full buffers, de-duplication, handlers that run the fan-out again | frames keep to tenant, topic and order; no stream leaks; no publisher blocks |
| webhooks (`webhook_store.go`, `webhook_sender.go`, `tools_webhook.go`) | subscriptions; detached deliveries; inbound scripts | add, change, remove, emit, retry, receive | lost answers, late posts, configurations that change meanwhile, backoff overflow | attempts are distinct, identical and truly reported |
| API keys, roles, tenants, metadata, settings (`api_keys.go`, `memory_api_key_store.go`, `feature_stores.go`, `settings_store.go`) | one table each | create, verify, revoke, assign, patch | stamp after check; partial writes | the ended stays ended; nothing dangles |
| admin API (`admin*.go`) | none of its own | admission, deletion, promotion, two-factor policy, settings | a walk over pages of a table that changes; steps that fail | admission rests on standing; the walk reaches everyone |
| HTTP layer (`wire.go`, `csrf.go`, `adapter/nethttp`) | the browser's cookies | login, refresh, logout, revocation, deletion, cleanup behind limiter, double submit and access gate | three cookie namings, Domain and Path scopes, tabs, late answers, cleanup within the skew | other sites write nothing; a logout logs out |
| UI, OpenAPI, docs, MCP, uploads, telemetry queries, other adapters | none, or files | — | — | see *Not modelled* |

The components call each other synchronously: an adapter calls `Auth`, which
calls `Service`, which calls the stores, hands tokens to a sender, and on
success publishes on the event bus; SSE and webhooks are fed by the tools
facade, and webhooks continue in goroutines of their own. The JWKS client is
independent of the rest: it is what a separate resource server uses.

## Modules

| Module | Models | State ↔ code |
|---|---|---|
| `MemorySessionStore` | the session store, one operator per method | `byID`, `byTokenHashed` are the two maps |
| `SessionService` | session handlers, cut at their store calls | `call[r]` is the stack of goroutine `r`: its next store call, its token, its copy of the session; `claims` is what minted tokens say |
| `SessionTurns` | the promises of the session service that no race survives | `overlapped` remembers whether two calls were ever under way at once |
| `TokenRotation` | abstract: one live token per session, each live once | refined by `SessionService` |
| `MemoryUserStore` | the user store | one function per field of `User`; `byEmail`, `byToken[k]` are the maps |
| `AccountService` | account handlers over it | `call[r]` as above; `issued` remembers what each token was sent for |
| `AccountTurns` | the promises of the account service to callers that take turns | `callers` is the population of a behaviour, chosen at the start |
| `MemoryTemplateStore` | the template store and rendering | one record; a body is the number of the write it came from |
| `MailDelivery` | the sending routes, over `MemoryUserStore` and `MemoryTemplateStore` | `at[c]` is a request on its way from lookup over store and rendering to the transport; `inbox` what was delivered; `dep` the configuration |
| `JWKSClient` | the key cache, its fetches and `VerifyRS256` | `doc`, `expiry`, `fetchedAt`, `inflight` are the struct's fields; `fetch[f]` a `jwksFetch` with its goroutine |
| `EventBus`, `SseManager`, `AuthTools` | the bus, the streams, and the facade that composes them | `todo[p]` is goroutine `p`'s stack; `conn[c]` a connection with its `Serve` loop; `task[p]` a broadcast under way; `wire` the distributor |
| `MemoryWebhookStore`, `WebhookDelivery` | the subscriptions; outgoing deliveries and inbound requests | `byID` and `order` are the store's fields; `jobs` the detached goroutines; `wire`, `received` the network |
| `OAuthStores`, `OAuthLogin` | linked accounts and pending links; the OAuth routes | `byID`, `byPrv`, `byUsr`, `entries` are the maps; `proc[r]` a request; history `linked`: which account an identity was ever linked to |
| `SecondFactor` | password login, step-up, enrolment, policy | `rec[u]` the fields of the record that login reads; `tokens` the typed tokens |
| `IdentityProvider` | the authorization-code flow beside those routes; EXTENDS `SecondFactor` | `codes` is the store's map |
| `FeatureStores`, `AdminConsole` | roles, tenants, metadata, settings, API keys; the admin API, `DeleteAccount`, `UpdateProfile` and key verification over them | one record per store; `call[r]` as above |
| `HttpWire` | a browser with tabs, a page of another site and a bearer client against the HTTP layer | `jar` the cookies by name, variant and scope; `sessions`, `grants` what the server knows of them; `net[t]` a request: sent, served, answered |
| `…Proofs` | theorems about the session service, the account service and mail, the JWKS client and webhooks, the tools with their streams, the second factor with the identity provider, the OAuth routes, the admin API with its stores, and the HTTP layer | |
| `MC…` | constants and symmetry for TLC | |

How code becomes actions:

- One store call, or one critical section of a mutex, is one step. A handler is a
  chain of steps; its early returns are guards. A handler that fails in its first
  step and answers nothing of interest changes nothing and is not a step.
- A token and its hash are one value, and tokens do not collide. An access and a
  refresh token minted together are one *grant* (`SessionService`, `HttpWire`).
- The five token families of the user store have methods of the same shape and
  are one family indexed by kind; their differences are kept (no index for SMS
  codes, the pending address of a change, clear-first for links and SMS codes).
- The admin, mail and wire modules choose a *deployment* in `Init`: the
  configuration of the host together with the routes a behaviour uses, so that one
  run covers several configurations without multiplying them.
- Hosts, providers, browsers, issuers, networks and transports are external.
- Variables marked *history* or *ghost* are never read by an action; they exist
  so that properties can speak about the past.
- A definition introduced as *broken variant* is not part of any specification:
  it is the code with a plausible mistake, against which a property was tested.
- A property of a run is a conjunction of named parts, each stated in a comment of
  its own beside it.

## Runs

| Run | Question | Instance | Answer |
|---|---|---|---|
| `sessions` | what holds however two requests overlap, and in turns? | 2 requests, 2 sessions, 3 grants, 2 users, clock 0–2 | holds |
| `revocation_lost` | is a revocation final? | the same | no: Refresh restores the session |
| `account` | do the five token flows keep their stores and promises? | 2 requests, 2 users, 2 addresses, 2 tokens, 2 passwords | holds |
| `mail` | do messages, links, answers and notices tell the truth? | 3 calls, 2 tokens, 2 users, 6 deployments, one failure, two template writes | holds |
| `jwks` | is the cache coherent, are bursts coalesced, does every verification end? | 2 requests, 2 fetches, 1 rotation, host invalidation, fair | holds |
| `events` | do all sinks agree, do frames keep to tenant, topic and order, does anybody hang? | 2 publishers, 1 client, queue of 1, distributor that loses, repeats, reorders, fair | holds |
| `webhooks` | are deliveries and inbound answers honest, and do they end? | 2 configurations, 1 emit, 1 inbound request, 2 edits, fair | holds |
| `oauth` | is every sign-in proven, admitted, for the linked account and in its tenant? | 2 requests, 2 providers, 2 tenants with one address, 4 policies (one with verified addresses only, one with allowed domains) | holds |
| `wire` | does another site write anything, does a logout end, are refreshes answered truly? | 2 tabs, 2 sessions, 3 grants, 2 scopes, 6 deployments, up to 2 changes of the cookies' names and scopes | holds |
| `idp` | can a second factor be got around, is a code honoured once? | 2 requests, 2 users, 4 calls, 2 administrator changes, clock 0–2 | holds |
| `admin` | what do racing administrators, failures and deletions leave behind? | 3 requests, 4 user ids, pages of 2, 9 deployments | holds |
| `admin_policy_walk` | does the two-factor policy reach everybody? | the same | no: a deletion shifts the pages |

What the answers say beyond their names:

- `sessions`: an exchanged token never opens a live session after the exchange; a
  revocation is undone only by a Refresh that had already read the session; no
  stale write resurrects a deleted session; Cleanup spares every live session
  whose token is valid. In turns rotation is single-use, revocation final and
  account deletion complete. Of two overlapping exchanges of one token both may
  succeed, which `README.md:883` of the repository does not say; that is the hazard
  at `service.go:190`.
- `account`: a redeemed or replaced token stays dead, and an account's address is
  one a change token for it was sent to, however requests overlap. That its *own*
  token was presented holds in turns only: a `RequestEmailChange` that overlaps a
  `ConfirmEmailChange` moves the account to the address pending at the write.
  The same shape lets two requests redeem one token and lets the adoption of a
  migrated password overwrite one stored meanwhile, so `ProvenInTurns` and
  `ChosenPasswordSurvives` speak of callers that take turns.
- `mail`: also true of this code, and no property's failure — a retry whose
  delivery fails has already replaced the token delivered before; a lookup that
  fails on `/change-email/request` counts as "address free"; a template saved under
  an alias id is never read; a notice that fails leaves the address moved with no
  event. The announced addresses are those of the lookup and may be wrong when two
  changes of one account overlap, and two overlapping confirmations can leave it
  with no address at all; `ChangeIsAnnounced` excludes exactly that overlap.
- `oauth`: `Save` appends a row for an identity already linked, and one unlink then
  leaves a row no index reaches; what signs in is always a listed link. A session
  that a callback starts is for an account which the identity that came back was
  linked to (`linked`, by a link of its own or of an account just created), and that
  identity passed both rules of `admit`: a verified address and an allowed domain,
  where the policy demands them.
- `jwks`: an unknown kid drops the cached document before it fetches, so two such
  requests refetch twice in one interval and an outage is not bridged by the stale
  document; `CacheIsSound` and `NeverGoesBack` are stated up to the first drop.
- `wire`: a change of Secure, Domain or Path may leave old cookies in front of those
  written later: `__Host-` ones abandoned for `__Secure-` ones, prefixed ones that
  plain http hid, bare ones that had been replaced. And cookies of another Domain or
  Path are neither overwritten nor expired any more: `clearVariants` walks over every
  variant of a name, but in the scope of the current options (`wire.go:361-384`), so
  `__Secure-` cookies written under a Domain outlive every logout after the host has
  moved to `__Host-`. The client then presents a token that was rotated away or a
  session that was logged out. The history variable `shadowed` marks both kinds of
  change; `LogoutEnds`, for the jar, and the truth of refreshes are stated for
  behaviours without one, in which the names may still change (bare cookies of the
  root replaced by `__Host-` ones, or any change while no refresh cookie is held).
  `RefreshTokenPath` is taken to move with `Path`, and which of two cookies of one
  name and different scopes comes first is the browser's choice.
  A logout served over plain http cannot expire prefixed cookies, which return if the
  names are switched back; `LogoutEnds` speaks of what the site can read. Cleanup
  deletes sessions past their expiry whose refresh token the clock skew would still
  accept; a client that presents one is told `INVALID_REFRESH_TOKEN`, so
  `RefreshAnswersAreTrue` promises a known token only up to the session's expiry. A
  mount nested below another prefix never receives its path-scoped refresh cookie,
  and a logout that carries neither it nor a valid access token leaves the session
  live.
- `idp`: PKCE parameters are recorded and never checked; the session `Login` opens
  at `/authorize` is discarded with its tokens; a user who is required to set up a
  factor and has none cannot enrol by password alone, as README.md:171 states.
- `admin`: the races the source documents (`UpdateProfile`, the UI patch, promotion
  replacing a role's permissions, the first user, rows a deleted user leaves) are
  modelled as they are.

The findings in `PROJECT.json` quote the lines that the two violations contradict.

### Bounds

Races in this code are between two requests: one writes between the read and the
write of another. Two requests (three for mail and admin, where a call may meet
both a failure and a rival), and as many sessions, users and tokens as let one of
each be replaced, reach every such race; the proofs cover larger numbers of the
proved components. Clock bounds let every expiry be passed with and without the
skew. A queue of one frame is full with one. `Ceiling` in `webhooks`, 2^62 in
the code, is 8 of 32 values, so that the doubling delay would wrap within the
attempts counted. Pages of two over
four ids give the policy walk a boundary in the middle. The number of calls,
failures, edits and template writes is bounded per deployment; each is enough to
hit every step of a handler once.

Symmetry is used for interchangeable model values, and never in a run with a
liveness property. Deadlock checking is off where an instance runs out of
tokens, ids or calls, which is a bound of the instance; only `jwks` never stops.

### Fairness

- `JWKSClient`: weak fairness of each fetch (a call to the issuer ends because
  `fetch` runs under `context.WithTimeout(…, fetchTimeout)`) and strong fairness of
  each request's next step. No step of a request blocks in the code; in the model it
  may lack a free fetch id for a while, and strong fairness says that it gets one if
  there is one again and again. Nothing is assumed of callers, issuer or clock.
- `AuthTools`: weak fairness of every publisher, distributor callback and `Serve`
  loop, all runnable goroutines. Nothing is assumed of clients or the distributor.
- `WebhookDelivery`: weak fairness of every detached delivery (the HTTP client has a
  timeout and the waits are finite) and of inbound requests. The network may lose
  everything.

## Proofs

All theorems hold for arbitrary sets and configuration constants under the
`ASSUME`s of the modules: the "none" values lie outside the sets they complete,
lifetimes and skews are naturals.

- `SessionServiceProofs`. The properties are not inductive: what a request will
  write depends on its copy. The invariant `IInv` adds `CallsOK` (a held copy is
  a record the session once had, paired with the token it had then),
  `ParentsMinted`, and `NoCopyOfRevoked` (no Refresh holds a copy of a session
  revoked without a race). From it: `StoreIsConsistent`, `SpentAndRevokedAreDead`,
  `DeletionsAreSound` and `RevokedSessionsAreRefused`. `ImplementsTokenRotation`
  shows step by step that the service implements `TokenRotation`: a create or
  rotation is an `Issue`, a revocation or cleanup a `Kill`, everything else
  stutters. `TurnsAreSafe`, about `SessionTurns`, adds what a race would destroy
  (`InTurns`): one call is under way at most, what it has read is still what the
  store says (`CopyIsCurrent`), a session it is about to open is for a user who
  exists (`OpensForUser`), and a deletion has revoked what the user had
  (`RevokesAll`).
- `AccountServiceProofs`. `IInv` adds `CallsOK`, `Emptied` (the fields of an id
  that is not in the store are empty), `SpentKnown` and `PendingSentTo` (a pending
  address is one a change token for this account was sent to). From it:
  `StoreIsConsistent`, `TokensServeOnceAsSent` and, with the lemmas `OnlyNewTokens`
  and `OnlyLookupTakesToken` about what a step may do, `OldTokensStayRefused`.
  `TurnsAreProven` and `ChosenPasswordsSurvive`, about `AccountTurns`, add for callers
  in turns that what a call has read is current (`CallsCurrent`), that the change
  token in the store was sent to the address now pending (`PendingIsSent`), that an
  address is the account's first or one whose token was used (`StaysOrMoved`), and
  that a verified one was proven (`VerifiedIsUsed`).
  The second part is about `MailDelivery`, over the same users and tokens; neither
  part cites the other's assumption. A message is delivered after others have moved
  the account and replaced the token, so what it must satisfy is stated of the
  message alone (`MessageFine`) and already asked of the one a call holds
  (`SendFine`). It lasts because nothing it rests on is taken back (`Grows`): an
  address once had stays one, a token is minted once, and a change token outdated by
  a newer one stays so (`Latest`). `AnswerFine` follows a call to its answer. The
  announcement rests on a fact about overlapping: two calls that change the address
  of one user are both marked (`Marked`), so what an unmarked confirmation has read
  is what it applies and announces (`Announces`). TLC has checked the invariant,
  `MailInv`, on the run's instance too. From it `MailIsRight`, `AnswersTellTheTruth`
  and `ChangesAreAnnounced`. `MailAssumption` asks that users start with one address
  each, that there is a password, and that a deployment has its fields.

- `JWKSClientProofs`. `IInv` adds `RunningIsInflight` (until the cache is dropped
  a running fetch is the one in flight) and `AnswersAreNewer` (its answer is at
  least as new as the cached document). `TheCacheIsSound` and
  `DocumentNeverGoesBack` follow.
  The second part is about `WebhookDelivery` and its store, with which the client
  shares nothing. `HooksInv` says that a delivery keeps a configuration that was once
  in the store, which determines the only post an attempt may be (`PostOf`); that an
  outcome was earned (`JobFine`); and that the actions of a script were filtered while
  its request was under way (`InboundFine`). The loops are recursive functions: that
  they run at all is `LoopRuns`, and what they compute follows with a least
  counterexample in place of induction (`Least`). So the delay doubles exactly for any
  base and any number of attempts (`BackoffRuns`), and pages of any size add up to the
  order (`PagesAddUp`). From it `HooksAreConsistent`, `AttemptsAreAlwaysTrue` and
  `InboundIsAlwaysHonest`. `WebhookAssumption` asks that the fields of configurations
  and patches hold what their types admit; the first delay may exceed the ceiling,
  because a host may configure it so, and no other does.

- `AuthToolsProofs`. A broadcast works on a snapshot, and `enqueue` replaces the
  last event id before it queues the frame, so neither the registry nor the queues
  are inductive alone. `IInv` adds three groups of facts. `Registry`: a stream that
  was not registered yet is untouched and in no snapshot (`FreshIsUntouched`,
  `TargetsWereOpen`), a broadcast stands at one of its own targets, and what it is
  about to close has left the registry (`ClosedIsForgotten`). `Tenancy`: targets and
  frames are allowed, which lasts because a stream never changes its tenant once it
  was registered. `Losses`: the last event id of a registered stream is backed by a
  frame, or by another broadcast that stands between the mark and the send
  (`MarkIsBacked`), so the de-duplication may skip. From it: `StreamsAreConsistent`,
  `TenantsAreIsolated`, `NothingIsLostSilently`. `TheSinksAgree` rests on
  `SinksInv`, about the shapes of a call's stack: every record stands before an
  emission with its id, and a publication stands at the bottom, right after its
  record (`FanOutIsGood`, `TailIsGood`, `StacksJoin`). It needs one assumption on
  the constants beyond their types, `TopicsAssumption`: the topics a host names are
  among `Topics`. `EveryFrameIsRight` is about order. Without a distributor every
  broadcast runs on its publisher, so what a client holds of a goroutine lies below
  its count and below every broadcast that is still to serve that client
  (`OrderInv`). While calls do not overlap the broadcasts of one event lie side by
  side in a stack (`Grouped`): an event with a frame still to come is the one under
  way, and the client's last event id names it, so the mark finds every repetition
  (`OnceInv`). A stream's topics are the ones `StreamTopics` gave it
  (`TopicsAreOwn`).

- `IdentityProviderProofs`, about `SecondFactor` and `IdentityProvider` together. Each
  request keeps what it read (`CallFine`: the user a challenge names, the moments at
  which the record was seen without a requirement), and `NotedKeeps` shows that the
  notes outlive every step of the others. Codes need `CodeInOnePlace`: a code is in
  the store, in the hands of one request, or spent, and never twice. From it
  `SessionsAreConsistent` and `CodesAreAlwaysHonoured`; with what a single step may
  do (`SecondFactorAlwaysHolds`, `LateFactorAlwaysRefused`) the action properties.
- `OAuthLoginProofs`. `IInv` adds what a request has established by the step it
  stands at (`RequestFine`) and what each link and token rests on (`LinkFine`,
  `MetaFine`); it lasts because accounts, tokens and `linked` are only added to
  (`Grows`, `UsersGrow`).
  From it `LinksAreConsistent` and `SignInsAlwaysProven`. That a link token makes one
  link while callers take turns is counted: links made by tokens and tokens that can
  still make one are together at most the tokens minted (`TokensPay`, in
  `TurnsAreTaken`); `NoncesAlwaysHonoured` follows. Beyond types, `OAuthAssumption`
  asks that the accounts of the start have one address each and that the policy is
  one of the three the configuration accepts (`oauth_provisioning.go:123`).

- `AdminConsoleProofs`, with `FeatureStores`. The stores are consistent by themselves
  (`StoresFine`, one lemma per store operation); what a request found out lasts
  because of what no step undoes (`WorldMoves`: a deleted user does not come back, a
  flag is not taken away, a write is counted). `SawFine` says that what a partial
  update read is what there is unless a write was counted since, `DepartFine` that
  the clean-up's list covers what is left. The policy walk rests on positions in the
  table: without a deletion a user only moves further on (`PositionsGrow`), and a page
  shorter than the batch leaves nobody behind it (`ShortPageIsLast`, `FullPage`, for
  any table and batch, with a least element in place of induction). From the
  invariant `NothingEverDangles`, `TheAdmittedHadStanding`, `ThePolicyReaches`; and,
  with `AnsweredByMoving` (nobody but a request answers it), the action properties
  `UnsubmittedFieldsAreKept` and `EndedStaysEnded`. `StartAssumption` asks that the
  users and tenants of the start are among the ids; `DeploymentAssumption` that a
  route is called with an argument of its kind, as the handlers' parsing ensures.

- `HttpWireProofs`, for any number of tabs, requests and changes of the cookie names.
  What always holds: grants are minted in turn and age in the order of issue,
  and a session is deleted only when its current grant is that old (`GrantsFine`), under
  each mark (a variant of the name with its scope) the access cookie is the refresh
  cookie's as long as it lives (`JarFine`), an answer carries fresh pairs or expires them
  (`AnswerFine`), and the browser and the bearer client never hold grants of one
  session (`Apart`).
  While requests are in turn (`Turns`) at most one token request is under way, the
  cookies read first are the newest (`Ordered`), and the token a client will present
  once that answer is in is its session's current one (`Usable`, `Shown`, `After`).
  As long as no change of the options has shadowed cookies or left some behind, there is
  no refresh cookie outside the scope of the day, in the jar or on its way (`NoneLeft`),
  so a name has one cookie, whichever the browser would choose.
  `Ordered` survives a fresh pair (`FreshInFront`), the expiry of a cookie, since only
  the newest can be the one that expires (`OnlyTheNewestExpires`), and a change of
  names that shadows nothing (`RenamedInOrder`). From it `TheWireIsConsistent` and
  `RefreshesAreAnsweredTruly`; `LogoutAlwaysEnds` adds what the one step may do that
  serves a request or ends it (`WhoServes`). `ForeignPagesNeverWrite` goes through
  every route: without the access cookie the gate refuses another site's page, with
  it the double submit, and the manual check stands on the path below one prefix or
  two (`ForeignIsRefused`). `WireAssumption` asks that there is room for a grant,
  that `root` is a scope, that every deployment is one of the `Settings`, and that its
  variant and scope are a pair `CookieName` can resolve to (`Options`).

Only model-checked: the liveness properties `NobodyHangs`, `VerifyEnds` and
`DeliveryEnds` (fairness is beyond the prover), and the counterexamples of the two
violations. Every other property of a run is stated by a theorem.

## Not modelled

- Cryptography and encoding: signatures, claims, bcrypt, HMAC, PKCE, base64.
- The rest of the HTTP surface: response bodies and mirrors, request parsing, the
  provider's half of OAuth, OIDC discovery and client authentication.
- The gin, echo and chi adapters: the same handlers on other routers.
- Uploads and admin reads: files by name, and lists without writes. One remark:
  `adminSliceBounds` (`admin_read.go:817`) adds the limit to the normalised start,
  whereas `slice(offset, offset + limit)`, which its comment says it reproduces, is
  empty for a negative offset that the limit carries to zero or beyond.
- Telemetry queries, MCP (a stateless dispatcher over the service), the UI, OpenAPI
  documents and the compatibility register: no state, or tables.
- `adapter/internal/wiretest`: the shared test suite of the adapters, some 16,500
  lines of assertions; it was read as documentation of the wire behaviour.
- Crashes: the included stores are in memory, so a restart is the initial state.

## Plan

1. Done: sessions, accounts, JWKS client, event bus, SSE and tools, with their
   proofs; webhooks; OAuth; second factor and identity provider; feature stores and
   admin API; HTTP layer; mail.
2. Done: proofs for the second factor, the identity provider, OAuth, the feature
   stores, the admin API, the HTTP layer, mail and webhooks; the order of frames and
   the promises to callers that take turns.
3. Uploads and the admin lists, if their stores gain operations that race.
