-------------------------- MODULE JWKSClientProofs --------------------------
(***************************************************************************)
(* Proofs about JWKSClient, for any number of requests and fetches, any    *)
(* lifetimes and any number of rotations.                                  *)
(*                                                                         *)
(* The document does not go back while the cache has not been dropped      *)
(* because one fetch at most is under way, and that one can only have      *)
(* started after the cached document was stored: what it brings is at      *)
(* least as new.                                                           *)
(*                                                                         *)
(* The second part is about WebhookDelivery: for any subscriptions, any    *)
(* number of events and requests, and any longest delay.                   *)
(***************************************************************************)
EXTENDS JWKSClient, WebhookDelivery, SequenceTheorems, FiniteSetTheorems, WellFoundedInduction, TLAPS

\* Until the cache is dropped, a running fetch is the one in flight.
RunningIsInflight == ~dropped => \A f \in FetchIDs : Running(f) => f = inflight

\* Nothing is newer than the issuer's document, and until the cache is dropped
\* an answer about to be stored is no older than the cached document.
AnswersAreNewer ==
  /\ doc <= issuer
  /\ \A f \in FetchIDs : fetch[f].answer <= issuer
  /\ ~dropped => \A f \in FetchIDs :
       fetch[f].state = "answered" /\ fetch[f].answer # NoDoc => doc <= fetch[f].answer

IInv ==
  /\ TypeOK
  /\ InflightIsRunning
  /\ WaitersHaveAFetch
  /\ RunningIsInflight
  /\ AnswersAreNewer

-----------------------------------------------------------------------------

\* The constants the arithmetic needs, unfolded.
LEMMA ConstantFacts ==
  /\ MaxVersion \in Nat
  /\ Versions \subseteq Int /\ Docs \subseteq Int /\ Kids \subseteq Int
  /\ NoDoc \in Docs /\ NoDoc = -1 /\ Versions \subseteq Docs
  /\ \A v \in Versions : v >= 0
  /\ \A d \in Docs : d >= -1 /\ (d # NoDoc => d \in Versions)
  /\ 0 \in Versions /\ 0 \in Kids
  /\ NoFetch \notin FetchIDs
BY JWKSAssumption DEF Versions, Docs, Kids, NoDoc

\* What a request may become.
LEMMA MovedType ==
  ASSUME TypeOK, NEW r \in Requests, NEW stale \in Docs
  PROVE  /\ \A step \in {"idle", "read", "rotate"} :
              Moved(r, step, NoFetch, stale) \in Req
         /\ \A f \in FetchIDs : Moved(r, "wait", f, stale) \in Req
<1>1. req[r] \in Req
  BY DEF TypeOK
<1>2. /\ req[r].kid \in Kids /\ req[r].retried \in BOOLEAN
  BY <1>1 DEF Req, Request
<1> QED
  BY <1>2 DEF Moved, Req, Request

\* A request that has its document is not waiting.
LEMMA AnswerType ==
  ASSUME TypeOK, NEW r \in Requests, NEW d \in Docs
  PROVE  /\ Answer(r, d) \in Req
         /\ Answer(r, d).step # "wait"
<1>1. NoDoc \in Docs
  BY ConstantFacts
<1>2. Answer(r, d) \in Req
  BY <1>1, MovedType, ConstantFacts DEF Answer, Idle, Req, Request
<1>3. Answer(r, d).step # "wait"
  BY DEF Answer, Moved, Idle
<1> QED
  BY <1>2, <1>3

\* The steps that only move one request, to a step other than "wait" or to
\* wait for a fetch that is not free, keep everything else.
LEMMA RequestStep ==
  ASSUME IInv, NEW r \in Requests, NEW next \in Req, Goto(r, next),
         next.step = "wait" => fetch[next.f].state # "free",
         UNCHANGED <<cache, fetch, env, dropped>>
  PROVE  IInv'
<1> USE DEF IInv
<1>0. /\ UNCHANGED <<doc, expiry, fetchedAt, inflight, fetch, issuer, now, dropped>>
      /\ req' = [req EXCEPT ![r] = next]
  BY DEF cache, env, Goto
<1>1. TypeOK'
  BY <1>0 DEF TypeOK
<1>2. InflightIsRunning'
  BY <1>0 DEF InflightIsRunning, Running
<1>3. WaitersHaveAFetch'
  BY <1>0 DEF WaitersHaveAFetch, At, TypeOK
<1>4. RunningIsInflight'
  BY <1>0 DEF RunningIsInflight, Running
<1>5. AnswersAreNewer'
  BY <1>0 DEF AnswersAreNewer
<1> QED
  BY <1>1, <1>2, <1>3, <1>4, <1>5

\* A new client has fetched nothing.
LEMMA InitEstablishes == Init => IInv
<1> SUFFICES ASSUME Init PROVE IInv
  OBVIOUS
<1>1. Free \in Fetch /\ Idle \in Req
  BY ConstantFacts DEF Free, Fetch, Idle, Req, Request
<1>2. TypeOK
  BY <1>1, ConstantFacts DEF Init, TypeOK
<1>3. InflightIsRunning /\ WaitersHaveAFetch /\ RunningIsInflight
  BY DEF Init, InflightIsRunning, WaitersHaveAFetch, RunningIsInflight, Running, At, Idle, Free
<1>4. AnswersAreNewer
  BY ConstantFacts DEF Init, AnswersAreNewer, Free
<1> QED
  BY <1>2, <1>3, <1>4 DEF IInv

-----------------------------------------------------------------------------

\* Whoever starts a fetch makes it the one in flight.
LEMMA ReadStartPreserves ==
  ASSUME IInv, NEW r \in Requests, ReadStart(r)
  PROVE  IInv'
<1> USE DEF IInv
<1>1. PICK f \in FetchIDs :
        /\ inflight = NoFetch /\ Available(f)
        /\ inflight' = f
        /\ fetch' = [fetch EXCEPT ![f] = [state |-> "fetching", answer |-> NoDoc]]
        /\ Goto(r, IF doc # NoDoc THEN Answer(r, doc) ELSE Moved(r, "wait", f, NoDoc))
        /\ UNCHANGED <<doc, expiry, fetchedAt, issuer, now, dropped>>
  BY DEF ReadStart, env
<1> DEFINE next == IF doc # NoDoc THEN Answer(r, doc) ELSE Moved(r, "wait", f, NoDoc)
<1>2. next \in Req /\ (next.step = "wait" => next.f = f)
  <2>1. doc \in Docs /\ NoDoc \in Docs
    BY ConstantFacts DEF TypeOK
  <2>2. Answer(r, doc) \in Req /\ Answer(r, doc).step # "wait"
    BY <2>1, AnswerType
  <2>3. Moved(r, "wait", f, NoDoc) \in Req /\ Moved(r, "wait", f, NoDoc).f = f
    BY <2>1, MovedType DEF Moved
  <2> QED
    BY <2>2, <2>3
<1>3. req' = [req EXCEPT ![r] = next]
  BY <1>1 DEF Goto
<1> HIDE DEF next
<1>4. [state |-> "fetching", answer |-> NoDoc] \in Fetch
  BY ConstantFacts DEF Fetch
<1>5. TypeOK'
  BY <1>1, <1>2, <1>3, <1>4 DEF TypeOK
<1>6. InflightIsRunning'
  BY <1>1 DEF InflightIsRunning, Running, TypeOK
<1>7. WaitersHaveAFetch'
  BY <1>1, <1>2, <1>3 DEF WaitersHaveAFetch, At, TypeOK
<1>8. RunningIsInflight'
  BY <1>1, ConstantFacts DEF RunningIsInflight, Running, TypeOK
<1>9. AnswersAreNewer'
  BY <1>1, ConstantFacts DEF AnswersAreNewer, TypeOK
<1> QED
  BY <1>5, <1>6, <1>7, <1>8, <1>9

\* The issuer's answer is its newest document, or none.
LEMMA FetchAnswerPreserves ==
  ASSUME IInv, NEW f \in FetchIDs, FetchAnswer(f)
  PROVE  IInv'
<1> USE DEF IInv
<1>1. PICK answer \in {issuer, NoDoc} :
        /\ fetch[f].state = "fetching"
        /\ fetch' = [fetch EXCEPT ![f] = [state |-> "answered", answer |-> answer]]
        /\ UNCHANGED <<doc, expiry, fetchedAt, inflight, req, issuer, now, dropped>>
  BY DEF FetchAnswer, env, cache
<1>2. answer \in Docs
  BY ConstantFacts DEF TypeOK
<1>3. [state |-> "answered", answer |-> answer] \in Fetch
  BY <1>2 DEF Fetch
<1>4. TypeOK'
  BY <1>1, <1>3 DEF TypeOK
<1>5. InflightIsRunning' /\ WaitersHaveAFetch' /\ RunningIsInflight'
  BY <1>1 DEF InflightIsRunning, WaitersHaveAFetch, RunningIsInflight, Running, At, TypeOK
<1>6. AnswersAreNewer'
  BY <1>1, <1>2, ConstantFacts DEF AnswersAreNewer, TypeOK
<1> QED
  BY <1>4, <1>5, <1>6

\* A fetch that ends hands over its handle; until the cache is dropped it was
\* the only one, so no older answer can follow.
LEMMA FetchStorePreserves ==
  ASSUME IInv, NEW f \in FetchIDs, FetchStore(f)
  PROVE  IInv'
<1> USE DEF IInv
<1>1. /\ fetch[f].state = "answered"
      /\ fetch' = [fetch EXCEPT ![f] = [state |-> "done", answer |-> fetch[f].answer]]
      /\ inflight' = IF inflight = f THEN NoFetch ELSE inflight
      /\ UNCHANGED <<req, issuer, now, dropped>>
  BY DEF FetchStore, env
<1>2. \/ /\ fetch[f].answer # NoDoc
         /\ doc' = fetch[f].answer /\ fetchedAt' = now /\ expiry' = now + CacheTTL
      \/ UNCHANGED <<doc, fetchedAt, expiry>>
  BY DEF FetchStore
<1>3. fetch[f].answer \in Docs
  BY DEF TypeOK, Fetch
<1>4. [state |-> "done", answer |-> fetch[f].answer] \in Fetch
  BY <1>3 DEF Fetch
<1>5. now + CacheTTL \in Int
  BY JWKSAssumption DEF TypeOK
<1>6. TypeOK'
  <2>1. doc' \in Docs /\ expiry' \in Int /\ fetchedAt' \in Int
    BY <1>2, <1>3, <1>5 DEF TypeOK
  <2>2. inflight' \in FetchIDs \cup {NoFetch}
    BY <1>1 DEF TypeOK
  <2>3. fetch' \in [FetchIDs -> Fetch]
    BY <1>1, <1>4 DEF TypeOK
  <2> QED
    BY <1>1, <2>1, <2>2, <2>3 DEF TypeOK
<1>7. InflightIsRunning'
  BY <1>1, ConstantFacts DEF InflightIsRunning, Running, TypeOK
<1>8. WaitersHaveAFetch'
  BY <1>1 DEF WaitersHaveAFetch, At, TypeOK
<1>9. RunningIsInflight'
  BY <1>1 DEF RunningIsInflight, Running, TypeOK
<1>10. AnswersAreNewer'
  <2>1. doc' <= issuer' /\ \A g \in FetchIDs : fetch'[g].answer <= issuer'
    BY <1>1, <1>2 DEF AnswersAreNewer, TypeOK
  <2>2. ASSUME ~dropped', NEW g \in FetchIDs, fetch'[g].state = "answered" PROVE FALSE
    <3>1. g # f /\ Running(g) /\ Running(f)
      BY <1>1, <2>2 DEF Running, TypeOK
    <3> QED
      BY <3>1, <1>1, <2>2 DEF RunningIsInflight
  <2> QED
    BY <2>1, <2>2 DEF AnswersAreNewer
<1> QED
  BY <1>6, <1>7, <1>8, <1>9, <1>10

\* Dropping the cache keeps what is true of fetches that run on.
LEMMA DropPreserves ==
  ASSUME IInv, invalidateLocked, UNCHANGED <<fetch, issuer, now>>,
         \/ UNCHANGED req
         \/ \E r \in Requests : \E next \in Req : Goto(r, next) /\ next.step # "wait"
  PROVE  IInv'
<1> USE DEF IInv
<1>1. /\ doc' = NoDoc /\ expiry' = 0 /\ inflight' = NoFetch /\ dropped' = TRUE
      /\ UNCHANGED fetchedAt
  BY DEF invalidateLocked
<1>2. req' \in [Requests -> Req] /\ WaitersHaveAFetch'
  BY DEF Goto, TypeOK, WaitersHaveAFetch, At
<1>3. TypeOK'
  BY <1>1, <1>2, ConstantFacts DEF TypeOK
<1>4. InflightIsRunning' /\ RunningIsInflight'
  BY <1>1 DEF InflightIsRunning, RunningIsInflight
<1>5. AnswersAreNewer'
  BY <1>1, ConstantFacts DEF AnswersAreNewer, TypeOK
<1> QED
  BY <1>2, <1>3, <1>4, <1>5

\* Every step of a request keeps the invariant.
LEMMA ProceedPreserves ==
  ASSUME IInv, NEW r \in Requests, Proceed(r) \/ Verify(r) \/ Cancel(r)
  PROVE  IInv'
<1> USE DEF IInv
<1>1. /\ doc \in Docs /\ NoDoc \in Docs /\ req[r] \in Req /\ Idle \in Req
      /\ Idle.step # "wait"
  BY ConstantFacts DEF TypeOK, Idle, Req, Request
<1>2. CASE ReadFresh(r)
  BY <1>1, <1>2, AnswerType, RequestStep DEF ReadFresh
<1>3. CASE ReadJoin(r)
  <2>1. inflight \in FetchIDs /\ Running(inflight)
    BY <1>3 DEF ReadJoin, TypeOK, InflightIsRunning
  <2>2. Moved(r, "wait", inflight, doc) \in Req
    BY <1>1, <2>1, MovedType
  <2>3. fetch[Moved(r, "wait", inflight, doc).f].state # "free"
    BY <2>1 DEF Moved, Running
  <2> QED
    BY <1>3, <2>2, <2>3, RequestStep DEF ReadJoin
<1>4. CASE ReadStart(r)
  BY <1>4, ReadStartPreserves
<1>5. CASE Wake(r)
  <2> DEFINE d == IF fetch[req[r].f].answer # NoDoc THEN fetch[req[r].f].answer ELSE req[r].stale
  <2>1. req[r].f \in FetchIDs /\ req[r].stale \in Docs
    BY <1>1, <1>5 DEF Wake, At, Req, Request
  <2>2. d \in Docs
    BY <2>1 DEF TypeOK, Fetch
  <2>3. Goto(r, Answer(r, d)) /\ UNCHANGED <<cache, fetch, env, dropped>>
    BY <1>5 DEF Wake
  <2> HIDE DEF d
  <2> QED
    BY <2>2, <2>3, AnswerType, RequestStep
<1>6. CASE RotateRefused(r)
  BY <1>1, <1>6, RequestStep DEF RotateRefused
<1>7. CASE RotateDrop(r)
  <2> DEFINE next == [step |-> "read", kid |-> req[r].kid, retried |-> TRUE,
                      stale |-> NoDoc, f |-> NoFetch]
  <2>1. next \in Req /\ next.step # "wait"
    BY <1>1, ConstantFacts DEF Req, Request, TypeOK
  <2>2. /\ invalidateLocked /\ Goto(r, next)
        /\ UNCHANGED <<fetch, issuer, now>>
    BY <1>7 DEF RotateDrop, env
  <2> HIDE DEF next
  <2> QED
    BY <2>1, <2>2, DropPreserves
<1>9. CASE Verify(r)
  <2>1. PICK kid \in Kids :
          Goto(r, [step |-> "read", kid |-> kid, retried |-> FALSE,
                   stale |-> NoDoc, f |-> NoFetch])
    BY <1>9 DEF Verify
  <2> DEFINE next == [step |-> "read", kid |-> kid, retried |-> FALSE,
                      stale |-> NoDoc, f |-> NoFetch]
  <2>2. next \in Req /\ next.step # "wait"
    BY <1>1 DEF Req, Request, TypeOK
  <2>3. Goto(r, next) /\ UNCHANGED <<cache, fetch, env, dropped>>
    BY <1>9, <2>1 DEF Verify
  <2> HIDE DEF next
  <2> QED
    BY <2>2, <2>3, RequestStep
<1>10. CASE Cancel(r)
  BY <1>1, <1>10, RequestStep DEF Cancel
<1> QED
  BY <1>2, <1>3, <1>4, <1>5, <1>6, <1>7, <1>9, <1>10 DEF Proceed

\* Every step of the client keeps the invariant.
LEMMA NextPreserves == IInv /\ [Next]_vars => IInv'
<1> SUFFICES ASSUME IInv, [Next]_vars PROVE IInv'
  OBVIOUS
<1> USE DEF IInv
<1>1. CASE \E r \in Requests : Verify(r) \/ Cancel(r) \/ Proceed(r)
  BY <1>1, ProceedPreserves
<1>2. CASE \E f \in FetchIDs : FetchAnswer(f) \/ FetchStore(f)
  BY <1>2, FetchAnswerPreserves, FetchStorePreserves
<1>3. CASE Invalidate
  <2>1. invalidateLocked /\ UNCHANGED <<fetch, req, issuer, now>>
    BY <1>3 DEF Invalidate, env
  <2> QED
    BY <2>1, DropPreserves
<1>4. CASE Rotate
  <2>1. /\ issuer' = issuer + 1 /\ issuer' \in Versions
        /\ UNCHANGED <<doc, expiry, fetchedAt, inflight, fetch, req, now, dropped>>
    BY <1>4, JWKSAssumption DEF Rotate, cache, TypeOK, Versions
  <2>2. TypeOK'
    BY <2>1 DEF TypeOK
  <2>3. InflightIsRunning' /\ WaitersHaveAFetch' /\ RunningIsInflight'
    BY <2>1 DEF InflightIsRunning, WaitersHaveAFetch, RunningIsInflight, Running, At
  <2>4. \A f \in FetchIDs : fetch[f].answer \in Int
    BY ConstantFacts DEF TypeOK, Fetch
  <2>5. AnswersAreNewer'
    BY <2>1, <2>4, ConstantFacts DEF AnswersAreNewer, TypeOK
  <2> QED
    BY <2>2, <2>3, <2>5
<1>5. CASE Tick
  <2>1. /\ now' \in Nat
        /\ UNCHANGED <<doc, expiry, fetchedAt, inflight, fetch, req, issuer, dropped>>
    BY <1>5 DEF Tick, cache, TypeOK
  <2>2. TypeOK'
    BY <2>1 DEF TypeOK
  <2> QED
    BY <2>1, <2>2 DEF InflightIsRunning, WaitersHaveAFetch, RunningIsInflight, AnswersAreNewer, Running, At
<1>6. CASE UNCHANGED vars
  BY <1>6 DEF vars, TypeOK, InflightIsRunning, WaitersHaveAFetch, RunningIsInflight,
              AnswersAreNewer, Running, At
<1> QED
  BY <1>1, <1>2, <1>3, <1>4, <1>5, <1>6 DEF Next

\* The invariant holds in every behaviour of the client.
LEMMA InvariantHolds == Spec => []IInv
BY InitEstablishes, NextPreserves, PTL DEF Spec

-----------------------------------------------------------------------------

\* The state of the key client (resource_server.go) keeps its type, Document
\* never sends a reader to a fetch that is over, runFetch never forgets one who
\* waits, and however many requests find the cache cold or stale, one call to
\* the issuer is under way, unless the cache has been dropped.
THEOREM TheCacheIsSound == Spec => []CacheIsSound
<1>1. IInv => CacheConsistent
  BY DEF IInv, CacheConsistent
<1>2. IInv => OneCallPerBurst
  BY DEF IInv, RunningIsInflight, OneCallPerBurst
<1> QED
  BY <1>1, <1>2, InvariantHolds, PTL DEF CacheIsSound

\* A refresh never replaces the cached document by an earlier one of the
\* issuer's, unless the cache has been dropped.
THEOREM DocumentNeverGoesBack == Spec => NeverGoesBack
<1>1. IInv /\ [Next]_vars => [~dropped' => doc' >= doc]_vars
  <2> SUFFICES ASSUME IInv, Next, ~dropped' PROVE doc' >= doc
    OBVIOUS
  <2>1. doc \in Int
    BY ConstantFacts DEF IInv, TypeOK
  <2>2. ASSUME UNCHANGED doc PROVE doc' >= doc
    BY <2>1, <2>2
  <2>3. CASE \E r \in Requests : Verify(r) \/ Cancel(r) \/ Proceed(r)
    BY <2>2, <2>3 DEF Verify, Cancel, Proceed, ReadFresh, ReadJoin, ReadStart, Wake,
                      RotateRefused, RotateDrop, cache, invalidateLocked
  <2>4. CASE \E f \in FetchIDs : FetchAnswer(f) \/ FetchStore(f)
    <3>1. ASSUME NEW f \in FetchIDs, FetchStore(f), fetch[f].answer # NoDoc PROVE doc' >= doc
      <4>1. doc <= fetch[f].answer /\ doc' = fetch[f].answer
        BY <3>1 DEF FetchStore, IInv, AnswersAreNewer
      <4>2. fetch[f].answer \in Int
        BY ConstantFacts DEF IInv, TypeOK, Fetch
      <4> QED
        BY <2>1, <4>1, <4>2
    <3> QED
      BY <2>2, <2>4, <3>1 DEF FetchAnswer, FetchStore, cache
  <2>5. CASE Invalidate \/ Rotate \/ Tick
    BY <2>2, <2>5 DEF Invalidate, invalidateLocked, Rotate, Tick, cache
  <2> QED
    BY <2>3, <2>4, <2>5 DEF Next
<1> QED
  BY <1>1, InvariantHolds, PTL DEF Spec, NeverGoesBack

-----------------------------------------------------------------------------
(***************************************************************************)
(* Webhooks.  What the proofs need beyond the properties: a delivery keeps *)
(* a configuration that was once in the store, so a post is determined by  *)
(* its delivery and attempt; a script's actions were filtered while the    *)
(* request was under way.                                                  *)
(***************************************************************************)

\* A configuration has its fields, and each holds what it may.
ConfigFine(c) ==
  /\ DOMAIN c = ConfigFields
  /\ \A f \in ConfigFields : Holds(f, c[f])

StoreFine ==
  /\ lastHook \in Nat /\ lastHook <= MaxHooks
  /\ order \in Seq(1..lastHook) /\ Len(order) <= lastHook
  /\ OrderMatchesIndex
  /\ \A id \in DOMAIN byID : ConfigFine(byID[id])

\* A delivery counts attempts up to its configuration's, and its outcome is one it earned.
JobFine(job) ==
  /\ job = [id |-> job.id, cfg |-> job.cfg, ev |-> job.ev, attempt |-> job.attempt, wait |-> job.wait,
             st |-> job.st]
  /\ ConfigFine(job.cfg)
  /\ job.ev \in OutEvents
  /\ job.attempt \in Nat /\ job.wait \in Nat
  /\ job.st \in Ended \cup {"send", "posted", "sleep"}
  /\ job.wait <= Ceiling \/ job.wait = RetryDelay(job.cfg)
  /\ job.attempt = 0 \/ job.attempt <= Retries(job.cfg)
  /\ job.st = "posted" => job.attempt <= Retries(job.cfg)
  /\ job.st = "gaveup" => job.attempt = Retries(job.cfg)
  /\ job.st = "skipped" => Retries(job.cfg) < 0

JobsFine ==
  /\ Len(jobs) \in Nat /\ jobs = [j \in 1..Len(jobs) |-> jobs[j]]
  /\ \A j \in DOMAIN jobs : JobFine(jobs[j])
  /\ \A j \in DOMAIN jobs : jobs[j].st = "delivered" => \E p \in received : p.job = j

\* The only post an attempt of a delivery may be.
PostOf(j, attempt) ==
  [job |-> j, attempt |-> attempt, uuid |-> DeliveryID(j, attempt), body |-> jobs[j].ev,
   url |-> jobs[j].cfg.URL, sig |-> SignBody(jobs[j].cfg.Secret, jobs[j].ev)]

PostFine(p) ==
  /\ p.job \in DOMAIN jobs
  /\ p.attempt \in Nat /\ p.attempt <= Retries(jobs[p.job].cfg)
  /\ p = PostOf(p.job, p.attempt)

InboundFine(r) ==
  /\ inbound[r] = [st |-> inbound[r].st, provider |-> inbound[r].provider, cfg |-> inbound[r].cfg,
                   actions |-> inbound[r].actions, ran |-> inbound[r].ran]
  /\ inbound[r].st \in {"idle", "find", "settings", "run", "hook", "track", "ok", "refused"}
  /\ inbound[r].st # "idle" => enabled \subseteq enabledFor[r]
  /\ Stands(r, "run") => inbound[r].actions \subseteq inbound[r].cfg.AllowedActions \cap enabledFor[r]
  /\ inbound[r].st \in {"hook", "ok", "track"} /\ HasScript(inbound[r].cfg) => inbound[r].ran

InboundsFine ==
  /\ inbound = [r \in InboundRequests |-> inbound[r]]
  /\ enabledFor = [r \in InboundRequests |-> enabledFor[r]]
  /\ enabled \subseteq ActionIDs /\ tracked \subseteq InboundRequests
  /\ \A r \in InboundRequests : InboundFine(r)

HooksInv ==
  /\ StoreFine
  /\ JobsFine
  /\ \A p \in wire \cup received : PostFine(p)
  /\ InboundsFine

\* A set of numbers that is not empty has a least one: what the proofs about the
\* loops use in place of induction.
LEMMA Least ==
  ASSUME NEW S, S \subseteq Nat, S # {}
  PROVE  \E m \in S : \A n \in S : m <= n
  <1>1. PICK m \in S : \A n \in S : <<n, m>> \notin OpToRel(<, Nat)
    BY WFMin, NatLessThanWellFounded, Zenon
  <1>2. \A n \in S : ~(n < m)
    BY <1>1, Zenon DEF OpToRel
  <1> QED BY <1>2

\* A loop of n turns has a result: turn i maps what turn i - 1 left to step[i] of it.
LEMMA LoopRuns ==
  ASSUME NEW S, NEW base \in S, NEW n \in Nat, NEW step \in [1..n -> [S -> S]]
  PROVE  \E f \in [0..n -> S] : f[0] = base /\ \A i \in 1..n : f[i] = step[i][f[i - 1]]
  <1> DEFINE Good(f, k) == f \in [0..k -> S] /\ f[0] = base /\ \A i \in 1..k : f[i] = step[i][f[i - 1]]
             Bad == {k \in 0..n : ~\E f : Good(f, k)}
  <1>1. SUFFICES ASSUME Bad # {} PROVE FALSE
    <2>1. n \notin Bad
      BY <1>1
    <2>2. PICK f : Good(f, n)
      BY <2>1
    <2> QED BY <2>2
  <1>2. Bad \subseteq Nat
    OBVIOUS
  <1>3. PICK k \in Bad : \A l \in Bad : k <= l
    BY <1>1, <1>2, Least, Zenon
  <1>4. k # 0
    <2>1. Good([i \in 0..0 |-> base], 0)
      OBVIOUS
    <2> QED BY <2>1
  <1>5. k - 1 \in 0..n /\ k - 1 \notin Bad /\ k \in 1..n
    BY <1>3, <1>4
  <1>6. PICK f : Good(f, k - 1)
    BY <1>5
  <1>7. PICK g : g = [i \in 0..k |-> IF i = k THEN step[k][f[k - 1]] ELSE f[i]]
    OBVIOUS
  <1>8. Good(g, k)
    <2>1. step[k] \in [S -> S] /\ f[k - 1] \in S
      BY <1>5, <1>6
    <2>2. g \in [0..k -> S] /\ g[0] = base
      BY <1>4, <1>5, <1>6, <1>7, <2>1
    <2>3. ASSUME NEW i \in 1..k PROVE g[i] = step[i][g[i - 1]]
      <3>1. i - 1 \in 0..(k - 1) /\ g[i - 1] = f[i - 1]
        BY <1>5, <1>7, <2>3
      <3>2. CASE i = k
        BY <1>7, <3>1, <3>2
      <3>3. CASE i # k
        <4>1. i \in 1..(k - 1) /\ g[i] = f[i]
          BY <1>5, <1>7, <3>3
        <4> QED BY <1>6, <3>1, <4>1
      <3> QED BY <3>2, <3>3
    <2> QED BY <2>2, <2>3
  <1> HIDE DEF Good
  <1> QED BY <1>3, <1>8

(***************************************************************************)
(* The delay.                                                              *)
(***************************************************************************)

\* A turn of webhookBackoff's loop.
Doubled(x) == IF x > Ceiling \div 2 THEN Ceiling ELSE Wrap(2 * x)

\* It keeps a delay one, doubles exactly below the ceiling and wraps nothing.
LEMMA DoubledIsExact ==
  ASSUME NEW x \in Nat \ {0}
  PROVE  /\ Doubled(x) \in Nat \ {0}
         /\ Doubled(x) = IF 2 * x <= Ceiling THEN 2 * x ELSE Ceiling
  <1> PICK C \in Nat \ {0} : C = Ceiling
    BY DeliveryAssumption
  <1>1. CASE x > C \div 2
    BY <1>1 DEF Doubled
  <1>2. CASE ~(x > C \div 2)
    <2>1. 2 * x <= C /\ 2 * x \in Nat
      BY <1>2
    <2>2. (2 * x) % (4 * C) = 2 * x
      BY <2>1
    <2>3. Wrap(2 * x) = 2 * x
      BY <2>1, <2>2 DEF Wrap
    <2> QED BY <1>2, <2>1, <2>3 DEF Doubled
  <1> QED BY <1>1, <1>2

\* The loop: its first value is the base and each other the double of the one before.
LEMMA DoublingsRun ==
  ASSUME NEW base \in Nat \ {0}, NEW n \in Nat
  PROVE  /\ Doublings(base, n) \in [0..n -> Nat \ {0}]
         /\ Doublings(base, n)[0] = base
         /\ \A i \in 1..n : Doublings(base, n)[i] = Doubled(Doublings(base, n)[i - 1])
  <1> DEFINE Body(f) == [i \in 0..n |-> IF i = 0 THEN base
                                       ELSE IF f[i - 1] > Ceiling \div 2 THEN Ceiling ELSE Wrap(2 * f[i - 1])]
  <1>1. PICK step : step = [i \in 1..n |-> [x \in Nat \ {0} |-> Doubled(x)]]
    OBVIOUS
  <1>2. step \in [1..n -> [Nat \ {0} -> Nat \ {0}]]
    BY <1>1, DoubledIsExact
  <1>3. PICK f \in [0..n -> Nat \ {0}] : f[0] = base /\ \A i \in 1..n : f[i] = step[i][f[i - 1]]
    <2>1. PICK S, b : S = Nat \ {0} /\ b = base
      OBVIOUS
    <2>2. b \in S /\ step \in [1..n -> [S -> S]]
      BY <1>2, <2>1
    <2>3. \E f \in [0..n -> S] : f[0] = b /\ \A i \in 1..n : f[i] = step[i][f[i - 1]]
      <3>1. n \in Nat
        OBVIOUS
      <3> QED BY <2>2, <3>1, LoopRuns, SMTT(30)
    <2> QED BY <2>1, <2>3
  <1>4. \A i \in 1..n : f[i] = Doubled(f[i - 1])
    BY <1>1, <1>3
  <1>5. f = Body(f)
    <2>1. \A i \in 0..n : f[i] = Body(f)[i]
      BY <1>3, <1>4 DEF Doubled
    <2> QED BY <1>3, <2>1
  <1>6. PICK d : d = Doublings(base, n) /\ d = Body(d)
    BY <1>5 DEF Doublings
  <1>7. d[0] = base /\ \A i \in 1..n : d[i] = Doubled(d[i - 1])
    <2>1. \A i \in 0..n : d[i] = IF i = 0 THEN base ELSE Doubled(d[i - 1])
      BY <1>6, Zenon DEF Doubled
    <2> QED BY <2>1
  <1>8. DOMAIN d = 0..n /\ d = [i \in 0..n |-> d[i]]
    BY <1>6
  <1> DEFINE Bad == {i \in 0..n : d[i] \notin Nat \ {0}}
  <1>9. Bad = {}
    <2> SUFFICES ASSUME Bad # {} PROVE FALSE
      OBVIOUS
    <2>1. PICK k \in Bad : \A l \in Bad : k <= l
      <3>1. Bad \subseteq Nat
        OBVIOUS
      <3> QED BY <3>1, Least, Zenon
    <2>2. k # 0 /\ k - 1 \in 0..n /\ k - 1 \notin Bad /\ k \in 1..n
      BY <2>1, <1>7
    <2>3. d[k - 1] \in Nat \ {0}
      BY <2>2
    <2>4. d[k] \in Nat \ {0}
      BY <1>7, <2>2, <2>3, DoubledIsExact
    <2> QED BY <2>1, <2>4
  <1> QED BY <1>6, <1>7, <1>8, <1>9

\* Two loops from one base agree as far as both run.
LEMMA DoublingsAgree ==
  ASSUME NEW base \in Nat \ {0}, NEW n \in Nat
  PROVE  Doublings(base, n + 1)[n] = Doublings(base, n)[n]
  <1> PICK d, e : d = Doublings(base, n) /\ e = Doublings(base, n + 1)
    OBVIOUS
  <1>1. /\ d[0] = base /\ e[0] = base
        /\ \A i \in 1..n : d[i] = Doubled(d[i - 1]) /\ e[i] = Doubled(e[i - 1])
    <2>1. n + 1 \in Nat /\ 1..n \subseteq 1..(n + 1)
      OBVIOUS
    <2>2. /\ Doublings(base, n)[0] = base
          /\ \A i \in 1..n : Doublings(base, n)[i] = Doubled(Doublings(base, n)[i - 1])
      BY DoublingsRun, Zenon
    <2>3. /\ Doublings(base, n + 1)[0] = base
          /\ \A i \in 1..(n + 1) : Doublings(base, n + 1)[i] = Doubled(Doublings(base, n + 1)[i - 1])
      BY <2>1, DoublingsRun, Zenon
    <2> QED BY <2>1, <2>2, <2>3
  <1> DEFINE Bad == {i \in 0..n : d[i] # e[i]}
  <1>2. Bad = {}
    <2> SUFFICES ASSUME Bad # {} PROVE FALSE
      OBVIOUS
    <2>1. PICK k \in Bad : \A l \in Bad : k <= l
      <3>1. Bad \subseteq Nat
        OBVIOUS
      <3> QED BY <3>1, Least, Zenon
    <2>2. k # 0 /\ k - 1 \in 0..n /\ k - 1 \notin Bad /\ k \in 1..n
      BY <2>1, <1>1
    <2>3. d[k - 1] = e[k - 1]
      BY <2>2
    <2> QED BY <1>1, <2>1, <2>2, <2>3
  <1> QED BY <1>2

\* The delay after any number of failures.
LEMMA BackoffRuns ==
  ASSUME NEW base \in Nat \ {0}, NEW n \in Nat
  PROVE  /\ WebhookBackoff(base, 0) = base
         /\ WebhookBackoff(base, n) \in Nat \ {0}
         /\ LET twice == 2 * WebhookBackoff(base, n)
            IN WebhookBackoff(base, n + 1) = IF twice <= Ceiling THEN twice ELSE Ceiling
  <1>1. \A k \in Nat : WebhookBackoff(base, k) = Doublings(base, k)[k]
    BY DEF WebhookBackoff
  <1>2. Doublings(base, 0)[0] = base
    BY DoublingsRun, 0 \in Nat
  <1>3. PICK x \in Nat \ {0} : x = Doublings(base, n)[n]
    <2>1. Doublings(base, n) \in [0..n -> Nat \ {0}]
      BY DoublingsRun, Zenon
    <2> QED BY <2>1
  <1>4. Doublings(base, n + 1)[n + 1] = Doubled(x)
    <2>1. Doublings(base, n + 1)[n + 1] = Doubled(Doublings(base, n + 1)[n])
      BY DoublingsRun, n + 1 \in Nat, n + 1 \in 1..(n + 1), (n + 1) - 1 = n
    <2> QED BY <1>3, <2>1, DoublingsAgree
  <1> QED BY <1>1, <1>2, <1>3, <1>4, DoubledIsExact

\* A delivery waits as long as configured or no longer than the ceiling.
LEMMA BackoffBounded ==
  ASSUME NEW base \in Int, NEW n \in Nat
  PROVE  /\ WebhookBackoff(base, n) \in Nat
         /\ WebhookBackoff(base, n) <= Ceiling \/ WebhookBackoff(base, n) = base
  <1>1. CASE base <= 0
    BY <1>1, DeliveryAssumption DEF WebhookBackoff
  <1>2. CASE base > 0 /\ n = 0
    BY <1>2, BackoffRuns
  <1>3. CASE base > 0 /\ n # 0
    <2>1. PICK m \in Nat : n = m + 1
      BY <1>3, n - 1 \in Nat, (n - 1) + 1 = n
    <2>2. PICK x \in Nat \ {0} : x = WebhookBackoff(base, m)
      BY <1>3, <2>1, BackoffRuns
    <2>3. WebhookBackoff(base, n) = IF 2 * x <= Ceiling THEN 2 * x ELSE Ceiling
      <3>1. base \in Nat \ {0}
        BY <1>3
      <3>2. WebhookBackoff(base, m + 1) = IF 2 * x <= Ceiling THEN 2 * x ELSE Ceiling
        BY <2>2, <3>1, BackoffRuns
      <3> QED BY <2>1, <3>2
    <2> QED BY <2>2, <2>3, DeliveryAssumption
  <1> QED BY <1>1, <1>2, <1>3

(***************************************************************************)
(* The store.                                                              *)
(***************************************************************************)

\* A lookup by event collects identifiers that are in the order.
LEMMA LookupFinds ==
  ASSUME NEW S, order \in Seq(S), NEW name, NEW tenant
  PROVE  FindByEvent(name, tenant) \in Seq(S)
  <1>0. PICK o, n, T, hit : /\ o = order /\ n = Len(order) /\ T = Seq(S)
                          /\ hit = [i \in 1..n |-> Matches(byID[order[i]], name, tenant)]
    OBVIOUS
  <1> DEFINE Body(f) == [i \in 0..Len(order) |-> IF i = 0 THEN <<>>
                           ELSE IF Matches(byID[order[i]], name, tenant) THEN Append(f[i - 1], order[i])
                           ELSE f[i - 1]]
             Turn(i, x) == IF hit[i] THEN Append(x, o[i]) ELSE x
  <1>1. n \in Nat /\ \A i \in 1..n : o[i] \in S
    BY <1>0, ElementOfSeq, LenProperties
  <1>2. \A i \in 1..n, x \in T : Turn(i, x) \in T
    BY <1>0, <1>1, AppendProperties
  <1>3. PICK f : f \in [0..n -> T] /\ f[0] = <<>> /\ \A i \in 1..n : f[i] = Turn(i, f[i - 1])
    <2>1. PICK step : step = [i \in 1..n |-> [x \in T |-> Turn(i, x)]]
      OBVIOUS
    <2>2. step \in [1..n -> [T -> T]]
      BY <1>2, <2>1
    <2>3. PICK b : b = <<>> /\ b \in T
      BY <1>0, EmptySeq
    <2>8. b \in T /\ n \in Nat
      BY <1>1, <2>3
    <2>4. \E f \in [0..n -> T] : f[0] = b /\ \A i \in 1..n : f[i] = step[i][f[i - 1]]
      BY <2>2, <2>8, LoopRuns
    <2>5. PICK f \in [0..n -> T] : f[0] = b /\ \A i \in 1..n : f[i] = step[i][f[i - 1]]
      BY <2>4
    <2>6. \A i \in 1..n : f[i - 1] \in T
      BY <1>1, <2>5
    <2>7. \A i \in 1..n : f[i] = Turn(i, f[i - 1])
      BY <2>1, <2>5, <2>6
    <2> QED BY <2>3, <2>5, <2>7
  <1>4. f = Body(f)
    <2>1. \A i \in 0..n : f[i] = Body(f)[i]
      <3>1. ASSUME NEW i \in 1..n PROVE f[i] = Body(f)[i]
        <4>1. i \in 0..Len(order) /\ i # 0
          BY <1>0, <1>1
        <4>2. Body(f)[i] = IF Matches(byID[order[i]], name, tenant) THEN Append(f[i - 1], order[i]) ELSE f[i - 1]
          BY <4>1, Zenon
        <4>3. hit[i] = Matches(byID[order[i]], name, tenant) /\ o[i] = order[i]
          BY <1>0, Zenon
        <4> QED BY <1>3, <4>2, <4>3
      <3>2. f[0] = Body(f)[0]
        BY <1>0, <1>1, <1>3
      <3>3. \A i \in 0..n : i = 0 \/ i \in 1..n
        BY <1>1
      <3> QED BY <3>1, <3>2, <3>3, Zenon
    <2>2. DOMAIN f = 0..Len(order) /\ f = [i \in 0..Len(order) |-> f[i]]
      BY <1>0, <1>3
    <2> QED BY <1>0, <2>1, <2>2, Zenon
  <1>5. PICK d : d = Body(d) /\ FindByEvent(name, tenant) = d[Len(order)]
    BY <1>4 DEF FindByEvent
  <1>6. /\ d[0] = <<>>
        /\ \A i \in 1..n : d[i] = Turn(i, d[i - 1])
    <2>1. \A i \in 0..Len(order) : d[i] = IF i = 0 THEN <<>> ELSE
            IF Matches(byID[order[i]], name, tenant) THEN Append(d[i - 1], order[i]) ELSE d[i - 1]
      BY <1>5, Zenon
    <2>2. \A i \in 1..n : i \in 0..n /\ i # 0
      BY <1>1
    <2>3. d[0] = <<>>
      BY <1>0, <1>1, <2>1
    <2>4. \A i \in 1..n :
            d[i] = IF Matches(byID[order[i]], name, tenant) THEN Append(d[i - 1], order[i]) ELSE d[i - 1]
      BY <1>0, <2>1, <2>2
    <2>5. \A i \in 1..n : hit[i] = Matches(byID[order[i]], name, tenant) /\ o[i] = order[i]
      BY <1>0, Zenon
    <2> QED BY <2>3, <2>4, <2>5
  <1> DEFINE Bad == {i \in 0..n : d[i] \notin T}
  <1>7. Bad = {}
    <2> SUFFICES ASSUME Bad # {} PROVE FALSE
      OBVIOUS
    <2>1. PICK k \in Bad : \A l \in Bad : k <= l
      <3>1. Bad \subseteq Nat
        BY <1>1
      <3> QED BY <3>1, Least, Zenon
    <2>2. k # 0
      BY <1>0, <1>6, <2>1, EmptySeq
    <2>3. k - 1 \in 0..n /\ k - 1 \notin Bad /\ k \in 1..n
      BY <1>1, <2>1, <2>2
    <2>4. d[k - 1] \in T
      BY <2>3
    <2>5. d[k] = Turn(k, d[k - 1])
      BY <1>6, <2>3
    <2>6. d[k] \in T
      BY <1>2, <2>3, <2>4, <2>5
    <2> QED BY <2>1, <2>6
  <1>8. n \in 0..n /\ n \notin Bad
    BY <1>1, <1>7
  <1> QED BY <1>0, <1>5, <1>8

\* The prefix shown after k pages, and what the next page adds to it.
LEMMA PagesAdvance ==
  ASSUME NEW S, order \in Seq(S), NEW limit \in Nat \ {0}, NEW from \in Nat
  PROVE  LET Prefix(n) == SubSeq(order, 1, IF n <= Len(order) THEN n ELSE Len(order))
         IN Prefix(from) \o ListWebhooks(limit, from) = Prefix(from + limit) /\ Prefix(0) = <<>>
  <1> PICK o, n : o = order /\ n = Len(order) /\ o \in Seq(S) /\ n \in Nat
    BY LenProperties
  <1>1. SubSeq(o, 1, 0) = <<>>
    BY SubSeqEmpty
  <1>2. CASE from >= n
    <2>1. ListWebhooks(limit, from) = <<>>
      BY <1>2 DEF ListWebhooks
    <2>2. SubSeq(o, 1, n) \o <<>> = SubSeq(o, 1, n)
      BY SubSeqFull, ConcatEmptySeq
    <2>3. (from <= n => from = n) /\ ~(from + limit <= n)
      BY <1>2
    <2> QED BY <1>1, <2>1, <2>2, <2>3
  <1>3. CASE ~(from >= n)
    <2>1. PICK end : end = IF from + limit > n THEN n ELSE from + limit
      OBVIOUS
    <2>2. ListWebhooks(limit, from) = SubSeq(o, from + 1, end)
      <3>1. ~(limit <= 0 \/ from >= Len(order)) /\ ~(from < 0)
        BY <1>3
      <3> QED BY <2>1, <3>1 DEF ListWebhooks
    <2>3. 1 \in 1..(n + 1) /\ from \in (1 - 1)..n /\ end \in from..n
      BY <1>3, <2>1
    <2>4. SubSeq(o, 1, from) \o SubSeq(o, from + 1, end) = SubSeq(o, 1, end)
      BY <2>3, ConcatAdjacentSubSeq
    <2>5. end = IF from + limit <= n THEN from + limit ELSE n
      BY <2>1
    <2>6. /\ (IF from <= n THEN from ELSE n) = from
          /\ (IF from + limit <= n THEN from + limit ELSE n) = end
          /\ (IF 0 <= n THEN 0 ELSE n) = 0
      BY <1>3, <2>5
    <2> QED BY <1>1, <2>2, <2>4, <2>6
  <1> QED BY <1>2, <1>3

\* Whatever the size of a page, the pages show the whole order.
LEMMA PagesAddUp ==
  ASSUME NEW S, order \in Seq(S), NEW limit \in Nat \ {0}, NEW N \in Nat, Len(order) < N
  PROVE  FlattenSeq([k \in 1..N |-> ListWebhooks(limit, (k - 1) * limit)]) = order
  <1> PICK o, L : o = order /\ L = Len(order) /\ o \in Seq(S) /\ L \in Nat /\ L < N
    BY LenProperties
  <1> PICK pages : pages = [k \in 1..N |-> ListWebhooks(limit, (k - 1) * limit)]
    OBVIOUS
  <1> DEFINE Upto(n) == SubSeq(o, 1, IF n <= L THEN n ELSE L)
             Body(f) == [k \in 1..Len(pages) |-> IF k = 1 THEN pages[k] ELSE f[k - 1] \o pages[k]]
  <1>1. DOMAIN pages = 1..N /\ Len(pages) = N /\ N # 0
    OBVIOUS
  <1>2. PICK start \in [0..N -> Nat] : \A k \in 0..N : start[k] = k * limit
    <2>1. [k \in 0..N |-> k * limit] \in [0..N -> Nat]
      OBVIOUS
    <2> QED BY <2>1
  <1>3. /\ start[0] = 0 /\ start[N] > L
        /\ \A k \in 1..N : start[k] = start[k - 1] + limit /\ start[k - 1] = (k - 1) * limit
    <2>1. N * limit >= N
      OBVIOUS
    <2>2. \A k \in 1..N : k * limit = (k - 1) * limit + limit /\ k - 1 \in 0..N
      OBVIOUS
    <2> QED BY <1>1, <1>2, <2>1, <2>2
  <1>4. /\ Upto(0) = <<>>
        /\ \A from \in Nat : Upto(from) \o ListWebhooks(limit, from) = Upto(from + limit)
    BY PagesAdvance
  <1> HIDE DEF Upto
  <1>5. \A k \in 1..N : Upto(start[k - 1]) \o pages[k] = Upto(start[k])
    <2> SUFFICES ASSUME NEW k \in 1..N PROVE Upto(start[k - 1]) \o pages[k] = Upto(start[k])
      OBVIOUS
    <2>1. start[k - 1] \in Nat /\ start[k] = start[k - 1] + limit
      <3>1. k - 1 \in 0..N /\ start[k] = start[k - 1] + limit
        BY <1>3
      <3>2. start[k - 1] \in Nat
        BY <1>2, <3>1
      <3> QED BY <3>1, <3>2
    <2>2. pages[k] = ListWebhooks(limit, start[k - 1])
      BY <1>3
    <2> QED BY <1>4, <2>1, <2>2
  <1>6. pages[1] = Upto(start[1])
    <2>1. ListWebhooks(limit, 0) \in Seq(S)
      <3>1. CASE L = 0
        BY <3>1, EmptySeq DEF ListWebhooks
      <3>2. CASE L # 0
        <4>1. PICK end : end = IF 0 + limit > Len(order) THEN Len(order) ELSE 0 + limit
          OBVIOUS
        <4>2. ~(limit <= 0 \/ 0 >= Len(order)) /\ ~(0 < 0)
          BY <3>2
        <4>3. ListWebhooks(limit, 0) = SubSeq(order, 0 + 1, end)
          BY <4>1, <4>2 DEF ListWebhooks
        <4>4. end \in 0..L /\ \A i \in (0 + 1)..end : order[i] \in S
          BY <4>1, ElementOfSeq
        <4>5. 0 + 1 \in Int /\ end \in Int
          BY <4>4
        <4>6. SubSeq(order, 0 + 1, end) \in Seq(S)
          BY <4>4, <4>5, SubSeqProperties
        <4> QED BY <4>3, <4>6
      <3> QED BY <3>1, <3>2
    <2>2. pages[1] = ListWebhooks(limit, 0)
      BY <1>1, <1>3
    <2>3. <<>> \o pages[1] = pages[1]
      BY <2>1, <2>2, ConcatEmptySeq
    <2>4. Upto(start[0]) \o pages[1] = Upto(start[1])
      BY <1>1, <1>5, 1 - 1 = 0, 1 \in 1..N
    <2> QED BY <1>3, <1>4, <2>3, <2>4
  <1>7. PICK f : f = [k \in 1..N |-> Upto(start[k])]
    OBVIOUS
  <1>8. f = Body(f)
    <2>1. \A k \in 1..N : f[k] = IF k = 1 THEN pages[k] ELSE f[k - 1] \o pages[k]
      <3> SUFFICES ASSUME NEW k \in 1..N PROVE f[k] = IF k = 1 THEN pages[k] ELSE f[k - 1] \o pages[k]
        OBVIOUS
      <3>1. CASE k = 1
        BY <1>6, <1>7, <3>1
      <3>2. CASE k # 1
        <4>1. k - 1 \in 1..N
          BY <3>2
        <4> QED BY <1>5, <1>7, <3>2, <4>1
      <3> QED BY <3>1, <3>2
    <2> QED BY <1>1, <1>7, <2>1
  <1>9. PICK d : d = Body(d) /\ FlattenSeq(pages) = d[Len(pages)]
    BY <1>1, <1>8 DEF FlattenSeq
  <1>10. \A k \in 1..N : d[k] = IF k = 1 THEN pages[k] ELSE d[k - 1] \o pages[k]
    BY <1>1, <1>9, Zenon
  <1> DEFINE Bad == {k \in 1..N : d[k] # Upto(start[k])}
  <1>11. Bad = {}
    <2> SUFFICES ASSUME Bad # {} PROVE FALSE
      OBVIOUS
    <2>1. PICK k \in Bad : \A l \in Bad : k <= l
      <3>1. Bad \subseteq Nat
        OBVIOUS
      <3> QED BY <3>1, Least, Zenon
    <2>2. k # 1 /\ k - 1 \in 1..N /\ k - 1 \notin Bad
      <3>1. k \in 1..N /\ d[k] # Upto(start[k])
        BY <2>1
      <3>2. k # 1
        BY <1>6, <1>10, <3>1
      <3>3. k - 1 \in 1..N /\ k - 1 \notin Bad
        <4>1. k - 1 \in 1..N /\ ~(k <= k - 1)
          BY <3>1, <3>2
        <4> QED BY <2>1, <4>1
      <3> QED BY <3>2, <3>3
    <2>3. d[k] = Upto(start[k - 1]) \o pages[k]
      BY <1>10, <2>1, <2>2
    <2> QED BY <1>5, <2>1, <2>3
  <1>12. d[N] = Upto(start[N]) /\ start[N] \in Nat
    <2>1. N \in 1..N /\ N \in 0..N
      BY <1>1
    <2>2. N \notin Bad
      BY <1>11
    <2> QED BY <1>2, <2>1, <2>2
  <1>13. Upto(start[N]) = SubSeq(o, 1, L)
    BY <1>3, <1>12 DEF Upto
  <1> QED BY <1>1, <1>9, <1>12, <1>13, SubSeqFull

\* Removing an identifier that stands at one place closes the gap.
LEMMA RemovalClosesGap ==
  ASSUME NEW S, NEW s \in Seq(S), NEW e, NEW i \in 1..Len(s), s[i] = e,
         \A j \in 1..Len(s) : s[j] = e => j = i
  PROVE  /\ RemoveFirst(s, e) \in Seq(S)
         /\ Len(RemoveFirst(s, e)) = Len(s) - 1
         /\ \A k \in 1..(Len(s) - 1) : RemoveFirst(s, e)[k] = IF k < i THEN s[k] ELSE s[k + 1]
  <1>1. {j \in 1..Len(s) : s[j] = e} = {i}
    OBVIOUS
  <1>2. Min({i}) = i
    BY DEF Min
  <1>3. RemoveFirst(s, e) = RemoveAt(s, i)
    BY <1>1, <1>2, i \in 1..Len(s), s[i] = e DEF RemoveFirst, SelectInSeq
  <1>4. Len(s) \in Nat /\ \A j \in 1..Len(s) : s[j] \in S
    BY ElementOfSeq, LenProperties
  <1>5. PICK a : a = SubSeq(s, 1, i - 1)
    OBVIOUS
  <1>6. /\ a \in Seq(S) /\ Len(a) = i - 1
        /\ \A k \in 1..(i - 1) : a[k] = s[k]
    <2>1. \A j \in 1..(i - 1) : s[j] \in S
      BY <1>4
    <2>2. /\ SubSeq(s, 1, i - 1) \in Seq(S)
          /\ Len(SubSeq(s, 1, i - 1)) = IF 1 <= i - 1 THEN (i - 1) - 1 + 1 ELSE 0
          /\ \A k \in 1..((i - 1) - 1 + 1) : SubSeq(s, 1, i - 1)[k] = s[1 + k - 1]
      BY <2>1, SubSeqProperties, 1 \in Int, i - 1 \in Int
    <2> QED BY <1>5, <2>2
  <1>7. PICK b : b = SubSeq(s, i + 1, Len(s))
    OBVIOUS
  <1>8. /\ b \in Seq(S) /\ Len(b) = Len(s) - i
        /\ \A k \in 1..(Len(s) - i) : b[k] = s[i + k]
    <2>1. \A j \in (i + 1)..Len(s) : s[j] \in S
      BY <1>4
    <2>2. /\ SubSeq(s, i + 1, Len(s)) \in Seq(S)
          /\ Len(SubSeq(s, i + 1, Len(s))) = IF i + 1 <= Len(s) THEN Len(s) - (i + 1) + 1 ELSE 0
          /\ \A k \in 1..(Len(s) - (i + 1) + 1) : SubSeq(s, i + 1, Len(s))[k] = s[(i + 1) + k - 1]
      BY <1>4, <2>1, SubSeqProperties, i + 1 \in Int
    <2> QED BY <1>4, <1>7, <2>2
  <1>9. /\ a \o b \in Seq(S) /\ Len(a \o b) = Len(s) - 1
        /\ \A k \in 1..(Len(s) - 1) : (a \o b)[k] = IF k <= Len(a) THEN a[k] ELSE b[k - Len(a)]
    <2>1. a \in Seq(S) /\ b \in Seq(S)
      BY <1>6, <1>8
    <2>2. /\ a \o b \in Seq(S) /\ Len(a \o b) = Len(a) + Len(b)
          /\ \A k \in 1..(Len(a) + Len(b)) : (a \o b)[k] = IF k <= Len(a) THEN a[k] ELSE b[k - Len(a)]
      BY <2>1, ConcatProperties
    <2>3. Len(a) + Len(b) = Len(s) - 1
      BY <1>4, <1>6, <1>8
    <2> QED BY <2>2, <2>3
  <1>10. ASSUME NEW k \in 1..(Len(s) - 1)
         PROVE (a \o b)[k] = IF k < i THEN s[k] ELSE s[k + 1]
    <2>1. CASE k < i
      BY <1>4, <1>6, <1>9, <2>1
    <2>2. CASE ~(k < i)
      <3>1. k - (i - 1) \in 1..(Len(s) - i) /\ i + (k - (i - 1)) = k + 1
        BY <1>4, <2>2
      <3> QED BY <1>4, <1>6, <1>8, <1>9, <2>2, <3>1
    <2> QED BY <2>1, <2>2
  <1>11. RemoveFirst(s, e) = a \o b
    BY <1>3, <1>5, <1>7 DEF RemoveAt
  <1> QED BY <1>9, <1>10, <1>11

(***************************************************************************)
(* The steps.                                                              *)
(***************************************************************************)

\* The readers of a configuration yield numbers.
LEMMA ReadersType ==
  ASSUME NEW c, ConfigFine(c)
  PROVE  Retries(c) \in Int /\ RetryDelay(c) \in Int
  <1>1. c.MaxRetries \in Int \cup {Unset} /\ c.RetryDelay \in Int \cup {Unset}
    BY DEF ConfigFine, Holds, ConfigFields
  <1> QED BY <1>1 DEF Retries, RetryDelay, DefaultWebhookMaxRetries, DefaultWebhookRetryDelay

\* Nothing is there at the start.
LEMMA DeliveryInitInv == DeliveryInit => HooksInv
  <1> SUFFICES ASSUME DeliveryInit PROVE HooksInv
    OBVIOUS
  <1>1. StoreFine
    <2>1. byID = <<>> /\ order = <<>> /\ lastHook = 0
      BY DEF DeliveryInit, HookInit
    <2>2. order \in Seq(1..lastHook) /\ Len(order) = 0 /\ DOMAIN order = {} /\ DOMAIN byID = {}
      BY <2>1
    <2> QED BY <2>1, <2>2, WebhookAssumption DEF StoreFine, OrderMatchesIndex, ToSet
  <1>2. JobsFine
    <2>1. jobs = <<>> /\ Len(jobs) = 0 /\ DOMAIN jobs = {}
      BY DEF DeliveryInit, OutInit
    <2>2. jobs = [j \in 1..Len(jobs) |-> jobs[j]]
      BY <2>1
    <2> QED BY <2>1, <2>2 DEF JobsFine
  <1>3. wire \cup received = {}
    BY DEF DeliveryInit, OutInit
  <1>4. InboundsFine
    BY DEF DeliveryInit, InInit, InboundsFine, InboundFine, NoRequest, Stands
  <1> QED BY <1>1, <1>2, <1>3, <1>4 DEF HooksInv

\* The store's part rests on the store alone.
LEMMA StoreKept ==
  ASSUME StoreFine, UNCHANGED hookVars
  PROVE  StoreFine'
  BY DEF StoreFine, hookVars, OrderMatchesIndex, ConfigFine, Holds

\* The requests' part rests on theirs.
LEMMA InboundsKept ==
  ASSUME InboundsFine, UNCHANGED inVars
  PROVE  InboundsFine'
  BY DEF InboundsFine, InboundFine, inVars, Stands

\* And the deliveries' on theirs.
LEMMA OutKept ==
  ASSUME JobsFine, \A p \in wire \cup received : PostFine(p), UNCHANGED outVars
  PROVE  JobsFine' /\ (\A p \in wire \cup received : PostFine(p))'
  BY DEF JobsFine, JobFine, PostFine, PostOf, ConfigFine, outVars

\* A post stays the one of its attempt while deliveries keep configuration and event.
LEMMA PostsKept ==
  ASSUME NEW p, PostFine(p), DOMAIN jobs \subseteq DOMAIN jobs',
         \A j \in DOMAIN jobs : jobs'[j].cfg = jobs[j].cfg /\ jobs'[j].ev = jobs[j].ev
  PROVE  PostFine(p)'
  BY DEF PostFine, PostOf

\* One delivery moves on.
LEMMA JobMoves ==
  ASSUME HooksInv, NEW j \in DOMAIN jobs, NEW job, jobs' = [jobs EXCEPT ![j] = job],
         JobFine(job), job.cfg = jobs[j].cfg, job.ev = jobs[j].ev, received' = received,
         job.st = "delivered" => \E p \in received : p.job = j
  PROVE  JobsFine' /\ \A p \in wire \cup received : PostFine(p)'
  <1>1. /\ Len(jobs) \in Nat /\ jobs = [k \in 1..Len(jobs) |-> jobs[k]] /\ DOMAIN jobs = 1..Len(jobs)
    BY DEF HooksInv, JobsFine
  <1>2. PICK n \in Nat : n = Len(jobs)
    BY <1>1
  <1>3. /\ jobs' = [k \in 1..n |-> IF k = j THEN job ELSE jobs[k]]
        /\ DOMAIN jobs' = 1..n /\ Len(jobs') = n
    <2>1. jobs' = [k \in 1..n |-> IF k = j THEN job ELSE jobs[k]]
      BY <1>1, <1>2
    <2>2. PICK f : f = jobs' /\ f = [k \in 1..n |-> IF k = j THEN job ELSE jobs[k]]
      BY <2>1
    <2>3. DOMAIN f = 1..n /\ Len(f) = n
      BY <1>2, <2>2
    <2> QED BY <2>1, <2>2, <2>3
  <1>4. jobs' = [k \in 1..Len(jobs') |-> jobs'[k]]
    BY <1>3
  <1>5. \A k \in 1..n : jobs'[k] = IF k = j THEN job ELSE jobs[k]
    BY <1>3
  <1>6. \A k \in 1..n : JobFine(jobs'[k])
    BY <1>1, <1>2, <1>5 DEF HooksInv, JobsFine
  <1>7. \A k \in 1..n : jobs'[k].st = "delivered" => \E p \in received : p.job = k
    BY <1>1, <1>2, <1>5 DEF HooksInv, JobsFine
  <1>8. JobsFine'
    <2>1. \A k : JobFine(jobs'[k]) => JobFine(jobs[k])'
      BY DEF JobFine, ConfigFine
    <2> QED BY <1>3, <1>4, <1>6, <1>7, <2>1 DEF JobsFine
  <1>9. \A k \in DOMAIN jobs : jobs'[k].cfg = jobs[k].cfg /\ jobs'[k].ev = jobs[k].ev
    BY <1>1, <1>2, <1>5
  <1>10. ASSUME NEW p \in wire \cup received PROVE PostFine(p)'
    BY <1>1, <1>2, <1>3, <1>9, PostsKept DEF HooksInv
  <1> QED BY <1>8, <1>10

\* What a step of the sender may be taken from.
LEMMA JobFacts ==
  ASSUME HooksInv, NEW j \in DOMAIN jobs
  PROVE  \E id, cfg, ev, st : \E attempt \in Nat, wait \in Nat :
           /\ jobs[j] = [id |-> id, cfg |-> cfg, ev |-> ev, attempt |-> attempt, wait |-> wait, st |-> st]
           /\ JobFine(jobs[j])
  <1>1. JobFine(jobs[j])
    BY DEF HooksInv, JobsFine
  <1> QED BY <1>1 DEF JobFine

\* A sender whose state is only renamed.
LEMMA Renamed ==
  ASSUME HooksInv, NEW j \in DOMAIN jobs, NEW st, Go(j, st), received' = received,
         st \in Ended \cup {"send", "posted", "sleep"},
         st = "posted" => jobs[j].attempt <= Retries(jobs[j].cfg),
         st = "gaveup" => jobs[j].attempt = Retries(jobs[j].cfg),
         st = "skipped" => Retries(jobs[j].cfg) < 0,
         st = "delivered" => \E p \in received : p.job = j
  PROVE  /\ JobsFine' /\ \A p \in wire \cup received : PostFine(p)'
         /\ jobs'[j] = [jobs[j] EXCEPT !.st = st] /\ DOMAIN jobs' = DOMAIN jobs
  <1>1. PICK job : job = [jobs[j] EXCEPT !.st = st]
    OBVIOUS
  <1>2. jobs' = [jobs EXCEPT ![j] = job]
    BY <1>1 DEF Go
  <1>3. PICK id, cfg, ev, was : \E attempt \in Nat, wait \in Nat :
           /\ jobs[j] = [id |-> id, cfg |-> cfg, ev |-> ev, attempt |-> attempt, wait |-> wait, st |-> was]
           /\ JobFine(jobs[j])
    BY JobFacts
  <1>4. PICK attempt \in Nat, wait \in Nat :
           /\ jobs[j] = [id |-> id, cfg |-> cfg, ev |-> ev, attempt |-> attempt, wait |-> wait, st |-> was]
           /\ JobFine(jobs[j])
    BY <1>3
  <1>5. job = [id |-> id, cfg |-> cfg, ev |-> ev, attempt |-> attempt, wait |-> wait, st |-> st]
    BY <1>1, <1>4
  <1>6. /\ jobs[j].cfg = cfg /\ jobs[j].ev = ev /\ jobs[j].attempt = attempt /\ jobs[j].wait = wait
        /\ job.id = id /\ job.cfg = cfg /\ job.ev = ev /\ job.attempt = attempt /\ job.wait = wait /\ job.st = st
    BY <1>4, <1>5
  <1>7. JobFine(job)
    BY <1>4, <1>5, <1>6 DEF JobFine
  <1>8. JobsFine' /\ \A p \in wire \cup received : PostFine(p)'
    BY <1>2, <1>6, <1>7, JobMoves
  <1> QED BY <1>1, <1>2, <1>8

\* Send posts the attempt's own post, and nothing else changes but the delivery's state.
LEMMA SendInv ==
  ASSUME HooksInv, NEW j \in DOMAIN jobs, Send(j)
  PROVE  HooksInv'
  <1>1. /\ jobs[j].st = "send" /\ jobs[j].attempt <= Retries(jobs[j].cfg)
        /\ wire' = wire \cup {Post(j, DeliveryID(j, jobs[j].attempt))}
        /\ Go(j, "posted") /\ UNCHANGED hookVars /\ UNCHANGED inVars /\ received' = received
    BY DEF Send
  <1>2. /\ JobsFine' /\ \A p \in wire \cup received : PostFine(p)'
        /\ jobs'[j] = [jobs[j] EXCEPT !.st = "posted"] /\ DOMAIN jobs' = DOMAIN jobs
    BY <1>1, Renamed
  <1>3. JobFine(jobs[j])
    BY DEF HooksInv, JobsFine
  <1>4. PICK p : p = Post(j, DeliveryID(j, jobs[j].attempt))
    OBVIOUS
  <1>5. PostFine(p)'
    <2>1. p.job = j /\ p.attempt = jobs[j].attempt /\ p.attempt \in Nat
      BY <1>3, <1>4 DEF Post, JobFine
    <2>2. jobs'[j].cfg = jobs[j].cfg /\ jobs'[j].ev = jobs[j].ev
      BY <1>2, <1>3 DEF JobFine
    <2>3. p = PostOf(j, p.attempt)'
      BY <1>4, <2>1, <2>2 DEF Post, PostOf
    <2> QED BY <1>1, <1>2, <2>1, <2>2, <2>3 DEF PostFine
  <1>6. (\A q \in wire \cup received : PostFine(q))'
    BY <1>1, <1>2, <1>4, <1>5
  <1>7. StoreFine' /\ InboundsFine'
    BY <1>1, StoreKept, InboundsKept DEF HooksInv
  <1> QED BY <1>2, <1>6, <1>7 DEF HooksInv

\* The other steps of a sender post nothing.
LEMMA SenderInv ==
  ASSUME HooksInv, NEW j \in DOMAIN jobs,
         SendNoID(j) \/ SendNothing(j) \/ SendAnswered(j) \/ SendFailed(j) \/ SendWake(j)
  PROVE  HooksInv'
  <1>1. UNCHANGED hookVars /\ UNCHANGED inVars /\ wire' = wire /\ received' = received
    BY DEF SendNoID, SendNothing, SendAnswered, SendFailed, SendWake
  <1>2. JobFine(jobs[j])
    BY DEF HooksInv, JobsFine
  <1>3. jobs[j].attempt \in Nat /\ Retries(jobs[j].cfg) \in Int /\ RetryDelay(jobs[j].cfg) \in Int
    BY <1>2, ReadersType DEF JobFine
  <1>4. JobsFine' /\ \A p \in wire \cup received : PostFine(p)'
    <2>1. CASE SendNoID(j)
      BY <1>1, <2>1, Renamed DEF SendNoID, Ended
    <2>2. CASE SendNothing(j)
      <3>1. Retries(jobs[j].cfg) < 0
        BY <1>2, <1>3, <2>2 DEF SendNothing, JobFine
      <3> QED BY <1>1, <2>2, <3>1, Renamed DEF SendNothing, Ended
    <2>3. CASE SendAnswered(j)
      BY <1>1, <2>3, Renamed DEF SendAnswered, Ended
    <2>4. CASE SendWake(j)
      BY <1>1, <2>4, Renamed DEF SendWake, Ended
    <2>5. CASE SendFailed(j) /\ jobs[j].attempt >= Retries(jobs[j].cfg)
      <3>1. Go(j, "gaveup") /\ jobs[j].st = "posted"
        BY <2>5 DEF SendFailed
      <3>2. jobs[j].attempt = Retries(jobs[j].cfg)
        BY <1>2, <1>3, <2>5, <3>1 DEF JobFine
      <3> QED BY <1>1, <3>1, <3>2, Renamed DEF Ended
    <2>6. CASE SendFailed(j) /\ ~(jobs[j].attempt >= Retries(jobs[j].cfg))
      <3>1. PICK job, next : /\ next = WebhookBackoff(RetryDelay(jobs[j].cfg), jobs[j].attempt)
                             /\ job = [jobs[j] EXCEPT !.st = "sleep", !.attempt = @ + 1, !.wait = next]
        OBVIOUS
      <3>2. jobs' = [jobs EXCEPT ![j] = job]
        BY <2>6, <3>1 DEF SendFailed
      <3>3. next \in Nat /\ (next <= Ceiling \/ next = RetryDelay(jobs[j].cfg))
        BY <1>3, <3>1, BackoffBounded
      <3>4. PICK id, cfg, ev, st : \E attempt \in Nat, wait \in Nat :
              /\ jobs[j] = [id |-> id, cfg |-> cfg, ev |-> ev, attempt |-> attempt, wait |-> wait, st |-> st]
              /\ JobFine(jobs[j])
        BY JobFacts
      <3>5. PICK attempt \in Nat, wait \in Nat :
              /\ jobs[j] = [id |-> id, cfg |-> cfg, ev |-> ev, attempt |-> attempt, wait |-> wait, st |-> st]
              /\ JobFine(jobs[j])
        BY <3>4
      <3>6. job = [id |-> id, cfg |-> cfg, ev |-> ev, attempt |-> attempt + 1, wait |-> next, st |-> "sleep"]
        <4>1. PICK old : old = jobs[j]
          OBVIOUS
        <4>2. old = [id |-> id, cfg |-> cfg, ev |-> ev, attempt |-> attempt, wait |-> wait, st |-> st]
          BY <3>5, <4>1
        <4>3. job = [old EXCEPT !.st = "sleep", !.attempt = old.attempt + 1, !.wait = next]
          BY <3>1, <4>1, Zenon
        <4> QED BY <4>2, <4>3
      <3>7. /\ jobs[j].cfg = cfg /\ jobs[j].ev = ev /\ jobs[j].attempt = attempt
            /\ job.id = id /\ job.cfg = cfg /\ job.ev = ev /\ job.attempt = attempt + 1 /\ job.wait = next
            /\ job.st = "sleep"
        BY <3>5, <3>6
      <3>8. attempt + 1 <= Retries(cfg)
        BY <1>3, <2>6, <3>7
      <3>9. JobFine(job)
        BY <1>2, <3>3, <3>6, <3>7, <3>8 DEF JobFine
      <3> QED BY <1>1, <3>2, <3>7, <3>9, JobMoves
    <2> QED BY <2>1, <2>2, <2>3, <2>4, <2>5, <2>6, Zenon
  <1>5. StoreFine' /\ InboundsFine'
    BY <1>1, StoreKept, InboundsKept DEF HooksInv
  <1> QED BY <1>1, <1>4, <1>5 DEF HooksInv

\* Emit starts deliveries of configurations that are in the store.
LEMMA EmitInv ==
  ASSUME HooksInv, Emit
  PROVE  HooksInv'
  <1>1. UNCHANGED hookVars /\ UNCHANGED inVars /\ wire' = wire /\ received' = received
    BY DEF Emit
  <1>2. StoreFine' /\ InboundsFine'
    BY <1>1, StoreKept, InboundsKept DEF HooksInv
  <1>3. CASE UNCHANGED jobs
    BY <1>1, <1>2, <1>3 DEF HooksInv, JobsFine, JobFine, PostFine, PostOf, ConfigFine
  <1>4. CASE ~UNCHANGED jobs
    <2>1. PICK ev \in OutEvents : \E ids : /\ ids = FindByEvent(ev.Name, ev.TenantID)
                                           /\ jobs' = jobs \o [i \in DOMAIN ids |-> NewJob(ids[i], ev)]
      BY <1>4 DEF Emit
    <2>2. PICK ids : /\ ids = FindByEvent(ev.Name, ev.TenantID)
                     /\ jobs' = jobs \o [i \in DOMAIN ids |-> NewJob(ids[i], ev)]
      BY <2>1
    <2>3. PICK S : S = DOMAIN byID /\ order \in Seq(S)
      <3>1. order \in Seq(1..lastHook) /\ ToSet(order) = DOMAIN byID
        BY DEF HooksInv, StoreFine, OrderMatchesIndex
      <3>2. order \in Seq(DOMAIN byID)
        BY <3>1 DEF ToSet
      <3> QED BY <3>2
    <2>4. ids \in Seq(S)
      BY <2>2, <2>3, LookupFinds
    <2>5. PICK more : more = [i \in DOMAIN ids |-> NewJob(ids[i], ev)]
      OBVIOUS
    <2>6. PICK m \in Nat : m = Len(ids) /\ DOMAIN ids = 1..m /\ \A i \in 1..m : ids[i] \in DOMAIN byID
      BY <2>3, <2>4, ElementOfSeq, LenProperties
    <2>7. PICK n \in Nat : n = Len(jobs) /\ DOMAIN jobs = 1..n /\ jobs = [j \in 1..n |-> jobs[j]]
      BY DEF HooksInv, JobsFine
    <2>8. PICK T : T = {jobs[j] : j \in 1..n} \cup {more[i] : i \in 1..m}
      OBVIOUS
    <2>9. jobs \in Seq(T) /\ more \in Seq(T) /\ Len(more) = m
      BY <2>5, <2>6, <2>7, <2>8
    <2>10. /\ jobs' \in Seq(T) /\ Len(jobs') = n + m /\ DOMAIN jobs' = 1..(n + m)
           /\ \A j \in 1..(n + m) : jobs'[j] = IF j <= n THEN jobs[j] ELSE more[j - n]
      <3>1. jobs' = jobs \o more
        BY <2>2, <2>5
      <3>2. /\ jobs \o more \in Seq(T) /\ Len(jobs \o more) = n + m
            /\ \A j \in 1..(n + m) : (jobs \o more)[j] = IF j <= n THEN jobs[j] ELSE more[j - n]
        BY <2>7, <2>9, ConcatProperties
      <3> QED BY <3>1, <3>2, LenProperties
    <2>11. jobs' = [j \in 1..Len(jobs') |-> jobs'[j]]
      BY <2>10, LenProperties
    <2>12. ASSUME NEW i \in 1..m
           PROVE  /\ JobFine(more[i]) /\ more[i].st = "send"
      <3>1. more[i] = [id |-> ids[i], cfg |-> byID[ids[i]], ev |-> ev, attempt |-> 0, wait |-> 0, st |-> "send"]
        BY <2>5, <2>6 DEF NewJob
      <3>2. ConfigFine(byID[ids[i]])
        BY <2>6 DEF HooksInv, StoreFine
      <3> QED BY <3>1, <3>2, DeliveryAssumption DEF JobFine
    <2>13. \A j \in 1..(n + m) : j <= n \/ j - n \in 1..m
      OBVIOUS
    <2>14. \A j \in 1..(n + m) : JobFine(jobs'[j])
      <3>1. \A j \in 1..n : JobFine(jobs[j])
        BY <2>7 DEF HooksInv, JobsFine
      <3>2. \A j \in 1..(n + m) : j <= n => j \in 1..n
        OBVIOUS
      <3> QED BY <2>10, <2>12, <2>13, <3>1, <3>2
    <2>15. ASSUME NEW j \in 1..(n + m), jobs'[j].st = "delivered" PROVE \E p \in received : p.job = j
      <3>1. j <= n
        BY <2>10, <2>12, <2>13, <2>15
      <3>2. j \in DOMAIN jobs /\ jobs'[j] = jobs[j]
        <4>1. j \in 1..n
          BY <3>1
        <4>2. DOMAIN jobs = 1..n
          BY <2>7
        <4> QED BY <2>10, <3>1, <4>1, <4>2
      <3> QED BY <2>15, <3>2 DEF HooksInv, JobsFine
    <2>16. JobsFine'
      <3>1. \A k : JobFine(jobs'[k]) => JobFine(jobs[k])'
        BY DEF JobFine, ConfigFine
      <3>2. Len(jobs') \in Nat
        BY <2>10
      <3> QED BY <1>1, <2>10, <2>11, <2>14, <2>15, <3>1, <3>2 DEF JobsFine
    <2>17. \A j \in DOMAIN jobs : j \in DOMAIN jobs' /\ jobs'[j] = jobs[j]
      <3>1. DOMAIN jobs = 1..n
        BY <2>7
      <3>2. \A j \in 1..n : j \in 1..(n + m) /\ j <= n
        OBVIOUS
      <3> QED BY <2>10, <3>1, <3>2
    <2>18. \A p \in wire \cup received : PostFine(p)'
      BY <2>17, PostsKept DEF HooksInv
    <2> QED BY <1>1, <1>2, <2>16, <2>18 DEF HooksInv
  <1> QED BY <1>3, <1>4

\* A post arrives or is lost.
LEMMA NetworkInv ==
  ASSUME HooksInv, EndpointReceives \/ NetworkLoses
  PROVE  HooksInv'
  <1>1. /\ UNCHANGED hookVars /\ UNCHANGED inVars /\ jobs' = jobs
        /\ received \subseteq received' /\ wire' \cup received' \subseteq wire \cup received
    BY DEF EndpointReceives, NetworkLoses
  <1>2. StoreFine' /\ InboundsFine'
    BY <1>1, StoreKept, InboundsKept DEF HooksInv
  <1>3. JobsFine'
    BY <1>1 DEF HooksInv, JobsFine, JobFine, ConfigFine
  <1>4. (\A p \in wire \cup received : PostFine(p))'
    BY <1>1 DEF HooksInv, PostFine, PostOf
  <1> QED BY <1>2, <1>3, <1>4 DEF HooksInv

\* A configuration is added at the end of the order.
LEMMA AddKeepsStore ==
  ASSUME StoreFine, NEW c \in Configs, AddWebhook(c)
  PROVE  StoreFine'
  <1>1. PICK n \in Nat, h \in Nat : /\ n = Len(order) /\ h = lastHook /\ order \in Seq(1..h) /\ n <= h
    BY LenProperties DEF StoreFine
  <1>2. /\ h < MaxHooks /\ lastHook' = h + 1 /\ order' = Append(order, h + 1)
        /\ byID' = [id \in DOMAIN byID \cup {h + 1} |-> IF id = h + 1 THEN c ELSE byID[id]]
    BY <1>1 DEF AddWebhook
  <1>3. PICK S : S = 1..(h + 1) /\ order \in Seq(S) /\ h + 1 \in S
    BY <1>1
  <1>4. /\ order' \in Seq(S) /\ Len(order') = n + 1
        /\ \A i \in 1..n : order'[i] = order[i]
        /\ order'[n + 1] = h + 1
        /\ DOMAIN order' = 1..(n + 1) /\ DOMAIN order = 1..n
    BY <1>1, <1>2, <1>3, AppendProperties, LenProperties
  <1>5. \A i \in 1..n : order[i] \in 1..h
    BY <1>1, ElementOfSeq
  <1>6. ToSet(order') = DOMAIN byID'
    <2>1. ToSet(order) = DOMAIN byID
      BY DEF StoreFine, OrderMatchesIndex
    <2>2. ToSet(order') = {order'[i] : i \in 1..(n + 1)} /\ ToSet(order) = {order[i] : i \in 1..n}
      BY <1>4 DEF ToSet
    <2>3. {order'[i] : i \in 1..(n + 1)} = {order[i] : i \in 1..n} \cup {h + 1}
      BY <1>4
    <2> QED BY <1>2, <2>1, <2>2, <2>3
  <1>7. \A i, j \in DOMAIN order' : i < j => order'[i] < order'[j]
    <2>1. \A i, j \in 1..n : i < j => order[i] < order[j]
      BY <1>4 DEF StoreFine, OrderMatchesIndex
    <2> QED BY <1>4, <1>5, <2>1
  <1>8. ConfigFine(c)
    BY WebhookAssumption DEF ConfigFine
  <1>9. \A id \in DOMAIN byID' : ConfigFine(byID'[id])
    BY <1>2, <1>8 DEF StoreFine
  <1>10. \A v : ConfigFine(v) <=> ConfigFine(v)'
    BY DEF ConfigFine, Holds
  <1>11. lastHook' \in Nat /\ lastHook' <= MaxHooks /\ Len(order') <= lastHook'
    BY <1>1, <1>2, <1>4, WebhookAssumption
  <1> QED BY <1>2, <1>3, <1>4, <1>6, <1>7, <1>9, <1>10, <1>11 DEF StoreFine, OrderMatchesIndex

\* A patch leaves a configuration with its fields.
LEMMA PatchKeepsConfig ==
  ASSUME NEW p \in Patches, NEW c, ConfigFine(c)
  PROVE  ConfigFine(ApplyTo(p, c))
  BY WebhookAssumption DEF ConfigFine, ApplyTo

\* An update changes no identifier.
LEMMA UpdateKeepsStore ==
  ASSUME StoreFine, NEW id, NEW p \in Patches, UpdateWebhook(id, p)
  PROVE  StoreFine'
  <1>1. /\ id \in DOMAIN byID /\ order' = order /\ lastHook' = lastHook
        /\ byID' = [byID EXCEPT ![id] = ApplyTo(p, byID[id])]
    BY DEF UpdateWebhook
  <1>2. /\ DOMAIN byID' = DOMAIN byID
        /\ \A k \in DOMAIN byID : byID'[k] = byID[k] \/ byID'[k] = ApplyTo(p, byID[k])
    BY <1>1
  <1>3. \A k \in DOMAIN byID' : ConfigFine(byID'[k])
    BY <1>2, PatchKeepsConfig DEF StoreFine
  <1>4. \A v : ConfigFine(v) <=> ConfigFine(v)'
    BY DEF ConfigFine, Holds
  <1> QED BY <1>1, <1>2, <1>3, <1>4 DEF StoreFine, OrderMatchesIndex

\* A removal takes the identifier from both halves and closes the gap.
LEMMA RemoveKeepsStore ==
  ASSUME StoreFine, NEW id, RemoveWebhook(id)
  PROVE  StoreFine'
  <1>1. /\ id \in DOMAIN byID /\ byID' = [k \in DOMAIN byID \ {id} |-> byID[k]]
        /\ order' = RemoveFirst(order, id) /\ lastHook' = lastHook
    BY DEF RemoveWebhook
  <1>15. PICK S : S = 1..lastHook /\ order \in Seq(S)
    BY DEF StoreFine
  <1>2. PICK n \in Nat : n = Len(order) /\ S = 1..lastHook /\ order \in Seq(S) /\ DOMAIN order = 1..n
    BY <1>15, LenProperties
  <1>3. /\ DOMAIN byID = {order[i] : i \in 1..n}
        /\ \A i, j \in 1..n : i < j => order[i] < order[j]
    BY <1>2 DEF StoreFine, OrderMatchesIndex, ToSet
  <1>4. \A i \in 1..n : order[i] \in Nat
    <2>1. S \subseteq Nat
      BY <1>2 DEF StoreFine
    <2> QED BY <1>2, <2>1, ElementOfSeq
  <1>5. PICK i \in 1..n : order[i] = id
    BY <1>1, <1>3
  <1>6. \A j \in 1..n : order[j] = id => j = i
    BY <1>3, <1>4, <1>5
  <1>7. PICK o : /\ o = order' /\ o \in Seq(S) /\ Len(o) = n - 1
                 /\ \A k \in 1..(n - 1) : o[k] = IF k < i THEN order[k] ELSE order[k + 1]
    <2>1. PICK s, at : s = order /\ at = i
      OBVIOUS
    <2>2. s \in Seq(S) /\ at \in 1..Len(s) /\ s[at] = id /\ (\A j \in 1..Len(s) : s[j] = id => j = at)
      BY <1>2, <1>5, <1>6, <2>1
    <2>3. /\ RemoveFirst(s, id) \in Seq(S)
          /\ Len(RemoveFirst(s, id)) = Len(s) - 1
          /\ \A k \in 1..(Len(s) - 1) : RemoveFirst(s, id)[k] = IF k < at THEN s[k] ELSE s[k + 1]
      BY <2>2, RemovalClosesGap
    <2> QED BY <1>1, <1>2, <2>1, <2>3
  <1>8. DOMAIN o = 1..(n - 1)
    BY <1>7, LenProperties
  <1>9. {o[k] : k \in 1..(n - 1)} = {order[k] : k \in 1..n} \ {id}
    <2>1. ASSUME NEW k \in 1..(n - 1) PROVE o[k] \in {order[l] : l \in 1..n} \ {id}
      BY <1>5, <1>6, <1>7
    <2>2. ASSUME NEW k \in 1..n, order[k] # id PROVE order[k] \in {o[l] : l \in 1..(n - 1)}
      <3>1. CASE k < i
        <4>1. k \in 1..(n - 1) /\ o[k] = order[k]
          BY <1>7, <3>1
        <4> QED BY <4>1
      <3>2. CASE ~(k < i)
        <4>1. k # i
          BY <1>5, <2>2
        <4>2. k - 1 \in 1..(n - 1) /\ ~(k - 1 < i) /\ (k - 1) + 1 = k
          BY <3>2, <4>1
        <4>3. o[k - 1] = order[k]
          BY <1>7, <4>2
        <4> QED BY <4>2, <4>3
      <3> QED BY <3>1, <3>2
    <2> QED BY <2>1, <2>2
  <1>10. ToSet(order') = DOMAIN byID'
    <2>1. ToSet(o) = {o[k] : k \in 1..(n - 1)}
      BY <1>8 DEF ToSet
    <2>2. ToSet(order') = ToSet(o)
      BY <1>7
    <2>3. DOMAIN byID' = DOMAIN byID \ {id}
      BY <1>1
    <2> QED BY <1>3, <1>9, <2>1, <2>2, <2>3
  <1>11. \A j, k \in 1..(n - 1) : j < k => o[j] < o[k]
    BY <1>3, <1>7
  <1>12. \A k \in DOMAIN byID' : ConfigFine(byID'[k])
    BY <1>1 DEF StoreFine
  <1>13. \A v : ConfigFine(v) <=> ConfigFine(v)'
    BY DEF ConfigFine, Holds
  <1>14. Len(order') <= lastHook'
    BY <1>1, <1>2, <1>7 DEF StoreFine
  <1> QED BY <1>1, <1>2, <1>7, <1>8, <1>10, <1>11, <1>12, <1>13, <1>14 DEF StoreFine, OrderMatchesIndex

\* What the administrator does reaches no delivery and no request but through the notes.
LEMMA AdminInv ==
  ASSUME HooksInv, AdminAdd \/ AdminEdit \/ SetEnabled
  PROVE  HooksInv'
  <1>1. UNCHANGED outVars
    BY DEF AdminAdd, AdminEdit, SetEnabled
  <1>2. JobsFine' /\ (\A p \in wire \cup received : PostFine(p))'
    BY <1>1, OutKept DEF HooksInv
  <1>3. CASE AdminAdd
    BY <1>2, <1>3, AddKeepsStore, InboundsKept DEF HooksInv, AdminAdd
  <1>4. CASE AdminEdit
    <2>1. StoreFine'
      BY <1>4, RemoveKeepsStore, UpdateKeepsStore DEF HooksInv, AdminEdit
    <2>2. InboundsFine'
      BY <1>4 DEF HooksInv, AdminEdit, InboundsFine, InboundFine, Stands
    <2> QED BY <1>2, <2>1, <2>2 DEF HooksInv
  <1>5. CASE SetEnabled
    <2>1. StoreFine'
      BY <1>5, StoreKept DEF HooksInv, SetEnabled
    <2>2. InboundsFine'
      <3>1. PICK on \in SUBSET ActionIDs : /\ enabled' = on /\ inbound' = inbound /\ tracked' = tracked
                                           /\ enabledFor' = [r \in InboundRequests |-> enabledFor[r] \cup on]
        BY <1>5 DEF SetEnabled
      <3>2. /\ enabledFor' = [r \in InboundRequests |-> enabledFor'[r]]
            /\ \A r \in InboundRequests : enabledFor'[r] = enabledFor[r] \cup on
        BY <3>1
      <3> QED BY <3>1, <3>2 DEF HooksInv, InboundsFine, InboundFine, Stands
    <2> QED BY <1>2, <2>1, <2>2 DEF HooksInv
  <1> QED BY <1>3, <1>4, <1>5

\* A request moves on.
LEMMA RequestMoves ==
  ASSUME HooksInv, NEW r \in InboundRequests, NEW moved,
         inbound' = [inbound EXCEPT ![r] = moved], UNCHANGED <<hookVars, outVars, enabled>>,
         tracked' \subseteq InboundRequests,
         enabledFor' = enabledFor \/ enabledFor' = [enabledFor EXCEPT ![r] = enabled],
         moved = [st |-> moved.st, provider |-> moved.provider, cfg |-> moved.cfg,
                   actions |-> moved.actions, ran |-> moved.ran],
         moved.st \in {"idle", "find", "settings", "run", "hook", "track", "ok", "refused"},
         enabled \subseteq enabledFor'[r],
         moved.st = "run" => moved.actions \subseteq moved.cfg.AllowedActions \cap enabledFor'[r],
         moved.st \in {"hook", "ok", "track"} /\ HasScript(moved.cfg) => moved.ran
  PROVE  HooksInv'
  <1>1. StoreFine' /\ JobsFine' /\ (\A p \in wire \cup received : PostFine(p))'
    BY StoreKept, OutKept DEF HooksInv
  <1>2. /\ inbound = [q \in InboundRequests |-> inbound[q]]
        /\ enabledFor = [q \in InboundRequests |-> enabledFor[q]]
    BY DEF HooksInv, InboundsFine
  <1>3. /\ inbound' = [q \in InboundRequests |-> IF q = r THEN moved ELSE inbound[q]]
        /\ inbound'[r] = moved /\ \A q \in InboundRequests : q # r => inbound'[q] = inbound[q]
    BY <1>2
  <1>4. /\ enabledFor' = [q \in InboundRequests |-> enabledFor'[q]]
        /\ \A q \in InboundRequests : q # r => enabledFor'[q] = enabledFor[q]
    BY <1>2
  <1>5. ASSUME NEW q \in InboundRequests PROVE InboundFine(q)'
    <2>1. CASE q = r
      BY <1>3, <2>1 DEF InboundFine, Stands
    <2>2. CASE q # r
      BY <1>3, <1>4, <2>2 DEF HooksInv, InboundsFine, InboundFine, Stands
    <2> QED BY <2>1, <2>2
  <1>6. inbound' = [q \in InboundRequests |-> inbound'[q]]
    BY <1>3
  <1>7. InboundsFine'
    BY <1>4, <1>5, <1>6 DEF HooksInv, InboundsFine
  <1> QED BY <1>1, <1>7 DEF HooksInv

\* Every step of a request.
LEMMA InboundInv ==
  ASSUME HooksInv, NEW r \in InboundRequests,
         InboundBegin(r) \/ InboundBadBody(r) \/ InboundFindFails(r) \/ InboundStep(r)
  PROVE  HooksInv'
  <1>1. /\ InboundFine(r) /\ tracked \subseteq InboundRequests
        /\ enabledFor = [q \in InboundRequests |-> enabledFor[q]]
    BY DEF HooksInv, InboundsFine
  <1>2. PICK st, provider, cfg, actions, ran :
          /\ inbound[r] = [st |-> st, provider |-> provider, cfg |-> cfg, actions |-> actions, ran |-> ran]
          /\ inbound[r].st = st /\ inbound[r].cfg = cfg /\ inbound[r].actions = actions /\ inbound[r].ran = ran
    BY <1>1 DEF InboundFine
  <1>3. /\ st # "idle" => enabled \subseteq enabledFor[r]
        /\ st \in {"hook", "ok", "track"} /\ HasScript(cfg) => ran
    BY <1>1, <1>2 DEF InboundFine
  <1>4. ASSUME NEW moved, Step(r, moved), st # "idle",
               moved = [st |-> moved.st, provider |-> moved.provider, cfg |-> moved.cfg,
                      actions |-> moved.actions, ran |-> moved.ran],
               moved.st \in {"idle", "find", "settings", "run", "hook", "track", "ok", "refused"},
               moved.st = "run" => moved.actions \subseteq moved.cfg.AllowedActions \cap enabledFor[r],
               moved.st \in {"hook", "ok", "track"} /\ HasScript(moved.cfg) => moved.ran
        PROVE HooksInv'
    <2>1. /\ inbound' = [inbound EXCEPT ![r] = moved] /\ UNCHANGED <<hookVars, outVars, enabled>>
          /\ tracked' = tracked /\ enabledFor' = enabledFor
      BY <1>4 DEF Step
    <2>2. enabled \subseteq enabledFor'[r] /\ tracked' \subseteq InboundRequests
      BY <1>1, <1>3, <1>4, <2>1
    <2> QED BY <1>4, <2>1, <2>2, RequestMoves
  <1>14. PICK old : /\ old = inbound[r]
                    /\ old = [st |-> st, provider |-> provider, cfg |-> cfg, actions |-> actions, ran |-> ran]
    BY <1>2
  <1>15. old = [st |-> st, provider |-> provider, cfg |-> cfg, actions |-> actions, ran |-> ran]
    BY <1>14
  <1>5. \A new : To(r, new) = [st |-> new, provider |-> provider, cfg |-> cfg, actions |-> actions, ran |-> ran]
    BY <1>2 DEF To
  <1>6. CASE InboundBegin(r)
    <2>1. PICK p, new : /\ inbound' = [inbound EXCEPT ![r].provider = p, ![r].st = new]
                        /\ new \in {"refused", "find"}
                        /\ enabledFor' = [enabledFor EXCEPT ![r] = enabled]
                        /\ UNCHANGED <<hookVars, outVars, enabled>> /\ tracked' = tracked
      BY <1>6 DEF InboundBegin
    <2>2. PICK moved : moved = [st |-> new, provider |-> p, cfg |-> cfg, actions |-> actions, ran |-> ran]
      OBVIOUS
    <2>3. inbound' = [inbound EXCEPT ![r] = moved]
      <3>1. [inbound[r] EXCEPT !.provider = p, !.st = new] = moved
        <4>1. [old EXCEPT !.provider = p, !.st = new] = moved
          <5>1. PICK e : e = [old EXCEPT !.provider = p, !.st = new]
            OBVIOUS
          <5>2. e = [st |-> new, provider |-> p, cfg |-> cfg, actions |-> actions, ran |-> ran]
            BY <1>15, <5>1
          <5> QED BY <2>2, <5>1, <5>2, Zenon
        <4> QED BY <1>14, <4>1, Zenon
      <3>2. inbound' = [inbound EXCEPT ![r] = [inbound[r] EXCEPT !.provider = p, !.st = new]]
        BY <2>1
      <3> QED BY <3>1, <3>2
    <2>4. enabledFor'[r] = enabled
      BY <1>1, <2>1
    <2> QED BY <1>1, <2>1, <2>2, <2>3, <2>4, RequestMoves
  <1>7. CASE InboundBadBody(r)
    BY <1>2, <1>4, <1>5, <1>7 DEF InboundBadBody, Stands
  <1>8. CASE InboundFindFails(r)
    BY <1>2, <1>4, <1>5, <1>8 DEF InboundFindFails, Stands
  <1>9. CASE InboundFind(r)
    <2>1. PICK c, new : /\ Step(r, [inbound[r] EXCEPT !.cfg = c, !.st = new])
                        /\ new = IF HasScript(c) THEN "settings" ELSE "hook"
      BY <1>9 DEF InboundFind
    <2>2. PICK moved : moved = [st |-> new, provider |-> provider, cfg |-> c, actions |-> actions, ran |-> ran]
      OBVIOUS
    <2>3. [inbound[r] EXCEPT !.cfg = c, !.st = new] = moved
      <3>1. [old EXCEPT !.cfg = c, !.st = new] = moved
        <4>1. PICK e : e = [old EXCEPT !.cfg = c, !.st = new]
          OBVIOUS
        <4>2. e = [st |-> new, provider |-> provider, cfg |-> c, actions |-> actions, ran |-> ran]
          BY <1>15, <4>1
        <4> QED BY <2>2, <4>1, <4>2, Zenon
      <3> QED BY <1>14, <3>1, Zenon
    <2>4. Step(r, moved) /\ st # "idle"
      BY <1>2, <1>9, <2>1, <2>3 DEF InboundFind, Stands
    <2> QED BY <1>4, <2>1, <2>2, <2>4
  <1>10. CASE InboundSettings(r)
    <2>1. PICK on, new : /\ on \in {enabled, {}} /\ new \in {"run", "refused"}
                         /\ Step(r, [inbound[r] EXCEPT
                              !.actions = ResolveInboundActions(on, inbound[r].cfg.AllowedActions), !.st = new])
      BY <1>10 DEF InboundSettings
    <2>2. PICK acts : acts = on \cap cfg.AllowedActions
      OBVIOUS
    <2>3. PICK moved : moved = [st |-> new, provider |-> provider, cfg |-> cfg, actions |-> acts, ran |-> ran]
      OBVIOUS
    <2>4. [inbound[r] EXCEPT !.actions = ResolveInboundActions(on, inbound[r].cfg.AllowedActions), !.st = new] = moved
      <3>1. [old EXCEPT !.actions = acts, !.st = new] = moved
        <4>1. PICK e : e = [old EXCEPT !.actions = acts, !.st = new]
          OBVIOUS
        <4>2. e = [st |-> new, provider |-> provider, cfg |-> cfg, actions |-> acts, ran |-> ran]
          BY <1>15, <4>1
        <4> QED BY <2>3, <4>1, <4>2, Zenon
      <3>2. ResolveInboundActions(on, inbound[r].cfg.AllowedActions) = acts
        BY <1>2, <2>2 DEF ResolveInboundActions
      <3> QED BY <1>14, <3>1, <3>2, Zenon
    <2>5. Step(r, moved) /\ st # "idle"
      BY <1>2, <1>10, <2>1, <2>4 DEF InboundSettings, Stands
    <2>6. acts \subseteq cfg.AllowedActions \cap enabledFor[r]
      BY <1>3, <2>1, <2>2, <2>5
    <2> QED BY <1>4, <2>1, <2>3, <2>5, <2>6
  <1>11. CASE InboundRun(r)
    <2>1. st # "idle"
      BY <1>2, <1>11 DEF InboundRun, Stands
    <2>2. CASE Step(r, To(r, "refused"))
      BY <1>4, <1>5, <2>1, <2>2
    <2>3. ASSUME NEW new \in {"track", "hook"}, Step(r, [To(r, new) EXCEPT !.ran = TRUE]) PROVE HooksInv'
      <3>1. PICK moved : moved = [st |-> new, provider |-> provider, cfg |-> cfg, actions |-> actions, ran |-> TRUE]
        OBVIOUS
      <3>2. [To(r, new) EXCEPT !.ran = TRUE] = moved
        <4>1. PICK to : to = [st |-> new, provider |-> provider, cfg |-> cfg, actions |-> actions, ran |-> ran]
          OBVIOUS
        <4>2. To(r, new) = to
          BY <1>5, <4>1
        <4>3. [to EXCEPT !.ran = TRUE] = moved
          <5>1. PICK e : e = [to EXCEPT !.ran = TRUE]
            OBVIOUS
          <5>2. e = [st |-> new, provider |-> provider, cfg |-> cfg, actions |-> actions, ran |-> TRUE]
            BY <4>1, <5>1
          <5> QED BY <3>1, <5>1, <5>2, Zenon
        <4> QED BY <4>2, <4>3, Zenon
      <3>3. Step(r, moved)
        BY <2>3, <3>2
      <3> QED BY <1>4, <2>1, <3>1, <3>3
    <2> QED BY <1>11, <2>2, <2>3 DEF InboundRun
  <1>12. CASE InboundHook(r)
    <2>1. st = "hook"
      BY <1>2, <1>12 DEF InboundHook, Stands
    <2>2. PICK new \in {"refused", "track", "ok"} : Step(r, To(r, new))
      BY <1>12 DEF InboundHook
    <2>3. PICK moved : moved = [st |-> new, provider |-> provider, cfg |-> cfg, actions |-> actions, ran |-> ran]
      OBVIOUS
    <2>4. Step(r, moved)
      BY <1>5, <2>2, <2>3
    <2> QED BY <1>3, <1>4, <2>1, <2>3, <2>4
  <1>13. CASE InboundTrack(r)
    <2>1. /\ st = "track" /\ inbound' = [inbound EXCEPT ![r].st = "ok"] /\ tracked' = tracked \cup {r}
          /\ enabledFor' = enabledFor /\ UNCHANGED <<hookVars, outVars, enabled>>
      BY <1>2, <1>13 DEF InboundTrack, Stands
    <2>2. PICK moved : moved = [st |-> "ok", provider |-> provider, cfg |-> cfg, actions |-> actions, ran |-> ran]
      OBVIOUS
    <2>3. inbound' = [inbound EXCEPT ![r] = moved]
      <3>1. [inbound[r] EXCEPT !.st = "ok"] = moved
        BY <1>2, <2>2
      <3>2. inbound' = [inbound EXCEPT ![r] = [inbound[r] EXCEPT !.st = "ok"]]
        BY <2>1
      <3> QED BY <3>1, <3>2
    <2> QED BY <1>1, <1>3, <2>1, <2>2, <2>3, RequestMoves
  <1> QED BY <1>6, <1>7, <1>8, <1>9, <1>10, <1>11, <1>12, <1>13 DEF InboundStep

\* Every step keeps the invariant.
LEMMA DeliveryNextInv == HooksInv /\ [DeliveryNext]_deliveryVars => HooksInv'
  <1> SUFFICES ASSUME HooksInv, [DeliveryNext]_deliveryVars PROVE HooksInv'
    OBVIOUS
  <1>1. CASE UNCHANGED deliveryVars
    BY <1>1, StoreKept, OutKept, InboundsKept DEF HooksInv, deliveryVars
  <1>2. CASE Emit \/ EndpointReceives \/ NetworkLoses
    BY <1>2, EmitInv, NetworkInv
  <1>3. CASE \E j \in DOMAIN jobs : SenderStep(j) \/ SendNoID(j)
    BY <1>3, SendInv, SenderInv DEF SenderStep
  <1>4. CASE \E r \in InboundRequests : InboundBegin(r) \/ InboundBadBody(r) \/ InboundFindFails(r) \/ InboundStep(r)
    BY <1>4, InboundInv
  <1>5. CASE AdminAdd \/ AdminEdit \/ SetEnabled
    BY <1>5, AdminInv
  <1> QED BY <1>1, <1>2, <1>3, <1>4, <1>5 DEF DeliveryNext

\* The invariant always holds.
LEMMA HooksInvHolds == DeliverySpec => []HooksInv
  BY DeliveryInitInv, DeliveryNextInv, PTL DEF DeliverySpec

\* The state has its type, the two halves of the subscription store name the same
\* configurations in the order they were added, and its pages show each of them
\* once, whatever their size (MemoryWebhookStore's methods, ListWebhooks).
THEOREM HooksAreConsistent == DeliverySpec => []HooksConsistent
  <1>1. HooksInv => HooksConsistent
    <2> SUFFICES ASSUME HooksInv PROVE HooksConsistent
      OBVIOUS
    <2>1. OrderMatchesIndex
      BY DEF HooksInv, StoreFine
    <2>2. PagesCover
      <3>1. PICK S : S = 1..lastHook /\ order \in Seq(S)
        BY DEF HooksInv, StoreFine
      <3>2. MaxHooks + 1 \in Nat /\ Len(order) < MaxHooks + 1
        BY <3>1, WebhookAssumption, LenProperties DEF HooksInv, StoreFine
      <3>3. ASSUME NEW limit \in 1..(MaxHooks + 1)
            PROVE FlattenSeq([k \in 1..(MaxHooks + 1) |-> ListWebhooks(limit, (k - 1) * limit)]) = order
        <4>1. limit \in Nat \ {0}
          BY <3>2
        <4> QED BY <3>1, <3>2, <4>1, PagesAddUp
      <3> QED BY <3>3 DEF PagesCover
    <2>3. DeliveryTypeOK
      <3>1. ASSUME NEW id \in DOMAIN byID
            PROVE /\ id \in 1..lastHook /\ DOMAIN byID[id] = ConfigFields
                  /\ byID[id].Events \subseteq Names \cup {WebhookEventWildcard}
        <4>1. id \in ToSet(order) /\ order \in Seq(1..lastHook)
          BY DEF HooksInv, StoreFine, OrderMatchesIndex
        <4>2. id \in 1..lastHook
          BY <4>1, ElementOfSeq, LenProperties DEF ToSet
        <4>3. ConfigFine(byID[id])
          BY DEF HooksInv, StoreFine
        <4> QED BY <4>2, <4>3 DEF ConfigFine, ConfigFields, Holds
      <3> QED BY <3>1 DEF HooksInv, JobsFine, JobFine, PostFine, InboundsFine, InboundFine, DeliveryTypeOK
    <2> QED BY <2>1, <2>2, <2>3 DEF HooksConsistent
  <1> QED BY <1>1, HooksInvHolds, PTL

\* The posts of a delivery are no more than its attempts.
LEMMA FewPosts ==
  ASSUME HooksInv, NEW j \in DOMAIN jobs
  PROVE  Cardinality({p \in wire \cup received : p.job = j}) <=
           IF Retries(jobs[j].cfg) < 0 THEN 0 ELSE Retries(jobs[j].cfg) + 1
  <1> PICK P, n, numbers : /\ P = {p \in wire \cup received : p.job = j} /\ n = Retries(jobs[j].cfg)
                           /\ numbers = 0..n
    OBVIOUS
  <1>1. n \in Int
    BY ReadersType DEF HooksInv, JobsFine, JobFine
  <1>2. \A p \in P : p.attempt \in numbers /\ p = PostOf(j, p.attempt)
    BY <1>1 DEF HooksInv, PostFine
  <1>3. PICK f : f = [p \in P |-> p.attempt]
    OBVIOUS
  <1>4. f \in Injection(P, numbers)
    <2>1. f \in [P -> numbers]
      BY <1>2, <1>3
    <2>2. \A p, q \in P : f[p] = f[q] => p = q
      BY <1>2, <1>3
    <2> QED BY <2>1, <2>2 DEF Injection, IsInjective
  <1>5. /\ IsFiniteSet(numbers)
        /\ Cardinality(numbers) = IF 0 > n THEN 0 ELSE n - 0 + 1
    <2>1. 0 \in Int
      OBVIOUS
    <2>2. IsFiniteSet(0..n) /\ Cardinality(0..n) = IF 0 > n THEN 0 ELSE n - 0 + 1
      BY <1>1, <2>1, FS_Interval, Zenon
    <2> QED BY <2>2
  <1>6. Cardinality(P) <= Cardinality(numbers)
    BY <1>4, <1>5, FS_Injection
  <1> QED BY <1>1, <1>5, <1>6

\* What the receiving end and the operator are told of a delivery is true, and the
\* delay between its attempts is the one configured, doubled exactly up to a
\* ceiling for any base (Send, webhookBackoff).
THEOREM AttemptsAreAlwaysTrue == DeliverySpec => []AttemptsAreTrue
  <1>1. HooksInv => AttemptsAreTrue
    <2> SUFFICES ASSUME HooksInv PROVE AttemptsAreTrue
      OBVIOUS
    <2>1. BackoffExact
      <3>1. ASSUME NEW base \in 1..Ceiling
            PROVE  /\ WebhookBackoff(base, 0) = base
                   /\ \A attempt \in 0..Ceiling :
                        LET twice == 2 * WebhookBackoff(base, attempt)
                        IN WebhookBackoff(base, attempt + 1) = IF twice <= Ceiling THEN twice ELSE Ceiling
        <4>1. base \in Nat \ {0} /\ \A attempt \in 0..Ceiling : attempt \in Nat
          BY DeliveryAssumption
        <4> QED BY <4>1, BackoffRuns
      <3>2. \A j \in DOMAIN jobs : jobs[j].wait <= Ceiling \/ jobs[j].wait = RetryDelay(jobs[j].cfg)
        BY DEF HooksInv, JobsFine, JobFine
      <3> QED BY <3>1, <3>2 DEF BackoffExact
    <2>2. AttemptsDistinct
      <3>1. ASSUME NEW p \in received, NEW q \in received, p.uuid = q.uuid PROVE p = q
        <4>1. PostFine(p) /\ PostFine(q)
          BY DEF HooksInv
        <4>2. p.uuid = <<p.job, p.attempt>> /\ q.uuid = <<q.job, q.attempt>>
          BY <4>1 DEF PostFine, PostOf, DeliveryID
        <4>3. p.job = q.job /\ p.attempt = q.attempt
          <5>1. PICK i, j, k, l : i = p.job /\ j = p.attempt /\ k = q.job /\ l = q.attempt
            OBVIOUS
          <5>2. <<i, j>> = <<k, l>>
            BY <3>1, <4>2, <5>1, Zenon
          <5>3. i = k /\ j = l
            BY <5>2
          <5> QED BY <5>1, <5>3
        <4> QED BY <4>1, <4>3 DEF PostFine
      <3> QED BY <3>1, FewPosts DEF AttemptsDistinct
    <2>3. OutcomeIsTrue
      BY DEF OutcomeIsTrue, HooksInv, JobsFine, JobFine
    <2>4. AttemptsIdentical
      BY DEF AttemptsIdentical, HooksInv, PostFine, PostOf
    <2> QED BY <2>1, <2>2, <2>3, <2>4 DEF AttemptsAreTrue
  <1> QED BY <1>1, HooksInvHolds, PTL

\* A script is given no action that its configuration does not list or that was
\* disabled for the whole of the request, and a provider is told "ok" only if the
\* script configured for it ran (inboundEnabledActions, runInboundScript).
THEOREM InboundIsAlwaysHonest == DeliverySpec => []InboundIsHonest
  <1>1. HooksInv => InboundIsHonest
    BY DEF HooksInv, InboundsFine, InboundFine, InboundIsHonest, ScriptActionsAllowed, AckMeansRan
  <1> QED BY <1>1, HooksInvHolds, PTL
=============================================================================
