----------------------------- MODULE JWKSClient -----------------------------
(***************************************************************************)
(* The resource server's key cache (resource_server.go): a cached JWKS     *)
(* document served stale while a refresh runs, concurrent readers joined   *)
(* to one fetch, and the rate-limited invalidation by which VerifyRS256    *)
(* picks up a key rotation.  Every critical section of the client's mutex  *)
(* is one step; a fetch runs in a goroutine of its own, whatever becomes   *)
(* of the request that started it.                                         *)
(*                                                                         *)
(* The issuer publishes one signing key at a time: document v carries the  *)
(* key of kid v and no other.  Signatures and claims are left out: the     *)
(* cache decides which key a token is checked against, not the outcome.    *)
(***************************************************************************)
EXTENDS Integers, FiniteSets

CONSTANTS Requests,            \* concurrent calls of VerifyRS256
          FetchIDs,            \* bound: fetches that can be known at a time
          NoFetch,
          CacheTTL,            \* ResourceServerConfig.CacheTTL
          MinRefreshInterval,  \* ResourceServerConfig.MinRefreshInterval; negative: no limit
          HostInvalidates,     \* whether the host calls Invalidate itself
          MaxVersion,          \* bound: the issuer rotates this often
          MaxTime              \* bound: the clock stops here

ASSUME JWKSAssumption ==
  /\ NoFetch \notin FetchIDs
  /\ CacheTTL \in Nat \ {0} /\ MinRefreshInterval \in Int
  /\ HostInvalidates \in BOOLEAN
  /\ MaxVersion \in Nat /\ MaxTime \in Nat

VARIABLES doc,        \* the cached document, or NoDoc
          expiry,     \* when it stops being fresh
          fetchedAt,  \* when it was stored
          inflight,   \* the fetch that readers join, or NoFetch
          fetch,      \* fetch[f]: state, and the answer once there is one
          req,        \* req[r]: where request r is
          issuer,     \* the document the issuer serves now
          now,
          dropped     \* history: the cache has been dropped

cache == <<doc, expiry, fetchedAt, inflight>>
env   == <<issuer, now>>
vars  == <<doc, expiry, fetchedAt, inflight, fetch, req, issuer, now, dropped>>

Versions == 0 .. MaxVersion
Kids     == Versions   \* unknown before its document is published, and after the next is
NoDoc    == -1
Docs     == Versions \cup {NoDoc}

\* "fetching": the request is out; "answered": the body is read, or the call
\* has failed (answer NoDoc), and the result is about to be stored.
Fetch == [state : {"free", "fetching", "answered", "done"}, answer : Docs]
Free  == [state |-> "free", answer |-> NoDoc]
Running(f) == fetch[f].state \in {"fetching", "answered"}

\* A request: the kid of its token, whether it has dropped the cache, the
\* fetch it waits for and the stale document it waits with.
Request(steps, fetches) ==
  [step : steps, kid : Kids, retried : BOOLEAN, stale : Docs, f : fetches]
Req  == Request({"idle", "read", "rotate"}, {NoFetch}) \cup Request({"wait"}, FetchIDs)
Idle == [step |-> "idle", kid |-> 0, retried |-> FALSE,
         stale |-> NoDoc, f |-> NoFetch]

TypeOK ==
  /\ doc \in Docs
  /\ expiry \in Int /\ fetchedAt \in Int
  /\ inflight \in FetchIDs \cup {NoFetch}
  /\ fetch \in [FetchIDs -> Fetch]
  /\ req \in [Requests -> Req]
  /\ issuer \in Versions
  /\ now \in Nat
  /\ dropped \in BOOLEAN

Init ==
  /\ doc = NoDoc
  /\ expiry = 0 /\ fetchedAt = 0
  /\ inflight = NoFetch
  /\ fetch = [f \in FetchIDs |-> Free]
  /\ req = [r \in Requests |-> Idle]
  /\ issuer = 0
  /\ now = 0
  /\ dropped = FALSE

At(r, step)   == req[r].step = step
Goto(r, next) == req' = [req EXCEPT ![r] = next]

\* Request r goes on to its next step, perhaps to wait for f with a stale
\* document.
Moved(r, step, f, stale) ==
  [step |-> step, kid |-> req[r].kid, retried |-> req[r].retried,
   stale |-> stale, f |-> f]

\* A fetch id can be taken when its fetch is over and nobody reads its result.
Available(f) ==
  /\ ~Running(f) /\ inflight # f
  /\ \A r \in Requests : req[r].f # f

(***************************************************************************)
(* VerifyRS256: GetKey, and once more after dropping the cache if the      *)
(* document does not carry the kid.                                        *)
(***************************************************************************)
Verify(r) == \E kid \in Kids :
  /\ At(r, "idle")
  /\ Goto(r, [step |-> "read", kid |-> kid, retried |-> FALSE,
              stale |-> NoDoc, f |-> NoFetch])
  /\ UNCHANGED <<cache, fetch, env, dropped>>

\* GetKey has document d: the key is there, or the first attempt goes on to
\* the rotation check, or the token is refused.  NoDoc is a failed read.
Answer(r, d) ==
  IF d # NoDoc /\ d # req[r].kid /\ ~req[r].retried
  THEN Moved(r, "rotate", NoFetch, NoDoc) ELSE Idle

Fresh == doc # NoDoc /\ now < expiry

\* Document: a fresh document is returned from memory.
ReadFresh(r) ==
  /\ At(r, "read")
  /\ Fresh
  /\ Goto(r, Answer(r, doc))
  /\ UNCHANGED <<cache, fetch, env, dropped>>

\* A fetch in flight is joined.
ReadJoin(r) ==
  /\ At(r, "read")
  /\ ~Fresh /\ inflight # NoFetch
  /\ Goto(r, Moved(r, "wait", inflight, doc))
  /\ UNCHANGED <<cache, fetch, env, dropped>>

\* Broken variant: a reader starts a fetch of its own beside the one in flight.
ReadStartAlways(r) == \E f \in FetchIDs :
  /\ At(r, "read")
  /\ ~Fresh /\ Available(f)
  /\ inflight' = f
  /\ fetch' = [fetch EXCEPT ![f] = [state |-> "fetching", answer |-> NoDoc]]
  /\ Goto(r, IF doc # NoDoc THEN Answer(r, doc)
             ELSE Moved(r, "wait", f, NoDoc))
  /\ UNCHANGED <<doc, expiry, fetchedAt, env, dropped>>

\* Otherwise a fetch is started, and waited for only if there is nothing stale.
ReadStart(r) == \E f \in FetchIDs :
  /\ At(r, "read")
  /\ ~Fresh /\ inflight = NoFetch /\ Available(f)
  /\ inflight' = f
  /\ fetch' = [fetch EXCEPT ![f] = [state |-> "fetching", answer |-> NoDoc]]
  /\ Goto(r, IF doc # NoDoc THEN Answer(r, doc)
             ELSE Moved(r, "wait", f, NoDoc))
  /\ UNCHANGED <<doc, expiry, fetchedAt, env, dropped>>

\* The fetch has ended: its document, or the stale one if it failed.
Wake(r) ==
  /\ At(r, "wait")
  /\ fetch[req[r].f].state = "done"
  /\ Goto(r, Answer(r, IF fetch[req[r].f].answer # NoDoc THEN fetch[req[r].f].answer
                       ELSE req[r].stale))
  /\ UNCHANGED <<cache, fetch, env, dropped>>

\* The caller's context ends while it waits.
Cancel(r) ==
  /\ At(r, "wait")
  /\ Goto(r, Idle)
  /\ UNCHANGED <<cache, fetch, env, dropped>>

\* invalidateForRotation: a document stored less than the interval ago stays.
TooSoon == doc # NoDoc /\ MinRefreshInterval > 0 /\ now - fetchedAt < MinRefreshInterval

RotateRefused(r) ==
  /\ At(r, "rotate") /\ TooSoon
  /\ Goto(r, Idle)
  /\ UNCHANGED <<cache, fetch, env, dropped>>

\* The document and the handle are dropped; a fetch that is running runs on.
invalidateLocked ==
  /\ doc' = NoDoc
  /\ expiry' = 0
  /\ inflight' = NoFetch
  /\ dropped' = TRUE
  /\ UNCHANGED fetchedAt

RotateDrop(r) ==
  /\ At(r, "rotate") /\ ~TooSoon
  /\ invalidateLocked
  /\ Goto(r, [step |-> "read", kid |-> req[r].kid, retried |-> TRUE,
              stale |-> NoDoc, f |-> NoFetch])
  /\ UNCHANGED <<fetch, env>>

\* Invalidate, called by the host.
Invalidate ==
  /\ HostInvalidates
  /\ invalidateLocked
  /\ UNCHANGED <<fetch, req, env>>

(***************************************************************************)
(* runFetch.  The issuer answers with the document it serves at that time, *)
(* or the call fails, at the latest when FetchTimeout ends it.  A result   *)
(* is stored whether or not the fetch is still the one in flight.          *)
(***************************************************************************)
FetchAnswer(f) == \E answer \in {issuer, NoDoc} :
  /\ fetch[f].state = "fetching"
  /\ fetch' = [fetch EXCEPT ![f] = [state |-> "answered", answer |-> answer]]
  /\ UNCHANGED <<cache, req, env, dropped>>

\* Broken variants: a failed fetch leaves its handle; or returns without
\* closing done.
FetchStoreKeepsHandle(f) ==
  /\ fetch[f].state = "answered"
  /\ fetch' = [fetch EXCEPT ![f] = [state |-> "done", answer |-> fetch[f].answer]]
  /\ IF fetch[f].answer # NoDoc
     THEN /\ doc' = fetch[f].answer
          /\ fetchedAt' = now /\ expiry' = now + CacheTTL
          /\ inflight' = IF inflight = f THEN NoFetch ELSE inflight
     ELSE UNCHANGED <<doc, fetchedAt, expiry, inflight>>
  /\ UNCHANGED <<req, env, dropped>>

FetchStoreNeverCloses(f) ==
  /\ fetch[f].state = "answered"
  /\ fetch' = [fetch EXCEPT ![f] =
                 IF fetch[f].answer = NoDoc THEN Free
                 ELSE [state |-> "done", answer |-> fetch[f].answer]]
  /\ IF fetch[f].answer # NoDoc
     THEN doc' = fetch[f].answer /\ fetchedAt' = now /\ expiry' = now + CacheTTL
     ELSE UNCHANGED <<doc, fetchedAt, expiry>>
  /\ inflight' = IF inflight = f THEN NoFetch ELSE inflight
  /\ UNCHANGED <<req, env, dropped>>

FetchStore(f) ==
  /\ fetch[f].state = "answered"
  /\ fetch' = [fetch EXCEPT ![f] = [state |-> "done", answer |-> fetch[f].answer]]
  /\ IF fetch[f].answer # NoDoc
     THEN doc' = fetch[f].answer /\ fetchedAt' = now /\ expiry' = now + CacheTTL
     ELSE UNCHANGED <<doc, fetchedAt, expiry>>
  /\ inflight' = IF inflight = f THEN NoFetch ELSE inflight
  /\ UNCHANGED <<req, env, dropped>>

\* The issuer rotates its key; time passes.
Rotate ==
  /\ issuer < MaxVersion
  /\ issuer' = issuer + 1
  /\ UNCHANGED <<cache, fetch, req, now, dropped>>

Tick ==
  /\ now < MaxTime
  /\ now' = now + 1
  /\ UNCHANGED <<cache, fetch, req, issuer, dropped>>

Proceed(r) ==
  \/ ReadFresh(r) \/ ReadJoin(r) \/ ReadStart(r) \/ Wake(r)
  \/ RotateRefused(r) \/ RotateDrop(r)

Next ==
  \/ \E r \in Requests : Verify(r) \/ Cancel(r) \/ Proceed(r)
  \/ \E f \in FetchIDs : FetchAnswer(f) \/ FetchStore(f)
  \/ Invalidate \/ Rotate \/ Tick

Spec == Init /\ [][Next]_vars

\* Goroutines that can run do, and FetchTimeout ends every call to the issuer.
\* No step of a request blocks in the code; where FetchIDs bounds the fetches,
\* a request gets an id if there is one again and again.
FairSpec ==
  /\ Spec
  /\ \A r \in Requests : SF_vars(Proceed(r))
  /\ \A f \in FetchIDs : WF_vars(FetchAnswer(f) \/ FetchStore(f))

(***************************************************************************)
(* Properties.                                                             *)
(***************************************************************************)

\* The fetch that readers are sent to wait for is still running: nobody joins
\* one that is over, which would hand its old answer out for ever.
InflightIsRunning == inflight # NoFetch => Running(inflight)

\* Whoever waits will be woken: its fetch is running, or over with its answer
\* still there to be read.
WaitersHaveAFetch ==
  \A r \in Requests : At(r, "wait") => fetch[req[r].f].state # "free"

\* What a reader relies on when it waits: the state has its type, the fetch it
\* joins is running, and the one it waits for is not forgotten.
CacheConsistent == TypeOK /\ InflightIsRunning /\ WaitersHaveAFetch

\* A burst of readers causes one call to the issuer: two fetches run at the
\* same time only if the cache has been dropped.
OneCallPerBurst ==
  ~dropped => \A f, g \in FetchIDs : Running(f) /\ Running(g) => f = g

\* Readers can rely on the cache and the issuer on being asked once.
CacheIsSound == CacheConsistent /\ OneCallPerBurst

\* As long as nothing has dropped the cache, the cached document is
\* never replaced by an earlier one of the issuer's, however slow a refresh.
NeverGoesBack == [][~dropped' => doc' >= doc]_vars

\* Every verification ends, if its caller does not give up first.
VerifyEnds == \A r \in Requests : req[r].step # "idle" ~> req[r].step = "idle"

=============================================================================
