----------------------------- MODULE ChainSubmit -----------------------------
(* The way of a transaction to the chain: the retry loop of chain/client.py,   *)
(* the /submit-tx handler of middleware/server.js with its idempotency cache,  *)
(* and the audit callback into chain/views.py.  A request the client has given *)
(* up on goes on in the middleware; replies and callbacks may be lost; either  *)
(* process may die.  A caller may submit in a transaction of its own, which    *)
(* then holds the row back and may take it away.  The middleware is configured *)
(* (without a URL or a secret nothing is sent); the cache outlives a           *)
(* submission.                                                                 *)
EXTENDS Naturals, FiniteSets

CONSTANTS
    Tx,             \* submissions, each with a clientTxId of its own
    MaxAttempts,    \* MIDDLEWARE_MAX_RETRIES
    MaxRestart      \* bound: restarts of the middleware

ASSUME SubmitConstants ==
    /\ MaxAttempts \in Nat \ {0} /\ MaxRestart \in Nat

Attempt == 1..MaxAttempts

\* A transaction hash is the number of its write; two values are no write.
NoHash == 0
SimHash == MaxAttempts + 1

VARIABLES
    setup,     \* simulate: IRG_CHAIN_ALLOW_SIMULATE; durable: Redis holds the cache
    mode,      \* Tx -> "raw": signed on a device, "system": signed by the middleware,
               \* "inner": the same, submitted inside a transaction of the caller
    row,       \* Tx -> TxAuditLog row
    draft,     \* Tx -> the row in the caller's open transaction, that only it sees
    client,    \* Tx -> where _submit_with_retries is
    request,   \* Tx -> Attempt -> the request and its handler in the middleware
    cache,     \* Tx -> remembered result of a clientTxId
    writes,    \* Tx -> number of times the chain took the transaction
    sink,      \* Tx -> Attempt -> the audit callback of that request
    restarts   \* restarts of the middleware so far

vars == <<setup, mode, row, draft, client, request, cache, writes, sink, restarts>>

NoRow == [status |-> "NONE", hash |-> NoHash]
Unsent == [stage |-> "none", hash |-> NoHash]
NoCallback == [stage |-> "none", hash |-> NoHash, sawHash |-> NoHash, sawStatus |-> "NONE"]

Init ==
    /\ setup \in [simulate: BOOLEAN, durable: BOOLEAN]
    /\ mode \in [Tx -> {"raw", "system", "inner"}]
    /\ row = [t \in Tx |-> NoRow]
    /\ draft = [t \in Tx |-> NoRow]
    /\ client = [t \in Tx |-> [pc |-> "start", attempt |-> 0]]
    /\ request = [t \in Tx |-> [i \in Attempt |-> Unsent]]
    /\ cache = [t \in Tx |-> NoHash]
    /\ writes = [t \in Tx |-> 0]
    /\ sink = [t \in Tx |-> [i \in Attempt |-> NoCallback]]
    /\ restarts = 0

-----------------------------------------------------------------------------
(* The client *)

\* Its copy of the row, and where it saves it: _match_order calls execute_trade
\* inside transaction.atomic(), and an atomic() in there commits nothing.
Own(t) == IF mode[t] = "inner" THEN draft[t] ELSE row[t]
Saves(t, new) ==
    IF mode[t] = "inner" THEN draft' = [draft EXCEPT ![t] = new] /\ UNCHANGED row
    ELSE row' = [row EXCEPT ![t] = new] /\ UNCHANGED draft

\* (mutant of Submit: the row is left for the audit sink to create)
SubmitUnrecorded(t) ==
    /\ client[t].pc = "start"
    /\ client' = [client EXCEPT ![t].pc = "send"]
    /\ UNCHANGED <<setup, mode, row, draft, request, cache, writes, sink, restarts>>

\* The PENDING row is saved before anything is sent.
Submit(t) ==
    /\ client[t].pc = "start"
    /\ Saves(t, [status |-> "PENDING", hash |-> NoHash])
    /\ client' = [client EXCEPT ![t].pc = "send"]
    /\ UNCHANGED <<setup, mode, request, cache, writes, sink, restarts>>

Post(t) ==
    /\ client[t].pc = "send"
    /\ LET i == client[t].attempt + 1 IN
       /\ client' = [client EXCEPT ![t] = [pc |-> "wait", attempt |-> i]]
       /\ request' = [request EXCEPT ![t][i].stage = "sent"]
    /\ UNCHANGED <<setup, mode, row, draft, cache, writes, sink, restarts>>

\* (mutant of GiveUp: the empty hash of the client's copy is saved with the rest)
GiveUpSavingAll(t) ==
    /\ Saves(t, [status |-> "FAILED", hash |-> NoHash])
    /\ client' = [client EXCEPT ![t].pc = "done"]

\* The last attempt did not succeed: the row is closed without one.  A failure
\* saves no hash, so it keeps one that the audit sink stored meanwhile.
GiveUp(t) ==
    /\ Saves(t, IF setup.simulate THEN [status |-> "SIMULATED", hash |-> SimHash]
                ELSE [Own(t) EXCEPT !.status = "FAILED"])
    /\ client' = [client EXCEPT ![t].pc = "done"]

RetryOrGiveUp(t) ==
    IF client[t].attempt < MaxAttempts
    THEN client' = [client EXCEPT ![t].pc = "send"] /\ UNCHANGED <<row, draft>>
    ELSE GiveUp(t)

Current(t) == request[t][client[t].attempt]

\* (mutant of TimeOut: without a timeout only a broken connection ends the wait)
TimeOutIfBroken(t) ==
    /\ client[t].pc = "wait" /\ Current(t).stage = "lost"
    /\ RetryOrGiveUp(t)
    /\ UNCHANGED <<setup, mode, request, cache, writes, sink, restarts>>

\* Unreachable, timed out, or the answer is lost: the client cannot tell which.
TimeOut(t) ==
    /\ client[t].pc = "wait"
    /\ RetryOrGiveUp(t)
    /\ UNCHANGED <<setup, mode, request, cache, writes, sink, restarts>>

Receive(t) ==
    /\ client[t].pc = "wait"
    /\ \/ /\ Current(t).stage = "answered"
          /\ Saves(t, [status |-> "SUBMITTED", hash |-> Current(t).hash])
          /\ client' = [client EXCEPT ![t].pc = "done"]
       \/ Current(t).stage = "failed" /\ RetryOrGiveUp(t)
       \/ Current(t).stage = "refused" /\ GiveUp(t)
    /\ UNCHANGED <<setup, mode, request, cache, writes, sink, restarts>>

\* The caller's transaction ends with its process.
ClientDies(t) ==
    /\ client[t].pc \in {"send", "wait"}
    /\ client' = [client EXCEPT ![t].pc = "dead"]
    /\ draft' = [draft EXCEPT ![t] = NoRow]
    /\ UNCHANGED <<setup, mode, row, request, cache, writes, sink, restarts>>

\* What the caller does after the submission commits or fails.
CallerCommits(t) ==
    /\ client[t].pc = "done" /\ draft[t] # NoRow
    /\ row' = [row EXCEPT ![t] = draft[t]]
    /\ draft' = [draft EXCEPT ![t] = NoRow]
    /\ UNCHANGED <<setup, mode, client, request, cache, writes, sink, restarts>>

CallerRollsBack(t) ==
    /\ client[t].pc = "done" /\ draft[t] # NoRow
    /\ draft' = [draft EXCEPT ![t] = NoRow]
    /\ UNCHANGED <<setup, mode, row, client, request, cache, writes, sink, restarts>>

-----------------------------------------------------------------------------
(* The middleware's handler of request i *)

Move(t, i, stage) == request' = [request EXCEPT ![t][i].stage = stage]

\* A bad signature, a stale timestamp or a malformed body: 4xx.
Refuse(t, i) ==
    /\ request[t][i].stage = "sent"
    /\ Move(t, i, "refused")
    /\ UNCHANGED <<setup, mode, row, draft, client, cache, writes, sink, restarts>>

Recall(t, i) ==
    /\ request[t][i].stage = "sent"
    /\ IF cache[t] # NoHash
       THEN request' = [request EXCEPT ![t][i] = [stage |-> "answered", hash |-> cache[t]]]
       ELSE Move(t, i, "missed")
    /\ UNCHANGED <<setup, mode, row, draft, client, cache, writes, sink, restarts>>

\* The node takes a system transaction again under the next nonce; it knows a
\* signed blob it has seen.  The write may also happen and its answer get lost.
Broadcast(t, i) ==
    /\ request[t][i].stage = "missed"
    /\ mode[t] = "raw" => writes[t] = 0
    /\ writes' = [writes EXCEPT ![t] = @ + 1]
    /\ \/ request' = [request EXCEPT ![t][i] = [stage |-> "written", hash |-> writes[t] + 1]]
       \/ Move(t, i, "failed")
    /\ UNCHANGED <<setup, mode, row, draft, client, cache, sink, restarts>>

BroadcastRejected(t, i) ==
    /\ request[t][i].stage = "missed"
    /\ Move(t, i, "failed")
    /\ UNCHANGED <<setup, mode, row, draft, client, cache, writes, sink, restarts>>

\* The result is remembered (Redis keeps the first, memory the last), the audit
\* callback fired and the answer sent.
Remember(t, i) ==
    /\ request[t][i].stage = "written"
    /\ Move(t, i, "answered")
    /\ cache' = IF setup.durable /\ cache[t] # NoHash THEN cache
                ELSE [cache EXCEPT ![t] = request[t][i].hash]
    /\ sink' = [sink EXCEPT ![t][i] = [NoCallback EXCEPT !.stage = "sent",
                                                          !.hash = request[t][i].hash]]
    /\ UNCHANGED <<setup, mode, row, draft, client, writes, restarts>>

Restart ==
    /\ restarts < MaxRestart
    /\ restarts' = restarts + 1
    /\ cache' = IF setup.durable THEN cache ELSE [t \in Tx |-> NoHash]
    /\ request' = [t \in Tx |-> [i \in Attempt |->
                     IF request[t][i].stage \in {"sent", "missed", "written"}
                     THEN [request[t][i] EXCEPT !.stage = "lost"] ELSE request[t][i]]]
    /\ UNCHANGED <<setup, mode, row, draft, client, writes, sink>>

-----------------------------------------------------------------------------
(* The audit sink reads the row and saves it later.  A row it does not see it   *)
(* creates; it waits for a transaction that holds one with the same             *)
(* client_tx_id, and fails if that one is committed.                            *)

SinkLoads(t, i) ==
    /\ sink[t][i].stage = "sent"
    /\ sink' = [sink EXCEPT ![t][i].stage = "loaded", ![t][i].sawHash = row[t].hash,
                            ![t][i].sawStatus = row[t].status]
    /\ UNCHANGED <<setup, mode, row, draft, client, request, cache, writes, restarts>>

\* (mutant of SinkSaves: the hash is not stored)
SinkSavesStatus(t, i) ==
    /\ sink[t][i].stage = "loaded" /\ sink[t][i].sawStatus # "NONE"
    /\ sink' = [sink EXCEPT ![t][i].stage = "done"]
    /\ row' = IF sink[t][i].sawStatus = "PENDING"
              THEN [row EXCEPT ![t].status = "SUBMITTED"] ELSE row
    /\ UNCHANGED <<setup, mode, draft, client, request, cache, writes, restarts>>

\* Both columns are written if either changed, from what was read.
SinkSaves(t, i) ==
    /\ sink[t][i].stage = "loaded" /\ sink[t][i].sawStatus # "NONE"
    /\ sink' = [sink EXCEPT ![t][i].stage = "done"]
    /\ LET s == sink[t][i] IN
       row' = IF s.sawHash # NoHash /\ s.sawStatus # "PENDING" THEN row
              ELSE [row EXCEPT ![t] =
                      [status |-> IF s.sawStatus = "PENDING" THEN "SUBMITTED" ELSE s.sawStatus,
                       hash |-> IF s.sawHash = NoHash THEN s.hash ELSE s.sawHash]]
    /\ UNCHANGED <<setup, mode, draft, client, request, cache, writes, restarts>>

SinkRecovers(t, i) ==
    /\ sink[t][i].stage = "loaded" /\ sink[t][i].sawStatus = "NONE"
    /\ draft[t] = NoRow
    /\ row' = IF row[t] # NoRow THEN row
              ELSE [row EXCEPT ![t] = [status |-> "SUBMITTED", hash |-> sink[t][i].hash]]
    /\ sink' = [sink EXCEPT ![t][i].stage = "done"]
    /\ UNCHANGED <<setup, mode, draft, client, request, cache, writes, restarts>>

\* forwardAudit only logs that the sink was unreachable.
SinkUnreachable(t, i) ==
    /\ sink[t][i].stage = "sent"
    /\ sink' = [sink EXCEPT ![t][i].stage = "done"]
    /\ UNCHANGED <<setup, mode, row, draft, client, request, cache, writes, restarts>>

-----------------------------------------------------------------------------
ClientStep(t) == Submit(t) \/ Post(t) \/ TimeOut(t) \/ Receive(t)

MiddlewareStep(t, i) ==
    Refuse(t, i) \/ Recall(t, i) \/ Broadcast(t, i) \/ BroadcastRejected(t, i) \/ Remember(t, i)

SinkStep(t, i) == SinkLoads(t, i) \/ SinkSaves(t, i) \/ SinkRecovers(t, i) \/ SinkUnreachable(t, i)

Next ==
    \/ \E t \in Tx: ClientStep(t) \/ ClientDies(t) \/ CallerCommits(t) \/ CallerRollsBack(t)
    \/ \E t \in Tx, i \in Attempt: MiddlewareStep(t, i) \/ SinkStep(t, i)
    \/ Restart

Spec == Init /\ [][Next]_vars

\* A client that is alive goes on: requests.post has a timeout.
FairSpec == Spec /\ \A t \in Tx: WF_vars(ClientStep(t))

-----------------------------------------------------------------------------
Status == {"NONE", "PENDING", "SUBMITTED", "FAILED", "SIMULATED"}
AuditRow == [status: Status, hash: NoHash..SimHash]
ClientState == [pc: {"start", "send", "wait", "done", "dead"}, attempt: 0..MaxAttempts]
Stage == {"none", "sent", "refused", "missed", "written", "answered", "failed", "lost"}
RequestState == [stage: Stage, hash: NoHash..MaxAttempts]
Callback == [stage: {"none", "sent", "loaded", "done"}, hash: NoHash..MaxAttempts,
             sawHash: NoHash..SimHash, sawStatus: Status]

TypeOK ==
    /\ setup \in [simulate: BOOLEAN, durable: BOOLEAN]
    /\ mode \in [Tx -> {"raw", "system", "inner"}]
    /\ row \in [Tx -> AuditRow]
    /\ draft \in [Tx -> AuditRow]
    /\ client \in [Tx -> ClientState]
    /\ request \in [Tx -> [Attempt -> RequestState]]
    /\ cache \in [Tx -> NoHash..MaxAttempts]
    /\ writes \in [Tx -> 0..MaxAttempts]
    /\ sink \in [Tx -> [Attempt -> Callback]]
    /\ restarts \in 0..MaxRestart

Real(t, hash) == hash \in 1..writes[t]

\* A row says SUBMITTED only with the hash of a write that took place, whichever
\* of the two processes saved last and however stale what it had read was.
SubmittedIsReal == \A t \in Tx: row[t].status = "SUBMITTED" => Real(t, row[t].hash)

\* A row that carries the hash of a write keeps the hash of a write: the retry
\* loop and the callback overwrite each other from stale copies, but unless
\* failures are simulated neither wipes out the trace of what reached the chain.
\* (A caller's rollback takes back a row that nobody else has seen.)
TraceStays ==
    [][\A t \in Tx: Real(t, row[t].hash) /\ ~setup.simulate => Real(t, row'[t].hash)]_vars

\* Every submission ends: it is reported one way or another, or its process died.
SubmissionEnds == \A t \in Tx: client[t].pc = "send" ~> client[t].pc \in {"done", "dead"}

\* Nothing reaches the chain without a row on record, unless its caller's open
\* transaction holds the row back; a submission that has a row keeps one; and a
\* signed blob is written at most once.  A system transaction is written at least
\* once: of its further writes the abstract specification is not told.
Once == INSTANCE SubmitOnce WITH
            inner <- {t \in Tx: mode[t] = "inner"},
            begun <- {t \in Tx: client[t].pc # "start"},
            recorded <- {t \in Tx: row[t] # NoRow},
            writes <- [t \in Tx |-> IF mode[t] = "raw" \/ writes[t] = 0 THEN writes[t] ELSE 1]
SubmitsOnce == Once!Spec

-----------------------------------------------------------------------------
(* What the repository says and the code does not do *)

\* middleware/server.js:20 "All submissions are idempotent on `clientTxId` so
\* retry storms do not produce duplicate on-chain writes."
NoDuplicateWrites == \A t \in Tx: writes[t] <= 1
=============================================================================
