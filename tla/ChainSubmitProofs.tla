-------------------------- MODULE ChainSubmitProofs --------------------------
(* Proofs about ChainSubmit, for any submissions, attempts and restarts: what  *)
(* the audit row claims is real, and the submission implements SubmitOnce.     *)
EXTENDS ChainSubmit, FiniteSetTheorems, TLAPS

(* The client sends its attempts one after the other, behind a row of its own; *)
(* while that row is in the caller's transaction nobody else has one.          *)
RowsInOrder(t) ==
    /\ row[t].status = "NONE" => row[t] = NoRow
    /\ draft[t].status = "NONE" => draft[t] = NoRow
    /\ draft[t] # NoRow => row[t] = NoRow
    /\ mode[t] # "inner" => draft[t] = NoRow

ClientInOrder(t) ==
    /\ client[t].pc = "start" => client[t].attempt = 0 /\ row[t] = NoRow /\ draft[t] = NoRow
    /\ client[t].pc # "start" /\ mode[t] # "inner" => row[t].status # "NONE"
    /\ client[t].pc \in {"send", "wait"} /\ mode[t] = "inner" => draft[t].status # "NONE"
    /\ client[t].pc = "send" => client[t].attempt < MaxAttempts
    /\ client[t].pc = "wait" => client[t].attempt > 0
    /\ \A i \in Attempt: i > client[t].attempt => request[t][i].stage = "none"
    /\ RowsInOrder(t)

(* What a row may say, and what a callback may have read in it. *)
Truthful(t, status, hash) ==
    /\ status = "PENDING" => hash = NoHash
    /\ status = "SUBMITTED" => Real(t, hash)

(* Hashes on their way are hashes of writes. *)
RequestTruthful(t, i) ==
    /\ request[t][i].hash \in 0..writes[t]
    /\ request[t][i].stage \in {"written", "answered"} => request[t][i].hash # NoHash

SinkTruthful(t, i) ==
    sink[t][i].stage # "none" =>
        /\ request[t][i].stage # "none"
        /\ Real(t, sink[t][i].hash)
        /\ sink[t][i].stage = "loaded" /\ sink[t][i].sawStatus # "NONE" =>
              row[t].status # "NONE" /\ Truthful(t, sink[t][i].sawStatus, sink[t][i].sawHash)

HashesReal(t) ==
    /\ cache[t] \in 0..writes[t]
    /\ Truthful(t, row[t].status, row[t].hash)
    /\ Truthful(t, draft[t].status, draft[t].hash)
    /\ \A i \in Attempt: RequestTruthful(t, i) /\ SinkTruthful(t, i)

(* An attempt writes once: every write has an attempt of its own behind it. *)
PastStage == {"written", "answered", "failed", "lost"}
Past(t) == {i \in Attempt: request[t][i].stage \in PastStage}
WritesHaveAttempts(t) == writes[t] <= Cardinality(Past(t))

IInv ==
    /\ TypeOK
    /\ \A t \in Tx: ClientInOrder(t) /\ HashesReal(t) /\ WritesHaveAttempts(t)

-----------------------------------------------------------------------------
(* The initial state *)

\* Attempts are finite in number.
LEMMA AttemptsFinite == IsFiniteSet(Attempt) /\ Cardinality(Attempt) = MaxAttempts
  BY SubmitConstants, FS_Interval DEF Attempt

\* The initial states satisfy the inductive invariant.
LEMMA Initially == Init => IInv
<1> SUFFICES ASSUME Init PROVE IInv
  OBVIOUS
<1>1. TypeOK
  BY SubmitConstants DEF Init, TypeOK, AuditRow, ClientState, Stage, RequestState, Callback, NoHash, SimHash, Status,
               Unsent, NoCallback, NoRow
<1>2. ASSUME NEW t \in Tx PROVE ClientInOrder(t)
  BY SubmitConstants DEF Init, ClientInOrder, RowsInOrder, Unsent, NoRow, NoHash
<1>3. ASSUME NEW t \in Tx PROVE HashesReal(t)
  BY SubmitConstants
     DEF Init, HashesReal, Truthful, RequestTruthful, SinkTruthful, Unsent, NoCallback, NoRow, NoHash
<1>4. ASSUME NEW t \in Tx PROVE WritesHaveAttempts(t)
  <2>1. Past(t) = {}
    BY <1>1 DEF Init, Past, PastStage, Unsent
  <2>2. QED
    BY <2>1, FS_EmptySet DEF Init, WritesHaveAttempts
<1>5. QED
  BY <1>1, <1>2, <1>3, <1>4 DEF IInv
-----------------------------------------------------------------------------
(* The steps, by what they change *)

\* Without a new write it is enough that attempts stay past.
LEMMA Kept ==
    ASSUME IInv, NEW u \in Tx, Past(u) \subseteq Past(u)', writes'[u] = writes[u]
    PROVE  WritesHaveAttempts(u)'
<1>1. Past(u)' \subseteq Attempt
  BY DEF Past
<1>2. IsFiniteSet(Past(u)') /\ IsFiniteSet(Past(u))
  BY <1>1, AttemptsFinite, FS_Subset
<1>3. Cardinality(Past(u)) <= Cardinality(Past(u)') /\ Cardinality(Past(u)) \in Nat
      /\ Cardinality(Past(u)') \in Nat
  BY <1>2, FS_Subset, FS_CardinalityType
<1>4. QED
  BY <1>3 DEF IInv, TypeOK, WritesHaveAttempts

\* The client moves, or its row, or the row in its caller's transaction.
LEMMA ClientMoves ==
    ASSUME IInv, NEW t \in Tx, NEW r \in AuditRow, NEW d \in AuditRow, NEW c \in ClientState,
           row' = [row EXCEPT ![t] = r], draft' = [draft EXCEPT ![t] = d],
           client' = [client EXCEPT ![t] = c],
           c.pc # "start", c.attempt = client[t].attempt,
           c.pc = "send" => c.attempt < MaxAttempts, c.pc = "wait" => c.attempt > 0,
           Truthful(t, r.status, r.hash), Truthful(t, d.status, d.hash),
           r.status = "NONE" => r = NoRow, d.status = "NONE" => d = NoRow,
           d # NoRow => r = NoRow, row[t].status # "NONE" => r.status # "NONE",
           mode[t] # "inner" => d = NoRow /\ r.status # "NONE",
           mode[t] = "inner" /\ c.pc \in {"send", "wait"} => d.status # "NONE",
           UNCHANGED <<setup, mode, request, cache, writes, sink, restarts>>
    PROVE  IInv'
<1>1. TypeOK'
  BY DEF IInv, TypeOK
<1>2. \A u \in Tx: /\ row'[u] = IF u = t THEN r ELSE row[u]
                   /\ draft'[u] = IF u = t THEN d ELSE draft[u]
                   /\ client'[u] = IF u = t THEN c ELSE client[u]
  BY DEF IInv, TypeOK
<1>3. ASSUME NEW u \in Tx PROVE ClientInOrder(u)'
  <2>1. ClientInOrder(u) /\ ClientInOrder(t)
    BY DEF IInv
  <2>2. CASE u = t
    BY <1>2, <2>1, <2>2 DEF ClientInOrder, RowsInOrder
  <2>3. CASE u # t
    BY <1>2, <2>1, <2>3 DEF ClientInOrder, RowsInOrder
  <2>4. QED
    BY <2>2, <2>3
<1>4. ASSUME NEW u \in Tx PROVE HashesReal(u)'
  BY <1>2 DEF IInv, HashesReal, Truthful, RequestTruthful, SinkTruthful, Real
<1>5. ASSUME NEW u \in Tx PROVE WritesHaveAttempts(u)'
  BY DEF IInv, WritesHaveAttempts, Past
<1>6. QED
  BY <1>1, <1>3, <1>4, <1>5 DEF IInv

\* The client moves and saves its row, wherever that is.
LEMMA ClientSaves ==
    ASSUME IInv, NEW t \in Tx, NEW new \in AuditRow, NEW c \in ClientState,
           Saves(t, new), client' = [client EXCEPT ![t] = c],
           new.status # "NONE", Truthful(t, new.status, new.hash),
           client[t].pc \in {"start", "send", "wait"},
           c.pc # "start", c.attempt = client[t].attempt,
           c.pc = "send" => c.attempt < MaxAttempts, c.pc = "wait" => c.attempt > 0,
           UNCHANGED <<setup, mode, request, cache, writes, sink, restarts>>
    PROVE  IInv'
<1>1. /\ row[t] \in AuditRow /\ draft[t] \in AuditRow
      /\ Truthful(t, row[t].status, row[t].hash) /\ Truthful(t, draft[t].status, draft[t].hash)
      /\ ClientInOrder(t) /\ RowsInOrder(t)
  BY DEF IInv, TypeOK, HashesReal, ClientInOrder
<1>2. CASE mode[t] = "inner"
  <2>1. row' = [row EXCEPT ![t] = row[t]] /\ draft' = [draft EXCEPT ![t] = new]
    BY <1>2 DEF Saves, IInv, TypeOK
  <2>2. row[t] = NoRow /\ row[t].status = "NONE"
    BY <1>1, <1>2 DEF ClientInOrder, RowsInOrder, NoRow
  <2>3. QED
    BY <1>1, <1>2, <2>1, <2>2, ClientMoves
<1>3. CASE mode[t] # "inner"
  <2>1. row' = [row EXCEPT ![t] = new] /\ draft' = [draft EXCEPT ![t] = draft[t]]
    BY <1>3 DEF Saves, IInv, TypeOK
  <2>2. draft[t] = NoRow /\ draft[t].status = "NONE"
    BY <1>1, <1>3 DEF RowsInOrder, NoRow
  <2>3. QED
    BY <1>1, <1>3, <2>1, <2>2, ClientMoves
<1>4. QED
  BY <1>2, <1>3

\* One request moves in the middleware.
LEMMA RequestMoves ==
    ASSUME IInv, NEW t \in Tx, NEW i \in Attempt, NEW new \in RequestState,
           request' = [request EXCEPT ![t][i] = new],
           request[t][i].stage # "none", new.stage # "none",
           request[t][i].stage \in PastStage => new.stage \in PastStage,
           new.hash \in 0..writes[t],
           new.stage \in {"written", "answered"} => new.hash # NoHash,
           UNCHANGED <<setup, mode, row, draft, client, cache, writes, sink, restarts>>
    PROVE  IInv'
<1>1. TypeOK'
  BY DEF IInv, TypeOK
<1>2. \A u \in Tx, j \in Attempt: request'[u][j] = IF u = t /\ j = i THEN new ELSE request[u][j]
  BY DEF IInv, TypeOK
<1>3. ASSUME NEW u \in Tx PROVE ClientInOrder(u)'
  BY <1>2 DEF IInv, ClientInOrder, RowsInOrder
<1>4. ASSUME NEW u \in Tx PROVE HashesReal(u)'
  BY <1>2 DEF IInv, HashesReal, Truthful, RequestTruthful, SinkTruthful, Real
<1>5. ASSUME NEW u \in Tx PROVE WritesHaveAttempts(u)'
  <2>1. Past(u) \subseteq Past(u)'
    BY <1>2 DEF Past
  <2>2. QED
    BY <2>1, Kept
<1>6. QED
  BY <1>1, <1>3, <1>4, <1>5 DEF IInv

\* One audit callback moves, and may save the row.
LEMMA SinkMoves ==
    ASSUME IInv, NEW t \in Tx, NEW i \in Attempt, NEW s \in Callback, NEW r \in AuditRow,
           sink' = [sink EXCEPT ![t][i] = s], row' = [row EXCEPT ![t] = r],
           sink[t][i].stage # "none", s.hash = sink[t][i].hash,
           s.stage = "loaded" /\ s.sawStatus # "NONE" =>
              r.status # "NONE" /\ Truthful(t, s.sawStatus, s.sawHash),
           r = row[t] \/ (r.status # "NONE" /\ draft[t] = NoRow),
           Truthful(t, r.status, r.hash),
           UNCHANGED <<setup, mode, draft, client, request, cache, writes, restarts>>
    PROVE  IInv'
<1>1. TypeOK'
  BY DEF IInv, TypeOK
<1>2. /\ \A u \in Tx, j \in Attempt: sink'[u][j] = IF u = t /\ j = i THEN s ELSE sink[u][j]
      /\ \A u \in Tx: row'[u] = IF u = t THEN r ELSE row[u]
  BY DEF IInv, TypeOK
<1>3. request[t][i].stage # "none" /\ client[t].pc # "start"
  <2>1. request[t][i].stage # "none" /\ ClientInOrder(t) /\ client[t] \in ClientState
    BY DEF IInv, TypeOK, HashesReal, SinkTruthful
  <2>2. client[t].attempt # 0
    BY <2>1, SubmitConstants DEF ClientInOrder, Attempt, ClientState
  <2>3. QED
    BY <2>1, <2>2 DEF ClientInOrder
<1>4. ASSUME NEW u \in Tx PROVE ClientInOrder(u)'
  <2>1. ClientInOrder(u)
    BY DEF IInv
  <2>2. CASE row'[u] = row[u]
    BY <2>1, <2>2 DEF ClientInOrder, RowsInOrder
  <2>3. CASE u = t /\ r.status # "NONE" /\ draft[t] = NoRow
    <3>1. row'[u].status # "NONE" /\ draft'[u] = NoRow
      BY <1>2, <2>3
    <3>2. QED
      BY <1>3, <2>1, <2>3, <3>1 DEF ClientInOrder, RowsInOrder, NoRow
  <2>4. QED
    BY <1>2, <2>2, <2>3
<1>5. ASSUME NEW u \in Tx PROVE HashesReal(u)'
  BY <1>2, <1>3 DEF IInv, HashesReal, Truthful, RequestTruthful, SinkTruthful, Real
<1>6. ASSUME NEW u \in Tx PROVE WritesHaveAttempts(u)'
  BY DEF IInv, WritesHaveAttempts, Past
<1>7. QED
  BY <1>1, <1>4, <1>5, <1>6 DEF IInv
-----------------------------------------------------------------------------
(* The actions *)

\* A submission begins with its row.
LEMMA SubmitKeeps == ASSUME IInv, NEW t \in Tx, Submit(t) PROVE IInv'
<1> DEFINE r == [status |-> "PENDING", hash |-> NoHash]
           c == [client[t] EXCEPT !.pc = "send"]
<1>1. client[t] \in ClientState /\ client[t].pc = "start" /\ client[t].attempt < MaxAttempts
  BY SubmitConstants DEF Submit, IInv, TypeOK, ClientInOrder
<1>2. c \in ClientState /\ c.pc = "send" /\ c.attempt = client[t].attempt
  BY <1>1 DEF ClientState
<1>3. r \in AuditRow /\ r.status # "NONE" /\ Truthful(t, r.status, r.hash)
  BY SubmitConstants DEF AuditRow, Status, NoHash, SimHash, Truthful
<1>4. Saves(t, r) /\ client' = [client EXCEPT ![t] = c]
  BY DEF Submit, IInv, TypeOK
<1>5. UNCHANGED <<setup, mode, request, cache, writes, sink, restarts>>
  BY DEF Submit
<1> HIDE DEF r, c
<1>6. QED
  BY <1>1, <1>2, <1>3, <1>4, <1>5, ClientSaves

\* The client's copy of its row.
LEMMA OwnRow ==
    ASSUME IInv, NEW t \in Tx, client[t].pc = "wait"
    PROVE  Own(t) \in AuditRow /\ Own(t).status # "NONE"
  BY DEF IInv, TypeOK, ClientInOrder, Own

\* Whatever ends a wait for an answer without one: another attempt, or the row is closed.
LEMMA RetryKeeps ==
    ASSUME IInv, NEW t \in Tx, client[t].pc = "wait", RetryOrGiveUp(t) \/ GiveUp(t),
           UNCHANGED <<setup, mode, request, cache, writes, sink, restarts>>
    PROVE  IInv'
<1>1. /\ row[t] \in AuditRow /\ draft[t] \in AuditRow /\ client[t] \in ClientState
      /\ Truthful(t, row[t].status, row[t].hash) /\ Truthful(t, draft[t].status, draft[t].hash)
      /\ ClientInOrder(t) /\ RowsInOrder(t)
  BY DEF IInv, TypeOK, HashesReal, ClientInOrder
<1>2. CASE client[t].attempt < MaxAttempts /\ RetryOrGiveUp(t)
  <2> DEFINE c == [client[t] EXCEPT !.pc = "send"]
  <2>1. c \in ClientState /\ c.pc = "send" /\ c.attempt = client[t].attempt
    BY <1>1 DEF ClientState
  <2>2. /\ row' = [row EXCEPT ![t] = row[t]] /\ draft' = [draft EXCEPT ![t] = draft[t]]
        /\ client' = [client EXCEPT ![t] = c]
    BY <1>2 DEF RetryOrGiveUp, IInv, TypeOK
  <2>3. /\ mode[t] # "inner" => draft[t] = NoRow /\ row[t].status # "NONE"
        /\ mode[t] = "inner" => draft[t].status # "NONE"
    BY <1>1 DEF ClientInOrder, RowsInOrder
  <2> HIDE DEF c
  <2>4. QED
    BY <1>1, <1>2, <2>1, <2>2, <2>3, ClientMoves DEF RowsInOrder
<1>3. CASE GiveUp(t)
  <2> DEFINE r == IF setup.simulate THEN [status |-> "SIMULATED", hash |-> SimHash]
                                    ELSE [Own(t) EXCEPT !.status = "FAILED"]
             c == [client[t] EXCEPT !.pc = "done"]
  <2>1. c \in ClientState /\ c.pc = "done" /\ c.attempt = client[t].attempt
    BY <1>1 DEF ClientState
  <2>2. r \in AuditRow /\ r.status \in {"SIMULATED", "FAILED"}
    BY OwnRow, SubmitConstants DEF AuditRow, Status, NoHash, SimHash
  <2>3. Saves(t, r) /\ client' = [client EXCEPT ![t] = c]
    BY <1>3 DEF GiveUp, IInv, TypeOK
  <2>4. Truthful(t, r.status, r.hash) /\ r.status # "NONE"
    BY <2>2 DEF Truthful
  <2> HIDE DEF r, c
  <2>5. QED
    BY <2>1, <2>2, <2>3, <2>4, ClientSaves
<1>4. QED
  BY <1>2, <1>3 DEF RetryOrGiveUp

\* The client stops waiting.
LEMMA TimeOutKeeps == ASSUME IInv, NEW t \in Tx, TimeOut(t) PROVE IInv'
  BY RetryKeeps DEF TimeOut

\* The client gets an answer: a hash it got is the hash of a write.
LEMMA ReceiveKeeps == ASSUME IInv, NEW t \in Tx, Receive(t) PROVE IInv'
<1>1. CASE /\ Current(t).stage = "answered"
           /\ Saves(t, [status |-> "SUBMITTED", hash |-> Current(t).hash])
           /\ client' = [client EXCEPT ![t].pc = "done"]
  <2> DEFINE i == client[t].attempt
             r == [status |-> "SUBMITTED", hash |-> request[t][i].hash]
             c == [client[t] EXCEPT !.pc = "done"]
  <2>1. client[t] \in ClientState /\ i \in Attempt /\ client[t].pc = "wait"
    BY SubmitConstants DEF Receive, IInv, TypeOK, ClientInOrder, ClientState, Attempt
  <2>2. request[t][i] \in RequestState /\ RequestTruthful(t, i) /\ writes[t] \in 0..MaxAttempts
    BY <2>1 DEF IInv, TypeOK, HashesReal
  <2>3. request[t][i].stage = "answered" /\ Saves(t, r)
    BY <1>1 DEF Current
  <2>4. Real(t, r.hash)
    BY <2>2, <2>3, SubmitConstants DEF RequestTruthful, Real, NoHash
  <2>5. r \in AuditRow /\ r.status = "SUBMITTED"
    BY <2>2, SubmitConstants DEF RequestState, AuditRow, Status, NoHash, SimHash
  <2>6. Truthful(t, r.status, r.hash)
    BY <2>4, <2>5 DEF Truthful
  <2>7. c \in ClientState /\ c.pc = "done" /\ c.attempt = client[t].attempt
    BY <2>1 DEF ClientState
  <2>8. client' = [client EXCEPT ![t] = c]
    BY <1>1 DEF IInv, TypeOK
  <2>9. UNCHANGED <<setup, mode, request, cache, writes, sink, restarts>>
    BY DEF Receive
  <2> HIDE DEF r, c
  <2>10. QED
    BY <2>1, <2>3, <2>5, <2>6, <2>7, <2>8, <2>9, ClientSaves
<1>2. CASE RetryOrGiveUp(t) \/ GiveUp(t)
  BY <1>2, RetryKeeps DEF Receive
<1>3. QED
  BY <1>1, <1>2 DEF Receive

\* The client dies, and its caller's transaction with it.
LEMMA DeathKeeps == ASSUME IInv, NEW t \in Tx, ClientDies(t) PROVE IInv'
<1> DEFINE c == [client[t] EXCEPT !.pc = "dead"]
<1>1. /\ row[t] \in AuditRow /\ Truthful(t, row[t].status, row[t].hash)
      /\ client[t] \in ClientState /\ client[t].pc # "start"
      /\ ClientInOrder(t) /\ RowsInOrder(t)
  BY DEF ClientDies, IInv, TypeOK, HashesReal, ClientInOrder
<1>2. c \in ClientState /\ c.pc = "dead" /\ c.attempt = client[t].attempt
  BY <1>1 DEF ClientState
<1>3. /\ row' = [row EXCEPT ![t] = row[t]] /\ draft' = [draft EXCEPT ![t] = NoRow]
      /\ client' = [client EXCEPT ![t] = c]
  BY DEF ClientDies, IInv, TypeOK
<1>4. NoRow \in AuditRow /\ NoRow.status = "NONE" /\ Truthful(t, NoRow.status, NoRow.hash)
  BY SubmitConstants DEF NoRow, AuditRow, Status, Truthful, NoHash, SimHash
<1>5. mode[t] # "inner" => row[t].status # "NONE"
  BY <1>1 DEF ClientInOrder
<1>6. UNCHANGED <<setup, mode, request, cache, writes, sink, restarts>>
  BY DEF ClientDies
<1> HIDE DEF c
<1>7. QED
  BY <1>1, <1>2, <1>3, <1>4, <1>5, <1>6, ClientMoves DEF RowsInOrder

\* The caller's transaction is committed, or rolled back.
LEMMA CallerKeeps ==
    ASSUME IInv, NEW t \in Tx, CallerCommits(t) \/ CallerRollsBack(t) PROVE IInv'
<1>1. /\ row[t] \in AuditRow /\ draft[t] \in AuditRow /\ client[t] \in ClientState
      /\ Truthful(t, row[t].status, row[t].hash) /\ Truthful(t, draft[t].status, draft[t].hash)
      /\ RowsInOrder(t)
  BY DEF IInv, TypeOK, HashesReal, ClientInOrder
<1>2. client[t].pc = "done" /\ draft[t] # NoRow
      /\ UNCHANGED <<setup, mode, client, request, cache, writes, sink, restarts>>
  BY DEF CallerCommits, CallerRollsBack
<1>3. mode[t] = "inner" /\ row[t] = NoRow /\ draft[t].status # "NONE"
  BY <1>1, <1>2 DEF RowsInOrder
<1>4. NoRow \in AuditRow /\ NoRow.status = "NONE" /\ Truthful(t, NoRow.status, NoRow.hash)
  BY SubmitConstants DEF NoRow, AuditRow, Status, Truthful, NoHash, SimHash
<1>5. client' = [client EXCEPT ![t] = client[t]] /\ draft' = [draft EXCEPT ![t] = NoRow]
  BY <1>2 DEF CallerCommits, CallerRollsBack, IInv, TypeOK
<1>6. CASE CallerCommits(t)
  <2>1. row' = [row EXCEPT ![t] = draft[t]]
    BY <1>6 DEF CallerCommits
  <2>2. QED
    BY <1>1, <1>2, <1>3, <1>4, <1>5, <2>1, ClientMoves
<1>7. CASE CallerRollsBack(t)
  <2>1. row' = [row EXCEPT ![t] = row[t]]
    BY <1>7 DEF CallerRollsBack, IInv, TypeOK
  <2>2. QED
    BY <1>1, <1>2, <1>3, <1>4, <1>5, <2>1, ClientMoves
<1>8. QED
  BY <1>6, <1>7

\* The next attempt is sent.
LEMMA PostKeeps == ASSUME IInv, NEW t \in Tx, Post(t) PROVE IInv'
<1> DEFINE i == client[t].attempt + 1
           c == [pc |-> "wait", attempt |-> i]
           new == [request[t][i] EXCEPT !.stage = "sent"]
<1>1. client[t] \in ClientState /\ client[t].attempt \in 0..MaxAttempts - 1
      /\ \A j \in Attempt: j > client[t].attempt => request[t][j].stage = "none"
  BY SubmitConstants DEF Post, IInv, TypeOK, ClientState, ClientInOrder
<1>2. i \in Attempt /\ i \in 0..MaxAttempts /\ i > 0 /\ i > client[t].attempt
  BY <1>1, SubmitConstants DEF Attempt
<1>3. request[t][i] \in RequestState /\ request[t][i].stage = "none"
  BY <1>1, <1>2 DEF IInv, TypeOK
<1>4. new \in RequestState /\ new.stage = "sent" /\ new.hash = request[t][i].hash
  BY <1>3 DEF RequestState, Stage
<1>5. c \in ClientState
  BY <1>2 DEF ClientState
<1>6. client' = [client EXCEPT ![t] = c] /\ request' = [request EXCEPT ![t][i] = new]
  BY DEF Post
<1>7. /\ \A u \in Tx: client'[u] = IF u = t THEN c ELSE client[u]
      /\ \A u \in Tx, j \in Attempt: request'[u][j] = IF u = t /\ j = i THEN new ELSE request[u][j]
  BY <1>6 DEF IInv, TypeOK
<1>8. TypeOK'
  BY <1>2, <1>4, <1>5, <1>6 DEF Post, IInv, TypeOK
<1>9. ASSUME NEW u \in Tx PROVE ClientInOrder(u)'
  <2>1. CASE u # t
    BY <2>1, <1>7 DEF Post, IInv, ClientInOrder, RowsInOrder
  <2>2. CASE u = t
    <3>1. \A j \in Attempt: j > i => j > client[t].attempt /\ j # i
      BY <1>1, <1>2 DEF Attempt
    <3>2. \A j \in Attempt: j > i => request'[t][j].stage = "none"
      BY <3>1, <1>1, <1>7
    <3>3. client'[t].pc = "wait" /\ client'[t].attempt = i /\ client[t].pc = "send"
          /\ UNCHANGED <<mode, row, draft>> /\ ClientInOrder(t)
      BY <1>7 DEF Post, IInv
    <3>4. QED
      BY <2>2, <3>2, <3>3, <1>2 DEF ClientInOrder, RowsInOrder
  <2>3. QED
    BY <2>1, <2>2
<1>10. ASSUME NEW u \in Tx PROVE HashesReal(u)'
  <2>1. HashesReal(u) /\ UNCHANGED <<row, draft, cache, writes, sink>>
    BY DEF Post, IInv
  <2>2. ASSUME NEW j \in Attempt PROVE RequestTruthful(u, j)' /\ SinkTruthful(u, j)'
    <3>1. request'[u][j].hash = request[u][j].hash
          /\ (request'[u][j].stage = request[u][j].stage \/ request'[u][j].stage = "sent")
      BY <1>4, <1>7
    <3>2. QED
      BY <2>1, <3>1 DEF HashesReal, Truthful, RequestTruthful, SinkTruthful, Real
  <2>3. QED
    BY <2>1, <2>2 DEF HashesReal, Truthful, Real
<1>11. ASSUME NEW u \in Tx PROVE WritesHaveAttempts(u)'
  <2>1. Past(u) \subseteq Past(u)' /\ writes'[u] = writes[u]
    BY <1>3, <1>7 DEF Post, Past, PastStage
  <2>2. QED
    BY <2>1, Kept
<1>12. QED
  BY <1>8, <1>9, <1>10, <1>11 DEF IInv

\* The middleware refuses an attempt, or the node does.
LEMMA RefusalKeeps ==
    ASSUME IInv, NEW t \in Tx, NEW i \in Attempt, Refuse(t, i) \/ BroadcastRejected(t, i)
    PROVE  IInv'
<1> PICK stage \in {"refused", "failed"}:
        request[t][i].stage \in {"sent", "missed"} /\ Move(t, i, stage)
  BY DEF Refuse, BroadcastRejected
<1> DEFINE new == [request[t][i] EXCEPT !.stage = stage]
<1>1. request[t][i] \in RequestState /\ RequestTruthful(t, i)
  BY DEF IInv, TypeOK, HashesReal
<1>2. new \in RequestState /\ new.stage = stage /\ new.hash = request[t][i].hash
  BY <1>1 DEF RequestState, Stage
<1>3. request' = [request EXCEPT ![t][i] = new]
  BY DEF Move
<1>4. new.hash \in 0..writes[t]
  BY <1>1, <1>2 DEF RequestTruthful
<1>5. QED
  BY <1>2, <1>3, <1>4, RequestMoves DEF PastStage, Refuse, BroadcastRejected

\* The middleware looks into its cache.
LEMMA RecallKeeps == ASSUME IInv, NEW t \in Tx, NEW i \in Attempt, Recall(t, i) PROVE IInv'
<1> DEFINE new == IF cache[t] # NoHash THEN [stage |-> "answered", hash |-> cache[t]]
                                       ELSE [request[t][i] EXCEPT !.stage = "missed"]
<1>1. request[t][i] \in RequestState /\ RequestTruthful(t, i)
      /\ cache[t] \in 0..writes[t] /\ cache[t] \in NoHash..MaxAttempts
  BY DEF IInv, TypeOK, HashesReal
<1>2. new \in RequestState /\ new.stage \in {"answered", "missed"}
      /\ (new.stage = "answered" => new.hash # NoHash)
      /\ new.hash \in {cache[t], request[t][i].hash}
  BY <1>1 DEF RequestState, Stage
<1>3. request' = [request EXCEPT ![t][i] = new]
  BY DEF Recall, Move
<1>4. new.hash \in 0..writes[t]
  BY <1>1, <1>2 DEF RequestTruthful
<1>5. request[t][i].stage = "sent"
  BY DEF Recall
<1>6. QED
  BY <1>2, <1>3, <1>4, <1>5, RequestMoves DEF PastStage, Recall

\* The audit sink reads the row, saves it, creates it, or is not reached.
LEMMA SinkLoadsKeeps == ASSUME IInv, NEW t \in Tx, NEW i \in Attempt, SinkLoads(t, i) PROVE IInv'
<1> DEFINE s == [sink[t][i] EXCEPT !.stage = "loaded", !.sawHash = row[t].hash,
                                   !.sawStatus = row[t].status]
<1>1. sink[t][i] \in Callback /\ row[t] \in AuditRow /\ Truthful(t, row[t].status, row[t].hash)
  BY DEF IInv, TypeOK, HashesReal
<1>2. s \in Callback /\ s.hash = sink[t][i].hash /\ s.sawStatus = row[t].status
      /\ s.sawHash = row[t].hash
  BY <1>1 DEF Callback, AuditRow
<1>3. sink' = [sink EXCEPT ![t][i] = s] /\ row' = [row EXCEPT ![t] = row[t]]
  <2>1. sink[t] \in [Attempt -> Callback] /\ t \in DOMAIN sink /\ i \in DOMAIN sink[t]
    BY DEF IInv, TypeOK
  <2>2. row' = [row EXCEPT ![t] = row[t]]
    BY DEF SinkLoads, IInv, TypeOK
  <2>3. sink' = [sink EXCEPT ![t][i] = s]
    BY <2>1 DEF SinkLoads
  <2>4. QED
    BY <2>2, <2>3
<1>4. sink[t][i].stage # "none"
      /\ UNCHANGED <<setup, mode, draft, client, request, cache, writes, restarts>>
  BY DEF SinkLoads
<1> HIDE DEF s
<1>5. s.sawStatus # "NONE" => row[t].status # "NONE" /\ Truthful(t, s.sawStatus, s.sawHash)
  BY <1>1, <1>2
<1>6. QED
  BY <1>1, <1>2, <1>3, <1>4, <1>5, SinkMoves

\* What the sink saves: a hash only of a write, a status that fits it.
LEMMA SinkSavesKeeps == ASSUME IInv, NEW t \in Tx, NEW i \in Attempt, SinkSaves(t, i) PROVE IInv'
<1> DEFINE saw == sink[t][i]
           s == [saw EXCEPT !.stage = "done"]
           r == IF saw.sawHash # NoHash /\ saw.sawStatus # "PENDING" THEN row[t]
                ELSE [status |-> IF saw.sawStatus = "PENDING" THEN "SUBMITTED" ELSE saw.sawStatus,
                      hash |-> IF saw.sawHash = NoHash THEN saw.hash ELSE saw.sawHash]
<1>1. saw \in Callback /\ row[t] \in AuditRow /\ ClientInOrder(t) /\ SinkTruthful(t, i)
      /\ Truthful(t, row[t].status, row[t].hash)
  BY DEF IInv, TypeOK, HashesReal
<1>2. saw.stage = "loaded" /\ saw.sawStatus # "NONE"
  BY DEF SinkSaves
<1>3. row[t].status # "NONE" /\ Real(t, saw.hash) /\ Truthful(t, saw.sawStatus, saw.sawHash)
  BY <1>1, <1>2 DEF SinkTruthful
<1>4. draft[t] = NoRow
  BY <1>1, <1>3 DEF ClientInOrder, RowsInOrder, NoRow
<1>5. s \in Callback /\ s.hash = saw.hash /\ s.stage = "done"
  BY <1>1 DEF Callback
<1>6. saw.hash \in NoHash..SimHash
  BY <1>1, SubmitConstants DEF Callback, NoHash, SimHash
<1>7. r \in AuditRow /\ r.status # "NONE" /\ Truthful(t, r.status, r.hash)
  BY <1>1, <1>2, <1>3, <1>6 DEF AuditRow, Status, Callback, Truthful
<1>8. row' = [row EXCEPT ![t] = r]
  BY DEF SinkSaves, IInv, TypeOK
<1>9. sink' = [sink EXCEPT ![t][i] = s]
  BY DEF SinkSaves
<1>10. UNCHANGED <<setup, mode, draft, client, request, cache, writes, restarts>>
  BY DEF SinkSaves
<1> HIDE DEF r, s
<1>11. QED
  BY <1>2, <1>4, <1>5, <1>7, <1>8, <1>9, <1>10, SinkMoves

\* The row that the sink creates says what the chain did.
LEMMA SinkRecoversKeeps ==
    ASSUME IInv, NEW t \in Tx, NEW i \in Attempt, SinkRecovers(t, i) PROVE IInv'
<1> DEFINE saw == sink[t][i]
           s == [saw EXCEPT !.stage = "done"]
           r == IF row[t] # NoRow THEN row[t] ELSE [status |-> "SUBMITTED", hash |-> saw.hash]
<1>1. saw \in Callback /\ row[t] \in AuditRow /\ SinkTruthful(t, i)
      /\ Truthful(t, row[t].status, row[t].hash)
  BY DEF IInv, TypeOK, HashesReal
<1>2. saw.stage = "loaded" /\ draft[t] = NoRow
      /\ UNCHANGED <<setup, mode, draft, client, request, cache, writes, restarts>>
  BY DEF SinkRecovers
<1>3. Real(t, saw.hash)
  BY <1>1, <1>2 DEF SinkTruthful
<1>4. s \in Callback /\ s.hash = saw.hash /\ s.stage = "done"
  BY <1>1 DEF Callback
<1>5. saw.hash \in NoHash..SimHash
  BY <1>1, SubmitConstants DEF Callback, NoHash, SimHash
<1>6. r \in AuditRow /\ (r = row[t] \/ r.status # "NONE") /\ Truthful(t, r.status, r.hash)
  BY <1>1, <1>3, <1>5 DEF AuditRow, Status, Truthful
<1>7. row' = [row EXCEPT ![t] = r] /\ sink' = [sink EXCEPT ![t][i] = s]
  BY DEF SinkRecovers, IInv, TypeOK
<1> HIDE DEF r, s
<1>8. QED
  BY <1>2, <1>4, <1>6, <1>7, SinkMoves

\* The callback is lost.
LEMMA SinkUnreachableKeeps ==
    ASSUME IInv, NEW t \in Tx, NEW i \in Attempt, SinkUnreachable(t, i) PROVE IInv'
<1> DEFINE s == [sink[t][i] EXCEPT !.stage = "done"]
<1>1. sink[t][i] \in Callback /\ row[t] \in AuditRow /\ Truthful(t, row[t].status, row[t].hash)
  BY DEF IInv, TypeOK, HashesReal
<1>2. s \in Callback /\ s.hash = sink[t][i].hash /\ s.stage = "done"
  BY <1>1 DEF Callback
<1>3. sink' = [sink EXCEPT ![t][i] = s] /\ row' = [row EXCEPT ![t] = row[t]]
      /\ sink[t][i].stage # "none"
  BY DEF SinkUnreachable, IInv, TypeOK
<1>4. UNCHANGED <<setup, mode, draft, client, request, cache, writes, restarts>>
  BY DEF SinkUnreachable
<1> HIDE DEF s
<1>5. QED
  BY <1>1, <1>2, <1>3, <1>4, SinkMoves

\* The chain takes an attempt: a write of its own.
LEMMA BroadcastKeeps == ASSUME IInv, NEW t \in Tx, NEW i \in Attempt, Broadcast(t, i) PROVE IInv'
<1> PICK new \in {[stage |-> "written", hash |-> writes[t] + 1], [request[t][i] EXCEPT !.stage = "failed"]}:
        request' = [request EXCEPT ![t][i] = new]
  BY DEF Broadcast, Move
<1>1. /\ request[t][i] \in RequestState /\ request[t][i].stage = "missed" /\ RequestTruthful(t, i)
      /\ writes[t] \in 0..MaxAttempts /\ WritesHaveAttempts(t)
      /\ writes' = [writes EXCEPT ![t] = @ + 1]
      /\ UNCHANGED <<setup, mode, row, draft, client, cache, sink, restarts>>
  BY DEF Broadcast, IInv, TypeOK, HashesReal
<1>2. \A u \in Tx, j \in Attempt: request'[u][j] = IF u = t /\ j = i THEN new ELSE request[u][j]
  BY DEF IInv, TypeOK
<1>3. \A u \in Tx: writes'[u] = IF u = t THEN writes[u] + 1 ELSE writes[u]
  BY <1>1 DEF IInv, TypeOK
<1>4. /\ new.stage \in {"written", "failed"}
      /\ new.hash \in {writes[t] + 1, request[t][i].hash}
      /\ new.stage = "written" => new.hash = writes[t] + 1
  BY <1>1 DEF RequestState
<1>5. Past(t)' = Past(t) \cup {i} /\ i \notin Past(t)
  BY <1>1, <1>2, <1>4 DEF Past, PastStage
<1>6. /\ Cardinality(Past(t)') = Cardinality(Past(t)) + 1
      /\ Cardinality(Past(t)') \in Nat /\ Cardinality(Past(t)) \in Nat
      /\ Cardinality(Past(t)') <= MaxAttempts
  <2>1. Past(t) \subseteq Attempt /\ Past(t)' \subseteq Attempt
    BY DEF Past
  <2>2. IsFiniteSet(Past(t)) /\ IsFiniteSet(Past(t)')
    BY <2>1, AttemptsFinite, FS_Subset
  <2>3. Cardinality(Past(t)') <= Cardinality(Attempt)
    BY <2>1, AttemptsFinite, FS_Subset
  <2>4. QED
    BY <1>5, <2>2, <2>3, AttemptsFinite, FS_AddElement, FS_CardinalityType
<1>7. writes'[t] \in 0..MaxAttempts /\ writes'[t] = writes[t] + 1 /\ WritesHaveAttempts(t)'
  BY <1>1, <1>3, <1>6, SubmitConstants DEF WritesHaveAttempts
<1>8. new.hash \in 0..writes'[t] /\ new \in RequestState
  <2>1. new.hash \in 0..writes'[t]
    BY <1>1, <1>4, <1>7 DEF RequestTruthful
  <2>2. new.hash \in NoHash..MaxAttempts
    BY <2>1, <1>7, SubmitConstants DEF NoHash
  <2>3. QED
    BY <1>1, <2>1, <2>2 DEF RequestState, Stage
<1>9. TypeOK'
  BY <1>1, <1>7, <1>8 DEF IInv, TypeOK
<1>10. ASSUME NEW u \in Tx PROVE ClientInOrder(u)'
  BY <1>1, <1>2, <1>4 DEF IInv, ClientInOrder, RowsInOrder
<1>11. ASSUME NEW u \in Tx PROVE HashesReal(u)'
  <2>1. HashesReal(u) /\ writes[u] \in Nat /\ writes'[u] \in Nat /\ writes[u] <= writes'[u]
    <3>1. HashesReal(u) /\ writes[u] \in 0..MaxAttempts
      BY DEF IInv, TypeOK
    <3>2. writes'[u] = writes[u] + 1 \/ writes'[u] = writes[u]
      BY <1>3
    <3>3. QED
      BY <3>1, <3>2
  <2>2. \A hash: Real(u, hash) => Real(u, hash)'
    BY <2>1 DEF Real
  <2>3. \A status, hash: Truthful(u, status, hash) => Truthful(u, status, hash)'
    BY <2>2 DEF Truthful
  <2>4. ASSUME NEW j \in Attempt PROVE RequestTruthful(u, j)' /\ SinkTruthful(u, j)'
    <3>1. RequestTruthful(u, j)'
      <4>1. CASE u = t /\ j = i
        BY <4>1, <1>2, <1>4, <1>7, <1>8, <1>1 DEF RequestTruthful, NoHash
      <4>2. CASE ~(u = t /\ j = i)
        BY <4>2, <1>2, <2>1 DEF HashesReal, RequestTruthful
      <4>3. QED
        BY <4>1, <4>2
    <3>2. SinkTruthful(u, j)'
      BY <1>1, <1>2, <1>4, <2>1, <2>2, <2>3 DEF HashesReal, SinkTruthful
    <3>3. QED
      BY <3>1, <3>2
  <2>5. cache'[u] \in 0..writes'[u]
    BY <1>1, <2>1 DEF HashesReal
  <2>6. Truthful(u, row[u].status, row[u].hash)' /\ Truthful(u, draft[u].status, draft[u].hash)'
    BY <1>1, <2>1, <2>3 DEF HashesReal
  <2>7. QED
    BY <2>4, <2>5, <2>6 DEF HashesReal
<1>12. ASSUME NEW u \in Tx, u # t PROVE WritesHaveAttempts(u)'
  <2>1. Past(u) \subseteq Past(u)' /\ writes'[u] = writes[u]
    BY <1>2, <1>3, <1>12 DEF Past
  <2>2. QED
    BY <2>1, Kept
<1>13. QED
  BY <1>7, <1>9, <1>10, <1>11, <1>12 DEF IInv

\* A written attempt is answered, remembered and called back, each with its own hash.
LEMMA RememberKeeps == ASSUME IInv, NEW t \in Tx, NEW i \in Attempt, Remember(t, i) PROVE IInv'
<1> DEFINE hash == request[t][i].hash
           new == [request[t][i] EXCEPT !.stage = "answered"]
           s == [NoCallback EXCEPT !.stage = "sent", !.hash = hash]
<1>1. /\ request[t][i] \in RequestState /\ request[t][i].stage = "written" /\ RequestTruthful(t, i)
      /\ writes[t] \in 0..MaxAttempts
      /\ UNCHANGED <<setup, mode, row, draft, client, writes, restarts>>
  BY DEF Remember, IInv, TypeOK, HashesReal
<1>2. hash \in NoHash..MaxAttempts /\ Real(t, hash) /\ hash \in 0..writes[t]
  BY <1>1, SubmitConstants DEF RequestState, RequestTruthful, Real, NoHash
<1>3. new \in RequestState /\ new.stage = "answered" /\ new.hash = hash
  BY <1>1 DEF RequestState, Stage
<1>4. s \in Callback /\ s.stage = "sent" /\ s.hash = hash
  <2>1. NoCallback \in Callback
    BY SubmitConstants DEF NoCallback, Callback, Status, NoHash, SimHash
  <2> HIDE DEF hash
  <2>2. QED
    BY <1>2, <2>1 DEF Callback
<1>5. request' = [request EXCEPT ![t][i] = new] /\ sink' = [sink EXCEPT ![t][i] = s]
      /\ (cache' = cache \/ cache' = [cache EXCEPT ![t] = hash])
  BY DEF Remember, Move
<1> HIDE DEF s, new, hash
<1>6. /\ \A u \in Tx, j \in Attempt: request'[u][j] = IF u = t /\ j = i THEN new ELSE request[u][j]
      /\ \A u \in Tx, j \in Attempt: sink'[u][j] = IF u = t /\ j = i THEN s ELSE sink[u][j]
      /\ \A u \in Tx: cache'[u] = cache[u] \/ (u = t /\ cache'[u] = hash)
  BY <1>5 DEF IInv, TypeOK
<1>7. TypeOK'
  BY <1>1, <1>2, <1>3, <1>4, <1>5 DEF IInv, TypeOK
<1>8. ASSUME NEW u \in Tx PROVE ClientInOrder(u)'
  BY <1>1, <1>3, <1>6 DEF IInv, ClientInOrder, RowsInOrder
<1>9. ASSUME NEW u \in Tx PROVE HashesReal(u)'
  <2>1. HashesReal(u) /\ hash # NoHash
    BY <1>1 DEF IInv, RequestTruthful, hash
  <2>2. ASSUME NEW j \in Attempt PROVE RequestTruthful(u, j)' /\ SinkTruthful(u, j)'
    BY <1>1, <1>2, <1>3, <1>4, <1>6, <2>1
       DEF HashesReal, RequestTruthful, SinkTruthful, Truthful, Real
  <2>3. QED
    BY <1>1, <1>2, <1>6, <2>1, <2>2 DEF HashesReal, Truthful, Real
<1>10. ASSUME NEW u \in Tx PROVE WritesHaveAttempts(u)'
  <2>1. Past(u) \subseteq Past(u)' /\ writes'[u] = writes[u]
    BY <1>1, <1>3, <1>6 DEF Past, PastStage
  <2>2. QED
    BY <2>1, Kept
<1>11. QED
  BY <1>7, <1>8, <1>9, <1>10 DEF IInv

\* The middleware restarts: requests under way are lost, the cache may be.
LEMMA RestartKeeps == ASSUME IInv, Restart PROVE IInv'
<1>1. UNCHANGED <<setup, mode, row, draft, client, writes, sink>> /\ restarts' \in 0..MaxRestart
  BY SubmitConstants DEF Restart, IInv, TypeOK
<1>2. \A u \in Tx, j \in Attempt:
         /\ request[u][j] \in RequestState /\ request'[u][j] \in RequestState
         /\ request'[u][j].hash = request[u][j].hash
         /\ request'[u][j].stage = request[u][j].stage
               \/ (request'[u][j].stage = "lost" /\ request[u][j].stage \in {"sent", "missed", "written"})
  <2> TAKE u \in Tx, j \in Attempt
  <2>1. request[u][j] \in RequestState
    BY DEF IInv, TypeOK
  <2>2. request'[u][j] = IF request[u][j].stage \in {"sent", "missed", "written"}
                         THEN [request[u][j] EXCEPT !.stage = "lost"] ELSE request[u][j]
    BY DEF Restart
  <2>3. CASE request[u][j].stage \in {"sent", "missed", "written"}
    <3> DEFINE old == request[u][j]
               new == request'[u][j]
    <3>1. new = [old EXCEPT !.stage = "lost"]
      BY <2>2, <2>3
    <3> HIDE DEF old, new
    <3>2. old \in RequestState => new \in RequestState /\ new.hash = old.hash /\ new.stage = "lost"
      BY <3>1 DEF RequestState, Stage
    <3>3. QED
      BY <2>1, <2>3, <3>2 DEF old, new
  <2>4. CASE request[u][j].stage \notin {"sent", "missed", "written"}
    BY <2>1, <2>2, <2>4
  <2>5. QED
    BY <2>3, <2>4
<1>3. request' \in [Tx -> [Attempt -> RequestState]]
  <2>1. request' = [u \in Tx |-> [j \in Attempt |-> request'[u][j]]]
    BY DEF Restart
  <2>2. QED
    BY <2>1, <1>2
<1>4. cache' \in [Tx -> NoHash..MaxAttempts] /\ \A u \in Tx: cache'[u] \in {cache[u], NoHash}
  BY SubmitConstants DEF Restart, IInv, TypeOK, NoHash
<1>5. TypeOK'
  BY <1>1, <1>3, <1>4 DEF IInv, TypeOK
<1>6. ASSUME NEW u \in Tx PROVE ClientInOrder(u)'
  BY <1>1, <1>2 DEF IInv, ClientInOrder, RowsInOrder
<1>7. ASSUME NEW u \in Tx PROVE HashesReal(u)'
  <2>1. HashesReal(u) /\ writes[u] \in 0..MaxAttempts
    BY DEF IInv, TypeOK
  <2>2. ASSUME NEW j \in Attempt PROVE RequestTruthful(u, j)' /\ SinkTruthful(u, j)'
    BY <1>1, <1>2, <2>1 DEF HashesReal, RequestTruthful, SinkTruthful, Truthful, Real
  <2>3. cache'[u] \in 0..writes'[u]
    BY <1>1, <1>4, <2>1, SubmitConstants DEF HashesReal, NoHash
  <2>4. QED
    BY <1>1, <2>1, <2>2, <2>3 DEF HashesReal, Truthful, Real
<1>8. ASSUME NEW u \in Tx PROVE WritesHaveAttempts(u)'
  <2>1. Past(u) \subseteq Past(u)' /\ writes'[u] = writes[u]
    BY <1>1, <1>2 DEF Past, PastStage
  <2>2. QED
    BY <2>1, Kept
<1>9. QED
  BY <1>5, <1>6, <1>7, <1>8 DEF IInv

\* Nothing happens.
LEMMA StutterKeeps == ASSUME IInv, UNCHANGED vars PROVE IInv'
<1>1. UNCHANGED <<setup, mode, row, draft, client, request, cache, writes, sink, restarts>>
  BY DEF vars
<1>2. TypeOK'
  BY <1>1 DEF IInv, TypeOK
<1>3. ASSUME NEW u \in Tx PROVE ClientInOrder(u)'
  BY <1>1 DEF IInv, ClientInOrder, RowsInOrder
<1>4. ASSUME NEW u \in Tx PROVE HashesReal(u)'
  BY <1>1 DEF IInv, HashesReal, Truthful, RequestTruthful, SinkTruthful, Real
<1>5. ASSUME NEW u \in Tx PROVE WritesHaveAttempts(u)'
  BY <1>1 DEF IInv, WritesHaveAttempts, Past
<1>6. QED
  BY <1>2, <1>3, <1>4, <1>5 DEF IInv

\* Every step keeps the inductive invariant.
LEMMA NextKeeps == IInv /\ [Next]_vars => IInv'
<1> SUFFICES ASSUME IInv, [Next]_vars PROVE IInv'
  OBVIOUS
<1>1. CASE \E t \in Tx: ClientStep(t) \/ ClientDies(t) \/ CallerCommits(t) \/ CallerRollsBack(t)
  BY <1>1, SubmitKeeps, PostKeeps, TimeOutKeeps, ReceiveKeeps, DeathKeeps, CallerKeeps DEF ClientStep
<1>2. CASE \E t \in Tx, i \in Attempt: MiddlewareStep(t, i)
  BY <1>2, RefusalKeeps, RecallKeeps, BroadcastKeeps, RememberKeeps DEF MiddlewareStep
<1>3. CASE \E t \in Tx, i \in Attempt: SinkStep(t, i)
  BY <1>3, SinkLoadsKeeps, SinkSavesKeeps, SinkRecoversKeeps, SinkUnreachableKeeps DEF SinkStep
<1>4. CASE Restart
  BY <1>4, RestartKeeps
<1>5. CASE UNCHANGED vars
  BY <1>5, StutterKeeps
<1>6. QED
  BY <1>1, <1>2, <1>3, <1>4, <1>5 DEF Next

-----------------------------------------------------------------------------
(* The invariants *)

\* IInv is an invariant of every behaviour of client, middleware and audit sink.
THEOREM Inductive == Spec => []IInv
  BY Initially, NextKeeps, PTL DEF Spec

\* The variables keep their types: no hash beyond the writes the attempts allow
\* (chain/client.py, middleware/server.js, chain/views.py).
THEOREM TypeCorrect == Spec => []TypeOK
<1>1. IInv => TypeOK
  BY DEF IInv
<1>2. QED
  BY Inductive, <1>1, PTL

\* A SUBMITTED audit row carries the hash of a write (chain/client.py, chain/views.py).
THEOREM SubmittedReal == Spec => []SubmittedIsReal
<1>1. IInv => SubmittedIsReal
  BY DEF IInv, HashesReal, Truthful, SubmittedIsReal
<1>2. QED
  BY Inductive, <1>1, PTL

-----------------------------------------------------------------------------
(* The trace of a write is never wiped out *)

TraceKept(t) == Real(t, row[t].hash) /\ ~setup.simulate => Real(t, row'[t].hash)

\* Writes are only added.
LEMMA WritesGrow ==
    ASSUME IInv, [Next]_vars, NEW t \in Tx
    PROVE  writes[t] \in Nat /\ writes'[t] \in Nat /\ writes[t] <= writes'[t]
<1>1. writes[t] \in Nat
  BY SubmitConstants DEF IInv, TypeOK
<1>2. writes' = writes \/ \E u \in Tx: writes' = [writes EXCEPT ![u] = @ + 1]
  <2>1. CASE \E u \in Tx: ClientStep(u) \/ ClientDies(u) \/ CallerCommits(u) \/ CallerRollsBack(u)
    BY <2>1 DEF ClientStep, Submit, Post, TimeOut, Receive, ClientDies, CallerCommits, CallerRollsBack
  <2>2. CASE \E u \in Tx, i \in Attempt: MiddlewareStep(u, i)
    BY <2>2 DEF MiddlewareStep, Refuse, Recall, Broadcast, BroadcastRejected, Remember
  <2>3. CASE \E u \in Tx, i \in Attempt: SinkStep(u, i)
    BY <2>3 DEF SinkStep, SinkLoads, SinkSaves, SinkRecovers, SinkUnreachable
  <2>4. CASE Restart \/ UNCHANGED vars
    BY <2>4 DEF Restart, vars
  <2>5. QED
    BY <2>1, <2>2, <2>3, <2>4 DEF Next
<1>3. CASE writes' = writes
  BY <1>1, <1>3
<1>4. CASE \E u \in Tx: writes' = [writes EXCEPT ![u] = @ + 1]
  <2>1. PICK u \in Tx: writes' = [writes EXCEPT ![u] = writes[u] + 1]
    BY <1>4
  <2>2. t \in DOMAIN writes
    BY DEF IInv, TypeOK
  <2>3. writes'[t] = IF t = u THEN writes[t] + 1 ELSE writes[t]
    BY <2>1, <2>2
  <2>4. QED
    BY <1>1, <2>3
<1>5. QED
  BY <1>2, <1>3, <1>4

\* Closing a row keeps its hash.
LEMMA GiveUpKeepsTrace ==
    ASSUME IInv, NEW t \in Tx, NEW u \in Tx, RetryOrGiveUp(t) \/ GiveUp(t), ~setup.simulate
    PROVE  row'[u].hash = row[u].hash
<1>1. row[t] \in AuditRow /\ row[u] \in AuditRow
  BY DEF IInv, TypeOK
<1>2. CASE GiveUp(t) /\ mode[t] # "inner"
  <2>1. row' = [row EXCEPT ![t] = [row[t] EXCEPT !.status = "FAILED"]]
    BY <1>2 DEF GiveUp, Saves, Own
  <2>2. QED
    BY <1>1, <2>1 DEF IInv, TypeOK, AuditRow
<1>3. CASE UNCHANGED row
  BY <1>3
<1>4. QED
  BY <1>2, <1>3 DEF RetryOrGiveUp, GiveUp, Saves

\* No step wipes out the hash of a write.
LEMMA StepKeepsTrace == ASSUME IInv, [Next]_vars, NEW u \in Tx PROVE TraceKept(u)
<1> SUFFICES ASSUME Real(u, row[u].hash), ~setup.simulate PROVE Real(u, row'[u].hash)
  BY DEF TraceKept
<1>0. row[u] \in AuditRow /\ client[u] \in ClientState /\ ClientInOrder(u) /\ HashesReal(u)
      /\ row[u] # NoRow
  BY DEF IInv, TypeOK, Real, NoRow, NoHash
<1>1. CASE \E t \in Tx: Submit(t)
  <2> PICK t \in Tx: Submit(t)
    BY <1>1
  <2>1. row' = row \/ row' = [row EXCEPT ![t] = [status |-> "PENDING", hash |-> NoHash]]
    BY DEF Submit, Saves
  <2>2. u # t
    BY <1>0 DEF Submit, ClientInOrder
  <2>3. QED
    BY <2>1, <2>2 DEF IInv, TypeOK
<1>2. CASE \E t \in Tx: TimeOut(t)
  BY <1>2, GiveUpKeepsTrace DEF TimeOut
<1>3. CASE \E t \in Tx: Receive(t)
  <2> PICK t \in Tx: Receive(t)
    BY <1>3
  <2>1. CASE RetryOrGiveUp(t) \/ GiveUp(t)
    BY <2>1, GiveUpKeepsTrace
  <2>2. CASE /\ Current(t).stage = "answered"
             /\ Saves(t, [status |-> "SUBMITTED", hash |-> Current(t).hash])
    <3>1. row' = row \/ row' = [row EXCEPT ![t] = [status |-> "SUBMITTED", hash |-> Current(t).hash]]
      BY <2>2 DEF Saves
    <3>2. client[t].attempt \in Attempt /\ HashesReal(t) /\ writes[t] \in Nat
      BY SubmitConstants DEF Receive, IInv, TypeOK, ClientInOrder, ClientState, Attempt
    <3>3. Real(t, Current(t).hash)
      BY <2>2, <3>2 DEF HashesReal, RequestTruthful, Current, Real, NoHash
    <3>4. row'[u] = row[u] \/ (u = t /\ row'[u].hash = Current(t).hash)
      BY <3>1 DEF IInv, TypeOK
    <3>5. QED
      BY <3>3, <3>4
  <2>3. QED
    BY <2>1, <2>2 DEF Receive
<1>4. CASE \E t \in Tx, i \in Attempt: SinkSaves(t, i)
  <2> PICK t \in Tx, i \in Attempt: SinkSaves(t, i)
    BY <1>4
  <2> DEFINE s == sink[t][i]
  <2>1. CASE s.sawHash # NoHash /\ s.sawStatus # "PENDING"
    BY <2>1 DEF SinkSaves
  <2>2. CASE ~(s.sawHash # NoHash /\ s.sawStatus # "PENDING")
    <3>1. s \in Callback /\ s.stage = "loaded" /\ s.sawStatus # "NONE" /\ HashesReal(t)
      BY DEF SinkSaves, IInv, TypeOK
    <3>2. Real(t, s.hash) /\ Truthful(t, s.sawStatus, s.sawHash)
      BY <3>1 DEF HashesReal, SinkTruthful
    <3>3. s.sawHash = NoHash
      BY <2>2, <3>2 DEF Truthful
    <3>4. row' = [row EXCEPT ![t] =
                    [status |-> IF s.sawStatus = "PENDING" THEN "SUBMITTED" ELSE s.sawStatus,
                     hash |-> IF s.sawHash = NoHash THEN s.hash ELSE s.sawHash]]
      BY <2>2 DEF SinkSaves
    <3>5. u = t => row'[u].hash = s.hash
      BY <3>3, <3>4 DEF IInv, TypeOK
    <3>6. u # t => row'[u] = row[u]
      BY <3>4 DEF IInv, TypeOK
    <3>7. QED
      BY <3>2, <3>5, <3>6
  <2>3. QED
    BY <2>1, <2>2
<1>5. CASE UNCHANGED row
  BY <1>5
<1>6. CASE \E t \in Tx, i \in Attempt: SinkRecovers(t, i)
  BY <1>0, <1>6 DEF SinkRecovers, IInv, TypeOK
<1>7. CASE \E t \in Tx: CallerCommits(t)
  BY <1>0, <1>7 DEF CallerCommits, IInv, TypeOK, ClientInOrder, RowsInOrder
<1>8. QED
  <2>1. CASE \E t \in Tx: ClientStep(t) \/ ClientDies(t) \/ CallerCommits(t) \/ CallerRollsBack(t)
    BY <1>1, <1>2, <1>3, <1>5, <1>7, <2>1 DEF ClientStep, Post, ClientDies, CallerRollsBack
  <2>2. CASE \E t \in Tx, i \in Attempt: MiddlewareStep(t, i)
    BY <1>5, <2>2 DEF MiddlewareStep, Refuse, Recall, Broadcast, BroadcastRejected, Remember
  <2>3. CASE \E t \in Tx, i \in Attempt: SinkStep(t, i)
    BY <1>4, <1>5, <1>6, <2>3 DEF SinkStep, SinkLoads, SinkUnreachable
  <2>4. CASE Restart \/ UNCHANGED vars
    BY <1>5, <2>4 DEF Restart, vars
  <2>5. QED
    BY <2>1, <2>2, <2>3, <2>4 DEF Next

\* Retry loop and callback overwrite each other and never wipe out a hash of a write.
THEOREM TraceNeverLost == Spec => TraceStays
<1>1. IInv /\ [Next]_vars
      => [\A t \in Tx: Real(t, row[t].hash) /\ ~setup.simulate => Real(t, row'[t].hash)]_vars
  BY StepKeepsTrace DEF TraceKept
<1>2. QED
  BY Inductive, <1>1, PTL DEF Spec, TraceStays

-----------------------------------------------------------------------------
(* The submission implements SubmitOnce *)

Inner == {t \in Tx: mode[t] = "inner"}
Begun == {t \in Tx: client[t].pc # "start"}
Recorded == {t \in Tx: row[t] # NoRow}
Written == [t \in Tx |-> IF mode[t] = "raw" \/ writes[t] = 0 THEN writes[t] ELSE 1]

(* The steps of SubmitOnce in these terms. *)
Begins(t) ==
    /\ t \notin Begun /\ Begun' = Begun \cup {t}
    /\ Recorded' = IF t \in Inner THEN Recorded ELSE Recorded \cup {t}
    /\ UNCHANGED <<Inner, Written>>
Records(t) ==
    /\ t \in (Begun \cap Inner) \ Recorded /\ Recorded' = Recorded \cup {t}
    /\ UNCHANGED <<Inner, Begun, Written>>
IsWritten(t) ==
    /\ t \in Recorded \/ t \in Begun \cap Inner
    /\ Written[t] = 0 /\ Written' = [Written EXCEPT ![t] = 1]
    /\ UNCHANGED <<Inner, Begun, Recorded>>
Unseen == UNCHANGED <<Inner, Begun, Recorded, Written>>

\* Outside a caller's transaction the row comes first.
LEMMA SubmitBegins == ASSUME IInv, NEW t \in Tx, Submit(t) PROVE Begins(t)
<1>1. client[t].pc = "start" /\ row[t] = NoRow /\ UNCHANGED <<mode, writes>>
      /\ \A u \in Tx: client'[u].pc = IF u = t THEN "send" ELSE client[u].pc
  BY DEF Submit, IInv, TypeOK, ClientInOrder, ClientState
<1>2. t \notin Begun /\ Begun' = Begun \cup {t}
  BY <1>1 DEF Begun
<1>3. UNCHANGED <<Inner, Written>>
  BY <1>1 DEF Inner, Written
<1>4. CASE mode[t] = "inner"
  BY <1>2, <1>3, <1>4 DEF Submit, Saves, Begins, Recorded, Inner
<1>5. CASE mode[t] # "inner"
  <2>1. \A u \in Tx: row'[u] = IF u = t THEN [status |-> "PENDING", hash |-> NoHash] ELSE row[u]
    BY <1>5 DEF Submit, Saves, IInv, TypeOK
  <2>2. row'[t] # NoRow
    BY <2>1 DEF NoRow
  <2>3. Recorded' = Recorded \cup {t}
    BY <2>1, <2>2 DEF Recorded
  <2>4. QED
    BY <1>2, <1>3, <1>5, <2>3 DEF Begins, Inner
<1>6. QED
  BY <1>4, <1>5

\* The first write of a submission is its write; a further one stays untold.
LEMMA BroadcastWrites ==
    ASSUME IInv, NEW t \in Tx, NEW i \in Attempt, Broadcast(t, i) PROVE IsWritten(t) \/ Unseen
<1>1. UNCHANGED <<row, mode, client>> /\ writes' = [writes EXCEPT ![t] = @ + 1]
      /\ (mode[t] = "raw" => writes[t] = 0) /\ request[t][i].stage = "missed"
  BY DEF Broadcast
<1>2. writes[t] \in Nat /\ client[t] \in ClientState /\ ClientInOrder(t)
  BY SubmitConstants DEF IInv, TypeOK
<1>3. client[t].pc # "start"
  BY <1>1, <1>2, SubmitConstants DEF ClientInOrder, ClientState, Attempt
<1>4. t \in Recorded \/ t \in Begun \cap Inner
  BY <1>2, <1>3 DEF ClientInOrder, Recorded, Begun, Inner, NoRow
<1>5. UNCHANGED <<Inner, Begun, Recorded>>
  BY <1>1 DEF Inner, Begun, Recorded
<1>6. \A u \in Tx: writes'[u] = IF u = t THEN writes[t] + 1 ELSE writes[u]
  BY <1>1 DEF IInv, TypeOK
<1>7. CASE writes[t] = 0
  <2>1. Written[t] = 0
    BY <1>7 DEF Written
  <2>2. \A u \in Tx: Written'[u] = IF u = t THEN 1 ELSE Written[u]
    BY <1>1, <1>6, <1>7 DEF Written
  <2>3. Written' = [Written EXCEPT ![t] = 1]
    BY <2>2 DEF Written
  <2>4. QED
    BY <1>4, <1>5, <2>1, <2>3 DEF IsWritten
<1>8. CASE writes[t] # 0
  <2>1. mode[t] # "raw" /\ writes'[t] # 0
    BY <1>1, <1>2, <1>6, <1>8
  <2>2. \A u \in Tx: Written'[u] = Written[u]
    BY <1>1, <1>6, <1>8, <2>1 DEF Written
  <2>3. Written' = Written
    BY <2>2 DEF Written
  <2>4. QED
    BY <1>5, <2>3 DEF Unseen
<1>9. QED
  BY <1>7, <1>8

\* A row that appears is that of a submission inside its caller's transaction.
LEMMA RowAppears ==
    ASSUME IInv, IInv', UNCHANGED <<mode, writes>>, Begun' = Begun, NEW t \in Tx,
           \A u \in Tx: u # t => row'[u] = row[u],
           row[t] # NoRow => row'[t] # NoRow
    PROVE  Records(t) \/ Unseen
<1>1. UNCHANGED <<Inner, Written>>
  BY DEF Inner, Written
<1>2. CASE row[t] # NoRow \/ row'[t] = NoRow
  <2>1. \A u \in Tx: row'[u] # NoRow <=> row[u] # NoRow
    BY <1>2
  <2>2. Recorded' = Recorded
    BY <2>1 DEF Recorded
  <2>3. QED
    BY <1>1, <2>2 DEF Unseen
<1>3. CASE row[t] = NoRow /\ row'[t] # NoRow
  <2>1. ClientInOrder(t) /\ ClientInOrder(t)'
    BY DEF IInv
  <2>2. t \in Begun
    BY <1>3, <2>1 DEF ClientInOrder, Begun
  <2>3. t \in Inner
    BY <1>3, <2>1, <2>2 DEF ClientInOrder, Begun, Inner, NoRow
  <2>4. \A u \in Tx: row'[u] # NoRow <=> (u = t \/ row[u] # NoRow)
    BY <1>3
  <2>5. Recorded' = Recorded \cup {t} /\ t \notin Recorded
    BY <1>3, <2>4 DEF Recorded
  <2>6. QED
    BY <1>1, <2>2, <2>3, <2>5 DEF Records
<1>4. QED
  BY <1>2, <1>3

\* A client that has started does not start again, nor does its row go away.
LEMMA ClientUnseen ==
    ASSUME IInv, IInv', NEW t \in Tx,
           Post(t) \/ TimeOut(t) \/ Receive(t) \/ ClientDies(t) \/ CallerCommits(t) \/ CallerRollsBack(t)
    PROVE  Records(t) \/ Unseen
<1>1. UNCHANGED <<mode, writes>>
  BY DEF Post, TimeOut, Receive, ClientDies, CallerCommits, CallerRollsBack
<1>2. client[t].pc # "start" /\ client'[t].pc # "start" /\ \A u \in Tx: u # t => client'[u] = client[u]
  BY DEF Post, TimeOut, Receive, RetryOrGiveUp, GiveUp, ClientDies, CallerCommits, CallerRollsBack,
         IInv, TypeOK, ClientState
<1>3. Begun' = Begun
  BY <1>2 DEF Begun
<1>4. row' = row \/ \E new: row' = [row EXCEPT ![t] = new] /\ new # NoRow
  <2>1. ASSUME NEW new, Saves(t, new), new.status # "NONE"
        PROVE  row' = row \/ \E r: row' = [row EXCEPT ![t] = r] /\ r # NoRow
    BY <2>1 DEF Saves, NoRow
  <2>2. ASSUME RetryOrGiveUp(t) \/ GiveUp(t), client[t].pc = "wait"
        PROVE  row' = row \/ \E new: row' = [row EXCEPT ![t] = new] /\ new # NoRow
    <3> DEFINE new == IF setup.simulate THEN [status |-> "SIMULATED", hash |-> SimHash]
                                        ELSE [Own(t) EXCEPT !.status = "FAILED"]
    <3>1. new.status # "NONE"
      BY <2>2, OwnRow DEF AuditRow
    <3>2. Saves(t, new) \/ row' = row
      BY <2>2 DEF RetryOrGiveUp, GiveUp
    <3> HIDE DEF new
    <3>3. QED
      BY <2>1, <3>1, <3>2
  <2>3. CASE TimeOut(t)
    BY <2>2, <2>3 DEF TimeOut
  <2>4. CASE Receive(t)
    <3> DEFINE new == [status |-> "SUBMITTED", hash |-> Current(t).hash]
    <3>1. new.status # "NONE"
      OBVIOUS
    <3>2. client[t].pc = "wait" /\ (Saves(t, new) \/ RetryOrGiveUp(t) \/ GiveUp(t))
      BY <2>4 DEF Receive
    <3> HIDE DEF new
    <3>3. QED
      BY <2>1, <2>2, <3>1, <3>2
  <2>5. CASE CallerCommits(t)
    BY <2>5 DEF CallerCommits
  <2>6. QED
    BY <2>3, <2>4, <2>5 DEF Post, ClientDies, CallerRollsBack
<1>5. (\A u \in Tx: u # t => row'[u] = row[u]) /\ (row[t] # NoRow => row'[t] # NoRow)
  BY <1>4 DEF IInv, TypeOK
<1>6. QED
  BY <1>1, <1>3, <1>5, RowAppears

\* What the audit sink does to a row.
LEMMA SinkUnseen ==
    ASSUME IInv, IInv', NEW t \in Tx, NEW i \in Attempt, SinkStep(t, i)
    PROVE  Records(t) \/ Unseen
<1>1. UNCHANGED <<mode, writes, client>>
  BY DEF SinkStep, SinkLoads, SinkSaves, SinkRecovers, SinkUnreachable
<1>2. Begun' = Begun
  BY <1>1 DEF Begun
<1>3. row' = row \/ \E new: row' = [row EXCEPT ![t] = new] /\ new # NoRow
  <2>1. CASE SinkSaves(t, i)
    <3> DEFINE s == sink[t][i]
               new == [status |-> IF s.sawStatus = "PENDING" THEN "SUBMITTED" ELSE s.sawStatus,
                       hash |-> IF s.sawHash = NoHash THEN s.hash ELSE s.sawHash]
    <3>1. s.sawStatus # "NONE" /\ (row' = row \/ row' = [row EXCEPT ![t] = new])
      BY <2>1 DEF SinkSaves
    <3>2. new # NoRow
      BY <3>1 DEF NoRow
    <3> HIDE DEF new
    <3>3. QED
      BY <3>1, <3>2
  <2>2. CASE SinkRecovers(t, i)
    <3> DEFINE new == [status |-> "SUBMITTED", hash |-> sink[t][i].hash]
    <3>1. row' = row \/ row' = [row EXCEPT ![t] = new]
      BY <2>2 DEF SinkRecovers
    <3>2. new # NoRow
      BY DEF NoRow
    <3> HIDE DEF new
    <3>3. QED
      BY <3>1, <3>2
  <2>3. QED
    BY <2>1, <2>2 DEF SinkStep, SinkLoads, SinkUnreachable
<1>4. (\A u \in Tx: u # t => row'[u] = row[u]) /\ (row[t] # NoRow => row'[t] # NoRow)
  BY <1>3 DEF IInv, TypeOK
<1>5. QED
  BY <1>1, <1>2, <1>4, RowAppears

\* Every step is a step of SubmitOnce or unseen by it.
LEMMA StepMaps ==
    ASSUME IInv, IInv', [Next]_vars
    PROVE  (\E t \in Tx: Begins(t) \/ Records(t) \/ IsWritten(t)) \/ Unseen
<1>1. CASE \E t \in Tx: ClientStep(t) \/ ClientDies(t) \/ CallerCommits(t) \/ CallerRollsBack(t)
  BY <1>1, SubmitBegins, ClientUnseen DEF ClientStep
<1>2. CASE \E t \in Tx, i \in Attempt: Broadcast(t, i)
  BY <1>2, BroadcastWrites
<1>3. CASE \E t \in Tx, i \in Attempt:
               Refuse(t, i) \/ Recall(t, i) \/ BroadcastRejected(t, i) \/ Remember(t, i)
  <2>1. UNCHANGED <<mode, client, row, writes>>
    BY <1>3 DEF Refuse, Recall, BroadcastRejected, Remember
  <2>2. QED
    BY <2>1 DEF Unseen, Inner, Begun, Recorded, Written
<1>4. CASE \E t \in Tx, i \in Attempt: SinkStep(t, i)
  BY <1>4, SinkUnseen
<1>5. CASE Restart \/ UNCHANGED vars
  <2>1. UNCHANGED <<mode, client, row, writes>>
    BY <1>5 DEF Restart, vars
  <2>2. QED
    BY <2>1 DEF Unseen, Inner, Begun, Recorded, Written
<1>6. QED
  BY <1>1, <1>2, <1>3, <1>4, <1>5 DEF Next, MiddlewareStep

\* Client, caller, middleware and audit sink together submit once: on record before
\* it is sent unless a caller's transaction holds the row back, on record for good
\* once others see it, a signed blob written at most once (chain/client.py,
\* chain/views.py, middleware/server.js).
THEOREM SubmissionRefines == Spec => SubmitsOnce
<1>1. Init => Once!Init
  <2> SUFFICES ASSUME Init PROVE Once!Init
    OBVIOUS
  <2>1. Begun = {} /\ Recorded = {} /\ Inner \in SUBSET Tx
    BY DEF Init, Begun, Recorded, Inner
  <2>2. Written = [t \in Tx |-> 0]
    BY DEF Init, Written
  <2>3. QED
    BY <2>1, <2>2 DEF Once!Init, Begun, Recorded, Inner, Written
<1>2. IInv /\ IInv' /\ [Next]_vars => [Once!Next]_(Once!vars)
  <2> SUFFICES ASSUME IInv, IInv', [Next]_vars PROVE [Once!Next]_(Once!vars)
    OBVIOUS
  <2>1. ASSUME NEW t \in Tx, Begins(t) PROVE Once!Begin(t)
    BY <2>1 DEF Begins, Once!Begin, Begun, Recorded, Inner, Written
  <2>2. ASSUME NEW t \in Tx, Records(t) PROVE Once!Record(t)
    BY <2>2 DEF Records, Once!Record, Begun, Recorded, Inner, Written
  <2>3. ASSUME NEW t \in Tx, IsWritten(t) PROVE Once!Write(t)
    BY <2>3 DEF IsWritten, Once!Write, Begun, Recorded, Inner, Written
  <2>4. Unseen => UNCHANGED Once!vars
    BY DEF Unseen, Once!vars, Begun, Recorded, Inner, Written
  <2>5. QED
    BY <2>1, <2>2, <2>3, <2>4, StepMaps DEF Once!Next
<1>3. QED
  BY Inductive, <1>1, <1>2, PTL DEF Spec, SubmitsOnce, Once!Spec
=============================================================================
