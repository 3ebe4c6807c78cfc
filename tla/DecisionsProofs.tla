---------------------------- MODULE DecisionsProofs ----------------------------
(* Proofs about the three votes of the system, the proposals of the governance *)
(* board, recalls, and revisions of the budget, for any members, units,        *)
(* requests and numbers of votes.                                              *)
EXTENDS Governance, RuleChange, Recall, SetTheorems

-----------------------------------------------------------------------------
(* Governance *)

PowerFor == RecordedPower(TRUE)
PowerAgainst == RecordedPower(FALSE)

(* A row, stored or held by a request, shows no more than the recorded votes. *)
Shown(row) ==
    /\ row.for <= PowerFor /\ row.against <= PowerAgainst
    /\ row.status \in {"PASSED", "EXECUTED"} => PowerFor >= Quorum

HoldingRow == [pc: {"submit", "edit", "execute"}, row: ProposalRow]
Casting == [pc: {"cast", "recorded"}, row: ProposalRow, user: User, ballot: VoteRow]

(* A request that has recorded its ballot may add it to the row it holds. *)
DecisionOK(step) ==
    \/ step = Free
    \/ step \in HoldingRow /\ Shown(step.row) /\ (step.pc = "execute" => step.row.status = "PASSED")
    \/ /\ step \in Casting /\ Shown(step.row)
       /\ step.pc = "recorded" => Shown(Tallied(step.row, step.ballot))
    \/ step = [pc |-> "executed"] /\ PowerFor >= Quorum

GovIInv ==
    /\ GovTypeOK /\ Shown(proposal) /\ (actions > 0 => PowerFor >= Quorum)
    /\ deciding = [q \in Request |-> deciding[q]]
    /\ \A q \in Request: DecisionOK(deciding[q])

-----------------------------------------------------------------------------
(* The recorded power *)

\* A recorded power is a number.
LEMMA PowerIsNat ==
    ASSUME GovTypeOK, NEW for \in BOOLEAN
    PROVE  RecordedPower(for) \in Nat
<1> DEFINE f == [u \in User |-> vote[u].power]
           S == {u \in User: vote[u] # NoVote /\ vote[u].for = for}
<1>1. \A u \in S: f[u] \in Nat
  BY GovConstants DEF GovTypeOK, VoteRow
<1>2. IsFiniteSet(S)
  <2>1. S \subseteq User
    OBVIOUS
  <2> HIDE DEF S
  <2>2. QED
    BY <2>1, GovConstants, FS_Subset
<1> HIDE DEF f, S
<1>3. SumFunctionOnSet(f, S) \in Nat
  BY <1>1, <1>2, SumIsNat
<1>4. QED
  BY <1>3 DEF RecordedPower, f, S

\* Recording the ballot of a user who has none adds its power to one side.
LEMMA PowerRecorded ==
    ASSUME GovTypeOK, NEW user \in User, NEW ballot \in VoteRow, vote[user] = NoVote,
           vote' = [vote EXCEPT ![user] = ballot], NEW for \in BOOLEAN
    PROVE  RecordedPower(for)' = RecordedPower(for) + (IF ballot.for = for THEN ballot.power ELSE 0)
<1> DEFINE f == [u \in User |-> vote[u].power]
           g == [u \in User |-> vote'[u].power]
           S == {u \in User: vote[u] # NoVote /\ vote[u].for = for}
           T == {u \in User: vote'[u] # NoVote /\ vote'[u].for = for}
<1>1. /\ \A u \in User: vote'[u] = IF u = user THEN ballot ELSE vote[u]
      /\ ballot # NoVote /\ ballot.power \in Nat
  <2>1. ballot.power \in Nat \ {0}
    BY GovConstants DEF VoteRow
  <2>2. ballot # NoVote
    BY <2>1 DEF NoVote
  <2>3. QED
    BY <2>1, <2>2 DEF GovTypeOK
<1>2. /\ S \subseteq User /\ user \notin S /\ T = IF ballot.for = for THEN S \cup {user} ELSE S
      /\ \A u \in S: f[u] \in Nat /\ g[u] = f[u]
      /\ g[user] = ballot.power
  <2>1. \A u \in S: vote[u] \in VoteRow /\ vote[u].power \in Nat
    BY GovConstants DEF GovTypeOK, VoteRow
  <2>2. QED
    BY <1>1, <2>1
<1>3. RecordedPower(for) = SumFunctionOnSet(f, S) /\ RecordedPower(for)' = SumFunctionOnSet(g, T)
  BY DEF RecordedPower
<1> HIDE DEF f, g, S, T
<1>4. IsFiniteSet(S)
  BY <1>2, GovConstants, FS_Subset
<1>5. SumFunctionOnSet(g, S) = SumFunctionOnSet(f, S) /\ SumFunctionOnSet(f, S) \in Nat
  BY <1>2, <1>4, SumSame, SumIsNat
<1>6. CASE ballot.for = for
  <2>1. SumFunctionOnSet(g, S \cup {user}) = g[user] + SumFunctionOnSet(g, S)
    <3>1. \A u \in S \cup {user}: g[u] \in Int
      BY <1>1, <1>2
    <3>2. QED
      BY <1>2, <1>4, <3>1, SumAdd
  <2>2. QED
    BY <1>1, <1>2, <1>3, <1>5, <1>6, <2>1
<1>7. CASE ballot.for # for
  BY <1>2, <1>3, <1>5, <1>7
<1>8. QED
  BY <1>6, <1>7

\* Recorded power is never taken away.
PowerGrows ==
    /\ PowerFor \in Nat /\ PowerFor' \in Nat /\ PowerFor <= PowerFor'
    /\ PowerAgainst \in Nat /\ PowerAgainst' \in Nat /\ PowerAgainst <= PowerAgainst'

\* What is shown stays shown as power grows.
LEMMA ShownStays ==
    ASSUME PowerGrows
    PROVE  /\ \A row \in ProposalRow: Shown(row) => Shown(row)'
           /\ PowerFor >= Quorum => PowerFor' >= Quorum
<1>2. PowerFor >= Quorum => PowerFor' >= Quorum
  BY GovConstants DEF PowerGrows
<1>3. ASSUME NEW row \in ProposalRow, Shown(row) PROVE Shown(row)'
  <2>1. row.for \in Nat /\ row.against \in Nat
    BY DEF ProposalRow
  <2>2. QED
    BY <1>2, <1>3, <2>1 DEF Shown, PowerGrows
<1>4. QED
  BY <1>2, <1>3

\* A tally is a row, and says passed only with a quorum.
LEMMA TallyIsRow ==
    ASSUME NEW row \in ProposalRow, NEW ballot \in VoteRow
    PROVE  Tallied(row, ballot) \in ProposalRow
  BY GovConstants DEF Tallied, ProposalRow, VoteRow

\* A step of a request stays in order while power grows.
LEMMA DecisionStays == ASSUME PowerGrows, NEW step, DecisionOK(step) PROVE DecisionOK(step)'
<1>1. CASE step = Free
  BY <1>1 DEF DecisionOK
<1>2. CASE step \in HoldingRow /\ Shown(step.row) /\ (step.pc = "execute" => step.row.status = "PASSED")
  BY <1>2, ShownStays DEF DecisionOK, HoldingRow
<1>3. CASE /\ step \in Casting /\ Shown(step.row)
           /\ step.pc = "recorded" => Shown(Tallied(step.row, step.ballot))
  <2>1. Shown(step.row)' /\ (step.pc = "recorded" => Shown(Tallied(step.row, step.ballot))')
    <3>1. PICK t \in ProposalRow: t = Tallied(step.row, step.ballot)
      BY <1>3, TallyIsRow DEF Casting
    <3>2. Shown(t) => Shown(t)'
      BY ShownStays
    <3>3. QED
      BY <1>3, <3>1, <3>2, ShownStays DEF Casting
  <2>2. QED
    BY <1>3, <2>1 DEF DecisionOK
<1>4. CASE step = [pc |-> "executed"] /\ PowerFor >= Quorum
  BY <1>4, ShownStays DEF DecisionOK
<1>5. QED
  BY <1>1, <1>2, <1>3, <1>4 DEF DecisionOK

\* One request goes on; whatever was recorded, the others stay in order.
LEMMA DecisionMoves ==
    ASSUME GovIInv, PowerGrows, NEW q \in Request, NEW step, Decides(q, step), DecisionOK(step)'
    PROVE  /\ deciding' = [p \in Request |-> deciding'[p]]
           /\ \A p \in Request: DecisionOK(deciding[p])'
<1>1. deciding' = [p \in Request |-> IF p = q THEN step ELSE deciding[p]]
  BY DEF Decides, GovIInv
<1>2. ASSUME NEW p \in Request PROVE DecisionOK(deciding[p])'
  <2>1. PICK s: s = IF p = q THEN step ELSE deciding[p]
    OBVIOUS
  <2>2. DecisionOK(s)'
    <3>1. CASE p = q
      BY <2>1, <3>1 DEF DecisionOK, Shown, PowerFor, PowerAgainst, RecordedPower
    <3>2. CASE p # q
      <4>1. s = deciding[p] /\ DecisionOK(s)
        BY <2>1, <3>2 DEF GovIInv, DecisionOK
      <4>2. QED
        BY <4>1, DecisionStays
    <3>3. QED
      BY <3>1, <3>2
  <2>3. deciding'[p] = s
    BY <1>1, <2>1
  <2>4. QED
    BY <2>2, <2>3 DEF DecisionOK, Shown, PowerFor, PowerAgainst, RecordedPower
<1>3. QED
  BY <1>1, <1>2

\* Unchanged votes have the power they had.
LEMMA PowerStays == ASSUME GovIInv, UNCHANGED vote PROVE PowerGrows
<1>1. PowerFor' = PowerFor /\ PowerAgainst' = PowerAgainst
  BY DEF PowerFor, PowerAgainst, RecordedPower
<1>2. PowerFor \in Nat /\ PowerAgainst \in Nat
  BY PowerIsNat DEF GovIInv, PowerFor, PowerAgainst
<1>3. QED
  BY <1>1, <1>2 DEF PowerGrows

-----------------------------------------------------------------------------
(* The steps *)

\* At the start nobody has voted and nothing is shown.
LEMMA GovInitially == GovInit => GovIInv
<1> SUFFICES ASSUME GovInit PROVE GovIInv
  OBVIOUS
<1>1. GovTypeOK
  BY DEF GovInit, GovTypeOK, ProposalRow
<1>2. PowerFor \in Nat /\ PowerAgainst \in Nat
  BY <1>1, PowerIsNat DEF PowerFor, PowerAgainst
<1>3. Shown(proposal) /\ actions = 0
  BY <1>2 DEF GovInit, Shown
<1>4. QED
  BY <1>1, <1>3 DEF GovInit, GovIInv, DecisionOK

\* A row is saved that shows no more than the votes.
LEMMA ProposalMoves ==
    ASSUME GovIInv, NEW row \in ProposalRow, Shown(row), proposal' = row, UNCHANGED vote,
           actions' \in Nat, actions' > 0 => actions > 0 \/ PowerFor >= Quorum,
           NEW q \in Request, NEW step, Decides(q, step), DecisionOK(step)'
    PROVE  GovIInv'
<1>1. PowerGrows
  BY PowerStays
<1>2. GovTypeOK'
  BY DEF GovIInv, GovTypeOK
<1>3. Shown(row)'
  BY <1>1, ShownStays
<1>4. Shown(proposal)'
  BY <1>3 DEF Shown, PowerFor, PowerAgainst, RecordedPower
<1>5. (actions > 0 => PowerFor >= Quorum)'
  <2>1. actions' > 0 => PowerFor >= Quorum
    BY DEF GovIInv
  <2>2. QED
    BY <1>1, <2>1, ShownStays
<1>6. QED
  BY <1>1, <1>2, <1>4, <1>5, DecisionMoves DEF GovIInv

\* What a request in order holds.
LEMMA HeldRow ==
    ASSUME GovIInv, NEW q \in Request
    PROVE  /\ deciding[q].pc \in {"submit", "edit", "execute"} =>
                 /\ deciding[q].row \in ProposalRow /\ Shown(deciding[q].row)
                 /\ deciding[q].pc = "execute" => deciding[q].row.status = "PASSED"
           /\ deciding[q].pc \in {"cast", "recorded"} =>
                 deciding[q] \in Casting /\ Shown(deciding[q].row)
           /\ deciding[q].pc = "recorded" => Shown(Tallied(deciding[q].row, deciding[q].ballot))
           /\ deciding[q].pc = "executed" => PowerFor >= Quorum
<1> DEFINE step == deciding[q]
<1>1. DecisionOK(step)
  BY DEF GovIInv
<1>2. step = Free \/ step = [pc |-> "executed"] => step.pc \in {"free", "executed"}
  BY DEF Free
<1>3. step \in HoldingRow => step.pc \in {"submit", "edit", "execute"} /\ step.row \in ProposalRow
  BY DEF HoldingRow
<1>4. step \in Casting => step.pc \in {"cast", "recorded"}
  BY DEF Casting
<1>5. step = [pc |-> "executed"] => step.pc = "executed"
  OBVIOUS
<1>6. step = Free => step.pc = "free"
  BY DEF Free
<1> HIDE DEF step
<1>7. /\ step.pc \in {"submit", "edit", "execute"} =>
            /\ step.row \in ProposalRow /\ Shown(step.row)
            /\ step.pc = "execute" => step.row.status = "PASSED"
      /\ step.pc \in {"cast", "recorded"} => step \in Casting /\ Shown(step.row)
      /\ step.pc = "recorded" => Shown(Tallied(step.row, step.ballot))
      /\ step.pc = "executed" => PowerFor >= Quorum
  BY <1>1, <1>2, <1>3, <1>4, <1>5, <1>6 DEF DecisionOK
<1>8. QED
  BY <1>7 DEF step

\* A row is loaded for a submission, an edit or an execution.
LEMMA RowLoads ==
    ASSUME GovIInv, NEW q \in Request, SubmitLoads(q) \/ EditLoads(q) \/ ExecuteLoads(q)
    PROVE  GovIInv'
<1>1. PICK pc \in {"submit", "edit", "execute"}:
         /\ pc = "execute" => proposal.status = "PASSED"
         /\ Decides(q, [pc |-> pc, row |-> proposal])
         /\ UNCHANGED <<proposal, vote, actions>>
  BY DEF SubmitLoads, EditLoads, ExecuteLoads, LoadsProposal
<1>2. proposal \in ProposalRow /\ Shown(proposal) /\ actions \in Nat
  BY DEF GovIInv, GovTypeOK
<1>3. PICK row: row = proposal
  OBVIOUS
<1>4. Shown(row)'
  BY <1>1, <1>2, <1>3, PowerStays, ShownStays
<1>5. DecisionOK([pc |-> pc, row |-> row])'
  BY <1>1, <1>2, <1>3, <1>4 DEF DecisionOK, HoldingRow
<1>6. QED
  BY <1>1, <1>2, <1>3, <1>5, ProposalMoves

\* The row that was held is saved, with its new status.
LEMMA RowSaves ==
    ASSUME GovIInv, NEW q \in Request, SubmitSaves(q) \/ EditSaves(q) \/ ExecuteSaves(q)
    PROVE  GovIInv'
<1> DEFINE held == deciding[q].row
<1>1. actions \in Nat /\ DecisionOK(Free)'
  BY DEF GovIInv, GovTypeOK, DecisionOK
<1>2. CASE SubmitSaves(q)
  <2> DEFINE row == [held EXCEPT !.status = "ACTIVE"]
  <2>1. held \in ProposalRow /\ Shown(held)
    BY <1>2, HeldRow DEF SubmitSaves, DecidesAt
  <2>2. row \in ProposalRow /\ Shown(row)
    BY <2>1 DEF ProposalRow, Shown
  <2>3. proposal' = row /\ Decides(q, Free) /\ UNCHANGED <<vote, actions>>
    BY <1>2 DEF SubmitSaves, SavesProposal
  <2> HIDE DEF row
  <2>4. QED
    BY <1>1, <2>2, <2>3, ProposalMoves
<1>3. CASE EditSaves(q)
  <2>1. held \in ProposalRow /\ Shown(held)
    BY <1>3, HeldRow DEF EditSaves, DecidesAt
  <2>2. proposal' = held /\ Decides(q, Free) /\ UNCHANGED <<vote, actions>>
    BY <1>3 DEF EditSaves, SavesProposal
  <2>3. QED
    BY <1>1, <2>1, <2>2, ProposalMoves
<1>4. CASE ExecuteSaves(q)
  <2> DEFINE row == [held EXCEPT !.status = "EXECUTED"]
  <2>1. held \in ProposalRow /\ Shown(held) /\ held.status = "PASSED"
    BY <1>4, HeldRow DEF ExecuteSaves, DecidesAt
  <2>2. row \in ProposalRow /\ Shown(row) /\ PowerFor >= Quorum
    BY <2>1 DEF ProposalRow, Shown
  <2>3. proposal' = row /\ Decides(q, [pc |-> "executed"]) /\ UNCHANGED <<vote, actions>>
    BY <1>4 DEF ExecuteSaves, SavesProposal
  <2>4. DecisionOK([pc |-> "executed"])'
    BY <2>2, <2>3, PowerStays, ShownStays DEF DecisionOK
  <2> HIDE DEF row
  <2>5. QED
    BY <1>1, <2>2, <2>3, <2>4, ProposalMoves
<1>5. QED
  BY <1>2, <1>3, <1>4

\* A ballot is held with the row it will be added to.
LEMMA CastLoadsKeeps ==
    ASSUME GovIInv, NEW q \in Request, NEW user \in User, NEW for \in BOOLEAN, NEW power \in Power,
           CastLoads(q, user, for, power)
    PROVE  GovIInv'
<1> DEFINE ballot == [for |-> for, power |-> power]
<1>1. proposal \in ProposalRow /\ Shown(proposal) /\ actions \in Nat /\ ballot \in VoteRow
  BY DEF GovIInv, GovTypeOK, VoteRow
<1>2. PICK row: row = proposal
  OBVIOUS
<1>3. Decides(q, [pc |-> "cast", row |-> row, user |-> user, ballot |-> ballot])
      /\ UNCHANGED <<proposal, vote, actions>>
  BY <1>2 DEF CastLoads
<1>4. Shown(row)'
  BY <1>1, <1>2, <1>3, PowerStays, ShownStays
<1>5. DecisionOK([pc |-> "cast", row |-> row, user |-> user, ballot |-> ballot])'
  BY <1>1, <1>2, <1>4 DEF DecisionOK, Casting
<1> HIDE DEF ballot
<1>6. QED
  BY <1>1, <1>2, <1>3, <1>5, ProposalMoves

\* A ballot is recorded: the row that was held may show it from now on.
LEMMA CastRecordsKeeps == ASSUME GovIInv, NEW q \in Request, CastRecords(q) PROVE GovIInv'
<1> DEFINE user == deciding[q].user
           ballot == deciding[q].ballot
           held == deciding[q].row
<1>1. /\ deciding[q] \in Casting /\ deciding[q].pc = "cast" /\ Shown(held) /\ held \in ProposalRow
      /\ user \in User /\ ballot \in VoteRow /\ ballot.for \in BOOLEAN /\ ballot.power \in Nat
      /\ UNCHANGED <<proposal, actions>>
  BY HeldRow, GovConstants DEF CastRecords, DecidesAt, Casting, VoteRow
<1>2. CASE vote[user] # NoVote
  <2>1. Decides(q, Free) /\ UNCHANGED vote
    BY <1>2 DEF CastRecords
  <2>2. proposal \in ProposalRow /\ Shown(proposal) /\ actions \in Nat /\ DecisionOK(Free)'
    BY DEF GovIInv, GovTypeOK, DecisionOK
  <2>3. QED
    BY <1>1, <2>1, <2>2, ProposalMoves
<1>3. CASE vote[user] = NoVote
  <2>1. vote' = [vote EXCEPT ![user] = ballot] /\ Decides(q, [deciding[q] EXCEPT !.pc = "recorded"])
    BY <1>3 DEF CastRecords
  <2>2. GovTypeOK /\ GovTypeOK'
    BY <1>1, <2>1 DEF GovIInv, GovTypeOK
  <2>3. /\ PowerFor \in Nat /\ PowerFor' = PowerFor + (IF ballot.for THEN ballot.power ELSE 0)
        /\ PowerAgainst \in Nat /\ PowerAgainst' = PowerAgainst + (IF ballot.for THEN 0 ELSE ballot.power)
    <3>1. /\ RecordedPower(TRUE)' = RecordedPower(TRUE) + (IF ballot.for = TRUE THEN ballot.power ELSE 0)
          /\ RecordedPower(FALSE)' = RecordedPower(FALSE) + (IF ballot.for = FALSE THEN ballot.power ELSE 0)
      BY <1>1, <1>3, <2>1, <2>2, PowerRecorded
    <3>2. RecordedPower(TRUE) \in Nat /\ RecordedPower(FALSE) \in Nat
      BY <2>2, PowerIsNat
    <3>3. ballot.for = TRUE \/ ballot.for = FALSE
      BY <1>1
    <3>4. QED
      BY <3>1, <3>2, <3>3 DEF PowerFor, PowerAgainst
  <2>4. PowerGrows
    BY <1>1, <2>3 DEF PowerGrows
  <2>5. PICK b, r, s: b = ballot /\ r = held /\ s = [deciding[q] EXCEPT !.pc = "recorded"]
    OBVIOUS
  <2>6. s \in Casting /\ s.pc = "recorded" /\ s.row = r /\ s.ballot = b
    BY <1>1, <2>5 DEF Casting
  <2>7. Shown(r)' /\ Shown(Tallied(r, b))'
    <3>1. Shown(r) /\ r \in ProposalRow /\ r.for \in Nat /\ r.against \in Nat
      BY <1>1, <2>5 DEF ProposalRow
    <3>2. Shown(r)'
      BY <2>4, <3>1, ShownStays
    <3>3. /\ Tallied(r, b) \in ProposalRow
          /\ Tallied(r, b).for = IF b.for THEN r.for + b.power ELSE r.for
          /\ Tallied(r, b).against = IF b.for THEN r.against ELSE r.against + b.power
          /\ Tallied(r, b).status = IF Tallied(r, b).for >= Quorum THEN "PASSED" ELSE r.status
      <4>1. b \in VoteRow /\ Tallied(r, b) \in ProposalRow
        BY <1>1, <2>5, <3>1, TallyIsRow
      <4>2. CASE b.for
        BY <3>1, <4>1, <4>2 DEF Tallied, ProposalRow
      <4>3. CASE ~ b.for
        BY <3>1, <4>1, <4>3 DEF Tallied, ProposalRow
      <4>4. QED
        BY <4>2, <4>3
    <3>4. /\ Tallied(r, b).for <= PowerFor' /\ Tallied(r, b).against <= PowerAgainst'
          /\ PowerFor' \in Nat
      BY <1>1, <2>3, <2>5, <3>1, <3>3 DEF Shown
    <3>5. Tallied(r, b).status \in {"PASSED", "EXECUTED"} => PowerFor' >= Quorum
      <4>1. Tallied(r, b).for \in Nat
        BY <3>3 DEF ProposalRow
      <4>2. r.status \in {"PASSED", "EXECUTED"} => PowerFor' >= Quorum
        BY <3>2 DEF Shown
      <4>3. QED
        BY <3>3, <3>4, <4>1, <4>2, GovConstants
    <3>6. QED
      BY <3>2, <3>4, <3>5 DEF Shown
  <2>8. DecisionOK(s)'
    BY <2>6, <2>7 DEF DecisionOK
  <2>9. Shown(proposal)' /\ (actions > 0 => PowerFor >= Quorum)'
    <3>1. PICK p: p = proposal
      OBVIOUS
    <3>2. Shown(p)'
      BY <2>2, <2>4, <3>1, ShownStays DEF GovIInv, GovTypeOK
    <3>3. Shown(proposal)'
      BY <1>1, <3>1, <3>2 DEF Shown, PowerFor, PowerAgainst, RecordedPower
    <3>4. QED
      BY <1>1, <2>4, <3>3, ShownStays DEF GovIInv
  <2>10. QED
    BY <2>1, <2>2, <2>4, <2>5, <2>8, <2>9, DecisionMoves DEF GovIInv
<1>4. QED
  BY <1>2, <1>3

\* The tally is saved with the ballot that was recorded.
LEMMA CastSavesKeeps == ASSUME GovIInv, NEW q \in Request, CastSaves(q) PROVE GovIInv'
<1> DEFINE row == Tallied(deciding[q].row, deciding[q].ballot)
<1>1. deciding[q] \in Casting /\ Shown(row)
  BY HeldRow DEF CastSaves, DecidesAt
<1>2. row \in ProposalRow
  BY <1>1, TallyIsRow DEF Casting
<1>3. proposal' = row /\ Decides(q, Free) /\ UNCHANGED <<vote, actions>>
  BY DEF CastSaves, SavesProposal
<1>4. actions \in Nat /\ DecisionOK(Free)'
  BY DEF GovIInv, GovTypeOK, DecisionOK
<1> HIDE DEF row
<1>5. QED
  BY <1>1, <1>2, <1>3, <1>4, ProposalMoves

\* An executed proposal is logged; or a request dies.
LEMMA EndKeeps ==
    ASSUME GovIInv, NEW q \in Request, RecordsAction(q) \/ GovDies(q)
    PROVE  GovIInv'
<1>1. proposal \in ProposalRow /\ Shown(proposal) /\ actions \in Nat /\ DecisionOK(Free)'
  BY DEF GovIInv, GovTypeOK, DecisionOK
<1>2. UNCHANGED <<proposal, vote>> /\ Decides(q, Free)
  BY DEF RecordsAction, GovDies
<1>3. actions' \in Nat /\ (actions' > 0 => actions > 0 \/ PowerFor >= Quorum)
  BY <1>1, HeldRow DEF RecordsAction, GovDies, DecidesAt
<1>4. QED
  BY <1>1, <1>2, <1>3, ProposalMoves

\* Every step keeps the inductive invariant.
LEMMA GovNextKeeps == GovIInv /\ [GovNext]_govVars => GovIInv'
<1> SUFFICES ASSUME GovIInv, [GovNext]_govVars PROVE GovIInv'
  OBVIOUS
<1>1. CASE GovNext
  BY <1>1, RowLoads, RowSaves, CastLoadsKeeps, CastRecordsKeeps, CastSavesKeeps, EndKeeps DEF GovNext
<1>2. CASE UNCHANGED govVars
  BY <1>2 DEF govVars, GovIInv, GovTypeOK, Shown, PowerFor, PowerAgainst, RecordedPower, DecisionOK
<1>3. QED
  BY <1>1, <1>2

\* GovIInv is an invariant of every behaviour of votes, edits and execution.
THEOREM GovInductive == GovSpec => []GovIInv
  BY GovInitially, GovNextKeeps, PTL DEF GovSpec

\* The proposal and its votes have the fields of the models (governance/models.py).
THEOREM GovTypeCorrect == GovSpec => []GovTypeOK
<1>1. GovIInv => GovTypeOK
  BY DEF GovIInv
<1>2. QED
  BY GovInductive, <1>1, PTL

\* No tally shows a vote that is not recorded, and nothing is passed or executed without
\* the quorum, though whole rows are saved from old reads (governance/views.py).
THEOREM TallyRecorded == GovSpec => []TallyIsRecorded
<1>1. GovIInv => TallyIsRecorded
  BY DEF GovIInv, Shown, TallyIsRecorded, PowerFor, PowerAgainst
<1>2. QED
  BY GovInductive, <1>1, PTL

-----------------------------------------------------------------------------
(* Revisions of the budget *)

(* Who is behind the status of a row: of the stored one and of every copy that *)
(* a request holds and will save.                                              *)
Behind(c) == c \in court \/ Cardinality(approvals[c]) >= RequiredVotes

Backed(c, row) ==
    /\ Approvers(row) \subseteq approvals[c]
    /\ row.status # "voting" => Behind(c)

Voting == [pc: {"vote"}, change: Change, row: RuleChangeRow, member: Member, ballot: {"approve", "reject"}]
Applying == [pc: {"apply", "deactivated", "flipped"}, change: Change, row: RuleChangeRow]

RequestOK(q) ==
    \/ revising[q] = Free
    \/ revising[q] \in Voting /\ Backed(revising[q].change, revising[q].row)
    \/ /\ revising[q] \in Applying /\ Backed(revising[q].change, revising[q].row)
       /\ revising[q].row.status # "voting"
       /\ revising[q].pc # "flipped" => NewBudget[revising[q].change] # NoBudget

(* The active budget is missing exactly while one request is between its statements. *)
NotTorn ==
    torn \/ /\ \A p, q \in Request: Between(p) /\ Between(q) => p = q
            /\ (\E q \in Request: Between(q)) => active = {}
            /\ (\A q \in Request: ~Between(q)) => \E b \in Budget: active = {b}

ChangeIInv ==
    /\ ChangeTypeOK
    /\ revising = [q \in Request |-> revising[q]]
    /\ \A c \in Change: Proposed(c) => Backed(c, change[c])
    /\ \A q \in Request: RequestOK(q)
    /\ NotTorn

-----------------------------------------------------------------------------
(* What is behind a row stays behind it *)

\* Approvals and court rulings are only added, so a row once backed stays backed.
LEMMA BackedStays ==
    ASSUME ChangeIInv, NEW c \in Change, NEW row, Backed(c, row),
           approvals[c] \subseteq approvals'[c], approvals'[c] \subseteq Member, court \subseteq court'
    PROVE  Backed(c, row)'
<1>1. Cardinality(approvals[c]) \in Nat /\ Cardinality(approvals'[c]) \in Nat
      /\ Cardinality(approvals[c]) <= Cardinality(approvals'[c])
  BY ChangeConstants, FS_Subset, FS_CardinalityType
<1>2. Behind(c) => Behind(c)'
  BY <1>1, ChangeConstants DEF Behind
<1>3. QED
  BY <1>2 DEF Backed, Approvers

\* A vote approves a change only when the votes it counts suffice.
LEMMA VoteBacks ==
    ASSUME ChangeIInv, NEW c \in Change, NEW row \in RuleChangeRow, NEW m \in Member,
           NEW ballot \in {"approve", "reject"}, Backed(c, row),
           approvals'[c] = IF ballot = "approve" THEN approvals[c] \cup {m} ELSE approvals[c],
           court' = court
    PROVE  Voted(row, m, ballot) \in RuleChangeRow /\ Backed(c, Voted(row, m, ballot))'
<1> DEFINE voted == [row EXCEPT !.votes[m] = ballot]
           new == [voted EXCEPT !.status = "approved"]
<1>1. voted \in RuleChangeRow /\ voted.status = row.status
      /\ voted.votes = [row.votes EXCEPT ![m] = ballot]
  BY DEF RuleChangeRow
<1>2. \A n \in Member: voted.votes[n] = IF n = m THEN ballot ELSE row.votes[n]
  BY <1>1 DEF RuleChangeRow
<1> HIDE DEF voted
<1>3. new \in RuleChangeRow /\ new.votes = voted.votes
  BY <1>1 DEF RuleChangeRow, Approved
<1>4. Approvers(voted) \subseteq approvals'[c] /\ Approvers(new) = Approvers(voted)
  BY <1>2, <1>3 DEF Backed, Approvers
<1>5. approvals'[c] \subseteq Member /\ approvals[c] \subseteq approvals'[c]
  BY DEF ChangeIInv, ChangeTypeOK
<1>6. Backed(c, row)'
  BY <1>5, BackedStays
<1>7. CASE Cardinality(Approvers(voted)) >= RequiredVotes
  <2>1. Cardinality(Approvers(voted)) \in Nat /\ Cardinality(approvals'[c]) \in Nat
        /\ Cardinality(Approvers(voted)) <= Cardinality(approvals'[c])
    BY <1>4, <1>5, ChangeConstants, FS_Subset, FS_CardinalityType
  <2>2. Behind(c)'
    BY <1>7, <2>1, ChangeConstants DEF Behind
  <2>3. Voted(row, m, ballot) = new
    BY <1>7 DEF Voted, voted
  <2>4. Backed(c, new)'
    BY <1>4, <2>2 DEF Backed, Approvers
  <2>5. QED
    BY <1>3, <2>3, <2>4
<1>8. CASE ~(Cardinality(Approvers(voted)) >= RequiredVotes)
  <2>1. Voted(row, m, ballot) = voted
    BY <1>8 DEF Voted, voted
  <2>2. Backed(c, voted)'
    BY <1>1, <1>4, <1>6 DEF Backed, Approvers
  <2>3. QED
    BY <1>1, <2>1, <2>2
<1>9. QED
  BY <1>7, <1>8

-----------------------------------------------------------------------------
(* The initial state and the steps, by what they change *)

\* Without proposals nothing is approved; one budget is active.
LEMMA ChangeInitially == ChangeInit => ChangeIInv
<1> SUFFICES ASSUME ChangeInit PROVE ChangeIInv
  OBVIOUS
<1>1. ChangeTypeOK
  BY DEF ChangeInit, ChangeTypeOK
<1>2. \A q \in Request: RequestOK(q) /\ ~Between(q)
  BY DEF ChangeInit, RequestOK, Between, RevisesAt, Free
<1>3. NotTorn
  BY <1>2 DEF ChangeInit, NotTorn
<1>4. QED
  BY <1>1, <1>2, <1>3 DEF ChangeInit, ChangeIInv, Proposed

\* One row is saved, backed; the requests' rows stay backed.
LEMMA RowMoves ==
    ASSUME ChangeIInv, NEW c \in Change, NEW row \in RuleChangeRow, Backed(c, row)',
           change' = [change EXCEPT ![c] = row],
           approvals' \in [Change -> SUBSET Member],
           \A d \in Change: approvals[d] \subseteq approvals'[d],
           court \subseteq court', court' \subseteq Change
    PROVE  /\ change' \in [Change -> {Absent} \cup RuleChangeRow]
           /\ \A d \in Change: Proposed(d)' => Backed(d, change[d])'
           /\ \A q \in Request: RequestOK(q) /\ revising'[q] = revising[q] => RequestOK(q)'
<1>1. change' \in [Change -> {Absent} \cup RuleChangeRow]
      /\ \A d \in Change: change'[d] = IF d = c THEN row ELSE change[d]
  BY DEF ChangeIInv, ChangeTypeOK
<1>2. ASSUME NEW d \in Change, NEW r, Backed(d, r) PROVE Backed(d, r)'
  BY <1>2, BackedStays
<1>3. ASSUME NEW d \in Change, Proposed(d)' PROVE Backed(d, change[d])'
  <2>1. CASE d = c
    BY <1>1, <2>1 DEF Backed, Behind, Approvers
  <2>2. CASE d # c
    <3>1. change'[d] = change[d] /\ Backed(d, change[d])
      BY <1>1, <1>3, <2>2 DEF ChangeIInv, Proposed
    <3>2. QED
      BY <1>2, <3>1 DEF Backed, Behind, Approvers
  <2>3. QED
    BY <2>1, <2>2
<1>4. ASSUME NEW q \in Request, RequestOK(q), revising'[q] = revising[q] PROVE RequestOK(q)'
  <2>1. CASE revising[q] = Free
    BY <1>4, <2>1 DEF RequestOK
  <2>2. CASE revising[q] # Free
    <3> DEFINE r == revising[q]
    <3>1. r.change \in Change /\ Backed(r.change, r.row)
      BY <1>4, <2>2 DEF RequestOK, Voting, Applying
    <3>2. Backed(r.change, r.row)'
      BY <1>2, <1>4, <3>1 DEF Backed, Behind, Approvers
    <3>3. QED
      BY <1>4, <3>2 DEF RequestOK
  <2>3. QED
    BY <2>1, <2>2
<1>5. QED
  BY <1>1, <1>3, <1>4

\* A request goes from one of its steps to another, outside the exchange of the budget.
LEMMA RevisionMoves ==
    ASSUME ChangeIInv, NEW q \in Request, NEW step, Revises(q, step), step.pc # "deactivated",
           ~Between(q), UNCHANGED <<active, torn>>
    PROVE  /\ revising' = [p \in Request |-> IF p = q THEN step ELSE revising[p]]
           /\ NotTorn'
<1>1. revising' = [p \in Request |-> IF p = q THEN step ELSE revising[p]]
  BY DEF Revises, ChangeIInv
<1>2. \A p \in Request: Between(p)' <=> Between(p)
  BY <1>1 DEF Between, RevisesAt
<1>3. NotTorn'
  BY <1>2 DEF ChangeIInv, NotTorn
<1>4. QED
  BY <1>1, <1>3

\* The rows stay what they are, and so does what the other requests hold.
LEMMA NoRowMoves ==
    ASSUME ChangeIInv, UNCHANGED <<change, approvals, court>>
    PROVE  /\ \A d \in Change: Proposed(d)' => Backed(d, change[d])'
           /\ \A c, row: Backed(c, row)' <=> Backed(c, row)
           /\ \A q \in Request: revising'[q] = revising[q] => RequestOK(q)'
<1>1. \A c, row: Backed(c, row)' <=> Backed(c, row)
  BY DEF Backed, Behind, Approvers
<1>2. \A d \in Change: Proposed(d)' => Backed(d, change[d])'
  BY <1>1 DEF ChangeIInv, Proposed, Backed, Behind, Approvers
<1>3. ASSUME NEW q \in Request, revising'[q] = revising[q] PROVE RequestOK(q)'
  BY <1>3 DEF ChangeIInv, RequestOK, Backed, Behind, Approvers
<1>4. QED
  BY <1>1, <1>2, <1>3

-----------------------------------------------------------------------------
(* The actions *)

\* A proposal begins without votes.
LEMMA ProposeKeeps == ASSUME ChangeIInv, NEW c \in Change, ProposeBudget(c) PROVE ChangeIInv'
<1> DEFINE row == [status |-> "voting", votes |-> Unvoted]
<1>1. row \in RuleChangeRow /\ Approvers(row) = {} /\ row.status = "voting"
  BY DEF RuleChangeRow, Approvers, Unvoted
<1>2. change' = [change EXCEPT ![c] = row] /\ UNCHANGED <<active, revising, approvals, court, torn>>
  BY DEF ProposeBudget
<1>3. Backed(c, row)'
  BY <1>1 DEF Backed, Approvers
<1> HIDE DEF row
<1>4. /\ approvals' \in [Change -> SUBSET Member] /\ court' \subseteq Change
      /\ \A d \in Change: approvals[d] \subseteq approvals'[d]
      /\ court \subseteq court'
  BY <1>2 DEF ChangeIInv, ChangeTypeOK
<1>5. /\ change' \in [Change -> {Absent} \cup RuleChangeRow]
      /\ \A d \in Change: Proposed(d)' => Backed(d, change[d])'
      /\ \A q \in Request: RequestOK(q) /\ revising'[q] = revising[q] => RequestOK(q)'
  BY <1>1, <1>2, <1>3, <1>4, RowMoves
<1>6. NotTorn' /\ revising' = [q \in Request |-> revising'[q]]
  BY <1>2 DEF ChangeIInv, NotTorn, Between, RevisesAt
<1>7. QED
  BY <1>2, <1>4, <1>5, <1>6 DEF ChangeIInv, ChangeTypeOK

\* A vote holds the row it read.
LEMMA VoteReadsKeeps ==
    ASSUME ChangeIInv, NEW q \in Request, NEW c \in Change, NEW m \in Member,
           NEW ballot \in {"approve", "reject"}, VoteReads(q, c, m, ballot)
    PROVE  ChangeIInv'
<1> DEFINE step == [pc |-> "vote", change |-> c, row |-> change[c], member |-> m, ballot |-> ballot]
<1>1. change[c] \in RuleChangeRow /\ Backed(c, change[c])
  BY DEF VoteReads, ChangeIInv, ChangeTypeOK, Proposed
<1>2. step \in Voting /\ step.change = c /\ step.row = change[c] /\ step.pc = "vote"
  BY <1>1 DEF Voting
<1>3. Revises(q, step) /\ ~Between(q) /\ UNCHANGED <<change, active, approvals, court, torn>>
  BY DEF VoteReads, Between, RevisesAt
<1> HIDE DEF step
<1>4. /\ revising' = [p \in Request |-> IF p = q THEN step ELSE revising[p]]
      /\ NotTorn'
  BY <1>2, <1>3, RevisionMoves
<1>5. ASSUME NEW p \in Request PROVE RequestOK(p)'
  <2>1. CASE p # q
    BY <1>3, <1>4, <2>1, NoRowMoves
  <2>2. CASE p = q
    BY <1>1, <1>2, <1>3, <1>4, <2>2 DEF RequestOK, Backed, Behind, Approvers
  <2>3. QED
    BY <2>1, <2>2
<1>6. QED
  BY <1>3, <1>4, <1>5, NoRowMoves DEF ChangeIInv, ChangeTypeOK

\* A vote saves the row it read, with the vote and what follows from it.
LEMMA VoteSavesKeeps == ASSUME ChangeIInv, NEW q \in Request, VoteSaves(q) PROVE ChangeIInv'
<1> DEFINE r == revising[q]
           row == Voted(r.row, r.member, r.ballot)
<1>1. /\ r \in Voting /\ Backed(r.change, r.row) /\ r.change \in Change
      /\ r.row \in RuleChangeRow /\ r.member \in Member /\ r.ballot \in {"approve", "reject"}
  BY DEF VoteSaves, RevisesAt, ChangeIInv, RequestOK, Voting, Applying, Free
<1>2. /\ change' = [change EXCEPT ![r.change] = row]
      /\ approvals' = IF r.ballot = "approve"
                      THEN [approvals EXCEPT ![r.change] = @ \cup {r.member}] ELSE approvals
      /\ Revises(q, Free) /\ UNCHANGED <<active, court, torn>> /\ ~Between(q)
  BY DEF VoteSaves, Between, RevisesAt
<1>3. PICK c \in Change: c = r.change
  BY <1>1
<1>4. PICK m \in Member: m = r.member
  BY <1>1
<1>5. PICK ballot \in {"approve", "reject"}: ballot = r.ballot
  BY <1>1
<1>6. PICK old \in RuleChangeRow: old = r.row
  BY <1>1
<1>7. approvals' \in [Change -> SUBSET Member]
      /\ \A d \in Change: approvals'[d] = IF d = c /\ ballot = "approve"
                                          THEN approvals[c] \cup {m} ELSE approvals[d]
  BY <1>2, <1>3, <1>4, <1>5 DEF ChangeIInv, ChangeTypeOK
<1>8. Backed(c, old)
  BY <1>1, <1>3, <1>6
<1>9. Voted(old, m, ballot) \in RuleChangeRow /\ Backed(c, Voted(old, m, ballot))'
  <2>1. approvals'[c] = (IF ballot = "approve" THEN approvals[c] \cup {m} ELSE approvals[c])
    BY <1>7
  <2>2. QED
    BY <1>2, <1>8, <2>1, VoteBacks
<1>10. PICK new \in RuleChangeRow: new = Voted(old, m, ballot)
  BY <1>9
<1>11. Backed(c, new)'
  BY <1>9, <1>10 DEF Backed, Approvers
<1>12. change' = [change EXCEPT ![c] = new]
  BY <1>2, <1>3, <1>4, <1>5, <1>6, <1>10
<1>13. court \subseteq court' /\ court' \subseteq Change
       /\ \A d \in Change: approvals[d] \subseteq approvals'[d]
  BY <1>2, <1>7 DEF ChangeIInv, ChangeTypeOK
<1>14. /\ change' \in [Change -> {Absent} \cup RuleChangeRow]
       /\ \A d \in Change: Proposed(d)' => Backed(d, change[d])'
       /\ \A p \in Request: RequestOK(p) /\ revising'[p] = revising[p] => RequestOK(p)'
  BY <1>7, <1>11, <1>12, <1>13, RowMoves
<1>15. /\ revising' = [p \in Request |-> IF p = q THEN Free ELSE revising[p]]
       /\ NotTorn'
  BY <1>2, RevisionMoves DEF Free
<1>16. \A p \in Request: RequestOK(p)'
  BY <1>14, <1>15 DEF ChangeIInv, RequestOK
<1>17. QED
  BY <1>2, <1>7, <1>13, <1>14, <1>15, <1>16 DEF ChangeIInv, ChangeTypeOK

\* A court's approval backs the change by itself.
LEMMA CourtKeeps == ASSUME ChangeIInv, NEW c \in Change, UploadCourtApproval(c) PROVE ChangeIInv'
<1> DEFINE row == [change[c] EXCEPT !.status = "court_approved"]
<1>1. change[c] \in RuleChangeRow /\ Backed(c, change[c])
  BY DEF UploadCourtApproval, ChangeIInv, ChangeTypeOK, Proposed
<1>2. row \in RuleChangeRow /\ row.votes = change[c].votes
  BY <1>1 DEF RuleChangeRow, Approved
<1>3. /\ change' = [change EXCEPT ![c] = row] /\ court' = court \cup {c}
      /\ UNCHANGED <<active, revising, approvals, torn>>
  BY DEF UploadCourtApproval
<1>4. Approvers(row) \subseteq approvals'[c] /\ c \in court'
  BY <1>1, <1>2, <1>3 DEF Backed, Approvers
<1>5. PICK new \in RuleChangeRow: new = row
  BY <1>2
<1>6. Backed(c, new)' /\ change' = [change EXCEPT ![c] = new]
  BY <1>3, <1>4, <1>5 DEF Backed, Behind, Approvers
<1>7. /\ approvals' \in [Change -> SUBSET Member] /\ court' \subseteq Change
      /\ \A d \in Change: approvals[d] \subseteq approvals'[d]
      /\ court \subseteq court'
  BY <1>3 DEF ChangeIInv, ChangeTypeOK
<1>8. /\ change' \in [Change -> {Absent} \cup RuleChangeRow]
      /\ \A d \in Change: Proposed(d)' => Backed(d, change[d])'
      /\ \A q \in Request: RequestOK(q) /\ revising'[q] = revising[q] => RequestOK(q)'
  BY <1>6, <1>7, RowMoves
<1>9. NotTorn' /\ revising' = [q \in Request |-> revising'[q]]
  BY <1>3 DEF ChangeIInv, NotTorn, Between, RevisesAt
<1>10. QED
  BY <1>3, <1>7, <1>8, <1>9 DEF ChangeIInv, ChangeTypeOK

\* An application holds the approved row it read.
LEMMA ApplyReadsKeeps == ASSUME ChangeIInv, NEW q \in Request, NEW c \in Change, ApplyReads(q, c) PROVE ChangeIInv'
<1> DEFINE step == [pc |-> IF NewBudget[c] = NoBudget THEN "flipped" ELSE "apply",
                    change |-> c, row |-> change[c]]
<1>1. change[c] \in RuleChangeRow /\ Backed(c, change[c]) /\ change[c].status # "voting"
  BY DEF ApplyReads, ChangeIInv, ChangeTypeOK, Proposed, Approved
<1>2. /\ step \in Applying /\ step.change = c /\ step.row = change[c] /\ step.pc # "deactivated"
      /\ step.pc # "flipped" => NewBudget[c] # NoBudget
  BY <1>1 DEF Applying
<1>3. Revises(q, step) /\ ~Between(q) /\ UNCHANGED <<change, active, approvals, court, torn>>
  BY DEF ApplyReads, Between, RevisesAt
<1> HIDE DEF step
<1>4. /\ revising' = [p \in Request |-> IF p = q THEN step ELSE revising[p]]
      /\ NotTorn'
  BY <1>2, <1>3, RevisionMoves
<1>5. ASSUME NEW p \in Request PROVE RequestOK(p)'
  <2>1. CASE p # q
    BY <1>3, <1>4, <2>1, NoRowMoves
  <2>2. CASE p = q
    BY <1>1, <1>2, <1>3, <1>4, <2>2 DEF RequestOK, Backed, Behind, Approvers
  <2>3. QED
    BY <2>1, <2>2
<1>6. QED
  BY <1>3, <1>4, <1>5, NoRowMoves DEF ChangeIInv, ChangeTypeOK

\* A request that applies a change moves on, with what it holds.
LEMMA ApplierMoves ==
    ASSUME ChangeIInv, NEW q \in Request, NEW pc \in {"deactivated", "flipped"},
           revising[q] \in Applying, revising[q].pc \in {"apply", "deactivated"},
           Revises(q, [revising[q] EXCEPT !.pc = pc]), UNCHANGED <<change, approvals, court>>
    PROVE  /\ \A p \in Request: Between(p)' <=> IF p = q THEN pc = "deactivated" ELSE Between(p)
           /\ \A p \in Request: RequestOK(p)'
           /\ revising' = [p \in Request |-> revising'[p]]
<1> DEFINE step == [revising[q] EXCEPT !.pc = pc]
<1>1. /\ step \in Applying /\ step.pc = pc
      /\ step.change = revising[q].change /\ step.row = revising[q].row
  BY DEF Applying
<1>2. /\ Backed(step.change, step.row) /\ step.row.status # "voting"
      /\ NewBudget[step.change] # NoBudget
  BY <1>1 DEF ChangeIInv, RequestOK, Voting, Free
<1>3. revising' = [p \in Request |-> IF p = q THEN step ELSE revising[p]]
  BY DEF Revises, ChangeIInv
<1> HIDE DEF step
<1>4. ASSUME NEW p \in Request PROVE RequestOK(p)'
  <2>1. CASE p # q
    BY <1>3, <2>1, NoRowMoves
  <2>2. CASE p = q
    BY <1>1, <1>2, <1>3, <2>2 DEF RequestOK, Backed, Behind, Approvers
  <2>3. QED
    BY <2>1, <2>2
<1>5. QED
  BY <1>1, <1>3, <1>4 DEF Between, RevisesAt

\* The active budgets are switched off, unless another request is between already.
LEMMA ApplyDeactivatesKeeps == ASSUME ChangeIInv, NEW q \in Request, ApplyDeactivates(q) PROVE ChangeIInv'
<1>1. /\ revising[q] \in Applying /\ revising[q].pc = "apply" /\ active' = {}
      /\ torn' = (torn \/ \E p \in Request: Between(p))
      /\ Revises(q, [revising[q] EXCEPT !.pc = "deactivated"]) /\ UNCHANGED <<change, approvals, court>>
  BY DEF ApplyDeactivates, RevisesAt, ChangeIInv, RequestOK, Voting, Free
<1>2. /\ \A p \in Request: Between(p)' <=> IF p = q THEN "deactivated" = "deactivated" ELSE Between(p)
      /\ \A p \in Request: RequestOK(p)'
      /\ revising' = [p \in Request |-> revising'[p]]
  BY <1>1, ApplierMoves
<1>3. NotTorn'
  BY <1>1, <1>2 DEF NotTorn
<1>4. ChangeTypeOK'
  BY <1>1 DEF ChangeIInv, ChangeTypeOK
<1>5. QED
  BY <1>1, <1>2, <1>3, <1>4, NoRowMoves DEF ChangeIInv

\* The new budget takes the place of the old one.
LEMMA ApplyStoresKeeps == ASSUME ChangeIInv, NEW q \in Request, ApplyStores(q) PROVE ChangeIInv'
<1>1. /\ revising[q] \in Applying /\ revising[q].pc = "deactivated" /\ Between(q)
      /\ NewBudget[revising[q].change] \in Budget
      /\ active' = active \cup {NewBudget[revising[q].change]}
      /\ Revises(q, [revising[q] EXCEPT !.pc = "flipped"]) /\ UNCHANGED <<change, approvals, court, torn>>
  BY ChangeConstants DEF ApplyStores, Between, RevisesAt, ChangeIInv, RequestOK, Voting, Applying, Free
<1>2. /\ \A p \in Request: Between(p)' <=> IF p = q THEN "flipped" = "deactivated" ELSE Between(p)
      /\ \A p \in Request: RequestOK(p)'
      /\ revising' = [p \in Request |-> revising'[p]]
  BY <1>1, ApplierMoves
<1>3. NotTorn'
  <2>1. CASE torn
    BY <1>1, <2>1 DEF NotTorn
  <2>2. CASE ~torn
    <3>1. active' = {NewBudget[revising[q].change]}
      BY <1>1, <2>2 DEF ChangeIInv, NotTorn
    <3>2. \A p \in Request: ~Between(p)'
      BY <1>1, <1>2, <2>2 DEF ChangeIInv, NotTorn
    <3>3. QED
      BY <1>1, <3>1, <3>2 DEF NotTorn
  <2>3. QED
    BY <2>1, <2>2
<1>4. ChangeTypeOK'
  BY <1>1 DEF ChangeIInv, ChangeTypeOK
<1>5. QED
  BY <1>1, <1>2, <1>3, <1>4, NoRowMoves DEF ChangeIInv

\* The change is implemented: the row that was read comes back, its votes with it.
LEMMA ApplySavesKeeps == ASSUME ChangeIInv, NEW q \in Request, ApplySaves(q) PROVE ChangeIInv'
<1> DEFINE r == revising[q]
           row == [r.row EXCEPT !.status = "implemented"]
<1>1. /\ r \in Applying /\ Backed(r.change, r.row) /\ r.row.status # "voting"
      /\ r.change \in Change /\ r.row \in RuleChangeRow
  BY DEF ApplySaves, RevisesAt, ChangeIInv, RequestOK, Voting, Applying, Free
<1>2. /\ change' = [change EXCEPT ![r.change] = row]
      /\ Revises(q, Free) /\ UNCHANGED <<active, approvals, court, torn>> /\ ~Between(q)
  BY DEF ApplySaves, Between, RevisesAt
<1>3. PICK c \in Change: c = r.change
  BY <1>1
<1>4. row \in RuleChangeRow /\ row.votes = r.row.votes
  BY <1>1 DEF RuleChangeRow
<1>5. PICK new \in RuleChangeRow: new = row
  BY <1>4
<1>6. Backed(c, new)'
  BY <1>1, <1>2, <1>3, <1>4, <1>5 DEF Backed, Behind, Approvers
<1>7. /\ approvals' \in [Change -> SUBSET Member] /\ court' \subseteq Change
      /\ \A d \in Change: approvals[d] \subseteq approvals'[d]
      /\ court \subseteq court' /\ change' = [change EXCEPT ![c] = new]
  BY <1>2, <1>3, <1>5 DEF ChangeIInv, ChangeTypeOK
<1>8. /\ change' \in [Change -> {Absent} \cup RuleChangeRow]
      /\ \A d \in Change: Proposed(d)' => Backed(d, change[d])'
      /\ \A p \in Request: RequestOK(p) /\ revising'[p] = revising[p] => RequestOK(p)'
  BY <1>6, <1>7, RowMoves
<1>9. /\ revising' = [p \in Request |-> IF p = q THEN Free ELSE revising[p]]
      /\ NotTorn'
  BY <1>2, RevisionMoves DEF Free
<1>10. \A p \in Request: RequestOK(p)'
  BY <1>8, <1>9 DEF ChangeIInv, RequestOK
<1>11. QED
  BY <1>2, <1>7, <1>8, <1>9, <1>10 DEF ChangeIInv, ChangeTypeOK

\* A request dies: a torn exchange is told.
LEMMA DeathKeeps == ASSUME ChangeIInv, NEW q \in Request, RevisionDies(q) PROVE ChangeIInv'
<1>1. /\ revising' = [p \in Request |-> IF p = q THEN Free ELSE revising[p]]
      /\ torn' = (torn \/ Between(q)) /\ UNCHANGED <<change, active, approvals, court>>
  BY DEF RevisionDies, Revises, ChangeIInv
<1>2. ASSUME NEW p \in Request PROVE RequestOK(p)'
  <2>1. CASE p # q
    BY <1>1, <2>1, NoRowMoves
  <2>2. CASE p = q
    BY <1>1, <2>2 DEF RequestOK
  <2>3. QED
    BY <2>1, <2>2
<1>3. NotTorn'
  <2>1. CASE torn \/ Between(q)
    BY <1>1, <2>1 DEF NotTorn, ChangeIInv, ChangeTypeOK
  <2>2. CASE ~torn /\ ~Between(q)
    <3>1. \A p \in Request: Between(p)' <=> Between(p)
      BY <1>1, <2>2 DEF Between, RevisesAt, Free
    <3>2. QED
      BY <1>1, <2>2, <3>1 DEF ChangeIInv, NotTorn
  <2>3. QED
    BY <2>1, <2>2
<1>4. ChangeTypeOK'
  BY <1>1 DEF ChangeIInv, ChangeTypeOK
<1>5. QED
  BY <1>1, <1>2, <1>3, <1>4, NoRowMoves DEF ChangeIInv

\* Every step keeps the inductive invariant.
LEMMA ChangeNextKeeps == ChangeIInv /\ [ChangeNext]_changeVars => ChangeIInv'
<1> SUFFICES ASSUME ChangeIInv, [ChangeNext]_changeVars PROVE ChangeIInv'
  OBVIOUS
<1>1. CASE \E c \in Change: ProposeBudget(c) \/ UploadCourtApproval(c)
  BY <1>1, ProposeKeeps, CourtKeeps
<1>2. ASSUME NEW q \in Request,
             \/ \E c \in Change: ApplyReads(q, c)
             \/ \E c \in Change, m \in Member, ballot \in {"approve", "reject"}: VoteReads(q, c, m, ballot)
             \/ VoteSaves(q) \/ ApplyDeactivates(q) \/ ApplyStores(q) \/ ApplySaves(q) \/ RevisionDies(q)
      PROVE  ChangeIInv'
  BY <1>2, ApplyReadsKeeps, VoteReadsKeeps, VoteSavesKeeps, ApplyDeactivatesKeeps, ApplyStoresKeeps,
     ApplySavesKeeps, DeathKeeps
<1>3. CASE UNCHANGED changeVars
  <2>1. UNCHANGED <<change, active, revising, approvals, court, torn>>
    BY <1>3 DEF changeVars
  <2>2. \A q \in Request: RequestOK(q)'
    BY <2>1, NoRowMoves
  <2>3. NotTorn' /\ ChangeTypeOK'
    BY <2>1 DEF ChangeIInv, NotTorn, Between, RevisesAt, ChangeTypeOK
  <2>4. QED
    BY <2>1, <2>2, <2>3, NoRowMoves DEF ChangeIInv
<1>4. QED
  BY <1>1, <1>2, <1>3 DEF ChangeNext

-----------------------------------------------------------------------------
(* The invariants *)

\* ChangeIInv is an invariant of every behaviour of the revisions.
THEOREM ChangeInductive == ChangeSpec => []ChangeIInv
  BY ChangeInitially, ChangeNextKeeps, PTL DEF ChangeSpec

\* Rule changes have the statuses and votes of the model, and the active budgets are budgets
\* (payment_bridge/paa_service.py).
THEOREM ChangeTypeCorrect == ChangeSpec => []ChangeTypeOK
<1>1. ChangeIInv => ChangeTypeOK
  BY DEF ChangeIInv
<1>2. QED
  BY ChangeInductive, <1>1, PTL

\* Whatever votes and applications overwrite each other: a change that is approved or
\* implemented had a court's approval or enough members (paa_service.vote_rule_change).
THEOREM ImplementedApproved == ChangeSpec => []ImplementedWasApproved
<1>1. ChangeIInv => ImplementedWasApproved
  BY DEF ChangeIInv, Backed, Behind, ImplementedWasApproved
<1>2. QED
  BY ChangeInductive, <1>1, PTL

\* One budget is active, outside an exchange and unless one was torn
\* (paa_service.apply_rule_change).
THEOREM OneBudget == ChangeSpec => []OneActiveBudget
<1>1. ChangeIInv => OneActiveBudget
  BY FS_Singleton DEF ChangeIInv, NotTorn, OneActiveBudget
<1>2. QED
  BY ChangeInductive, <1>1, PTL

-----------------------------------------------------------------------------
(* Recall *)

(* The staff, or enough nodes. *)
Authorised == "staff" \in approvedBy \/ Cardinality(Approving) >= Votes

Counted(n) == n <= Cardinality(Approving)

Holding == [pc: {"approve", "execute"}, row: RecallRow]
Executing == [pc: {"units"}, row: RecallRow, left: SUBSET Target]
Burning == [pc: {"burn"}, row: RecallRow, left: SUBSET Target, unit: Unit]
VotingStep == [pc: {"vote", "recorded", "decided"}, row: DacRow, node: Node, approve: BOOLEAN]

(* What a request holds: a copy of the order, with the units it has still to *)
(* deal with, or a copy of the proposal whose count is covered by votes.     *)
Copy(row) == recall # Absent /\ row.targets = recall.targets
Remaining(step) == Copy(step.row) /\ Authorised /\ (step.row.targets \cap Unit) \ step.left \subseteq burned
StepOK(step) ==
    \/ step = Free \/ step = [pc |-> "propose"]
    \/ step \in Holding /\ Copy(step.row) /\ (step.pc = "execute" => Authorised)
    \/ step \in Executing /\ Remaining(step)
    \/ step \in Burning /\ Remaining(step) /\ step.unit \in affected
    \/ /\ step \in VotingStep /\ recall # Absent
       /\ Counted(IF step.pc # "vote" /\ step.approve THEN step.row.received + 1 ELSE step.row.received)

DacOK == dac # Absent => recall # Absent /\ Counted(dac.received)

RecallOK ==
    recall # Absent =>
        /\ recall.status \in {"APPROVED", "EXECUTING", "COMPLETED"} => Authorised
        /\ recall.status = "COMPLETED" => marked \/ recall.targets \cap Unit \subseteq burned

AffectedOK == (affected # {} => Authorised) /\ burned \subseteq affected

RecallIInv ==
    /\ RecallTypeOK
    /\ serving = [q \in Request |-> serving[q]]
    /\ \A q \in Request: StepOK(serving[q])
    /\ DacOK /\ RecallOK /\ AffectedOK

(* What no step takes back. *)
Grows ==
    /\ \A n \in Node: dacVote[n] = "approve" => dacVote'[n] = "approve"
    /\ approvedBy \subseteq approvedBy' /\ burned \subseteq burned' /\ affected \subseteq affected'
    /\ recall # Absent => recall' # Absent /\ recall'.targets = recall.targets

-----------------------------------------------------------------------------
(* What grows keeps what requests hold *)

\* The votes are finite in number and only added.
LEMMA VotesGrow ==
    ASSUME Grows
    PROVE  /\ Cardinality(Approving) \in Nat /\ Cardinality(Approving') \in Nat
           /\ Cardinality(Approving) <= Cardinality(Approving')
           /\ IsFiniteSet(Approving) /\ IsFiniteSet(Approving')
<1>1. Approving \subseteq Node /\ Approving' \subseteq Node /\ Approving \subseteq Approving'
  BY DEF Approving, Grows
<1>2. QED
  BY <1>1, RecallConstants, FS_Subset, FS_CardinalityType

\* Approval and counts stay covered.
LEMMA CoverStays ==
    ASSUME Grows
    PROVE  (Authorised => Authorised') /\ \A n \in Nat: Counted(n) => Counted(n)'
<1>1. Authorised => Authorised'
  BY VotesGrow, RecallConstants DEF Authorised, Grows
<1>2. ASSUME NEW n \in Nat, Counted(n) PROVE Counted(n)'
  BY <1>2, VotesGrow DEF Counted
<1>3. QED
  BY <1>1, <1>2

\* What a request holds stays valid beside the steps of the others.
LEMMA StepStays == ASSUME Grows, NEW step, StepOK(step) PROVE StepOK(step)'
<1>1. CASE step = Free \/ step = [pc |-> "propose"]
  BY <1>1 DEF StepOK
<1>2. CASE step \in Holding /\ Copy(step.row) /\ (step.pc = "execute" => Authorised)
  BY <1>2, CoverStays DEF StepOK, Copy, Grows
<1>3. CASE step \in Executing /\ Remaining(step)
  BY <1>3, CoverStays DEF StepOK, Remaining, Copy, Grows
<1>4. CASE step \in Burning /\ Remaining(step) /\ step.unit \in affected
  BY <1>4, CoverStays DEF StepOK, Remaining, Copy, Grows
<1>5. CASE /\ step \in VotingStep /\ recall # Absent
           /\ Counted(IF step.pc # "vote" /\ step.approve THEN step.row.received + 1
                                                          ELSE step.row.received)
  <2>1. (IF step.pc # "vote" /\ step.approve THEN step.row.received + 1 ELSE step.row.received) \in Nat
    BY <1>5 DEF VotingStep, DacRow
  <2>2. QED
    BY <1>5, <2>1, CoverStays DEF StepOK, Grows
<1>6. QED
  BY <1>1, <1>2, <1>3, <1>4, <1>5 DEF StepOK

\* One request moves on to a step that is in order; whatever grew, the others stay so.
LEMMA RequestMoves ==
    ASSUME RecallIInv, Grows, NEW q \in Request, NEW step, Goes(q, step), StepOK(step)'
    PROVE  /\ serving' = [p \in Request |-> serving'[p]]
           /\ \A p \in Request: StepOK(serving[p])'
<1>1. serving' = [p \in Request |-> IF p = q THEN step ELSE serving[p]]
  BY DEF Goes, RecallIInv
<1>2. ASSUME NEW p \in Request PROVE StepOK(serving[p])'
  <2>1. CASE p = q
    <3>1. serving'[p] = step
      BY <1>1, <2>1
    <3>2. QED
      BY <3>1 DEF StepOK, Remaining, Copy, Counted
  <2>2. CASE p # q
    <3>1. PICK s: s = serving[p]
      OBVIOUS
    <3>2. StepOK(s)'
      BY <3>1, StepStays DEF RecallIInv, StepOK, Remaining, Copy, Counted
    <3>3. serving'[p] = s
      BY <1>1, <2>2, <3>1
    <3>4. QED
      BY <3>2, <3>3 DEF StepOK, Remaining, Copy, Counted
  <2>3. QED
    BY <2>1, <2>2
<1>3. QED
  BY <1>1, <1>2

\* No request moves.
LEMMA NoRequestMoves ==
    ASSUME RecallIInv, Grows, UNCHANGED serving
    PROVE  /\ serving' = [p \in Request |-> serving'[p]]
           /\ \A p \in Request: StepOK(serving[p])'
<1>1. ASSUME NEW p \in Request PROVE StepOK(serving[p])'
  <2>1. PICK s: s = serving[p]
    OBVIOUS
  <2>2. StepOK(s)'
    BY <2>1, StepStays DEF RecallIInv, StepOK, Remaining, Copy, Counted
  <2>3. QED
    BY <2>1, <2>2 DEF StepOK, Remaining, Copy, Counted
<1>2. QED
  BY <1>1 DEF RecallIInv

\* A step that leaves the proposal alone leaves its count covered; one that leaves the
\* order alone leaves it in order.
LEMMA RestStays ==
    ASSUME RecallIInv, Grows
    PROVE  /\ UNCHANGED dac => DacOK'
           /\ UNCHANGED recall /\ (marked => marked') => RecallOK'
           /\ UNCHANGED <<affected, burned>> => AffectedOK'
<1>1. ASSUME UNCHANGED dac, dac' # Absent PROVE DacOK'
  <2>1. PICK n \in Nat: n = dac.received
    BY <1>1 DEF RecallIInv, RecallTypeOK, DacRow
  <2>2. Counted(n)' /\ recall' # Absent
    BY <1>1, <2>1, CoverStays DEF RecallIInv, DacOK, Counted, Grows
  <2>3. QED
    BY <1>1, <2>1, <2>2 DEF DacOK, Counted
<1>2. ASSUME UNCHANGED recall, marked => marked' PROVE RecallOK'
  BY <1>2, CoverStays DEF RecallIInv, RecallOK, Grows
<1>3. ASSUME UNCHANGED <<affected, burned>> PROVE AffectedOK'
  BY <1>3, CoverStays DEF RecallIInv, AffectedOK
<1>4. QED
  BY <1>1, <1>2, <1>3 DEF DacOK

-----------------------------------------------------------------------------
(* The order *)

\* At the start there is nothing.
LEMMA RecallInitially == RecallInit => RecallIInv
<1> SUFFICES ASSUME RecallInit PROVE RecallIInv
  OBVIOUS
<1>1. RecallTypeOK
  BY DEF RecallInit, RecallTypeOK, DacVoteValue, NodeStatus
<1>2. \A q \in Request: StepOK(serving[q])
  BY DEF RecallInit, StepOK
<1>3. QED
  BY <1>1, <1>2 DEF RecallInit, RecallIInv, DacOK, RecallOK, AffectedOK

\* An order or a proposal is added: by initiate and its request, by a client, in the admin form.
LEMMA CreationKeeps ==
    ASSUME RecallIInv,
           \/ \E q \in Request: InitiateRecall(q) \/ ProposesRecall(q)
           \/ \E targets \in SUBSET Target: AdminAddsRecall(targets)
           \/ \E status \in {"PENDING", "VOTING"}: AddsProposal(status)
    PROVE  RecallIInv'
<1>1. PICK targets \in SUBSET Target, status \in {"PENDING", "VOTING"}:
         /\ \/ recall = Absent /\ recall' = [status |-> "INITIATED", targets |-> targets] /\ dac' = dac
            \/ /\ recall # Absent /\ dac = Absent
               /\ dac' = [status |-> status, received |-> 0] /\ recall' = recall
         /\ UNCHANGED <<dacVote, node, affected, burned, approvedBy, marked>>
         /\ \/ UNCHANGED serving
            \/ \E q \in Request: Goes(q, [pc |-> "propose"]) \/ Goes(q, Free)
  BY DEF InitiateRecall, ProposesRecall, AdminAddsRecall, AddsProposal, CreatesRecall, CreatesProposal
<1>2. Grows
  BY <1>1 DEF Grows
<1>3. recall' = recall \/ (recall' \in RecallRow /\ recall'.status = "INITIATED")
  BY <1>1 DEF RecallRow
<1>4. dac' = dac \/ (dac' \in DacRow /\ dac'.received = 0)
  BY <1>1 DEF DacRow
<1>5. RecallTypeOK'
  BY <1>1, <1>3, <1>4 DEF RecallIInv, RecallTypeOK
<1>6. DacOK'
  <2>1. Counted(0)'
    BY <1>2, VotesGrow DEF Counted
  <2>2. dac' # dac => recall' # Absent
    BY <1>1
  <2>3. QED
    BY <1>2, <1>4, <2>1, <2>2, RestStays DEF DacOK, Counted
<1>7. RecallOK'
  BY <1>1, <1>2, <1>3, RestStays DEF RecallOK
<1>8. /\ serving' = [p \in Request |-> serving'[p]]
      /\ \A p \in Request: StepOK(serving[p])'
  BY <1>1, <1>2, RequestMoves, NoRequestMoves DEF StepOK
<1>9. QED
  BY <1>1, <1>2, <1>5, <1>6, <1>7, <1>8, RestStays DEF RecallIInv

\* A request loads the order it is to approve or execute.
LEMMA LoadsKeeps ==
    ASSUME RecallIInv, NEW q \in Request, ApproveLoads(q) \/ RecallLoads(q)
    PROVE  RecallIInv'
<1>1. PICK pc \in {"approve", "execute"}:
         /\ recall # Absent /\ (pc = "execute" => recall.status = "APPROVED")
         /\ Goes(q, [pc |-> pc, row |-> recall])
         /\ UNCHANGED <<recall, dac, dacVote, node, affected, burned, approvedBy, marked>>
  BY DEF ApproveLoads, RecallLoads, Loads, recallRows
<1> DEFINE step == [pc |-> pc, row |-> recall]
<1>2. Grows
  BY <1>1 DEF Grows
<1>3. PICK s: s = step
  OBVIOUS
<1>4. s \in Holding /\ s.row = recall /\ s.pc = pc
  BY <1>1, <1>3 DEF RecallIInv, RecallTypeOK, Holding
<1>5. StepOK(s)'
  BY <1>1, <1>2, <1>4, CoverStays DEF RecallIInv, RecallOK, StepOK, Copy
<1>6. /\ serving' = [p \in Request |-> serving'[p]]
      /\ \A p \in Request: StepOK(serving[p])'
  BY <1>1, <1>2, <1>3, <1>5, RequestMoves
<1>7. RecallTypeOK'
  BY <1>1 DEF RecallIInv, RecallTypeOK
<1>8. QED
  BY <1>1, <1>2, <1>6, <1>7, RestStays DEF RecallIInv

\* The order is saved under a status it may have, and the request goes on.
LEMMA OrderMoves ==
    ASSUME RecallIInv, recall # Absent, NEW row \in RecallRow, recall' = row, row.targets = recall.targets,
           approvedBy \subseteq approvedBy', approvedBy' \subseteq {"staff", "dac"},
           row.status \in {"APPROVED", "EXECUTING", "COMPLETED"} => Authorised',
           row.status = "COMPLETED" => marked' \/ row.targets \cap Unit \subseteq burned,
           marked' \in BOOLEAN,
           UNCHANGED <<dac, dacVote, node, affected, burned>>,
           \/ UNCHANGED serving
           \/ \E q \in Request: \E step: Goes(q, step) /\ StepOK(step)'
    PROVE  RecallIInv'
<1>1. Grows
  BY DEF Grows, RecallRow, Absent
<1>2. /\ serving' = [p \in Request |-> serving'[p]]
      /\ \A p \in Request: StepOK(serving[p])'
  BY <1>1, RequestMoves, NoRequestMoves
<1>3. RecallTypeOK'
  BY DEF RecallIInv, RecallTypeOK
<1>4. RecallOK'
  BY DEF RecallOK
<1>5. QED
  BY <1>1, <1>2, <1>3, <1>4, RestStays DEF RecallIInv

\* The staff's approval authorises.
LEMMA ApproveSavesKeeps == ASSUME RecallIInv, NEW q \in Request, ApproveSaves(q) PROVE RecallIInv'
<1> DEFINE row == [serving[q].row EXCEPT !.status = "APPROVED"]
<1>1. serving[q] \in Holding /\ Copy(serving[q].row) /\ serving[q].row \in RecallRow
  BY DEF ApproveSaves, Serves, RecallIInv, StepOK, Holding, Executing, Burning, VotingStep, Free
<1>2. row \in RecallRow /\ row.targets = recall.targets /\ row.status = "APPROVED" /\ recall # Absent
  BY <1>1 DEF RecallRow, Copy
<1>3. /\ recall' = row /\ approvedBy' = approvedBy \cup {"staff"} /\ Goes(q, Free)
      /\ UNCHANGED <<dac, dacVote, node, affected, burned, marked>>
  BY DEF ApproveSaves, SavesRecall
<1>4. Authorised' /\ approvedBy' \subseteq {"staff", "dac"} /\ marked' \in BOOLEAN /\ StepOK(Free)'
  BY <1>3 DEF Authorised, RecallIInv, RecallTypeOK, StepOK
<1> HIDE DEF row
<1>5. QED
  BY <1>2, <1>3, <1>4, OrderMoves

\* An execution starts with all units of the order still to do.
LEMMA ExecuteStartsKeeps == ASSUME RecallIInv, NEW q \in Request, ExecuteStarts(q) PROVE RecallIInv'
<1> DEFINE held == serving[q].row
           row == [held EXCEPT !.status = "EXECUTING"]
           step == [pc |-> "units", row |-> held, left |-> held.targets]
<1>1. Copy(held) /\ held \in RecallRow /\ Authorised
  BY DEF ExecuteStarts, Serves, RecallIInv, StepOK, Holding, Executing, Burning, VotingStep, Free
<1>2. row \in RecallRow /\ row.targets = recall.targets /\ row.status = "EXECUTING" /\ recall # Absent
  BY <1>1 DEF RecallRow, Copy
<1>3. /\ recall' = row /\ Goes(q, step)
      /\ UNCHANGED <<dac, dacVote, node, affected, burned, approvedBy, marked>>
  BY DEF ExecuteStarts, SavesRecall
<1>4. PICK s: s = step
  OBVIOUS
<1>5. s \in Executing /\ s.row = held /\ s.left = held.targets
  BY <1>1, <1>4 DEF Executing, RecallRow
<1>6. Authorised' /\ recall' # Absent /\ recall'.targets = held.targets
  BY <1>1, <1>2, <1>3 DEF Authorised, Approving, RecallRow, Absent, Copy
<1>7. StepOK(s)'
  BY <1>5, <1>6 DEF StepOK, Remaining, Copy
<1>8. approvedBy' \subseteq {"staff", "dac"} /\ marked' \in BOOLEAN
  BY <1>3 DEF RecallIInv, RecallTypeOK
<1> HIDE DEF row, step
<1>9. QED
  BY <1>2, <1>3, <1>4, <1>6, <1>7, <1>8, OrderMoves

\* An execution ends when nothing is left: every GDP unit of the order is burned.
LEMMA ExecuteCompletesKeeps == ASSUME RecallIInv, NEW q \in Request, ExecuteCompletes(q) PROVE RecallIInv'
<1> DEFINE held == serving[q].row
           row == [held EXCEPT !.status = "COMPLETED"]
<1>1. Copy(held) /\ held \in RecallRow /\ Authorised /\ (held.targets \cap Unit) \ serving[q].left \subseteq burned
  BY DEF ExecuteCompletes, Serves, RecallIInv, StepOK, Holding, Executing, Burning, VotingStep, Free, Remaining
<1>2. row \in RecallRow /\ row.targets = recall.targets /\ row.status = "COMPLETED" /\ recall # Absent
  BY <1>1 DEF RecallRow, Copy
<1>3. /\ recall' = row /\ Goes(q, Free) /\ serving[q].left = {}
      /\ UNCHANGED <<dac, dacVote, node, affected, burned, approvedBy, marked>>
  BY DEF ExecuteCompletes, SavesRecall
<1>4. Authorised' /\ approvedBy' \subseteq {"staff", "dac"} /\ marked' \in BOOLEAN /\ StepOK(Free)'
      /\ row.targets \cap Unit \subseteq burned
  BY <1>1, <1>2, <1>3 DEF Authorised, Approving, RecallIInv, RecallTypeOK, StepOK, Copy
<1> HIDE DEF row
<1>5. QED
  BY <1>2, <1>3, <1>4, OrderMoves

\* The admin cancels the order or marks it complete.
LEMMA AdminKeeps == ASSUME RecallIInv, CancelRecallOrder \/ MarkRecallComplete PROVE RecallIInv'
<1>1. PICK status \in {"CANCELLED", "COMPLETED"}:
         /\ recall # Absent /\ recall' = [recall EXCEPT !.status = status]
         /\ status = "COMPLETED" => recall.status = "EXECUTING" /\ marked'
         /\ marked' \in BOOLEAN
         /\ UNCHANGED <<dac, dacVote, node, affected, burned, serving, approvedBy>>
  BY DEF CancelRecallOrder, MarkRecallComplete, RecallIInv, RecallTypeOK
<1> DEFINE row == [recall EXCEPT !.status = status]
<1>2. row \in RecallRow /\ row.targets = recall.targets /\ row.status = status
  BY <1>1 DEF RecallIInv, RecallTypeOK, RecallRow
<1>3. status = "COMPLETED" => Authorised'
  BY <1>1 DEF RecallIInv, RecallOK, Authorised, Approving
<1>4. approvedBy' \subseteq {"staff", "dac"} /\ approvedBy \subseteq approvedBy'
  BY <1>1 DEF RecallIInv, RecallTypeOK
<1>5. recall' = row
  BY <1>1
<1> HIDE DEF row
<1>6. QED
  BY <1>1, <1>2, <1>3, <1>4, <1>5, OrderMoves

-----------------------------------------------------------------------------
(* The units *)

\* A unit is put on record before it is burned.
LEMMA RecordsUnitKeeps == ASSUME RecallIInv, NEW q \in Request, NEW u \in Unit, RecordsUnit(q, u) PROVE RecallIInv'
<1> DEFINE held == serving[q].row
           step == [pc |-> "burn", row |-> held, left |-> serving[q].left, unit |-> u]
<1>1. serving[q] \in Executing /\ Remaining(serving[q])
  BY DEF RecordsUnit, Serves, RecallIInv, StepOK, Holding, Burning, VotingStep, Free
<1>2. /\ affected' = affected \cup {u} /\ Goes(q, step)
      /\ UNCHANGED <<recall, dac, dacVote, node, burned, approvedBy, marked>>
  BY DEF RecordsUnit
<1>3. Grows
  BY <1>2 DEF Grows
<1>4. PICK s: s = step
  OBVIOUS
<1>5. s \in Burning /\ s.row = held /\ s.left = serving[q].left /\ s.unit = u
  BY <1>1, <1>4 DEF Executing, Burning
<1>6. StepOK(s)' /\ Authorised'
  BY <1>1, <1>2, <1>3, <1>5, CoverStays DEF StepOK, Remaining, Copy
<1>7. /\ serving' = [p \in Request |-> serving'[p]]
      /\ \A p \in Request: StepOK(serving[p])'
  BY <1>2, <1>3, <1>4, <1>6, RequestMoves
<1>8. AffectedOK'
  BY <1>2, <1>6 DEF RecallIInv, AffectedOK
<1>9. RecallTypeOK'
  BY <1>2 DEF RecallIInv, RecallTypeOK
<1>10. QED
  BY <1>2, <1>3, <1>7, <1>8, <1>9, RestStays DEF RecallIInv

\* What is no GDP unit is left out.
LEMMA SkipsTargetKeeps == ASSUME RecallIInv, NEW q \in Request, SkipsTarget(q) PROVE RecallIInv'
<1>1. serving[q] \in Executing /\ Remaining(serving[q])
  BY DEF SkipsTarget, Serves, RecallIInv, StepOK, Holding, Burning, VotingStep, Free
<1>2. PICK t \in serving[q].left \ Unit: Goes(q, [serving[q] EXCEPT !.left = @ \ {t}])
  BY DEF SkipsTarget
<1>3. UNCHANGED <<recall, dac, dacVote, node, affected, burned, approvedBy, marked>>
  BY DEF SkipsTarget, recallRows
<1>4. Grows
  BY <1>3 DEF Grows
<1>5. PICK s: s = [serving[q] EXCEPT !.left = @ \ {t}]
  OBVIOUS
<1>6. s \in Executing /\ s.row = serving[q].row /\ s.left = serving[q].left \ {t}
  BY <1>1, <1>5 DEF Executing
<1>7. Remaining(s)
  BY <1>1, <1>2, <1>6 DEF Remaining
<1>8. StepOK(s)'
  <2>1. StepOK(s)
    BY <1>6, <1>7 DEF StepOK
  <2>2. QED
    BY <1>4, <2>1, StepStays
<1>9. /\ serving' = [p \in Request |-> serving'[p]]
      /\ \A p \in Request: StepOK(serving[p])'
  BY <1>2, <1>4, <1>5, <1>8, RequestMoves
<1>10. RecallTypeOK'
  BY <1>3 DEF RecallIInv, RecallTypeOK
<1>11. QED
  BY <1>3, <1>4, <1>9, <1>10, RestStays DEF RecallIInv

\* The unit on record is burned, and one unit less is left.
LEMMA BurnsUnitKeeps == ASSUME RecallIInv, NEW q \in Request, BurnsUnit(q) PROVE RecallIInv'
<1> DEFINE held == serving[q].row
           u == serving[q].unit
           step == [pc |-> "units", row |-> held, left |-> serving[q].left \ {u}]
<1>1. serving[q] \in Burning /\ Remaining(serving[q]) /\ u \in affected
  BY DEF BurnsUnit, Serves, RecallIInv, StepOK, Holding, Executing, VotingStep, Free
<1>2. /\ burned' = burned \cup {u} /\ Goes(q, step)
      /\ UNCHANGED <<recall, dac, dacVote, node, affected, approvedBy, marked>>
  BY DEF BurnsUnit
<1>3. Grows
  BY <1>2 DEF Grows
<1>4. PICK s: s = step
  OBVIOUS
<1>5. s \in Executing /\ s.row = held /\ s.left = serving[q].left \ {u}
  BY <1>1, <1>4 DEF Executing, Burning
<1>6. StepOK(s)' /\ Authorised'
  BY <1>1, <1>2, <1>3, <1>5, CoverStays DEF StepOK, Remaining, Copy
<1>7. /\ serving' = [p \in Request |-> serving'[p]]
      /\ \A p \in Request: StepOK(serving[p])'
  BY <1>2, <1>3, <1>4, <1>6, RequestMoves
<1>8. AffectedOK' /\ u \in Unit
  BY <1>1, <1>2, <1>6 DEF RecallIInv, AffectedOK, Burning
<1>9. RecallTypeOK'
  BY <1>2, <1>8 DEF RecallIInv, RecallTypeOK
<1>10. QED
  BY <1>2, <1>3, <1>7, <1>8, <1>9, RestStays DEF RecallIInv
-----------------------------------------------------------------------------
(* The votes *)

\* The admin opens or executes a proposal; nodes come and go.
LEMMA OutsideKeeps ==
    ASSUME RecallIInv, \/ OpenDacVoting \/ ExecuteDac
                 \/ \E n \in Node, status \in {"ACTIVE", "SUSPENDED"}: SetsNode(n, status)
    PROVE  RecallIInv'
<1>1. /\ \/ dac' = dac
         \/ dac # Absent /\ \E status \in {"VOTING", "EXECUTED"}: dac' = [dac EXCEPT !.status = status]
      /\ node' \in [Node -> NodeStatus]
      /\ UNCHANGED <<recall, dacVote, affected, burned, serving, approvedBy, marked>>
  BY DEF OpenDacVoting, ExecuteDac, SetsNode, RecallIInv, RecallTypeOK, NodeStatus
<1>2. Grows
  BY <1>1 DEF Grows
<1>3. dac' \in {Absent} \cup DacRow /\ (dac' # Absent => dac # Absent /\ dac'.received = dac.received)
  BY <1>1 DEF RecallIInv, RecallTypeOK, DacRow
<1>4. DacOK'
  <2>1. CASE dac' # Absent
    <3>1. /\ Approving' = Approving /\ dac'.received = dac.received /\ recall' # Absent
          /\ Counted(dac.received)
      BY <1>1, <1>3, <2>1 DEF RecallIInv, DacOK, Approving
    <3>2. QED
      BY <3>1 DEF DacOK, Counted
  <2>2. CASE dac' = Absent
    BY <2>2 DEF DacOK
  <2>3. QED
    BY <2>1, <2>2
<1>5. RecallTypeOK'
  BY <1>1, <1>3 DEF RecallIInv, RecallTypeOK
<1>6. QED
  BY <1>1, <1>2, <1>4, <1>5, NoRequestMoves, RestStays DEF RecallIInv

\* A vote holds the count it read.
LEMMA VoteLoadsKeeps ==
    ASSUME RecallIInv, NEW q \in Request, NEW n \in Node, NEW approve \in BOOLEAN, VoteLoads(q, n, approve)
    PROVE  RecallIInv'
<1> DEFINE step == [pc |-> "vote", row |-> dac, node |-> n, approve |-> approve]
<1>1. /\ dac \in DacRow /\ recall # Absent /\ Counted(dac.received) /\ Goes(q, step)
      /\ UNCHANGED <<recall, dac, dacVote, node, affected, burned, approvedBy, marked>>
  BY DEF VoteLoads, recallRows, RecallIInv, DacOK, RecallTypeOK
<1>2. Grows
  BY <1>1 DEF Grows
<1>3. PICK s: s = step
  OBVIOUS
<1>4. s \in VotingStep /\ s.pc = "vote" /\ s.row = dac
  BY <1>1, <1>3 DEF VotingStep
<1>5. StepOK(s)
  BY <1>1, <1>4 DEF StepOK
<1>6. StepOK(s)'
  BY <1>2, <1>5, StepStays
<1>7. /\ serving' = [p \in Request |-> serving'[p]]
      /\ \A p \in Request: StepOK(serving[p])'
  BY <1>1, <1>2, <1>3, <1>6, RequestMoves
<1>8. RecallTypeOK'
  BY <1>1 DEF RecallIInv, RecallTypeOK
<1>9. QED
  BY <1>1, <1>2, <1>7, <1>8, RestStays DEF RecallIInv

\* The vote of a node that has none is recorded: if it approves, the count it holds may grow.
LEMMA VoteRecordsKeeps == ASSUME RecallIInv, NEW q \in Request, VoteRecords(q) PROVE RecallIInv'
<1> DEFINE n == serving[q].node
           ballot == IF serving[q].approve THEN "approve" ELSE "reject"
           step == [serving[q] EXCEPT !.pc = "recorded"]
<1>1. /\ serving[q] \in VotingStep /\ serving[q].pc = "vote" /\ Counted(serving[q].row.received)
      /\ recall # Absent /\ n \in Node /\ serving[q].approve \in BOOLEAN /\ serving[q].row.received \in Nat
  BY DEF VoteRecords, Serves, RecallIInv, StepOK, Holding, Executing, Burning, VotingStep, DacRow, Free
<1>2. UNCHANGED <<recall, dac, node, affected, burned, approvedBy, marked>>
  BY DEF VoteRecords
<1>3. CASE dacVote[n] # "none"
  <2>1. Goes(q, Free) /\ UNCHANGED dacVote
    BY <1>3 DEF VoteRecords
  <2>2. Grows
    BY <1>2, <2>1 DEF Grows
  <2>3. RecallTypeOK'
    BY <1>2, <2>1 DEF RecallIInv, RecallTypeOK
  <2>4. QED
    BY <1>2, <2>1, <2>2, <2>3, RequestMoves, RestStays DEF StepOK, RecallIInv
<1>4. CASE dacVote[n] = "none"
  <2>1. dacVote' = [dacVote EXCEPT ![n] = ballot] /\ Goes(q, step)
    BY <1>4 DEF VoteRecords
  <2>2. /\ \A m \in Node: dacVote'[m] = IF m = n THEN ballot ELSE dacVote[m]
        /\ dacVote' \in [Node -> DacVoteValue]
    BY <1>1, <2>1 DEF RecallIInv, RecallTypeOK, DacVoteValue
  <2>3. Grows
    BY <1>2, <1>4, <2>2 DEF Grows
  <2>4. serving[q].approve => Cardinality(Approving') = Cardinality(Approving) + 1
    <3>1. serving[q].approve => n \notin Approving /\ Approving' = Approving \cup {n}
      BY <1>1, <1>4, <2>2 DEF Approving
    <3>2. QED
      BY <2>3, <3>1, VotesGrow, FS_AddElement
  <2>5. PICK s: s = step
    OBVIOUS
  <2>6. /\ s \in VotingStep /\ s.pc = "recorded" /\ s.row = serving[q].row
        /\ s.approve = serving[q].approve
    BY <1>1, <2>5 DEF VotingStep
  <2>7. Counted(IF s.approve THEN s.row.received + 1 ELSE s.row.received)'
    BY <1>1, <2>3, <2>4, <2>6, VotesGrow DEF Counted
  <2>8. StepOK(s)'
    BY <1>1, <1>2, <2>6, <2>7 DEF StepOK
  <2>9. /\ serving' = [p \in Request |-> serving'[p]]
        /\ \A p \in Request: StepOK(serving[p])'
    BY <2>1, <2>3, <2>5, <2>8, RequestMoves
  <2>10. RecallTypeOK'
    BY <1>2, <2>2 DEF RecallIInv, RecallTypeOK
  <2>11. QED
    BY <1>2, <2>3, <2>9, <2>10, RestStays DEF RecallIInv
<1>5. QED
  BY <1>3, <1>4

\* What a vote on record has counted is covered by votes.
LEMMA RecordedIsCounted ==
    ASSUME RecallIInv, NEW q \in Request, Serves(q, "recorded") \/ Serves(q, "decided")
    PROVE  /\ serving[q] \in VotingStep /\ serving[q].row \in DacRow /\ serving[q].approve \in BOOLEAN
           /\ recall # Absent
           /\ Counted(IF serving[q].approve THEN Received(q) ELSE serving[q].row.received)
  BY DEF Serves, RecallIInv, StepOK, Holding, Executing, Burning, VotingStep, Free, Received

\* The deciding vote approves the order: the count it goes by is covered by votes.
LEMMA VoteApprovesKeeps == ASSUME RecallIInv, NEW q \in Request, VoteApprovesRecall(q) PROVE RecallIInv'
<1> DEFINE row == [recall EXCEPT !.status = "APPROVED"]
           step == [serving[q] EXCEPT !.pc = "decided"]
<1>1. /\ serving[q] \in VotingStep /\ serving[q].row \in DacRow /\ serving[q].approve
      /\ recall \in RecallRow /\ recall # Absent
      /\ Counted(Received(q)) /\ Received(q) >= Votes
  BY RecordedIsCounted DEF VoteApprovesRecall, Decisive, RecallIInv, RecallTypeOK
<1>2. /\ recall' = row /\ Goes(q, step) /\ approvedBy' = approvedBy \cup {"dac"}
      /\ UNCHANGED <<dac, dacVote, node, affected, burned, marked>>
  BY DEF VoteApprovesRecall, SavesRecall
<1>3. row \in RecallRow /\ row.targets = recall.targets /\ row.status = "APPROVED"
  BY <1>1 DEF RecallRow
<1>4. Grows /\ recall' # Absent
  BY <1>1, <1>2, <1>3 DEF Grows, RecallRow, Absent
<1>5. PICK s: s = step
  OBVIOUS
<1>6. s \in VotingStep /\ s.pc = "decided" /\ s.row = serving[q].row /\ s.approve = serving[q].approve
  BY <1>1, <1>5 DEF VotingStep
<1>7. Received(q) \in Nat /\ s.row.received + 1 = Received(q)
  BY <1>1, <1>6 DEF DacRow, Received
<1>8. StepOK(s)'
  <2>1. PICK m \in Nat: m = Received(q)
    BY <1>7
  <2>2. Counted(m)'
    BY <1>1, <1>4, <2>1, CoverStays
  <2>3. Counted(s.row.received + 1)'
    BY <1>7, <2>1, <2>2 DEF Counted
  <2>4. QED
    BY <1>1, <1>4, <1>6, <2>3 DEF StepOK
<1>9. Authorised'
  BY <1>1, <1>4, <1>7, VotesGrow, RecallConstants DEF Authorised, Counted
<1>10. approvedBy' \subseteq {"staff", "dac"} /\ marked' \in BOOLEAN
  BY <1>2 DEF RecallIInv, RecallTypeOK
<1> HIDE DEF row, step
<1>11. QED
  BY <1>1, <1>2, <1>3, <1>5, <1>8, <1>9, <1>10, OrderMoves

\* The count that was read is saved with the vote in it.
LEMMA DacVoteSavesKeeps == ASSUME RecallIInv, NEW q \in Request, DacVoteSaves(q) PROVE RecallIInv'
<1> DEFINE count == IF serving[q].approve THEN Received(q) ELSE serving[q].row.received
           row == [status |-> IF Decisive(q) THEN "APPROVED" ELSE serving[q].row.status, received |-> count]
<1>1. /\ serving[q] \in VotingStep /\ serving[q].row \in DacRow /\ serving[q].approve \in BOOLEAN
      /\ recall # Absent /\ Counted(count)
  BY RecordedIsCounted DEF DacVoteSaves
<1>2. /\ dac' = row /\ Goes(q, Free)
      /\ UNCHANGED <<recall, dacVote, node, affected, burned, approvedBy, marked>>
  BY DEF DacVoteSaves
<1>3. row \in DacRow /\ row.received = count
  BY <1>1 DEF DacRow, Received
<1>4. Grows
  BY <1>2 DEF Grows
<1>5. DacOK'
  <2>1. Approving' = Approving
    BY <1>2 DEF Approving
  <2>2. dac'.received <= Cardinality(Approving)
    BY <1>1, <1>2, <1>3 DEF Counted
  <2>3. QED
    BY <1>1, <1>2, <2>1, <2>2 DEF DacOK, Counted
<1>6. RecallTypeOK'
  BY <1>2, <1>3 DEF RecallIInv, RecallTypeOK
<1>7. QED
  BY <1>2, <1>4, <1>5, <1>6, RequestMoves, RestStays DEF RecallIInv, StepOK

-----------------------------------------------------------------------------
(* The invariants *)

\* A request dies, or nothing happens.
LEMMA NothingKeeps ==
    ASSUME RecallIInv, (\E q \in Request: RecallDies(q)) \/ UNCHANGED recallVars
    PROVE  RecallIInv'
<1>1. /\ UNCHANGED <<recall, dac, dacVote, node, affected, burned, approvedBy, marked>>
      /\ UNCHANGED serving \/ \E q \in Request: Goes(q, Free)
  BY DEF RecallDies, recallVars, recallRows
<1>2. Grows
  BY <1>1 DEF Grows
<1>3. /\ serving' = [p \in Request |-> serving'[p]]
      /\ \A p \in Request: StepOK(serving[p])'
  BY <1>1, <1>2, RequestMoves, NoRequestMoves DEF StepOK
<1>4. RecallTypeOK'
  BY <1>1 DEF RecallIInv, RecallTypeOK
<1>5. QED
  BY <1>1, <1>2, <1>3, <1>4, RestStays DEF RecallIInv

\* Every step keeps the inductive invariant.
LEMMA RecallNextKeeps == RecallIInv /\ [RecallNext]_recallVars => RecallIInv'
<1> SUFFICES ASSUME RecallIInv, [RecallNext]_recallVars PROVE RecallIInv'
  OBVIOUS
<1>1. CASE \E q \in Request: RecallStep(q)
  <2> PICK q \in Request: RecallStep(q)
    BY <1>1
  <2>1. CASE \/ InitiateRecall(q) \/ ProposesRecall(q) \/ ApproveLoads(q) \/ ApproveSaves(q)
             \/ RecallLoads(q) \/ ExecuteStarts(q) \/ SkipsTarget(q) \/ BurnsUnit(q) \/ ExecuteCompletes(q)
             \/ \E u \in Unit: RecordsUnit(q, u)
    BY <2>1, CreationKeeps, LoadsKeeps, ApproveSavesKeeps, ExecuteStartsKeeps, BurnsUnitKeeps,
       ExecuteCompletesKeeps, RecordsUnitKeeps, SkipsTargetKeeps
  <2>2. CASE \/ \E n \in Node, approve \in BOOLEAN: VoteLoads(q, n, approve)
             \/ VoteRecords(q) \/ VoteApprovesRecall(q) \/ DacVoteSaves(q) \/ RecallDies(q)
    BY <2>2, VoteLoadsKeeps, VoteRecordsKeeps, VoteApprovesKeeps, DacVoteSavesKeeps, NothingKeeps
  <2>3. QED
    BY <2>1, <2>2 DEF RecallStep
<1>2. CASE \/ \E targets \in SUBSET Target: AdminAddsRecall(targets)
           \/ \E status \in {"PENDING", "VOTING"}: AddsProposal(status)
  BY <1>2, CreationKeeps
<1>3. CASE CancelRecallOrder \/ MarkRecallComplete
  BY <1>3, AdminKeeps
<1>4. CASE \/ OpenDacVoting \/ ExecuteDac
           \/ \E n \in Node, status \in {"ACTIVE", "SUSPENDED"}: SetsNode(n, status)
  BY <1>4, OutsideKeeps
<1>5. CASE UNCHANGED recallVars
  BY <1>5, NothingKeeps
<1>6. QED
  BY <1>1, <1>2, <1>3, <1>4, <1>5 DEF RecallNext

\* RecallIInv is an invariant of every behaviour of recall and vote.
THEOREM RecallInductive == RecallSpec => []RecallIInv
  BY RecallInitially, RecallNextKeeps, PTL DEF RecallSpec

\* Orders, proposals, votes and nodes have the fields of the models (recall/models.py).
THEOREM RecallTypeCorrect == RecallSpec => []RecallTypeOK
<1>1. RecallIInv => RecallTypeOK
  BY DEF RecallIInv
<1>2. QED
  BY RecallInductive, <1>1, PTL

\* No unit is recalled without the staff's approval or enough votes, each of a node of its
\* own, although the count of votes is read and saved without a lock (recall/views.py vote).
THEOREM BurnsApproved == RecallSpec => []BurnsAreApproved
<1>1. RecallIInv => BurnsAreApproved
  BY DEF RecallIInv, AffectedOK, Authorised, BurnsAreApproved
<1>2. QED
  BY RecallInductive, <1>1, PTL

\* A completed order has burned all GDP units it names, unless the admin marked it complete
\* (recall/views.py execute, recall/admin.py).
THEOREM CompletedDone == RecallSpec => []CompletedIsDone
<1>1. RecallIInv => CompletedIsDone
  BY DEF RecallIInv, RecallOK, CompletedIsDone
<1>2. QED
  BY RecallInductive, <1>1, PTL
=============================================================================
