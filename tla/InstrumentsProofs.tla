--------------------------- MODULE InstrumentsProofs ---------------------------
(* Proofs about minting, units, the order book, jewellery rights, designs,     *)
(* certificates, disputes, the inactivity watchdog and the escrow              *)
(* reconciliation, for any rows, users, requests and bounds.                   *)
EXTENDS GdpMinting, GdpUnits, OrderBook, MCInstruments, SetTheorems

-----------------------------------------------------------------------------
(* Tables *)

\* The row that is inserted next was not there.
LEMMA NextRowIsFree ==
    ASSUME NEW n \in Nat, NEW table, DOMAIN table = 1..n, HasRoom(table)
    PROVE  NextRow(table) \in 1..n /\ table[NextRow(table)] = Absent
<1> DEFINE D == {i \in 1..n: table[i] = Absent}
<1>1. D \subseteq 1..n /\ D # {} /\ NextRow(table) = Min(D)
  BY DEF HasRoom, NextRow
<1>2. \A i \in D: i \in 1..n /\ table[i] = Absent
  OBVIOUS
<1> HIDE DEF D
<1>3. QED
  BY <1>1, <1>2, MinIsIn

-----------------------------------------------------------------------------
(* Minting. *)

MintingStep == [pc: {"loaded", "sent", "unit_made", "jr_unit"}, record: Record,
            by: {"owner", "admin", "jeweler"}, fresh: BOOLEAN]

(* A request between its two saves has made the unit already. *)
UnitMade(q) == minting[q].pc = "unit_made" => minted[minting[q].record] > 0

MintIInv == MintTypeOK /\ CompletedHasUnit /\ \A q \in Request: UnitMade(q)

-----------------------------------------------------------------------------
(* Requests and units *)

\* A request that is at some step holds a record.
LEMMA HoldsRecord ==
    ASSUME MintIInv, NEW q \in Request, NEW pc \in {"loaded", "sent", "unit_made", "jr_unit"}, MintAt(q, pc)
    PROVE  minting[q] \in MintingStep /\ minting[q].record \in Record
  BY DEF MintIInv, MintTypeOK, MintingStep, MintAt, Free

\* A unit more.
LEMMA UnitCreated ==
    ASSUME MintIInv, NEW r \in Record, CreatesUnit(r)
    PROVE  /\ minted' \in [Record -> Nat] /\ minted'[r] > 0
           /\ \A s \in Record: minted[s] > 0 => minted'[s] > 0
<1>1. minted \in [Record -> Nat]
  BY DEF MintIInv, MintTypeOK
<1> DEFINE n == IF minted[r] < MaxMint THEN minted[r] + 1 ELSE minted[r]
<1>2. n \in Nat /\ n > 0 /\ (minted[r] > 0 => n > 0)
  BY <1>1, MintConstants
<1>3. minted' = [minted EXCEPT ![r] = n]
  BY DEF CreatesUnit
<1> HIDE DEF n
<1>4. QED
  BY <1>1, <1>2, <1>3

\* Requests move without a unit being taken away.
LEMMA MintMoves ==
    ASSUME MintIInv, DOMAIN minting' = Request,
           \A p \in Request: minting'[p] = Free \/ minting'[p] \in MintingStep,
           \A p \in Request: minting'[p].pc = "unit_made" => minted'[minting'[p].record] > 0,
           minted' \in [Record -> Nat], record' \in [Record -> MintingRow], unchecked' \subseteq Record,
           \A r \in Record \ JrRecord: record'[r].status = "COMPLETED" => minted'[r] > 0
    PROVE  MintIInv'
<1>1. MintTypeOK'
  BY DEF MintTypeOK, MintingStep
<1>2. QED
  BY <1>1 DEF MintIInv, CompletedHasUnit, UnitMade

\* One request takes a step.
LEMMA OneMints ==
    ASSUME MintIInv, NEW q \in Request, NEW step, step = Free \/ step \in MintingStep,
           minting' = [minting EXCEPT ![q] = step],
           step.pc = "unit_made" => minted'[step.record] > 0,
           \A r \in Record: minted[r] > 0 => minted'[r] > 0
    PROVE  /\ DOMAIN minting' = Request
           /\ \A p \in Request: minting'[p] = Free \/ minting'[p] \in MintingStep
           /\ \A p \in Request: minting'[p].pc = "unit_made" => minted'[minting'[p].record] > 0
<1>1. DOMAIN minting' = Request /\ \A p \in Request: minting'[p] = IF p = q THEN step ELSE minting[p]
  BY DEF MintIInv, MintTypeOK
<1>2. \A p \in Request: minting[p] = Free \/ (minting[p] \in MintingStep /\ minting[p].record \in Record)
  BY DEF MintIInv, MintTypeOK, MintingStep
<1>3. ASSUME NEW p \in Request, minting'[p].pc = "unit_made" PROVE minted'[minting'[p].record] > 0
  <2>1. CASE p = q
    BY <1>1, <1>3, <2>1
  <2>2. CASE p # q
    <3>1. minting'[p] = minting[p] /\ minting[p].record \in Record
      BY <1>1, <1>2, <1>3, <2>2 DEF Free
    <3>2. QED
      BY <1>3, <3>1 DEF MintIInv, UnitMade
  <2>3. QED
    BY <2>1, <2>2
<1>4. \A p \in Request: minting'[p] = Free \/ minting'[p] \in MintingStep
  BY <1>1, <1>2
<1>5. QED
  BY <1>1, <1>3, <1>4

\* One record is saved; if it is completed now, it has a unit.
LEMMA RecordSaved ==
    ASSUME MintIInv, NEW r \in Record, NEW saved \in MintingRow, record' = [record EXCEPT ![r] = saved],
           saved.status = "COMPLETED" => r \in JrRecord \/ minted'[r] > 0,
           \A s \in Record: minted[s] > 0 => minted'[s] > 0
    PROVE  /\ record' \in [Record -> MintingRow]
           /\ \A s \in Record \ JrRecord: record'[s].status = "COMPLETED" => minted'[s] > 0
<1>1. \A s \in Record: record'[s] = IF s = r THEN saved ELSE record[s]
  BY DEF MintIInv, MintTypeOK
<1>2. record' \in [Record -> MintingRow]
  BY DEF MintIInv, MintTypeOK
<1>3. QED
  BY <1>1, <1>2 DEF MintIInv, CompletedHasUnit

\* Without a completion, whoever else completes: the requests keep what they hold.
LEMMA MintCompletion ==
    ASSUME MintIInv, NEW q \in Request, NEW r \in Record, NEW step, step = Free \/ step \in MintingStep,
           step.pc # "unit_made", minting' = AfterCompletion(q, r, step),
           \A s \in Record: minted[s] > 0 => minted'[s] > 0
    PROVE  /\ DOMAIN minting' = Request
           /\ \A p \in Request: minting'[p] = Free \/ minting'[p] \in MintingStep
           /\ \A p \in Request: minting'[p].pc = "unit_made" => minted'[minting'[p].record] > 0
<1>1. DOMAIN minting' = Request
  BY DEF AfterCompletion
<1>2. ASSUME NEW p \in Request
      PROVE  \/ minting'[p] = step
             \/ minting'[p] = minting[p]
             \/ minting[p] # Free /\ minting'[p] = [minting[p] EXCEPT !.fresh = FALSE]
  BY DEF AfterCompletion
<1>3. ASSUME NEW p \in Request
      PROVE  /\ minting'[p] = Free \/ minting'[p] \in MintingStep
             /\ minting'[p].pc = "unit_made" => minted'[minting'[p].record] > 0
  <2>1. minting[p] = Free \/ (minting[p] \in MintingStep /\ minting[p].record \in Record)
    BY DEF MintIInv, MintTypeOK, MintingStep
  <2>2. CASE minting'[p] = step
    BY <2>2
  <2>3. CASE minting'[p] = minting[p]
    BY <2>1, <2>3 DEF MintIInv, UnitMade, Free
  <2>4. CASE minting[p] # Free /\ minting'[p] = [minting[p] EXCEPT !.fresh = FALSE]
    <3>1. minting'[p] \in MintingStep /\ minting'[p].pc = minting[p].pc
          /\ minting'[p].record = minting[p].record
      BY <2>1, <2>4 DEF MintingStep
    <3>2. QED
      BY <2>1, <2>4, <3>1 DEF MintIInv, UnitMade
  <2>5. QED
    BY <1>2, <2>2, <2>3, <2>4
<1>4. QED
  BY <1>1, <1>3

-----------------------------------------------------------------------------
(* The actions *)

\* At the start nothing is completed.
LEMMA MintInitially == MintInit => MintIInv
<1> SUFFICES ASSUME MintInit PROVE MintIInv
  OBVIOUS
<1>1. MintTypeOK
  BY DEF MintInit, MintTypeOK, MintingRow
<1>2. CompletedHasUnit /\ \A q \in Request: UnitMade(q)
  BY DEF MintInit, CompletedHasUnit, UnitMade, Free
<1>3. QED
  BY <1>1, <1>2 DEF MintIInv

\* The checklist, and a record rejected by the admin or over the cap.
LEMMA ReviewKeeps ==
    ASSUME MintIInv, NEW r \in Record,
           \E saved \in MintingRow: record' = [record EXCEPT ![r] = saved] /\ saved.status # "COMPLETED",
           UNCHANGED <<minting, minted, unchecked>>
    PROVE  MintIInv'
<1>1. /\ record' \in [Record -> MintingRow]
      /\ \A s \in Record \ JrRecord: record'[s].status = "COMPLETED" => minted'[s] > 0
  BY RecordSaved
<1>2. QED
  BY <1>1 DEF MintIInv, MintTypeOK, CompletedHasUnit, UnitMade

\* The handlers of the checklist do no more.
LEMMA ChecklistKeeps ==
    ASSUME MintIInv, NEW r \in Record,
           ApproveChecklist(r) \/ RejectMint(r) \/ \E complete \in BOOLEAN: VerifyChecklist(r, complete)
    PROVE  MintIInv'
<1>1. record[r] \in MintingRow
  BY DEF MintIInv, MintTypeOK
<1>2. CASE ApproveChecklist(r)
  <2> DEFINE saved == [status |-> "VERIFIED", checked |-> TRUE]
  <2>1. saved \in MintingRow /\ saved.status # "COMPLETED"
    BY DEF MintingRow
  <2>2. QED
    BY <1>2, <2>1, ReviewKeeps DEF ApproveChecklist
<1>3. CASE RejectMint(r)
  <2> DEFINE saved == [record[r] EXCEPT !.status = "REJECTED"]
  <2>1. saved \in MintingRow /\ saved.status # "COMPLETED"
    BY <1>1 DEF MintingRow
  <2>2. record' = [record EXCEPT ![r] = saved]
    BY <1>3 DEF RejectMint, MintIInv, MintTypeOK
  <2>3. QED
    BY <1>3, <2>1, <2>2, ReviewKeeps DEF RejectMint
<1>4. ASSUME NEW complete \in BOOLEAN, VerifyChecklist(r, complete) PROVE MintIInv'
  <2> DEFINE saved == [status |-> IF complete THEN "VERIFIED" ELSE "CHECKLIST_PENDING",
                     checked |-> complete]
  <2>1. saved \in MintingRow /\ saved.status # "COMPLETED"
    BY DEF MintingRow
  <2>2. QED
    BY <1>4, <2>1, ReviewKeeps DEF VerifyChecklist
<1>5. QED
  BY <1>2, <1>3, <1>4

\* A request begins, goes on or ends beside its record.
LEMMA BesideKeeps ==
    ASSUME MintIInv, NEW q \in Request, NEW step, step = Free \/ step \in MintingStep,
           step.pc # "unit_made", minting' = [minting EXCEPT ![q] = step],
           UNCHANGED <<record, minted, unchecked>>
    PROVE  MintIInv'
<1>1. /\ DOMAIN minting' = Request
      /\ \A p \in Request: minting'[p] = Free \/ minting'[p] \in MintingStep
      /\ \A p \in Request: minting'[p].pc = "unit_made" => minted'[minting'[p].record] > 0
  BY OneMints
<1>2. QED
  BY <1>1, MintMoves DEF MintIInv, MintTypeOK, CompletedHasUnit

\* An execution begins, or the cap rejects its record.
LEMMA BeginKeeps ==
    ASSUME MintIInv, NEW q \in Request, NEW r \in Record, ExecuteMint(q, r) \/ AdminExecuteMint(q, r)
    PROVE  MintIInv'
<1>1. ASSUME NEW by \in {"owner", "admin"}, NEW fresh \in BOOLEAN, Begins(q, "loaded", r, by, fresh),
             UNCHANGED <<record, minted, unchecked>>
      PROVE  MintIInv'
  <2> DEFINE step == [pc |-> "loaded", record |-> r, by |-> by, fresh |-> fresh]
  <2>1. step \in MintingStep /\ step.pc # "unit_made"
    BY DEF MintingStep
  <2>2. QED
    BY <1>1, <2>1, BesideKeeps DEF Begins
<1>2. ASSUME record' = [record EXCEPT ![r].status = "REJECTED"], UNCHANGED <<minting, minted, unchecked>>
      PROVE  MintIInv'
  <2> DEFINE saved == [record[r] EXCEPT !.status = "REJECTED"]
  <2>1. saved \in MintingRow /\ saved.status # "COMPLETED" /\ record' = [record EXCEPT ![r] = saved]
    BY <1>2 DEF MintIInv, MintTypeOK, MintingRow
  <2>2. QED
    BY <1>2, <2>1, ReviewKeeps
<1>3. QED
  BY <1>1, <1>2 DEF ExecuteMint, AdminExecuteMint

\* The record is saved as being minted.
LEMMA SaveMintingKeeps == ASSUME MintIInv, NEW q \in Request, SaveMinting(q) PROVE MintIInv'
<1> DEFINE r == minting[q].record
           saved == [status |-> "MINTING", checked |-> TRUE]
           step == [minting[q] EXCEPT !.pc = "sent"]
<1>1. minting[q] \in MintingStep /\ r \in Record
  BY HoldsRecord DEF SaveMinting
<1>2. step \in MintingStep /\ step.pc = "sent" /\ saved \in MintingRow /\ saved.status # "COMPLETED"
  BY <1>1 DEF MintingStep, MintingRow
<1>3. /\ record' = [record EXCEPT ![r] = saved] /\ minting' = [minting EXCEPT ![q] = step]
      /\ UNCHANGED <<minted, unchecked>>
  BY DEF SaveMinting, MintIInv, MintTypeOK
<1> HIDE DEF saved, step, r
<1>4. /\ record' \in [Record -> MintingRow]
      /\ \A s \in Record \ JrRecord: record'[s].status = "COMPLETED" => minted'[s] > 0
  BY <1>1, <1>2, <1>3, RecordSaved
<1>5. /\ DOMAIN minting' = Request
      /\ \A p \in Request: minting'[p] = Free \/ minting'[p] \in MintingStep
      /\ \A p \in Request: minting'[p].pc = "unit_made" => minted'[minting'[p].record] > 0
  BY <1>2, <1>3, OneMints
<1>6. QED
  BY <1>3, <1>4, <1>5, MintMoves DEF MintIInv, MintTypeOK

\* The record is completed by a request whose unit is there.
LEMMA CompletesKeeps ==
    ASSUME MintIInv, NEW q \in Request, minting[q] \in MintingStep, Completes(q),
           minted' \in [Record -> Nat], minted'[minting[q].record] > 0,
           \A s \in Record: minted[s] > 0 => minted'[s] > 0
    PROVE  MintIInv'
<1> DEFINE saved == [status |-> "COMPLETED", checked |-> TRUE]
<1>1. PICK r \in Record: r = minting[q].record
  BY DEF MintingStep
<1>2. saved \in MintingRow
  BY DEF MintingRow
<1>3. /\ record' = [record EXCEPT ![r] = saved] /\ minting' = AfterCompletion(q, r, Free)
      /\ unchecked' \subseteq Record
  BY <1>1 DEF Completes, MintIInv, MintTypeOK
<1>4. /\ record' \in [Record -> MintingRow]
      /\ \A s \in Record \ JrRecord: record'[s].status = "COMPLETED" => minted'[s] > 0
  BY <1>1, <1>2, <1>3, RecordSaved
<1>5. Free.pc # "unit_made"
  BY DEF Free
<1>6. /\ DOMAIN minting' = Request
      /\ \A p \in Request: minting'[p] = Free \/ minting'[p] \in MintingStep
      /\ \A p \in Request: minting'[p].pc = "unit_made" => minted'[minting'[p].record] > 0
  BY <1>3, <1>5, MintCompletion
<1>7. QED
  BY <1>3, <1>4, <1>6, MintMoves

\* The owner's execution creates the unit with the completion, the admin's before it.
LEMMA FinishKeeps == ASSUME MintIInv, NEW q \in Request, FinishMint(q) \/ AdminCompletes(q) PROVE MintIInv'
<1>1. minting[q] \in MintingStep /\ minting[q].record \in Record
  BY HoldsRecord DEF FinishMint, AdminCompletes
<1>2. CASE FinishMint(q)
  BY <1>1, <1>2, UnitCreated, CompletesKeeps DEF FinishMint
<1>3. CASE AdminCompletes(q)
  <2>1. minted[minting[q].record] > 0 /\ UNCHANGED minted /\ Completes(q)
    BY <1>3 DEF AdminCompletes, MintAt, MintIInv, UnitMade
  <2>2. minted' \in [Record -> Nat]
    BY <2>1 DEF MintIInv, MintTypeOK
  <2>3. QED
    BY <1>1, <2>1, <2>2, CompletesKeeps
<1>4. QED
  BY <1>2, <1>3

\* The admin's unit, and the unit of a jewelry right.
LEMMA GdpUnitKeeps == ASSUME MintIInv, NEW q \in Request, AdminCreatesUnit(q) \/ JrCreatesUnit(q) PROVE MintIInv'
<1>1. minting[q] \in MintingStep
  BY HoldsRecord DEF AdminCreatesUnit, JrCreatesUnit
<1>2. PICK r \in Record: r = minting[q].record
  BY <1>1 DEF MintingStep
<1>3. PICK step: /\ step = Free \/ step \in MintingStep
                 /\ step.pc = "unit_made" => step.record = r
                 /\ minting' = [minting EXCEPT ![q] = step]
  <2>1. CASE AdminCreatesUnit(q)
    <3> DEFINE step == [minting[q] EXCEPT !.pc = "unit_made"]
    <3>1. step \in MintingStep /\ step.record = r
      BY <1>1, <1>2 DEF MintingStep
    <3>2. minting' = [minting EXCEPT ![q] = step]
      BY <2>1 DEF AdminCreatesUnit, MintIInv, MintTypeOK
    <3>3. QED
      BY <3>1, <3>2
  <2>2. CASE JrCreatesUnit(q)
    BY <2>2 DEF JrCreatesUnit, MintEnds, Free
  <2>3. QED
    BY <2>1, <2>2
<1>4. CreatesUnit(r) /\ UNCHANGED <<record, unchecked>>
  BY <1>2 DEF AdminCreatesUnit, JrCreatesUnit
<1>5. /\ minted' \in [Record -> Nat] /\ minted'[r] > 0
      /\ \A s \in Record: minted[s] > 0 => minted'[s] > 0
  BY <1>4, UnitCreated
<1>6. /\ DOMAIN minting' = Request
      /\ \A p \in Request: minting'[p] = Free \/ minting'[p] \in MintingStep
      /\ \A p \in Request: minting'[p].pc = "unit_made" => minted'[minting'[p].record] > 0
  BY <1>3, <1>5, OneMints
<1>7. \A s \in Record \ JrRecord: record'[s].status = "COMPLETED" => minted'[s] > 0
  BY <1>4, <1>5 DEF MintIInv, CompletedHasUnit
<1>8. QED
  BY <1>4, <1>5, <1>6, <1>7, MintMoves DEF MintIInv, MintTypeOK

\* What raises leaves a rejected record, whatever unit it left.
LEMMA RaisesKeeps == ASSUME MintIInv, NEW q \in Request, MintRaises(q) PROVE MintIInv'
<1> DEFINE saved == [status |-> "REJECTED", checked |-> TRUE]
<1>1. PICK r \in Record: r = minting[q].record
  BY HoldsRecord DEF MintRaises, MintAt
<1>2. saved \in MintingRow /\ saved.status # "COMPLETED"
  BY DEF MintingRow
<1>3. /\ record' = [record EXCEPT ![r] = saved] /\ minting' = [minting EXCEPT ![q] = Free]
      /\ UNCHANGED <<minted, unchecked>>
  BY <1>1 DEF MintRaises, MintEnds
<1>4. /\ record' \in [Record -> MintingRow]
      /\ \A s \in Record \ JrRecord: record'[s].status = "COMPLETED" => minted'[s] > 0
  BY <1>2, <1>3, RecordSaved
<1>5. Free.pc # "unit_made"
  BY DEF Free
<1>6. /\ DOMAIN minting' = Request
      /\ \A p \in Request: minting'[p] = Free \/ minting'[p] \in MintingStep
      /\ \A p \in Request: minting'[p].pc = "unit_made" => minted'[minting'[p].record] > 0
  BY <1>3, <1>5, OneMints
<1>7. QED
  BY <1>3, <1>4, <1>6, MintMoves DEF MintIInv, MintTypeOK

\* confirm_payment's record, completed before its unit is there.
LEMMA JrRecordKeeps == ASSUME MintIInv, NEW q \in Request, NEW r \in Record, JrCreatesRecord(q, r) PROVE MintIInv'
<1> DEFINE saved == [status |-> "COMPLETED", checked |-> TRUE]
           step == [pc |-> "jr_unit", record |-> r, by |-> "jeweler", fresh |-> FALSE]
<1>1. saved \in MintingRow /\ step \in MintingStep /\ step.pc # "unit_made"
  BY DEF MintingRow, MintingStep
<1>2. /\ record' = [record EXCEPT ![r] = saved] /\ minting' = AfterCompletion(q, r, step)
      /\ unchecked' \subseteq Record /\ r \in JrRecord /\ UNCHANGED minted
  BY DEF JrCreatesRecord, MintIInv, MintTypeOK
<1> HIDE DEF saved, step
<1>3. /\ record' \in [Record -> MintingRow]
      /\ \A s \in Record \ JrRecord: record'[s].status = "COMPLETED" => minted'[s] > 0
  BY <1>1, <1>2, RecordSaved
<1>4. /\ DOMAIN minting' = Request
      /\ \A p \in Request: minting'[p] = Free \/ minting'[p] \in MintingStep
      /\ \A p \in Request: minting'[p].pc = "unit_made" => minted'[minting'[p].record] > 0
  BY <1>1, <1>2, MintCompletion
<1>5. QED
  BY <1>2, <1>3, <1>4, MintMoves DEF MintIInv, MintTypeOK

\* Every step keeps the inductive invariant.
LEMMA MintNextKeeps == MintIInv /\ [MintNext]_mintVars => MintIInv'
<1> SUFFICES ASSUME MintIInv, [MintNext]_mintVars PROVE MintIInv'
  OBVIOUS
<1>1. ASSUME NEW q \in Request, MintStep(q) PROVE MintIInv'
  <2>1. CASE \E r \in Record: ExecuteMint(q, r) \/ AdminExecuteMint(q, r) \/ JrCreatesRecord(q, r)
    BY <2>1, BeginKeeps, JrRecordKeeps
  <2>2. CASE MintDies(q)
    BY <2>2, BesideKeeps DEF MintDies, MintEnds, Free
  <2>3. QED
    BY <1>1, <2>1, <2>2, SaveMintingKeeps, FinishKeeps, GdpUnitKeeps, RaisesKeeps DEF MintStep
<1>2. ASSUME NEW r \in Record,
             ApproveChecklist(r) \/ RejectMint(r) \/ \E complete \in BOOLEAN: VerifyChecklist(r, complete)
      PROVE  MintIInv'
  BY <1>2, ChecklistKeeps
<1>3. CASE UNCHANGED mintVars
  BY <1>3 DEF mintVars, MintIInv, MintTypeOK, CompletedHasUnit, UnitMade
<1>4. QED
  BY <1>1, <1>2, <1>3 DEF MintNext

-----------------------------------------------------------------------------
(* The cap.  A check that still holds leaves room for its record beside the    *)
(* other completed ones whose check held.                                      *)

Checked(user) == CompletedFor(user) \ unchecked
GramsOf(S) == SumFunctionOnSet(Grams, S)

HasCheck(step) == step # Free /\ step.fresh
RoomFor(step) == GramsOf(Checked(RecordUser[step.record]) \ {step.record}) + Grams[step.record] <= Cap

CapKept ==
    /\ \A user \in User: GramsOf(Checked(user)) <= Cap
    /\ \A q \in Request: HasCheck(minting[q]) => RoomFor(minting[q])

\* Fewer records weigh less.
LEMMA FewerGrams ==
    ASSUME NEW S \in SUBSET Record, NEW R \in SUBSET S
    PROVE  GramsOf(R) \in Nat /\ GramsOf(S) \in Nat /\ GramsOf(R) <= GramsOf(S)
<1>1. IsFiniteSet(S) /\ IsFiniteSet(R)
  BY MintConstants, FS_Subset
<1>2. \A r \in S: Grams[r] \in Nat
  BY MintConstants
<1>3. QED
  BY <1>1, <1>2, SumIsNat, SumSubset DEF GramsOf

\* One record more adds its grams.
LEMMA OneMoreRecord ==
    ASSUME NEW S \in SUBSET Record, NEW r \in Record
    PROVE  GramsOf(S \cup {r}) = GramsOf(S \ {r}) + Grams[r]
<1>1. PICK T: T = S \ {r}
  OBVIOUS
<1>2. S \cup {r} = T \cup {r} /\ r \notin T /\ T \subseteq Record
  BY <1>1
<1>3. IsFiniteSet(T) /\ \A x \in T \cup {r}: Grams[x] \in Int
  BY <1>2, MintConstants, FS_Subset
<1>4. SumFunctionOnSet(Grams, T \cup {r}) = Grams[r] + SumFunctionOnSet(Grams, T)
  BY <1>2, <1>3, SumAdd
<1>5. SumFunctionOnSet(Grams, T) \in Nat /\ Grams[r] \in Nat
  BY <1>2, <1>3, MintConstants, SumIsNat
<1>6. PICK all, rest: all = GramsOf(T \cup {r}) /\ rest = GramsOf(T)
  OBVIOUS
<1>7. all = Grams[r] + rest /\ rest \in Nat /\ Grams[r] \in Nat
  BY <1>4, <1>5, <1>6 DEF GramsOf
<1>8. all = rest + Grams[r]
  BY <1>7
<1>9. QED
  BY <1>1, <1>2, <1>6, <1>8

\* No more records are completed, and no check is newer than it was.
LEMMA FewerChecked ==
    ASSUME CapKept, MintIInv,
           \A user \in User: Checked(user)' \subseteq Checked(user),
           \A p \in Request: HasCheck(minting'[p]) =>
               HasCheck(minting[p]) /\ minting'[p].record = minting[p].record
    PROVE  CapKept'
<1>1. ASSUME NEW user \in User PROVE GramsOf(Checked(user))' <= Cap
  <2>1. PICK S \in SUBSET Record, R \in SUBSET Record: S = Checked(user) /\ R = Checked(user)'
    BY DEF Checked, CompletedFor
  <2>2. R \in SUBSET S
    BY <2>1
  <2>3. GramsOf(R) \in Nat /\ GramsOf(S) \in Nat /\ GramsOf(R) <= GramsOf(S) /\ GramsOf(S) <= Cap
    BY <2>1, <2>2, FewerGrams DEF CapKept
  <2>4. GramsOf(R) <= Cap
    BY <2>3, MintConstants
  <2>5. QED
    BY <2>1, <2>4 DEF GramsOf
<1>2. ASSUME NEW p \in Request, HasCheck(minting'[p]) PROVE RoomFor(minting[p])'
  <2>1. PICK r: r = minting[p].record
    OBVIOUS
  <2>2. HasCheck(minting[p]) /\ minting'[p].record = r
    BY <1>2, <2>1
  <2>3. r \in Record /\ RecordUser[r] \in User /\ Grams[r] \in Nat
    BY <2>1, <2>2, MintConstants DEF MintIInv, MintTypeOK, HasCheck
  <2>4. PICK S, R: S = Checked(RecordUser[r]) \ {r} /\ R = Checked(RecordUser[r])' \ {r}
    OBVIOUS
  <2>5. S \in SUBSET Record /\ R \in SUBSET S
    <3>1. Checked(RecordUser[r])' \subseteq Checked(RecordUser[r])
      BY <2>3
    <3>2. QED
      BY <2>4, <3>1 DEF Checked, CompletedFor
  <2>6. GramsOf(R) \in Nat /\ GramsOf(S) \in Nat /\ GramsOf(R) <= GramsOf(S)
    BY <2>5, FewerGrams
  <2>7. GramsOf(S) + Grams[r] <= Cap
    BY <2>1, <2>2, <2>4 DEF CapKept, RoomFor
  <2>8. GramsOf(R) + Grams[r] <= Cap
    BY <2>3, <2>6, <2>7, MintConstants
  <2>9. QED
    BY <2>2, <2>4, <2>8 DEF RoomFor, GramsOf
<1>3. QED
  BY <1>1, <1>2 DEF CapKept

\* A record is saved and not completed, and no check becomes newer.
LEMMA SavedUncompleted ==
    ASSUME CapKept, MintIInv, NEW r, NEW saved, saved.status # "COMPLETED",
           record' = [record EXCEPT ![r] = saved], unchecked' = unchecked,
           \A p \in Request: HasCheck(minting'[p]) =>
               HasCheck(minting[p]) /\ minting'[p].record = minting[p].record
    PROVE  CapKept'
<1>1. \A s \in Record: record'[s] = record[s] \/ record'[s] = saved
  BY DEF MintIInv, MintTypeOK
<1>2. \A user \in User: Checked(user)' \subseteq Checked(user)
  BY <1>1 DEF Checked, CompletedFor
<1>3. QED
  BY <1>2, FewerChecked

\* The records are as they were.
LEMMA RecordsStay ==
    ASSUME CapKept, MintIInv, UNCHANGED <<record, unchecked>>,
           \A p \in Request: HasCheck(minting'[p]) =>
               HasCheck(minting[p]) /\ minting'[p].record = minting[p].record
    PROVE  CapKept'
<1>1. \A user \in User: Checked(user)' \subseteq Checked(user)
  BY DEF Checked, CompletedFor
<1>2. QED
  BY <1>1, FewerChecked

\* A request that goes on holds the check it held.
LEMMA ChecksAge ==
    ASSUME MintIInv, NEW q \in Request, NEW step, minting' = [minting EXCEPT ![q] = step],
           HasCheck(step) => HasCheck(minting[q]) /\ step.record = minting[q].record
    PROVE  \A p \in Request: HasCheck(minting'[p]) =>
               HasCheck(minting[p]) /\ minting'[p].record = minting[p].record
<1>1. \A p \in Request: minting'[p] = IF p = q THEN step ELSE minting[p]
  BY DEF MintIInv, MintTypeOK
<1>2. QED
  BY <1>1

\* Checks of the same user are void once a record is completed.
LEMMA ChecksVoid ==
    ASSUME MintIInv, NEW q \in Request, NEW r \in Record, NEW step, ~ HasCheck(step),
           minting' = AfterCompletion(q, r, step)
    PROVE  \A p \in Request: HasCheck(minting'[p]) =>
               /\ HasCheck(minting[p]) /\ minting'[p].record = minting[p].record
               /\ RecordUser[minting[p].record] # RecordUser[r]
<1> SUFFICES ASSUME NEW p \in Request, HasCheck(minting'[p])
             PROVE  /\ HasCheck(minting[p]) /\ minting'[p].record = minting[p].record
                    /\ RecordUser[minting[p].record] # RecordUser[r]
  OBVIOUS
<1>1. p # q
  BY DEF AfterCompletion
<1>2. CASE minting[p] # Free /\ RecordUser[minting[p].record] = RecordUser[r]
  <2>1. minting'[p] = [minting[p] EXCEPT !.fresh = FALSE]
    BY <1>1, <1>2 DEF AfterCompletion
  <2>2. minting[p] \in MintingStep
    BY <1>2 DEF MintIInv, MintTypeOK, MintingStep
  <2>3. minting'[p].fresh = FALSE
    BY <2>1, <2>2 DEF MintingStep
  <2>4. QED
    BY <2>3 DEF HasCheck
<1>3. CASE ~(minting[p] # Free /\ RecordUser[minting[p].record] = RecordUser[r])
  <2>1. minting'[p] = minting[p]
    BY <1>1, <1>3 DEF AfterCompletion
  <2>2. QED
    BY <1>3, <2>1 DEF HasCheck
<1>4. QED
  BY <1>2, <1>3

\* A record is completed without a check that holds: it does not count.
LEMMA UncheckedKeepsCap ==
    ASSUME CapKept, MintIInv, NEW q \in Request, NEW r \in Record, NEW step, ~ HasCheck(step),
           record' = [record EXCEPT ![r] = [status |-> "COMPLETED", checked |-> TRUE]],
           unchecked' = unchecked \cup {r}, minting' = AfterCompletion(q, r, step)
    PROVE  CapKept'
<1>1. \A s \in Record \ {r}: record'[s] = record[s]
  BY DEF MintIInv, MintTypeOK
<1>2. \A user \in User: Checked(user)' \subseteq Checked(user)
  BY <1>1 DEF Checked, CompletedFor
<1>3. \A p \in Request: HasCheck(minting'[p]) =>
          HasCheck(minting[p]) /\ minting'[p].record = minting[p].record
  BY ChecksVoid
<1>4. QED
  BY <1>2, <1>3, FewerChecked

\* A record is completed by the request whose check left room for it.
LEMMA CheckedKeepsCap ==
    ASSUME CapKept, MintIInv, NEW q \in Request, HasCheck(minting[q]), NEW r \in Record, r = minting[q].record,
           record' = [record EXCEPT ![r] = [status |-> "COMPLETED", checked |-> TRUE]],
           unchecked' = unchecked \ {r}, minting' = AfterCompletion(q, r, Free)
    PROVE  CapKept'
<1>1. PICK saved: saved = [status |-> "COMPLETED", checked |-> TRUE]
  OBVIOUS
<1>2. saved.status = "COMPLETED" /\ \A s \in Record: record'[s] = IF s = r THEN saved ELSE record[s]
  BY <1>1 DEF MintIInv, MintTypeOK
<1>3. ASSUME NEW user \in User, user # RecordUser[r] PROVE Checked(user)' = Checked(user)
  BY <1>2, <1>3 DEF Checked, CompletedFor
<1>4. Checked(RecordUser[r])' = Checked(RecordUser[r]) \cup {r}
  BY <1>2 DEF Checked, CompletedFor
<1>5. ASSUME NEW user \in User PROVE GramsOf(Checked(user))' <= Cap
  <2>1. PICK S \in SUBSET Record, T \in SUBSET Record: S = Checked(user) /\ T = Checked(user)'
    BY DEF Checked, CompletedFor
  <2>2. GramsOf(T) <= Cap
    <3>1. CASE user = RecordUser[r]
      <4>1. GramsOf(S \ {r}) + Grams[r] <= Cap
        BY <2>1, <3>1 DEF CapKept, RoomFor
      <4>2. T = S \cup {r}
        BY <1>4, <2>1, <3>1
      <4>3. QED
        BY <4>1, <4>2, OneMoreRecord
    <3>2. CASE user # RecordUser[r]
      <4>1. T = S
        BY <1>3, <2>1, <3>2
      <4>2. QED
        BY <2>1, <4>1 DEF CapKept
    <3>3. QED
      BY <3>1, <3>2
  <2>3. QED
    BY <2>1, <2>2 DEF GramsOf
<1>6. ASSUME NEW p \in Request, HasCheck(minting'[p]) PROVE RoomFor(minting[p])'
  <2>1. ~ HasCheck(Free)
    BY DEF HasCheck
  <2>2. HasCheck(minting[p]) /\ minting'[p].record = minting[p].record /\ RecordUser[minting[p].record] # RecordUser[r]
    BY <1>6, <2>1, ChecksVoid
  <2>3. PICK held: held = minting[p].record
    OBVIOUS
  <2>4. held \in Record /\ RecordUser[held] \in User
    BY <2>2, <2>3, MintConstants DEF MintIInv, MintTypeOK, HasCheck
  <2>5. Checked(RecordUser[held])' = Checked(RecordUser[held])
    BY <1>3, <2>2, <2>3, <2>4
  <2>6. GramsOf(Checked(RecordUser[held]) \ {held}) + Grams[held] <= Cap
    BY <2>2, <2>3 DEF CapKept, RoomFor
  <2>7. QED
    BY <2>2, <2>3, <2>5, <2>6 DEF RoomFor, GramsOf
<1>7. QED
  BY <1>5, <1>6 DEF CapKept

\* An execution begins with a check that leaves room, or none.
LEMMA BeginKeepsCap ==
    ASSUME CapKept, MintIInv, NEW q \in Request, NEW r \in Record, ExecuteMint(q, r) \/ AdminExecuteMint(q, r)
    PROVE  CapKept'
<1>1. CASE AdminExecuteMint(q, r)
  <2>1. PICK step: step = [pc |-> "loaded", record |-> r, by |-> "admin", fresh |-> FALSE]
    OBVIOUS
  <2>2. minting' = [minting EXCEPT ![q] = step] /\ ~ HasCheck(step) /\ UNCHANGED <<record, unchecked>>
    BY <1>1, <2>1 DEF AdminExecuteMint, Begins, HasCheck
  <2>3. QED
    BY <2>2, ChecksAge, RecordsStay
<1>2. CASE ExecuteMint(q, r) /\ MintedGrams(RecordUser[r]) + Grams[r] > Cap
  <2>1. PICK saved: saved = [record[r] EXCEPT !.status = "REJECTED"]
    OBVIOUS
  <2>2. record[r] \in MintingRow
    BY DEF MintIInv, MintTypeOK
  <2>3. saved.status # "COMPLETED"
    BY <2>1, <2>2 DEF MintingRow
  <2>4. record' = [record EXCEPT ![r] = saved] /\ UNCHANGED <<minting, unchecked>>
    BY <1>2, <2>1 DEF ExecuteMint
  <2>5. QED
    BY <2>3, <2>4, SavedUncompleted
<1>3. CASE ExecuteMint(q, r) /\ ~(MintedGrams(RecordUser[r]) + Grams[r] > Cap)
  <2>1. PICK step: step = [pc |-> "loaded", record |-> r, by |-> "owner", fresh |-> TRUE]
    OBVIOUS
  <2>2. minting' = [minting EXCEPT ![q] = step] /\ step.record = r /\ UNCHANGED <<record, unchecked>>
    BY <1>3, <2>1 DEF ExecuteMint, Begins
  <2>3. PICK S, R: S = CompletedFor(RecordUser[r]) /\ R = Checked(RecordUser[r]) \ {r}
    OBVIOUS
  <2>4. S \in SUBSET Record /\ R \in SUBSET S
    BY <2>3 DEF Checked, CompletedFor
  <2>5. ~(GramsOf(S) + Grams[r] > Cap)
    BY <1>3, <2>3 DEF MintedGrams, GramsOf
  <2>6. GramsOf(R) + Grams[r] <= Cap
    <3>1. GramsOf(R) \in Nat /\ GramsOf(S) \in Nat /\ GramsOf(R) <= GramsOf(S)
      BY <2>4, FewerGrams
    <3>2. Grams[r] \in Nat /\ Cap \in Nat
      BY MintConstants
    <3>3. QED
      BY <2>5, <3>1, <3>2
  <2>7. \A user \in User: Checked(user)' = Checked(user)
    BY <2>2 DEF Checked, CompletedFor
  <2>8. \A user \in User: GramsOf(Checked(user))' <= Cap
    BY <2>7 DEF CapKept, GramsOf
  <2>9. ASSUME NEW p \in Request, HasCheck(minting'[p]) PROVE RoomFor(minting[p])'
    <3>1. minting'[p] = IF p = q THEN step ELSE minting[p]
      BY <2>2 DEF MintIInv, MintTypeOK
    <3>2. CASE p = q
      <4>1. minting'[p].record = r /\ Checked(RecordUser[r])' = Checked(RecordUser[r])
        BY <2>2, <2>7, <3>1, <3>2, MintConstants
      <4>2. QED
        BY <2>3, <2>6, <4>1 DEF RoomFor, GramsOf
    <3>3. CASE p # q
      <4>1. PICK held: held = minting[p].record
        OBVIOUS
      <4>2. HasCheck(minting[p]) /\ minting'[p].record = held
        BY <2>9, <3>1, <3>3, <4>1
      <4>3. RecordUser[held] \in User
        BY <4>1, <4>2, MintConstants DEF MintIInv, MintTypeOK, HasCheck
      <4>4. GramsOf(Checked(RecordUser[held]) \ {held}) + Grams[held] <= Cap
        BY <4>1, <4>2 DEF CapKept, RoomFor
      <4>5. Checked(RecordUser[held])' = Checked(RecordUser[held])
        BY <2>7, <4>3
      <4>6. QED
        BY <4>2, <4>4, <4>5 DEF RoomFor, GramsOf
    <3>4. QED
      BY <3>2, <3>3
  <2>10. QED
    BY <2>8, <2>9 DEF CapKept
<1>4. QED
  BY <1>1, <1>2, <1>3

\* A completion keeps the cap, with a check that holds or without.
LEMMA CompletesKeepsCap ==
    ASSUME CapKept, MintIInv, NEW q \in Request, minting[q] \in MintingStep, Completes(q)
    PROVE  CapKept'
<1>1. PICK r \in Record: r = minting[q].record
  BY DEF MintingStep
<1>2. /\ record' = [record EXCEPT ![r] = [status |-> "COMPLETED", checked |-> TRUE]]
      /\ minting' = AfterCompletion(q, r, Free)
      /\ unchecked' = IF minting[q].fresh THEN unchecked \ {r} ELSE unchecked \cup {r}
  BY <1>1 DEF Completes
<1>3. CASE minting[q].fresh
  <2>1. HasCheck(minting[q])
    BY <1>3 DEF HasCheck, MintingStep, Free
  <2>2. unchecked' = unchecked \ {r}
    BY <1>2, <1>3
  <2>3. QED
    BY <1>1, <1>2, <2>1, <2>2, CheckedKeepsCap
<1>4. CASE ~ minting[q].fresh
  <2>1. ~ HasCheck(Free) /\ unchecked' = unchecked \cup {r}
    BY <1>2, <1>4 DEF HasCheck
  <2>2. QED
    BY <1>2, <2>1, UncheckedKeepsCap
<1>5. QED
  BY <1>3, <1>4

\* A request goes on with its record, or ends.
LEMMA StepKeepsCap ==
    ASSUME CapKept, MintIInv, NEW q \in Request,
           SaveMinting(q) \/ AdminCreatesUnit(q) \/ MintRaises(q) \/ JrCreatesUnit(q) \/ MintDies(q)
    PROVE  CapKept'
<1>1. ~ HasCheck(Free)
  BY DEF HasCheck
<1>2. ASSUME NEW pc, minting' = [minting EXCEPT ![q].pc = pc], minting[q] \in MintingStep
      PROVE  \A p \in Request: HasCheck(minting'[p]) =>
                 HasCheck(minting[p]) /\ minting'[p].record = minting[p].record
  <2>1. PICK step: step = [minting[q] EXCEPT !.pc = pc]
    OBVIOUS
  <2>2. step.fresh = minting[q].fresh /\ step.record = minting[q].record
    BY <1>2, <2>1 DEF MintingStep
  <2>3. minting' = [minting EXCEPT ![q] = step] /\ minting[q] # Free
    BY <1>2, <2>1 DEF MintIInv, MintTypeOK, MintingStep, Free
  <2>4. QED
    BY <2>2, <2>3, ChecksAge DEF HasCheck
<1>3. ASSUME minting' = [minting EXCEPT ![q] = Free]
      PROVE  \A p \in Request: HasCheck(minting'[p]) =>
                 HasCheck(minting[p]) /\ minting'[p].record = minting[p].record
  BY <1>1, <1>3, ChecksAge
<1>4. CASE SaveMinting(q)
  <2>1. minting[q] \in MintingStep
    BY <1>4, HoldsRecord DEF SaveMinting
  <2>2. PICK saved: saved = [status |-> "MINTING", checked |-> TRUE]
    OBVIOUS
  <2>3. saved.status # "COMPLETED" /\ record' = [record EXCEPT ![minting[q].record] = saved] /\ unchecked' = unchecked
    BY <1>4, <2>2 DEF SaveMinting
  <2>4. minting' = [minting EXCEPT ![q].pc = "sent"]
    BY <1>4 DEF SaveMinting
  <2>5. QED
    BY <1>2, <2>1, <2>3, <2>4, SavedUncompleted
<1>5. CASE AdminCreatesUnit(q)
  <2>1. minting[q] \in MintingStep
    BY <1>5, HoldsRecord DEF AdminCreatesUnit
  <2>2. minting' = [minting EXCEPT ![q].pc = "unit_made"] /\ UNCHANGED <<record, unchecked>>
    BY <1>5 DEF AdminCreatesUnit
  <2>3. QED
    BY <1>2, <2>1, <2>2, RecordsStay
<1>6. CASE MintRaises(q)
  <2>1. PICK saved: saved = [status |-> "REJECTED", checked |-> TRUE]
    OBVIOUS
  <2>2. saved.status # "COMPLETED" /\ record' = [record EXCEPT ![minting[q].record] = saved] /\ unchecked' = unchecked
    BY <1>6, <2>1 DEF MintRaises
  <2>3. minting' = [minting EXCEPT ![q] = Free]
    BY <1>6 DEF MintRaises, MintEnds
  <2>4. QED
    BY <1>3, <2>2, <2>3, SavedUncompleted
<1>7. CASE JrCreatesUnit(q) \/ MintDies(q)
  BY <1>3, <1>7, RecordsStay DEF JrCreatesUnit, MintDies, MintEnds
<1>8. QED
  BY <1>4, <1>5, <1>6, <1>7

\* Reviews complete nothing.
LEMMA ChecklistKeepsCap ==
    ASSUME CapKept, MintIInv, NEW r \in Record,
           ApproveChecklist(r) \/ RejectMint(r) \/ \E complete \in BOOLEAN: VerifyChecklist(r, complete)
    PROVE  CapKept'
<1>1. \E saved: saved.status # "COMPLETED" /\ record' = [record EXCEPT ![r] = saved]
  <2>1. CASE ApproveChecklist(r)
    BY <2>1 DEF ApproveChecklist
  <2>2. CASE RejectMint(r)
    <3>1. PICK saved: saved = [record[r] EXCEPT !.status = "REJECTED"]
      OBVIOUS
    <3>2. saved.status # "COMPLETED"
      BY <3>1 DEF MintIInv, MintTypeOK, MintingRow
    <3>3. QED
      BY <2>2, <3>1, <3>2 DEF RejectMint
  <2>3. ASSUME NEW complete \in BOOLEAN, VerifyChecklist(r, complete)
        PROVE  \E saved: saved.status # "COMPLETED" /\ record' = [record EXCEPT ![r] = saved]
    BY <2>3 DEF VerifyChecklist
  <2>4. QED
    BY <2>1, <2>2, <2>3
<1>2. UNCHANGED <<minting, unchecked>>
  BY DEF ApproveChecklist, RejectMint, VerifyChecklist
<1>3. QED
  BY <1>1, <1>2, SavedUncompleted

\* Nothing is completed at first.
LEMMA CapInitially == MintInit => CapKept
<1> SUFFICES ASSUME MintInit PROVE CapKept
  OBVIOUS
<1>1. \A user \in User: Checked(user) = {}
  BY DEF MintInit, Checked, CompletedFor
<1>2. GramsOf({}) = 0
  BY SumOfNone DEF GramsOf
<1>3. \A user \in User: GramsOf(Checked(user)) <= Cap
  BY <1>1, <1>2, MintConstants
<1>4. QED
  BY <1>3 DEF CapKept, HasCheck, MintInit

\* Every step keeps the cap.
LEMMA CapNext == ASSUME CapKept, MintIInv, [MintNext]_mintVars PROVE CapKept'
<1>1. ASSUME NEW q \in Request, MintStep(q) PROVE CapKept'
  <2>1. CASE FinishMint(q) \/ AdminCompletes(q)
    BY <2>1, HoldsRecord, CompletesKeepsCap DEF FinishMint, AdminCompletes
  <2>2. CASE \E r \in Record: JrCreatesRecord(q, r)
    <3>1. PICK r \in Record: JrCreatesRecord(q, r)
      BY <2>2
    <3>2. PICK step: step = [pc |-> "jr_unit", record |-> r, by |-> "jeweler", fresh |-> FALSE]
      OBVIOUS
    <3>3. ~ HasCheck(step)
      BY <3>2 DEF HasCheck
    <3>4. QED
      BY <3>1, <3>2, <3>3, UncheckedKeepsCap DEF JrCreatesRecord
  <2>3. QED
    BY <1>1, <2>1, <2>2, BeginKeepsCap, StepKeepsCap DEF MintStep
<1>2. CASE UNCHANGED mintVars
  BY <1>2, RecordsStay DEF mintVars
<1>3. QED
  BY <1>1, <1>2, ChecklistKeepsCap DEF MintNext

-----------------------------------------------------------------------------
(* The invariants *)

\* MintIInv is an invariant of every behaviour of minting.
THEOREM MintInductive == MintSpec => []MintIInv
  BY MintInitially, MintNextKeeps, PTL DEF MintSpec

\* Records have the statuses of the model, and requests hold records (irg_gdp/models.py).
THEOREM MintTypeCorrect == MintSpec => []MintTypeOK
<1>1. MintIInv => MintTypeOK
  BY DEF MintIInv
<1>2. QED
  BY MintInductive, <1>1, PTL

\* However executions overlap, raise, die and are repeated, a completed record has a unit
\* (irg_gdp/views.py execute_mint, irg_gdp/admin.py).
THEOREM CompletedMinted == MintSpec => []CompletedHasUnit
<1>1. MintIInv => CompletedHasUnit
  BY DEF MintIInv
<1>2. QED
  BY MintInductive, <1>1, PTL

\* What is completed with a check that held stays within the cap, however often records
\* are verified, executed and opened again (irg_gdp/views.py execute_mint).
THEOREM CapHolds == MintSpec => []CapUnlessOverlap
<1>1. CapKept /\ MintIInv /\ [MintNext]_mintVars => CapKept'
  BY CapNext
<1>2. CapKept => CapUnlessOverlap
  BY DEF CapKept, CapUnlessOverlap, Checked, GramsOf
<1>3. QED
  BY CapInitially, MintInductive, <1>1, <1>2, PTL DEF MintSpec

-----------------------------------------------------------------------------
(* Units.  An ACTIVE earmark can make its unit live again whatever became of   *)
(* it, so it counts as the unit does: the claims on a mint are its live units  *)
(* and the earmarks that can still be released, an earmarked unit and its      *)
(* earmark being one claim.                                                    *)

Pledges(u) == {e \in 1..MaxEarmark: earmark[e] # Absent /\ earmark[e].status = "ACTIVE" /\ earmark[e].unit = u}
Pledged == [u \in Units |-> Cardinality(Pledges(u))]

Worth(status, n) ==
    IF status = "ACTIVE" THEN 1 + n ELSE IF status = "EARMARKED" /\ n = 0 THEN 1 ELSE n

Weights(table, pledge, m) ==
    [u \in Units |-> IF table[u] # Absent /\ table[u].mint = m THEN Worth(table[u].status, pledge[u]) ELSE 0]
Claims(table, pledge, m) == SumFunctionOnSet(Weights(table, pledge, m), Units)

UnitTable == [Units -> {Absent} \cup UnitRow]
PledgeTable == [Units -> Nat]

UnitStep == [pc: {"transfer", "earmark"}, unit: Units, row: UnitRow]
ReleaseStep == [pc: {"release"}, earmark: 1..MaxEarmark]
SwapStep == [pc: {"swap"}, swap: 1..MaxSwap]

(* The rows that a request works on exist, and it holds one of its unit's mint. *)
StepOK(step) ==
    \/ step = Free
    \/ /\ step \in UnitStep /\ step.row.status = "ACTIVE"
       /\ unit[step.unit] # Absent /\ unit[step.unit].mint = step.row.mint
    \/ step \in ReleaseStep /\ earmark[step.earmark] # Absent
    \/ step \in SwapStep /\ swap[step.swap] # Absent

UnitIInv ==
    /\ UnitTypeOK
    /\ DOMAIN moving = Request /\ \A q \in Request: StepOK(moving[q])
    /\ \A e \in 1..MaxEarmark: earmark[e] # Absent => unit[earmark[e].unit] # Absent
    /\ \A u \in Units: unit[u] # Absent => unit[u].mint \in made
    /\ \A m \in Mint: Claims(unit, Pledged, m) <= 1 + stale[m]

-----------------------------------------------------------------------------
(* Claims *)

\* Units and earmarks are finitely many.
LEMMA UnitsFinite ==
    /\ IsFiniteSet(Units) /\ IsFiniteSet(1..MaxEarmark)
    /\ \A u: IsFiniteSet(Pledges(u)) /\ Cardinality(Pledges(u)) \in Nat
<1>1. IsFiniteSet(Units) /\ IsFiniteSet(1..MaxEarmark)
  BY UnitConstants, FS_Interval DEF Units
<1>2. ASSUME NEW u PROVE IsFiniteSet(Pledges(u)) /\ Cardinality(Pledges(u)) \in Nat
  <2>1. Pledges(u) \subseteq 1..MaxEarmark
    BY DEF Pledges
  <2>2. QED
    BY <1>1, <2>1, FS_Subset, FS_CardinalityType
<1>3. QED
  BY <1>1, <1>2

\* The weights are numbers.
LEMMA WeightsAreNat ==
    ASSUME NEW table, NEW pledge \in PledgeTable, NEW m
    PROVE  /\ \A u \in Units: Weights(table, pledge, m)[u] \in Nat
           /\ Claims(table, pledge, m) \in Nat
<1>1. \A u \in Units: Weights(table, pledge, m)[u] \in Nat
  BY DEF Weights, Worth, PledgeTable
<1>2. QED
  BY <1>1, UnitsFinite, SumIsNat DEF Claims

\* Lighter weights make a lesser claim.
LEMMA ClaimsLeq ==
    ASSUME NEW table, NEW pledge \in PledgeTable, NEW other, NEW less \in PledgeTable, NEW m,
           \A u \in Units: Weights(other, less, m)[u] <= Weights(table, pledge, m)[u]
    PROVE  Claims(other, less, m) <= Claims(table, pledge, m)
<1>1. PICK f, g: f = Weights(other, less, m) /\ g = Weights(table, pledge, m)
  OBVIOUS
<1>2. \A u \in Units: f[u] \in Int /\ g[u] \in Int /\ f[u] <= g[u]
  BY <1>1, WeightsAreNat
<1>3. QED
  BY <1>1, <1>2, UnitsFinite, SumLeq DEF Claims

\* A column differs in one unit.
Alters(after, before, u, value) == \A x \in Units: after[x] = IF x = u THEN value ELSE before[x]

\* One unit changes, and what is pledged on it.
LEMMA ClaimsSaved ==
    ASSUME NEW table \in UnitTable, NEW pledge \in PledgeTable, NEW u \in Units, NEW saved \in UnitRow,
           NEW n \in Nat, NEW m, NEW other, NEW less \in PledgeTable,
           Alters(other, table, u, saved), Alters(less, pledge, u, n)
    PROVE  Claims(other, less, m) = Claims(table, pledge, m) - Weights(table, pledge, m)[u]
                                     + (IF saved.mint = m THEN Worth(saved.status, n) ELSE 0)
<1>1. PICK f, g: f = Weights(table, pledge, m) /\ g = Weights(other, less, m)
  OBVIOUS
<1>2. \A x \in Units: f[x] \in Int /\ g[x] \in Int
  BY <1>1, WeightsAreNat
<1>3. \A x \in Units \ {u}: g[x] = f[x]
  BY <1>1 DEF Weights, Alters
<1>4. SumFunctionOnSet(g, Units) = SumFunctionOnSet(f, Units) - f[u] + g[u]
  BY <1>2, <1>3, UnitsFinite, SumUpdate
<1>5. other[u] = saved /\ less[u] = n /\ saved # Absent
  BY DEF UnitRow, Absent, Alters
<1>6. g[u] = IF saved.mint = m THEN Worth(saved.status, n) ELSE 0
  BY <1>1, <1>5 DEF Weights
<1>7. QED
  BY <1>1, <1>4, <1>6 DEF Claims

\* A status that is saved over another adds one claim at most; one that is saved
\* over ACTIVE adds none, whether the unit goes away or is earmarked.
LEMMA WorthBounds ==
    ASSUME NEW status, NEW n \in Nat
    PROVE  /\ n <= Worth(status, n) /\ Worth(status, n) <= n + 1
           /\ Worth("ACTIVE", n) = n + 1 /\ Worth("EARMARKED", n + 1) = n + 1
           /\ Worth("TRANSFERRED", n) = n /\ Worth("SWAPPED", n) = n /\ Worth("BURNED", n) = n
           /\ Worth(status, n) <= Worth(status, n + 1)
  BY DEF Worth

\* The claims on a mint are at least its live units.
LEMMA ClaimsCoverLive ==
    ASSUME UnitTypeOK, NEW m \in Mint
    PROVE  Cardinality(LiveOf(m)) <= Claims(unit, Pledged, m)
<1>1. Pledged \in PledgeTable
  BY UnitsFinite DEF Pledged, PledgeTable
<1>2. PICK f: f = Weights(unit, Pledged, m)
  OBVIOUS
<1>3. \A u \in Units: f[u] \in Nat
  BY <1>1, <1>2, WeightsAreNat
<1>4. ASSUME NEW u \in LiveOf(m) PROVE f[u] >= 1
  <2>1. PICK n \in Nat: n = Pledged[u]
    BY <1>1 DEF PledgeTable, LiveOf
  <2>2. f[u] = Worth(unit[u].status, n)
    BY <1>2, <2>1 DEF Weights, LiveOf
  <2>3. unit[u].status \in {"ACTIVE", "EARMARKED"}
    BY DEF LiveOf, Live
  <2>4. QED
    BY <2>1, <2>2, <2>3 DEF Worth
<1>5. LiveOf(m) \in SUBSET Units
  BY DEF LiveOf
<1>6. QED
  BY <1>2, <1>3, <1>4, <1>5, UnitsFinite, CardinalityLeqSum DEF Claims

\* So that a mint has one live unit and one more for each save from an old read.
LEMMA UnitsClaimed == UnitIInv => OneLiveUnitPerMint
<1> SUFFICES ASSUME UnitIInv, NEW m \in Mint PROVE Cardinality(LiveOf(m)) <= 1 + stale[m]
  BY DEF OneLiveUnitPerMint
<1>1. Cardinality(LiveOf(m)) <= Claims(unit, Pledged, m)
  BY ClaimsCoverLive DEF UnitIInv
<1>2. Claims(unit, Pledged, m) <= 1 + stale[m]
  BY DEF UnitIInv
<1>3. Claims(unit, Pledged, m) \in Nat
  <2>1. Pledged \in PledgeTable
    BY UnitsFinite DEF Pledged, PledgeTable
  <2>2. QED
    BY <2>1, WeightsAreNat
<1>4. Cardinality(LiveOf(m)) \in Nat /\ stale[m] \in Nat
  <2>1. LiveOf(m) \subseteq Units
    BY DEF LiveOf
  <2>2. QED
    BY <2>1, UnitsFinite, FS_Subset, FS_CardinalityType DEF UnitIInv, UnitTypeOK
<1>5. QED
  BY <1>1, <1>2, <1>3, <1>4

-----------------------------------------------------------------------------
(* Steps *)

(* No row goes away, and no unit changes its mint. *)
RowsRemain ==
    /\ \A u \in Units: unit[u] # Absent => unit'[u] # Absent /\ unit'[u].mint = unit[u].mint
    /\ \A e \in 1..MaxEarmark: earmark[e] # Absent => earmark'[e] # Absent /\ earmark'[e].unit = earmark[e].unit
    /\ \A s \in 1..MaxSwap: swap[s] # Absent => swap'[s] # Absent

\* What a request works on is still there.
LEMMA StepStays == ASSUME NEW step, StepOK(step), RowsRemain PROVE StepOK(step)'
<1>1. CASE step = Free
  BY <1>1 DEF StepOK
<1>2. CASE /\ step \in UnitStep /\ step.row.status = "ACTIVE"
           /\ unit[step.unit] # Absent /\ unit[step.unit].mint = step.row.mint
  <2>1. step.unit \in Units
    BY <1>2 DEF UnitStep
  <2>2. unit'[step.unit] # Absent /\ unit'[step.unit].mint = step.row.mint
    BY <1>2, <2>1 DEF RowsRemain
  <2>3. QED
    BY <1>2, <2>2 DEF StepOK
<1>3. CASE step \in ReleaseStep /\ earmark[step.earmark] # Absent
  <2>1. step.earmark \in 1..MaxEarmark
    BY <1>3 DEF ReleaseStep
  <2>2. earmark'[step.earmark] # Absent
    BY <1>3, <2>1 DEF RowsRemain
  <2>3. QED
    BY <1>3, <2>2 DEF StepOK
<1>4. CASE step \in SwapStep /\ swap[step.swap] # Absent
  <2>1. step.swap \in 1..MaxSwap
    BY <1>4 DEF SwapStep
  <2>2. swap'[step.swap] # Absent
    BY <1>4, <2>1 DEF RowsRemain
  <2>3. QED
    BY <1>4, <2>2 DEF StepOK
<1>5. QED
  BY <1>1, <1>2, <1>3, <1>4 DEF StepOK

\* The requests keep what they work on; the rest is for each step to show.
LEMMA UnitMoves ==
    ASSUME UnitIInv, UnitTypeOK', RowsRemain, DOMAIN moving' = Request,
           \A p \in Request: moving'[p] = moving[p] \/ StepOK(moving[p])',
           \A e \in 1..MaxEarmark: earmark'[e] # Absent => unit'[earmark'[e].unit] # Absent,
           \A u \in Units: unit'[u] # Absent => unit'[u].mint \in made',
           \A m \in Mint: Claims(unit, Pledged, m)' <= 1 + stale'[m]
    PROVE  UnitIInv'
<1>1. ASSUME NEW p \in Request, moving'[p] = moving[p] PROVE StepOK(moving[p])'
  <2>1. PICK held: held = moving[p]
    OBVIOUS
  <2>2. StepOK(held)'
    BY <2>1, StepStays DEF UnitIInv
  <2>3. QED
    BY <1>1, <2>1, <2>2
<1>2. QED
  BY <1>1 DEF UnitIInv

\* The pledges are counted in numbers.
LEMMA PledgedOK == Pledged \in PledgeTable /\ Pledged' \in PledgeTable
<1>1. Pledged \in PledgeTable
  BY UnitsFinite DEF Pledged, PledgeTable
<1>2. (Pledged \in PledgeTable)'
  <2>1. \A u: Cardinality(Pledges(u))' \in Nat
    <3>1. SUFFICES ASSUME NEW u PROVE Cardinality(Pledges(u))' \in Nat
      OBVIOUS
    <3>2. Pledges(u)' \subseteq 1..MaxEarmark
      BY DEF Pledges
    <3>3. PICK set: set = Pledges(u)'
      OBVIOUS
    <3>4. QED
      BY <3>2, <3>3, UnitsFinite, FS_Subset, FS_CardinalityType
  <2>2. QED
    BY <2>1 DEF Pledged, PledgeTable
<1>3. QED
  BY <1>1, <1>2

\* An earmark more.
LEMMA PledgeAdds ==
    ASSUME UnitTypeOK, NEW e \in 1..MaxEarmark, earmark[e] = Absent, NEW u \in Units,
           earmark' = [earmark EXCEPT ![e] = [status |-> "ACTIVE", unit |-> u]]
    PROVE  Pledged' = [Pledged EXCEPT ![u] = Pledged[u] + 1]
<1>1. PICK added: added = [status |-> "ACTIVE", unit |-> u]
  OBVIOUS
<1>2. added # Absent /\ added.status = "ACTIVE" /\ added.unit = u
  BY <1>1 DEF Absent
<1>3. \A d \in 1..MaxEarmark: earmark'[d] = IF d = e THEN added ELSE earmark[d]
  BY <1>1 DEF UnitTypeOK
<1>4. \A x: Pledges(x)' = IF x = u THEN Pledges(x) \cup {e} ELSE Pledges(x)
  BY <1>2, <1>3 DEF Pledges
<1>5. e \notin Pledges(u)
  BY DEF Pledges
<1>6. PICK set: set = Pledges(u)
  OBVIOUS
<1>7. Cardinality(set \cup {e}) = Cardinality(set) + 1
  BY <1>5, <1>6, UnitsFinite, FS_AddElement
<1>8. \A x \in Units: Cardinality(Pledges(x))' = IF x = u THEN Cardinality(Pledges(u)) + 1 ELSE Cardinality(Pledges(x))
  BY <1>4, <1>6, <1>7
<1>9. QED
  BY <1>8 DEF Pledged

\* An earmark is released, for the first time or again.
LEMMA PledgeReleased ==
    ASSUME UnitTypeOK, NEW e \in 1..MaxEarmark, earmark[e] # Absent, NEW u \in Units, u = earmark[e].unit,
           earmark' = [earmark EXCEPT ![e].status = "RELEASED"]
    PROVE  /\ earmark[e].status = "ACTIVE" =>
                 Pledged[u] >= 1 /\ Pledged' = [Pledged EXCEPT ![u] = Pledged[u] - 1]
           /\ earmark[e].status # "ACTIVE" => Pledged' = Pledged
<1>1. PICK released: released = [earmark[e] EXCEPT !.status = "RELEASED"]
  OBVIOUS
<1>2. released # Absent /\ released.status = "RELEASED" /\ released.unit = u
  BY <1>1 DEF UnitTypeOK, EarmarkRow, Absent
<1>3. \A d \in 1..MaxEarmark: earmark'[d] = IF d = e THEN released ELSE earmark[d]
  BY <1>1 DEF UnitTypeOK
<1>4. \A x: Pledges(x)' = Pledges(x) \ {e}
  BY <1>2, <1>3 DEF Pledges
<1>5. \A x: e \in Pledges(x) <=> x = u /\ earmark[e].status = "ACTIVE"
  BY DEF Pledges
<1>6. CASE earmark[e].status = "ACTIVE"
  <2>1. PICK set: set = Pledges(u)
    OBVIOUS
  <2>2. Cardinality(set \ {e}) = Cardinality(set) - 1 /\ Cardinality(set \ {e}) \in Nat /\ Cardinality(set) \in Nat
    BY <1>5, <1>6, <2>1, UnitsFinite, FS_RemoveElement, FS_CardinalityType
  <2>3. \A x \in Units: Cardinality(Pledges(x))' = IF x = u THEN Cardinality(Pledges(u)) - 1 ELSE Cardinality(Pledges(x))
    <3>1. \A x \in Units: x # u => Pledges(x)' = Pledges(x)
      BY <1>4, <1>5
    <3>2. QED
      BY <1>4, <2>1, <2>2, <3>1
  <2>4. Pledged[u] = Cardinality(set)
    BY <2>1 DEF Pledged
  <2>5. Pledged' = [Pledged EXCEPT ![u] = Pledged[u] - 1]
    BY <2>3 DEF Pledged
  <2>6. Pledged[u] >= 1
    BY <2>2, <2>4
  <2>7. QED
    BY <1>6, <2>5, <2>6
<1>7. CASE earmark[e].status # "ACTIVE"
  <2>1. \A x: Pledges(x)' = Pledges(x)
    BY <1>4, <1>5, <1>7
  <2>2. QED
    BY <1>7, <2>1 DEF Pledged
<1>8. QED
  BY <1>6, <1>7

\* A stale save is counted.
LEMMA StaleCounted ==
    ASSUME UnitTypeOK, NEW m \in Mint, NEW flag \in BOOLEAN, CountStale(m, flag)
    PROVE  /\ stale' \in [Mint -> Nat]
           /\ \E k \in {0, 1}: /\ \A x \in Mint: stale'[x] = IF x = m THEN stale[x] + k ELSE stale[x]
                               /\ k = 0 => ~ flag
                               /\ flag => k = 1
<1>1. CASE flag
  <2>1. stale' = [stale EXCEPT ![m] = @ + 1]
    BY <1>1 DEF CountStale
  <2>2. stale' \in [Mint -> Nat] /\ \A x \in Mint: stale'[x] = IF x = m THEN stale[x] + 1 ELSE stale[x]
    BY <2>1 DEF UnitTypeOK
  <2>3. QED
    BY <1>1, <2>2
<1>2. CASE ~ flag
  <2>1. stale' = stale
    BY <1>2 DEF CountStale
  <2>2. stale' \in [Mint -> Nat] /\ \A x \in Mint: stale'[x] = IF x = m THEN stale[x] + 0 ELSE stale[x]
    BY <2>1 DEF UnitTypeOK
  <2>3. QED
    BY <1>2, <2>2
<1>3. QED
  BY <1>1, <1>2

\* The stale saves of a mint grow by k.
StaleAdds(m, k) == \A x \in Mint: stale'[x] = IF x = m THEN stale[x] + k ELSE stale[x]

\* The row of a unit is saved: the claims on its mint grow by no more than the
\* stale saves do.
LEMMA UnitSaved ==
    ASSUME UnitIInv, NEW u \in Units, unit[u] # Absent, NEW saved \in UnitRow, saved.mint = unit[u].mint,
           Alters(unit', unit, u, saved), NEW n \in Nat, Alters(Pledged', Pledged, u, n),
           NEW old \in Nat, old = Pledged[u],
           NEW k \in {0, 1}, Worth(saved.status, n) <= Worth(unit[u].status, old) + k,
           StaleAdds(saved.mint, k)
    PROVE  \A m \in Mint: Claims(unit, Pledged, m)' <= 1 + stale'[m]
<1> SUFFICES ASSUME NEW m \in Mint PROVE Claims(unit, Pledged, m)' <= 1 + stale'[m]
  OBVIOUS
<1>1. PICK pledge \in PledgeTable: pledge = Pledged
  BY PledgedOK
<1>2. old = pledge[u]
  BY <1>1
<1>3. PICK other, less: other = unit' /\ less = Pledged'
  OBVIOUS
<1>4. unit \in UnitTable /\ unit[u] \in UnitRow
  BY DEF UnitIInv, UnitTypeOK, UnitTable
<1>5. Claims(other, less, m) = Claims(unit, pledge, m) - Weights(unit, pledge, m)[u]
                                 + (IF saved.mint = m THEN Worth(saved.status, n) ELSE 0)
  <2>1. PICK table \in UnitTable: table = unit
    BY <1>4
  <2>2. Alters(other, table, u, saved)
    BY <1>3, <2>1
  <2>3. Alters(less, pledge, u, n)
    BY <1>1, <1>3
  <2>4. less \in PledgeTable
    BY <1>3, PledgedOK
  <2>5. Claims(other, less, m) = Claims(table, pledge, m) - Weights(table, pledge, m)[u]
                                   + (IF saved.mint = m THEN Worth(saved.status, n) ELSE 0)
    BY <2>2, <2>3, <2>4, ClaimsSaved
  <2>6. QED
    BY <2>1, <2>5
<1>6. Weights(unit, pledge, m)[u] = IF saved.mint = m THEN Worth(unit[u].status, old) ELSE 0
  BY <1>1, <1>2 DEF Weights
<1>7. Worth(saved.status, n) \in Nat /\ Worth(unit[u].status, old) \in Nat
  BY DEF Worth
<1>8. Claims(unit, pledge, m) \in Nat /\ stale[m] \in Nat /\ Claims(unit, pledge, m) <= 1 + stale[m]
  BY <1>1, WeightsAreNat DEF UnitIInv, UnitTypeOK
<1>9. Claims(other, less, m) <= 1 + stale'[m]
  <2>1. CASE saved.mint = m
    <3>1. stale'[m] = stale[m] + k
      BY <2>1 DEF StaleAdds
    <3>2. Claims(other, less, m) = Claims(unit, pledge, m) - Worth(unit[u].status, old) + Worth(saved.status, n)
      BY <1>5, <1>6, <2>1
    <3>3. QED
      BY <1>2, <1>7, <1>8, <3>1, <3>2
  <2>2. CASE saved.mint # m
    <3>1. stale'[m] = stale[m]
      BY <2>2 DEF StaleAdds
    <3>2. QED
      BY <1>5, <1>6, <1>8, <2>2, <3>1
  <2>3. QED
    BY <2>1, <2>2
<1>10. QED
  BY <1>3, <1>9

\* Nothing is added to the claims where no unit is worth more than it was.
LEMMA ClaimsLighter ==
    ASSUME UnitIInv, UnitTypeOK', stale' = stale,
           \A u \in Units: /\ unit'[u] = Absent <=> unit[u] = Absent
                           /\ unit[u] # Absent =>
                                 /\ unit'[u].mint = unit[u].mint
                                 /\ Worth(unit'[u].status, Pledged'[u]) <= Worth(unit[u].status, Pledged[u])
    PROVE  \A m \in Mint: Claims(unit, Pledged, m)' <= 1 + stale'[m]
<1> SUFFICES ASSUME NEW m \in Mint PROVE Claims(unit, Pledged, m)' <= 1 + stale'[m]
  OBVIOUS
<1>1. PICK pledge \in PledgeTable, less \in PledgeTable: pledge = Pledged /\ less = Pledged'
  BY PledgedOK
<1>2. PICK other: other = unit'
  OBVIOUS
<1>3. \A u \in Units: Weights(other, less, m)[u] <= Weights(unit, pledge, m)[u]
  <2> SUFFICES ASSUME NEW u \in Units PROVE Weights(other, less, m)[u] <= Weights(unit, pledge, m)[u]
    OBVIOUS
  <2>1. other[u] # Absent /\ other[u].mint = m <=> unit[u] # Absent /\ unit[u].mint = m
    BY <1>2
  <2>2. unit[u] # Absent => Worth(other[u].status, less[u]) <= Worth(unit[u].status, pledge[u])
    BY <1>1, <1>2
  <2>3. QED
    BY <2>1, <2>2 DEF Weights
<1>4. Claims(other, less, m) <= Claims(unit, pledge, m)
  BY <1>3, ClaimsLeq
<1>5. Claims(unit, pledge, m) <= 1 + stale[m] /\ stale[m] \in Nat
  BY <1>1 DEF UnitIInv, UnitTypeOK
<1>6. Claims(unit, pledge, m) \in Nat /\ Claims(other, less, m) \in Nat
  BY WeightsAreNat
<1>7. Claims(other, less, m) <= 1 + stale'[m]
  BY <1>4, <1>5, <1>6
<1>8. QED
  BY <1>1, <1>2, <1>7

\* One request takes a step, or is done.
LEMMA OneRequest ==
    ASSUME UnitIInv, NEW q \in Request, NEW step, moving' = [moving EXCEPT ![q] = step], StepOK(step)'
    PROVE  /\ DOMAIN moving' = Request
           /\ \A p \in Request: moving'[p] = moving[p] \/ StepOK(moving[p])'
<1>1. DOMAIN moving' = Request /\ \A p \in Request: moving'[p] = IF p = q THEN step ELSE moving[p]
  BY DEF UnitIInv
<1>2. QED
  BY <1>1

LEMMA FreeOK == StepOK(Free)'
  BY DEF StepOK

\* The rows are as they were.
LEMMA UnitHoldKeeps ==
    ASSUME UnitIInv, NEW q \in Request, NEW step, moving' = [moving EXCEPT ![q] = step], StepOK(step),
           UNCHANGED <<rows, made, stale>>
    PROVE  UnitIInv'
<1>1. UNCHANGED <<unit, earmark, swap>> /\ RowsRemain /\ UnitTypeOK'
  BY DEF rows, RowsRemain, UnitIInv, UnitTypeOK
<1>2. StepOK(step)'
  BY <1>1, StepStays
<1>3. DOMAIN moving' = Request /\ \A p \in Request: moving'[p] = moving[p] \/ StepOK(moving[p])'
  BY <1>2, OneRequest
<1>4. Pledged' = Pledged
  BY <1>1 DEF Pledged, Pledges
<1>5. \A m \in Mint: Claims(unit, Pledged, m)' <= 1 + stale'[m]
  BY <1>1, <1>4 DEF UnitIInv
<1>6. QED
  BY <1>1, <1>3, <1>5, UnitMoves DEF UnitIInv

\* A request loads what it works on.
LEMMA UnitLoadsKeep ==
    ASSUME UnitIInv, NEW q \in Request,
           \/ \E u \in Units, user \in User: TransferLoads(q, u, user) \/ EarmarkLoads(q, u, user)
           \/ \E e \in 1..MaxEarmark: ReleaseLoads(q, e)
           \/ \E s \in 1..MaxSwap: ConfirmLoads(q, s)
    PROVE  UnitIInv'
<1>1. ASSUME NEW u \in Units, NEW user \in User, NEW pc \in {"transfer", "earmark"}, LoadsUnit(q, pc, u, user)
      PROVE  UnitIInv'
  <2>1. unit[u] # Absent /\ unit[u].status = "ACTIVE" /\ unit[u] \in UnitRow
    BY <1>1 DEF LoadsUnit, Owned, UnitIInv, UnitTypeOK
  <2>2. PICK step: step = [pc |-> pc, unit |-> u, row |-> unit[u]]
    OBVIOUS
  <2>3. step \in UnitStep /\ step.unit = u /\ step.row = unit[u]
    BY <2>1, <2>2 DEF UnitStep
  <2>4. StepOK(step)
    BY <2>1, <2>3 DEF StepOK
  <2>5. QED
    BY <1>1, <2>2, <2>4, UnitHoldKeeps DEF LoadsUnit, Serve
<1>2. ASSUME NEW e \in 1..MaxEarmark, ReleaseLoads(q, e) PROVE UnitIInv'
  <2>1. PICK step: step = [pc |-> "release", earmark |-> e]
    OBVIOUS
  <2>2. StepOK(step)
    BY <1>2, <2>1 DEF ReleaseLoads, StepOK, ReleaseStep
  <2>3. QED
    BY <1>2, <2>1, <2>2, UnitHoldKeeps DEF ReleaseLoads, Serve
<1>3. ASSUME NEW s \in 1..MaxSwap, ConfirmLoads(q, s) PROVE UnitIInv'
  <2>1. PICK step: step = [pc |-> "swap", swap |-> s]
    OBVIOUS
  <2>2. StepOK(step)
    BY <1>3, <2>1 DEF ConfirmLoads, StepOK, SwapStep
  <2>3. QED
    BY <1>3, <2>1, <2>2, UnitHoldKeeps DEF ConfirmLoads, Serve
<1>4. QED
  BY <1>1, <1>2, <1>3 DEF TransferLoads, EarmarkLoads

\* What a request holds that has loaded a unit.
LEMMA HoldsUnit ==
    ASSUME UnitIInv, NEW q \in Request, moving[q].pc \in {"transfer", "earmark"}
    PROVE  /\ moving[q].unit \in Units /\ moving[q].row \in UnitRow /\ moving[q].row.status = "ACTIVE"
           /\ unit[moving[q].unit] # Absent /\ unit[moving[q].unit].mint = moving[q].row.mint
  BY DEF UnitIInv, StepOK, Free, UnitStep, ReleaseStep, SwapStep

\* The unit that is saved is no more than it was, or the save is a stale one.
LEMMA SavesHeld ==
    ASSUME UnitIInv, NEW q \in Request, NEW u \in Units, u = moving[q].unit, unit[u] # Absent,
           NEW held \in UnitRow, held = moving[q].row, held.status = "ACTIVE", unit[u].mint = held.mint,
           CountStale(held.mint, Outdated(q)), NEW n \in Nat
    PROVE  /\ stale' \in [Mint -> Nat]
           /\ \E k \in {0, 1}: /\ \A x \in Mint: stale'[x] = IF x = held.mint THEN stale[x] + k ELSE stale[x]
                               /\ n + 1 <= Worth(unit[u].status, n) + k
<1>1. held.mint \in Mint /\ stale \in [Mint -> Nat]
  BY DEF UnitRow, UnitIInv, UnitTypeOK
<1>2. CASE Outdated(q)
  <2>1. stale' = [stale EXCEPT ![held.mint] = @ + 1]
    BY <1>2 DEF CountStale
  <2>2. stale' \in [Mint -> Nat] /\ \A x \in Mint: stale'[x] = IF x = held.mint THEN stale[x] + 1 ELSE stale[x]
    BY <1>1, <2>1
  <2>3. n <= Worth(unit[u].status, n) /\ Worth(unit[u].status, n) \in Nat
    BY WorthBounds DEF Worth
  <2>4. n + 1 <= Worth(unit[u].status, n) + 1
    BY <2>3
  <2>5. QED
    BY <2>2, <2>4
<1>3. CASE ~ Outdated(q)
  <2>1. stale' = stale
    BY <1>3 DEF CountStale
  <2>2. stale' \in [Mint -> Nat] /\ \A x \in Mint: stale'[x] = IF x = held.mint THEN stale[x] + 0 ELSE stale[x]
    BY <1>1, <2>1
  <2>3. unit[u].status = "ACTIVE"
    BY <1>3 DEF Outdated
  <2>4. n + 1 <= Worth(unit[u].status, n) + 0
    BY <2>3, WorthBounds
  <2>5. QED
    BY <2>2, <2>4
<1>4. QED
  BY <1>2, <1>3

\* A unit is earmarked: its claim becomes the earmark's.
LEMMA EarmarkKeeps == ASSUME UnitIInv, NEW q \in Request, EarmarkSaves(q) PROVE UnitIInv'
<1>1. PICK u \in Units, held \in UnitRow:
         /\ u = moving[q].unit /\ held = moving[q].row /\ held.status = "ACTIVE"
         /\ unit[u] # Absent /\ unit[u].mint = held.mint
  BY HoldsUnit DEF EarmarkSaves, At
<1>2. PICK e: e = NextRow(earmark)
  OBVIOUS
<1>3. e \in 1..MaxEarmark /\ earmark[e] = Absent
  <2>1. DOMAIN earmark = 1..MaxEarmark /\ MaxEarmark \in Nat /\ HasRoom(earmark)
    BY UnitConstants DEF UnitIInv, UnitTypeOK, EarmarkSaves
  <2>2. QED
    BY <1>2, <2>1, NextRowIsFree
<1>4. PICK saved: saved = [held EXCEPT !.status = "EARMARKED"]
  OBVIOUS
<1>5. saved \in UnitRow /\ saved.status = "EARMARKED" /\ saved.mint = held.mint
  BY <1>4 DEF UnitRow, Live
<1>6. /\ earmark' = [earmark EXCEPT ![e] = [status |-> "ACTIVE", unit |-> u]]
      /\ unit' = [unit EXCEPT ![u] = saved] /\ moving' = [moving EXCEPT ![q] = Free]
      /\ UNCHANGED <<swap, made>>
  BY <1>1, <1>2, <1>4 DEF EarmarkSaves, Done, Serve
<1>7. CountStale(held.mint, Outdated(q))
  BY <1>1 DEF EarmarkSaves
<1>8. PICK old \in Nat: old = Pledged[u]
  BY PledgedOK DEF PledgeTable
<1>9. PICK k \in {0, 1}:
         /\ stale' \in [Mint -> Nat]
         /\ \A x \in Mint: stale'[x] = IF x = held.mint THEN stale[x] + k ELSE stale[x]
         /\ old + 1 <= Worth(unit[u].status, old) + k
  BY <1>1, <1>7, SavesHeld
<1>10. Pledged' = [Pledged EXCEPT ![u] = old + 1]
  BY <1>3, <1>6, <1>8, PledgeAdds DEF UnitIInv
<1>11. Worth(saved.status, old + 1) <= Worth(unit[u].status, old) + k
  <2>1. Worth(saved.status, old + 1) = old + 1
    BY <1>5, WorthBounds
  <2>2. QED
    BY <1>9, <2>1
<1>12. \A x \in Units: unit'[x] = IF x = u THEN saved ELSE unit[x]
  BY <1>6 DEF UnitIInv, UnitTypeOK
<1>13. \A m \in Mint: Claims(unit, Pledged, m)' <= 1 + stale'[m]
  <2>1. \A x \in Mint: stale'[x] = IF x = saved.mint THEN stale[x] + k ELSE stale[x]
    BY <1>5, <1>9
  <2>2. PICK n \in Nat: n = old + 1
    OBVIOUS
  <2>3. (\A x \in Units: Pledged'[x] = IF x = u THEN n ELSE Pledged[x]) /\ Worth(saved.status, n) <= Worth(unit[u].status, old) + k
    BY <1>10, <1>11, <2>2, PledgedOK DEF PledgeTable
  <2>4. QED
    <3>1. Alters(unit', unit, u, saved) /\ Alters(Pledged', Pledged, u, n) /\ StaleAdds(saved.mint, k)
      BY <1>12, <2>1, <2>3 DEF Alters, StaleAdds
    <3>2. Worth(saved.status, n) <= Worth(unit[u].status, old) + k
      BY <2>3
    <3>3. QED
      BY <1>1, <1>5, <1>8, <3>1, <3>2, UnitSaved
<1>14. PICK added: added = [status |-> "ACTIVE", unit |-> u]
  OBVIOUS
<1>15. added \in EarmarkRow /\ added # Absent /\ added.unit = u
  BY <1>14 DEF EarmarkRow, Absent
<1>16. \A d \in 1..MaxEarmark: earmark'[d] = IF d = e THEN added ELSE earmark[d]
  BY <1>6, <1>14 DEF UnitIInv, UnitTypeOK
<1>17. UnitTypeOK'
  BY <1>5, <1>6, <1>9, <1>14, <1>15 DEF UnitIInv, UnitTypeOK
<1>18. saved # Absent
  BY <1>5 DEF Absent
<1>19. RowsRemain
  BY <1>1, <1>3, <1>5, <1>6, <1>12, <1>16, <1>18 DEF RowsRemain
<1>20. \A d \in 1..MaxEarmark: earmark'[d] # Absent => unit'[earmark'[d].unit] # Absent
  <2>1. \A d \in 1..MaxEarmark: earmark[d] # Absent => earmark[d].unit \in Units
    BY DEF UnitIInv, UnitTypeOK, EarmarkRow
  <2>2. QED
    BY <1>12, <1>15, <1>16, <1>18, <2>1 DEF UnitIInv
<1>21. \A x \in Units: unit'[x] # Absent => unit'[x].mint \in made'
  BY <1>1, <1>5, <1>6, <1>12 DEF UnitIInv
<1>22. QED
  BY <1>6, <1>13, <1>17, <1>19, <1>20, <1>21, FreeOK, OneRequest, UnitMoves

\* No earmark is on a row that is not there.
LEMMA NoPledge == ASSUME UnitIInv, NEW n \in Units, unit[n] = Absent PROVE Pledged[n] = 0
<1>1. Pledges(n) = {}
  BY DEF UnitIInv, Pledges
<1>2. Cardinality(Pledges(n)) = 0
  BY <1>1, FS_EmptySet
<1>3. QED
  BY <1>2 DEF Pledged

\* A unit is created: one claim more on its mint.
LEMMA ClaimsCreated ==
    ASSUME NEW table \in UnitTable, NEW pledge \in PledgeTable, NEW n \in Units, NEW created \in UnitRow,
           table[n] = Absent, created.status = "ACTIVE", pledge[n] = 0, NEW m, NEW other,
           \A x \in Units: other[x] = IF x = n THEN created ELSE table[x]
    PROVE  Claims(other, pledge, m) = Claims(table, pledge, m) + (IF created.mint = m THEN 1 ELSE 0)
<1>1. PICK k \in Nat: k = 0
  OBVIOUS
<1>2. Alters(other, table, n, created) /\ Alters(pledge, pledge, n, k)
  BY <1>1 DEF Alters
<1>3. Claims(other, pledge, m) = Claims(table, pledge, m) - Weights(table, pledge, m)[n]
                                   + (IF created.mint = m THEN Worth(created.status, k) ELSE 0)
  BY <1>2, ClaimsSaved
<1>4. Weights(table, pledge, m)[n] = 0
  BY DEF Weights
<1>5. Worth(created.status, k) = 1
  BY <1>1 DEF Worth
<1>6. Claims(table, pledge, m) \in Nat
  BY WeightsAreNat
<1>7. QED
  BY <1>3, <1>4, <1>5, <1>6

\* A unit is transferred: the row that is saved loses the claim the new one has.
LEMMA TransferKeeps == ASSUME UnitIInv, NEW q \in Request, NEW to \in User, TransferSaves(q, to) PROVE UnitIInv'
<1>1. PICK u \in Units, held \in UnitRow:
         /\ u = moving[q].unit /\ held = moving[q].row /\ held.status = "ACTIVE"
         /\ unit[u] # Absent /\ unit[u].mint = held.mint
  BY HoldsUnit DEF TransferSaves, At
<1>2. PICK n: n = NextRow(unit)
  OBVIOUS
<1>3. n \in Units /\ unit[n] = Absent /\ n # u
  <2>1. DOMAIN unit = 1..MaxUnit /\ MaxUnit \in Nat /\ HasRoom(unit)
    BY UnitConstants DEF UnitIInv, UnitTypeOK, TransferSaves, Units
  <2>2. QED
    BY <1>1, <1>2, <2>1, NextRowIsFree DEF Units
<1>4. PICK saved, created: saved = [held EXCEPT !.owner = to, !.status = "TRANSFERRED"] /\ created = NewUnit(held.mint, to)
  OBVIOUS
<1>5. /\ saved \in UnitRow /\ saved.status = "TRANSFERRED" /\ saved.mint = held.mint /\ saved # Absent
      /\ created \in UnitRow /\ created.status = "ACTIVE" /\ created.mint = held.mint /\ created # Absent
  BY <1>4 DEF UnitRow, Live, NewUnit, Absent
<1>6. /\ unit' = [unit EXCEPT ![u] = saved, ![n] = created] /\ moving' = [moving EXCEPT ![q] = Free]
      /\ UNCHANGED <<earmark, swap, made>>
  BY <1>1, <1>2, <1>4 DEF TransferSaves, Done, Serve
<1>7. CountStale(held.mint, Outdated(q))
  BY <1>1 DEF TransferSaves
<1>8. PICK old \in Nat: old = Pledged[u]
  BY PledgedOK DEF PledgeTable
<1>9. PICK k \in {0, 1}:
         /\ stale' \in [Mint -> Nat]
         /\ \A x \in Mint: stale'[x] = IF x = held.mint THEN stale[x] + k ELSE stale[x]
         /\ old + 1 <= Worth(unit[u].status, old) + k
  BY <1>1, <1>7, SavesHeld
<1>10. \A x \in Units: unit'[x] = IF x = n THEN created ELSE IF x = u THEN saved ELSE unit[x]
  BY <1>3, <1>6 DEF UnitIInv, UnitTypeOK
<1>11. ASSUME NEW m \in Mint PROVE Claims(unit, Pledged, m)' <= 1 + stale'[m]
  <2>1. PICK table \in UnitTable, pledge \in PledgeTable: table = unit /\ pledge = Pledged
    BY PledgedOK DEF UnitIInv, UnitTypeOK, UnitTable
  <2>2. PICK between: between = [table EXCEPT ![u] = saved]
    OBVIOUS
  <2>3. between \in UnitTable /\ Alters(between, table, u, saved)
    BY <1>5, <2>2 DEF UnitTable, Alters
  <2>4. pledge[u] = old /\ Alters(pledge, pledge, u, old)
    BY <1>8, <2>1 DEF Alters
  <2>5. Claims(between, pledge, m) = Claims(table, pledge, m) - Weights(table, pledge, m)[u]
                                       + (IF saved.mint = m THEN Worth(saved.status, old) ELSE 0)
    BY <1>5, <2>3, <2>4, ClaimsSaved
  <2>6. Weights(table, pledge, m)[u] = IF held.mint = m THEN Worth(unit[u].status, old) ELSE 0
    BY <1>1, <2>1, <2>4 DEF Weights
  <2>7. Worth(saved.status, old) = old /\ Worth(unit[u].status, old) \in Nat
    BY <1>5, WorthBounds DEF Worth
  <2>8. PICK other, less: other = unit' /\ less = Pledged'
    OBVIOUS
  <2>9. less = pledge
    BY <1>6, <2>1, <2>8 DEF Pledged, Pledges
  <2>10. \A x \in Units: other[x] = IF x = n THEN created ELSE between[x]
    BY <1>10, <2>1, <2>3, <2>8 DEF Alters
  <2>11. between[n] = Absent /\ pledge[n] = 0
    BY <1>3, <2>1, <2>3, NoPledge DEF Alters
  <2>12. Claims(other, pledge, m) = Claims(between, pledge, m) + (IF created.mint = m THEN 1 ELSE 0)
    BY <1>3, <1>5, <2>3, <2>10, <2>11, ClaimsCreated
  <2>13. Claims(table, pledge, m) \in Nat /\ stale[m] \in Nat /\ Claims(table, pledge, m) <= 1 + stale[m]
    BY <2>1, WeightsAreNat DEF UnitIInv, UnitTypeOK
  <2>14. Claims(other, pledge, m) <= 1 + stale'[m]
    <3>1. CASE held.mint = m
      <4>1. stale'[m] = stale[m] + k
        BY <1>9, <3>1
      <4>2. Claims(other, pledge, m) = Claims(table, pledge, m) - Worth(unit[u].status, old) + old + 1
        BY <1>5, <2>5, <2>6, <2>7, <2>12, <2>13, <3>1
      <4>3. old + 1 <= Worth(unit[u].status, old) + k
        BY <1>9
      <4>4. QED
        BY <2>7, <2>13, <4>1, <4>2, <4>3
    <3>2. CASE held.mint # m
      <4>1. stale'[m] = stale[m]
        BY <1>9, <3>2
      <4>2. Claims(other, pledge, m) = Claims(table, pledge, m)
        BY <1>5, <2>5, <2>6, <2>12, <2>13, <3>2
      <4>3. QED
        BY <2>13, <4>1, <4>2
    <3>3. QED
      BY <3>1, <3>2
  <2>15. QED
    BY <2>8, <2>9, <2>14
<1>12. UnitTypeOK'
  <2>1. unit' \in [Units -> {Absent} \cup UnitRow]
    <3>1. unit' = [x \in Units |-> unit'[x]]
      BY <1>6 DEF UnitIInv, UnitTypeOK
    <3>2. \A x \in Units: unit'[x] \in {Absent} \cup UnitRow
      BY <1>5, <1>10 DEF UnitIInv, UnitTypeOK
    <3>3. QED
      BY <3>1, <3>2
  <2>2. QED
    BY <1>6, <1>9, <2>1 DEF UnitIInv, UnitTypeOK
<1>13. RowsRemain
  BY <1>1, <1>3, <1>5, <1>6, <1>10 DEF RowsRemain
<1>14. \A d \in 1..MaxEarmark: earmark'[d] # Absent => unit'[earmark'[d].unit] # Absent
  <2>1. \A d \in 1..MaxEarmark: earmark[d] # Absent => earmark[d].unit \in Units
    BY DEF UnitIInv, UnitTypeOK, EarmarkRow
  <2>2. QED
    BY <1>5, <1>6, <1>10, <2>1 DEF UnitIInv
<1>15. \A x \in Units: unit'[x] # Absent => unit'[x].mint \in made'
  <2>1. made' = made /\ held.mint \in made
    BY <1>1, <1>6 DEF UnitIInv
  <2>2. saved.mint \in made /\ created.mint \in made
    BY <1>5, <2>1
  <2>3. \A x \in Units: unit[x] # Absent => unit[x].mint \in made
    BY DEF UnitIInv
  <2>4. ASSUME NEW x \in Units, unit'[x] # Absent PROVE unit'[x].mint \in made
    <3>1. CASE x = n
      BY <1>10, <2>2, <3>1
    <3>2. CASE x # n /\ x = u
      BY <1>10, <2>2, <3>2
    <3>3. CASE x # n /\ x # u
      BY <1>10, <2>3, <2>4, <3>3
    <3>4. QED
      BY <3>1, <3>2, <3>3
  <2>5. QED
    BY <2>1, <2>4
<1>16. QED
  BY <1>6, <1>11, <1>12, <1>13, <1>14, <1>15, FreeOK, OneRequest, UnitMoves

\* A mint has no unit before it happens.
LEMMA MintedKeeps == ASSUME UnitIInv, NEW m \in Mint, NEW user \in User, Minted(m, user) PROVE UnitIInv'
<1>1. PICK n: n = NextRow(unit)
  OBVIOUS
<1>2. n \in Units /\ unit[n] = Absent
  <2>1. DOMAIN unit = 1..MaxUnit /\ MaxUnit \in Nat /\ HasRoom(unit)
    BY UnitConstants DEF UnitIInv, UnitTypeOK, Minted, Units
  <2>2. QED
    BY <1>1, <2>1, NextRowIsFree DEF Units
<1>3. PICK created: created = NewUnit(m, user)
  OBVIOUS
<1>4. created \in UnitRow /\ created.status = "ACTIVE" /\ created.mint = m /\ created # Absent
  BY <1>3 DEF UnitRow, Live, NewUnit, Absent
<1>5. /\ unit' = [unit EXCEPT ![n] = created] /\ made' = made \cup {m} /\ m \notin made
      /\ UNCHANGED <<earmark, swap, moving, stale>>
  BY <1>1, <1>3 DEF Minted
<1>6. \A x \in Units: unit'[x] = IF x = n THEN created ELSE unit[x]
  BY <1>5 DEF UnitIInv, UnitTypeOK
<1>7. ASSUME NEW k \in Mint PROVE Claims(unit, Pledged, k)' <= 1 + stale'[k]
  <2>1. PICK table \in UnitTable, pledge \in PledgeTable: table = unit /\ pledge = Pledged
    BY PledgedOK DEF UnitIInv, UnitTypeOK, UnitTable
  <2>2. PICK other, less: other = unit' /\ less = Pledged'
    OBVIOUS
  <2>3. less = pledge
    BY <1>5, <2>1, <2>2 DEF Pledged, Pledges
  <2>4. table[n] = Absent /\ pledge[n] = 0 /\ \A x \in Units: other[x] = IF x = n THEN created ELSE table[x]
    BY <1>2, <1>6, <2>1, <2>2, NoPledge
  <2>5. Claims(other, pledge, k) = Claims(table, pledge, k) + (IF created.mint = k THEN 1 ELSE 0)
    BY <1>2, <1>4, <2>4, ClaimsCreated
  <2>6. Claims(table, pledge, k) \in Nat /\ stale[k] \in Nat /\ Claims(table, pledge, k) <= 1 + stale[k]
    BY <2>1, WeightsAreNat DEF UnitIInv, UnitTypeOK
  <2>7. k = m => Claims(table, pledge, k) = 0
    <3>1. SUFFICES ASSUME k = m PROVE Claims(table, pledge, k) = 0
      OBVIOUS
    <3>2. PICK f: f = Weights(table, pledge, k)
      OBVIOUS
    <3>3. \A x \in Units: f[x] = 0
      BY <1>5, <2>1, <3>1, <3>2 DEF Weights, UnitIInv
    <3>4. QED
      BY <3>2, <3>3, UnitsFinite, SumOfZeros DEF Claims
  <2>8. Claims(other, pledge, k) <= 1 + stale[k]
    <3>1. CASE k = m
      BY <1>4, <2>5, <2>6, <2>7, <3>1
    <3>2. CASE k # m
      BY <1>4, <2>5, <2>6, <3>2
    <3>3. QED
      BY <3>1, <3>2
  <2>9. QED
    BY <1>5, <2>2, <2>3, <2>8
<1>8. UnitTypeOK'
  BY <1>4, <1>5 DEF UnitIInv, UnitTypeOK
<1>9. RowsRemain
  BY <1>2, <1>5, <1>6 DEF RowsRemain
<1>10. \A d \in 1..MaxEarmark: earmark'[d] # Absent => unit'[earmark'[d].unit] # Absent
  <2>1. \A d \in 1..MaxEarmark: earmark[d] # Absent => earmark[d].unit \in Units
    BY DEF UnitIInv, UnitTypeOK, EarmarkRow
  <2>2. QED
    BY <1>4, <1>5, <1>6, <2>1 DEF UnitIInv
<1>11. \A x \in Units: unit'[x] # Absent => unit'[x].mint \in made'
  BY <1>4, <1>5, <1>6 DEF UnitIInv
<1>12. DOMAIN moving' = Request /\ \A p \in Request: moving'[p] = moving[p]
  BY <1>5 DEF UnitIInv
<1>13. QED
  BY <1>7, <1>8, <1>9, <1>10, <1>11, <1>12, UnitMoves

\* What a request holds that releases an earmark.
LEMMA HoldsEarmark ==
    ASSUME UnitIInv, NEW q \in Request, At(q, "release")
    PROVE  \E e \in 1..MaxEarmark, u \in Units:
              /\ e = moving[q].earmark /\ earmark[e] # Absent /\ earmark[e] \in EarmarkRow
              /\ u = earmark[e].unit /\ unit[u] # Absent /\ unit[u] \in UnitRow
<1>1. PICK e: e = moving[q].earmark
  OBVIOUS
<1>2. e \in 1..MaxEarmark /\ earmark[e] # Absent
  BY <1>1 DEF UnitIInv, At, StepOK, Free, UnitStep, ReleaseStep, SwapStep
<1>3. earmark[e] \in EarmarkRow
  BY <1>2 DEF UnitIInv, UnitTypeOK
<1>4. earmark[e].unit \in Units /\ unit[earmark[e].unit] # Absent
  BY <1>2, <1>3 DEF UnitIInv, EarmarkRow
<1>5. unit[earmark[e].unit] \in UnitRow
  BY <1>4 DEF UnitIInv, UnitTypeOK
<1>6. QED
  BY <1>1, <1>2, <1>3, <1>4, <1>5

\* The earmark's row is released, and nothing else of it changes.
LEMMA ReleasedRow ==
    ASSUME UnitTypeOK, NEW e \in 1..MaxEarmark, earmark[e] \in EarmarkRow,
           earmark' = [earmark EXCEPT ![e].status = "RELEASED"]
    PROVE  /\ earmark' \in [1..MaxEarmark -> {Absent} \cup EarmarkRow]
           /\ \A d \in 1..MaxEarmark:
                 /\ earmark[d] # Absent => earmark'[d] # Absent /\ earmark'[d].unit = earmark[d].unit
                 /\ earmark'[d] # Absent => earmark[d] # Absent
<1>1. PICK released: released = [earmark[e] EXCEPT !.status = "RELEASED"]
  OBVIOUS
<1>2. released \in EarmarkRow /\ released # Absent /\ released.unit = earmark[e].unit /\ earmark[e] # Absent
  BY <1>1 DEF EarmarkRow, Absent
<1>3. earmark' = [earmark EXCEPT ![e] = released]
  BY <1>1
<1>4. QED
  BY <1>2, <1>3 DEF UnitTypeOK

\* A unit is released: the claim its earmark was is the unit's again, and a second
\* release of the earmark is a stale one.
LEMMA ReleaseKeeps == ASSUME UnitIInv, NEW q \in Request, ReleaseSaves(q) PROVE UnitIInv'
<1>1. PICK e \in 1..MaxEarmark, u \in Units:
         /\ e = moving[q].earmark /\ earmark[e] # Absent /\ earmark[e] \in EarmarkRow
         /\ u = earmark[e].unit /\ unit[u] # Absent /\ unit[u] \in UnitRow
  BY HoldsEarmark DEF ReleaseSaves
<1>2. PICK saved: saved = [unit[u] EXCEPT !.status = "ACTIVE"]
  OBVIOUS
<1>3. saved \in UnitRow /\ saved.status = "ACTIVE" /\ saved.mint = unit[u].mint /\ saved # Absent
  BY <1>1, <1>2 DEF UnitRow, Live, Absent
<1>4. /\ earmark' = [earmark EXCEPT ![e].status = "RELEASED"]
      /\ unit' = [unit EXCEPT ![u] = saved] /\ moving' = [moving EXCEPT ![q] = Free]
      /\ UNCHANGED <<swap, made>>
      /\ CountStale(unit[u].mint, earmark[e].status = "RELEASED")
  BY <1>1, <1>2 DEF ReleaseSaves, Done, Serve
<1>5. saved.mint \in Mint
  BY <1>3 DEF UnitRow
<1>6. \A x \in Units: unit'[x] = IF x = u THEN saved ELSE unit[x]
  BY <1>4 DEF UnitIInv, UnitTypeOK
<1>7. PICK old \in Nat: old = Pledged[u]
  BY PledgedOK DEF PledgeTable
<1>8. PICK k \in {0, 1}:
         /\ stale' \in [Mint -> Nat]
         /\ \A x \in Mint: stale'[x] = IF x = saved.mint THEN stale[x] + k ELSE stale[x]
         /\ earmark[e].status = "RELEASED" => k = 1
  <2>1. PICK flag \in BOOLEAN: flag <=> earmark[e].status = "RELEASED"
    OBVIOUS
  <2>2. CountStale(saved.mint, flag)
    BY <1>3, <1>4, <2>1 DEF CountStale
  <2>3. UnitTypeOK
    BY DEF UnitIInv
  <2>4. QED
    BY <1>5, <2>1, <2>2, <2>3, StaleCounted
<1>9. Pledged \in PledgeTable
  BY PledgedOK
<1>10. PICK n \in Nat:
          /\ \A x \in Units: Pledged'[x] = IF x = u THEN n ELSE Pledged[x]
          /\ Worth(saved.status, n) <= Worth(unit[u].status, old) + k
  <2>1. UnitTypeOK
    BY DEF UnitIInv
  <2>2. old <= Worth(unit[u].status, old) /\ Worth(unit[u].status, old) \in Nat
    BY WorthBounds DEF Worth
  <2>3. CASE earmark[e].status = "ACTIVE"
    <3>1. old >= 1 /\ Pledged' = [Pledged EXCEPT ![u] = old - 1]
      BY <1>1, <1>4, <1>7, <2>1, <2>3, PledgeReleased
    <3>2. PICK n \in Nat: n = old - 1
      BY <3>1
    <3>3. \A x \in Units: Pledged'[x] = IF x = u THEN n ELSE Pledged[x]
      BY <1>9, <3>1, <3>2 DEF PledgeTable
    <3>4. Worth(saved.status, n) = old
      BY <1>3, <3>2, WorthBounds
    <3>5. Worth(saved.status, n) <= Worth(unit[u].status, old) + k
      BY <2>2, <3>4
    <3>6. QED
      BY <3>3, <3>5
  <2>4. CASE earmark[e].status # "ACTIVE"
    <3>1. Pledged' = Pledged
      BY <1>1, <1>4, <2>1, <2>4, PledgeReleased
    <3>2. \A x \in Units: Pledged'[x] = IF x = u THEN old ELSE Pledged[x]
      BY <1>7, <3>1
    <3>3. k = 1
      BY <1>1, <1>8, <2>4 DEF EarmarkRow
    <3>4. Worth(saved.status, old) = old + 1
      BY <1>3, WorthBounds
    <3>5. Worth(saved.status, old) <= Worth(unit[u].status, old) + k
      BY <2>2, <3>3, <3>4
    <3>6. QED
      BY <3>2, <3>5
  <2>5. QED
    BY <2>3, <2>4
<1>11. \A m \in Mint: Claims(unit, Pledged, m)' <= 1 + stale'[m]
  <2>1. Alters(unit', unit, u, saved) /\ StaleAdds(saved.mint, k)
    BY <1>6, <1>8 DEF Alters, StaleAdds
  <2>2. n \in Nat /\ Alters(Pledged', Pledged, u, n) /\ Worth(saved.status, n) <= Worth(unit[u].status, old) + k
    BY <1>10 DEF Alters
  <2>3. QED
    BY <1>1, <1>3, <1>7, <2>1, <2>2, UnitSaved
<1>12. /\ earmark' \in [1..MaxEarmark -> {Absent} \cup EarmarkRow]
       /\ \A d \in 1..MaxEarmark:
             /\ earmark[d] # Absent => earmark'[d] # Absent /\ earmark'[d].unit = earmark[d].unit
             /\ earmark'[d] # Absent => earmark[d] # Absent
  BY <1>1, <1>4, ReleasedRow DEF UnitIInv
<1>13. UnitTypeOK'
  BY <1>3, <1>4, <1>8, <1>12 DEF UnitIInv, UnitTypeOK
<1>14. RowsRemain
  <2>1. \A x \in Units: unit[x] # Absent => unit'[x] # Absent /\ unit'[x].mint = unit[x].mint
    BY <1>1, <1>3, <1>6
  <2>2. \A s \in 1..MaxSwap: swap[s] # Absent => swap'[s] # Absent
    BY <1>4
  <2>3. QED
    BY <1>12, <2>1, <2>2 DEF RowsRemain
<1>15. \A d \in 1..MaxEarmark: earmark'[d] # Absent => unit'[earmark'[d].unit] # Absent
  <2>1. \A d \in 1..MaxEarmark: earmark[d] # Absent => earmark[d].unit \in Units
    BY DEF UnitIInv, UnitTypeOK, EarmarkRow
  <2>2. QED
    BY <1>3, <1>6, <1>12, <2>1 DEF UnitIInv
<1>16. \A x \in Units: unit'[x] # Absent => unit'[x].mint \in made'
  <2>1. \A x \in Units: unit[x] # Absent => unit[x].mint \in made
    BY DEF UnitIInv
  <2>2. made' = made /\ unit[u] # Absent /\ saved.mint = unit[u].mint
    BY <1>1, <1>3, <1>4
  <2>3. QED
    BY <1>6, <2>1, <2>2
<1>17. QED
  BY <1>4, <1>11, <1>13, <1>14, <1>15, <1>16, FreeOK, OneRequest, UnitMoves

\* The earmark is released and its unit left as it is: a claim that was the earmark's
\* alone is gone.
LEMMA AdminReleaseKeeps == ASSUME UnitIInv, NEW q \in Request, AdminReleaseDies(q) PROVE UnitIInv'
<1>1. PICK e \in 1..MaxEarmark, u \in Units:
         /\ e = moving[q].earmark /\ earmark[e] # Absent /\ earmark[e] \in EarmarkRow
         /\ u = earmark[e].unit /\ unit[u] # Absent /\ unit[u] \in UnitRow
  BY HoldsEarmark DEF AdminReleaseDies
<1>2. /\ earmark' = [earmark EXCEPT ![e].status = "RELEASED"] /\ moving' = [moving EXCEPT ![q] = Free]
      /\ UNCHANGED <<unit, swap, made, stale>>
  BY <1>1 DEF AdminReleaseDies, Done, Serve
<1>3. /\ earmark' \in [1..MaxEarmark -> {Absent} \cup EarmarkRow]
      /\ \A d \in 1..MaxEarmark:
            /\ earmark[d] # Absent => earmark'[d] # Absent /\ earmark'[d].unit = earmark[d].unit
            /\ earmark'[d] # Absent => earmark[d] # Absent
  BY <1>1, <1>2, ReleasedRow DEF UnitIInv
<1>4. UnitTypeOK' /\ RowsRemain
  BY <1>2, <1>3 DEF UnitIInv, UnitTypeOK, RowsRemain
<1>5. Pledged \in PledgeTable
  BY PledgedOK
<1>6. ASSUME NEW x \in Units PROVE Worth(unit[x].status, Pledged'[x]) <= Worth(unit[x].status, Pledged[x])
  <2>1. PICK old \in Nat: old = Pledged[x]
    BY <1>5 DEF PledgeTable
  <2>2. UnitTypeOK
    BY DEF UnitIInv
  <2>3. Worth(unit[x].status, old) \in Nat
    BY DEF Worth
  <2>4. CASE Pledged'[x] = old
    BY <2>1, <2>3, <2>4
  <2>5. CASE Pledged'[x] # old
    <3>1. /\ earmark[e].status = "ACTIVE" => Pledged[u] >= 1 /\ Pledged' = [Pledged EXCEPT ![u] = Pledged[u] - 1]
          /\ earmark[e].status # "ACTIVE" => Pledged' = Pledged
      <4>1. earmark' = [earmark EXCEPT ![e].status = "RELEASED"]
        BY <1>2
      <4>2. QED
        BY <1>1, <2>2, <4>1, PledgeReleased
    <3>2. earmark[e].status = "ACTIVE"
      BY <2>1, <2>5, <3>1
    <3>3. x = u
      BY <1>5, <2>1, <2>5, <3>1, <3>2 DEF PledgeTable
    <3>4. old >= 1 /\ Pledged'[x] = old - 1
      BY <1>5, <2>1, <3>1, <3>2, <3>3 DEF PledgeTable
    <3>5. PICK n \in Nat: n = old - 1
      BY <3>4
    <3>6. Worth(unit[x].status, n) <= Worth(unit[x].status, n + 1) /\ old = n + 1
      BY <3>5, WorthBounds
    <3>7. QED
      BY <2>1, <3>4, <3>5, <3>6
  <2>6. QED
    BY <2>4, <2>5
<1>7. \A m \in Mint: Claims(unit, Pledged, m)' <= 1 + stale'[m]
  BY <1>2, <1>4, <1>6, ClaimsLighter
<1>8. \A d \in 1..MaxEarmark: earmark'[d] # Absent => unit'[earmark'[d].unit] # Absent
  BY <1>2, <1>3 DEF UnitIInv
<1>9. \A x \in Units: unit'[x] # Absent => unit'[x].mint \in made'
  BY <1>2 DEF UnitIInv
<1>10. QED
  BY <1>2, <1>4, <1>7, <1>8, <1>9, FreeOK, OneRequest, UnitMoves

\* Units are marked with a status that is not a live one: no unit is worth more.
LEMMA UnitsMarked ==
    ASSUME UnitIInv, NEW status \in {"SWAPPED", "BURNED"}, NEW marked \in SUBSET Units,
           \A u \in marked: unit[u] # Absent,
           unit' = [u \in Units |-> IF u \in marked THEN [unit[u] EXCEPT !.status = status] ELSE unit[u]],
           swap' \in [1..MaxSwap -> {Absent} \cup SwapRow],
           \A s \in 1..MaxSwap: swap[s] # Absent => swap'[s] # Absent,
           DOMAIN moving' = Request, \A p \in Request: moving'[p] = moving[p] \/ StepOK(moving[p])',
           UNCHANGED <<earmark, made, stale>>
    PROVE  UnitIInv'
<1>1. ASSUME NEW u \in Units, unit[u] # Absent
      PROVE  /\ unit'[u] \in UnitRow /\ unit'[u] # Absent /\ unit'[u].mint = unit[u].mint
             /\ unit'[u].status = unit[u].status \/ unit'[u].status = status
  <2>1. unit[u] \in UnitRow
    BY <1>1 DEF UnitIInv, UnitTypeOK
  <2>2. CASE u \in marked
    <3>1. unit'[u] = [unit[u] EXCEPT !.status = status]
      BY <2>2
    <3>2. QED
      BY <2>1, <3>1 DEF UnitRow, Absent
  <2>3. CASE u \notin marked
    BY <1>1, <2>1, <2>3
  <2>4. QED
    BY <2>2, <2>3
<1>2. \A u \in Units: unit[u] = Absent => unit'[u] = Absent
  OBVIOUS
<1>3. UnitTypeOK' /\ RowsRemain
  <2>1. unit' \in [Units -> {Absent} \cup UnitRow]
    BY <1>1, <1>2
  <2>2. UnitTypeOK'
    BY <2>1 DEF UnitIInv, UnitTypeOK
  <2>3. QED
    BY <1>1, <2>2 DEF RowsRemain
<1>4. Pledged \in PledgeTable /\ Pledged' = Pledged
  BY PledgedOK DEF Pledged, Pledges
<1>5. ASSUME NEW u \in Units, unit[u] # Absent
      PROVE  Worth(unit'[u].status, Pledged'[u]) <= Worth(unit[u].status, Pledged[u])
  <2>1. PICK n \in Nat: n = Pledged[u]
    BY <1>4 DEF PledgeTable
  <2>2. n <= Worth(unit[u].status, n) /\ Worth(unit[u].status, n) \in Nat
    BY WorthBounds DEF Worth
  <2>3. CASE unit'[u].status = unit[u].status
    BY <1>4, <2>1, <2>2, <2>3
  <2>4. CASE unit'[u].status = status
    <3>1. Worth(unit'[u].status, n) = n
      BY <2>4, WorthBounds
    <3>2. QED
      BY <1>4, <2>1, <2>2, <3>1
  <2>5. QED
    BY <1>1, <1>5, <2>3, <2>4
<1>6. \A m \in Mint: Claims(unit, Pledged, m)' <= 1 + stale'[m]
  BY <1>1, <1>2, <1>3, <1>5, ClaimsLighter
<1>7. \A d \in 1..MaxEarmark: earmark'[d] # Absent => unit'[earmark'[d].unit] # Absent
  <2>1. \A d \in 1..MaxEarmark: earmark[d] # Absent => earmark[d].unit \in Units
    BY DEF UnitIInv, UnitTypeOK, EarmarkRow
  <2>2. QED
    BY <1>1, <2>1 DEF UnitIInv
<1>8. \A u \in Units: unit'[u] # Absent => unit'[u].mint \in made'
  BY <1>1, <1>2 DEF UnitIInv
<1>9. QED
  BY <1>3, <1>6, <1>7, <1>8, UnitMoves

\* A row of a swap is replaced by another.
LEMMA SwapRowSaved ==
    ASSUME UnitTypeOK, NEW s \in 1..MaxSwap, NEW saved \in SwapRow, swap' = [swap EXCEPT ![s] = saved]
    PROVE  /\ swap' \in [1..MaxSwap -> {Absent} \cup SwapRow]
           /\ \A x \in 1..MaxSwap: swap[x] # Absent => swap'[x] # Absent
<1>1. saved # Absent
  BY DEF SwapRow, Absent
<1>2. QED
  BY <1>1 DEF UnitTypeOK

\* What a request holds that confirms a swap.
LEMMA HoldsSwap ==
    ASSUME UnitIInv, NEW q \in Request, At(q, "swap")
    PROVE  \E s \in 1..MaxSwap: s = moving[q].swap /\ swap[s] \in SwapRow
<1>1. PICK s: s = moving[q].swap
  OBVIOUS
<1>2. s \in 1..MaxSwap /\ swap[s] # Absent
  BY <1>1 DEF UnitIInv, At, StepOK, Free, UnitStep, ReleaseStep, SwapStep
<1>3. swap[s] \in SwapRow
  BY <1>2 DEF UnitIInv, UnitTypeOK
<1>4. QED
  BY <1>1, <1>2, <1>3

\* A swap is recorded: no unit changes.
LEMMA InitiateKeeps ==
    ASSUME UnitIInv, NEW user \in User, NEW chosen \in SUBSET Units, InitiateSwap(user, chosen)
    PROVE  UnitIInv'
<1>1. PICK s: s = NextRow(swap)
  OBVIOUS
<1>2. s \in 1..MaxSwap
  <2>1. DOMAIN swap = 1..MaxSwap /\ MaxSwap \in Nat /\ HasRoom(swap)
    BY UnitConstants DEF UnitIInv, UnitTypeOK, InitiateSwap
  <2>2. QED
    BY <1>1, <2>1, NextRowIsFree
<1>3. PICK count: count = SumFunctionOnSet([u \in chosen |-> TotalUnits[unit[u].mint]], chosen)
  OBVIOUS
<1>4. count \in Nat
  <2>1. PICK f: f = [u \in chosen |-> TotalUnits[unit[u].mint]]
    OBVIOUS
  <2>2. ASSUME NEW u \in chosen PROVE f[u] \in Nat
    <3>1. u \in Units /\ unit[u] # Absent
      BY DEF InitiateSwap, Owned
    <3>2. unit[u].mint \in Mint
      BY <3>1 DEF UnitIInv, UnitTypeOK, UnitRow
    <3>3. QED
      BY <2>1, <3>2, UnitConstants
  <2>3. IsFiniteSet(chosen)
    BY UnitsFinite, FS_Subset
  <2>4. QED
    BY <1>3, <2>1, <2>2, <2>3, SumIsNat
<1>5. PICK saved: saved = [status |-> "INITIATED", user |-> user, count |-> count]
  OBVIOUS
<1>6. saved \in SwapRow /\ swap' = [swap EXCEPT ![s] = saved] /\ UNCHANGED <<unit, earmark, moving, made, stale>>
  BY <1>1, <1>3, <1>4, <1>5 DEF InitiateSwap, SwapRow
<1>7. /\ swap' \in [1..MaxSwap -> {Absent} \cup SwapRow]
      /\ \A x \in 1..MaxSwap: swap[x] # Absent => swap'[x] # Absent
  BY <1>2, <1>6, SwapRowSaved DEF UnitIInv
<1>8. UnitTypeOK' /\ RowsRemain
  BY <1>6, <1>7 DEF UnitIInv, UnitTypeOK, RowsRemain
<1>9. Pledged' = Pledged
  BY <1>6 DEF Pledged, Pledges
<1>10. \A m \in Mint: Claims(unit, Pledged, m)' <= 1 + stale'[m]
  BY <1>6, <1>9 DEF UnitIInv
<1>11. QED
  BY <1>6, <1>8, <1>10, UnitMoves DEF UnitIInv

\* The units that are swapped are not live ones any more.
LEMMA ConfirmKeeps == ASSUME UnitIInv, NEW q \in Request, ConfirmSaves(q) PROVE UnitIInv'
<1>1. PICK s \in 1..MaxSwap: s = moving[q].swap /\ swap[s] \in SwapRow
  BY HoldsSwap DEF ConfirmSaves, ConfirmMarks
<1>2. PICK marked: marked = FirstOf(swap[s].count, Owned(swap[s].user))
  OBVIOUS
<1>3. marked \in SUBSET Units /\ \A u \in marked: unit[u] # Absent
  BY <1>2 DEF FirstOf, Owned
<1>4. PICK saved: saved = [swap[s] EXCEPT !.status = "COMPLETED"]
  OBVIOUS
<1>5. saved \in SwapRow
  BY <1>1, <1>4 DEF SwapRow
<1>6. /\ swap' = [swap EXCEPT ![s] = saved] /\ moving' = [moving EXCEPT ![q] = Free]
      /\ unit' = [u \in Units |-> IF u \in marked THEN [unit[u] EXCEPT !.status = "SWAPPED"] ELSE unit[u]]
      /\ UNCHANGED <<earmark, made, stale>>
  BY <1>1, <1>2, <1>4 DEF ConfirmSaves, ConfirmMarks, Done, Serve
<1>7. /\ swap' \in [1..MaxSwap -> {Absent} \cup SwapRow]
      /\ \A x \in 1..MaxSwap: swap[x] # Absent => swap'[x] # Absent
  BY <1>5, <1>6, SwapRowSaved DEF UnitIInv
<1>8. DOMAIN moving' = Request /\ \A p \in Request: moving'[p] = moving[p] \/ StepOK(moving[p])'
  BY <1>6, FreeOK, OneRequest
<1>9. QED
  BY <1>3, <1>6, <1>7, <1>8, UnitsMarked

\* A swap that fails leaves the units.
LEMMA CancelKeeps == ASSUME UnitIInv, NEW q \in Request, ConfirmRaises(q) PROVE UnitIInv'
<1>1. PICK s \in 1..MaxSwap: s = moving[q].swap /\ swap[s] \in SwapRow
  BY HoldsSwap DEF ConfirmRaises
<1>2. PICK saved: saved = [swap[s] EXCEPT !.status = "CANCELLED"]
  OBVIOUS
<1>3. saved \in SwapRow
  BY <1>1, <1>2 DEF SwapRow
<1>4. /\ swap' = [swap EXCEPT ![s] = saved] /\ moving' = [moving EXCEPT ![q] = Free]
      /\ UNCHANGED <<unit, earmark, made, stale>>
  BY <1>1, <1>2 DEF ConfirmRaises, Done, Serve
<1>5. /\ swap' \in [1..MaxSwap -> {Absent} \cup SwapRow]
      /\ \A x \in 1..MaxSwap: swap[x] # Absent => swap'[x] # Absent
  BY <1>3, <1>4, SwapRowSaved DEF UnitIInv
<1>6. UnitTypeOK' /\ RowsRemain
  BY <1>4, <1>5 DEF UnitIInv, UnitTypeOK, RowsRemain
<1>7. DOMAIN moving' = Request /\ \A p \in Request: moving'[p] = moving[p] \/ StepOK(moving[p])'
  BY <1>4, FreeOK, OneRequest
<1>8. Pledged' = Pledged
  BY <1>4 DEF Pledged, Pledges
<1>9. \A m \in Mint: Claims(unit, Pledged, m)' <= 1 + stale'[m]
  BY <1>4, <1>8 DEF UnitIInv
<1>10. QED
  BY <1>4, <1>6, <1>7, <1>9, UnitMoves DEF UnitIInv

\* A burned unit is not a live one, though an earmark may still bring it back.
LEMMA BurnKeeps == ASSUME UnitIInv, NEW u \in Units, RecallBurns(u) PROVE UnitIInv'
<1>1. unit[u] # Absent /\ unit' = [unit EXCEPT ![u].status = "BURNED"] /\ UNCHANGED <<earmark, swap, moving, made, stale>>
  BY DEF RecallBurns
<1>2. unit' = [x \in Units |-> IF x \in {u} THEN [unit[x] EXCEPT !.status = "BURNED"] ELSE unit[x]]
  BY <1>1 DEF UnitIInv, UnitTypeOK
<1>3. /\ swap' \in [1..MaxSwap -> {Absent} \cup SwapRow]
      /\ \A x \in 1..MaxSwap: swap[x] # Absent => swap'[x] # Absent
      /\ DOMAIN moving' = Request /\ \A p \in Request: moving'[p] = moving[p]
  BY <1>1 DEF UnitIInv, UnitTypeOK
<1>4. QED
  <2>1. {u} \in SUBSET Units /\ \A x \in {u}: unit[x] # Absent
    BY <1>1
  <2>2. \A p \in Request: moving'[p] = moving[p] \/ StepOK(moving[p])'
    BY <1>3
  <2>3. UNCHANGED <<earmark, made, stale>> /\ DOMAIN moving' = Request
    BY <1>1, <1>3
  <2>4. QED
    BY <1>2, <1>3, <2>1, <2>2, <2>3, UnitsMarked

\* There is no unit at first, and no claim.
LEMMA UnitInitially == UnitInit => UnitIInv
<1> SUFFICES ASSUME UnitInit PROVE UnitIInv
  OBVIOUS
<1>1. UnitTypeOK
  BY DEF UnitInit, UnitTypeOK
<1>2. DOMAIN moving = Request /\ \A q \in Request: StepOK(moving[q])
  BY DEF UnitInit, StepOK
<1>3. \A m \in Mint: Claims(unit, Pledged, m) <= 1 + stale[m]
  <2> SUFFICES ASSUME NEW m \in Mint PROVE Claims(unit, Pledged, m) <= 1 + stale[m]
    OBVIOUS
  <2>1. PICK f: f = Weights(unit, Pledged, m)
    OBVIOUS
  <2>2. \A u \in Units: f[u] = 0
    BY <2>1 DEF UnitInit, Weights
  <2>3. Claims(unit, Pledged, m) = 0
    BY <2>1, <2>2, UnitsFinite, SumOfZeros DEF Claims
  <2>4. stale[m] = 0
    BY DEF UnitInit
  <2>5. QED
    BY <2>3, <2>4
<1>4. QED
  BY <1>1, <1>2, <1>3 DEF UnitInit, UnitIInv

\* Every step keeps the claims.
LEMMA UnitNextKeeps == ASSUME UnitIInv, [UnitNext]_unitVars PROVE UnitIInv'
<1>1. CASE UNCHANGED unitVars
  <2>1. Pledged' = Pledged
    BY <1>1 DEF unitVars, Pledged, Pledges
  <2>2. UnitTypeOK' /\ RowsRemain
    BY <1>1 DEF unitVars, UnitIInv, UnitTypeOK, RowsRemain
  <2>3. \A m \in Mint: Claims(unit, Pledged, m)' <= 1 + stale'[m]
    BY <1>1, <2>1 DEF unitVars, UnitIInv
  <2>4. QED
    BY <1>1, <2>2, <2>3, UnitMoves DEF unitVars, UnitIInv
<1>2. ASSUME NEW q \in Request, MoveStep(q) PROVE UnitIInv'
  <2>1. CASE \/ \E u \in Units, user \in User: TransferLoads(q, u, user) \/ EarmarkLoads(q, u, user)
             \/ \E e \in 1..MaxEarmark: ReleaseLoads(q, e)
             \/ \E s \in 1..MaxSwap: ConfirmLoads(q, s)
    BY <2>1, UnitLoadsKeep
  <2>2. CASE \E to \in User: TransferSaves(q, to)
    BY <2>2, TransferKeeps
  <2>3. CASE EarmarkSaves(q) \/ ReleaseSaves(q) \/ AdminReleaseDies(q)
    BY <2>3, EarmarkKeeps, ReleaseKeeps, AdminReleaseKeeps
  <2>4. CASE ConfirmSaves(q) \/ ConfirmRaises(q)
    BY <2>4, ConfirmKeeps, CancelKeeps
  <2>5. CASE MoveDies(q)
    <3>1. StepOK(Free)
      BY DEF StepOK
    <3>2. QED
      BY <2>5, <3>1, UnitHoldKeeps DEF MoveDies, Done, Serve
  <2>6. QED
    BY <1>2, <2>1, <2>2, <2>3, <2>4, <2>5 DEF MoveStep
<1>3. CASE \E m \in Mint, user \in User: Minted(m, user)
  BY <1>3, MintedKeeps
<1>4. CASE \E user \in User, chosen \in SUBSET Units: InitiateSwap(user, chosen)
  BY <1>4, InitiateKeeps
<1>5. CASE \E u \in Units: RecallBurns(u)
  BY <1>5, BurnKeeps
<1>6. QED
  BY <1>1, <1>2, <1>3, <1>4, <1>5 DEF UnitNext

-----------------------------------------------------------------------------
\* The claims on a mint, live units and earmarks that can still be released, are one
\* and the stale saves (irg_gdp/views.py: transfer, earmark, release, swap; recall).
THEOREM UnitInductive == UnitSpec => []UnitIInv
<1>1. UnitIInv /\ [UnitNext]_unitVars => UnitIInv'
  BY UnitNextKeeps
<1>2. QED
  BY UnitInitially, <1>1, PTL DEF UnitSpec

\* Unit, earmark and swap rows have the statuses of their models.
THEOREM UnitTypeCorrect == UnitSpec => []UnitTypeOK
<1>1. UnitIInv => UnitTypeOK
  BY DEF UnitIInv
<1>2. QED
  BY UnitInductive, <1>1, PTL

\* Gold is not doubled by moving it: a mint has one live unit, and one more at most
\* for each save from a row that had changed since it was read.
THEOREM UnitsNotDoubled == UnitSpec => []OneLiveUnitPerMint
  BY UnitInductive, UnitsClaimed, PTL

-----------------------------------------------------------------------------
(* The order book.  An order leaves its matching without a partner only when   *)
(* nothing in the book crosses it then; what is inserted later finds it.       *)

(* The order a request matches is in the book. *)
Inserted(q) == placing[q] # Free => order[placing[q].order] # Absent

BookIInv == BookTypeOK /\ BookIsUncrossed /\ \A q \in Request: Inserted(q)

\* Crossing goes both ways.
LEMMA CrossesBack ==
    ASSUME BookTypeOK, NEW x \in Orders, NEW y \in Orders, order[x] # Absent, order[y] # Absent, Crosses(x, y)
    PROVE  Crosses(y, x)
<1>1. order[x] \in OrderRow /\ order[y] \in OrderRow
  BY DEF BookTypeOK
<1>2. order[x].price \in Nat /\ order[y].price \in Nat
      /\ order[x].side \in {"BUY", "SELL"} /\ order[y].side \in {"BUY", "SELL"}
  BY <1>1, BookConstants DEF OrderRow
<1>3. QED
  BY <1>2 DEF Crosses

\* At the start the book is empty.
LEMMA BookInitially == BookInit => BookIInv
<1> SUFFICES ASSUME BookInit PROVE BookIInv
  OBVIOUS
<1>1. BookTypeOK
  BY DEF BookInit, BookTypeOK
<1>2. \A x \in Orders: ~ Pending(x)
  BY DEF BookInit, Pending, Absent
<1>3. \A q \in Request: Inserted(q)
  BY DEF BookInit, Inserted
<1>4. QED
  BY <1>1, <1>2, <1>3 DEF BookIInv, BookIsUncrossed

\* An order is inserted; it is in its matching.
LEMMA PlaceOrderKeeps ==
    ASSUME BookIInv, NEW q \in Request, NEW side \in {"BUY", "SELL"}, NEW user \in User,
           NEW units \in Size, NEW price \in Price, PlaceOrder(q, side, user, units, price)
    PROVE  BookIInv'
<1>1. PICK n: n = NextRow(order)
  OBVIOUS
<1>2. n \in Orders /\ order[n] = Absent
  <2>1. DOMAIN order = 1..MaxOrder /\ MaxOrder \in Nat /\ HasRoom(order)
    BY BookConstants DEF BookIInv, BookTypeOK, Orders, PlaceOrder
  <2>2. QED
    BY <1>1, <2>1, NextRowIsFree DEF Orders
<1>3. PICK placed: placed = [status |-> "PENDING", side |-> side, user |-> user,
                             units |-> units, price |-> price, counterparty |-> Nobody]
  OBVIOUS
<1>4. /\ order' = [order EXCEPT ![n] = placed]
      /\ placing' = [placing EXCEPT ![q] = [pc |-> "matching", order |-> n]]
      /\ placing[q] = Free /\ UNCHANGED <<fills, stranded>>
  BY <1>1, <1>3 DEF PlaceOrder
<1>5. placed \in OrderRow
  BY <1>3 DEF OrderRow
<1>6. BookTypeOK'
  BY <1>2, <1>4, <1>5 DEF BookIInv, BookTypeOK
<1>7. \A x \in Orders: order'[x] = IF x = n THEN placed ELSE order[x]
  BY <1>4 DEF BookIInv, BookTypeOK
<1>8. \A p \in Request: placing'[p] = IF p = q THEN [pc |-> "matching", order |-> n] ELSE placing[p]
  BY <1>4 DEF BookIInv, BookTypeOK
<1>9. n \in InMatching' /\ InMatching \subseteq InMatching'
  BY <1>4, <1>8 DEF InMatching, Free
<1>10. ASSUME NEW x \in Orders \ (InMatching \cup stranded)', NEW y \in Orders \ (InMatching \cup stranded)',
              Pending(x)', Pending(y)', order'[x].units = order'[y].units
       PROVE  ~ Crosses(x, y)'
  <2>1. x # n /\ y # n /\ order'[x] = order[x] /\ order'[y] = order[y]
    BY <1>7, <1>9
  <2>2. x \in Orders \ (InMatching \cup stranded) /\ y \in Orders \ (InMatching \cup stranded)
    BY <1>4, <1>9
  <2>3. QED
    BY <1>10, <2>1, <2>2 DEF BookIInv, BookIsUncrossed, Pending, Crosses
<1>11. \A p \in Request: Inserted(p)'
  <2>1. placed # Absent
    BY <1>3 DEF Absent
  <2>2. \A x \in Orders: order[x] # Absent => order'[x] # Absent
    BY <1>7, <2>1
  <2>3. \A p \in Request: placing[p] # Free => placing[p].order \in Orders
    BY DEF BookIInv, BookTypeOK
  <2>4. order'[n] # Absent
    BY <1>2, <1>7, <2>1
  <2>5. QED
    BY <1>8, <2>2, <2>3, <2>4 DEF BookIInv, Inserted
<1>12. QED
  BY <1>6, <1>10, <1>11 DEF BookIInv, BookIsUncrossed

\* The request is done with its order t: what is left in the book and in no
\* matching was so before, but for t.
LEMMA LeavesMatching ==
    ASSUME BookIInv, NEW q \in Request, NEW t \in Orders, placing[q] # Free, t = placing[q].order,
           placing' = [placing EXCEPT ![q] = Free],
           stranded' \subseteq Orders, stranded \subseteq stranded',
           order' \in [Orders -> {Absent} \cup OrderRow], fills' \in [Orders -> Nat],
           \A x \in Orders: Pending(x)' => order'[x] = order[x],
           \A x \in Orders: order[x] # Absent => order'[x] # Absent,
           t \in stranded' \/ ~ Pending(t)' \/ \A x \in Matches(t): order[x].units # order[t].units
    PROVE  BookIInv'
<1>1. \A p \in Request: placing'[p] = IF p = q THEN Free ELSE placing[p]
  BY DEF BookIInv, BookTypeOK
<1>2. BookTypeOK'
  BY DEF BookIInv, BookTypeOK
<1>3. InMatching \subseteq InMatching' \cup {t}
  BY <1>1 DEF InMatching
<1>4. ASSUME NEW x \in Orders \ (InMatching \cup stranded)', NEW y \in Orders \ (InMatching \cup stranded)',
             Pending(x)', Pending(y)', order'[x].units = order'[y].units, Crosses(x, y)'
      PROVE  FALSE
  <2>1. order'[x] = order[x] /\ order'[y] = order[y] /\ Pending(x) /\ Pending(y)
    BY <1>4 DEF Pending
  <2>2. Crosses(x, y) /\ order[x].units = order[y].units /\ order[x] # Absent /\ order[y] # Absent
    BY <1>4, <2>1 DEF Crosses, Pending, Absent
  <2>3. Crosses(y, x)
    BY <2>2, CrossesBack DEF BookIInv
  <2>4. CASE x = t \/ y = t
    <3>1. t \notin stranded' /\ Pending(t)'
      BY <1>4, <2>4
    <3>2. \A z \in Matches(t): order[z].units # order[t].units
      BY <3>1
    <3>3. \A z \in Orders: Pending(z) /\ Crosses(t, z) => order[z].units # order[t].units
      BY <3>2 DEF Matches
    <3>4. QED
      BY <2>1, <2>2, <2>3, <2>4, <3>3
  <2>5. CASE x # t /\ y # t
    <3>1. x \in Orders \ (InMatching \cup stranded) /\ y \in Orders \ (InMatching \cup stranded)
      BY <1>3, <2>5
    <3>2. QED
      BY <2>1, <2>2, <3>1 DEF BookIInv, BookIsUncrossed
  <2>6. QED
    BY <2>4, <2>5
<1>5. \A p \in Request: Inserted(p)'
  BY <1>1 DEF BookIInv, BookTypeOK, Inserted
<1>6. QED
  BY <1>2, <1>4, <1>5 DEF BookIInv, BookIsUncrossed

\* The matching of an order: one crosses it and both are executed, or none does.
LEMMA MatchOrderKeeps == ASSUME BookIInv, NEW q \in Request, MatchOrder(q) PROVE BookIInv'
<1>1. placing[q] # Free /\ placing' = [placing EXCEPT ![q] = Free] /\ stranded' = stranded
      /\ stranded \subseteq Orders
  BY DEF MatchOrder, Matched, BookIInv, BookTypeOK
<1>2. PICK t \in Orders: t = placing[q].order
  BY <1>1 DEF BookIInv, BookTypeOK
<1>3. PICK chosen: chosen = SameSize(t, Matches(t))
  OBVIOUS
<1>4. CASE chosen = {} /\ UNCHANGED <<order, fills>>
  <2>1. \A x \in Matches(t): order[x].units # order[t].units
    BY <1>3, <1>4 DEF SameSize
  <2>2. order' \in [Orders -> {Absent} \cup OrderRow] /\ fills' \in [Orders -> Nat]
    BY <1>4 DEF BookIInv, BookTypeOK
  <2>3. QED
    BY <1>1, <1>2, <1>4, <2>1, <2>2, LeavesMatching
<1>5. CASE \E m \in chosen: (\A n \in chosen \ {m}: Before(m, n, t)) /\ Executes(t, m)
  <2>1. PICK m \in chosen: Executes(t, m)
    BY <1>5
  <2>2. m \in Orders /\ Pending(m) /\ Crosses(t, m)
    BY <1>3 DEF SameSize, Matches
  <2>3. order[t] # Absent /\ order[m] # Absent /\ m # t
    BY <1>1, <1>2, <2>2 DEF BookIInv, Inserted, Pending, Absent, Crosses
  <2>4. order[t] \in OrderRow /\ order[m] \in OrderRow
    BY <2>2, <2>3 DEF BookIInv, BookTypeOK
  <2>5. PICK bought: bought = [order[t] EXCEPT !.status = "COMPLETED", !.counterparty = order[m].user]
    OBVIOUS
  <2>6. PICK sold: sold = [order[m] EXCEPT !.status = "COMPLETED", !.counterparty = order[t].user]
    OBVIOUS
  <2>7. /\ bought \in OrderRow /\ bought.status = "COMPLETED"
        /\ sold \in OrderRow /\ sold.status = "COMPLETED"
    BY <2>4, <2>5, <2>6 DEF OrderRow
  <2>8. \A x \in Orders: order'[x] = IF x = t THEN bought ELSE IF x = m THEN sold ELSE order[x]
    BY <2>1, <2>2, <2>3, <2>5, <2>6 DEF Executes, BookIInv, BookTypeOK
  <2>9. order' \in [Orders -> {Absent} \cup OrderRow]
    <3>1. order' = [x \in Orders |-> order'[x]]
      BY <2>1 DEF Executes, BookIInv, BookTypeOK
    <3>2. \A x \in Orders: order'[x] \in {Absent} \cup OrderRow
      BY <2>7, <2>8 DEF BookIInv, BookTypeOK
    <3>3. QED
      BY <3>1, <3>2
  <2>10. fills' \in [Orders -> Nat]
    BY <2>1, <2>2 DEF Executes, BookIInv, BookTypeOK
  <2>11. /\ \A x \in Orders: Pending(x)' => order'[x] = order[x]
         /\ \A x \in Orders: order[x] # Absent => order'[x] # Absent
    BY <2>7, <2>8 DEF Pending, Absent, OrderRow
  <2>12. ~ Pending(t)'
    BY <2>7, <2>8 DEF Pending
  <2>13. stranded' \subseteq Orders /\ stranded \subseteq stranded'
    BY <1>1
  <2>14. QED
    BY <1>1, <1>2, <2>9, <2>10, <2>11, <2>12, <2>13, LeavesMatching, Zenon
<1>6. QED
  BY <1>2, <1>3, <1>4, <1>5 DEF MatchOrder, Matched

\* Every step preserves it.
LEMMA BookNextKeeps == BookIInv /\ [BookNext]_bookVars => BookIInv'
<1> SUFFICES ASSUME BookIInv, [BookNext]_bookVars PROVE BookIInv'
  OBVIOUS
<1>1. CASE UNCHANGED bookVars
  BY <1>1 DEF bookVars, BookIInv, BookTypeOK, BookIsUncrossed, InMatching, Pending, Crosses, Inserted
<1>2. ASSUME NEW q \in Request, MatchAborts(q) PROVE BookIInv'
  <2>1. placing[q] # Free /\ placing' = [placing EXCEPT ![q] = Free]
        /\ stranded' = stranded \cup {placing[q].order} /\ UNCHANGED <<order, fills>>
    BY <1>2 DEF MatchAborts
  <2>2. order \in [Orders -> {Absent} \cup OrderRow] /\ fills \in [Orders -> Nat]
        /\ stranded \subseteq Orders /\ placing[q].order \in Orders
    BY <2>1 DEF BookIInv, BookTypeOK
  <2>3. stranded \subseteq stranded' /\ stranded' \subseteq Orders /\ placing[q].order \in stranded'
    BY <2>1, <2>2
  <2>4. PICK t \in Orders: t = placing[q].order
    BY <2>2
  <2>5. QED
    BY <2>1, <2>2, <2>3, <2>4, LeavesMatching
<1>3. QED
  BY <1>1, <1>2, MatchOrderKeeps, PlaceOrderKeeps DEF BookNext

THEOREM BookInductive == BookSpec => []BookIInv
<1>1. BookInit => BookIInv
  BY BookInitially
<1>2. BookIInv /\ [BookNext]_bookVars => BookIInv'
  BY BookNextKeeps
<1>3. QED
  BY <1>1, <1>2, PTL DEF BookSpec

\* Once their matching is done, no two pending orders of the same size cross
\* (views.py, _match_order).
THEOREM BookUncrossed == BookSpec => []BookIsUncrossed
<1>1. BookIInv => BookIsUncrossed
  BY DEF BookIInv
<1>2. QED
  BY <1>1, BookInductive, PTL

-----------------------------------------------------------------------------
(* Jewellery rights.  A paper, an issuance or a buyback, that no two requests  *)
(* worked on at a time is in the hands of one at most, and its rows are where  *)
(* that request's step says.                                                   *)

IssuanceStep == [pc: {"verify", "confirm", "issue", "create", "new", "complete", "record", "mint", "recording", "unit"},
                 paper: Issuance, right: Rights \cup {NoRight}]
BuybackStep == [pc: {"buyback", "bought", "return"}, paper: Buybacks, right: {NoRight}]
JrStepOK(step) ==
    \/ step = Free \/ step \in IssuanceStep
    \/ step \in BuybackStep /\ buyback[step.paper] # Absent

InHand(step, paper) == step.pc # "free" /\ step.paper = paper
Alone(paper) == \A p, q \in Request: InHand(issuing[p], paper) /\ InHand(issuing[q], paper) => p = q

(* What the rows of an issuance are while a request is at one of its steps. *)
IssuanceFits(step, i) ==
    /\ step.pc = "verify" => issuance[i].status = "PENDING_PAYMENT"
    /\ step.pc \in {"confirm", "create", "complete"} => issuance[i].status = "PAYMENT_VERIFIED"
    /\ step.pc \in {"issue", "new", "record"} => issuance[i].status = "none"
    /\ step.pc \in {"mint", "recording", "unit"} => issuance[i].status = "COMPLETED"
    /\ step.pc \in {"mint", "recording"} => i \notin recorded
    /\ step.pc = "unit" => produced[i].units = 0 /\ i \in recorded

IssuanceOK(i) ==
    /\ Alone(i)
    /\ i \in recorded => issuance[i].status = "COMPLETED"
    /\ produced[i].units <= 1 /\ (produced[i].units > 0 => i \in recorded)
    /\ \A q \in Request: InHand(issuing[q], i) => IssuanceFits(issuing[q], i)

(* There is a right where the issuance is completed or about to be, and it was *)
(* issued on the chain where there is one or about to be.                      *)
AboutToComplete == {"complete", "record"}
AboutToIssue == {"create", "new"} \cup AboutToComplete
RightsOK(i) ==
    /\ \A r, s \in RightsOf(i): r = s
    /\ RightsOf(i) # {} => \/ issuance[i].status = "COMPLETED"
                           \/ \E q \in Request: InHand(issuing[q], i) /\ issuing[q].pc \in AboutToComplete
    /\ produced[i].issued <= 1
    /\ produced[i].issued > 0 => \/ issuance[i].status = "COMPLETED"
                             \/ \E q \in Request: InHand(issuing[q], i) /\ issuing[q].pc \in AboutToIssue

(* A mint is on record, or is about to be. *)
MintOK(i) ==
    /\ produced[i].minted <= 1
    /\ produced[i].minted > 0 => i \in recorded \/ \E q \in Request: InHand(issuing[q], i) /\ issuing[q].pc = "recording"

PaperOK(i) == IssuanceOK(i) /\ (i \notin dropped => RightsOK(i)) /\ (i \notin lost => MintOK(i))

BuybackOK(b) ==
    /\ Alone(b)
    /\ \A q \in Request: issuing[q].pc = "buyback" /\ issuing[q].paper = b => paid[b] = 0
    /\ paid[b] <= 1
    /\ paid[b] > 0 => \/ buyback[b].status = "COMPLETED"
                      \/ \E q \in Request: issuing[q].pc = "bought" /\ issuing[q].paper = b

JrIInv ==
    /\ JrTypeOK
    /\ DOMAIN issuing = Request /\ \A q \in Request: JrStepOK(issuing[q])
    /\ \A b \in Buybacks: /\ buyback[b] # Absent => right[buyback[b].right] # Absent
                          /\ buyback[b] = Absent => paid[b] = 0
    /\ \A i \in Issuance \ crossed: PaperOK(i)
    /\ \A b \in Buybacks \ (crossed \cup dropped): BuybackOK(b)

-----------------------------------------------------------------------------
(* Papers *)

(* No other request has this paper in hand. *)
Aside(q, paper) == \A p \in Request \ {q}: ~InHand(issuing[p], paper)

(* What holds of an issuance that at most one request, at this step, has in hand. *)
RightsFit(step, i) ==
    /\ \A r, s \in RightsOf(i): r = s
    /\ RightsOf(i) # {} => issuance[i].status = "COMPLETED" \/ (InHand(step, i) /\ step.pc \in AboutToComplete)
    /\ produced[i].issued <= 1
    /\ produced[i].issued > 0 => issuance[i].status = "COMPLETED" \/ (InHand(step, i) /\ step.pc \in AboutToIssue)
MintFits(step, i) ==
    /\ produced[i].minted <= 1
    /\ produced[i].minted > 0 => i \in recorded \/ (InHand(step, i) /\ step.pc = "recording")
RowsFit(i) ==
    /\ i \in recorded => issuance[i].status = "COMPLETED"
    /\ produced[i].units <= 1 /\ (produced[i].units > 0 => i \in recorded)
PaperFits(step, i) ==
    /\ RowsFit(i)
    /\ InHand(step, i) => IssuanceFits(step, i)
    /\ i \notin dropped => RightsFit(step, i)
    /\ i \notin lost => MintFits(step, i)

\* What a request that is at some step has in hand.
LEMMA HasPaper ==
    ASSUME JrIInv, NEW q \in Request, NEW pc, JrAt(q, pc), pc # "free"
    PROVE  /\ InHand(issuing[q], issuing[q].paper)
           /\ pc \in {"verify", "confirm", "issue", "create", "new", "complete", "record", "mint", "recording", "unit"} =>
                 issuing[q] \in IssuanceStep /\ issuing[q].paper \in Issuance
           /\ pc \in {"buyback", "bought", "return"} =>
                 /\ issuing[q] \in BuybackStep /\ issuing[q].paper \in Buybacks
                 /\ buyback[issuing[q].paper] # Absent
<1>1. InHand(issuing[q], issuing[q].paper)
  BY DEF InHand, JrAt
<1>2. JrStepOK(issuing[q]) /\ issuing[q].pc = pc
  BY DEF JrIInv, JrAt
<1>3. QED
  BY <1>1, <1>2 DEF JrStepOK, IssuanceStep, BuybackStep, Free

\* An uncrossed issuance is in the hands of this request or of nobody: its rows fit.
LEMMA IssuanceInHand ==
    ASSUME JrIInv, NEW q \in Request, NEW i \in Issuance, i \notin crossed,
           InHand(issuing[q], i) \/ \A p \in Request: ~InHand(issuing[p], i)
    PROVE  Aside(q, i) /\ PaperFits(issuing[q], i)
<1>1. IssuanceOK(i) /\ (i \notin dropped => RightsOK(i)) /\ (i \notin lost => MintOK(i))
  BY DEF JrIInv, PaperOK
<1>2. Aside(q, i)
  BY <1>1 DEF IssuanceOK, Alone, Aside
<1>3. \A p \in Request: InHand(issuing[p], i) => p = q
  BY <1>2 DEF Aside
<1>4. RowsFit(i) /\ (InHand(issuing[q], i) => IssuanceFits(issuing[q], i))
  BY <1>1 DEF IssuanceOK, RowsFit
<1>5. ASSUME i \notin dropped PROVE RightsFit(issuing[q], i)
  BY <1>1, <1>3, <1>5 DEF RightsOK, RightsFit
<1>6. ASSUME i \notin lost PROVE MintFits(issuing[q], i)
  BY <1>1, <1>3, <1>6 DEF MintOK, MintFits
<1>7. QED
  BY <1>2, <1>4, <1>5, <1>6 DEF PaperFits

\* A paper that is not crossed when a request takes it was in nobody's hands.
LEMMA PaperTaken ==
    ASSUME JrIInv, NEW q \in Request, NEW pc, NEW paper, Takes(q, pc, paper)
    PROVE  /\ issuing[q].pc = "free" /\ crossed' \subseteq crossed \cup {paper} /\ crossed \subseteq crossed'
           /\ paper \notin crossed' => paper \notin crossed /\ \A p \in Request: ~InHand(issuing[p], paper)
  BY DEF Takes, JrAt, InHand

\* The requests after one of them took a step.
LEMMA OneIssues ==
    ASSUME JrIInv, NEW q \in Request, NEW step, issuing' = [issuing EXCEPT ![q] = step]
    PROVE  DOMAIN issuing' = Request /\ \A p \in Request: issuing'[p] = IF p = q THEN step ELSE issuing[p]
  BY DEF JrIInv

\* The step a request takes is one of those it may be at, and the others' are.
LEMMA StepsOK ==
    ASSUME JrIInv, NEW q \in Request, NEW step, issuing' = [issuing EXCEPT ![q] = step], JrStepOK(step)',
           \A b \in Buybacks: buyback[b] # Absent => buyback'[b] # Absent
    PROVE  DOMAIN issuing' = Request /\ \A p \in Request: JrStepOK(issuing[p])'
<1>1. DOMAIN issuing' = Request /\ \A p \in Request: issuing'[p] = IF p = q THEN step ELSE issuing[p]
  BY OneIssues
<1>2. ASSUME NEW p \in Request, p # q PROVE JrStepOK(issuing[p])'
  <2>1. PICK held: held = issuing[p]
    OBVIOUS
  <2>2. issuing'[p] = held /\ JrStepOK(held)
    BY <1>1, <1>2, <2>1 DEF JrIInv
  <2>3. JrStepOK(held)'
    BY <2>2 DEF JrStepOK, BuybackStep
  <2>4. QED
    BY <2>2, <2>3
<1>3. QED
  BY <1>1, <1>2

(* The marks are never taken back. *)
MarksStay == crossed \subseteq crossed' /\ dropped \subseteq dropped' /\ lost \subseteq lost'

\* An issuance that nobody touches is as it was.
LEMMA IssuanceUntouched ==
    ASSUME JrIInv, NEW i \in Issuance, i \notin crossed', MarksStay,
           \A p \in Request: InHand(issuing'[p], i) => InHand(issuing[p], i),
           \A p \in Request: InHand(issuing[p], i) => issuing'[p] = issuing[p],
           issuance'[i] = issuance[i], i \in recorded' <=> i \in recorded, produced'[i] = produced[i],
           RightsOf(i)' = RightsOf(i)
    PROVE  PaperOK(i)'
<1>1. IssuanceOK(i) /\ (i \notin dropped' => RightsOK(i)) /\ (i \notin lost' => MintOK(i))
  BY DEF JrIInv, PaperOK, MarksStay
<1>2. IssuanceOK(i)'
  <2>1. Alone(i)'
    BY <1>1 DEF IssuanceOK, Alone
  <2>2. ASSUME NEW p \in Request, InHand(issuing'[p], i) PROVE IssuanceFits(issuing[p], i)'
    <3>1. issuing'[p] = issuing[p] /\ IssuanceFits(issuing[p], i)
      BY <1>1, <2>2 DEF IssuanceOK
    <3>2. QED
      BY <3>1 DEF IssuanceFits
  <2>3. QED
    BY <1>1, <2>1, <2>2 DEF IssuanceOK
<1>3. \A p \in Request: InHand(issuing[p], i) => InHand(issuing'[p], i) /\ issuing'[p] = issuing[p]
  OBVIOUS
<1>4. ASSUME i \notin dropped' PROVE RightsOK(i)'
  BY <1>1, <1>3, <1>4 DEF RightsOK
<1>5. ASSUME i \notin lost' PROVE MintOK(i)'
  BY <1>1, <1>3, <1>5 DEF MintOK
<1>6. QED
  BY <1>2, <1>4, <1>5 DEF PaperOK

\* A buyback that nobody touches is as it was.
LEMMA BuybackUntouched ==
    ASSUME JrIInv, NEW b \in Buybacks, b \notin crossed' \cup dropped', MarksStay,
           \A p \in Request: InHand(issuing'[p], b) => InHand(issuing[p], b),
           \A p \in Request: InHand(issuing[p], b) => issuing'[p] = issuing[p],
           buyback'[b] = buyback[b], paid'[b] = paid[b]
    PROVE  BuybackOK(b)'
<1>1. BuybackOK(b)
  BY DEF JrIInv, MarksStay
<1>2. Alone(b)'
  BY <1>1 DEF BuybackOK, Alone
<1>3. ASSUME NEW p \in Request, issuing'[p].pc = "buyback", issuing'[p].paper = b PROVE paid[b] = 0
  <2>1. issuing'[p] = issuing[p]
    BY <1>3 DEF InHand
  <2>2. QED
    BY <1>1, <1>3, <2>1 DEF BuybackOK
<1>4. ASSUME paid[b] > 0, buyback[b].status # "COMPLETED"
      PROVE  \E p \in Request: issuing'[p].pc = "bought" /\ issuing'[p].paper = b
  <2>1. PICK p \in Request: issuing[p].pc = "bought" /\ issuing[p].paper = b
    BY <1>1, <1>4 DEF BuybackOK
  <2>2. issuing'[p] = issuing[p]
    BY <2>1 DEF InHand
  <2>3. QED
    BY <2>1, <2>2
<1>5. QED
  BY <1>1, <1>2, <1>3, <1>4 DEF BuybackOK

\* A request goes on with an issuance: its own rows are to show.
LEMMA IssuanceMoves ==
    ASSUME JrIInv, JrTypeOK', NEW q \in Request, NEW i \in Issuance, NEW step,
           issuing' = [issuing EXCEPT ![q] = step], step = Free \/ (step \in IssuanceStep /\ step.paper = i),
           issuing[q].pc = "free" \/ InHand(issuing[q], i),
           UNCHANGED <<buyback, paid>>, MarksStay, crossed' \subseteq crossed \cup {i},
           \A r \in Rights: right[r] # Absent => right'[r] # Absent,
           \A j \in Issuance \ {i}: /\ issuance'[j] = issuance[j] /\ (j \in recorded' <=> j \in recorded)
                                    /\ produced'[j] = produced[j] /\ RightsOf(j)' = RightsOf(j),
           i \notin crossed' => Aside(q, i) /\ PaperFits(step, i)'
    PROVE  JrIInv'
<1>1. DOMAIN issuing' = Request /\ \A p \in Request: issuing'[p] = IF p = q THEN step ELSE issuing[p]
  BY OneIssues
<1>2. JrStepOK(step)'
  BY DEF JrStepOK
<1>3. DOMAIN issuing' = Request /\ \A p \in Request: JrStepOK(issuing[p])'
  BY <1>2, StepsOK
<1>4. ~InHand(Free, i) /\ \A paper: paper # i => ~InHand(step, paper) /\ ~InHand(issuing[q], paper)
  BY DEF InHand, Free
<1>5. \A paper: paper # i =>
         /\ \A p \in Request: InHand(issuing'[p], paper) => InHand(issuing[p], paper)
         /\ \A p \in Request: InHand(issuing[p], paper) => issuing'[p] = issuing[p]
  BY <1>1, <1>4
<1>6. ASSUME NEW j \in Issuance \ crossed', j # i PROVE PaperOK(j)'
  BY <1>5, <1>6, IssuanceUntouched
<1>7. ASSUME NEW b \in Buybacks \ (crossed' \cup dropped') PROVE BuybackOK(b)'
  <2>1. b # i
    BY JrConstants DEF Buybacks
  <2>2. QED
    BY <1>5, <1>7, <2>1, BuybackUntouched
<1>8. ASSUME i \notin crossed' PROVE PaperOK(i)'
  <2>1. \A p \in Request: InHand(issuing'[p], i) => p = q /\ issuing'[p] = step
    BY <1>1, <1>8 DEF Aside
  <2>2. Alone(i)'
    BY <2>1 DEF Alone
  <2>3. \A p \in Request: InHand(issuing'[p], i) => IssuanceFits(issuing[p], i)'
    <3>1. ASSUME NEW p \in Request, InHand(issuing'[p], i) PROVE IssuanceFits(issuing[p], i)'
      <4>1. issuing'[p] = step /\ InHand(step, i)
        BY <2>1, <3>1
      <4>2. IssuanceFits(step, i)'
        BY <1>8, <4>1 DEF PaperFits
      <4>3. QED
        BY <4>1, <4>2
    <3>2. QED
      BY <3>1
  <2>4. IssuanceOK(i)'
    BY <1>8, <2>2, <2>3 DEF IssuanceOK, PaperFits, RowsFit
  <2>5. issuing'[q] = step
    BY <1>1
  <2>6. ASSUME i \notin dropped' PROVE RightsOK(i)'
    BY <1>8, <2>5, <2>6 DEF PaperFits, RightsFit, RightsOK
  <2>7. ASSUME i \notin lost' PROVE MintOK(i)'
    BY <1>8, <2>5, <2>7 DEF PaperFits, MintFits, MintOK
  <2>8. QED
    BY <2>4, <2>6, <2>7 DEF PaperOK
<1>9. \A b \in Buybacks: /\ buyback'[b] # Absent => right'[buyback'[b].right] # Absent
                         /\ buyback'[b] = Absent => paid'[b] = 0
  BY DEF JrIInv, JrTypeOK, BuybackRow
<1>10. QED
  BY <1>3, <1>6, <1>7, <1>8, <1>9 DEF JrIInv

\* A request goes on with a buyback.
LEMMA BuybackMoves ==
    ASSUME JrIInv, JrTypeOK', NEW q \in Request, NEW b \in Buybacks, NEW step,
           issuing' = [issuing EXCEPT ![q] = step],
           step = Free \/ (step \in BuybackStep /\ step.paper = b /\ buyback'[b] # Absent),
           issuing[q].pc = "free" \/ InHand(issuing[q], b),
           UNCHANGED <<issuance, recorded, produced>>, MarksStay, crossed' \subseteq crossed \cup {b},
           \A r \in Rights: right[r] # Absent => right'[r] # Absent,
           \A j \in Issuance: RightsOf(j)' = RightsOf(j),
           \A c \in Buybacks \ {b}: buyback'[c] = buyback[c] /\ paid'[c] = paid[c],
           buyback[b] # Absent, buyback'[b] # Absent, buyback'[b].right = buyback[b].right,
           b \notin crossed' \cup dropped' =>
              /\ Aside(q, b) /\ paid'[b] <= 1
              /\ InHand(step, b) /\ step.pc = "buyback" => paid'[b] = 0
              /\ paid'[b] > 0 => buyback'[b].status = "COMPLETED" \/ (InHand(step, b) /\ step.pc = "bought")
    PROVE  JrIInv'
<1>1. DOMAIN issuing' = Request /\ \A p \in Request: issuing'[p] = IF p = q THEN step ELSE issuing[p]
  BY OneIssues
<1>2. JrStepOK(step)'
  BY DEF JrStepOK
<1>3. DOMAIN issuing' = Request /\ \A p \in Request: JrStepOK(issuing[p])'
  BY <1>2, StepsOK
<1>4. ~InHand(Free, b) /\ \A paper: paper # b => ~InHand(step, paper) /\ ~InHand(issuing[q], paper)
  BY DEF InHand, Free
<1>5. \A paper: paper # b =>
         /\ \A p \in Request: InHand(issuing'[p], paper) => InHand(issuing[p], paper)
         /\ \A p \in Request: InHand(issuing[p], paper) => issuing'[p] = issuing[p]
  BY <1>1, <1>4
<1>6. ASSUME NEW j \in Issuance \ crossed' PROVE PaperOK(j)'
  <2>1. j # b
    BY JrConstants DEF Buybacks
  <2>2. QED
    BY <1>5, <1>6, <2>1, IssuanceUntouched
<1>7. ASSUME NEW c \in Buybacks \ (crossed' \cup dropped'), c # b PROVE BuybackOK(c)'
  BY <1>5, <1>7, BuybackUntouched
<1>8. ASSUME b \notin crossed' \cup dropped' PROVE BuybackOK(b)'
  <2>1. \A p \in Request: InHand(issuing'[p], b) => p = q /\ issuing'[p] = step
    BY <1>1, <1>8 DEF Aside
  <2>2. Alone(b)'
    BY <2>1 DEF Alone
  <2>3. \A p \in Request: issuing'[p].pc = "buyback" /\ issuing'[p].paper = b => paid'[b] = 0
    BY <1>8, <2>1 DEF InHand
  <2>4. paid'[b] > 0 => \/ buyback'[b].status = "COMPLETED"
                        \/ \E p \in Request: issuing'[p].pc = "bought" /\ issuing'[p].paper = b
    BY <1>1, <1>8 DEF InHand
  <2>5. QED
    BY <1>8, <2>2, <2>3, <2>4 DEF BuybackOK
<1>9. \A c \in Buybacks: /\ buyback'[c] # Absent => right'[buyback'[c].right] # Absent
                         /\ buyback'[c] = Absent => paid'[c] = 0
  <2>1. \A c \in Buybacks: buyback[c] # Absent => buyback[c].right \in Rights
    BY DEF JrIInv, JrTypeOK, BuybackRow
  <2>2. QED
    BY <2>1 DEF JrIInv
<1>10. QED
  BY <1>3, <1>6, <1>7, <1>8, <1>9 DEF JrIInv

-----------------------------------------------------------------------------
(* Issuance *)

\* A request takes an issuance whose rows are fit for what it is about to do.
LEMMA IssuanceTaken ==
    ASSUME JrIInv, NEW q \in Request, NEW i \in Issuance, NEW pc \in {"verify", "confirm", "issue", "mint"},
           Takes(q, pc, i), UNCHANGED <<issuance, right, recorded, produced, buyback, paid, dropped, lost>>,
           \A step: step.pc = pc => (i \notin crossed => IssuanceFits(step, i))
    PROVE  JrIInv'
<1>1. PICK step: step = [pc |-> pc, paper |-> i, right |-> NoRight]
  OBVIOUS
<1>2. step.pc = pc /\ step.paper = i /\ step \in IssuanceStep
  BY <1>1 DEF IssuanceStep
<1>3. issuing' = [issuing EXCEPT ![q] = step]
  BY <1>1 DEF Takes
<1>4. /\ issuing[q].pc = "free" /\ crossed' \subseteq crossed \cup {i} /\ crossed \subseteq crossed'
      /\ i \notin crossed' => i \notin crossed /\ \A p \in Request: ~InHand(issuing[p], i)
  BY PaperTaken
<1>5. JrTypeOK'
  BY <1>4 DEF JrIInv, JrTypeOK
<1>6. \A j \in Issuance: RightsOf(j)' = RightsOf(j)
  BY DEF RightsOf
<1>7. ASSUME i \notin crossed' PROVE Aside(q, i) /\ PaperFits(step, i)'
  <2>1. Aside(q, i) /\ PaperFits(issuing[q], i) /\ ~InHand(issuing[q], i)
    BY <1>4, <1>7, IssuanceInHand
  <2>2. IssuanceFits(step, i)'
    BY <1>2, <1>4, <1>7 DEF IssuanceFits
  <2>3. RowsFit(i)'
    BY <2>1 DEF PaperFits, RowsFit
  <2>4. i \notin dropped => RightsFit(step, i)'
    BY <1>6, <2>1 DEF PaperFits, RightsFit
  <2>5. i \notin lost => MintFits(step, i)'
    BY <2>1 DEF PaperFits, MintFits
  <2>6. QED
    BY <2>1, <2>2, <2>3, <2>4, <2>5 DEF PaperFits
<1>8. \A j \in Issuance \ {i}: /\ issuance'[j] = issuance[j] /\ (j \in recorded' <=> j \in recorded)
                                /\ produced'[j] = produced[j] /\ RightsOf(j)' = RightsOf(j)
  BY <1>6
<1>9. UNCHANGED <<buyback, paid>> /\ MarksStay /\ \A r \in Rights: right[r] # Absent => right'[r] # Absent
  BY <1>4 DEF MarksStay
<1>10. QED
  BY <1>2, <1>3, <1>4, <1>5, <1>7, <1>8, <1>9, IssuanceMoves

\* Verification, confirmation, the older issuance and backfill begin.
LEMMA IssuanceBegins ==
    ASSUME JrIInv, NEW q \in Request, NEW i \in Issuance,
           VerifyPaymentLoads(q, i) \/ ConfirmPaymentLoads(q, i) \/ IssueBegins(q, i) \/ BackfillChecks(q, i)
    PROVE  JrIInv'
<1>1. CASE VerifyPaymentLoads(q, i)
  <2>1. \A step: step.pc = "verify" => IssuanceFits(step, i)
    BY <1>1 DEF VerifyPaymentLoads, IssuanceFits
  <2>2. QED
    BY <1>1, <2>1, IssuanceTaken DEF VerifyPaymentLoads
<1>2. CASE ConfirmPaymentLoads(q, i)
  <2>1. \A step: step.pc = "confirm" => IssuanceFits(step, i)
    BY <1>2 DEF ConfirmPaymentLoads, IssuanceFits
  <2>2. QED
    BY <1>2, <2>1, IssuanceTaken DEF ConfirmPaymentLoads
<1>3. CASE IssueBegins(q, i)
  <2>1. \A step: step.pc = "issue" => IssuanceFits(step, i)
    BY <1>3 DEF IssueBegins, Unused, IssuanceFits
  <2>2. QED
    BY <1>3, <2>1, IssuanceTaken DEF IssueBegins
<1>4. CASE BackfillChecks(q, i)
  <2>1. issuance[i].status = "COMPLETED" /\ i \notin recorded
    BY <1>4 DEF BackfillChecks
  <2>2. \A step: step.pc = "mint" => IssuanceFits(step, i)
    BY <2>1 DEF IssuanceFits
  <2>3. QED
    BY <1>4, <2>2, IssuanceTaken DEF BackfillChecks
<1>5. QED
  BY <1>1, <1>2, <1>3, <1>4

(* What a request that saves something of its issuance leaves as it is. *)
OnlyOf(q, i, step) ==
    /\ InHand(issuing[q], i) /\ issuing' = [issuing EXCEPT ![q] = step]
    /\ step = Free \/ (step \in IssuanceStep /\ step.paper = i)
    /\ UNCHANGED <<buyback, paid, crossed, dropped>>

\* What the request of an issuance saves: its row, its minting record, what was produced of it.
LEMMA IssuanceSaved ==
    ASSUME JrIInv, NEW q \in Request, NEW i \in Issuance, NEW step, OnlyOf(q, i, step), right' = right,
           lost' = lost \/ lost' = lost \cup {i}, recorded' = recorded \/ recorded' = recorded \cup {i},
           NEW saved \in IssuanceRow, issuance' = [issuance EXCEPT ![i] = saved],
           NEW m \in ProducedRow, produced' = [produced EXCEPT ![i] = m],
           i \notin crossed /\ PaperFits(issuing[q], i) /\ issuance'[i] = saved /\ produced'[i] = m
              /\ RightsOf(i)' = RightsOf(i) => PaperFits(step, i)'
    PROVE  JrIInv'
<1>1. issuance'[i] = saved /\ \A j \in Issuance \ {i}: issuance'[j] = issuance[j]
  BY DEF JrIInv, JrTypeOK
<1>2. produced'[i] = m /\ \A j \in Issuance \ {i}: produced'[j] = produced[j]
  BY DEF JrIInv, JrTypeOK
<1>3. \A j \in Issuance: RightsOf(j)' = RightsOf(j)
  BY DEF RightsOf
<1>4. JrTypeOK'
  <2>1. /\ issuance' \in [Issuance -> IssuanceRow] /\ produced' \in [Issuance -> ProducedRow]
        /\ recorded' \subseteq Issuance /\ lost' \subseteq Issuance
    BY DEF JrIInv, JrTypeOK
  <2>2. QED
    BY <2>1 DEF JrIInv, JrTypeOK, OnlyOf
<1>5. i \notin crossed => Aside(q, i) /\ PaperFits(issuing[q], i)
  BY IssuanceInHand DEF OnlyOf
<1>6. \A j \in Issuance \ {i}: j \in recorded' <=> j \in recorded
  OBVIOUS
<1>7. i \notin crossed' => Aside(q, i) /\ PaperFits(step, i)'
  BY <1>1, <1>2, <1>3, <1>5 DEF OnlyOf
<1>8. MarksStay
  BY DEF MarksStay, OnlyOf
<1>9. QED
  BY <1>1, <1>2, <1>3, <1>4, <1>6, <1>7, <1>8, IssuanceMoves DEF OnlyOf

\* The issuance's rows as they are.
LEMMA IssuanceSame ==
    ASSUME JrIInv, NEW i \in Issuance
    PROVE  /\ issuance[i] \in IssuanceRow /\ issuance = [issuance EXCEPT ![i] = issuance[i]]
           /\ produced[i] \in ProducedRow /\ produced = [produced EXCEPT ![i] = produced[i]]
<1>1. issuance \in [Issuance -> IssuanceRow] /\ produced \in [Issuance -> ProducedRow]
  BY DEF JrIInv, JrTypeOK
<1>2. QED
  BY <1>1

\* The right is announced to the chain, once before there is one.
LEMMA AnnouncedKeeps == ASSUME JrIInv, NEW q \in Request, IssuesOnChain(q) PROVE JrIInv'
<1>1. PICK i \in Issuance: /\ i = issuing[q].paper /\ InHand(issuing[q], i) /\ issuing[q] \in IssuanceStep
                           /\ issuing[q].pc \in {"confirm", "issue"}
  BY HasPaper DEF IssuesOnChain, JrAt
<1>2. PICK saved \in IssuanceRow: saved = issuance[i] /\ issuance = [issuance EXCEPT ![i] = saved]
  BY <1>1, IssuanceSame
<1>3. PICK m: m = [produced[i] EXCEPT !.issued = @ + 1]
  OBVIOUS
<1>4. m \in ProducedRow /\ m.issued = produced[i].issued + 1 /\ m.minted = produced[i].minted /\ m.units = produced[i].units
      /\ produced[i].issued \in Nat
  BY <1>1, <1>3, IssuanceSame DEF ProducedRow
<1>5. PICK pc \in {"create", "new"}: pc = IF JrAt(q, "confirm") THEN "create" ELSE "new"
  OBVIOUS
<1>6. PICK step: step = [issuing[q] EXCEPT !.pc = pc]
  OBVIOUS
<1>7. step \in IssuanceStep /\ step.paper = i /\ step.pc = pc
  BY <1>1, <1>6 DEF IssuanceStep
<1>8. /\ OnlyOf(q, i, step) /\ right' = right /\ recorded' = recorded /\ lost' = lost /\ dropped' = dropped
      /\ issuance' = issuance /\ produced' = [produced EXCEPT ![i] = m]
  BY <1>1, <1>3, <1>5, <1>6, <1>7 DEF IssuesOnChain, JrStep, JrIInv, JrTypeOK, OnlyOf
<1>9. ASSUME i \notin crossed, PaperFits(issuing[q], i), issuance'[i] = saved, produced'[i] = m, RightsOf(i)' = RightsOf(i)
      PROVE  PaperFits(step, i)'
  <2>1. IssuanceFits(issuing[q], i) /\ RowsFit(i)
    BY <1>1, <1>9 DEF PaperFits
  <2>2. issuance[i].status # "COMPLETED" /\ (pc = "create" <=> issuing[q].pc = "confirm")
    BY <1>1, <1>5, <2>1 DEF IssuanceFits, JrAt
  <2>3. IssuanceFits(step, i)'
    BY <1>1, <1>7, <1>8, <2>1, <2>2 DEF IssuanceFits
  <2>4. RowsFit(i)'
    BY <1>4, <1>8, <1>9, <2>1 DEF RowsFit
  <2>5. ASSUME i \notin dropped PROVE RightsFit(step, i)'
    <3>1. RightsFit(issuing[q], i)
      BY <1>9, <2>5 DEF PaperFits
    <3>2. RightsOf(i) = {} /\ produced[i].issued = 0
      BY <1>1, <1>4, <2>2, <3>1 DEF RightsFit, AboutToComplete, AboutToIssue
    <3>3. step.pc \in AboutToIssue /\ InHand(step, i)
      BY <1>7 DEF InHand, AboutToIssue
    <3>4. QED
      BY <1>4, <1>9, <3>2, <3>3 DEF RightsFit
  <2>6. ASSUME i \notin lost PROVE MintFits(step, i)'
    BY <1>1, <1>4, <1>8, <1>9, <2>6 DEF PaperFits, MintFits
  <2>7. QED
    BY <1>8, <2>3, <2>4, <2>5, <2>6 DEF PaperFits
<1>10. issuance' = [issuance EXCEPT ![i] = saved]
  BY <1>2, <1>8
<1>11. QED
  BY <1>4, <1>8, <1>9, <1>10, IssuanceSaved

\* The right is made: the first of its issuance.
LEMMA RightMade == ASSUME JrIInv, NEW q \in Request, CreatesRight(q) PROVE JrIInv'
<1>1. PICK i: i = issuing[q].paper
  OBVIOUS
<1>2. InHand(issuing[q], i) /\ issuing[q] \in IssuanceStep /\ i \in Issuance
  <2>1. PICK pc \in {"create", "new"}: JrAt(q, pc)
    BY DEF CreatesRight, JrAt
  <2>2. QED
    BY <1>1, <2>1, HasPaper
<1>3. PICK r: r = NextRow(right)
  OBVIOUS
<1>4. r \in Rights /\ right[r] = Absent
  <2>1. DOMAIN right = 1..MaxRights /\ MaxRights \in Nat /\ HasRoom(right)
    BY JrConstants DEF JrIInv, JrTypeOK, CreatesRight, Rights
  <2>2. QED
    BY <1>3, <2>1, NextRowIsFree DEF Rights
<1>5. PICK newRight: newRight = [status |-> "ACTIVE", issuance |-> i]
  OBVIOUS
<1>6. newRight \in RightRow /\ newRight.issuance = i /\ newRight # Absent
  BY <1>2, <1>5 DEF RightRow, Absent
<1>7. PICK step: step = [issuing[q] EXCEPT !.right = r, !.pc = IF @ = "create" THEN "complete" ELSE "record"]
  OBVIOUS
<1>8. /\ step \in IssuanceStep /\ step.paper = i /\ step.pc \in AboutToComplete /\ InHand(step, i)
      /\ issuing[q].pc = "create" => step.pc = "complete"
      /\ issuing[q].pc = "new" => step.pc = "record"
  BY <1>1, <1>2, <1>4, <1>7 DEF IssuanceStep, AboutToComplete, InHand
<1>9. /\ issuing[q].pc \in {"create", "new"}
      /\ right' = [right EXCEPT ![r] = newRight] /\ issuing' = [issuing EXCEPT ![q] = step]
      /\ UNCHANGED <<issuance, recorded, produced, buyback, paid, crossed, dropped, lost>>
  BY <1>1, <1>3, <1>5, <1>7 DEF CreatesRight, JrIInv
<1>10. \A x \in Rights: right'[x] = IF x = r THEN newRight ELSE right[x]
  BY <1>9 DEF JrIInv, JrTypeOK
<1>11. JrTypeOK'
  BY <1>4, <1>6, <1>9 DEF JrIInv, JrTypeOK
<1>12. \A x \in Rights: right[x] # Absent => right'[x] # Absent
  BY <1>4, <1>10
<1>13. \A j \in Issuance \ {i}: RightsOf(j)' = RightsOf(j)
  BY <1>4, <1>6, <1>10 DEF RightsOf
<1>14. RightsOf(i)' = RightsOf(i) \cup {r}
  BY <1>4, <1>6, <1>10 DEF RightsOf
<1>15. ASSUME i \notin crossed PROVE Aside(q, i) /\ PaperFits(step, i)'
  <2>1. Aside(q, i) /\ PaperFits(issuing[q], i)
    BY <1>2, <1>15, IssuanceInHand
  <2>2. IssuanceFits(issuing[q], i) /\ RowsFit(i)
    BY <1>2, <2>1 DEF PaperFits
  <2>3. IssuanceFits(step, i)' /\ RowsFit(i)' /\ issuance[i].status # "COMPLETED"
    BY <1>8, <1>9, <2>2 DEF IssuanceFits, RowsFit
  <2>4. ASSUME i \notin dropped PROVE RightsFit(step, i)'
    <3>1. RightsFit(issuing[q], i)
      BY <2>1, <2>4 DEF PaperFits
    <3>2. RightsOf(i) = {} /\ produced[i].issued <= 1
      BY <1>9, <2>3, <3>1 DEF RightsFit, AboutToComplete
    <3>3. step.pc \in AboutToIssue
      BY <1>8 DEF AboutToIssue
    <3>4. QED
      BY <1>8, <1>9, <1>14, <3>2, <3>3 DEF RightsFit
  <2>5. ASSUME i \notin lost PROVE MintFits(step, i)'
    BY <1>9, <2>1, <2>5 DEF PaperFits, MintFits
  <2>6. QED
    BY <1>9, <2>1, <2>3, <2>4, <2>5 DEF PaperFits
<1>16. MarksStay
  BY <1>9 DEF MarksStay
<1>17. QED
  BY <1>2, <1>8, <1>9, <1>11, <1>12, <1>13, <1>15, <1>16, IssuanceMoves

\* A payment is verified: there is no right yet.
LEMMA VerifyKeeps == ASSUME JrIInv, NEW q \in Request, VerifyPaymentSaves(q) PROVE JrIInv'
<1>1. PICK i \in Issuance: i = issuing[q].paper /\ InHand(issuing[q], i) /\ issuing[q].pc = "verify"
  BY HasPaper DEF VerifyPaymentSaves, JrAt
<1>2. PICK saved: saved = [status |-> "PAYMENT_VERIFIED", right |-> NoRight]
  OBVIOUS
<1>3. saved \in IssuanceRow /\ saved.status = "PAYMENT_VERIFIED"
  BY <1>2 DEF IssuanceRow
<1>4. PICK m \in ProducedRow: m = produced[i] /\ produced = [produced EXCEPT ![i] = m]
  BY IssuanceSame
<1>5. /\ OnlyOf(q, i, Free) /\ right' = right /\ recorded' = recorded /\ lost' = lost /\ dropped' = dropped
      /\ issuance' = [issuance EXCEPT ![i] = saved] /\ produced' = [produced EXCEPT ![i] = m]
  BY <1>1, <1>2, <1>4 DEF VerifyPaymentSaves, JrEnds, OnlyOf
<1>6. ~InHand(Free, i)
  BY DEF InHand, Free
<1>7. ASSUME i \notin crossed, PaperFits(issuing[q], i), issuance'[i] = saved, produced'[i] = m, RightsOf(i)' = RightsOf(i)
      PROVE  PaperFits(Free, i)'
  <2>1. IssuanceFits(issuing[q], i) /\ RowsFit(i)
    BY <1>1, <1>7 DEF PaperFits
  <2>2. issuance[i].status = "PENDING_PAYMENT"
    BY <1>1, <2>1 DEF IssuanceFits
  <2>3. RowsFit(i)'
    BY <1>4, <1>5, <1>7, <2>1, <2>2 DEF RowsFit
  <2>4. ASSUME i \notin dropped PROVE RightsFit(Free, i)'
    BY <1>1, <1>4, <1>7, <2>2, <2>4 DEF PaperFits, RightsFit, AboutToComplete, AboutToIssue
  <2>5. ASSUME i \notin lost PROVE MintFits(Free, i)'
    BY <1>1, <1>4, <1>5, <1>7, <2>5 DEF PaperFits, MintFits
  <2>6. QED
    BY <1>5, <1>6, <2>3, <2>4, <2>5 DEF PaperFits
<1>8. QED
  BY <1>3, <1>5, <1>7, IssuanceSaved

\* An issuance is completed, with its right.
LEMMA CompletedKeeps == ASSUME JrIInv, NEW q \in Request, IssueRecords(q) \/ ConfirmCompletes(q) PROVE JrIInv'
<1>1. PICK i \in Issuance: /\ i = issuing[q].paper /\ InHand(issuing[q], i) /\ issuing[q].pc \in {"record", "complete"}
                           /\ issuing[q] \in IssuanceStep
  BY HasPaper DEF IssueRecords, ConfirmCompletes, JrAt
<1>2. PICK saved: saved = [status |-> "COMPLETED", right |-> issuing[q].right]
  OBVIOUS
<1>3. saved \in IssuanceRow /\ saved.status = "COMPLETED"
  BY <1>1, <1>2 DEF IssuanceRow, IssuanceStep
<1>4. PICK m \in ProducedRow: m = produced[i] /\ produced = [produced EXCEPT ![i] = m]
  BY IssuanceSame
<1>5. PICK step: /\ issuing' = [issuing EXCEPT ![q] = step]
                 /\ step = Free \/ (step \in IssuanceStep /\ step.paper = i /\ step.pc = "mint")
  <2>1. CASE IssueRecords(q)
    BY <2>1 DEF IssueRecords, JrEnds
  <2>2. CASE ConfirmCompletes(q)
    <3>1. PICK step: step = [issuing[q] EXCEPT !.pc = "mint"]
      OBVIOUS
    <3>2. step \in IssuanceStep /\ step.paper = i /\ step.pc = "mint"
      BY <1>1, <3>1 DEF IssuanceStep
    <3>3. issuing' = [issuing EXCEPT ![q] = step]
      BY <2>2, <3>1 DEF ConfirmCompletes, JrStep, JrIInv
    <3>4. QED
      BY <3>2, <3>3
  <2>3. QED
    BY <2>1, <2>2
<1>6. /\ OnlyOf(q, i, step) /\ right' = right /\ recorded' = recorded /\ lost' = lost /\ dropped' = dropped
      /\ issuance' = [issuance EXCEPT ![i] = saved] /\ produced' = [produced EXCEPT ![i] = m]
  BY <1>1, <1>2, <1>4, <1>5 DEF IssueRecords, ConfirmCompletes, Completed, OnlyOf
<1>7. ASSUME i \notin crossed, PaperFits(issuing[q], i), issuance'[i] = saved, produced'[i] = m, RightsOf(i)' = RightsOf(i)
      PROVE  PaperFits(step, i)'
  <2>1. IssuanceFits(issuing[q], i) /\ RowsFit(i)
    BY <1>1, <1>7 DEF PaperFits
  <2>2. issuance[i].status # "COMPLETED" /\ i \notin recorded /\ issuing[q].pc # "recording"
    BY <1>1, <2>1 DEF IssuanceFits, RowsFit
  <2>3. RowsFit(i)'
    BY <1>3, <1>4, <1>6, <1>7, <2>1 DEF RowsFit
  <2>4. ASSUME i \notin dropped PROVE RightsFit(step, i)'
    BY <1>3, <1>4, <1>7, <2>4 DEF PaperFits, RightsFit
  <2>5. ASSUME i \notin lost PROVE MintFits(step, i)'
    BY <1>4, <1>6, <1>7, <2>2, <2>5 DEF PaperFits, MintFits
  <2>6. ASSUME InHand(step, i) PROVE IssuanceFits(step, i)'
    BY <1>3, <1>5, <1>6, <1>7, <2>2, <2>6 DEF IssuanceFits, InHand, Free
  <2>7. QED
    BY <1>6, <2>3, <2>4, <2>5, <2>6 DEF PaperFits
<1>8. QED
  BY <1>3, <1>6, <1>7, IssuanceSaved

\* The gold is minted on the chain, once before there is a record.
LEMMA GoldMinted == ASSUME JrIInv, NEW q \in Request, MintsOnChain(q) PROVE JrIInv'
<1>1. PICK i \in Issuance: /\ i = issuing[q].paper /\ InHand(issuing[q], i) /\ issuing[q] \in IssuanceStep
                           /\ issuing[q].pc = "mint"
  BY HasPaper DEF MintsOnChain, JrAt
<1>2. PICK saved \in IssuanceRow: saved = issuance[i] /\ issuance = [issuance EXCEPT ![i] = saved]
  BY <1>1, IssuanceSame
<1>3. PICK m: m = [produced[i] EXCEPT !.minted = @ + 1]
  OBVIOUS
<1>4. m \in ProducedRow /\ m.issued = produced[i].issued /\ m.minted = produced[i].minted + 1 /\ m.units = produced[i].units
      /\ produced[i].minted \in Nat
  BY <1>1, <1>3, IssuanceSame DEF ProducedRow
<1>5. PICK step: step = [issuing[q] EXCEPT !.pc = "recording"]
  OBVIOUS
<1>6. step \in IssuanceStep /\ step.paper = i /\ step.pc = "recording" /\ InHand(step, i)
  BY <1>1, <1>5 DEF IssuanceStep, InHand
<1>7. /\ OnlyOf(q, i, step) /\ right' = right /\ recorded' = recorded /\ lost' = lost /\ dropped' = dropped
      /\ issuance' = issuance /\ produced' = [produced EXCEPT ![i] = m]
  BY <1>1, <1>3, <1>5, <1>6 DEF MintsOnChain, JrStep, JrIInv, JrTypeOK, OnlyOf
<1>8. ASSUME i \notin crossed, PaperFits(issuing[q], i), issuance'[i] = saved, produced'[i] = m, RightsOf(i)' = RightsOf(i)
      PROVE  PaperFits(step, i)'
  <2>1. IssuanceFits(issuing[q], i) /\ RowsFit(i)
    BY <1>1, <1>8 DEF PaperFits
  <2>2. issuance[i].status = "COMPLETED" /\ i \notin recorded
    BY <1>1, <2>1 DEF IssuanceFits
  <2>3. RowsFit(i)' /\ IssuanceFits(step, i)'
    BY <1>4, <1>6, <1>7, <1>8, <2>1, <2>2 DEF RowsFit, IssuanceFits
  <2>4. ASSUME i \notin dropped PROVE RightsFit(step, i)'
    BY <1>4, <1>7, <1>8, <2>2, <2>4 DEF PaperFits, RightsFit
  <2>5. ASSUME i \notin lost PROVE MintFits(step, i)'
    <3>1. MintFits(issuing[q], i)
      BY <1>8, <2>5 DEF PaperFits
    <3>2. produced[i].minted = 0
      BY <1>1, <1>4, <2>2, <3>1 DEF MintFits
    <3>3. QED
      BY <1>4, <1>6, <1>8, <3>2 DEF MintFits
  <2>6. QED
    BY <1>7, <2>3, <2>4, <2>5 DEF PaperFits
<1>9. issuance' = [issuance EXCEPT ![i] = saved]
  BY <1>2, <1>7
<1>10. QED
  BY <1>4, <1>7, <1>8, <1>9, IssuanceSaved

\* The minting record.
LEMMA RecordKeeps == ASSUME JrIInv, NEW q \in Request, RecordsMint(q) PROVE JrIInv'
<1>1. PICK i \in Issuance: /\ i = issuing[q].paper /\ InHand(issuing[q], i) /\ issuing[q] \in IssuanceStep
                           /\ issuing[q].pc = "recording"
  BY HasPaper DEF RecordsMint, JrAt
<1>2. PICK saved \in IssuanceRow: saved = issuance[i] /\ issuance = [issuance EXCEPT ![i] = saved]
  BY <1>1, IssuanceSame
<1>3. PICK m \in ProducedRow: m = produced[i] /\ produced = [produced EXCEPT ![i] = m]
  BY IssuanceSame
<1>4. PICK step: step = [issuing[q] EXCEPT !.pc = "unit"]
  OBVIOUS
<1>5. step \in IssuanceStep /\ step.paper = i /\ step.pc = "unit" /\ InHand(step, i)
  BY <1>1, <1>4 DEF IssuanceStep, InHand
<1>6. /\ OnlyOf(q, i, step) /\ right' = right /\ recorded' = recorded \cup {i} /\ lost' = lost /\ dropped' = dropped
      /\ issuance' = [issuance EXCEPT ![i] = saved] /\ produced' = [produced EXCEPT ![i] = m]
  BY <1>1, <1>2, <1>3, <1>4, <1>5 DEF RecordsMint, JrStep, JrIInv, OnlyOf
<1>7. ASSUME i \notin crossed, PaperFits(issuing[q], i), issuance'[i] = saved, produced'[i] = m, RightsOf(i)' = RightsOf(i)
      PROVE  PaperFits(step, i)'
  <2>1. IssuanceFits(issuing[q], i) /\ RowsFit(i) /\ produced[i].units \in Nat
    BY <1>1, <1>3, <1>7 DEF PaperFits, ProducedRow
  <2>2. issuance[i].status = "COMPLETED" /\ produced[i].units = 0
    BY <1>1, <2>1 DEF IssuanceFits, RowsFit
  <2>3. RowsFit(i)' /\ IssuanceFits(step, i)'
    BY <1>2, <1>3, <1>5, <1>6, <1>7, <2>1, <2>2 DEF RowsFit, IssuanceFits
  <2>4. ASSUME i \notin dropped PROVE RightsFit(step, i)'
    BY <1>2, <1>3, <1>7, <2>2, <2>4 DEF PaperFits, RightsFit
  <2>5. ASSUME i \notin lost PROVE MintFits(step, i)'
    BY <1>3, <1>6, <1>7, <2>5 DEF PaperFits, MintFits
  <2>6. QED
    BY <1>6, <2>3, <2>4, <2>5 DEF PaperFits
<1>8. QED
  BY <1>6, <1>7, IssuanceSaved

\* The unit, the first of its issuance.
LEMMA UnitMintKeeps == ASSUME JrIInv, NEW q \in Request, MintsGdp(q) PROVE JrIInv'
<1>1. PICK i \in Issuance: /\ i = issuing[q].paper /\ InHand(issuing[q], i) /\ issuing[q].pc = "unit"
  BY HasPaper DEF MintsGdp, JrAt
<1>2. PICK saved \in IssuanceRow: saved = issuance[i] /\ issuance = [issuance EXCEPT ![i] = saved]
  BY <1>1, IssuanceSame
<1>3. PICK m: m = [produced[i] EXCEPT !.units = @ + 1]
  OBVIOUS
<1>4. m \in ProducedRow /\ m.issued = produced[i].issued /\ m.minted = produced[i].minted /\ m.units = produced[i].units + 1
  BY <1>1, <1>3, IssuanceSame DEF ProducedRow
<1>5. ~InHand(Free, i)
  BY DEF InHand, Free
<1>6. /\ OnlyOf(q, i, Free) /\ right' = right /\ recorded' = recorded /\ lost' = lost /\ dropped' = dropped
      /\ issuance' = [issuance EXCEPT ![i] = saved] /\ produced' = [produced EXCEPT ![i] = m]
  BY <1>1, <1>2, <1>3 DEF MintsGdp, JrEnds, JrIInv, JrTypeOK, OnlyOf
<1>7. ASSUME i \notin crossed, PaperFits(issuing[q], i), issuance'[i] = saved, produced'[i] = m, RightsOf(i)' = RightsOf(i)
      PROVE  PaperFits(Free, i)'
  <2>1. IssuanceFits(issuing[q], i) /\ RowsFit(i)
    BY <1>1, <1>7 DEF PaperFits
  <2>2. issuance[i].status = "COMPLETED" /\ i \in recorded /\ produced[i].units = 0
    BY <1>1, <2>1 DEF IssuanceFits
  <2>3. RowsFit(i)'
    BY <1>2, <1>4, <1>6, <1>7, <2>2 DEF RowsFit
  <2>4. ASSUME i \notin dropped PROVE RightsFit(Free, i)'
    BY <1>2, <1>4, <1>7, <2>2, <2>4 DEF PaperFits, RightsFit
  <2>5. ASSUME i \notin lost PROVE MintFits(Free, i)'
    BY <1>4, <1>6, <1>7, <2>2, <2>5 DEF PaperFits, MintFits
  <2>6. QED
    BY <1>5, <1>6, <2>3, <2>4, <2>5 DEF PaperFits
<1>8. QED
  BY <1>4, <1>6, <1>7, IssuanceSaved

\* What raises while minting: a mint without its record is marked.
LEMMA FailsKeeps == ASSUME JrIInv, NEW q \in Request, MintFails(q) PROVE JrIInv'
<1>1. PICK i \in Issuance: /\ i = issuing[q].paper /\ InHand(issuing[q], i)
                           /\ issuing[q].pc \in {"mint", "recording", "unit"}
  BY HasPaper DEF MintFails, JrAt
<1>2. PICK saved \in IssuanceRow: saved = issuance[i] /\ issuance = [issuance EXCEPT ![i] = saved]
  BY <1>1, IssuanceSame
<1>3. PICK m \in ProducedRow: m = produced[i] /\ produced = [produced EXCEPT ![i] = m]
  BY IssuanceSame
<1>4. ~InHand(Free, i)
  BY DEF InHand, Free
<1>5. /\ OnlyOf(q, i, Free) /\ right' = right /\ recorded' = recorded /\ dropped' = dropped
      /\ issuance' = [issuance EXCEPT ![i] = saved] /\ produced' = [produced EXCEPT ![i] = m]
      /\ lost' = IF issuing[q].pc = "recording" THEN lost \cup {i} ELSE lost
  BY <1>1, <1>2, <1>3 DEF MintFails, LosesMint, JrEnds, JrAt, OnlyOf
<1>6. ASSUME i \notin crossed, PaperFits(issuing[q], i), issuance'[i] = saved, produced'[i] = m, RightsOf(i)' = RightsOf(i)
      PROVE  PaperFits(Free, i)'
  <2>1. IssuanceFits(issuing[q], i) /\ RowsFit(i)
    BY <1>1, <1>6 DEF PaperFits
  <2>2. issuance[i].status = "COMPLETED"
    BY <1>1, <2>1 DEF IssuanceFits
  <2>3. RowsFit(i)'
    BY <1>2, <1>3, <1>5, <1>6, <2>1 DEF RowsFit
  <2>4. ASSUME i \notin dropped PROVE RightsFit(Free, i)'
    BY <1>2, <1>3, <1>6, <2>2, <2>4 DEF PaperFits, RightsFit
  <2>5. ASSUME i \notin lost' PROVE MintFits(Free, i)'
    BY <1>3, <1>5, <1>6, <2>5 DEF PaperFits, MintFits
  <2>6. QED
    BY <1>4, <1>5, <2>3, <2>4, <2>5 DEF PaperFits
<1>7. lost' = lost \/ lost' = lost \cup {i}
  BY <1>5
<1>8. QED
  BY <1>5, <1>6, <1>7, IssuanceSaved

\* An issuance is recorded that nobody has in hand.
LEMMA InitiateIssuanceKeeps == ASSUME JrIInv, NEW i \in Issuance, InitiateIssuance(i) PROVE JrIInv'
<1>1. PICK saved: saved = [issuance[i] EXCEPT !.status = "PENDING_PAYMENT"]
  OBVIOUS
<1>2. saved \in IssuanceRow /\ saved.status = "PENDING_PAYMENT" /\ issuance[i].status = "none"
  BY <1>1 DEF JrIInv, JrTypeOK, IssuanceRow, InitiateIssuance, Unused
<1>3. /\ issuance' = [issuance EXCEPT ![i] = saved]
      /\ UNCHANGED <<right, recorded, produced, buyback, paid, issuing, crossed, dropped, lost>>
  BY <1>1 DEF InitiateIssuance
<1>4. \A j \in Issuance: issuance'[j] = IF j = i THEN saved ELSE issuance[j]
  BY <1>3 DEF JrIInv, JrTypeOK
<1>5. JrTypeOK' /\ \A j \in Issuance: RightsOf(j)' = RightsOf(j)
  BY <1>2, <1>3 DEF JrIInv, JrTypeOK, RightsOf
<1>6. DOMAIN issuing' = Request /\ \A p \in Request: JrStepOK(issuing[p])'
  BY <1>3 DEF JrIInv, JrStepOK
<1>7. \A p \in Request: ~InHand(issuing[p], i)
  BY DEF InitiateIssuance, Unused, JrAt, InHand
<1>8. ASSUME NEW j \in Issuance \ crossed, j # i PROVE PaperOK(j)'
  BY <1>3, <1>4, <1>5, <1>8, IssuanceUntouched DEF MarksStay
<1>9. ASSUME i \notin crossed PROVE PaperOK(i)'
  <2>1. IssuanceOK(i) /\ (i \notin dropped => RightsOK(i)) /\ (i \notin lost => MintOK(i))
    BY <1>9 DEF JrIInv, PaperOK
  <2>2. i \notin recorded
    BY <1>2, <2>1 DEF IssuanceOK
  <2>3. IssuanceOK(i)'
    BY <1>3, <1>7, <2>1, <2>2 DEF IssuanceOK, Alone
  <2>4. ASSUME i \notin dropped PROVE RightsOK(i)'
    <3>1. RightsOf(i) = {} /\ ~(produced[i].issued > 0) /\ produced[i].issued <= 1
      BY <1>2, <1>7, <2>1, <2>4 DEF RightsOK
    <3>2. QED
      BY <1>3, <1>5, <3>1 DEF RightsOK
  <2>5. ASSUME i \notin lost PROVE MintOK(i)'
    BY <1>3, <2>1, <2>5 DEF MintOK
  <2>6. QED
    BY <1>3, <2>3, <2>4, <2>5 DEF PaperOK
<1>10. ASSUME NEW b \in Buybacks \ (crossed \cup dropped) PROVE BuybackOK(b)'
  BY <1>3, <1>10, BuybackUntouched DEF MarksStay
<1>11. \A b \in Buybacks: /\ buyback'[b] # Absent => right'[buyback'[b].right] # Absent
                          /\ buyback'[b] = Absent => paid'[b] = 0
  BY <1>3 DEF JrIInv
<1>12. QED
  BY <1>3, <1>5, <1>6, <1>8, <1>9, <1>10, <1>11 DEF JrIInv

-----------------------------------------------------------------------------
(* Buybacks *)

\* An uncrossed buyback that a request has in hand.
LEMMA BuybackInHand ==
    ASSUME JrIInv, NEW q \in Request, NEW b \in Buybacks, InHand(issuing[q], b), b \notin crossed \cup dropped
    PROVE  /\ Aside(q, b) /\ paid[b] <= 1
           /\ issuing[q].pc = "buyback" => paid[b] = 0
           /\ paid[b] > 0 => buyback[b].status = "COMPLETED" \/ issuing[q].pc = "bought"
<1>1. BuybackOK(b)
  BY DEF JrIInv
<1>2. Aside(q, b)
  BY <1>1 DEF BuybackOK, Alone, Aside
<1>3. ASSUME paid[b] > 0, buyback[b].status # "COMPLETED" PROVE issuing[q].pc = "bought"
  <2>1. PICK p \in Request: issuing[p].pc = "bought" /\ issuing[p].paper = b
    BY <1>1, <1>3 DEF BuybackOK
  <2>2. p = q
    BY <1>2, <2>1 DEF Aside, InHand
  <2>3. QED
    BY <2>1, <2>2
<1>4. issuing[q].pc = "buyback" => paid[b] = 0
  BY <1>1 DEF BuybackOK, InHand
<1>5. QED
  BY <1>1, <1>2, <1>3, <1>4 DEF BuybackOK

\* A request takes a buyback that is not paid yet.
LEMMA ApproveIssuanceKeeps == ASSUME JrIInv, NEW q \in Request, NEW b \in Buybacks, ApproveBuybackLoads(q, b) PROVE JrIInv'
<1>1. PICK step: step = [pc |-> "buyback", paper |-> b, right |-> NoRight]
  OBVIOUS
<1>2. step.pc = "buyback" /\ step.paper = b /\ step \in BuybackStep
  BY <1>1 DEF BuybackStep
<1>3. /\ Takes(q, "buyback", b) /\ issuing' = [issuing EXCEPT ![q] = step]
      /\ buyback[b] # Absent /\ buyback[b].status = "REQUESTED"
      /\ UNCHANGED <<issuance, right, recorded, produced, buyback, paid, dropped, lost>>
  BY <1>1 DEF ApproveBuybackLoads, Takes
<1>4. /\ issuing[q].pc = "free" /\ crossed' \subseteq crossed \cup {b} /\ crossed \subseteq crossed'
      /\ b \notin crossed' => b \notin crossed /\ \A p \in Request: ~InHand(issuing[p], b)
  BY <1>3, PaperTaken
<1>5. JrTypeOK' /\ \A j \in Issuance: RightsOf(j)' = RightsOf(j)
  BY <1>3, <1>4 DEF JrIInv, JrTypeOK, RightsOf
<1>6. ASSUME b \notin crossed' \cup dropped' PROVE Aside(q, b) /\ paid'[b] = 0
  <2>1. BuybackOK(b) /\ \A p \in Request: ~InHand(issuing[p], b)
    BY <1>3, <1>4, <1>6 DEF JrIInv
  <2>2. ~(paid[b] > 0)
    BY <1>3, <2>1 DEF BuybackOK, InHand
  <2>3. paid[b] = 0
    BY <2>2 DEF JrIInv, JrTypeOK
  <2>4. QED
    BY <1>3, <2>1, <2>3 DEF Aside
<1>7. b \notin crossed' \cup dropped' =>
         /\ Aside(q, b) /\ paid'[b] <= 1
         /\ InHand(step, b) /\ step.pc = "buyback" => paid'[b] = 0
         /\ paid'[b] > 0 => buyback'[b].status = "COMPLETED" \/ (InHand(step, b) /\ step.pc = "bought")
  BY <1>6
<1>8. MarksStay
  BY <1>3, <1>4 DEF MarksStay
<1>9. QED
  BY <1>2, <1>3, <1>4, <1>5, <1>7, <1>8, BuybackMoves

\* The payment, and the completed row.
LEMMA BuybackKeeps == ASSUME JrIInv, NEW q \in Request, PaysBuyback(q) \/ CompletesBuyback(q) PROVE JrIInv'
<1>1. PICK b \in Buybacks: /\ b = issuing[q].paper /\ InHand(issuing[q], b) /\ issuing[q] \in BuybackStep
                           /\ buyback[b] # Absent /\ issuing[q].pc \in {"buyback", "bought"}
  BY HasPaper DEF PaysBuyback, CompletesBuyback, JrAt
<1>2. buyback[b] \in BuybackRow /\ paid[b] \in Nat
  BY <1>1 DEF JrIInv, JrTypeOK
<1>3. CASE PaysBuyback(q)
  <2>1. PICK step: step = [issuing[q] EXCEPT !.pc = "bought"]
    OBVIOUS
  <2>2. step \in BuybackStep /\ step.paper = b /\ step.pc = "bought" /\ InHand(step, b)
    BY <1>1, <2>1 DEF BuybackStep, InHand
  <2>3. /\ issuing' = [issuing EXCEPT ![q] = step] /\ issuing[q].pc = "buyback"
        /\ UNCHANGED <<issuance, right, recorded, produced, buyback, crossed, dropped, lost>>
    BY <1>3, <2>1 DEF PaysBuyback, JrStep, JrAt, JrIInv
  <2>4. PICK n \in Nat: n = paid[b] + 1
    BY <1>2
  <2>5. paid' = [paid EXCEPT ![b] = n]
    BY <1>1, <1>3, <2>4 DEF PaysBuyback, JrIInv, JrTypeOK
  <2>6. paid'[b] = n /\ \A c \in Buybacks \ {b}: paid'[c] = paid[c]
    BY <2>5 DEF JrIInv, JrTypeOK
  <2>7. JrTypeOK' /\ \A j \in Issuance: RightsOf(j)' = RightsOf(j)
    BY <2>3, <2>5 DEF JrIInv, JrTypeOK, RightsOf
  <2>8. b \notin crossed' \cup dropped' =>
           /\ Aside(q, b) /\ paid'[b] <= 1
           /\ InHand(step, b) /\ step.pc = "buyback" => paid'[b] = 0
           /\ paid'[b] > 0 => buyback'[b].status = "COMPLETED" \/ (InHand(step, b) /\ step.pc = "bought")
    <3>1. b \notin crossed \cup dropped => Aside(q, b) /\ paid[b] = 0
      BY <1>1, <2>3, BuybackInHand
    <3>2. QED
      BY <2>2, <2>3, <2>4, <2>6, <3>1
  <2>9. QED
    BY <1>1, <2>2, <2>3, <2>6, <2>7, <2>8, BuybackMoves DEF MarksStay
<1>4. CASE CompletesBuyback(q)
  <2>1. PICK step: step = [issuing[q] EXCEPT !.pc = "return"]
    OBVIOUS
  <2>2. step \in BuybackStep /\ step.paper = b /\ step.pc = "return"
    BY <1>1, <2>1 DEF BuybackStep
  <2>3. PICK saved: saved = [buyback[b] EXCEPT !.status = "COMPLETED"]
    OBVIOUS
  <2>4. saved \in BuybackRow /\ saved # Absent /\ saved.status = "COMPLETED" /\ saved.right = buyback[b].right
    BY <1>2, <2>3 DEF BuybackRow, Absent
  <2>5. /\ issuing' = [issuing EXCEPT ![q] = step] /\ buyback' = [buyback EXCEPT ![b] = saved]
        /\ UNCHANGED <<issuance, right, recorded, produced, paid, crossed, dropped, lost>>
    BY <1>1, <1>4, <2>1, <2>3 DEF CompletesBuyback, JrStep, JrIInv
  <2>6. buyback'[b] = saved /\ \A c \in Buybacks \ {b}: buyback'[c] = buyback[c]
    BY <2>5 DEF JrIInv, JrTypeOK
  <2>7. JrTypeOK' /\ \A j \in Issuance: RightsOf(j)' = RightsOf(j)
    BY <2>4, <2>5 DEF JrIInv, JrTypeOK, RightsOf
  <2>8. b \notin crossed' \cup dropped' =>
           /\ Aside(q, b) /\ paid'[b] <= 1
           /\ InHand(step, b) /\ step.pc = "buyback" => paid'[b] = 0
           /\ paid'[b] > 0 => buyback'[b].status = "COMPLETED" \/ (InHand(step, b) /\ step.pc = "bought")
    <3>1. b \notin crossed \cup dropped => Aside(q, b) /\ paid[b] <= 1
      BY <1>1, BuybackInHand
    <3>2. QED
      BY <2>2, <2>4, <2>5, <2>6, <3>1
  <2>9. buyback'[b] # Absent /\ buyback'[b].right = buyback[b].right
    BY <2>4, <2>6
  <2>10. QED
    BY <1>1, <2>2, <2>5, <2>6, <2>7, <2>8, <2>9, BuybackMoves DEF MarksStay
<1>5. QED
  BY <1>3, <1>4

\* The right is given back: it stays the right of its issuance.
LEMMA ReturnKeeps == ASSUME JrIInv, NEW q \in Request, ReturnsRight(q) PROVE JrIInv'
<1>1. PICK b \in Buybacks: /\ b = issuing[q].paper /\ InHand(issuing[q], b) /\ issuing[q].pc = "return"
                           /\ buyback[b] # Absent
  BY HasPaper DEF ReturnsRight, JrAt
<1>2. PICK r: r = buyback[b].right
  OBVIOUS
<1>3. r \in Rights /\ right[r] # Absent
  BY <1>1, <1>2 DEF JrIInv, JrTypeOK, BuybackRow
<1>4. right[r] \in RightRow
  BY <1>3 DEF JrIInv, JrTypeOK
<1>5. PICK saved: saved = [right[r] EXCEPT !.status = "BUYBACK"]
  OBVIOUS
<1>6. saved \in RightRow /\ saved # Absent /\ saved.issuance = right[r].issuance
  BY <1>4, <1>5 DEF RightRow, Absent
<1>7. /\ issuing' = [issuing EXCEPT ![q] = Free] /\ right' = [right EXCEPT ![r] = saved]
      /\ UNCHANGED <<issuance, recorded, produced, buyback, paid, crossed, dropped, lost>>
  <2>1. right' = [right EXCEPT ![r].status = "BUYBACK"]
    BY <1>1, <1>2 DEF ReturnsRight
  <2>2. right' = [right EXCEPT ![r] = saved]
    BY <1>5, <2>1
  <2>3. QED
    BY <2>2 DEF ReturnsRight, JrEnds
<1>8. \A x \in Rights: right'[x] = IF x = r THEN saved ELSE right[x]
  BY <1>7 DEF JrIInv, JrTypeOK
<1>9. JrTypeOK'
  BY <1>6, <1>7 DEF JrIInv, JrTypeOK
<1>10. \A j \in Issuance: RightsOf(j)' = RightsOf(j)
  BY <1>3, <1>6, <1>8 DEF RightsOf
<1>11. \A x \in Rights: right[x] # Absent => right'[x] # Absent
  BY <1>6, <1>8
<1>12. ~InHand(Free, b)
  BY DEF InHand, Free
<1>13. b \notin crossed' \cup dropped' =>
          /\ Aside(q, b) /\ paid'[b] <= 1
          /\ InHand(Free, b) /\ Free.pc = "buyback" => paid'[b] = 0
          /\ paid'[b] > 0 => buyback'[b].status = "COMPLETED" \/ (InHand(Free, b) /\ Free.pc = "bought")
  <2>1. b \notin crossed \cup dropped =>
           Aside(q, b) /\ paid[b] <= 1 /\ (paid[b] > 0 => buyback[b].status = "COMPLETED")
    BY <1>1, BuybackInHand
  <2>2. QED
    BY <1>7, <1>12, <2>1
<1>14. QED
  BY <1>1, <1>7, <1>9, <1>10, <1>11, <1>13, BuybackMoves DEF MarksStay

\* A buyback is requested, of a right that is there.
LEMMA RequestKeeps == ASSUME JrIInv, NEW r \in Rights, RequestBuyback(r) PROVE JrIInv'
<1>1. PICK b: b = NextRow(buyback)
  OBVIOUS
<1>2. b \in Buybacks /\ buyback[b] = Absent
  <2>1. DOMAIN buyback = 1..MaxBuyback /\ MaxBuyback \in Nat /\ HasRoom(buyback)
    BY JrConstants DEF JrIInv, JrTypeOK, RequestBuyback, Buybacks
  <2>2. QED
    BY <1>1, <2>1, NextRowIsFree DEF Buybacks
<1>3. PICK saved: saved = [status |-> "REQUESTED", right |-> r]
  OBVIOUS
<1>4. saved \in BuybackRow /\ saved # Absent /\ saved.right = r
  BY <1>3 DEF BuybackRow, Absent
<1>5. /\ buyback' = [buyback EXCEPT ![b] = saved] /\ right[r] # Absent
      /\ UNCHANGED <<issuance, right, recorded, produced, paid, issuing, crossed, dropped, lost>>
  BY <1>1, <1>3 DEF RequestBuyback
<1>6. \A c \in Buybacks: buyback'[c] = IF c = b THEN saved ELSE buyback[c]
  BY <1>5 DEF JrIInv, JrTypeOK
<1>7. JrTypeOK' /\ \A j \in Issuance: RightsOf(j)' = RightsOf(j)
  BY <1>4, <1>5 DEF JrIInv, JrTypeOK, RightsOf
<1>8. paid[b] = 0
  BY <1>2 DEF JrIInv
<1>9. \A p \in Request: JrStepOK(issuing[p])'
  <2>1. ASSUME NEW p \in Request PROVE JrStepOK(issuing[p])'
    <3>1. PICK held: held = issuing[p]
      OBVIOUS
    <3>2. JrStepOK(held)
      BY <3>1 DEF JrIInv
    <3>3. JrStepOK(held)'
      BY <1>4, <1>6, <3>2 DEF JrStepOK, BuybackStep
    <3>4. QED
      BY <1>5, <3>1, <3>3
  <2>2. QED
    BY <2>1
<1>10. ASSUME NEW j \in Issuance \ crossed PROVE PaperOK(j)'
  BY <1>5, <1>7, <1>10, IssuanceUntouched DEF MarksStay
<1>11. ASSUME NEW c \in Buybacks \ (crossed \cup dropped), c # b PROVE BuybackOK(c)'
  BY <1>5, <1>6, <1>11, BuybackUntouched DEF MarksStay
<1>12. ASSUME b \notin crossed \cup dropped PROVE BuybackOK(b)'
  <2>1. BuybackOK(b)
    BY <1>2, <1>12 DEF JrIInv
  <2>2. QED
    BY <1>5, <1>8, <2>1 DEF BuybackOK, Alone
<1>13. \A c \in Buybacks: /\ buyback'[c] # Absent => right'[buyback'[c].right] # Absent
                          /\ buyback'[c] = Absent => paid'[c] = 0
  BY <1>4, <1>5, <1>6 DEF JrIInv
<1>14. QED
  BY <1>5, <1>7, <1>9, <1>10, <1>11, <1>12, <1>13 DEF JrIInv

\* A request dies over its paper, which is marked.
LEMMA DiesKeeps == ASSUME JrIInv, NEW q \in Request, JrDies(q) PROVE JrIInv'
<1>1. PICK paper: paper = issuing[q].paper
  OBVIOUS
<1>2. /\ issuing' = [issuing EXCEPT ![q] = Free] /\ dropped' = dropped \cup {paper}
      /\ lost' = IF issuing[q].pc = "recording" THEN lost \cup {paper} ELSE lost
      /\ UNCHANGED <<issuance, right, recorded, produced, buyback, paid, crossed>>
  BY <1>1 DEF JrDies, JrEnds, LosesMint, JrAt
<1>3. InHand(issuing[q], paper) /\ ~InHand(Free, paper)
  BY <1>1 DEF JrDies, JrAt, InHand, Free
<1>4. /\ paper \in Issuance \/ (paper \in Buybacks /\ buyback[paper] # Absent)
      /\ issuing[q].pc = "recording" => paper \in Issuance
  <2>1. JrStepOK(issuing[q]) /\ issuing[q].pc # "free"
    BY DEF JrIInv, JrDies, JrAt
  <2>2. QED
    BY <1>1, <2>1 DEF JrStepOK, IssuanceStep, BuybackStep, Free
<1>5. JrTypeOK'
  BY <1>2, <1>4 DEF JrIInv, JrTypeOK
<1>6. \A j \in Issuance: RightsOf(j)' = RightsOf(j)
  BY <1>2 DEF RightsOf
<1>7. MarksStay /\ paper \in dropped'
  BY <1>2 DEF MarksStay
<1>8. CASE paper \in Issuance
  <2>1. \A j \in Issuance \ {paper}: /\ issuance'[j] = issuance[j] /\ (j \in recorded' <=> j \in recorded)
                                     /\ produced'[j] = produced[j] /\ RightsOf(j)' = RightsOf(j)
    BY <1>2, <1>6
  <2>2. ASSUME paper \notin crossed' PROVE Aside(q, paper) /\ PaperFits(Free, paper)'
    <3>1. Aside(q, paper) /\ PaperFits(issuing[q], paper)
      BY <1>2, <1>3, <1>8, <2>2, IssuanceInHand
    <3>2. RowsFit(paper)'
      BY <1>2, <3>1 DEF PaperFits, RowsFit
    <3>3. ASSUME paper \notin lost' PROVE MintFits(Free, paper)'
      BY <1>2, <3>1, <3>3 DEF PaperFits, MintFits
    <3>4. QED
      BY <1>3, <1>7, <3>1, <3>2, <3>3 DEF PaperFits
  <2>3. QED
    BY <1>2, <1>3, <1>5, <1>7, <1>8, <2>1, <2>2, IssuanceMoves
<1>9. CASE paper \in Buybacks /\ buyback[paper] # Absent
  BY <1>2, <1>3, <1>5, <1>6, <1>7, <1>9, BuybackMoves
<1>10. QED
  BY <1>4, <1>8, <1>9

-----------------------------------------------------------------------------
\* Nothing is issued at first.
LEMMA JrInitially == JrInit => JrIInv
<1> SUFFICES ASSUME JrInit PROVE JrIInv
  OBVIOUS
<1>1. JrTypeOK
  BY DEF JrInit, JrTypeOK, IssuanceRow, ProducedRow, Rights, NoRight
<1>2. \A q \in Request: issuing[q] = Free
  BY DEF JrInit
<1>3. \A q \in Request: \A paper: ~InHand(issuing[q], paper)
  BY <1>2 DEF InHand, Free
<1>4. \A i \in Issuance: PaperOK(i)
  BY <1>3 DEF JrInit, PaperOK, IssuanceOK, RightsOK, MintOK, RightsOf, Alone
<1>5. \A b \in Buybacks: BuybackOK(b)
  BY <1>2, <1>3 DEF JrInit, BuybackOK, Alone, Free
<1>6. QED
  BY <1>1, <1>2, <1>4, <1>5 DEF JrInit, JrIInv, JrStepOK

\* Every step keeps the inductive invariant.
LEMMA JrNextKeeps == ASSUME JrIInv, [JrNext]_jrVars PROVE JrIInv'
<1>1. CASE UNCHANGED jrVars
  <2>1. UNCHANGED <<issuance, right, recorded, produced, buyback, paid, issuing, crossed, dropped, lost>>
    BY <1>1 DEF jrVars
  <2>2. JrTypeOK' /\ \A j \in Issuance: RightsOf(j)' = RightsOf(j)
    BY <2>1 DEF JrIInv, JrTypeOK, RightsOf
  <2>3. \A p \in Request: JrStepOK(issuing[p])'
    BY <2>1 DEF JrIInv, JrStepOK
  <2>4. \A j \in Issuance \ crossed': PaperOK(j)'
    BY <2>1, <2>2, IssuanceUntouched DEF MarksStay
  <2>5. \A b \in Buybacks \ (crossed' \cup dropped'): BuybackOK(b)'
    BY <2>1, BuybackUntouched DEF MarksStay
  <2>6. QED
    BY <2>1, <2>2, <2>3, <2>4, <2>5 DEF JrIInv
<1>2. ASSUME NEW q \in Request,
             \/ \E i \in Issuance: \/ VerifyPaymentLoads(q, i) \/ ConfirmPaymentLoads(q, i)
                                   \/ IssueBegins(q, i) \/ BackfillChecks(q, i)
             \/ \E b \in Buybacks: ApproveBuybackLoads(q, b)
             \/ VerifyPaymentSaves(q) \/ IssuesOnChain(q) \/ CreatesRight(q) \/ IssueRecords(q) \/ ConfirmCompletes(q)
             \/ MintsOnChain(q) \/ RecordsMint(q) \/ MintsGdp(q) \/ MintFails(q)
             \/ PaysBuyback(q) \/ CompletesBuyback(q) \/ ReturnsRight(q) \/ JrDies(q)
      PROVE  JrIInv'
  BY <1>2, IssuanceBegins, ApproveIssuanceKeeps, VerifyKeeps, AnnouncedKeeps, RightMade, CompletedKeeps, GoldMinted,
     RecordKeeps, UnitMintKeeps, FailsKeeps, BuybackKeeps, ReturnKeeps, DiesKeeps
<1>3. ASSUME NEW i \in Issuance, InitiateIssuance(i) PROVE JrIInv'
  BY <1>3, InitiateIssuanceKeeps
<1>4. ASSUME NEW r \in Rights, RequestBuyback(r) PROVE JrIInv'
  BY <1>4, RequestKeeps
<1>5. QED
  BY <1>1, <1>2, <1>3, <1>4 DEF JrNext

\* What the papers' rows are is what the property says of them.
LEMMA RightsAreOnce == JrIInv => IssuesOnce
<1> SUFFICES ASSUME JrIInv PROVE IssuesOnce
  OBVIOUS
<1>1. ASSUME NEW i \in Issuance \ crossed
      PROVE  /\ produced[i].units <= 1
             /\ i \notin lost => produced[i].minted <= 1
             /\ i \notin dropped => produced[i].issued <= 1 /\ Cardinality(RightsOf(i)) <= 1
  <2>1. IssuanceOK(i) /\ (i \notin dropped => RightsOK(i)) /\ (i \notin lost => MintOK(i))
    BY DEF JrIInv, PaperOK
  <2>2. ASSUME i \notin dropped PROVE Cardinality(RightsOf(i)) <= 1
    <3>1. \A r, s \in RightsOf(i): r = s
      BY <2>1, <2>2 DEF RightsOK
    <3>2. PICK S: S = RightsOf(i)
      OBVIOUS
    <3>3. QED
      BY <3>1, <3>2, AtMostOne
  <2>3. QED
    BY <2>1, <2>2 DEF IssuanceOK, RightsOK, MintOK
<1>2. \A b \in Buybacks \ (crossed \cup dropped): paid[b] <= 1
  BY DEF JrIInv, BuybackOK
<1>3. QED
  BY <1>1, <1>2 DEF IssuesOnce

\* A paper is in the hands of one request or marked, and its rows are as that request's
\* step says (irg_jr/views.py, irg_jr/admin.py).
THEOREM JrInductive == JrSpec => []JrIInv
<1>1. JrIInv /\ [JrNext]_jrVars => JrIInv'
  BY JrNextKeeps
<1>2. QED
  BY JrInitially, <1>1, PTL DEF JrSpec

\* The rows have the fields of the models (irg_jr/models.py).
THEOREM JrTypeCorrect == JrSpec => []JrTypeOK
<1>1. JrIInv => JrTypeOK
  BY DEF JrIInv
<1>2. QED
  BY JrInductive, <1>1, PTL

\* Unless two requests work on it at a time, an issuance has one GDP unit at most; it is
\* minted on the chain once, unless a mint was left without its record; a right is issued
\* once and a buyback paid once, unless a request died over it (irg_jr).
THEOREM RightsIssuedOnce == JrSpec => []IssuesOnce
  BY JrInductive, RightsAreOnce, PTL

-----------------------------------------------------------------------------
(* The royalty ledger.  Rows of payments and the copyright only ever grow, so  *)
(* that an older row of the designer is covered by them too; and a request     *)
(* adds to the row it holds only what it has made a payment for.               *)

RoyaltyOf == [o \in Order |-> Royalty[o] * payment[o]]
Earned == SumFunctionOnSet(RoyaltyOf, Order)
Payments == SumFunctionOnSet(payment, Order)
OrdersPlaced == {o \in Order: jdbOrder[o] # "none"}

(* The designer's row is covered with so much more in it. *)
Covered(profile, royalty, orders, copies) ==
    /\ profile.earned + royalty <= Earned
    /\ profile.orders + orders <= Payments
    /\ profile.copyrights + copies <= IF copyright THEN 1 ELSE 0

RegisterStep == [pc: {"register"}, design: DesignRow, designer: DesignerRow]
CopyrightStep == [pc: {"copyright", "count"}, designer: DesignerRow]
AcceptStep == [pc: {"accept"}, order: Order]
PayingStep == [pc: {"pay", "credit"}, order: Order, designer: DesignerRow]
PaidStep == [pc: {"complete"}, order: Order]
PlaceStep == [pc: {"place", "ordered"}, design: DesignRow]
JdbSteps ==
    {Free} \cup RegisterStep \cup CopyrightStep \cup AcceptStep \cup PayingStep \cup PaidStep \cup PlaceStep

(* The rows a request holds are covered. *)
RowsCovered(step) ==
    /\ step.pc = "register" => Covered(step.designer, 0, 0, 0) /\ step.design.ordered <= Cardinality(OrdersPlaced)
    /\ step.pc = "place" => step.design.ordered <= Cardinality(OrdersPlaced)
    /\ step.pc = "ordered" => step.design.ordered + 1 <= Cardinality(OrdersPlaced)
    /\ step.pc = "copyright" => Covered(step.designer, 0, 0, 0)
    /\ step.pc = "count" => Covered(step.designer, 0, 0, 1)
    /\ step.pc = "pay" => Covered(step.designer, 0, 0, 0)
    /\ step.pc = "credit" => Covered(step.designer, Royalty[step.order], 1, 0)
    /\ step.pc \in {"credit", "complete"} => payment[step.order] > 0

JdbIInv ==
    /\ JdbTypeOK
    /\ paying \in [Request -> JdbSteps]
    /\ Covered(designer, 0, 0, 0)
    /\ design.ordered <= Cardinality(OrdersPlaced)
    /\ \A o \in Order: jdbOrder[o] = "COMPLETED" => payment[o] > 0
    /\ \A q \in Request: RowsCovered(paying[q])

\* The property is this, with nothing added to the designer's row.
LEMMA LedgerCovered == JdbIInv => RoyaltyLedger
<1> SUFFICES ASSUME JdbIInv PROVE RoyaltyLedger
  OBVIOUS
<1>1. designer.earned + 0 <= Earned /\ designer.orders + 0 <= Payments
      /\ designer.copyrights + 0 <= IF copyright THEN 1 ELSE 0
  BY DEF JdbIInv, Covered
<1>2. designer.earned \in Nat /\ designer.orders \in Nat /\ designer.copyrights \in Nat
  BY DEF JdbIInv, JdbTypeOK, DesignerRow
<1>3. designer.earned + 0 = designer.earned /\ designer.orders + 0 = designer.orders
      /\ designer.copyrights + 0 = designer.copyrights
  BY <1>2
<1>4. design.ordered <= Cardinality(OrdersPlaced) /\ \A o \in Order: jdbOrder[o] = "COMPLETED" => payment[o] > 0
  BY DEF JdbIInv
<1>5. QED
  BY <1>1, <1>3, <1>4 DEF RoyaltyLedger, Earned, RoyaltyOf, Payments, OrdersPlaced

-----------------------------------------------------------------------------
(* Sums *)

\* They are numbers.
LEMMA LedgerSums == JdbTypeOK => Earned \in Nat /\ Payments \in Nat
<1> SUFFICES ASSUME JdbTypeOK PROVE Earned \in Nat /\ Payments \in Nat
  OBVIOUS
<1>1. IsFiniteSet(Order) /\ \A o \in Order: payment[o] \in Nat /\ RoyaltyOf[o] \in Nat
  BY DesignConstants DEF JdbTypeOK, RoyaltyOf
<1>2. QED
  BY <1>1, SumIsNat DEF Earned, Payments

\* A product, one factor being one more.
LEMMA OneMore == \A a, b \in Nat: a * (b + 1) = a * b + a
  OBVIOUS

\* A payment more.
LEMMA PaymentAdds ==
    ASSUME JdbTypeOK, NEW o \in Order, payment' = [payment EXCEPT ![o] = @ + 1]
    PROVE  Earned' = Earned + Royalty[o] /\ Payments' = Payments + 1
<1>1. IsFiniteSet(Order) /\ Royalty[o] \in Nat /\ payment[o] \in Nat
  BY DesignConstants DEF JdbTypeOK
<1>2. \A x \in Order: payment[x] \in Nat /\ payment'[x] = IF x = o THEN payment[x] + 1 ELSE payment[x]
  BY DEF JdbTypeOK
<1>3. \A x \in Order: payment[x] \in Int /\ payment'[x] \in Int
  BY <1>2
<1>4. Payments' = Payments - payment[o] + payment'[o]
  <2>1. PICK after: after = payment'
    OBVIOUS
  <2>2. \A x \in Order \ {o}: after[x] = payment[x]
    BY <1>2, <2>1
  <2>3. \A x \in Order: payment[x] \in Int /\ after[x] \in Int
    BY <1>3, <2>1
  <2>4. SumFunctionOnSet(after, Order) = SumFunctionOnSet(payment, Order) - payment[o] + after[o]
    BY <1>1, <2>2, <2>3, SumUpdate
  <2>5. QED
    BY <2>1, <2>4 DEF Payments
<1>5. PICK f, g: f = RoyaltyOf /\ g = RoyaltyOf'
  OBVIOUS
<1>6. \A x \in Order: f[x] = Royalty[x] * payment[x] /\ g[x] = Royalty[x] * payment'[x]
  BY <1>5 DEF RoyaltyOf
<1>7. \A x \in Order: Royalty[x] \in Nat
  BY DesignConstants
<1>8. \A x \in Order: f[x] \in Int /\ g[x] \in Int
  BY <1>2, <1>6, <1>7
<1>9. \A x \in Order \ {o}: g[x] = f[x]
  BY <1>2, <1>6
<1>10. SumFunctionOnSet(g, Order) = SumFunctionOnSet(f, Order) - f[o] + g[o]
  BY <1>1, <1>8, <1>9, SumUpdate
<1>11. g[o] = f[o] + Royalty[o]
  <2>1. PICK a \in Nat, b \in Nat: a = Royalty[o] /\ b = payment[o]
    BY <1>1
  <2>2. f[o] = a * b /\ g[o] = a * (b + 1)
    BY <1>2, <1>6, <2>1
  <2>3. QED
    BY <2>1, <2>2, OneMore
<1>12. Earned \in Nat /\ Payments \in Nat
  BY LedgerSums
<1>13. Earned' = Earned + Royalty[o]
  BY <1>1, <1>5, <1>8, <1>10, <1>11, <1>12 DEF Earned
<1>14. Payments' = Payments + 1
  BY <1>2, <1>4, <1>12
<1>15. QED
  BY <1>13, <1>14

-----------------------------------------------------------------------------
(* The steps *)

\* Nothing is taken back.
Grows ==
    /\ Earned' >= Earned /\ Payments' >= Payments
    /\ copyright => copyright'
    /\ Cardinality(OrdersPlaced)' >= Cardinality(OrdersPlaced)
    /\ \A o \in Order: payment[o] > 0 => payment'[o] > 0

\* The orders are finitely many.
LEMMA PlacedFinite == IsFiniteSet(OrdersPlaced) /\ Cardinality(OrdersPlaced) \in Nat
<1>1. IsFiniteSet(OrdersPlaced)
  BY DesignConstants, FS_Subset DEF OrdersPlaced
<1>2. QED
  BY <1>1, FS_CardinalityType

\* What is covered stays so.
LEMMA CoveredStays ==
    ASSUME JdbTypeOK, JdbTypeOK', Grows, NEW profile \in DesignerRow, NEW royalty \in Nat, NEW orders \in Nat,
           NEW copies \in Nat, Covered(profile, royalty, orders, copies)
    PROVE  Covered(profile, royalty, orders, copies)'
<1>1. Earned \in Nat /\ Payments \in Nat /\ (Earned \in Nat /\ Payments \in Nat)'
  BY LedgerSums, PTL
<1>2. profile.earned \in Nat /\ profile.orders \in Nat /\ profile.copyrights \in Nat
  BY DEF DesignerRow
<1>3. /\ profile.earned + royalty <= Earned' /\ profile.orders + orders <= Payments'
  BY <1>1, <1>2 DEF Covered, Grows
<1>4. profile.copyrights + copies <= IF copyright' THEN 1 ELSE 0
  BY <1>2 DEF Covered, Grows
<1>5. QED
  BY <1>3, <1>4 DEF Covered

\* The rows of a request too.
LEMMA RowsStay ==
    ASSUME JdbTypeOK, JdbTypeOK', Grows, NEW step \in JdbSteps, RowsCovered(step)
    PROVE  RowsCovered(step)'
<1>1. 0 \in Nat /\ 1 \in Nat
  OBVIOUS
<1>2. CASE step = Free
  BY <1>2 DEF RowsCovered, Free
<1>3. CASE step \in RegisterStep
  <2>1. step.designer \in DesignerRow /\ step.design.ordered \in Nat /\ step.pc = "register"
    BY <1>3 DEF RegisterStep, DesignRow
  <2>2. Covered(step.designer, 0, 0, 0)'
    BY <1>1, <2>1, CoveredStays DEF RowsCovered
  <2>3. step.design.ordered <= Cardinality(OrdersPlaced)'
    <3>1. Cardinality(OrdersPlaced) \in Nat /\ (Cardinality(OrdersPlaced) \in Nat)'
      BY PlacedFinite, PTL
    <3>2. QED
      BY <2>1, <3>1 DEF RowsCovered, Grows
  <2>4. QED
    BY <2>1, <2>2, <2>3 DEF RowsCovered
<1>4. CASE step \in CopyrightStep
  <2>1. step.designer \in DesignerRow /\ step.pc \in {"copyright", "count"}
    BY <1>4 DEF CopyrightStep
  <2>2. CASE step.pc = "copyright"
    BY <1>1, <2>1, <2>2, CoveredStays DEF RowsCovered
  <2>3. CASE step.pc = "count"
    BY <1>1, <2>1, <2>3, CoveredStays DEF RowsCovered
  <2>4. QED
    BY <2>1, <2>2, <2>3
<1>5. CASE step \in AcceptStep
  BY <1>5 DEF RowsCovered, AcceptStep
<1>6. CASE step \in PayingStep
  <2>1. step.designer \in DesignerRow /\ step.order \in Order /\ Royalty[step.order] \in Nat
        /\ step.pc \in {"pay", "credit"}
    BY <1>6, DesignConstants DEF PayingStep
  <2>2. CASE step.pc = "pay"
    BY <1>1, <2>1, <2>2, CoveredStays DEF RowsCovered
  <2>3. CASE step.pc = "credit"
    <3>1. Covered(step.designer, Royalty[step.order], 1, 0)'
      BY <1>1, <2>1, <2>3, CoveredStays DEF RowsCovered
    <3>2. QED
      BY <2>1, <2>3, <3>1 DEF RowsCovered, Grows
  <2>4. QED
    BY <2>1, <2>2, <2>3
<1>7. CASE step \in PaidStep
  <2>1. step.order \in Order /\ step.pc = "complete"
    BY <1>7 DEF PaidStep
  <2>2. QED
    BY <2>1 DEF RowsCovered, Grows
<1>8. CASE step \in PlaceStep
  <2>1. step.design.ordered \in Nat /\ step.pc \in {"place", "ordered"}
    BY <1>8 DEF PlaceStep, DesignRow
  <2>2. PICK before, after: before = Cardinality(OrdersPlaced) /\ after = Cardinality(OrdersPlaced)'
    OBVIOUS
  <2>3. before \in Nat /\ after \in Nat
    <3>1. Cardinality(OrdersPlaced) \in Nat /\ (Cardinality(OrdersPlaced) \in Nat)'
      BY PlacedFinite, PTL
    <3>2. QED
      BY <2>2, <3>1
  <2>4. before <= after
    BY <2>2 DEF Grows
  <2>5. CASE step.pc = "place"
    <3>1. step.design.ordered <= after
      BY <2>1, <2>2, <2>3, <2>4, <2>5 DEF RowsCovered
    <3>2. QED
      BY <2>2, <2>5, <3>1 DEF RowsCovered
  <2>6. CASE step.pc = "ordered"
    <3>1. step.design.ordered + 1 <= after
      BY <2>1, <2>2, <2>3, <2>4, <2>6 DEF RowsCovered
    <3>2. QED
      BY <2>2, <2>6, <3>1 DEF RowsCovered
  <2>7. QED
    BY <2>1, <2>5, <2>6
<1>9. QED
  BY <1>2, <1>3, <1>4, <1>5, <1>6, <1>7, <1>8 DEF JdbSteps

\* At the start nothing is counted.
LEMMA JdbInitially == JdbInit => JdbIInv
<1> SUFFICES ASSUME JdbInit PROVE JdbIInv
  OBVIOUS
<1>1. JdbTypeOK
  BY DEF JdbInit, JdbTypeOK, DesignRow, DesignOrderStatus, DesignerRow
<1>2. paying \in [Request -> JdbSteps] /\ \A q \in Request: RowsCovered(paying[q])
  BY DEF JdbInit, JdbSteps, RowsCovered, Free
<1>3. Earned \in Nat /\ Payments \in Nat
  BY <1>1, LedgerSums
<1>4. Covered(designer, 0, 0, 0)
  BY <1>3 DEF Covered, JdbInit
<1>5. design.ordered <= Cardinality(OrdersPlaced)
  BY PlacedFinite DEF JdbInit
<1>6. \A o \in Order: jdbOrder[o] = "COMPLETED" => payment[o] > 0
  BY DEF JdbInit
<1>7. QED
  BY <1>1, <1>2, <1>4, <1>5, <1>6 DEF JdbIInv

\* What grows leaves the rows covered that the requests hold.
LEMMA JdbMoves ==
    ASSUME JdbIInv, JdbTypeOK', Grows, paying' \in [Request -> JdbSteps],
           \A p \in Request: paying'[p] = paying[p] \/ RowsCovered(paying[p])',
           designer' = designer \/ Covered(designer, 0, 0, 0)',
           (design.ordered <= Cardinality(OrdersPlaced))',
           \A o \in Order: jdbOrder'[o] = "COMPLETED" => payment'[o] > 0
    PROVE  JdbIInv'
<1>1. ASSUME NEW p \in Request PROVE RowsCovered(paying[p])'
  <2>1. CASE paying'[p] = paying[p]
    <3>1. PICK held \in JdbSteps: held = paying[p]
      BY DEF JdbIInv
    <3>2. RowsCovered(held)'
      BY <3>1, RowsStay DEF JdbIInv
    <3>3. QED
      BY <2>1, <3>1, <3>2
  <2>2. CASE RowsCovered(paying[p])'
    BY <2>2
  <2>3. QED
    BY <2>1, <2>2
<1>2. Covered(designer, 0, 0, 0)'
  <2>1. CASE designer' = designer
    <3>1. PICK profile \in DesignerRow: profile = designer
      BY DEF JdbIInv, JdbTypeOK
    <3>2. Covered(profile, 0, 0, 0)'
      BY <3>1, CoveredStays DEF JdbIInv
    <3>3. QED
      BY <2>1, <3>1, <3>2
  <2>2. QED
    BY <2>1
<1>3. QED
  BY <1>1, <1>2 DEF JdbIInv

\* Without a payment, an order or a copyright nothing grows.
LEMMA NothingGrows == ASSUME JdbTypeOK, UNCHANGED <<copyright, payment, jdbOrder>> PROVE Grows
<1>1. Earned' = Earned /\ Payments' = Payments /\ OrdersPlaced' = OrdersPlaced
  BY DEF Earned, RoyaltyOf, Payments, OrdersPlaced
<1>2. Earned \in Nat /\ Payments \in Nat /\ Cardinality(OrdersPlaced) \in Nat
  BY LedgerSums, PlacedFinite
<1>3. QED
  BY <1>1, <1>2 DEF Grows

\* One request takes the step; what it holds is covered.
LEMMA JdbStepKeeps ==
    ASSUME JdbIInv, NEW q \in Request, NEW step \in JdbSteps, paying' = [paying EXCEPT ![q] = step],
           JdbTypeOK', Grows, RowsCovered(step)',
           designer' = designer \/ Covered(designer, 0, 0, 0)',
           (design.ordered <= Cardinality(OrdersPlaced))',
           \A o \in Order: jdbOrder'[o] = "COMPLETED" => payment'[o] > 0
    PROVE  JdbIInv'
<1>1. \A p \in Request: paying'[p] = IF p = q THEN step ELSE paying[p]
  BY DEF JdbIInv
<1>2. paying' \in [Request -> JdbSteps]
  BY DEF JdbIInv
<1>3. \A p \in Request: paying'[p] = paying[p] \/ RowsCovered(paying[p])'
  BY <1>1
<1>4. QED
  BY <1>2, <1>3, JdbMoves

\* A request loads rows, raises or dies.
LEMMA JdbHoldKeeps ==
    ASSUME JdbIInv, NEW q \in Request, NEW step \in JdbSteps, paying' = [paying EXCEPT ![q] = step],
           RowsCovered(step), UNCHANGED <<design, copyright, jdbOrder, designer, payment>>
    PROVE  JdbIInv'
<1>1. JdbTypeOK'
  BY DEF JdbIInv, JdbTypeOK
<1>2. Grows
  BY NothingGrows DEF JdbIInv
<1>3. RowsCovered(step)'
  BY <1>1, <1>2, RowsStay DEF JdbIInv
<1>4. (design.ordered <= Cardinality(OrdersPlaced))'
  BY DEF JdbIInv, OrdersPlaced
<1>5. \A o \in Order: jdbOrder'[o] = "COMPLETED" => payment'[o] > 0
  BY DEF JdbIInv
<1>6. QED
  BY <1>1, <1>2, <1>3, <1>4, <1>5, JdbStepKeeps

\* A request that is done holds nothing.
LEMMA FreeCovered == Free \in JdbSteps /\ RowsCovered(Free) /\ RowsCovered(Free)'
  BY DEF JdbSteps, RowsCovered, Free

\* The design moves.
LEMMA MovesDesignKeeps ==
    ASSUME JdbIInv, NEW from, NEW to \in {"SUBMITTED", "APPROVED", "REJECTED"}, MovesDesign(from, to) PROVE JdbIInv'
<1>1. design' = [design EXCEPT !.status = to] /\ UNCHANGED <<copyright, jdbOrder, designer, payment, paying>>
  BY DEF MovesDesign
<1>2. design' \in DesignRow /\ design'.ordered = design.ordered
  BY <1>1 DEF JdbIInv, JdbTypeOK, DesignRow
<1>3. JdbTypeOK' /\ paying' \in [Request -> JdbSteps]
  BY <1>1, <1>2 DEF JdbIInv, JdbTypeOK
<1>4. Grows
  BY <1>1, NothingGrows DEF JdbIInv
<1>5. (design.ordered <= Cardinality(OrdersPlaced))'
  BY <1>1, <1>2 DEF JdbIInv, OrdersPlaced
<1>6. \A o \in Order: jdbOrder'[o] = "COMPLETED" => payment'[o] > 0
  BY <1>1 DEF JdbIInv
<1>7. QED
  BY <1>1, <1>3, <1>4, <1>5, <1>6, JdbMoves

\* What a request at some step holds.
LEMMA HeldRows ==
    ASSUME JdbIInv, NEW q \in Request
    PROVE  /\ RowsCovered(paying[q])
           /\ paying[q].pc = "register" => paying[q] \in RegisterStep
           /\ paying[q].pc \in {"copyright", "count"} => paying[q] \in CopyrightStep
           /\ paying[q].pc = "accept" => paying[q] \in AcceptStep
           /\ paying[q].pc \in {"pay", "credit"} => paying[q] \in PayingStep
           /\ paying[q].pc = "complete" => paying[q] \in PaidStep
           /\ paying[q].pc \in {"place", "ordered"} => paying[q] \in PlaceStep
  BY DEF JdbIInv, JdbSteps, Free, RegisterStep, CopyrightStep, AcceptStep, PayingStep, PaidStep, PlaceStep

\* An order more is placed.
LEMMA CreatesOrderKeeps ==
    ASSUME JdbIInv, NEW q \in Request, NEW o \in Order, CreatesOrder(q, o) PROVE JdbIInv'
<1>1. /\ paying[q] \in PlaceStep /\ paying[q].pc = "place" /\ RowsCovered(paying[q])
      /\ jdbOrder[o] = "none" /\ jdbOrder' = [jdbOrder EXCEPT ![o] = "PLACED"]
      /\ UNCHANGED <<design, copyright, designer, payment>>
  BY HeldRows DEF CreatesOrder, PaysAt
<1>2. PICK step: step = [paying[q] EXCEPT !.pc = "ordered"]
  OBVIOUS
<1>3. step \in PlaceStep /\ step.pc = "ordered" /\ step.design = paying[q].design /\ step.design.ordered \in Nat
  BY <1>1, <1>2 DEF PlaceStep, DesignRow
<1>4. step \in JdbSteps /\ paying' = [paying EXCEPT ![q] = step]
  BY <1>2, <1>3 DEF JdbSteps, CreatesOrder, PayStep
<1>5. JdbTypeOK'
  BY <1>1 DEF JdbIInv, JdbTypeOK, DesignOrderStatus
<1>6. \A x \in Order: jdbOrder'[x] = IF x = o THEN "PLACED" ELSE jdbOrder[x]
  BY <1>1 DEF JdbIInv, JdbTypeOK
<1>7. PICK before, after: before = Cardinality(OrdersPlaced) /\ after = Cardinality(OrdersPlaced)'
  OBVIOUS
<1>8. after = before + 1 /\ before \in Nat
  <2>1. OrdersPlaced' = OrdersPlaced \cup {o} /\ o \notin OrdersPlaced
    BY <1>1, <1>6 DEF OrdersPlaced
  <2>2. PICK placed: placed = OrdersPlaced
    OBVIOUS
  <2>3. Cardinality(placed \cup {o}) = Cardinality(placed) + 1
    BY <2>1, <2>2, PlacedFinite, FS_AddElement
  <2>4. QED
    BY <1>7, <2>1, <2>2, <2>3, PlacedFinite
<1>9. Earned' = Earned /\ Payments' = Payments /\ Earned \in Nat /\ Payments \in Nat
  BY <1>1, LedgerSums DEF Earned, RoyaltyOf, Payments, JdbIInv
<1>10. Grows
  BY <1>1, <1>7, <1>8, <1>9 DEF Grows
<1>11. RowsCovered(step)'
  <2>1. paying[q].design.ordered <= before
    BY <1>1, <1>7 DEF RowsCovered
  <2>2. step.design.ordered + 1 <= after
    BY <1>3, <1>8, <2>1
  <2>3. QED
    BY <1>3, <1>7, <2>2 DEF RowsCovered
<1>12. (design.ordered <= Cardinality(OrdersPlaced))'
  <2>1. design.ordered \in Nat /\ design.ordered <= before
    BY <1>7 DEF JdbIInv, JdbTypeOK, DesignRow
  <2>2. design'.ordered <= after
    BY <1>1, <1>8, <2>1
  <2>3. QED
    BY <1>7, <2>2
<1>13. \A x \in Order: jdbOrder'[x] = "COMPLETED" => payment'[x] > 0
  BY <1>1, <1>6 DEF JdbIInv
<1>14. QED
  BY <1>1, <1>4, <1>5, <1>10, <1>11, <1>12, <1>13, JdbStepKeeps

\* The design is saved with one order more than it was loaded with.
LEMMA CountsOrderKeeps == ASSUME JdbIInv, NEW q \in Request, CountsOrder(q) PROVE JdbIInv'
<1>1. /\ paying[q] \in PlaceStep /\ paying[q].pc = "ordered" /\ RowsCovered(paying[q])
      /\ UNCHANGED <<copyright, jdbOrder, designer, payment>>
  BY HeldRows DEF CountsOrder, PaysAt
<1>2. PICK loaded \in DesignRow: loaded = paying[q].design /\ loaded.ordered + 1 <= Cardinality(OrdersPlaced)
  BY <1>1 DEF RowsCovered, PlaceStep
<1>3. PICK saved: saved = [loaded EXCEPT !.ordered = @ + 1]
  OBVIOUS
<1>4. saved \in DesignRow /\ saved.ordered = loaded.ordered + 1
  BY <1>3 DEF DesignRow
<1>5. design' = saved /\ paying' = [paying EXCEPT ![q] = Free]
  BY <1>2, <1>3 DEF CountsOrder, PayStep
<1>6. JdbTypeOK' /\ Grows
  BY <1>1, <1>4, <1>5, NothingGrows DEF JdbIInv, JdbTypeOK
<1>7. (design.ordered <= Cardinality(OrdersPlaced))'
  <2>1. OrdersPlaced' = OrdersPlaced
    BY <1>1 DEF OrdersPlaced
  <2>2. QED
    BY <1>2, <1>4, <1>5, <2>1
<1>8. \A o \in Order: jdbOrder'[o] = "COMPLETED" => payment'[o] > 0
  BY <1>1 DEF JdbIInv
<1>9. QED
  BY <1>1, <1>5, <1>6, <1>7, <1>8, FreeCovered, JdbStepKeeps

\* The requests load the rows.
LEMMA LoadsKeep ==
    ASSUME JdbIInv, NEW q \in Request,
           RegisterCopyright(q) \/ PlaceLoads(q) \/ \E o \in Order: AcceptLoads(q, o) \/ CompleteLoads(q, o)
    PROVE  JdbIInv'
<1>1. Covered(designer, 0, 0, 0) /\ designer \in DesignerRow /\ design \in DesignRow
      /\ design.ordered <= Cardinality(OrdersPlaced)
  BY DEF JdbIInv, JdbTypeOK
<1>2. CASE RegisterCopyright(q)
  <2>1. PICK step: step = [pc |-> "register", design |-> design, designer |-> designer]
    OBVIOUS
  <2>2. step \in RegisterStep /\ step \in JdbSteps
    BY <1>1, <2>1 DEF RegisterStep, JdbSteps
  <2>3. RowsCovered(step)
    BY <1>1, <2>1 DEF RowsCovered
  <2>4. QED
    BY <1>2, <2>1, <2>2, <2>3, JdbHoldKeeps DEF RegisterCopyright, PayStep
<1>3. ASSUME NEW o \in Order, AcceptLoads(q, o) PROVE JdbIInv'
  <2>1. PICK step: step = [pc |-> "accept", order |-> o]
    OBVIOUS
  <2>2. step \in AcceptStep /\ step \in JdbSteps
    BY <2>1 DEF AcceptStep, JdbSteps
  <2>3. RowsCovered(step)
    BY <2>1 DEF RowsCovered
  <2>4. QED
    BY <1>3, <2>1, <2>2, <2>3, JdbHoldKeeps DEF AcceptLoads, PayStep
<1>4. ASSUME NEW o \in Order, CompleteLoads(q, o) PROVE JdbIInv'
  <2>1. PICK step: step = [pc |-> "pay", order |-> o, designer |-> designer]
    OBVIOUS
  <2>2. step \in PayingStep /\ step \in JdbSteps
    BY <1>1, <2>1 DEF PayingStep, JdbSteps
  <2>3. RowsCovered(step)
    BY <1>1, <2>1 DEF RowsCovered
  <2>4. QED
    BY <1>4, <2>1, <2>2, <2>3, JdbHoldKeeps DEF CompleteLoads, PayStep
<1>5. CASE PlaceLoads(q)
  <2>1. PICK step: step = [pc |-> "place", design |-> design]
    OBVIOUS
  <2>2. step \in PlaceStep /\ step \in JdbSteps
    BY <1>1, <2>1 DEF PlaceStep, JdbSteps
  <2>3. RowsCovered(step)
    BY <1>1, <2>1 DEF RowsCovered
  <2>4. QED
    BY <1>5, <2>1, <2>2, <2>3, JdbHoldKeeps DEF PlaceLoads, PayStep
<1>6. QED
  BY <1>2, <1>3, <1>4, <1>5

\* The design is saved as it was read: with no more orders than there were.
LEMMA SavesDesignKeeps == ASSUME JdbIInv, NEW q \in Request, SavesDesign(q) PROVE JdbIInv'
<1>1. paying[q] \in RegisterStep /\ RowsCovered(paying[q]) /\ UNCHANGED <<copyright, jdbOrder, designer, payment>>
  BY HeldRows DEF SavesDesign, PaysAt
<1>2. PICK step: step = [pc |-> "copyright", designer |-> paying[q].designer]
  OBVIOUS
<1>3. step \in CopyrightStep /\ step \in JdbSteps /\ paying' = [paying EXCEPT ![q] = step]
  BY <1>1, <1>2 DEF RegisterStep, CopyrightStep, JdbSteps, SavesDesign, PayStep
<1>4. design' \in DesignRow /\ design'.ordered = paying[q].design.ordered
  BY <1>1 DEF SavesDesign, RegisterStep, DesignRow
<1>5. JdbTypeOK' /\ Grows
  BY <1>1, <1>4, NothingGrows DEF JdbIInv, JdbTypeOK
<1>6. RowsCovered(step)
  BY <1>1, <1>2 DEF RowsCovered, RegisterStep
<1>7. RowsCovered(step)'
  BY <1>3, <1>5, <1>6, RowsStay DEF JdbIInv
<1>8. (design.ordered <= Cardinality(OrdersPlaced))'
  BY <1>1, <1>4 DEF RowsCovered, RegisterStep, OrdersPlaced
<1>9. \A o \in Order: jdbOrder'[o] = "COMPLETED" => payment'[o] > 0
  BY <1>1 DEF JdbIInv
<1>10. QED
  BY <1>1, <1>3, <1>5, <1>7, <1>8, <1>9, JdbStepKeeps

\* The one copyright row; the row the request holds has none yet.
LEMMA CreatesCopyrightKeeps == ASSUME JdbIInv, NEW q \in Request, CreatesCopyright(q) PROVE JdbIInv'
<1>1. /\ paying[q] \in CopyrightStep /\ paying[q].pc = "copyright" /\ RowsCovered(paying[q])
      /\ copyright = FALSE /\ copyright' = TRUE /\ UNCHANGED <<design, jdbOrder, designer, payment>>
  BY HeldRows DEF CreatesCopyright, PaysAt, JdbIInv, JdbTypeOK
<1>2. PICK step: step = [paying[q] EXCEPT !.pc = "count"]
  OBVIOUS
<1>3. step \in CopyrightStep /\ step.pc = "count" /\ step.designer = paying[q].designer
      /\ step.designer \in DesignerRow
  BY <1>1, <1>2 DEF CopyrightStep
<1>4. step \in JdbSteps /\ paying' = [paying EXCEPT ![q] = step]
  BY <1>2, <1>3 DEF JdbSteps, CreatesCopyright, PayStep
<1>5. JdbTypeOK'
  BY <1>1 DEF JdbIInv, JdbTypeOK
<1>6. Earned' = Earned /\ Payments' = Payments /\ OrdersPlaced' = OrdersPlaced
  BY <1>1 DEF Earned, RoyaltyOf, Payments, OrdersPlaced
<1>7. Earned \in Nat /\ Payments \in Nat /\ Cardinality(OrdersPlaced) \in Nat
  BY LedgerSums, PlacedFinite DEF JdbIInv
<1>8. Grows
  BY <1>1, <1>6, <1>7 DEF Grows
<1>9. RowsCovered(step)'
  <2>1. Covered(step.designer, 0, 0, 0)
    BY <1>1, <1>3 DEF RowsCovered
  <2>2. step.designer.copyrights \in Nat
    BY <1>3 DEF DesignerRow
  <2>3. step.designer.copyrights + 1 <= 1
    BY <1>1, <2>1, <2>2 DEF Covered
  <2>4. Covered(step.designer, 0, 0, 1)'
    BY <1>1, <1>6, <2>1, <2>3 DEF Covered
  <2>5. QED
    BY <1>3, <2>4 DEF RowsCovered
<1>10. (design.ordered <= Cardinality(OrdersPlaced))'
  BY <1>1, <1>6 DEF JdbIInv
<1>11. \A o \in Order: jdbOrder'[o] = "COMPLETED" => payment'[o] > 0
  BY <1>1 DEF JdbIInv
<1>12. QED
  BY <1>1, <1>4, <1>5, <1>8, <1>9, <1>10, <1>11, JdbStepKeeps

\* The designer's row is saved with what the request has covered.
LEMMA SavesDesignerKeeps ==
    ASSUME JdbIInv, NEW q \in Request, NEW saved \in DesignerRow, designer' = saved,
           Covered(saved, 0, 0, 0), UNCHANGED <<design, copyright, jdbOrder, payment>>,
           NEW step \in JdbSteps, paying' = [paying EXCEPT ![q] = step], RowsCovered(step)
    PROVE  JdbIInv'
<1>1. JdbTypeOK' /\ Grows
  BY NothingGrows DEF JdbIInv, JdbTypeOK
<1>2. Covered(designer, 0, 0, 0)'
  <2>1. Covered(saved, 0, 0, 0)'
    BY <1>1, CoveredStays DEF JdbIInv
  <2>2. QED
    BY <2>1
<1>3. RowsCovered(step)'
  BY <1>1, RowsStay DEF JdbIInv
<1>4. (design.ordered <= Cardinality(OrdersPlaced))'
  BY DEF JdbIInv, OrdersPlaced
<1>5. \A o \in Order: jdbOrder'[o] = "COMPLETED" => payment'[o] > 0
  BY DEF JdbIInv
<1>6. QED
  BY <1>1, <1>2, <1>3, <1>4, <1>5, JdbStepKeeps

\* A copyright is counted.
LEMMA CountsKeeps == ASSUME JdbIInv, NEW q \in Request, CountsCopyright(q) PROVE JdbIInv'
<1>1. paying[q] \in CopyrightStep /\ paying[q].pc = "count" /\ RowsCovered(paying[q])
  BY HeldRows DEF CountsCopyright, PaysAt
<1>2. PICK held \in DesignerRow: held = paying[q].designer /\ Covered(held, 0, 0, 1)
  BY <1>1 DEF RowsCovered, CopyrightStep
<1>3. PICK saved: saved = [held EXCEPT !.copyrights = @ + 1]
  OBVIOUS
<1>4. held.earned \in Nat /\ held.orders \in Nat /\ held.copyrights \in Nat
  BY DEF DesignerRow
<1>5. saved \in DesignerRow /\ saved.earned = held.earned /\ saved.orders = held.orders
      /\ saved.copyrights = held.copyrights + 1
  BY <1>3, <1>4 DEF DesignerRow
<1>6. Covered(saved, 0, 0, 0)
  BY <1>2, <1>4, <1>5 DEF Covered
<1>7. designer' = saved /\ paying' = [paying EXCEPT ![q] = Free] /\ UNCHANGED <<design, copyright, jdbOrder, payment>>
  BY <1>2, <1>3 DEF CountsCopyright, PayStep
<1>8. QED
  BY <1>5, <1>6, <1>7, FreeCovered, SavesDesignerKeeps

\* A royalty is credited.
LEMMA CreditsKeeps == ASSUME JdbIInv, NEW q \in Request, CreditsDesigner(q) PROVE JdbIInv'
<1>1. paying[q] \in PayingStep /\ paying[q].pc = "credit" /\ RowsCovered(paying[q])
  BY HeldRows DEF CreditsDesigner, PaysAt
<1>2. PICK held \in DesignerRow, o \in Order:
         held = paying[q].designer /\ o = paying[q].order /\ Covered(held, Royalty[o], 1, 0) /\ payment[o] > 0
  BY <1>1 DEF RowsCovered, PayingStep
<1>3. PICK saved: saved = [held EXCEPT !.earned = @ + Royalty[o], !.orders = @ + 1]
  OBVIOUS
<1>4. held.earned \in Nat /\ held.orders \in Nat /\ held.copyrights \in Nat /\ Royalty[o] \in Nat
  BY DesignConstants DEF DesignerRow
<1>5. saved \in DesignerRow /\ saved.earned = held.earned + Royalty[o] /\ saved.orders = held.orders + 1
      /\ saved.copyrights = held.copyrights
  <2>1. PICK earned, orders: earned = held.earned + Royalty[o] /\ orders = held.orders + 1
    OBVIOUS
  <2>2. earned \in Nat /\ orders \in Nat
    BY <1>4, <2>1
  <2>3. saved = [held EXCEPT !.earned = earned, !.orders = orders]
    BY <1>3, <2>1
  <2>4. saved \in DesignerRow /\ saved.earned = earned /\ saved.orders = orders
        /\ saved.copyrights = held.copyrights
    BY <2>2, <2>3 DEF DesignerRow
  <2>5. QED
    BY <2>1, <2>4
<1>6. Covered(saved, 0, 0, 0)
  BY <1>2, <1>4, <1>5 DEF Covered
<1>7. PICK step: step = [pc |-> "complete", order |-> o]
  OBVIOUS
<1>8. step \in PaidStep /\ step \in JdbSteps /\ step.pc = "complete" /\ step.order = o
  BY <1>7 DEF PaidStep, JdbSteps
<1>9. RowsCovered(step)
  BY <1>2, <1>8 DEF RowsCovered
<1>10. designer' = saved /\ paying' = [paying EXCEPT ![q] = step] /\ UNCHANGED <<design, copyright, jdbOrder, payment>>
  BY <1>2, <1>3, <1>7 DEF CreditsDesigner, PayStep
<1>11. QED
  BY <1>5, <1>6, <1>8, <1>9, <1>10, SavesDesignerKeeps

\* The payment row comes before the credit.
LEMMA PaysKeeps == ASSUME JdbIInv, NEW q \in Request, CreatesPayment(q) PROVE JdbIInv'
<1>1. paying[q] \in PayingStep /\ paying[q].pc = "pay" /\ RowsCovered(paying[q])
  BY HeldRows DEF CreatesPayment, PaysAt
<1>2. PICK held \in DesignerRow, o \in Order:
         held = paying[q].designer /\ o = paying[q].order /\ Covered(held, 0, 0, 0)
  BY <1>1 DEF RowsCovered, PayingStep
<1>3. PICK step: step = [paying[q] EXCEPT !.pc = "credit"]
  OBVIOUS
<1>4. step \in PayingStep /\ step \in JdbSteps /\ step.pc = "credit" /\ step.order = o /\ step.designer = held
  BY <1>1, <1>2, <1>3 DEF PayingStep, JdbSteps
<1>5. /\ payment' = [payment EXCEPT ![o] = @ + 1] /\ paying' = [paying EXCEPT ![q] = step]
      /\ UNCHANGED <<design, copyright, jdbOrder, designer>>
  BY <1>2, <1>3 DEF CreatesPayment, PayStep
<1>6. Earned' = Earned + Royalty[o] /\ Payments' = Payments + 1
  BY <1>5, PaymentAdds DEF JdbIInv
<1>7. Earned \in Nat /\ Payments \in Nat /\ Cardinality(OrdersPlaced) \in Nat /\ Royalty[o] \in Nat
  BY LedgerSums, PlacedFinite, DesignConstants DEF JdbIInv
<1>8. \A x \in Order: payment[x] \in Nat /\ payment'[x] = IF x = o THEN payment[x] + 1 ELSE payment[x]
  BY <1>5 DEF JdbIInv, JdbTypeOK
<1>9. JdbTypeOK'
  BY <1>5 DEF JdbIInv, JdbTypeOK
<1>10. OrdersPlaced' = OrdersPlaced
  BY <1>5 DEF OrdersPlaced
<1>11. \A x \in Order: payment[x] > 0 => payment'[x] > 0
  BY <1>8
<1>12. Grows
  BY <1>5, <1>6, <1>7, <1>10, <1>11 DEF Grows
<1>13. RowsCovered(step)'
  <2>1. held.earned \in Nat /\ held.orders \in Nat /\ held.copyrights \in Nat
    BY DEF DesignerRow
  <2>2. held.earned + Royalty[o] <= Earned' /\ held.orders + 1 <= Payments'
    BY <1>2, <1>6, <1>7, <2>1 DEF Covered
  <2>3. held.copyrights + 0 <= IF copyright' THEN 1 ELSE 0
    BY <1>2, <1>5 DEF Covered
  <2>4. Covered(held, Royalty[o], 1, 0)'
    BY <2>2, <2>3 DEF Covered
  <2>5. payment'[o] > 0
    BY <1>8
  <2>6. QED
    BY <1>4, <2>4, <2>5 DEF RowsCovered
<1>14. (design.ordered <= Cardinality(OrdersPlaced))'
  BY <1>5, <1>10 DEF JdbIInv
<1>15. \A x \in Order: jdbOrder'[x] = "COMPLETED" => payment'[x] > 0
  BY <1>5, <1>11 DEF JdbIInv
<1>16. QED
  BY <1>4, <1>5, <1>9, <1>12, <1>13, <1>14, <1>15, JdbStepKeeps

\* The order is saved; it is completed only when it is paid.
LEMMA SavesOrderKeeps ==
    ASSUME JdbIInv, NEW q \in Request, NEW o \in Order, NEW status \in {"IN_PROGRESS", "COMPLETED"},
           status = "COMPLETED" => payment[o] > 0, jdbOrder' = [jdbOrder EXCEPT ![o] = status],
           paying' = [paying EXCEPT ![q] = Free], UNCHANGED <<design, copyright, designer, payment>>
    PROVE  JdbIInv'
<1>1. JdbTypeOK'
  BY DEF JdbIInv, JdbTypeOK, DesignOrderStatus
<1>2. \A x \in Order: jdbOrder'[x] = IF x = o THEN status ELSE jdbOrder[x]
  BY DEF JdbIInv, JdbTypeOK
<1>3. PICK before, after: before = OrdersPlaced /\ after = OrdersPlaced'
  OBVIOUS
<1>4. before \subseteq after /\ after \subseteq Order
  BY <1>2, <1>3 DEF OrdersPlaced
<1>5. IsFiniteSet(after) /\ IsFiniteSet(before)
  BY <1>4, DesignConstants, FS_Subset
<1>6. Cardinality(before) <= Cardinality(after) /\ Cardinality(before) \in Nat /\ Cardinality(after) \in Nat
  BY <1>4, <1>5, FS_Subset, FS_CardinalityType
<1>7. Earned' = Earned /\ Payments' = Payments /\ Earned \in Nat /\ Payments \in Nat
  BY LedgerSums DEF Earned, RoyaltyOf, Payments, JdbIInv
<1>8. Grows
  BY <1>3, <1>6, <1>7 DEF Grows
<1>9. (design.ordered <= Cardinality(OrdersPlaced))'
  <2>1. design.ordered \in Nat /\ design.ordered <= Cardinality(before)
    BY <1>3 DEF JdbIInv, JdbTypeOK, DesignRow
  <2>2. QED
    BY <1>3, <1>6, <2>1
<1>10. \A x \in Order: jdbOrder'[x] = "COMPLETED" => payment'[x] > 0
  BY <1>2 DEF JdbIInv
<1>11. QED
  BY <1>1, <1>8, <1>9, <1>10, FreeCovered, JdbStepKeeps

\* Every step preserves it.
LEMMA JdbNextKeeps == JdbIInv /\ [JdbNext]_jdbVars => JdbIInv'
<1> SUFFICES ASSUME JdbIInv, [JdbNext]_jdbVars PROVE JdbIInv'
  OBVIOUS
<1>1. CASE UNCHANGED jdbVars
  <2>1. JdbTypeOK' /\ Grows /\ paying' \in [Request -> JdbSteps]
    BY <1>1, NothingGrows DEF jdbVars, JdbIInv, JdbTypeOK
  <2>2. (design.ordered <= Cardinality(OrdersPlaced))'
    BY <1>1 DEF jdbVars, JdbIInv, OrdersPlaced
  <2>3. \A x \in Order: jdbOrder'[x] = "COMPLETED" => payment'[x] > 0
    BY <1>1 DEF jdbVars, JdbIInv
  <2>4. QED
    BY <1>1, <2>1, <2>2, <2>3, JdbMoves DEF jdbVars
<1>2. CASE SubmitForApproval \/ ApproveDesign \/ RejectDesign
  BY <1>2, MovesDesignKeeps DEF SubmitForApproval, ApproveDesign, RejectDesign
<1>3. ASSUME NEW q \in Request, CopyrightRaises(q) \/ JdbDies(q) PROVE JdbIInv'
  BY <1>3, FreeCovered, JdbHoldKeeps DEF CopyrightRaises, JdbDies, PayStep
<1>4. ASSUME NEW q \in Request, AcceptSaves(q) PROVE JdbIInv'
  <2>1. PICK o \in Order: o = paying[q].order
    BY <1>4, HeldRows DEF AcceptSaves, PaysAt, AcceptStep
  <2>2. QED
    BY <1>4, <2>1, SavesOrderKeeps DEF AcceptSaves, PayStep
<1>5. ASSUME NEW q \in Request, CompletesOrder(q) PROVE JdbIInv'
  <2>1. PICK o \in Order: o = paying[q].order /\ payment[o] > 0
    BY <1>5, HeldRows DEF CompletesOrder, PaysAt, PaidStep, RowsCovered
  <2>2. QED
    BY <1>5, <2>1, SavesOrderKeeps DEF CompletesOrder, PayStep
<1>6. QED
  BY <1>1, <1>2, <1>3, <1>4, <1>5, LoadsKeep, SavesDesignKeeps, CreatesCopyrightKeeps, CountsKeeps,
     PaysKeeps, CreditsKeeps, CreatesOrderKeeps, CountsOrderKeeps DEF JdbNext

THEOREM JdbInductive == JdbSpec => []JdbIInv
<1>1. JdbInit => JdbIInv
  BY JdbInitially
<1>2. JdbIInv /\ [JdbNext]_jdbVars => JdbIInv'
  BY JdbNextKeeps
<1>3. QED
  BY <1>1, <1>2, PTL DEF JdbSpec

\* The rows of the design bank have the fields of the models.
THEOREM JdbTypeCorrect == JdbSpec => []JdbTypeOK
<1>1. JdbIInv => JdbTypeOK
  BY DEF JdbIInv
<1>2. QED
  BY <1>1, JdbInductive, PTL

\* The designer's row never shows a royalty, an order or a copyright without its
\* own row, and a completed order is paid (irg_jdb/views.py).
THEOREM RoyaltiesCovered == JdbSpec => []RoyaltyLedger
<1>1. JdbIInv => RoyaltyLedger
  BY LedgerCovered
<1>2. QED
  BY <1>1, JdbInductive, PTL

-----------------------------------------------------------------------------
(* Certificates.  A redemption row comes after a settlement, and the           *)
(* certificate is saved as REDEEMED after its row; until then the request that *)
(* made the row is still there, so that nobody else finds the certificate free *)
(* to redeem.                                                                  *)

Deciding == {"approve", "resettle", "finish"}
Redeeming == [pc: {"mature", "settle", "create", "redeem"} \cup Deciding,
              cert: Certificate, redemption: Redemptions \cup {0}]

(* What a request at this step has behind it. *)
HeldOK(step) ==
    /\ step.pc = "create" => settled[step.cert] > 0
    /\ step.pc \in Deciding \cup {"redeem"} => RedemptionsOf(step.cert) # {}
    /\ step.pc \in Deciding => step.redemption \in Redemptions /\ redemption[step.redemption] # Absent

Early(q, c) == redeeming[q].pc \in {"mature", "settle", "create"} /\ redeeming[q].cert = c
Finishing(q, c) == redeeming[q].pc = "redeem" /\ redeeming[q].cert = c

(* One request at most is on its way to the row of the certificate, and none   *)
(* once it is there; the certificate that has it is redeemed, or about to be.  *)
Sole(c) ==
    /\ \A r, s \in RedemptionsOf(c): r = s
    /\ \A p, q \in Request: Early(p, c) /\ Early(q, c) => p = q
    /\ (\E q \in Request: Early(q, c)) => RedemptionsOf(c) = {}
    /\ RedemptionsOf(c) # {} => cert[c] = "REDEEMED" \/ \E q \in Request: Finishing(q, c)

GicIInv ==
    /\ GicTypeOK
    /\ redeeming \in [Request -> {Free} \cup Redeeming]
    /\ \A q \in Request: HeldOK(redeeming[q])
    /\ \A r \in Redemptions: redemption[r] # Absent => settled[redemption[r].cert] > 0
    /\ \A c \in Certificate: cert[c] = "REDEEMED" => RedemptionsOf(c) # {}
    /\ \A c \in Certificate \ contested: Sole(c)

\* It holds of a redeemed certificate that it was settled and has its row.
LEMMA RedeemedHasRow == GicIInv => RedeemedIsSettled
<1> SUFFICES ASSUME GicIInv, NEW c \in Certificate
             PROVE  /\ cert[c] = "REDEEMED" => settled[c] > 0 /\ RedemptionsOf(c) # {}
                    /\ c \notin contested => Cardinality(RedemptionsOf(c)) <= 1
  BY DEF RedeemedIsSettled
<1>1. RedemptionsOf(c) # {} => settled[c] > 0
  BY DEF GicIInv, RedemptionsOf
<1>2. ASSUME c \notin contested PROVE Cardinality(RedemptionsOf(c)) <= 1
  <2>1. \A r, s \in RedemptionsOf(c): r = s
    BY <1>2 DEF GicIInv, Sole
  <2>2. QED
    BY <2>1, AtMostOne
<1>3. QED
  BY <1>1, <1>2 DEF GicIInv

\* At the start there are no certificates.
LEMMA GicInitially == GicInit => GicIInv
<1> SUFFICES ASSUME GicInit PROVE GicIInv
  OBVIOUS
<1>1. GicTypeOK /\ redeeming \in [Request -> {Free} \cup Redeeming]
  BY DEF GicInit, GicTypeOK, CertificateStatus
<1>2. \A r \in Redemptions: redemption[r] = Absent
  BY DEF GicInit
<1>3. \A q \in Request: redeeming[q] = Free /\ HeldOK(redeeming[q])
  BY DEF GicInit, HeldOK, Free, Deciding
<1>4. \A c \in Certificate: RedemptionsOf(c) = {} /\ cert[c] = "none"
  BY <1>2 DEF GicInit, RedemptionsOf
<1>5. \A c \in Certificate: Sole(c)
  BY <1>3, <1>4 DEF Sole, Early, Free
<1>6. QED
  BY <1>1, <1>2, <1>3, <1>4, <1>5 DEF GicIInv

\* A certificate stays sole when no request begins to redeem it and no row comes.
LEMMA SoleStays ==
    ASSUME NEW c, Sole(c), RedemptionsOf(c)' = RedemptionsOf(c),
           \A q \in Request: Early(q, c)' => Early(q, c),
           RedemptionsOf(c) # {} => \/ cert'[c] = "REDEEMED"
                                    \/ /\ cert[c] # "REDEEMED"
                                       /\ \A q \in Request: Finishing(q, c) => Finishing(q, c)'
    PROVE  Sole(c)'
  BY DEF Sole

\* Rows stay, settlements are never taken back, and what is new is settled.
LEMMA GicMoves ==
    ASSUME GicIInv, GicTypeOK', redeeming' \in [Request -> {Free} \cup Redeeming],
           \A q \in Request: redeeming'[q] = redeeming[q] \/ HeldOK(redeeming[q])',
           \A c \in Certificate: settled[c] > 0 => settled'[c] > 0,
           \A r \in Redemptions: redemption[r] # Absent =>
                redemption'[r] # Absent /\ redemption'[r].cert = redemption[r].cert,
           \A r \in Redemptions: redemption[r] = Absent /\ redemption'[r] # Absent =>
                settled'[redemption'[r].cert] > 0,
           \A c \in Certificate: cert'[c] = "REDEEMED" => cert[c] = "REDEEMED" \/ RedemptionsOf(c) # {},
           \A c \in Certificate \ contested': Sole(c)'
    PROVE  GicIInv'
<1>1. \A c: RedemptionsOf(c) \subseteq RedemptionsOf(c)'
  BY DEF RedemptionsOf
<1>2. \A q \in Request: redeeming[q] = Free \/ redeeming[q].cert \in Certificate
  BY DEF GicIInv, Redeeming
<1>3. \A q \in Request: HeldOK(redeeming[q])'
  <2> SUFFICES ASSUME NEW q \in Request, redeeming'[q] = redeeming[q] PROVE HeldOK(redeeming[q])'
    OBVIOUS
  <2>1. HeldOK(redeeming[q])
    BY DEF GicIInv
  <2>2. CASE redeeming[q] = Free
    BY <2>2 DEF HeldOK, Free, Deciding
  <2>3. CASE redeeming[q].cert \in Certificate
    BY <1>1, <2>1, <2>3 DEF HeldOK
  <2>4. QED
    BY <1>2, <2>2, <2>3
<1>4. \A r \in Redemptions: redemption'[r] # Absent => settled'[redemption'[r].cert] > 0
  <2>1. \A r \in Redemptions: redemption[r] # Absent => redemption[r].cert \in Certificate
    BY DEF GicIInv, GicTypeOK, RedemptionRow
  <2>2. QED
    BY <2>1 DEF GicIInv
<1>5. \A c \in Certificate: cert'[c] = "REDEEMED" => RedemptionsOf(c)' # {}
  BY <1>1 DEF GicIInv
<1>6. QED
  BY <1>3, <1>4, <1>5 DEF GicIInv

\* Invest, MarkMatured: a certificate that is not redeemed.
LEMMA CertSavedKeeps ==
    ASSUME GicIInv, NEW c \in Certificate, cert[c] # "REDEEMED",
           NEW status \in CertificateStatus \ {"REDEEMED"}, cert' = [cert EXCEPT ![c] = status],
           UNCHANGED <<redemption, settled, redeeming, contested>>
    PROVE  GicIInv'
<1>1. GicTypeOK' /\ redeeming' \in [Request -> {Free} \cup Redeeming]
  BY DEF GicIInv, GicTypeOK
<1>2. \A d \in Certificate: cert'[d] = IF d = c THEN status ELSE cert[d]
  BY DEF GicIInv, GicTypeOK
<1>3. \A d: RedemptionsOf(d)' = RedemptionsOf(d)
  BY DEF RedemptionsOf
<1>4. ASSUME NEW d \in Certificate \ contested PROVE Sole(d)'
  <2>1. Sole(d)
    BY DEF GicIInv
  <2>2. \A q \in Request: (Early(q, d)' => Early(q, d)) /\ (Finishing(q, d) => Finishing(q, d)')
    BY DEF Early, Finishing
  <2>3. QED
    BY <1>2, <1>3, <2>1, <2>2, SoleStays
<1>5. QED
  BY <1>1, <1>2, <1>4, GicMoves

(* Nothing in the step of q speaks against the certificate being sole. *)
StaysAside(q, step, c) ==
    /\ step.cert = c /\ step.pc \in {"mature", "settle", "create"} => Early(q, c)
    /\ RedemptionsOf(c) # {} => \/ cert'[c] = "REDEEMED"
                                \/ /\ cert[c] # "REDEEMED"
                                   /\ Finishing(q, c) => step.pc = "redeem" /\ step.cert = c

\* One request takes a step, and no row is added or taken away.
LEMMA GicStepKeeps ==
    ASSUME GicIInv, NEW q \in Request, NEW step \in {Free} \cup Redeeming,
           redeeming' = [redeeming EXCEPT ![q] = step], GicTypeOK',
           HeldOK(step)', contested \subseteq contested',
           \A c \in Certificate: settled[c] > 0 => settled'[c] > 0,
           \A r \in Redemptions: /\ redemption'[r] = Absent <=> redemption[r] = Absent
                                 /\ redemption[r] # Absent => redemption'[r].cert = redemption[r].cert,
           \A c \in Certificate: cert'[c] = "REDEEMED" => cert[c] = "REDEEMED" \/ RedemptionsOf(c) # {},
           \A c \in Certificate \ contested': Sole(c)' \/ StaysAside(q, step, c)
    PROVE  GicIInv'
<1>1. \A p \in Request: redeeming'[p] = IF p = q THEN step ELSE redeeming[p]
  BY DEF GicIInv
<1>2. redeeming' \in [Request -> {Free} \cup Redeeming]
  BY DEF GicIInv
<1>3. \A c: RedemptionsOf(c)' = RedemptionsOf(c)
  BY DEF RedemptionsOf
<1>4. ASSUME NEW c \in Certificate \ contested' PROVE Sole(c)'
  <2> SUFFICES ASSUME StaysAside(q, step, c) PROVE Sole(c)'
    OBVIOUS
  <2>1. Sole(c)
    BY DEF GicIInv
  <2>2. \A p \in Request: Early(p, c)' => Early(p, c)
    BY <1>1 DEF Early, StaysAside
  <2>3. RedemptionsOf(c) # {} => \/ cert'[c] = "REDEEMED"
                                 \/ /\ cert[c] # "REDEEMED"
                                    /\ \A p \in Request: Finishing(p, c) => Finishing(p, c)'
    BY <1>1 DEF Finishing, StaysAside
  <2>4. QED
    BY <1>3, <2>1, <2>2, <2>3, SoleStays
<1>5. \A p \in Request: redeeming'[p] = redeeming[p] \/ HeldOK(redeeming[p])'
  BY <1>1
<1>6. QED
  BY <1>2, <1>4, <1>5, GicMoves

\* The certificate is free to redeem: it has no row yet.
LEMMA RedeemLoadsKeeps ==
    ASSUME GicIInv, NEW q \in Request, NEW c \in Certificate, RedeemLoads(q, c) PROVE GicIInv'
<1>1. PICK step: step = [pc |-> IF cert[c] = "ACTIVE" THEN "mature" ELSE "settle", cert |-> c, redemption |-> 0]
  OBVIOUS
<1>2. step \in Redeeming /\ step.cert = c /\ step.pc \in {"mature", "settle"}
  BY <1>1 DEF Redeeming
<1>3. /\ redeeming[q].pc = "free" /\ redeeming' = [redeeming EXCEPT ![q] = step]
      /\ cert[c] \in {"ACTIVE", "MATURED"} /\ UNCHANGED <<cert, redemption, settled>>
  BY <1>1 DEF RedeemLoads, BeginsRedeeming, RedeemsAt
<1>4. \/ contested' = contested \cup {c}
      \/ contested' = contested /\ \A p \in Request: redeeming[p].pc # "free" => redeeming[p].cert # c
  BY DEF RedeemLoads, BeginsRedeeming, RedeemsAt
<1>5. GicTypeOK' /\ contested \subseteq contested'
  BY <1>3, <1>4 DEF GicIInv, GicTypeOK
<1>6. HeldOK(step)'
  BY <1>2 DEF HeldOK, Deciding
<1>7. ASSUME c \notin contested' PROVE Sole(c)'
  <2>1. \A p \in Request: redeeming'[p] = IF p = q THEN step ELSE redeeming[p]
    BY <1>3 DEF GicIInv
  <2>2. contested' = contested /\ \A p \in Request: redeeming[p].pc # "free" => redeeming[p].cert # c
    BY <1>4, <1>7
  <2>3. Sole(c) /\ \A p \in Request: ~ Finishing(p, c)
    BY <1>7, <2>2 DEF GicIInv, Finishing
  <2>4. RedemptionsOf(c)' = {}
    BY <1>3, <2>3 DEF Sole, RedemptionsOf
  <2>5. \A p \in Request: Early(p, c)' => p = q
    BY <2>1, <2>2 DEF Early
  <2>6. QED
    BY <2>4, <2>5 DEF Sole
<1>8. \A d \in Certificate \ contested': Sole(d)' \/ StaysAside(q, step, d)
  BY <1>2, <1>3, <1>7 DEF StaysAside, Finishing
<1>9. QED
  BY <1>2, <1>3, <1>5, <1>6, <1>8, GicStepKeeps

\* It matures in the request that redeems it.
LEMMA RedeemMaturesKeeps == ASSUME GicIInv, NEW q \in Request, RedeemMatures(q) PROVE GicIInv'
<1>1. PICK c \in Certificate: c = redeeming[q].cert
  BY DEF GicIInv, RedeemMatures, RedeemsAt, Free, Redeeming
<1>2. redeeming[q].pc = "mature" /\ redeeming[q] \in Redeeming /\ UNCHANGED <<redemption, settled, contested>>
  BY DEF GicIInv, RedeemMatures, RedeemsAt, Free
<1>3. PICK step: step = [redeeming[q] EXCEPT !.pc = "settle"]
  OBVIOUS
<1>4. step \in Redeeming /\ step.pc = "settle" /\ step.cert = c
  BY <1>1, <1>2, <1>3 DEF Redeeming
<1>5. redeeming' = [redeeming EXCEPT ![q] = step] /\ cert' = [cert EXCEPT ![c] = "MATURED"]
  BY <1>1, <1>3 DEF RedeemMatures, RedeemStep
<1>6. \A d \in Certificate: cert'[d] = IF d = c THEN "MATURED" ELSE cert[d]
  BY <1>5 DEF GicIInv, GicTypeOK
<1>7. GicTypeOK'
  BY <1>2, <1>5 DEF GicIInv, GicTypeOK, CertificateStatus
<1>8. HeldOK(step)'
  BY <1>4 DEF HeldOK, Deciding
<1>9. Early(q, c) /\ (c \notin contested => RedemptionsOf(c) = {})
  BY <1>1, <1>2 DEF Early, GicIInv, Sole
<1>10. \A d \in Certificate \ contested': StaysAside(q, step, d)
  BY <1>2, <1>4, <1>6, <1>9 DEF StaysAside, Finishing
<1>11. \A d \in Certificate: cert'[d] = "REDEEMED" => cert[d] = "REDEEMED"
  BY <1>6
<1>12. QED
  BY <1>2, <1>4, <1>5, <1>7, <1>8, <1>10, <1>11, GicStepKeeps

\* A settlement, by the redemption or again by its approval.
LEMMA SettlesKeeps ==
    ASSUME GicIInv, NEW q \in Request, NEW from, NEW to,
           (from = "settle" /\ to = "create") \/ (from = "resettle" /\ to = "finish"),
           Settles(q, from, to)
    PROVE  GicIInv'
<1>1. redeeming[q].pc = from /\ redeeming[q] \in Redeeming /\ UNCHANGED <<cert, redemption, contested>>
  BY DEF GicIInv, Settles, RedeemsAt, Free
<1>2. PICK c \in Certificate: c = redeeming[q].cert
  BY <1>1 DEF Redeeming
<1>3. PICK step: step = [redeeming[q] EXCEPT !.pc = to]
  OBVIOUS
<1>4. step \in Redeeming /\ step.pc = to /\ step.cert = c /\ step.redemption = redeeming[q].redemption
  BY <1>1, <1>2, <1>3 DEF Redeeming, Deciding
<1>5. redeeming' = [redeeming EXCEPT ![q] = step] /\ settled' = [settled EXCEPT ![c] = @ + 1]
  BY <1>2, <1>3 DEF Settles, RedeemStep
<1>6. /\ settled' \in [Certificate -> Nat] /\ settled'[c] > 0
      /\ \A d \in Certificate: settled[d] > 0 => settled'[d] > 0
  BY <1>5 DEF GicIInv, GicTypeOK
<1>7. GicTypeOK'
  BY <1>1, <1>6 DEF GicIInv, GicTypeOK
<1>8. HeldOK(step)'
  <2>1. HeldOK(redeeming[q])
    BY DEF GicIInv
  <2>2. RedemptionsOf(c)' = RedemptionsOf(c)
    BY <1>1 DEF RedemptionsOf
  <2>3. QED
    BY <1>1, <1>2, <1>4, <1>6, <2>1, <2>2 DEF HeldOK, Deciding
<1>9. \A d \in Certificate \ contested': StaysAside(q, step, d)
  BY <1>1, <1>2, <1>4 DEF StaysAside, Finishing, Early
<1>10. QED
  BY <1>1, <1>4, <1>5, <1>6, <1>7, <1>8, <1>9, GicStepKeeps

\* The first row of the certificate: nobody else was on the way to one.
LEMMA RedeemCreatesKeeps == ASSUME GicIInv, NEW q \in Request, RedeemCreates(q) PROVE GicIInv'
<1>1. redeeming[q].pc = "create" /\ redeeming[q] \in Redeeming /\ UNCHANGED <<cert, settled, contested>>
  BY DEF GicIInv, RedeemCreates, RedeemsAt, Free
<1>2. PICK c \in Certificate: c = redeeming[q].cert
  BY <1>1 DEF Redeeming
<1>3. PICK step: step = [redeeming[q] EXCEPT !.pc = "redeem"]
  OBVIOUS
<1>4. step \in Redeeming /\ step.pc = "redeem" /\ step.cert = c
  BY <1>1, <1>2, <1>3 DEF Redeeming
<1>5. PICK n: n = NextRow(redemption)
  OBVIOUS
<1>6. n \in Redemptions /\ redemption[n] = Absent
  <2>1. DOMAIN redemption = 1..MaxRedemption /\ MaxRedemption \in Nat /\ HasRoom(redemption)
    BY GicConstants DEF GicIInv, GicTypeOK, Redemptions, RedeemCreates
  <2>2. QED
    BY <1>5, <2>1, NextRowIsFree DEF Redemptions
<1>7. PICK created: created = [status |-> "REQUESTED", cert |-> c]
  OBVIOUS
<1>8. created \in RedemptionRow /\ created # Absent /\ created.cert = c
  BY <1>7 DEF RedemptionRow, Absent
<1>9. redeeming' = [redeeming EXCEPT ![q] = step] /\ redemption' = [redemption EXCEPT ![n] = created]
  BY <1>2, <1>3, <1>5, <1>7 DEF RedeemCreates, RedeemStep
<1>10. \A r \in Redemptions: redemption'[r] = IF r = n THEN created ELSE redemption[r]
  BY <1>9 DEF GicIInv, GicTypeOK
<1>11. GicTypeOK'
  BY <1>1, <1>8, <1>9 DEF GicIInv, GicTypeOK
<1>12. \A p \in Request: redeeming'[p] = IF p = q THEN step ELSE redeeming[p]
  BY <1>9 DEF GicIInv
<1>13. redeeming' \in [Request -> {Free} \cup Redeeming]
  BY <1>4, <1>9 DEF GicIInv
<1>14. \A d: RedemptionsOf(d)' = IF d = c THEN RedemptionsOf(d) \cup {n} ELSE RedemptionsOf(d)
  BY <1>6, <1>8, <1>10 DEF RedemptionsOf
<1>15. settled[c] > 0 /\ Early(q, c)
  BY <1>1, <1>2 DEF GicIInv, HeldOK, Early
<1>16. HeldOK(redeeming[q])'
  BY <1>4, <1>12, <1>14 DEF HeldOK, Deciding
<1>17. ASSUME c \notin contested PROVE Sole(c)'
  <2>1. RedemptionsOf(c) = {} /\ \A p \in Request: Early(p, c) => p = q
    BY <1>15, <1>17 DEF GicIInv, Sole
  <2>2. \A p \in Request: ~ Early(p, c)'
    BY <1>4, <1>12, <2>1 DEF Early
  <2>3. Finishing(q, c)'
    BY <1>4, <1>12 DEF Finishing
  <2>4. RedemptionsOf(c)' = {n}
    BY <1>14, <2>1
  <2>5. QED
    BY <2>2, <2>3, <2>4 DEF Sole
<1>18. ASSUME NEW d \in Certificate \ contested, d # c PROVE Sole(d)'
  <2>1. Sole(d) /\ RedemptionsOf(d)' = RedemptionsOf(d) /\ cert'[d] = cert[d]
    BY <1>1, <1>14, <1>18 DEF GicIInv
  <2>2. \A p \in Request: (Early(p, d)' => Early(p, d)) /\ (Finishing(p, d) => Finishing(p, d)')
    BY <1>1, <1>4, <1>12, <1>18 DEF Early, Finishing
  <2>3. QED
    BY <2>1, <2>2, SoleStays
<1>19. \A d \in Certificate \ contested': Sole(d)'
  BY <1>1, <1>17, <1>18
<1>20. /\ \A r \in Redemptions: redemption[r] # Absent =>
              redemption'[r] # Absent /\ redemption'[r].cert = redemption[r].cert
       /\ \A r \in Redemptions: redemption[r] = Absent /\ redemption'[r] # Absent =>
              settled'[redemption'[r].cert] > 0
  BY <1>1, <1>6, <1>8, <1>10, <1>15
<1>21. \A p \in Request: redeeming'[p] = redeeming[p] \/ HeldOK(redeeming[p])'
  BY <1>12, <1>16
<1>22. QED
  BY <1>1, <1>11, <1>13, <1>19, <1>20, <1>21, GicMoves

\* The certificate is saved as redeemed; it has a row.
LEMMA RedeemSavesKeeps == ASSUME GicIInv, NEW q \in Request, RedeemSaves(q) PROVE GicIInv'
<1>1. redeeming[q].pc = "redeem" /\ redeeming[q] \in Redeeming /\ UNCHANGED <<redemption, settled, contested>>
  BY DEF GicIInv, RedeemSaves, RedeemsAt, Free
<1>2. PICK c \in Certificate: c = redeeming[q].cert
  BY <1>1 DEF Redeeming
<1>3. redeeming' = [redeeming EXCEPT ![q] = Free] /\ cert' = [cert EXCEPT ![c] = "REDEEMED"]
  BY <1>2 DEF RedeemSaves, RedeemEnds
<1>4. \A d \in Certificate: cert'[d] = IF d = c THEN "REDEEMED" ELSE cert[d]
  BY <1>3 DEF GicIInv, GicTypeOK
<1>5. GicTypeOK'
  BY <1>1, <1>3 DEF GicIInv, GicTypeOK, CertificateStatus
<1>6. HeldOK(Free)'
  BY DEF HeldOK, Free, Deciding
<1>7. RedemptionsOf(c) # {}
  BY <1>1, <1>2 DEF GicIInv, HeldOK
<1>8. \A d \in Certificate \ contested': StaysAside(q, Free, d)
  BY <1>1, <1>2, <1>4 DEF StaysAside, Finishing, Free
<1>9. \A d \in Certificate: cert'[d] = "REDEEMED" => cert[d] = "REDEEMED" \/ RedemptionsOf(d) # {}
  BY <1>4, <1>7
<1>10. QED
  BY <1>1, <1>3, <1>5, <1>6, <1>8, <1>9, GicStepKeeps

\* The status of a redemption is saved; its row stays the certificate's.
LEMMA RedemptionSaved ==
    ASSUME GicIInv, NEW r \in Redemptions, redemption[r] # Absent,
           NEW status \in {"REQUESTED", "PROCESSING", "COMPLETED", "REJECTED"}, SavesRedemption(r, status)
    PROVE  /\ GicTypeOK'
           /\ \A s \in Redemptions: /\ redemption'[s] = Absent <=> redemption[s] = Absent
                                    /\ redemption[s] # Absent => redemption'[s].cert = redemption[s].cert
           /\ UNCHANGED <<cert, settled, contested>>
<1>1. redemption[r] \in RedemptionRow
  BY DEF GicIInv, GicTypeOK
<1>2. PICK saved: saved = [redemption[r] EXCEPT !.status = status]
  OBVIOUS
<1>3. saved \in RedemptionRow /\ saved.cert = redemption[r].cert /\ saved # Absent
  BY <1>1, <1>2 DEF RedemptionRow, Absent
<1>4. redemption' = [redemption EXCEPT ![r] = saved] /\ UNCHANGED <<cert, settled, contested>>
  BY <1>2 DEF SavesRedemption
<1>5. \A s \in Redemptions: redemption'[s] = IF s = r THEN saved ELSE redemption[s]
  BY <1>4 DEF GicIInv, GicTypeOK
<1>6. GicTypeOK'
  BY <1>3, <1>4 DEF GicIInv, GicTypeOK
<1>7. QED
  BY <1>3, <1>4, <1>5, <1>6

\* The approval of a redemption takes a step that saves the redemption, and ends
\* or goes on with the same one.
LEMMA ApprovalSavesKeeps ==
    ASSUME GicIInv, NEW q \in Request, redeeming[q].pc \in Deciding,
           NEW status \in {"REQUESTED", "PROCESSING", "COMPLETED", "REJECTED"},
           SavesRedemption(redeeming[q].redemption, status),
           NEW step \in {Free} \cup Redeeming, redeeming' = [redeeming EXCEPT ![q] = step],
           \/ step = Free
           \/ /\ step.cert = redeeming[q].cert /\ step.redemption = redeeming[q].redemption
              /\ step.pc \in {"resettle", "redeem"}
    PROVE  GicIInv'
<1>1. redeeming[q] \in Redeeming
  BY DEF GicIInv, Free, Deciding
<1>2. PICK r \in Redemptions: r = redeeming[q].redemption /\ redemption[r] # Absent
  BY DEF GicIInv, HeldOK
<1>3. PICK c \in Certificate: c = redeeming[q].cert
  BY <1>1 DEF Redeeming
<1>4. /\ GicTypeOK'
      /\ \A s \in Redemptions: /\ redemption'[s] = Absent <=> redemption[s] = Absent
                               /\ redemption[s] # Absent => redemption'[s].cert = redemption[s].cert
      /\ UNCHANGED <<cert, settled, contested>>
  BY <1>2, RedemptionSaved
<1>5. RedemptionsOf(c)' = RedemptionsOf(c) /\ RedemptionsOf(c) # {}
  BY <1>3, <1>4 DEF RedemptionsOf, GicIInv, HeldOK
<1>6. HeldOK(step)'
  BY <1>2, <1>3, <1>4, <1>5 DEF HeldOK, Deciding, Free
<1>7. \A d \in Certificate \ contested': StaysAside(q, step, d)
  BY <1>4 DEF StaysAside, Finishing, Free, Deciding
<1>8. QED
  BY <1>4, <1>6, <1>7, GicStepKeeps

\* The admin takes a redemption that was requested.
LEMMA ApproveCertKeeps ==
    ASSUME GicIInv, NEW q \in Request, NEW r \in Redemptions, ApproveRedemption(q, r) PROVE GicIInv'
<1>1. redeeming[q].pc = "free" /\ redemption[r] # Absent /\ UNCHANGED <<cert, redemption, settled, contested>>
  BY DEF ApproveRedemption, RedeemsAt
<1>2. PICK c \in Certificate: c = redemption[r].cert
  BY <1>1 DEF GicIInv, GicTypeOK, RedemptionRow
<1>3. PICK step: step = [pc |-> "approve", cert |-> c, redemption |-> r]
  OBVIOUS
<1>4. step \in Redeeming /\ step.pc = "approve" /\ step.cert = c /\ step.redemption = r
  BY <1>3 DEF Redeeming, Deciding
<1>5. redeeming' = [redeeming EXCEPT ![q] = step]
  BY <1>2, <1>3 DEF ApproveRedemption
<1>6. r \in RedemptionsOf(c)'
  BY <1>1, <1>2 DEF RedemptionsOf
<1>7. HeldOK(step)'
  BY <1>1, <1>4, <1>6 DEF HeldOK
<1>8. GicTypeOK'
  BY <1>1 DEF GicIInv, GicTypeOK
<1>9. \A d \in Certificate \ contested': StaysAside(q, step, d)
  BY <1>1, <1>4 DEF StaysAside, Finishing
<1>10. QED
  BY <1>1, <1>4, <1>5, <1>7, <1>8, <1>9, GicStepKeeps

\* A redemption is rejected, whoever is at work on it.
LEMMA RejectKeeps == ASSUME GicIInv, NEW r \in Redemptions, RejectRedemption(r) PROVE GicIInv'
<1>1. redemption[r] # Absent /\ redeeming' = redeeming /\ SavesRedemption(r, "REJECTED")
  BY DEF RejectRedemption
<1>2. /\ GicTypeOK'
      /\ \A s \in Redemptions: /\ redemption'[s] = Absent <=> redemption[s] = Absent
                               /\ redemption[s] # Absent => redemption'[s].cert = redemption[s].cert
      /\ UNCHANGED <<cert, settled, contested>>
  BY <1>1, RedemptionSaved
<1>3. ASSUME NEW c \in Certificate \ contested PROVE Sole(c)'
  <2>1. RedemptionsOf(c)' = RedemptionsOf(c) /\ Sole(c)
    BY <1>2 DEF RedemptionsOf, GicIInv
  <2>2. \A q \in Request: (Early(q, c)' => Early(q, c)) /\ (Finishing(q, c) => Finishing(q, c)')
    BY <1>1 DEF Early, Finishing
  <2>3. QED
    BY <1>2, <2>1, <2>2, SoleStays
<1>4. redeeming' \in [Request -> {Free} \cup Redeeming]
  BY <1>1 DEF GicIInv
<1>5. QED
  BY <1>1, <1>2, <1>3, <1>4, GicMoves

\* A request dies; what it was redeeming is contested from now on.
LEMMA GicDiesKeeps == ASSUME GicIInv, NEW q \in Request, GicDies(q) PROVE GicIInv'
<1>1. redeeming[q] \in Redeeming /\ UNCHANGED <<cert, redemption, settled>>
  BY DEF GicIInv, GicDies, RedeemsAt, Free
<1>2. PICK c \in Certificate: c = redeeming[q].cert
  BY <1>1 DEF Redeeming
<1>3. redeeming' = [redeeming EXCEPT ![q] = Free] /\ contested' = contested \cup {c}
  BY <1>2 DEF GicDies, RedeemEnds
<1>4. GicTypeOK' /\ contested \subseteq contested'
  BY <1>1, <1>3 DEF GicIInv, GicTypeOK
<1>5. HeldOK(Free)'
  BY DEF HeldOK, Free, Deciding
<1>6. \A d \in Certificate \ contested': StaysAside(q, Free, d)
  BY <1>1, <1>2, <1>3 DEF StaysAside, Finishing, Free
<1>7. QED
  BY <1>1, <1>3, <1>4, <1>5, <1>6, GicStepKeeps

\* Every step preserves it.
LEMMA GicNextKeeps == GicIInv /\ [GicNext]_gicVars => GicIInv'
<1> SUFFICES ASSUME GicIInv, [GicNext]_gicVars PROVE GicIInv'
  OBVIOUS
<1>1. CASE UNCHANGED gicVars
  <2>1. GicTypeOK' /\ redeeming' \in [Request -> {Free} \cup Redeeming]
    BY <1>1 DEF gicVars, GicIInv, GicTypeOK
  <2>2. \A c \in Certificate \ contested': Sole(c)'
    BY <1>1 DEF gicVars, GicIInv, Sole, Early, Finishing, RedemptionsOf
  <2>3. QED
    BY <1>1, <2>1, <2>2, GicMoves DEF gicVars
<1>2. ASSUME NEW c \in Certificate, Invest(c) \/ MarkMatured(c) PROVE GicIInv'
  BY <1>2, CertSavedKeeps DEF Invest, MarkMatured, CertificateStatus
<1>3. ASSUME NEW q \in Request, ApprovalProcesses(q) \/ ApprovalCompletes(q) \/ ApprovalRaises(q) PROVE GicIInv'
  <2>1. redeeming[q].pc \in Deciding /\ redeeming[q] \in Redeeming
    BY <1>3 DEF ApprovalProcesses, ApprovalCompletes, ApprovalRaises, RedeemsAt, Deciding, GicIInv, Free
  <2>2. ASSUME NEW pc \in {"resettle", "redeem"}, RedeemStep(q, pc),
               NEW status \in {"PROCESSING", "COMPLETED"}, SavesRedemption(redeeming[q].redemption, status)
        PROVE  GicIInv'
    <3>1. PICK step: step = [redeeming[q] EXCEPT !.pc = pc]
      OBVIOUS
    <3>2. step \in Redeeming /\ step.pc = pc /\ step.cert = redeeming[q].cert
          /\ step.redemption = redeeming[q].redemption
      BY <2>1, <3>1 DEF Redeeming, Deciding
    <3>3. redeeming' = [redeeming EXCEPT ![q] = step]
      BY <2>2, <3>1 DEF RedeemStep
    <3>4. QED
      BY <2>1, <2>2, <3>2, <3>3, ApprovalSavesKeeps
  <2>3. CASE ApprovalRaises(q)
    BY <2>1, <2>3, ApprovalSavesKeeps DEF ApprovalRaises, RedeemEnds
  <2>4. QED
    BY <1>3, <2>2, <2>3 DEF ApprovalProcesses, ApprovalCompletes
<1>4. ASSUME NEW q \in Request, RedeemSettles(q) \/ ApprovalSettles(q) PROVE GicIInv'
  <2>1. Settles(q, "settle", "create") \/ Settles(q, "resettle", "finish")
    BY <1>4 DEF RedeemSettles, ApprovalSettles
  <2>2. CASE Settles(q, "settle", "create")
    BY <2>2, SettlesKeeps
  <2>3. CASE Settles(q, "resettle", "finish")
    BY <2>3, SettlesKeeps
  <2>4. QED
    BY <2>1, <2>2, <2>3
<1>5. QED
  BY <1>1, <1>2, <1>3, <1>4, RedeemLoadsKeeps, RedeemMaturesKeeps, RedeemCreatesKeeps, RedeemSavesKeeps,
     ApproveCertKeeps, RejectKeeps, GicDiesKeeps DEF GicNext

THEOREM GicInductive == GicSpec => []GicIInv
<1>1. GicInit => GicIInv
  BY GicInitially
<1>2. GicIInv /\ [GicNext]_gicVars => GicIInv'
  BY GicNextKeeps
<1>3. QED
  BY <1>1, <1>2, PTL DEF GicSpec

\* The certificate rows have the fields of the models.
THEOREM GicTypeCorrect == GicSpec => []GicTypeOK
<1>1. GicIInv => GicTypeOK
  BY DEF GicIInv
<1>2. QED
  BY <1>1, GicInductive, PTL

\* A redeemed certificate was settled and has its redemption; it has one, unless
\* two requests redeem it at a time or one dies half done (irg_gic/views.py).
THEOREM CertificatesSettled == GicSpec => []RedeemedIsSettled
<1>1. GicIInv => RedeemedIsSettled
  BY RedeemedHasRow
<1>2. QED
  BY <1>1, GicInductive, PTL

-----------------------------------------------------------------------------
(* Disputes *)

FileStep == [pc: {"file"}, dispute: Dispute, ombudsman: Ombudsman]
DisputeStepOK(step) == step = Free \/ step \in FileStep \/ step.pc \in {"resolve", "settle", "paid"}

DisputeIInv == DisputeTypeOK /\ DOMAIN handling = Request /\ \A q \in Request: DisputeStepOK(handling[q])

\* A request that stores a dispute has its ombudsman.
LEMMA DisputeNextKeeps == ASSUME DisputeIInv, [DisputeNext]_disputeVars PROVE DisputeIInv'
<1>1. ASSUME NEW q \in Request, NEW step, Handles(q, step), DisputeStepOK(step), DisputeTypeOK' PROVE DisputeIInv'
  <2>1. DOMAIN handling' = Request /\ \A p \in Request: handling'[p] = IF p = q THEN step ELSE handling[p]
    BY <1>1 DEF Handles, DisputeIInv
  <2>2. \A p \in Request: DisputeStepOK(handling'[p])
    BY <1>1, <2>1 DEF DisputeIInv
  <2>3. QED
    BY <1>1, <2>1, <2>2 DEF DisputeIInv, DisputeStepOK
<1>2. ASSUME UNCHANGED handling, DisputeTypeOK' PROVE DisputeIInv'
  BY <1>2 DEF DisputeIInv, DisputeStepOK
<1>3. DisputeStepOK(Free)
  BY DEF DisputeStepOK
<1>4. UNCHANGED <<dispute, compensation, sent>> => DisputeTypeOK'
  BY DEF DisputeIInv, DisputeTypeOK
<1>5. ASSUME NEW q \in Request, NEW d \in Dispute, NEW o \in Ombudsman, FileAssigns(q, d, o) PROVE DisputeIInv'
  <2>1. PICK step: step = [pc |-> "file", dispute |-> d, ombudsman |-> o]
    OBVIOUS
  <2>2. Handles(q, step) /\ DisputeStepOK(step) /\ UNCHANGED <<dispute, compensation, sent>>
    BY <1>5, <2>1 DEF FileAssigns, DisputeStepOK, FileStep
  <2>3. QED
    BY <1>1, <1>4, <2>2
<1>6. ASSUME NEW q \in Request, FileStores(q) PROVE DisputeIInv'
  <2>1. handling[q] \in FileStep
    BY <1>6 DEF FileStores, HandlesAt, DisputeIInv, DisputeStepOK, Free
  <2>2. [status |-> "FILED", ombudsman |-> handling[q].ombudsman] \in DisputeRow
    BY <2>1 DEF FileStep, DisputeRow, Open
  <2>3. DisputeTypeOK'
    BY <1>6, <2>1, <2>2 DEF FileStores, DisputeIInv, DisputeTypeOK
  <2>4. QED
    BY <1>1, <1>3, <1>6, <2>3 DEF FileStores
<1>7. ASSUME NEW d \in Dispute, StartReview(d) PROVE DisputeIInv'
  <2>1. dispute[d] \in DisputeRow
    BY <1>7 DEF StartReview, DisputeIInv, DisputeTypeOK
  <2>2. [dispute[d] EXCEPT !.status = "UNDER_REVIEW"] \in DisputeRow
    BY <2>1 DEF DisputeRow, Open
  <2>3. DisputeTypeOK'
    BY <1>7, <2>2 DEF StartReview, DisputeIInv, DisputeTypeOK
  <2>4. QED
    BY <1>2, <1>7, <2>3 DEF StartReview
<1>8. CASE AdminOrdersCompensation
  <2>1. DisputeTypeOK'
    BY <1>8 DEF AdminOrdersCompensation, DisputeIInv, DisputeTypeOK, CompensationStatus
  <2>2. QED
    BY <1>2, <1>8, <2>1 DEF AdminOrdersCompensation
<1>9. ASSUME NEW q \in Request,
             (\E d \in Dispute: ResolveBegins(q, d)) \/ ResolveRaises(q) \/ MarkPaidLoads(q) \/ DisputeDies(q)
      PROVE  DisputeIInv'
  <2>1. DisputeTypeOK'
    BY <1>4, <1>9 DEF ResolveBegins, ResolveRaises, MarkPaidLoads, DisputeDies
  <2>2. ASSUME NEW d \in Dispute, ResolveBegins(q, d) PROVE DisputeIInv'
    <3>1. PICK step: step = [pc |-> "resolve", dispute |-> d]
      OBVIOUS
    <3>2. Handles(q, step) /\ DisputeStepOK(step)
      BY <2>2, <3>1 DEF ResolveBegins, DisputeStepOK
    <3>3. QED
      BY <1>1, <2>1, <3>2
  <2>3. CASE MarkPaidLoads(q)
    <3>1. PICK step: step = [pc |-> "settle"]
      OBVIOUS
    <3>2. Handles(q, step) /\ DisputeStepOK(step)
      BY <2>3, <3>1 DEF MarkPaidLoads, DisputeStepOK
    <3>3. QED
      BY <1>1, <2>1, <3>2
  <2>4. CASE ResolveRaises(q) \/ DisputeDies(q)
    BY <1>1, <1>3, <2>1, <2>4 DEF ResolveRaises, DisputeDies
  <2>5. QED
    BY <1>9, <2>2, <2>3, <2>4
<1>10. ASSUME NEW q \in Request, MarkPaidSettles(q) \/ MarkPaidSaves(q) PROVE DisputeIInv'
  <2>1. PICK step: Handles(q, step) /\ DisputeStepOK(step)
    BY <1>3, <1>10 DEF MarkPaidSettles, MarkPaidSaves, DisputeStepOK
  <2>2. DisputeTypeOK'
    BY <1>10 DEF MarkPaidSettles, MarkPaidSaves, DisputeIInv, DisputeTypeOK, CompensationStatus
  <2>3. QED
    BY <1>1, <2>1, <2>2
<1>11. CASE UNCHANGED disputeVars
  BY <1>2, <1>4, <1>11 DEF disputeVars
<1>12. QED
  BY <1>5, <1>6, <1>7, <1>8, <1>9, <1>10, <1>11 DEF DisputeNext

\* Dispute and compensation rows have the fields of the models (disputes/models.py).
THEOREM DisputeTypeCorrect == DisputeSpec => []DisputeTypeOK
<1>1. DisputeInit => DisputeIInv
  BY DEF DisputeInit, DisputeIInv, DisputeTypeOK, DisputeStepOK, CompensationStatus
<1>2. DisputeIInv /\ [DisputeNext]_disputeVars => DisputeIInv'
  BY DisputeNextKeeps
<1>3. DisputeIInv => DisputeTypeOK
  BY DEF DisputeIInv
<1>4. QED
  BY <1>1, <1>2, <1>3, PTL DEF DisputeSpec

-----------------------------------------------------------------------------
(* The inactivity watchdog.  The nominees of a wallet that is not outdated are *)
(* alerted late enough because each stage is saved a term after the one before *)
(* it, the prompt a year after the owner was last seen; and this holds of      *)
(* every copy of the row: the table's, the sweep's and a handler's.            *)

SweepRecord == [began: Time, todo: SUBSET Wallet, rows: {<<>>} \cup [Wallet -> Rows]]

(* The stages of a copy of the row came a year after the owner was last seen. *)
StagesLate(r, since) ==
    /\ r.last = since
    /\ r.prompt # Never => r.prompt >= since + PromptAfter
    /\ r.reminder # Never => r.reminder >= since + PromptAfter

(* The copies of the wallet's row. *)
RowHeld(w) == heldRow[w] # NotHeld => StagesLate(heldRow[w], seen[w])
RowSwept(w) == w \in sweep.todo => StagesLate(sweep.rows[w], seen[w])
Timely(w) == StagesLate(row[w], seen[w]) /\ RowHeld(w) /\ RowSwept(w)

InactivityIInv ==
    /\ InactivityTypeOK
    /\ sweep \in SweepRecord
    /\ sweep.todo # {} => sweep.began <= now /\ sweep.rows \in [Wallet -> Rows]
    /\ \A w \in Wallet \ outdated: Timely(w)

\* An alert that is due comes a year after the owner was last seen.
LEMMA AlertsAreLate == InactivityIInv => AlertsOnlyTheSilent
<1> SUFFICES ASSUME InactivityIInv, NEW w \in sweep.todo \ outdated, NomineesDue(sweep.rows[w])
             PROVE  now >= seen[w] + PromptAfter
  BY DEF AlertsOnlyTheSilent
<1>1. w \in Wallet \ outdated /\ sweep.began <= now /\ sweep.rows[w] \in Rows
  BY DEF InactivityIInv, SweepRecord
<1>2. PICK loaded \in Rows: loaded = sweep.rows[w]
  BY <1>1
<1>3. loaded.reminder # Never /\ sweep.began >= loaded.reminder + NomineesAfter
  BY <1>2 DEF NomineesDue
<1>4. loaded.reminder >= seen[w] + PromptAfter
  BY <1>1, <1>2, <1>3 DEF InactivityIInv, Timely, RowSwept, StagesLate
<1>5. /\ now \in Nat /\ seen[w] \in Nat /\ loaded.reminder \in Nat /\ sweep.began \in Nat
      /\ PromptAfter \in Nat /\ NomineesAfter \in Nat
  BY <1>1, InactivityConstants DEF InactivityIInv, InactivityTypeOK, SweepRecord, Rows, Time
<1>6. QED
  BY <1>1, <1>3, <1>4, <1>5

\* At the start nobody has been prompted.
LEMMA InactivityInitially == InactivityInit => InactivityIInv
<1> SUFFICES ASSUME InactivityInit PROVE InactivityIInv
  OBVIOUS
<1>1. now = 0 /\ 0 \in 0..MaxTime /\ Never \in Time /\ sweep = Idle /\ outdated = {}
  BY InactivityConstants DEF InactivityInit, Never, Time
<1>2. \A w \in Wallet: row[w] = [activated |-> TRUE, last |-> 0,
                                 prompt |-> Never, reminder |-> Never, alerted |-> Never]
  BY DEF InactivityInit
<1>3. row \in [Wallet -> Rows] /\ lastTouch \in [Wallet -> Time]
  BY <1>1 DEF InactivityInit, Rows
<1>4. sweep \in SweepRecord /\ sweep.todo = {}
  BY <1>1 DEF Idle, SweepRecord
<1>5. heldRow \in [Wallet -> Rows \cup {NotHeld}] /\ seen \in [Wallet -> 0..MaxTime]
      /\ \A w \in Wallet: heldRow[w] = NotHeld /\ seen[w] = 0
  BY <1>1 DEF InactivityInit
<1>6. \A w \in Wallet: Timely(w)
  BY <1>2, <1>4, <1>5 DEF Timely, StagesLate, RowHeld, RowSwept
<1>7. InactivityTypeOK
  BY <1>1, <1>3, <1>4, <1>5 DEF InactivityTypeOK, SweepRecord, Idle
<1>8. QED
  BY <1>1, <1>4, <1>6, <1>7 DEF InactivityIInv

\* A step changes the row or the copy of one wallet, whatever it does there.
LEMMA WalletKeeps ==
    ASSUME InactivityIInv, NEW w \in Wallet, NEW saved \in Rows, NEW copy \in Rows \cup {NotHeld},
           NEW at \in 0..MaxTime, row' = [row EXCEPT ![w] = saved], heldRow' = [heldRow EXCEPT ![w] = copy],
           seen' = [seen EXCEPT ![w] = at], lastTouch' \in [Wallet -> Time], UNCHANGED <<now, sweep>>,
           outdated' \subseteq Wallet, \A v \in Wallet \ {w}: v \in outdated <=> v \in outdated',
           w \notin outdated' => /\ StagesLate(saved, at)
                                 /\ copy # NotHeld => StagesLate(copy, at)
                                 /\ w \in sweep.todo => StagesLate(sweep.rows[w], at)
    PROVE  InactivityIInv'
<1>1. \A v \in Wallet: /\ row'[v] = IF v = w THEN saved ELSE row[v]
                       /\ heldRow'[v] = IF v = w THEN copy ELSE heldRow[v]
                       /\ seen'[v] = IF v = w THEN at ELSE seen[v]
  BY DEF InactivityIInv, InactivityTypeOK
<1>2. InactivityTypeOK'
  <2>1. row' \in [Wallet -> Rows]
    BY DEF InactivityIInv, InactivityTypeOK
  <2>2. heldRow' \in [Wallet -> Rows \cup {NotHeld}]
    BY DEF InactivityIInv, InactivityTypeOK
  <2>3. seen' \in [Wallet -> 0..MaxTime]
    BY DEF InactivityIInv, InactivityTypeOK
  <2>4. QED
    BY <2>1, <2>2, <2>3 DEF InactivityIInv, InactivityTypeOK
<1>3. ASSUME NEW v \in Wallet \ outdated' PROVE Timely(v)'
  <2>1. CASE v = w
    BY <1>1, <1>3, <2>1 DEF Timely, RowHeld, RowSwept, StagesLate
  <2>2. CASE v # w
    BY <1>1, <1>3, <2>2 DEF InactivityIInv, Timely, RowHeld, RowSwept, StagesLate
  <2>3. QED
    BY <2>1, <2>2
<1>4. sweep'.todo # {} => sweep'.began <= now' /\ sweep'.rows \in [Wallet -> Rows]
  BY DEF InactivityIInv
<1>5. QED
  BY <1>2, <1>3, <1>4 DEF InactivityIInv

\* What the row and the copy of one wallet are before a step.
LEMMA WalletHas ==
    ASSUME InactivityIInv, NEW w \in Wallet
    PROVE  /\ row[w] \in Rows /\ heldRow[w] \in Rows \cup {NotHeld} /\ seen[w] \in 0..MaxTime
           /\ row = [row EXCEPT ![w] = row[w]] /\ heldRow = [heldRow EXCEPT ![w] = heldRow[w]]
           /\ seen = [seen EXCEPT ![w] = seen[w]]
           /\ lastTouch \in [Wallet -> Time] /\ outdated \subseteq Wallet /\ now \in 0..MaxTime
           /\ w \notin outdated => /\ StagesLate(row[w], seen[w])
                                   /\ heldRow[w] # NotHeld => StagesLate(heldRow[w], seen[w])
                                   /\ w \in sweep.todo => StagesLate(sweep.rows[w], seen[w])
  BY DEF InactivityIInv, InactivityTypeOK, Timely, RowHeld, RowSwept

\* A row without stages, of an owner just seen.
LEMMA FreshIsLate ==
    ASSUME NEW r, r.prompt = Never, r.reminder = Never PROVE StagesLate(r, r.last)
  BY DEF StagesLate

\* A touch clears the stages; a sweep or a handler that holds the row is overtaken.
LEMMA TouchKeeps ==
    ASSUME InactivityIInv, NEW w \in Wallet, Touch(w), lastTouch' \in [Wallet -> Time],
           UNCHANGED <<now, sweep, heldRow>>
    PROVE  InactivityIInv'
<1>1. PICK touched: touched = Touched(row[w])
  OBVIOUS
<1>2. touched \in Rows /\ touched.prompt = Never /\ touched.reminder = Never /\ touched.last = now
  <2>1. Never \in Time
    BY InactivityConstants DEF Never, Time
  <2>2. row[w] \in Rows /\ now \in 0..MaxTime
    BY WalletHas
  <2>3. QED
    BY <1>1, <2>1, <2>2 DEF Touched, Rows
<1>3. row' = [row EXCEPT ![w] = touched] /\ seen' = [seen EXCEPT ![w] = now]
      /\ outdated' = IF heldRow[w] # NotHeld \/ w \in sweep.todo THEN outdated \cup {w} ELSE outdated \ {w}
  BY <1>1 DEF Touch, Sees
<1>4. StagesLate(touched, now)
  BY <1>2, FreshIsLate
<1>5. w \notin outdated' => heldRow[w] = NotHeld /\ w \notin sweep.todo
  BY <1>3
<1>6. PICK copy \in Rows \cup {NotHeld}: copy = heldRow[w]
  BY WalletHas
<1>7. heldRow' = [heldRow EXCEPT ![w] = copy]
  BY <1>6, WalletHas
<1>8. outdated' \subseteq Wallet /\ \A v \in Wallet \ {w}: v \in outdated <=> v \in outdated'
  BY <1>3, WalletHas
<1>9. now \in 0..MaxTime
  BY WalletHas
<1>10. QED
  BY <1>2, <1>3, <1>4, <1>5, <1>6, <1>7, <1>8, <1>9, WalletKeeps

\* The steps that save the row of one wallet and leave its owner unseen.
LEMMA SavesKeep ==
    ASSUME InactivityIInv, NEW w \in Wallet, NEW saved \in Rows, NEW copy \in Rows \cup {NotHeld},
           row' = [row EXCEPT ![w] = saved], heldRow' = [heldRow EXCEPT ![w] = copy],
           UNCHANGED <<now, lastTouch, sweep, seen, outdated>>,
           w \notin outdated => /\ StagesLate(saved, seen[w])
                                /\ copy # NotHeld => StagesLate(copy, seen[w])
    PROVE  InactivityIInv'
<1>1. PICK at \in 0..MaxTime: at = seen[w]
  BY WalletHas
<1>2. seen' = [seen EXCEPT ![w] = at]
  BY <1>1, WalletHas
<1>3. lastTouch' \in [Wallet -> Time] /\ outdated' \subseteq Wallet
  BY WalletHas
<1>4. QED
  BY <1>1, <1>2, <1>3, WalletHas, WalletKeeps

\* The state of the wallet, a load, a whole row and a load that is dropped.
LEMMA RowsKeep ==
    ASSUME InactivityIInv, NEW w \in Wallet, ChangesState(w) \/ LoadsRow(w) \/ SavesRow(w) \/ DropsRow(w)
    PROVE  InactivityIInv'
<1>1. CASE ChangesState(w)
  <2>1. PICK saved: saved = [row[w] EXCEPT !.activated = ~@]
    OBVIOUS
  <2>2. saved \in Rows /\ saved.last = row[w].last /\ saved.prompt = row[w].prompt
        /\ saved.reminder = row[w].reminder
    BY <2>1, WalletHas DEF Rows
  <2>3. row' = [row EXCEPT ![w] = saved] /\ UNCHANGED <<now, lastTouch, sweep, heldRow, seen, outdated>>
    BY <1>1, <2>1 DEF ChangesState
  <2>4. w \notin outdated => StagesLate(saved, seen[w])
    BY <2>2, WalletHas DEF StagesLate
  <2>5. PICK copy \in Rows \cup {NotHeld}: copy = heldRow[w] /\ heldRow' = [heldRow EXCEPT ![w] = copy]
    BY <2>3, WalletHas
  <2>6. w \notin outdated => (copy # NotHeld => StagesLate(copy, seen[w]))
    BY <2>5, WalletHas
  <2>7. QED
    BY <2>2, <2>3, <2>4, <2>5, <2>6, SavesKeep
<1>2. CASE LoadsRow(w)
  <2>1. PICK loaded \in Rows: loaded = row[w]
    BY WalletHas
  <2>2. heldRow' = [heldRow EXCEPT ![w] = loaded] /\ row' = [row EXCEPT ![w] = loaded]
        /\ UNCHANGED <<now, lastTouch, sweep, seen, outdated>>
    BY <1>2, <2>1, WalletHas DEF LoadsRow
  <2>3. QED
    BY <2>1, <2>2, WalletHas, SavesKeep
<1>3. CASE SavesRow(w)
  <2>1. PICK activated \in BOOLEAN: row' = [row EXCEPT ![w] = [heldRow[w] EXCEPT !.activated = activated]]
    BY <1>3 DEF SavesRow
  <2>2. PICK copy \in Rows: copy = heldRow[w]
    BY <1>3, WalletHas DEF SavesRow
  <2>3. PICK saved: saved = [copy EXCEPT !.activated = activated]
    OBVIOUS
  <2>4. saved \in Rows /\ saved.last = copy.last /\ saved.prompt = copy.prompt /\ saved.reminder = copy.reminder
    BY <2>3 DEF Rows
  <2>5. w \notin outdated => StagesLate(saved, seen[w])
    BY <1>3, <2>2, <2>4, WalletHas DEF StagesLate, SavesRow
  <2>6. row' = [row EXCEPT ![w] = saved] /\ heldRow' = [heldRow EXCEPT ![w] = NotHeld]
        /\ UNCHANGED <<now, lastTouch, sweep, seen, outdated>>
    BY <1>3, <2>1, <2>2, <2>3 DEF SavesRow
  <2>7. QED
    BY <2>4, <2>5, <2>6, SavesKeep
<1>4. CASE DropsRow(w)
  <2>1. PICK saved \in Rows: saved = row[w] /\ row' = [row EXCEPT ![w] = saved]
    BY <1>4, WalletHas DEF DropsRow
  <2>2. QED
    BY <1>4, <2>1, WalletHas, SavesKeep DEF DropsRow
<1>5. QED
  BY <1>1, <1>2, <1>3, <1>4

\* An activation that leaves a stage in place is outdated; another leaves none.
LEMMA ActivatesKeeps == ASSUME InactivityIInv, NEW w \in Wallet, Activates(w) PROVE InactivityIInv'
<1>1. PICK loaded \in Rows: loaded = heldRow[w]
  BY WalletHas DEF Activates
<1>2. PICK saved: saved = [loaded EXCEPT !.activated = TRUE, !.last = now]
  OBVIOUS
<1>3. saved \in Rows /\ saved.last = now /\ saved.prompt = loaded.prompt /\ saved.reminder = loaded.reminder
  BY <1>2, WalletHas DEF Rows
<1>4. row' = [row EXCEPT ![w] = saved] /\ heldRow' = [heldRow EXCEPT ![w] = NotHeld]
      /\ seen' = [seen EXCEPT ![w] = now] /\ UNCHANGED <<now, lastTouch, sweep>>
      /\ outdated' = IF HasStage(loaded) \/ w \in sweep.todo THEN outdated \cup {w} ELSE outdated \ {w}
  BY <1>1, <1>2 DEF Activates, Sees
<1>5. w \notin outdated' => w \notin sweep.todo /\ saved.prompt = Never /\ saved.reminder = Never
  BY <1>3, <1>4 DEF HasStage
<1>6. w \notin outdated' => StagesLate(saved, now)
  BY <1>3, <1>5, FreshIsLate
<1>7. outdated' \subseteq Wallet /\ \A v \in Wallet \ {w}: v \in outdated <=> v \in outdated'
  BY <1>4, WalletHas
<1>8. now \in 0..MaxTime /\ lastTouch' \in [Wallet -> Time]
  BY <1>4, WalletHas
<1>9. QED
  BY <1>3, <1>4, <1>5, <1>6, <1>7, <1>8, WalletKeeps

\* The clock and the cache.
LEMMA ClockKeeps ==
    ASSUME InactivityIInv, now' \in 0..MaxTime, now' >= now, lastTouch' \in [Wallet -> Time],
           UNCHANGED <<row, sweep, heldRow, seen, outdated>>
    PROVE  InactivityIInv'
<1>1. InactivityTypeOK'
  BY DEF InactivityIInv, InactivityTypeOK
<1>2. sweep'.todo # {} => sweep'.began <= now' /\ sweep'.rows \in [Wallet -> Rows]
  BY InactivityConstants DEF InactivityIInv, InactivityTypeOK, SweepRecord, Time
<1>3. \A w \in Wallet \ outdated': Timely(w)'
  BY DEF InactivityIInv, Timely, RowHeld, RowSwept, StagesLate
<1>4. QED
  BY <1>1, <1>2, <1>3 DEF InactivityIInv

\* The sweep loads every row as it is.
LEMMA SweepBeginsKeeps == InactivityIInv /\ SweepBegins => InactivityIInv'
<1> SUFFICES ASSUME InactivityIInv, SweepBegins PROVE InactivityIInv'
  OBVIOUS
<1> DEFINE active == {w \in Wallet: row[w].activated}
<1>1. sweep' = [began |-> now, todo |-> active, rows |-> row]
      /\ UNCHANGED <<now, row, lastTouch, heldRow, seen, outdated>>
  BY DEF SweepBegins
<1>2. now \in 0..MaxTime /\ now \in Time /\ row \in [Wallet -> Rows] /\ active \subseteq Wallet
  BY InactivityConstants DEF InactivityIInv, InactivityTypeOK, Time
<1> HIDE DEF active
<1>3. sweep' \in SweepRecord /\ sweep'.began = now /\ sweep'.rows = row
  BY <1>1, <1>2 DEF SweepRecord
<1>4. \A w \in Wallet \ outdated': Timely(w)'
  BY <1>1, <1>3 DEF InactivityIInv, Timely, RowHeld, RowSwept, StagesLate
<1>5. InactivityTypeOK'
  BY <1>1, <1>2, <1>3 DEF InactivityIInv, InactivityTypeOK, SweepRecord
<1>6. QED
  BY <1>1, <1>2, <1>3, <1>4, <1>5 DEF InactivityIInv

\* Nothing is left to do, or less than before.
LEMMA SweepLess ==
    ASSUME InactivityIInv, NEW w \in sweep.todo,
           sweep' = Idle \/ sweep' = [sweep EXCEPT !.todo = @ \ {w}]
    PROVE  /\ sweep' \in SweepRecord /\ sweep'.todo \subseteq sweep.todo \ {w}
           /\ sweep'.todo # {} => sweep'.began = sweep.began /\ sweep'.rows = sweep.rows
           /\ sweep'.began \in Time /\ (sweep' = Idle \/ sweep'.rows \in [Wallet -> Rows])
<1>1. CASE sweep' = Idle
  BY <1>1, InactivityConstants DEF Idle, SweepRecord, Never, Time
<1>2. CASE sweep' = [sweep EXCEPT !.todo = @ \ {w}]
  BY <1>2 DEF InactivityIInv, SweepRecord
<1>3. QED
  BY <1>1, <1>2

\* The sweep dies.
LEMMA SweepDiesKeeps == InactivityIInv /\ SweepDies => InactivityIInv'
<1> SUFFICES ASSUME InactivityIInv, SweepDies PROVE InactivityIInv'
  OBVIOUS
<1>1. sweep' \in SweepRecord /\ sweep'.todo = {} /\ sweep' = Idle /\ sweep'.began \in Time
      /\ UNCHANGED <<now, row, lastTouch, heldRow, seen, outdated>>
  BY InactivityConstants DEF SweepDies, Idle, SweepRecord, Never, Time
<1>2. \A w \in Wallet \ outdated': Timely(w)'
  BY <1>1 DEF InactivityIInv, Timely, RowHeld, RowSwept, StagesLate
<1>3. InactivityTypeOK'
  BY <1>1 DEF InactivityIInv, InactivityTypeOK
<1>4. QED
  BY <1>1, <1>2, <1>3 DEF InactivityIInv

\* The sweep saves the stage that is due on the row it loaded.
LEMMA SweepsKeeps == ASSUME InactivityIInv, NEW w \in Wallet, SweepsWallet(w) PROVE InactivityIInv'
<1>1. w \in sweep.todo /\ sweep.began <= now /\ sweep.rows[w] \in Rows /\ row[w] \in Rows
      /\ UNCHANGED <<now, lastTouch, heldRow, seen, outdated>>
  BY DEF SweepsWallet, InactivityIInv, InactivityTypeOK
<1>2. PICK loaded \in Rows: loaded = sweep.rows[w]
  BY <1>1
<1> DEFINE reminder == IF ReminderDue(loaded) THEN sweep.began ELSE row[w].reminder
           prompt == IF PromptDue(loaded) THEN sweep.began ELSE row[w].prompt
           alerted == IF NomineesDue(loaded) THEN sweep.began ELSE row[w].alerted
<1>3. PICK saved: saved = [row[w] EXCEPT !.alerted = alerted, !.reminder = reminder, !.prompt = prompt]
  OBVIOUS
<1>4. row' = [row EXCEPT ![w] = saved]
  BY <1>2, <1>3 DEF SweepsWallet
<1>5. reminder \in Time /\ prompt \in Time /\ alerted \in Time
  BY <1>1 DEF Rows, InactivityIInv, SweepRecord
<1>6. /\ sweep.began \in Nat /\ seen[w] \in Nat /\ loaded.prompt \in Nat /\ loaded.last \in Nat
      /\ PromptAfter \in Nat /\ ReminderAfter \in Nat
  BY InactivityConstants DEF InactivityIInv, InactivityTypeOK, SweepRecord, Rows, Time
<1>7. w \notin outdated => StagesLate(loaded, seen[w]) /\ StagesLate(row[w], seen[w])
  BY <1>1, <1>2, WalletHas
<1>8. w \notin outdated => (reminder # Never => reminder >= seen[w] + PromptAfter)
  <2>1. ReminderDue(loaded) => loaded.prompt # Never /\ sweep.began >= loaded.prompt + ReminderAfter
    BY DEF ReminderDue
  <2>2. QED
    BY <1>6, <1>7, <2>1 DEF StagesLate
<1>9. w \notin outdated => (prompt # Never => prompt >= seen[w] + PromptAfter)
  <2>1. PromptDue(loaded) => sweep.began >= loaded.last + PromptAfter
    BY DEF PromptDue
  <2>2. QED
    BY <1>6, <1>7, <2>1 DEF StagesLate
<1> HIDE DEF reminder, prompt, alerted
<1>10. saved \in Rows /\ saved.last = row[w].last /\ saved.prompt = prompt /\ saved.reminder = reminder
  BY <1>1, <1>3, <1>5 DEF Rows
<1>11. w \notin outdated => StagesLate(saved, seen[w])
  BY <1>7, <1>8, <1>9, <1>10 DEF StagesLate
<1>12. \A v \in Wallet: row'[v] = IF v = w THEN saved ELSE row[v]
  BY <1>4 DEF InactivityIInv, InactivityTypeOK
<1>13. row' \in [Wallet -> Rows]
  BY <1>4, <1>10 DEF InactivityIInv, InactivityTypeOK
<1>14. /\ sweep' \in SweepRecord /\ sweep'.todo \subseteq sweep.todo \ {w}
       /\ sweep'.todo # {} => sweep'.began = sweep.began /\ sweep'.rows = sweep.rows
       /\ sweep'.began \in Time /\ (sweep' = Idle \/ sweep'.rows \in [Wallet -> Rows])
  <2>1. sweep' = Idle \/ sweep' = [sweep EXCEPT !.todo = @ \ {w}]
    BY DEF SweepsWallet, GoesOnFrom
  <2>2. QED
    BY <1>1, <2>1, SweepLess
<1>15. sweep'.todo \subseteq Wallet
  BY <1>14 DEF InactivityIInv, SweepRecord
<1>16. InactivityTypeOK'
  BY <1>1, <1>13, <1>14, <1>15 DEF InactivityIInv, InactivityTypeOK
<1>17. ASSUME NEW v \in Wallet \ outdated' PROVE Timely(v)'
  <2>1. v \in Wallet \ outdated /\ Timely(v) /\ seen'[v] = seen[v] /\ heldRow'[v] = heldRow[v]
    BY <1>1, <1>17 DEF InactivityIInv
  <2>2. StagesLate(row'[v], seen[v])
    BY <1>11, <1>12, <2>1 DEF Timely
  <2>3. RowSwept(v)'
    BY <1>14, <2>1 DEF Timely, RowSwept, StagesLate
  <2>4. QED
    BY <2>1, <2>2, <2>3 DEF Timely, RowHeld, StagesLate
<1>18. sweep'.todo # {} => sweep'.began <= now' /\ sweep'.rows \in [Wallet -> Rows]
  BY <1>1, <1>14 DEF InactivityIInv
<1>19. QED
  BY <1>14, <1>16, <1>17, <1>18 DEF InactivityIInv

\* Every step preserves it.
LEMMA InactivityNextKeeps == InactivityIInv /\ [InactivityNext]_inactivityVars => InactivityIInv'
<1> SUFFICES ASSUME InactivityIInv, [InactivityNext]_inactivityVars PROVE InactivityIInv'
  OBVIOUS
<1>1. row \in [Wallet -> Rows] /\ lastTouch \in [Wallet -> Time] /\ now \in 0..MaxTime
      /\ now >= now /\ now \in Time /\ Never \in Time
  BY InactivityConstants DEF InactivityIInv, InactivityTypeOK, Never, Time
<1>2. CASE UNCHANGED inactivityVars
  BY <1>1, <1>2, ClockKeeps DEF inactivityVars
<1>3. CASE Tick
  <2>1. now' \in 0..MaxTime /\ now' >= now
    BY <1>1, <1>3, InactivityConstants DEF Tick
  <2>2. QED
    BY <1>1, <1>3, <2>1, ClockKeeps DEF Tick
<1>4. CASE ServerRestarts
  <2>1. lastTouch' \in [Wallet -> Time]
    BY <1>1, <1>4 DEF ServerRestarts
  <2>2. QED
    BY <1>1, <1>4, <2>1, ClockKeeps DEF ServerRestarts
<1>5. CASE SweepBegins
  BY <1>5, SweepBeginsKeeps
<1>6. CASE SweepDies
  BY <1>6, SweepDiesKeeps
<1>7. ASSUME NEW w \in Wallet, ChangesState(w) \/ LoadsRow(w) \/ SavesRow(w) \/ DropsRow(w) PROVE InactivityIInv'
  BY <1>7, RowsKeep
<1>8. ASSUME NEW w \in Wallet, OwnerActive(w) PROVE InactivityIInv'
  <2>1. lastTouch' \in [Wallet -> Time] /\ UNCHANGED <<now, sweep, heldRow>>
    BY <1>1, <1>8 DEF OwnerActive
  <2>2. CASE Touch(w)
    BY <2>1, <2>2, TouchKeeps
  <2>3. CASE UNCHANGED <<row, seen, outdated>>
    BY <1>1, <2>1, <2>3, ClockKeeps
  <2>4. QED
    BY <1>8, <2>2, <2>3 DEF OwnerActive
<1>9. ASSUME NEW w \in Wallet, ConfirmLiveness(w) PROVE InactivityIInv'
  BY <1>1, <1>9, TouchKeeps DEF ConfirmLiveness
<1>10. QED
  BY <1>2, <1>3, <1>4, <1>5, <1>6, <1>7, <1>8, <1>9, ActivatesKeeps, SweepsKeeps DEF InactivityNext

THEOREM InactivityInductive ==
    InactivityInit /\ [][InactivityNext]_inactivityVars => []InactivityIInv
<1>1. InactivityInit => InactivityIInv
  BY InactivityInitially
<1>2. InactivityIInv /\ [InactivityNext]_inactivityVars => InactivityIInv'
  BY InactivityNextKeeps
<1>3. QED
  BY <1>1, <1>2, PTL

\* The nominees of a wallet are alerted a year after its owner was last seen, unless
\* he was seen while a sweep or a handler held its row, or activated it with a stage
\* in place (services.py).
THEOREM AlertsTheSilent ==
    InactivityInit /\ [][InactivityNext]_inactivityVars => []AlertsOnlyTheSilent
<1>1. InactivityIInv => AlertsOnlyTheSilent
  BY AlertsAreLate
<1>2. QED
  BY <1>1, InactivityInductive, PTL

-----------------------------------------------------------------------------
(* Escrow reconciliation *)

EntryOK(entry) ==
    \/ entry = NoEntry
    \/ entry \in [status: {"OK", "DISCREPANCY", "PARTIAL", "ERROR"}, day: Day,
                  released: 0..MaxBlock, bank: 0..MaxBlock + 1]
RunOK(step) ==
    \/ step = AtRest
    \/ /\ step \in [pc: {"day", "create"}, at: Day, target: Day, head: 0..MaxBlock, credits: 0..MaxBlock + 1]
       /\ step.at <= step.target

Creating(r, d) == run[r].pc = "create" /\ run[r].at = d

(* A day without a race: one verdict, and whoever is to create it is alone and *)
(* there is no row yet.                                                        *)
Orderly(d) ==
    /\ \A i, j \in RowsOf(d): log[i].status # "ERROR" /\ log[j].status # "ERROR" => i = j
    /\ \A r, s \in Run: Creating(r, d) /\ Creating(s, d) => r = s
    /\ \A r \in Run: Creating(r, d) => RowsOf(d) = {}

ReconciliationIInv ==
    /\ today \in Day /\ block \in Seq(Day) /\ Len(block) <= MaxBlock /\ raced \subseteq Day
    /\ log = [i \in Entries |-> log[i]] /\ run = [r \in Run |-> run[r]]
    /\ \A i \in Entries: EntryOK(log[i])
    /\ \A r \in Run: RunOK(run[r])
    /\ \A d \in Day \ raced: Orderly(d)

\* With room in the log the next entry is a free one.
LEMMA NextEntryIsFree == ASSUME RoomInLog PROVE NextEntry \in Entries /\ log[NextEntry] = NoEntry
<1> DEFINE D == {i \in Entries: log[i] = NoEntry}
<1>1. D \subseteq 1..MaxLog /\ D # {} /\ MaxLog \in Nat
  BY ReconciliationConstants DEF RoomInLog, Entries
<1> HIDE DEF D
<1>2. Min(D) \in D
  BY <1>1, MinIsIn
<1>3. QED
  BY <1>2 DEF NextEntry, D

\* A verdict is an entry of the day the run is at.
LEMMA VerdictIsEntry ==
    ASSUME ReconciliationIInv, NEW r \in Run, run[r] # AtRest
    PROVE  /\ Verdict(r) \in [status: {"OK", "DISCREPANCY", "PARTIAL"}, day: Day,
                              released: 0..MaxBlock, bank: 0..MaxBlock + 1]
           /\ Verdict(r).day = run[r].at
<1>1. /\ run[r].at \in Day /\ run[r].head \in 0..MaxBlock /\ run[r].credits \in 0..MaxBlock + 1
      /\ MaxBlock \in Nat
  BY ReconciliationConstants DEF ReconciliationIInv, RunOK
<1>2. PICK n \in Nat: n = run[r].head /\ n <= MaxBlock
  BY <1>1
<1> DEFINE B == {b \in 1..n: b >= n - ScanBlocks /\ block[b] = run[r].at}
<1>3. ReleasedOn(run[r].at, run[r].head) \in 0..MaxBlock
  <2>1. IsFiniteSet(1..n) /\ Cardinality(1..n) = n
    BY FS_Interval
  <2>2. B \subseteq 1..n
    OBVIOUS
  <2> HIDE DEF B
  <2>3. Cardinality(B) \in Nat /\ Cardinality(B) <= n
    BY <2>1, <2>2, FS_Subset, FS_CardinalityType
  <2>4. QED
    BY <1>1, <1>2, <2>3 DEF ReleasedOn, B
<1>4. CreditsFor(r) \in 0..MaxBlock + 1
  BY <1>1 DEF CreditsFor
<1>5. QED
  BY <1>1, <1>3, <1>4 DEF Verdict

\* The run goes on to a day of its own, or is done.
LEMMA NextDateOK ==
    ASSUME ReconciliationIInv, NEW r \in Run, run[r] # AtRest
    PROVE  RunOK(NextDate(r)) /\ NextDate(r).pc # "create"
<1>1. /\ run[r] \in [pc: {"day", "create"}, at: Day, target: Day, head: 0..MaxBlock, credits: 0..MaxBlock + 1]
      /\ run[r].at <= run[r].target
  BY DEF ReconciliationIInv, RunOK
<1>2. run[r].at # run[r].target => run[r].at + 1 \in Day /\ run[r].at + 1 <= run[r].target
  BY <1>1, ReconciliationConstants DEF Day
<1>3. CASE run[r].at = run[r].target
  BY <1>3 DEF NextDate, RunOK, AtRest
<1>4. CASE run[r].at # run[r].target
  <2> DEFINE step == [run[r] EXCEPT !.pc = "day", !.at = run[r].at + 1]
  <2>1. NextDate(r) = step
    BY <1>4 DEF NextDate
  <2>2. /\ step \in [pc: {"day", "create"}, at: Day, target: Day, head: 0..MaxBlock, credits: 0..MaxBlock + 1]
        /\ step.at = run[r].at + 1 /\ step.target = run[r].target /\ step.pc = "day"
    BY <1>1, <1>2, <1>4
  <2>3. QED
    BY <1>2, <1>4, <2>1, <2>2 DEF RunOK
<1>5. QED
  BY <1>3, <1>4

\* What a step of a run has to show: the rows it changes are in order, and so are the
\* days it does not say were raced for.
LEMMA RunMoves ==
    ASSUME ReconciliationIInv, UNCHANGED <<today, block>>, NEW r \in Run, NEW step, RunOK(step),
           run' = [run EXCEPT ![r] = step], log' = [i \in Entries |-> log'[i]],
           \A i \in Entries: EntryOK(log'[i]),
           raced \subseteq raced', raced' \subseteq Day, \A d \in Day \ raced': Orderly(d) => Orderly(d)'
    PROVE  ReconciliationIInv'
<1>1. run' = [s \in Run |-> run'[s]] /\ \A s \in Run: RunOK(run'[s])
  BY DEF ReconciliationIInv
<1>2. \A d \in Day \ raced': Orderly(d)'
  BY DEF ReconciliationIInv
<1>3. QED
  BY <1>1, <1>2 DEF ReconciliationIInv, RunOK, EntryOK, Day, Entries

\* A step that leaves the log and the runs has only its clock to show.
LEMMA WorldMoves ==
    ASSUME ReconciliationIInv, today' \in Day, block' \in Seq(Day), Len(block') <= MaxBlock,
           UNCHANGED <<log, run, raced>>
    PROVE  ReconciliationIInv'
<1>1. \A d \in Day \ raced: Orderly(d)'
  <2>1. ASSUME NEW d \in Day PROVE Orderly(d) <=> Orderly(d)'
    BY DEF Orderly, RowsOf, Creating
  <2>2. QED
    BY <2>1 DEF ReconciliationIInv
<1>2. /\ raced \subseteq Day /\ log = [i \in Entries |-> log[i]] /\ run = [r \in Run |-> run[r]]
      /\ \A i \in Entries: EntryOK(log[i])
      /\ \A r \in Run: RunOK(run[r])
  BY DEF ReconciliationIInv
<1>3. (\A i \in Entries: EntryOK(log[i]))' /\ (\A r \in Run: RunOK(run[r]))'
  BY <1>2 DEF EntryOK, RunOK
<1>4. QED
  BY <1>1, <1>2, <1>3 DEF ReconciliationIInv

\* The clock and the releases.
LEMMA WorldKeeps == ASSUME ReconciliationIInv, NextDay \/ Release PROVE ReconciliationIInv'
<1>1. today \in Day /\ block \in Seq(Day) /\ Len(block) <= MaxBlock /\ MaxBlock \in Nat
  BY ReconciliationConstants DEF ReconciliationIInv
<1>2. today' \in Day /\ block' \in Seq(Day) /\ Len(block') <= MaxBlock /\ UNCHANGED <<log, run, raced>>
  <2>1. CASE NextDay
    BY <1>1, <2>1, ReconciliationConstants DEF NextDay, Day
  <2>2. CASE Release
    <3>1. block' = Append(block, today) /\ Len(block) < MaxBlock /\ UNCHANGED <<today, log, run, raced>>
      BY <2>2 DEF Release
    <3>2. block' \in Seq(Day) /\ Len(block') = Len(block) + 1
      BY <1>1, <3>1
    <3>3. QED
      BY <1>1, <3>1, <3>2
  <2>3. QED
    BY <2>1, <2>2
<1>3. QED
  BY <1>2, WorldMoves

\* A run begins or dies: it creates nothing.
LEMMA RunKeeps ==
    ASSUME ReconciliationIInv, NEW r \in Run,
           \/ \E target, days \in Day, credits \in 0..MaxBlock + 1: RunBegins(r, target, days, credits)
           \/ RunDies(r)
    PROVE  ReconciliationIInv'
<1>1. PICK step: /\ RunOK(step) /\ step.pc # "create" /\ run' = [run EXCEPT ![r] = step]
                 /\ UNCHANGED <<today, block, log, raced>>
  <2>1. CASE RunDies(r)
    BY <2>1 DEF RunDies, RunOK, AtRest
  <2>2. CASE \E target, days \in Day, credits \in 0..MaxBlock + 1: RunBegins(r, target, days, credits)
    <3>1. PICK target \in Day, days \in Day, credits \in 0..MaxBlock + 1: RunBegins(r, target, days, credits)
      BY <2>2
    <3>2. target - days + 1 \in Day /\ target - days + 1 <= target
      BY <3>1, ReconciliationConstants DEF RunBegins, Day
    <3>3. Len(block) \in 0..MaxBlock
      BY ReconciliationConstants DEF ReconciliationIInv
    <3>4. QED
      BY <3>1, <3>2, <3>3 DEF RunBegins, RunOK
  <2>3. QED
    BY <2>1, <2>2
<1>2. \A d: Orderly(d) => Orderly(d)'
  <2>1. \A s \in Run: run'[s] = IF s = r THEN step ELSE run[s]
    BY <1>1 DEF ReconciliationIInv
  <2>2. \A d: \A s \in Run: Creating(s, d)' => Creating(s, d)
    BY <1>1, <2>1 DEF Creating
  <2>3. QED
    BY <1>1, <2>2 DEF Orderly, RowsOf
<1>3. QED
  BY <1>1, <1>2, RunMoves DEF ReconciliationIInv

\* A failed run's row is no verdict; a run that comes in between is a race.
LEMMA RpcFailsKeeps == ASSUME ReconciliationIInv, NEW r \in Run, RpcFails(r) PROVE ReconciliationIInv'
<1> DEFINE entry == [status |-> "ERROR", day |-> run[r].at, released |-> 0, bank |-> 0]
<1>1. /\ run[r].pc = "day" /\ run[r] # AtRest /\ RoomInLog
      /\ log' = [log EXCEPT ![NextEntry] = entry] /\ run' = [run EXCEPT ![r] = NextDate(r)]
      /\ raced' = IF Meets(r) THEN raced \cup {run[r].at} ELSE raced
      /\ UNCHANGED <<today, block>>
  BY DEF RpcFails, GoesOn, Races, AtRest
<1>2. PICK e \in Entries: e = NextEntry /\ log[e] = NoEntry
  BY <1>1, NextEntryIsFree
<1>3. run[r].at \in Day /\ EntryOK(entry) /\ entry # NoEntry
  BY <1>1, ReconciliationConstants DEF ReconciliationIInv, RunOK, EntryOK, NoEntry
<1>4. \A i \in Entries: log'[i] = IF i = e THEN entry ELSE log[i]
  BY <1>1, <1>2 DEF ReconciliationIInv
<1>5. RunOK(NextDate(r)) /\ NextDate(r).pc # "create"
  BY <1>1, NextDateOK
<1>6. \A s \in Run: run'[s] = IF s = r THEN NextDate(r) ELSE run[s]
  BY <1>1 DEF ReconciliationIInv
<1>7. ASSUME NEW d \in Day \ raced', Orderly(d) PROVE Orderly(d)'
  <2>1. \A s \in Run: Creating(s, d)' => Creating(s, d)
    BY <1>5, <1>6 DEF Creating
  <2>2. \A i \in RowsOf(d)': (i \in RowsOf(d) /\ log'[i] = log[i]) \/ (i = e /\ log'[i].status = "ERROR" /\ d = run[r].at)
    BY <1>4 DEF RowsOf
  <2>3. d = run[r].at => \A s \in Run: ~ Creating(s, d)
    BY <1>1, <1>7 DEF Meets, Creating
  <2>4. QED
    BY <1>7, <2>1, <2>2, <2>3 DEF Orderly
<1>8. log' = [i \in Entries |-> log'[i]] /\ \A i \in Entries: EntryOK(log'[i])
  BY <1>1, <1>3, <1>4 DEF ReconciliationIInv
<1>9. raced \subseteq raced' /\ raced' \subseteq Day
  BY <1>1, <1>3 DEF ReconciliationIInv
<1> HIDE DEF entry
<1>10. QED
  BY <1>1, <1>5, <1>7, <1>8, <1>9, RunMoves

\* The one row of a day is written over.
LEMMA UpdatesKeeps == ASSUME ReconciliationIInv, NEW r \in Run, Updates(r) PROVE ReconciliationIInv'
<1>1. PICK e \in Entries:
         /\ run[r].pc = "day" /\ run[r] # AtRest /\ RowsOf(run[r].at) = {e}
         /\ log' = [log EXCEPT ![e] = Verdict(r)] /\ run' = [run EXCEPT ![r] = NextDate(r)]
         /\ UNCHANGED <<today, block, raced>>
  <2>1. PICK i \in RowsOf(run[r].at): RowsOf(run[r].at) = {i} /\ log' = [log EXCEPT ![i] = Verdict(r)]
    BY DEF Updates
  <2>2. i \in Entries
    BY <2>1 DEF RowsOf
  <2>3. run[r].pc = "day" /\ run' = [run EXCEPT ![r] = NextDate(r)] /\ UNCHANGED <<today, block, raced>>
    BY DEF Updates, GoesOn
  <2>4. run[r] # AtRest
    BY <2>3 DEF AtRest
  <2>5. QED
    BY <2>1, <2>2, <2>3, <2>4, Zenon
<1>2. PICK verdict: /\ verdict = Verdict(r) /\ EntryOK(verdict) /\ verdict # NoEntry
                    /\ verdict.day = run[r].at /\ verdict.status # "ERROR"
  BY <1>1, VerdictIsEntry DEF EntryOK, NoEntry
<1>3. \A i \in Entries: log'[i] = IF i = e THEN verdict ELSE log[i]
  BY <1>1, <1>2 DEF ReconciliationIInv
<1>4. RunOK(NextDate(r)) /\ NextDate(r).pc # "create"
  BY <1>1, NextDateOK
<1>5. \A s \in Run: run'[s] = IF s = r THEN NextDate(r) ELSE run[s]
  BY <1>1 DEF ReconciliationIInv
<1>6. ASSUME NEW d \in Day \ raced', Orderly(d) PROVE Orderly(d)'
  <2>1. \A s \in Run: Creating(s, d)' => Creating(s, d)
    BY <1>4, <1>5 DEF Creating
  <2>2. RowsOf(d)' = RowsOf(d)
    BY <1>1, <1>2, <1>3 DEF RowsOf
  <2>3. d = run[r].at => RowsOf(d) = {e}
    BY <1>1
  <2>4. d # run[r].at => e \notin RowsOf(d)
    BY <1>1 DEF RowsOf
  <2>5. \A i \in RowsOf(d): i # e => log'[i] = log[i]
    BY <1>3 DEF RowsOf
  <2>6. QED
    BY <1>6, <2>1, <2>2, <2>3, <2>4, <2>5 DEF Orderly
<1>7. log' = [i \in Entries |-> log'[i]] /\ \A i \in Entries: EntryOK(log'[i])
  BY <1>1, <1>2, <1>3 DEF ReconciliationIInv
<1>8. QED
  BY <1>1, <1>4, <1>6, <1>7, RunMoves DEF ReconciliationIInv

\* The day has no row: whoever finds that alone is alone.
LEMMA FindsNoRowKeeps == ASSUME ReconciliationIInv, NEW r \in Run, FindsNoRow(r) PROVE ReconciliationIInv'
<1>1. /\ run[r].pc = "day" /\ run[r] # AtRest /\ RowsOf(run[r].at) = {}
      /\ run' = [run EXCEPT ![r].pc = "create"]
      /\ raced' = IF Meets(r) THEN raced \cup {run[r].at} ELSE raced
      /\ UNCHANGED <<today, block, log>>
  BY DEF FindsNoRow, Races, AtRest
<1>2. PICK step: step = [run[r] EXCEPT !.pc = "create"]
  OBVIOUS
<1>3. RunOK(step) /\ step.at = run[r].at /\ run[r].at \in Day
  BY <1>1, <1>2 DEF ReconciliationIInv, RunOK
<1>4. \A s \in Run: run'[s] = IF s = r THEN step ELSE run[s]
  BY <1>1, <1>2 DEF ReconciliationIInv
<1>5. ASSUME NEW d \in Day \ raced', Orderly(d) PROVE Orderly(d)'
  <2>1. \A s \in Run: Creating(s, d)' => Creating(s, d) \/ (s = r /\ d = run[r].at)
    BY <1>3, <1>4 DEF Creating
  <2>2. RowsOf(d)' = RowsOf(d) /\ log' = log
    BY <1>1 DEF RowsOf
  <2>3. d = run[r].at => \A s \in Run: ~ Creating(s, d)
    BY <1>1, <1>5 DEF Meets, Creating
  <2>4. QED
    BY <1>1, <1>5, <2>1, <2>2, <2>3 DEF Orderly
<1>6. raced \subseteq raced' /\ raced' \subseteq Day
  BY <1>1, <1>3 DEF ReconciliationIInv
<1>7. QED
  BY <1>1, <1>2, <1>3, <1>5, <1>6, RunMoves DEF ReconciliationIInv

\* The first verdict of the day is created, and its creator goes on.
LEMMA CreatesKeeps == ASSUME ReconciliationIInv, NEW r \in Run, Creates(r) PROVE ReconciliationIInv'
<1>1. /\ run[r].pc = "create" /\ run[r] # AtRest /\ RoomInLog
      /\ log' = [log EXCEPT ![NextEntry] = Verdict(r)] /\ run' = [run EXCEPT ![r] = NextDate(r)]
      /\ UNCHANGED <<today, block, raced>>
  BY DEF Creates, GoesOn, AtRest
<1>2. PICK e \in Entries: e = NextEntry /\ log[e] = NoEntry
  BY <1>1, NextEntryIsFree
<1>3. PICK verdict: verdict = Verdict(r) /\ EntryOK(verdict) /\ verdict.day = run[r].at
  BY <1>1, VerdictIsEntry DEF EntryOK
<1>4. \A i \in Entries: log'[i] = IF i = e THEN verdict ELSE log[i]
  BY <1>1, <1>2, <1>3 DEF ReconciliationIInv
<1>5. RunOK(NextDate(r)) /\ NextDate(r).pc # "create"
  BY <1>1, NextDateOK
<1>6. \A s \in Run: run'[s] = IF s = r THEN NextDate(r) ELSE run[s]
  BY <1>1 DEF ReconciliationIInv
<1>7. ASSUME NEW d \in Day \ raced', Orderly(d) PROVE Orderly(d)'
  <2>1. \A s \in Run: Creating(s, d)' => Creating(s, d) /\ s # r
    BY <1>5, <1>6 DEF Creating
  <2>2. Creating(r, run[r].at)
    BY <1>1 DEF Creating
  <2>3. d = run[r].at => RowsOf(d) = {} /\ \A s \in Run: Creating(s, d) => s = r
    BY <1>7, <2>2 DEF Orderly
  <2>4. \A i \in RowsOf(d)': (i \in RowsOf(d) /\ log'[i] = log[i]) \/ (i = e /\ d = run[r].at)
    BY <1>3, <1>4 DEF RowsOf
  <2>5. QED
    BY <1>7, <2>1, <2>3, <2>4 DEF Orderly
<1>8. log' = [i \in Entries |-> log'[i]] /\ \A i \in Entries: EntryOK(log'[i])
  BY <1>1, <1>3, <1>4 DEF ReconciliationIInv
<1>9. QED
  BY <1>1, <1>5, <1>7, <1>8, RunMoves DEF ReconciliationIInv

\* At the start the log is empty and nothing runs.
LEMMA ReconciliationInitially == ReconciliationInit => ReconciliationIInv
<1> SUFFICES ASSUME ReconciliationInit PROVE ReconciliationIInv
  OBVIOUS
<1>1. \A r \in Run: \A d: ~ Creating(r, d)
  BY DEF ReconciliationInit, Creating, AtRest
<1>2. \A d: RowsOf(d) = {}
  BY DEF ReconciliationInit, RowsOf
<1>3. \A d: Orderly(d)
  BY <1>1, <1>2 DEF Orderly
<1>4. today \in Day /\ block \in Seq(Day) /\ Len(block) <= MaxBlock
  BY ReconciliationConstants DEF ReconciliationInit, Day
<1>5. QED
  BY <1>3, <1>4 DEF ReconciliationInit, ReconciliationIInv, EntryOK, RunOK

\* Every step keeps the inductive invariant.
LEMMA ReconciliationNextKeeps ==
    ReconciliationIInv /\ [ReconciliationNext]_reconciliationVars => ReconciliationIInv'
<1> SUFFICES ASSUME ReconciliationIInv, [ReconciliationNext]_reconciliationVars PROVE ReconciliationIInv'
  OBVIOUS
<1>1. CASE ReconciliationNext
  BY <1>1, WorldKeeps, RunKeeps, RpcFailsKeeps, UpdatesKeeps, FindsNoRowKeeps, CreatesKeeps DEF ReconciliationNext
<1>2. CASE UNCHANGED reconciliationVars
  <2>1. UNCHANGED <<today, block, log, run, raced>>
    BY <1>2 DEF reconciliationVars
  <2>2. today' \in Day /\ block' \in Seq(Day) /\ Len(block') <= MaxBlock
    BY <2>1 DEF ReconciliationIInv
  <2>3. QED
    BY <2>1, <2>2, WorldMoves
<1>3. QED
  BY <1>1, <1>2

\* ReconciliationIInv is an invariant of every behaviour of the command.
THEOREM ReconciliationInductive ==
    ReconciliationInit /\ [][ReconciliationNext]_reconciliationVars => []ReconciliationIInv
  BY ReconciliationInitially, ReconciliationNextKeeps, PTL

\* However often a day is reconciled, by the cron job and by hand, and whatever failed
\* before: its log has one verdict, unless two runs raced for it (reconcile_escrow.py).
THEOREM OneVerdict ==
    ReconciliationInit /\ [][ReconciliationNext]_reconciliationVars => []OneVerdictPerDay
<1>1. ReconciliationIInv => OneVerdictPerDay
  <2> SUFFICES ASSUME ReconciliationIInv, NEW d \in Day \ raced
               PROVE  Cardinality({i \in RowsOf(d): log[i].status # "ERROR"}) <= 1
    BY DEF OneVerdictPerDay
  <2>1. \A i, j \in {k \in RowsOf(d): log[k].status # "ERROR"}: i = j
    BY DEF ReconciliationIInv, Orderly
  <2>2. QED
    BY <2>1, AtMostOne
<1>2. QED
  BY ReconciliationInductive, <1>1, PTL

-----------------------------------------------------------------------------
(* All of MCInstruments *)

\* Whatever part runs, its rows and what its requests hold have the fields of the models.
THEOREM InstrumentsTyped == Spec => []InstrumentsTypeOK
<1>1. Init => JrInit /\ JdbInit /\ GicInit /\ DisputeInit /\ InactivityInit /\ ReconciliationInit
  BY DEF Init
<1>2. [Next]_<<instrumentVars, disputeVars, jobVars, part>> =>
        /\ [JrNext]_jrVars /\ [JdbNext]_jdbVars /\ [GicNext]_gicVars /\ [DisputeNext]_disputeVars
        /\ [InactivityNext]_inactivityVars /\ [ReconciliationNext]_reconciliationVars
  BY DEF Next, instrumentVars, jobVars
<1>3. ReconciliationIInv => ReconciliationTypeOK
  BY DEF ReconciliationIInv, ReconciliationTypeOK, EntryOK, RunOK
<1>4. InactivityIInv => InactivityTypeOK
  BY DEF InactivityIInv
<1>5. JrTypeOK /\ JdbTypeOK /\ GicTypeOK /\ DisputeTypeOK /\ InactivityTypeOK /\ ReconciliationTypeOK
      => InstrumentsTypeOK
  BY DEF InstrumentsTypeOK
<1>6. QED
  BY <1>1, <1>2, <1>3, <1>4, <1>5, JrTypeCorrect, JdbTypeCorrect, GicTypeCorrect, DisputeTypeCorrect,
     InactivityInductive, ReconciliationInductive, PTL
     DEF Spec, JrSpec, JdbSpec, GicSpec, DisputeSpec
=============================================================================
