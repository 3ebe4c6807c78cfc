------------------------------ MODULE GdpMinting ------------------------------
(* Minting GDP units for minting records (irg_gdp): the checklist, the cap per *)
(* user, the execution by the owner, by the admin action and by irg_jr's       *)
(* confirm_payment.  No handler locks the record it read; it waits for its     *)
(* chain transaction (whose answer it does not look at) and saves the whole    *)
(* row.  Requests overlap, raise and die.                                      *)
EXTENDS Handlers

CONSTANTS
    Record,      \* minting records
    JrRecord,    \* those that confirm_payment creates
    RecordUser,  \* Record -> the user it mints for
    Grams,       \* Record -> pure_gold_equivalent
    Cap,         \* _MINTING_CAP_GRAMS
    MaxMint      \* bound: units of one record that are counted

ASSUME MintConstants ==
    /\ IsFiniteSet(Record) /\ JrRecord \subseteq Record
    /\ RecordUser \in [Record -> User] /\ Grams \in [Record -> Nat]
    /\ Cap \in Nat /\ MaxMint \in Nat \ {0}

VARIABLES
    record,    \* Record -> status of the row, whether its five checks are ticked
    minting,   \* Request -> what it is doing, and whether its cap check still holds
    minted,    \* Record -> GDPUnit rows created for it
    unchecked  \* history: records completed without a cap check that still held

mintVars == <<record, minting, minted, unchecked>>

Begins(q, pc, r, by, fresh) ==
    /\ minting[q] = Free
    /\ minting' = [minting EXCEPT ![q] = [pc |-> pc, record |-> r, by |-> by, fresh |-> fresh]]
MintAt(q, pc) == minting[q].pc = pc
MintEnds(q) == minting' = [minting EXCEPT ![q] = Free]

MintInit ==
    /\ record = [r \in Record |-> [status |-> IF r \in JrRecord THEN "none" ELSE "INITIATED",
                                   checked |-> FALSE]]
    /\ minting = [q \in Request |-> Free]
    /\ minted = [r \in Record |-> 0]
    /\ unchecked = {}

CompletedFor(user) == {r \in Record: RecordUser[r] = user /\ record[r].status = "COMPLETED"}
MintedGrams(user) == SumFunctionOnSet(Grams, CompletedFor(user))

\* The status the record had is not looked at: a completed one is opened again.
VerifyChecklist(r, complete) ==
    /\ record[r].status # "none"
    /\ record' = [record EXCEPT ![r] =
                    [status |-> IF complete THEN "VERIFIED" ELSE "CHECKLIST_PENDING",
                     checked |-> complete]]
    /\ UNCHANGED <<minting, minted, unchecked>>

ApproveChecklist(r) ==
    /\ record[r].status \in {"INITIATED", "CHECKLIST_PENDING"}
    /\ record' = [record EXCEPT ![r] = [status |-> "VERIFIED", checked |-> TRUE]]
    /\ UNCHANGED <<minting, minted, unchecked>>

RejectMint(r) ==
    /\ record[r].status \notin {"none", "COMPLETED", "REJECTED"}
    /\ record' = [record EXCEPT ![r].status = "REJECTED"]
    /\ UNCHANGED <<minting, minted, unchecked>>

\* (mutant of ExecuteMint: completed records are forgotten by the check at execution)
ExecuteMintUncapped(q, r) ==
    /\ record[r] = [status |-> "VERIFIED", checked |-> TRUE]
    /\ Begins(q, "loaded", r, "owner", TRUE)
    /\ UNCHANGED <<record, minted, unchecked>>

\* Loads the record and checks it; over the cap it is rejected.
ExecuteMint(q, r) ==
    /\ record[r] = [status |-> "VERIFIED", checked |-> TRUE]
    /\ IF MintedGrams(RecordUser[r]) + Grams[r] > Cap
       THEN /\ minting[q] = Free /\ UNCHANGED minting
            /\ record' = [record EXCEPT ![r].status = "REJECTED"]
       ELSE /\ Begins(q, "loaded", r, "owner", TRUE)
            /\ UNCHANGED record
    /\ UNCHANGED <<minted, unchecked>>

\* The admin action does not look at the cap.
AdminExecuteMint(q, r) ==
    /\ record[r] = [status |-> "VERIFIED", checked |-> TRUE]
    /\ Begins(q, "loaded", r, "admin", FALSE)
    /\ UNCHANGED <<record, minted, unchecked>>

SaveMinting(q) ==
    /\ MintAt(q, "loaded")
    /\ record' = [record EXCEPT ![minting[q].record] = [status |-> "MINTING", checked |-> TRUE]]
    /\ minting' = [minting EXCEPT ![q].pc = "sent"]
    /\ UNCHANGED <<minted, unchecked>>

\* The requests left once r is completed, and q has gone to next: the cap checks
\* under way for the same user no longer hold.
AfterCompletion(q, r, next) ==
    [p \in Request |->
        IF p = q THEN next
        ELSE IF minting[p] # Free /\ RecordUser[minting[p].record] = RecordUser[r]
        THEN [minting[p] EXCEPT !.fresh = FALSE] ELSE minting[p]]

Completes(q) ==
    LET r == minting[q].record IN
    /\ record' = [record EXCEPT ![r] = [status |-> "COMPLETED", checked |-> TRUE]]
    /\ unchecked' = IF minting[q].fresh THEN unchecked \ {r} ELSE unchecked \cup {r}
    /\ minting' = AfterCompletion(q, r, Free)

CreatesUnit(r) == minted' = [minted EXCEPT ![r] = IF @ < MaxMint THEN @ + 1 ELSE @]

\* (mutant of FinishMint: the record is saved and the unit forgotten)
FinishMintWithoutUnit(q) ==
    /\ MintAt(q, "sent") /\ minting[q].by = "owner"
    /\ Completes(q)
    /\ UNCHANGED minted

\* The unit and the completed record, in one transaction.
FinishMint(q) ==
    /\ MintAt(q, "sent") /\ minting[q].by = "owner"
    /\ CreatesUnit(minting[q].record)
    /\ Completes(q)

\* The admin action saves the unit, then the record.
AdminCreatesUnit(q) ==
    /\ MintAt(q, "sent") /\ minting[q].by = "admin"
    /\ CreatesUnit(minting[q].record)
    /\ minting' = [minting EXCEPT ![q].pc = "unit_made"]
    /\ UNCHANGED <<record, unchecked>>

AdminCompletes(q) ==
    /\ MintAt(q, "unit_made")
    /\ Completes(q)
    /\ UNCHANGED minted

\* What raises in the try block is answered by saving REJECTED.
MintRaises(q) ==
    /\ minting[q].pc \in {"sent", "unit_made"}
    /\ record' = [record EXCEPT ![minting[q].record] = [status |-> "REJECTED", checked |-> TRUE]]
    /\ MintEnds(q)
    /\ UNCHANGED <<minted, unchecked>>

\* confirm_payment: a completed record, with no look at the cap, then the unit;
\* what raises in between is logged.
JrCreatesRecord(q, r) ==
    /\ minting[q] = Free
    /\ r \in JrRecord /\ record[r].status = "none"
    /\ record' = [record EXCEPT ![r] = [status |-> "COMPLETED", checked |-> TRUE]]
    /\ unchecked' = unchecked \cup {r}
    /\ minting' = AfterCompletion(q, r, [pc |-> "jr_unit", record |-> r, by |-> "jeweler", fresh |-> FALSE])
    /\ UNCHANGED minted

JrCreatesUnit(q) ==
    /\ MintAt(q, "jr_unit")
    /\ CreatesUnit(minting[q].record)
    /\ MintEnds(q)
    /\ UNCHANGED <<record, unchecked>>

MintDies(q) ==
    /\ minting[q] # Free
    /\ MintEnds(q)
    /\ UNCHANGED <<record, minted, unchecked>>

-----------------------------------------------------------------------------
MintStep(q) ==
    \/ SaveMinting(q) \/ FinishMint(q) \/ AdminCreatesUnit(q) \/ AdminCompletes(q)
    \/ MintRaises(q) \/ JrCreatesUnit(q) \/ MintDies(q)
    \/ \E r \in Record: ExecuteMint(q, r) \/ AdminExecuteMint(q, r) \/ JrCreatesRecord(q, r)

MintNext ==
    \/ \E q \in Request: MintStep(q)
    \/ \E r \in Record: \/ ApproveChecklist(r) \/ RejectMint(r)
                        \/ \E complete \in BOOLEAN: VerifyChecklist(r, complete)

MintSpec == MintInit /\ [][MintNext]_mintVars

-----------------------------------------------------------------------------
MintingRow == [status: {"none", "INITIATED", "CHECKLIST_PENDING", "VERIFIED", "MINTING",
                        "COMPLETED", "REJECTED"}, checked: BOOLEAN]

\* Rows have the statuses of the model, and a request holds the record it loaded.
MintTypeOK ==
    /\ record \in [Record -> MintingRow]
    /\ \A q \in Request: minting[q] = Free \/
          minting[q] \in [pc: {"loaded", "sent", "unit_made", "jr_unit"}, record: Record,
                         by: {"owner", "admin", "jeweler"}, fresh: BOOLEAN]
    /\ DOMAIN minting = Request
    /\ minted \in [Record -> Nat] /\ unchecked \subseteq Record

\* The cap holds for the records whose check still held when they were completed:
\* only a mint that overlaps another of the same user, the admin action and
\* confirm_payment can take a user over it, however often records are verified,
\* executed and opened again.
CapUnlessOverlap == \A user \in User: SumFunctionOnSet(Grams, CompletedFor(user) \ unchecked) <= Cap

\* A record is completed only when there is a unit to show for it: an exception, a
\* crash, a rejection and a second execution leave a unit without its record, never
\* a record without its unit.  (Not so confirm_payment's.)
CompletedHasUnit ==
    \A r \in Record \ JrRecord: record[r].status = "COMPLETED" => minted[r] > 0
=============================================================================
