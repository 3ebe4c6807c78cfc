----------------------------- MODULE Certificates -----------------------------
(* Gold investment certificates (irg_gic): investment, maturity, redemption by *)
(* the holder and its approval or rejection by the admin.  Rows are saved one  *)
(* by one, each as it was loaded, around the settlements on the chain.         *)
EXTENDS Handlers

CONSTANTS
    Certificate,    \* certificates
    MaxRedemption,  \* bound: redemption records
    MaxSettled      \* bound: settlements of one certificate

ASSUME GicConstants == MaxRedemption \in Nat /\ MaxSettled \in Nat

VARIABLES
    cert,        \* Certificate -> status of the row
    redemption,  \* the GICRedemption rows: status, certificate
    settled,     \* Certificate -> settlements sent to the chain
    redeeming,   \* Request -> what it is doing
    contested    \* history: certificates two requests redeemed at a time, or one that died

gicVars == <<cert, redemption, settled, redeeming, contested>>

Redemptions == 1..MaxRedemption

GicInit ==
    /\ cert = [c \in Certificate |-> "none"]
    /\ redemption = [r \in Redemptions |-> Absent]
    /\ settled = [c \in Certificate |-> 0]
    /\ redeeming = [q \in Request |-> Free]
    /\ contested = {}

RedeemsAt(q, pc) == redeeming[q].pc = pc
RedeemStep(q, pc) == redeeming' = [redeeming EXCEPT ![q].pc = pc]
RedeemEnds(q) == redeeming' = [redeeming EXCEPT ![q] = Free]

Invest(c) ==
    /\ cert[c] = "none"
    /\ cert' = [cert EXCEPT ![c] = "ACTIVE"]
    /\ UNCHANGED <<redemption, settled, redeeming, contested>>

\* Past its date; the admin's one UPDATE.
MarkMatured(c) ==
    /\ cert[c] = "ACTIVE"
    /\ cert' = [cert EXCEPT ![c] = "MATURED"]
    /\ UNCHANGED <<redemption, settled, redeeming, contested>>

BeginsRedeeming(q, c) ==
    /\ RedeemsAt(q, "free")
    /\ redeeming' = [redeeming EXCEPT ![q] =
                       [pc |-> IF cert[c] = "ACTIVE" THEN "mature" ELSE "settle", cert |-> c, redemption |-> 0]]
    /\ contested' = IF \E p \in Request: ~RedeemsAt(p, "free") /\ redeeming[p].cert = c
                    THEN contested \cup {c} ELSE contested
    /\ UNCHANGED <<cert, redemption, settled>>

\* (mutant of RedeemLoads: the status is looked at for ACTIVE certificates only)
RedeemAgain(q, c) == cert[c] # "none" /\ BeginsRedeeming(q, c)

\* ACTIVE and past its date, or MATURED.
RedeemLoads(q, c) == cert[c] \in {"ACTIVE", "MATURED"} /\ BeginsRedeeming(q, c)

RedeemMatures(q) ==
    /\ RedeemsAt(q, "mature")
    /\ cert' = [cert EXCEPT ![redeeming[q].cert] = "MATURED"]
    /\ RedeemStep(q, "settle")
    /\ UNCHANGED <<redemption, settled, contested>>

Settles(q, from, to) ==
    /\ RedeemsAt(q, from) /\ settled[redeeming[q].cert] < MaxSettled
    /\ settled' = [settled EXCEPT ![redeeming[q].cert] = @ + 1]
    /\ RedeemStep(q, to)
    /\ UNCHANGED <<cert, redemption, contested>>

RedeemSettles(q) == Settles(q, "settle", "create")

RedeemCreates(q) ==
    /\ RedeemsAt(q, "create") /\ HasRoom(redemption)
    /\ redemption' = [redemption EXCEPT ![NextRow(redemption)] =
                        [status |-> "REQUESTED", cert |-> redeeming[q].cert]]
    /\ RedeemStep(q, "redeem")
    /\ UNCHANGED <<cert, settled, contested>>

\* The last step of the holder's redemption and of the admin's approval.
RedeemSaves(q) ==
    /\ RedeemsAt(q, "redeem")
    /\ cert' = [cert EXCEPT ![redeeming[q].cert] = "REDEEMED"]
    /\ RedeemEnds(q)
    /\ UNCHANGED <<redemption, settled, contested>>

-----------------------------------------------------------------------------
SavesRedemption(r, status) ==
    /\ redemption' = [redemption EXCEPT ![r].status = status]
    /\ UNCHANGED <<cert, settled, contested>>

ApproveRedemption(q, r) ==
    /\ RedeemsAt(q, "free") /\ redemption[r] # Absent /\ redemption[r].status = "REQUESTED"
    /\ redeeming' = [redeeming EXCEPT ![q] = [pc |-> "approve", cert |-> redemption[r].cert, redemption |-> r]]
    /\ UNCHANGED <<cert, redemption, settled, contested>>

ApprovalProcesses(q) ==
    /\ RedeemsAt(q, "approve")
    /\ SavesRedemption(redeeming[q].redemption, "PROCESSING")
    /\ RedeemStep(q, "resettle")

\* It settles what redeem has settled already.
ApprovalSettles(q) == Settles(q, "resettle", "finish")

ApprovalCompletes(q) ==
    /\ RedeemsAt(q, "finish")
    /\ SavesRedemption(redeeming[q].redemption, "COMPLETED")
    /\ RedeemStep(q, "redeem")

\* What raises on the way rejects the redemption.
ApprovalRaises(q) ==
    /\ redeeming[q].pc \in {"approve", "resettle", "finish"}
    /\ SavesRedemption(redeeming[q].redemption, "REJECTED")
    /\ RedeemEnds(q)

RejectRedemption(r) ==
    /\ redemption[r] # Absent /\ redemption[r].status \in {"REQUESTED", "PROCESSING"}
    /\ SavesRedemption(r, "REJECTED")
    /\ UNCHANGED redeeming

GicDies(q) ==
    /\ ~RedeemsAt(q, "free")
    /\ contested' = contested \cup {redeeming[q].cert}
    /\ RedeemEnds(q)
    /\ UNCHANGED <<cert, redemption, settled>>

GicNext ==
    \/ \E c \in Certificate: Invest(c) \/ MarkMatured(c)
    \/ \E r \in Redemptions: RejectRedemption(r)
    \/ \E q \in Request:
          \/ \E c \in Certificate: RedeemLoads(q, c)
          \/ \E r \in Redemptions: ApproveRedemption(q, r)
          \/ RedeemMatures(q) \/ RedeemSettles(q) \/ RedeemCreates(q) \/ RedeemSaves(q)
          \/ ApprovalProcesses(q) \/ ApprovalSettles(q) \/ ApprovalCompletes(q) \/ ApprovalRaises(q)
          \/ GicDies(q)

GicSpec == GicInit /\ [][GicNext]_gicVars

-----------------------------------------------------------------------------
CertificateStatus == {"none", "ACTIVE", "MATURED", "REDEEMED"}
RedemptionRow == [status: {"REQUESTED", "PROCESSING", "COMPLETED", "REJECTED"}, cert: Certificate]

\* The rows have the fields of the models.
GicTypeOK ==
    /\ cert \in [Certificate -> CertificateStatus]
    /\ redemption \in [Redemptions -> {Absent} \cup RedemptionRow]
    /\ settled \in [Certificate -> Nat] /\ contested \subseteq Certificate

RedemptionsOf(c) == {r \in Redemptions: redemption[r] # Absent /\ redemption[r].cert = c}

\* A certificate is REDEEMED only if it was settled and has a redemption to show for
\* it; and unless two requests redeem it at a time or one dies half done, it has one.
RedeemedIsSettled ==
    \A c \in Certificate:
        /\ cert[c] = "REDEEMED" => settled[c] > 0 /\ RedemptionsOf(c) # {}
        /\ c \notin contested => Cardinality(RedemptionsOf(c)) <= 1
=============================================================================
