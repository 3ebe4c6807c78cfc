------------------------------ MODULE DesignBank ------------------------------
(* Designs and their orders (irg_jdb): approval, copyright, and the royalty    *)
(* that completing an order pays to the designer.  The designer's row counts   *)
(* royalties, orders and copyrights; it is loaded before a chain transaction   *)
(* and saved whole after it, and so is the design's own row.                   *)
EXTENDS Handlers

CONSTANTS
    Order,      \* orders for one design
    Royalty,    \* Order -> royalty of the order
    MaxPaid     \* bound: payments of one order

ASSUME DesignConstants == IsFiniteSet(Order) /\ Royalty \in [Order -> Nat] /\ MaxPaid \in Nat

VARIABLES
    design,     \* the Design row: status, whether it has a copyright hash, orders_count
    copyright,  \* the Copyright row exists
    jdbOrder,   \* Order -> status of the DesignOrder row
    designer,   \* the DesignerProfile row: royalties_earned, total_orders, copyright_count
    payment,    \* Order -> RoyaltyPayment rows
    paying      \* Request -> what it is doing and the rows it loaded

jdbVars == <<design, copyright, jdbOrder, designer, payment, paying>>

JdbInit ==
    /\ design = [status |-> "DRAFT", registered |-> FALSE, ordered |-> 0]
    /\ copyright = FALSE
    /\ jdbOrder = [o \in Order |-> "none"]
    /\ designer = [earned |-> 0, orders |-> 0, copyrights |-> 0]
    /\ payment = [o \in Order |-> 0]
    /\ paying = [q \in Request |-> Free]

PaysAt(q, pc) == paying[q].pc = pc
PayStep(q, step) == paying' = [paying EXCEPT ![q] = step]

\* submit_for_approval, approve and reject load the design and save it at once.
MovesDesign(from, to) ==
    /\ design.status \in from
    /\ design' = [design EXCEPT !.status = to]
    /\ UNCHANGED <<copyright, jdbOrder, designer, payment, paying>>

SubmitForApproval == MovesDesign({"DRAFT"}, "SUBMITTED")
ApproveDesign == MovesDesign({"SUBMITTED"}, "APPROVED")
RejectDesign == MovesDesign({"SUBMITTED", "APPROVED"}, "REJECTED")

RegisterCopyright(q) ==
    /\ PaysAt(q, "free") /\ design.status = "APPROVED" /\ ~design.registered
    /\ PayStep(q, [pc |-> "register", design |-> design, designer |-> designer])
    /\ UNCHANGED <<design, copyright, jdbOrder, designer, payment>>

SavesDesign(q) ==
    /\ PaysAt(q, "register")
    /\ design' = [paying[q].design EXCEPT !.registered = TRUE]
    /\ PayStep(q, [pc |-> "copyright", designer |-> paying[q].designer])
    /\ UNCHANGED <<copyright, jdbOrder, designer, payment>>

CreatesCopyright(q) ==
    /\ PaysAt(q, "copyright") /\ ~copyright
    /\ copyright' = TRUE
    /\ PayStep(q, [paying[q] EXCEPT !.pc = "count"])
    /\ UNCHANGED <<design, jdbOrder, designer, payment>>

\* A design has one copyright, the second of two raises; on a 29th of February the end
\* of its validity cannot be computed.  The design keeps its copyright hash.
CopyrightRaises(q) ==
    /\ PaysAt(q, "copyright")
    /\ PayStep(q, Free)
    /\ UNCHANGED <<design, copyright, jdbOrder, designer, payment>>

CountsCopyright(q) ==
    /\ PaysAt(q, "count")
    /\ designer' = [paying[q].designer EXCEPT !.copyrights = @ + 1]
    /\ PayStep(q, Free)
    /\ UNCHANGED <<design, copyright, jdbOrder, payment>>

-----------------------------------------------------------------------------
\* An order is placed for an approved design; the design is saved, with one order more,
\* as it was loaded: what was saved in between, a rejection or a copyright, is undone.
PlaceLoads(q) ==
    /\ PaysAt(q, "free") /\ design.status = "APPROVED"
    /\ PayStep(q, [pc |-> "place", design |-> design])
    /\ UNCHANGED <<design, copyright, jdbOrder, designer, payment>>

CreatesOrder(q, o) ==
    /\ PaysAt(q, "place") /\ jdbOrder[o] = "none"
    /\ jdbOrder' = [jdbOrder EXCEPT ![o] = "PLACED"]
    /\ PayStep(q, [paying[q] EXCEPT !.pc = "ordered"])
    /\ UNCHANGED <<design, copyright, designer, payment>>

CountsOrder(q) ==
    /\ PaysAt(q, "ordered")
    /\ design' = [paying[q].design EXCEPT !.ordered = @ + 1]
    /\ PayStep(q, Free)
    /\ UNCHANGED <<copyright, jdbOrder, designer, payment>>

AcceptLoads(q, o) ==
    /\ PaysAt(q, "free") /\ jdbOrder[o] = "PLACED"
    /\ PayStep(q, [pc |-> "accept", order |-> o])
    /\ UNCHANGED <<design, copyright, jdbOrder, designer, payment>>

AcceptSaves(q) ==
    /\ PaysAt(q, "accept")
    /\ jdbOrder' = [jdbOrder EXCEPT ![paying[q].order] = "IN_PROGRESS"]
    /\ PayStep(q, Free)
    /\ UNCHANGED <<design, copyright, designer, payment>>

CompleteLoads(q, o) ==
    /\ PaysAt(q, "free") /\ jdbOrder[o] \in {"PLACED", "IN_PROGRESS"}
    /\ PayStep(q, [pc |-> "pay", order |-> o, designer |-> designer])
    /\ UNCHANGED <<design, copyright, jdbOrder, designer, payment>>

CreatesPayment(q) ==
    /\ PaysAt(q, "pay") /\ payment[paying[q].order] < MaxPaid
    /\ payment' = [payment EXCEPT ![paying[q].order] = @ + 1]
    /\ PayStep(q, [paying[q] EXCEPT !.pc = "credit"])
    /\ UNCHANGED <<design, copyright, jdbOrder, designer>>

\* (mutant of CreditsDesigner: the royalty is added in two places)
CreditsDesignerTwice(q) ==
    /\ PaysAt(q, "credit")
    /\ designer' = [designer EXCEPT !.earned = @ + 2 * Royalty[paying[q].order], !.orders = @ + 1]
    /\ PayStep(q, [pc |-> "complete", order |-> paying[q].order])
    /\ UNCHANGED <<design, copyright, jdbOrder, payment>>

CreditsDesigner(q) ==
    /\ PaysAt(q, "credit")
    /\ designer' = [paying[q].designer EXCEPT !.earned = @ + Royalty[paying[q].order], !.orders = @ + 1]
    /\ PayStep(q, [pc |-> "complete", order |-> paying[q].order])
    /\ UNCHANGED <<design, copyright, jdbOrder, payment>>

CompletesOrder(q) ==
    /\ PaysAt(q, "complete")
    /\ jdbOrder' = [jdbOrder EXCEPT ![paying[q].order] = "COMPLETED"]
    /\ PayStep(q, Free)
    /\ UNCHANGED <<design, copyright, designer, payment>>

JdbDies(q) ==
    /\ ~PaysAt(q, "free")
    /\ PayStep(q, Free)
    /\ UNCHANGED <<design, copyright, jdbOrder, designer, payment>>

JdbNext ==
    \/ SubmitForApproval \/ ApproveDesign \/ RejectDesign
    \/ \E q \in Request:
          \/ RegisterCopyright(q) \/ SavesDesign(q) \/ CreatesCopyright(q)
          \/ CopyrightRaises(q) \/ CountsCopyright(q)
          \/ PlaceLoads(q) \/ CountsOrder(q)
          \/ \E o \in Order: CreatesOrder(q, o) \/ AcceptLoads(q, o) \/ CompleteLoads(q, o)
          \/ AcceptSaves(q) \/ CreatesPayment(q) \/ CreditsDesigner(q) \/ CompletesOrder(q) \/ JdbDies(q)

JdbSpec == JdbInit /\ [][JdbNext]_jdbVars

-----------------------------------------------------------------------------
DesignRow == [status: {"DRAFT", "SUBMITTED", "APPROVED", "REJECTED"}, registered: BOOLEAN, ordered: Nat]
DesignOrderStatus == {"none", "PLACED", "IN_PROGRESS", "COMPLETED"}
DesignerRow == [earned: Nat, orders: Nat, copyrights: Nat]

\* The rows have the fields of the models.
JdbTypeOK ==
    /\ design \in DesignRow
    /\ copyright \in BOOLEAN
    /\ jdbOrder \in [Order -> DesignOrderStatus]
    /\ designer \in DesignerRow
    /\ payment \in [Order -> Nat]

\* "Single source of truth": the designer's row never shows a royalty, an order or a
\* copyright without its payment or copyright row, though a save of an older row, by
\* another order or by the registration of a copyright, may take credits away; and
\* every completed order is paid.
RoyaltyLedger ==
    /\ designer.earned <= SumFunctionOnSet([o \in Order |-> Royalty[o] * payment[o]], Order)
    /\ designer.orders <= SumFunctionOnSet(payment, Order)
    /\ design.ordered <= Cardinality({o \in Order: jdbOrder[o] # "none"})
    /\ designer.copyrights <= IF copyright THEN 1 ELSE 0
    /\ \A o \in Order: jdbOrder[o] = "COMPLETED" => payment[o] > 0
=============================================================================
