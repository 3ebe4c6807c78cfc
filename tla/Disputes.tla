-------------------------------- MODULE Disputes ------------------------------
(* Disputes: filing with an ombudsman, review, resolution, and the payment of  *)
(* a compensation.                                                             *)
EXTENDS Handlers

CONSTANTS
    Dispute,      \* disputes
    Ombudsman,    \* ombudsman profiles
    MaxSent       \* bound: payments of the compensation

ASSUME DisputeConstants == MaxSent \in Nat

VARIABLES
    dispute,       \* Dispute -> the row: status, assigned ombudsman
    compensation,  \* status of a Compensation row (added by the admin form)
    sent,          \* payments of it on the chain
    handling       \* Request -> what it is doing

disputeVars == <<dispute, compensation, sent, handling>>

Open == {"FILED", "UNDER_REVIEW", "HEARING"}

DisputeInit ==
    /\ dispute = [d \in Dispute |-> Absent]
    /\ compensation = "none"
    /\ sent = 0
    /\ handling = [q \in Request |-> Free]

HandlesAt(q, pc) == handling[q].pc = pc
Handles(q, step) == handling' = [handling EXCEPT ![q] = step]

OpenCases(o) ==
    Cardinality({d \in Dispute: dispute[d] # Absent /\ dispute[d].ombudsman = o /\ dispute[d].status \in Open})

\* One with the fewest open cases, read before the dispute is stored.
FileAssigns(q, d, o) ==
    /\ HandlesAt(q, "free") /\ dispute[d] = Absent
    /\ \A p \in Request: HandlesAt(p, "file") => handling[p].dispute # d
    /\ \A p \in Ombudsman: OpenCases(o) <= OpenCases(p)
    /\ Handles(q, [pc |-> "file", dispute |-> d, ombudsman |-> o])
    /\ UNCHANGED <<dispute, compensation, sent>>

\* (mutant of FileStores: disputes start PENDING)
FileStoresPending(q) ==
    /\ HandlesAt(q, "file")
    /\ dispute' = [dispute EXCEPT ![handling[q].dispute] = [status |-> "PENDING", ombudsman |-> handling[q].ombudsman]]
    /\ Handles(q, Free)
    /\ UNCHANGED <<compensation, sent>>

FileStores(q) ==
    /\ HandlesAt(q, "file")
    /\ dispute' = [dispute EXCEPT ![handling[q].dispute] = [status |-> "FILED", ombudsman |-> handling[q].ombudsman]]
    /\ Handles(q, Free)
    /\ UNCHANGED <<compensation, sent>>

\* Whatever the status is.
StartReview(d) ==
    /\ dispute[d] # Absent
    /\ dispute' = [dispute EXCEPT ![d].status = "UNDER_REVIEW"]
    /\ UNCHANGED <<compensation, sent, handling>>

ResolveBegins(q, d) ==
    /\ HandlesAt(q, "free") /\ dispute[d] # Absent
    /\ Handles(q, [pc |-> "resolve", dispute |-> d])
    /\ UNCHANGED <<dispute, compensation, sent>>

\* The compensation is read with Decimal, which the module does not import: the request
\* fails before anything is recorded.
ResolveRaises(q) ==
    /\ HandlesAt(q, "resolve")
    /\ Handles(q, Free)
    /\ UNCHANGED <<dispute, compensation, sent>>

AdminOrdersCompensation ==
    /\ compensation = "none"
    /\ compensation' = "ORDERED"
    /\ UNCHANGED <<dispute, sent, handling>>

MarkPaidLoads(q) ==
    /\ HandlesAt(q, "free") /\ compensation = "ORDERED"
    /\ Handles(q, [pc |-> "settle"])
    /\ UNCHANGED <<dispute, compensation, sent>>

MarkPaidSettles(q) ==
    /\ HandlesAt(q, "settle") /\ sent < MaxSent
    /\ sent' = sent + 1
    /\ Handles(q, [pc |-> "paid"])
    /\ UNCHANGED <<dispute, compensation>>

MarkPaidSaves(q) ==
    /\ HandlesAt(q, "paid")
    /\ compensation' = "PAID"
    /\ Handles(q, Free)
    /\ UNCHANGED <<dispute, sent>>

DisputeDies(q) ==
    /\ ~HandlesAt(q, "free")
    /\ Handles(q, Free)
    /\ UNCHANGED <<dispute, compensation, sent>>

DisputeNext ==
    \/ \E q \in Request:
          \/ \E d \in Dispute, o \in Ombudsman: FileAssigns(q, d, o)
          \/ \E d \in Dispute: ResolveBegins(q, d)
          \/ FileStores(q) \/ ResolveRaises(q)
          \/ MarkPaidLoads(q) \/ MarkPaidSettles(q) \/ MarkPaidSaves(q) \/ DisputeDies(q)
    \/ \E d \in Dispute: StartReview(d)
    \/ AdminOrdersCompensation

DisputeSpec == DisputeInit /\ [][DisputeNext]_disputeVars

-----------------------------------------------------------------------------
DisputeRow == [status: Open \cup {"RESOLVED"}, ombudsman: Ombudsman]
CompensationStatus == {"none", "ORDERED", "PAID"}

\* The rows have the fields of the models.
DisputeTypeOK ==
    /\ dispute \in [Dispute -> {Absent} \cup DisputeRow]
    /\ compensation \in CompensationStatus /\ sent \in Nat
=============================================================================
