-------------------------------- MODULE Recall --------------------------------
(* One recall order for GDP units and the DAC proposal linked to it: approval  *)
(* by staff or by the votes of node operators, execution unit by unit, the     *)
(* admin actions.  Nothing is locked and no handler runs in a transaction: a   *)
(* request saves rows one after the other, each as it was loaded.              *)
EXTENDS Handlers

CONSTANTS
    Target,    \* what an order may name: units, GDP units or others, and ids of nothing
    Unit,      \* the GDP units among them
    Node,      \* nodes, each run by an operator of its own
    Votes      \* votes_required

ASSUME RecallConstants == Unit \subseteq Target /\ IsFiniteSet(Node) /\ Votes \in Nat \ {0}

VARIABLES
    recall,     \* the RecallOrder row: status, target_units
    dac,        \* the DACProposal row: status, votes_received
    dacVote,    \* Node -> its DACVote row, or "none"
    node,       \* Node -> status of the NodeAgent row
    affected,   \* units with a RecallAffectedUnit row
    burned,     \* units the order made BURNED (a later release of an earmark, GdpUnits, is not seen here)
    serving,    \* Request -> what it is doing and the row it loaded
    approvedBy, \* history: who approved the order
    marked      \* history: the admin marked the order complete

recallRows == <<recall, dac, dacVote, node, affected, burned>>
recallVars == <<recallRows, serving, approvedBy, marked>>

RecallInit ==
    /\ recall = Absent /\ dac = Absent
    /\ dacVote = [n \in Node |-> "none"]
    /\ node = [n \in Node |-> "INACTIVE"]
    /\ affected = {} /\ burned = {}
    /\ serving = [q \in Request |-> Free]
    /\ approvedBy = {} /\ marked = FALSE

Serves(q, pc) == serving[q].pc = pc
Goes(q, step) == serving' = [serving EXCEPT ![q] = step]

SavesRecall(q, row, next) ==
    /\ recall' = row
    /\ Goes(q, next)
    /\ UNCHANGED <<dac, dacVote, node, affected, burned>>

\* initiate: unit ids cannot be stored (the request fails), so its orders name no unit;
\* orders with units come from the admin form.
CreatesRecall(targets, next) ==
    /\ recall = Absent
    /\ recall' = [status |-> "INITIATED", targets |-> targets]
    /\ next
    /\ UNCHANGED <<dac, dacVote, node, affected, burned, approvedBy, marked>>

InitiateRecall(q) == Serves(q, "free") /\ CreatesRecall({}, Goes(q, [pc |-> "propose"]))
AdminAddsRecall(targets) == CreatesRecall(targets, UNCHANGED serving)

CreatesProposal(status) ==
    /\ recall # Absent /\ dac = Absent
    /\ dac' = [status |-> status, received |-> 0]
    /\ UNCHANGED <<recall, dacVote, node, affected, burned, approvedBy, marked>>

ProposesRecall(q) == Serves(q, "propose") /\ CreatesProposal("VOTING") /\ Goes(q, Free)
\* A client (VOTING) or the admin form (PENDING) adds the proposal.
AddsProposal(status) == CreatesProposal(status) /\ UNCHANGED serving

-----------------------------------------------------------------------------
Loads(q, pc, row, statuses) ==
    /\ Serves(q, "free") /\ row # Absent /\ row.status \in statuses
    /\ Goes(q, [pc |-> pc, row |-> row])
    /\ UNCHANGED <<recallRows, approvedBy, marked>>

\* The staff's approval, and the admin's, which sends the recall to the chain at once.
ApproveLoads(q) == Loads(q, "approve", recall, {"INITIATED"})
ApproveSaves(q) ==
    /\ Serves(q, "approve")
    /\ SavesRecall(q, [serving[q].row EXCEPT !.status = "APPROVED"], Free)
    /\ approvedBy' = approvedBy \cup {"staff"}
    /\ UNCHANGED marked

RecallLoads(q) == Loads(q, "execute", recall, {"APPROVED"})

\* (mutant of ExecuteStarts: the units are looked up at the end)
ExecuteSkipsUnits(q) ==
    /\ Serves(q, "execute")
    /\ SavesRecall(q, [serving[q].row EXCEPT !.status = "EXECUTING"],
                   [pc |-> "units", row |-> serving[q].row, left |-> {}])
    /\ UNCHANGED <<approvedBy, marked>>

ExecuteStarts(q) ==
    /\ Serves(q, "execute")
    /\ SavesRecall(q, [serving[q].row EXCEPT !.status = "EXECUTING"],
                   [pc |-> "units", row |-> serving[q].row, left |-> serving[q].row.targets])
    /\ UNCHANGED <<approvedBy, marked>>

\* A GDP unit is put on record and burned.
RecordsUnit(q, u) ==
    /\ Serves(q, "units") /\ u \in serving[q].left
    /\ affected' = affected \cup {u}
    /\ Goes(q, [pc |-> "burn", row |-> serving[q].row, left |-> serving[q].left, unit |-> u])
    /\ UNCHANGED <<recall, dac, dacVote, node, burned, approvedBy, marked>>

\* What is no GDP unit, a unit of a jewellery right or a wrong id, is passed over.
SkipsTarget(q) ==
    /\ Serves(q, "units")
    /\ \E t \in serving[q].left \ Unit: Goes(q, [serving[q] EXCEPT !.left = @ \ {t}])
    /\ UNCHANGED <<recallRows, approvedBy, marked>>

BurnsUnit(q) ==
    /\ Serves(q, "burn")
    /\ LET u == serving[q].unit IN
       /\ burned' = burned \cup {u}
       /\ Goes(q, [pc |-> "units", row |-> serving[q].row, left |-> serving[q].left \ {u}])
    /\ UNCHANGED <<recall, dac, dacVote, node, affected, approvedBy, marked>>

ExecuteCompletes(q) ==
    /\ Serves(q, "units") /\ serving[q].left = {}
    /\ SavesRecall(q, [serving[q].row EXCEPT !.status = "COMPLETED"], Free)
    /\ UNCHANGED <<approvedBy, marked>>

\* The admin actions that are one UPDATE.
CancelRecallOrder ==
    /\ recall # Absent /\ recall.status \notin {"COMPLETED", "CANCELLED"}
    /\ recall' = [recall EXCEPT !.status = "CANCELLED"]
    /\ UNCHANGED <<dac, dacVote, node, affected, burned, serving, approvedBy, marked>>

MarkRecallComplete ==
    /\ recall # Absent /\ recall.status = "EXECUTING"
    /\ recall' = [recall EXCEPT !.status = "COMPLETED"] /\ marked' = TRUE
    /\ UNCHANGED <<dac, dacVote, node, affected, burned, serving, approvedBy>>

OpenDacVoting ==
    /\ dac # Absent /\ dac.status = "PENDING"
    /\ dac' = [dac EXCEPT !.status = "VOTING"]
    /\ UNCHANGED <<recall, dacVote, node, affected, burned, serving, approvedBy, marked>>

ExecuteDac ==
    /\ dac # Absent /\ dac.status = "APPROVED"
    /\ dac' = [dac EXCEPT !.status = "EXECUTED"]
    /\ UNCHANGED <<recall, dacVote, node, affected, burned, serving, approvedBy, marked>>

\* A heartbeat activates a node whatever its status is; the admin form suspends it.
SetsNode(n, status) ==
    /\ node[n] # status
    /\ node' = [node EXCEPT ![n] = status]
    /\ UNCHANGED <<recall, dac, dacVote, affected, burned, serving, approvedBy, marked>>

-----------------------------------------------------------------------------
VoteLoads(q, n, approve) ==
    /\ Serves(q, "free") /\ dac # Absent /\ dac.status = "VOTING" /\ node[n] = "ACTIVE"
    /\ Goes(q, [pc |-> "vote", row |-> dac, node |-> n, approve |-> approve])
    /\ UNCHANGED <<recallRows, approvedBy, marked>>

\* (mutant of VoteRecords: without the uniqueness of proposal and node)
VoteRecordsAgain(q) ==
    /\ Serves(q, "vote")
    /\ dacVote' = [dacVote EXCEPT ![serving[q].node] = IF serving[q].approve THEN "approve" ELSE "reject"]
    /\ Goes(q, [serving[q] EXCEPT !.pc = "recorded"])
    /\ UNCHANGED <<recall, dac, node, affected, burned, approvedBy, marked>>

\* proposal and node are unique: the second of two votes raises.
VoteRecords(q) ==
    /\ Serves(q, "vote")
    /\ LET n == serving[q].node IN
       \/ /\ dacVote[n] = "none"
          /\ dacVote' = [dacVote EXCEPT ![n] = IF serving[q].approve THEN "approve" ELSE "reject"]
          /\ Goes(q, [serving[q] EXCEPT !.pc = "recorded"])
       \/ /\ dacVote[n] # "none"
          /\ Goes(q, Free) /\ UNCHANGED dacVote
    /\ UNCHANGED <<recall, dac, node, affected, burned, approvedBy, marked>>

Received(q) == serving[q].row.received + 1
Decisive(q) == serving[q].approve /\ Received(q) >= Votes

\* The linked order is read now, and approved whatever its status is: cancelled,
\* executing or completed.
VoteApprovesRecall(q) ==
    /\ Serves(q, "recorded") /\ Decisive(q)
    /\ SavesRecall(q, [recall EXCEPT !.status = "APPROVED"], [serving[q] EXCEPT !.pc = "decided"])
    /\ approvedBy' = approvedBy \cup {"dac"}
    /\ UNCHANGED marked

DacVoteSaves(q) ==
    /\ \/ Serves(q, "decided")
       \/ Serves(q, "recorded") /\ ~Decisive(q)
    /\ dac' = [status |-> IF Decisive(q) THEN "APPROVED" ELSE serving[q].row.status,
               received |-> IF serving[q].approve THEN Received(q) ELSE serving[q].row.received]
    /\ Goes(q, Free)
    /\ UNCHANGED <<recall, dacVote, node, affected, burned, approvedBy, marked>>

RecallDies(q) ==
    /\ ~Serves(q, "free")
    /\ Goes(q, Free)
    /\ UNCHANGED <<recallRows, approvedBy, marked>>

RecallStep(q) ==
    \/ InitiateRecall(q) \/ ProposesRecall(q)
    \/ ApproveLoads(q) \/ ApproveSaves(q)
    \/ RecallLoads(q) \/ ExecuteStarts(q) \/ SkipsTarget(q) \/ BurnsUnit(q) \/ ExecuteCompletes(q)
    \/ \E u \in Unit: RecordsUnit(q, u)
    \/ \E n \in Node, approve \in BOOLEAN: VoteLoads(q, n, approve)
    \/ VoteRecords(q) \/ VoteApprovesRecall(q) \/ DacVoteSaves(q) \/ RecallDies(q)

RecallNext ==
    \/ \E q \in Request: RecallStep(q)
    \/ \E targets \in SUBSET Target: AdminAddsRecall(targets)
    \/ \E status \in {"PENDING", "VOTING"}: AddsProposal(status)
    \/ CancelRecallOrder \/ MarkRecallComplete \/ OpenDacVoting \/ ExecuteDac
    \/ \E n \in Node, status \in {"ACTIVE", "SUSPENDED"}: SetsNode(n, status)

RecallSpec == RecallInit /\ [][RecallNext]_recallVars

-----------------------------------------------------------------------------
RecallRow == [status: {"INITIATED", "APPROVED", "EXECUTING", "COMPLETED", "CANCELLED"}, targets: SUBSET Target]
DacRow == [status: {"PENDING", "VOTING", "APPROVED", "EXECUTED"}, received: Nat]
DacVoteValue == {"none", "approve", "reject"}
NodeStatus == {"INACTIVE", "ACTIVE", "SUSPENDED"}

\* The rows have the fields of the models.
RecallTypeOK ==
    /\ recall \in {Absent} \cup RecallRow
    /\ dac \in {Absent} \cup DacRow
    /\ dacVote \in [Node -> DacVoteValue]
    /\ node \in [Node -> NodeStatus]
    /\ affected \subseteq Unit /\ burned \subseteq Unit
    /\ approvedBy \subseteq {"staff", "dac"} /\ marked \in BOOLEAN

Approving == {n \in Node: dacVote[n] = "approve"}

\* No unit is recalled unless the staff approved the order or the required number of
\* nodes voted for it, each of them once, however votes, approvals and executions
\* overtake each other; and a burned unit has a row that tells of it.
BurnsAreApproved ==
    /\ affected # {} => "staff" \in approvedBy \/ Cardinality(Approving) >= Votes
    /\ burned \subseteq affected

\* An order is completed only when every GDP unit it names is burned, through crashes
\* between two units, repeated executions and cancellations in between, unless the
\* admin marked it.  Of the other things it names nothing is said: they are passed over.
CompletedIsDone ==
    recall # Absent /\ recall.status = "COMPLETED" => marked \/ recall.targets \cap Unit \subseteq burned
=============================================================================
