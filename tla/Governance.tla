------------------------------ MODULE Governance ------------------------------
(* One governance proposal: submission, votes, execution, edits of its text.   *)
(* Every handler loads the proposal, most wait for their chain transaction,    *)
(* and save the whole row they loaded.                                         *)
EXTENDS Handlers

CONSTANTS
    Power,    \* voting powers users may hold when they vote
    Quorum    \* quorum_required

ASSUME GovConstants == Power \subseteq Nat \ {0} /\ Quorum \in Nat \ {0} /\ IsFiniteSet(User)

VARIABLES
    proposal,  \* the Proposal row: status, votes_for, votes_against
    vote,      \* User -> the Vote row: vote_for, voting_power
    deciding,  \* Request -> what it is doing and the proposal it loaded
    actions    \* GovernanceAction rows of the proposal

govVars == <<proposal, vote, deciding, actions>>

NoVote == [power |-> 0]

GovInit ==
    /\ proposal = [status |-> "DRAFT", for |-> 0, against |-> 0]
    /\ vote = [u \in User |-> NoVote]
    /\ deciding = [q \in Request |-> Free]
    /\ actions = 0

DecidesAt(q, pc) == deciding[q].pc = pc
Decides(q, step) == deciding' = [deciding EXCEPT ![q] = step]

\* The request holds the row as it was.
LoadsProposal(q, pc, status) ==
    /\ DecidesAt(q, "free") /\ proposal.status = status
    /\ Decides(q, [pc |-> pc, row |-> proposal])
    /\ UNCHANGED <<proposal, vote, actions>>

SavesProposal(q, row, next) ==
    /\ proposal' = row
    /\ Decides(q, next)
    /\ UNCHANGED <<vote, actions>>

SubmitLoads(q) == LoadsProposal(q, "submit", "DRAFT")
SubmitSaves(q) ==
    /\ DecidesAt(q, "submit")
    /\ SavesProposal(q, [deciding[q].row EXCEPT !.status = "ACTIVE"], Free)

\* A change of title, text or dates saves the whole row.
EditLoads(q) == \E status \in {"DRAFT", "ACTIVE", "PASSED", "EXECUTED"}: LoadsProposal(q, "edit", status)
EditSaves(q) == DecidesAt(q, "edit") /\ SavesProposal(q, deciding[q].row, Free)

\* Within the voting period; the power is read before the chain transaction.
CastLoads(q, user, for, power) ==
    /\ DecidesAt(q, "free")
    /\ proposal.status = "ACTIVE" /\ vote[user] = NoVote
    /\ Decides(q, [pc |-> "cast", row |-> proposal, user |-> user, ballot |-> [for |-> for, power |-> power]])
    /\ UNCHANGED <<proposal, vote, actions>>

\* (mutant of CastRecords: without the uniqueness of proposal and voter the second
\* vote replaces the first)
CastRecordsAgain(q) ==
    /\ DecidesAt(q, "cast")
    /\ vote' = [vote EXCEPT ![deciding[q].user] = deciding[q].ballot]
    /\ Decides(q, [deciding[q] EXCEPT !.pc = "recorded"])
    /\ UNCHANGED <<proposal, actions>>

\* proposal and voter are unique: the second of two votes raises.
CastRecords(q) ==
    /\ DecidesAt(q, "cast")
    /\ LET user == deciding[q].user IN
       \/ /\ vote[user] = NoVote
          /\ vote' = [vote EXCEPT ![user] = deciding[q].ballot]
          /\ Decides(q, [deciding[q] EXCEPT !.pc = "recorded"])
       \/ /\ vote[user] # NoVote
          /\ Decides(q, Free) /\ UNCHANGED vote
    /\ UNCHANGED <<proposal, actions>>

Tallied(row, ballot) ==
    LET counted == IF ballot.for THEN [row EXCEPT !.for = @ + ballot.power]
                                 ELSE [row EXCEPT !.against = @ + ballot.power]
    IN  IF counted.for >= Quorum THEN [counted EXCEPT !.status = "PASSED"] ELSE counted

CastSaves(q) ==
    /\ DecidesAt(q, "recorded")
    /\ SavesProposal(q, Tallied(deciding[q].row, deciding[q].ballot), Free)

ExecuteLoads(q) == LoadsProposal(q, "execute", "PASSED")

ExecuteSaves(q) ==
    /\ DecidesAt(q, "execute")
    /\ SavesProposal(q, [deciding[q].row EXCEPT !.status = "EXECUTED"], [pc |-> "executed"])

\* The log of executed actions; bounded by the deaths and requests of the run.
RecordsAction(q) ==
    /\ DecidesAt(q, "executed")
    /\ actions' = IF actions < 2 THEN actions + 1 ELSE actions
    /\ Decides(q, Free)
    /\ UNCHANGED <<proposal, vote>>

GovDies(q) ==
    /\ ~DecidesAt(q, "free")
    /\ Decides(q, Free)
    /\ UNCHANGED <<proposal, vote, actions>>

GovNext ==
    \E q \in Request:
        \/ SubmitLoads(q) \/ SubmitSaves(q) \/ EditLoads(q) \/ EditSaves(q)
        \/ \E user \in User, for \in BOOLEAN, power \in Power: CastLoads(q, user, for, power)
        \/ CastRecords(q) \/ CastSaves(q)
        \/ ExecuteLoads(q) \/ ExecuteSaves(q) \/ RecordsAction(q) \/ GovDies(q)

GovSpec == GovInit /\ [][GovNext]_govVars

-----------------------------------------------------------------------------
ProposalRow == [status: {"DRAFT", "ACTIVE", "PASSED", "EXECUTED"}, for: Nat, against: Nat]
VoteRow == [for: BOOLEAN, power: Power]

\* The rows have the fields of the models.
GovTypeOK ==
    /\ proposal \in ProposalRow
    /\ vote \in [User -> {NoVote} \cup VoteRow]
    /\ actions \in Nat

RecordedPower(for) ==
    SumFunctionOnSet([u \in User |-> vote[u].power], {u \in User: vote[u] # NoVote /\ vote[u].for = for})

\* The tally may lose votes to a save of an older row, it never shows one that is not
\* recorded; and nothing is passed or executed without the quorum in recorded votes.
TallyIsRecorded ==
    /\ proposal.for <= RecordedPower(TRUE) /\ proposal.against <= RecordedPower(FALSE)
    /\ proposal.status \in {"PASSED", "EXECUTED"} \/ actions > 0 => RecordedPower(TRUE) >= Quorum
=============================================================================
