------------------------------ MODULE RuleChange ------------------------------
(* Revisions of the budget of the payment authority (paa_service): proposal,   *)
(* votes of the advisory board, a court's approval, and the application, which *)
(* switches the active budget.  Nothing is locked; each handler saves the row  *)
(* of the rule change it read.                                                 *)
EXTENDS Handlers

CONSTANTS
    Change,      \* rule changes
    Member,      \* the actors who vote
    RequiredVotes,    \* required_votes
    Budget,      \* budget ids
    NewBudget    \* Change -> the budget it brings, or NoBudget
CONSTANT NoBudget

ASSUME ChangeConstants ==
    /\ RequiredVotes \in Nat \ {0} /\ IsFiniteSet(Member)
    /\ NoBudget \notin Budget /\ NewBudget \in [Change -> Budget \cup {NoBudget}]

VARIABLES
    change,      \* Change -> the PaaRuleChange row: status, votes of the members
    active,      \* the PaaBudget rows with is_active
    revising,    \* Request -> what it is doing and the row it read
    approvals,   \* history: Change -> members who ever voted to approve
    court,       \* history: changes a court approved
    torn         \* history: an application was overtaken or died between its two statements

changeVars == <<change, active, revising, approvals, court, torn>>

Unvoted == [m \in Member |-> "none"]
Approved == {"approved", "court_approved"}

ChangeInit ==
    /\ change = [c \in Change |-> Absent]
    /\ \E b \in Budget: active = {b}
    /\ revising = [q \in Request |-> Free]
    /\ approvals = [c \in Change |-> {}]
    /\ court = {}
    /\ torn = FALSE

RevisesAt(q, pc) == revising[q].pc = pc
Revises(q, step) == revising' = [revising EXCEPT ![q] = step]
Proposed(c) == change[c] # Absent

ProposeBudget(c) ==
    /\ ~Proposed(c)
    /\ change' = [change EXCEPT ![c] = [status |-> "voting", votes |-> Unvoted]]
    /\ UNCHANGED <<active, revising, approvals, court, torn>>

\* Any status may be voted on, an implemented change too.
VoteReads(q, c, m, ballot) ==
    /\ RevisesAt(q, "free") /\ Proposed(c)
    /\ Revises(q, [pc |-> "vote", change |-> c, row |-> change[c], member |-> m, ballot |-> ballot])
    /\ UNCHANGED <<change, active, approvals, court, torn>>

Approvers(row) == {m \in Member: row.votes[m] = "approve"}

\* (mutant of Voted: every vote is counted, the rejections too)
VotedAnyhow(row, m, ballot) ==
    LET voted == [row EXCEPT !.votes[m] = ballot] IN
    IF Cardinality({n \in Member: voted.votes[n] # "none"}) >= RequiredVotes
    THEN [voted EXCEPT !.status = "approved"] ELSE voted

Voted(row, m, ballot) ==
    LET voted == [row EXCEPT !.votes[m] = ballot] IN
    IF Cardinality(Approvers(voted)) >= RequiredVotes THEN [voted EXCEPT !.status = "approved"] ELSE voted

VoteSaves(q) ==
    /\ RevisesAt(q, "vote")
    /\ LET r == revising[q] IN
       /\ change' = [change EXCEPT ![r.change] = Voted(r.row, r.member, r.ballot)]
       /\ approvals' = IF r.ballot = "approve"
                       THEN [approvals EXCEPT ![r.change] = @ \cup {r.member}] ELSE approvals
    /\ Revises(q, Free)
    /\ UNCHANGED <<active, court, torn>>

\* Only the status and the approval are saved.
UploadCourtApproval(c) ==
    /\ Proposed(c)
    /\ change' = [change EXCEPT ![c].status = "court_approved"]
    /\ court' = court \cup {c}
    /\ UNCHANGED <<active, revising, approvals, torn>>

ApplyReads(q, c) ==
    /\ RevisesAt(q, "free") /\ Proposed(c) /\ change[c].status \in Approved
    /\ Revises(q, [pc |-> IF NewBudget[c] = NoBudget THEN "flipped" ELSE "apply",
                   change |-> c, row |-> change[c]])
    /\ UNCHANGED <<change, active, approvals, court, torn>>

Between(q) == RevisesAt(q, "deactivated")

\* (mutant of ApplyDeactivates: the budget that is replaced stays active)
ApplyKeepsOld(q) ==
    /\ RevisesAt(q, "apply")
    /\ torn' = (torn \/ \E p \in Request: Between(p))
    /\ Revises(q, [revising[q] EXCEPT !.pc = "deactivated"])
    /\ UNCHANGED <<change, active, approvals, court>>

ApplyDeactivates(q) ==
    /\ RevisesAt(q, "apply")
    /\ active' = {}
    /\ torn' = (torn \/ \E p \in Request: Between(p))
    /\ Revises(q, [revising[q] EXCEPT !.pc = "deactivated"])
    /\ UNCHANGED <<change, approvals, court>>

ApplyStores(q) ==
    /\ RevisesAt(q, "deactivated")
    /\ active' = active \cup {NewBudget[revising[q].change]}
    /\ Revises(q, [revising[q] EXCEPT !.pc = "flipped"])
    /\ UNCHANGED <<change, approvals, court, torn>>

ApplySaves(q) ==
    /\ RevisesAt(q, "flipped")
    /\ change' = [change EXCEPT ![revising[q].change] = [revising[q].row EXCEPT !.status = "implemented"]]
    /\ Revises(q, Free)
    /\ UNCHANGED <<active, approvals, court, torn>>

RevisionDies(q) ==
    /\ ~RevisesAt(q, "free")
    /\ torn' = (torn \/ Between(q))
    /\ Revises(q, Free)
    /\ UNCHANGED <<change, active, approvals, court>>

ChangeNext ==
    \/ \E c \in Change: ProposeBudget(c) \/ UploadCourtApproval(c)
    \/ \E q \in Request:
          \/ \E c \in Change: ApplyReads(q, c)
          \/ \E c \in Change, m \in Member, ballot \in {"approve", "reject"}: VoteReads(q, c, m, ballot)
          \/ VoteSaves(q) \/ ApplyDeactivates(q) \/ ApplyStores(q) \/ ApplySaves(q) \/ RevisionDies(q)

ChangeSpec == ChangeInit /\ [][ChangeNext]_changeVars

-----------------------------------------------------------------------------
RuleChangeRow == [status: {"voting", "implemented"} \cup Approved, votes: [Member -> {"none", "approve", "reject"}]]

\* Rule changes have the statuses and votes of the model.
ChangeTypeOK ==
    /\ change \in [Change -> {Absent} \cup RuleChangeRow]
    /\ active \subseteq Budget /\ torn \in BOOLEAN
    /\ approvals \in [Change -> SUBSET Member] /\ court \subseteq Change

\* A change is approved or implemented only if a court approved it or the required
\* number of members voted for it, each of them once, however the votes and the
\* application overtake each other and bring back older rows.
ImplementedWasApproved ==
    \A c \in Change: Proposed(c) /\ change[c].status # "voting" =>
        c \in court \/ Cardinality(approvals[c]) >= RequiredVotes

\* There is one active budget, but while one is replaced, and unless a replacement was
\* overtaken by another or died half done.
OneActiveBudget ==
    torn \/ (\E q \in Request: Between(q)) \/ Cardinality(active) = 1
=============================================================================
