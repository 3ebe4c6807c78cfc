----------------------------- MODULE OrderWatcher -----------------------------
(* How an Ombudsman order on the chain becomes rows in the database: the       *)
(* watch_ombudsman_orders process with its stored cursor, and                  *)
(* execute_ombudsman_order taken apart into its saves, none of which runs in a *)
(* transaction.  Processes crash between any two saves, the last blocks of the *)
(* chain may be reorganised, and the owner's cancel_recovery runs alongside.   *)
(* Everything is about one wallet with a password and trustee claims pending.  *)
EXTENDS Naturals, Sequences, FiniteSetsExt

CONSTANTS
    Case,           \* the trustee cases pending against the wallet
    Cancellable,    \* bound: the cases whose owner may ask to cancel them
    Disposition,    \* the dispositions the Ombudsman issues
    Confirmations,  \* --confirmations of the watcher
    FirstCursor,    \* ChainWatcherCursor.last_block at the start, 0: no row
    MaxBlock,       \* bound: length of the chain
    MaxReorg,       \* bound: reorganisations
    MaxCrash,       \* bound: processes that die
    MaxFailure      \* bound: errors of each of the two kinds below

ASSUME WatcherConstants ==
    /\ Cancellable \subseteq Case
    /\ Disposition \subseteq {"APPROVE", "APPROVE_MODIFIED", "REJECT", "REMAND", "ESCALATE_COURT"}
    /\ Confirmations \in Nat /\ FirstCursor \in {0, 1}
    /\ MaxBlock \in Nat \ {0}
    /\ {MaxReorg, MaxCrash, MaxFailure} \subseteq Nat

VARIABLES
    chain,     \* the blocks, each empty or with one OmbudsmanOrderIssued event
    final,     \* blocks 1..final will never be reorganised
    cursor,    \* the stored ChainWatcherCursor row
    watcher,   \* the watcher process: where it is and its local variables
    cases,     \* Case -> status of the RecoveryCase row
    wallet,    \* state of the WalletActivation row
    cancel,    \* Case -> where the owner's cancel_recovery request is
    reached,   \* history: the highest block whose order was started
    budget     \* how many reorganisations, crashes and errors are left

vars == <<chain, final, cursor, watcher, cases, wallet, cancel, reached, budget>>

Empty == [disposition |-> "NONE"]
Order == [case: Case, disposition: Disposition]

Closed == {"EXECUTED", "CANCELLED", "REJECTED"}

Init ==
    /\ chain = <<Empty>> /\ final = 1
    /\ cursor = FirstCursor
    /\ watcher = [pc |-> "poll", last |-> 1, to |-> 1, next |-> 1]
    /\ cases = [c \in Case |-> "AWAITING_OMBUDSMAN"]
    /\ wallet = "RECOVERING"
    /\ cancel = [c \in Case |-> "none"]
    /\ reached = 1
    /\ budget = [reorg |-> MaxReorg, crash |-> MaxCrash, save |-> MaxFailure, store |-> MaxFailure]

-----------------------------------------------------------------------------
(* The chain *)

Mine(block) ==
    /\ Len(chain) < MaxBlock
    /\ chain' = Append(chain, block)
    /\ final' = Max({final, Len(chain) + 1 - Confirmations})
    /\ UNCHANGED <<cursor, watcher, cases, wallet, cancel, reached, budget>>

ChainGrows == \E block \in Order \cup {Empty}: Mine(block)

\* The blocks that are not final yet give way to another history.
Reorganise ==
    /\ budget.reorg > 0 /\ final < Len(chain)
    /\ chain' = SubSeq(chain, 1, final)
    /\ budget' = [budget EXCEPT !.reorg = @ - 1]
    /\ UNCHANGED <<final, cursor, watcher, cases, wallet, cancel, reached>>

-----------------------------------------------------------------------------
(* The watcher *)

\* resume_from: without a stored row the watcher starts at the head.
Start ==
    /\ watcher.pc = "down"
    /\ watcher' = [watcher EXCEPT !.pc = "poll",
                                  !.last = IF cursor > 0 THEN cursor ELSE Len(chain)]
    /\ UNCHANGED <<chain, final, cursor, cases, wallet, cancel, reached, budget>>

\* (mutant of Poll: the head is read without waiting for confirmations)
PollUnconfirmed ==
    /\ watcher.pc = "poll" /\ Len(chain) > watcher.last
    /\ watcher' = [watcher EXCEPT !.pc = "batch", !.to = Len(chain), !.next = watcher.last + 1]
    /\ UNCHANGED <<chain, final, cursor, cases, wallet, cancel, reached, budget>>

\* (mutant of Poll: the cursor is stored before the batch is processed)
PollAdvancing ==
    /\ watcher.pc = "poll" /\ Len(chain) > watcher.last + Confirmations
    /\ watcher' = [watcher EXCEPT !.pc = "batch", !.to = Len(chain) - Confirmations,
                                  !.next = watcher.last + 1]
    /\ cursor' = Len(chain) - Confirmations
    /\ UNCHANGED <<chain, final, cases, wallet, cancel, reached, budget>>

Poll ==
    /\ watcher.pc = "poll" /\ Len(chain) > watcher.last + Confirmations
    /\ watcher' = [watcher EXCEPT !.pc = "batch", !.to = Len(chain) - Confirmations,
                                  !.next = watcher.last + 1]
    /\ UNCHANGED <<chain, final, cursor, cases, wallet, cancel, reached, budget>>

\* Nothing confirmed to read: sleep and look again.
Sleep ==
    /\ watcher.pc = "poll" /\ Len(chain) <= watcher.last + Confirmations
    /\ UNCHANGED vars

InBatch == watcher.pc = "batch" /\ watcher.next <= watcher.to
OrderAt(n) == chain[n]
Approves(order) == order.disposition \in {"APPROVE", "APPROVE_MODIFIED"}

\* The first save of execute_ombudsman_order.  The handler loads the case and
\* looks at nothing in it, so loading is not a step of its own.
SaveDecision ==
    /\ InBatch
    /\ reached' = Max({reached, watcher.next})
    /\ LET order == OrderAt(watcher.next) IN
       \/ /\ order.disposition \in {"NONE", "REMAND", "ESCALATE_COURT"}
          /\ watcher' = [watcher EXCEPT !.next = @ + 1]
          /\ UNCHANGED cases
       \/ /\ order.disposition = "REJECT"
          /\ cases' = [cases EXCEPT ![order.case] = "REJECTED"]
          /\ watcher' = [watcher EXCEPT !.pc = "save_wallet"]
       \/ /\ Approves(order)
          /\ cases' = [cases EXCEPT ![order.case] = "APPROVED"]
          /\ watcher' = [watcher EXCEPT !.pc = "save_executed"]
    /\ UNCHANGED <<chain, final, cursor, wallet, cancel, budget>>

SaveExecuted ==
    /\ watcher.pc = "save_executed"
    /\ cases' = [cases EXCEPT ![OrderAt(watcher.next).case] = "EXECUTED"]
    /\ watcher' = [watcher EXCEPT !.pc = "save_wallet"]
    /\ UNCHANGED <<chain, final, cursor, wallet, cancel, reached, budget>>

SaveWallet ==
    /\ watcher.pc = "save_wallet"
    /\ wallet' = IF Approves(OrderAt(watcher.next)) THEN "RECOVERED" ELSE "ACTIVATED"
    /\ watcher' = [watcher EXCEPT !.pc = "batch", !.next = @ + 1]
    /\ UNCHANGED <<chain, final, cursor, cases, cancel, reached, budget>>

Advance ==
    /\ watcher.pc = "batch" /\ watcher.next > watcher.to
    /\ watcher' = [watcher EXCEPT !.pc = "poll", !.last = watcher.to]
    /\ cursor' = watcher.to
    /\ UNCHANGED <<chain, final, cases, wallet, cancel, reached, budget>>

WatcherStep == Start \/ Poll \/ SaveDecision \/ SaveExecuted \/ SaveWallet \/ Advance

-----------------------------------------------------------------------------
(* What goes wrong *)

Crash ==
    /\ watcher.pc # "down" /\ budget.crash > 0
    /\ watcher' = [watcher EXCEPT !.pc = "down"]
    /\ budget' = [budget EXCEPT !.crash = @ - 1]
    /\ UNCHANGED <<chain, final, cursor, cases, wallet, cancel, reached>>

\* _process logs whatever a save raises, and the loop goes on to the next log.
SaveRaises ==
    /\ budget.save > 0
    /\ InBatch \/ watcher.pc \in {"save_executed", "save_wallet"}
    /\ watcher' = [watcher EXCEPT !.pc = "batch", !.next = @ + 1]
    /\ budget' = [budget EXCEPT !.save = @ - 1]
    /\ UNCHANGED <<chain, final, cursor, cases, wallet, cancel, reached>>

\* Storing the cursor raises after last_block was assigned.
AdvanceRaises ==
    /\ budget.store > 0
    /\ watcher.pc = "batch" /\ watcher.next > watcher.to
    /\ watcher' = [watcher EXCEPT !.pc = "poll", !.last = watcher.to]
    /\ budget' = [budget EXCEPT !.store = @ - 1]
    /\ UNCHANGED <<chain, final, cursor, cases, wallet, cancel, reached>>

-----------------------------------------------------------------------------
(* The owner's cancel_recovery, in another process *)

CancelLoads(c) ==
    /\ cancel[c] = "none" /\ cases[c] \notin Closed
    /\ cancel' = [cancel EXCEPT ![c] = "loaded"]
    /\ UNCHANGED <<chain, final, cursor, watcher, cases, wallet, reached, budget>>

CancelSavesCase(c) ==
    /\ cancel[c] = "loaded"
    /\ cancel' = [cancel EXCEPT ![c] = "saved"]
    /\ cases' = [cases EXCEPT ![c] = "CANCELLED"]
    /\ UNCHANGED <<chain, final, cursor, watcher, wallet, reached, budget>>

CancelSavesWallet(c) ==
    /\ cancel[c] = "saved"
    /\ cancel' = [cancel EXCEPT ![c] = "done"]
    /\ wallet' = "ACTIVATED"
    /\ UNCHANGED <<chain, final, cursor, watcher, cases, reached, budget>>

CancelDies(c) ==
    /\ cancel[c] \in {"loaded", "saved"} /\ budget.crash > 0
    /\ cancel' = [cancel EXCEPT ![c] = "done"]
    /\ budget' = [budget EXCEPT !.crash = @ - 1]
    /\ UNCHANGED <<chain, final, cursor, watcher, cases, wallet, reached>>

Next ==
    \/ ChainGrows \/ Reorganise
    \/ WatcherStep \/ Sleep
    \/ Crash \/ SaveRaises \/ AdvanceRaises
    \/ \E c \in Cancellable: \/ CancelLoads(c) \/ CancelSavesCase(c)
                             \/ CancelSavesWallet(c) \/ CancelDies(c)

Spec == Init /\ [][Next]_vars

\* The watcher is a supervised sidecar: it is restarted and its loop keeps going;
\* and blocks keep coming, or the last ones would never have confirmations.
FairSpec == Spec /\ WF_vars(WatcherStep) /\ WF_vars(ChainGrows)

-----------------------------------------------------------------------------
(* What an order log means *)

DecisiveFor(group, n) ==
    {i \in 1..n: /\ Approves(chain[i]) \/ chain[i].disposition = "REJECT"
                 /\ chain[i].case \in group}

\* What the last decisive order of a group of cases leaves behind.
Outcome(group, n, none, approved, rejected) ==
    IF DecisiveFor(group, n) = {} THEN none
    ELSE IF Approves(chain[Max(DecisiveFor(group, n))]) THEN approved ELSE rejected

CaseOutcome(c, n) == Outcome({c}, n, "AWAITING_OMBUDSMAN", "EXECUTED", "REJECTED")
WalletOutcome(n) == Outcome(Case, n, "RECOVERING", "RECOVERED", "ACTIVATED")

NoCancel == \A c \in Case: cancel[c] = "none"
NoSaveRaised == budget.save = MaxFailure

-----------------------------------------------------------------------------
TypeOK ==
    /\ chain \in Seq(Order \cup {Empty})
    /\ final \in 1..Len(chain)
    /\ cursor \in 0..MaxBlock
    /\ watcher \in [pc: {"down", "poll", "batch", "save_executed", "save_wallet"},
                    last: 1..MaxBlock, to: 1..MaxBlock, next: 1..MaxBlock + 1]
    /\ cases \in [Case -> Closed \cup {"AWAITING_OMBUDSMAN", "APPROVED"}]
    /\ wallet \in {"RECOVERING", "ACTIVATED", "RECOVERED"}
    /\ cancel \in [Case -> {"none", "loaded", "saved", "done"}]
    /\ reached \in 1..MaxBlock
    /\ budget \in [reorg: Nat, crash: Nat, save: Nat, store: Nat]

\* No reorganisation ever takes away the order behind a decision: a case that
\* the watcher has decided has an order for it among the final blocks.
DecisionsAreFinal ==
    \A c \in Case: cases[c] \in {"APPROVED", "EXECUTED", "REJECTED"} =>
        DecisiveFor({c}, final) # {}

\* When the watcher is idle and no replay is pending, a case carries the outcome
\* of the last order in block order, however often it crashed or failed to store
\* its cursor; a cancellation that overlapped the order is the only other thing
\* that can be found.  A save that raises loses its order and is excluded.
LastOrderWins ==
    watcher.pc = "poll" /\ reached <= watcher.last /\ NoSaveRaised =>
        /\ \A c \in Case:
              \/ cases[c] = CaseOutcome(c, watcher.last)
              \/ cancel[c] # "none" /\ cases[c] = "CANCELLED"
        /\ NoCancel => wallet = WalletOutcome(watcher.last)

\* A crash between the saves of an order does not last: in the end every case
\* and, if nobody cancelled, the wallet show the last of the final orders.
Converges ==
    <>[](NoSaveRaised =>
            /\ \A c \in Case: cancel[c] = "none" => cases[c] = CaseOutcome(c, final)
            /\ NoCancel => wallet = WalletOutcome(final))
=============================================================================
