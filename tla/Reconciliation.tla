---------------------------- MODULE Reconciliation ----------------------------
(* The daily escrow reconciliation (reconcile_escrow.py): the releases of the  *)
(* EscrowVault on one day against the trustee bank's figure, in a log of one   *)
(* row for each day.  A run covers the last days up to its date, on the blocks *)
(* from a window up to the head as it was when the run began; the cron job and *)
(* an operator may run it at the same time, and the table has no unique key.   *)
EXTENDS Integers, FiniteSets, Sequences, FiniteSetsExt

CONSTANTS
    Run,         \* processes running the command
    MaxDay,      \* bound: days
    MaxBlock,    \* bound: blocks; each holds the release of one unit
    MaxLog,      \* bound: rows of the log
    ScanBlocks   \* --scan-blocks

ASSUME ReconciliationConstants ==
    /\ MaxDay \in Nat \ {0} /\ MaxBlock \in Nat /\ MaxLog \in Nat /\ ScanBlocks \in Nat

VARIABLES
    today,   \* the date
    block,   \* the days of the blocks
    log,     \* the EscrowReconciliationLog rows
    run,     \* Run -> what it is doing
    raced    \* history: days one run was about to create while another came to them

reconciliationVars == <<today, block, log, run, raced>>

Day == 1..MaxDay
Entries == 1..MaxLog
NoEntry == [status |-> "none"]
AtRest == [pc |-> "rest"]

ReconciliationTypeOK ==
    /\ today \in Day
    /\ block \in Seq(Day) /\ Len(block) <= MaxBlock
    /\ \A i \in Entries: log[i] = NoEntry \/
          log[i] \in [status: {"OK", "DISCREPANCY", "PARTIAL", "ERROR"}, day: Day,
                      released: 0..MaxBlock, bank: 0..MaxBlock + 1]
    /\ \A r \in Run: run[r] = AtRest \/
          run[r] \in [pc: {"day", "create"}, at: Day, target: Day, head: 0..MaxBlock, credits: 0..MaxBlock + 1]
    /\ raced \subseteq Day

ReconciliationInit ==
    /\ today = 1 /\ block = <<>>
    /\ log = [i \in Entries |-> NoEntry]
    /\ run = [r \in Run |-> AtRest]
    /\ raced = {}

NextDay == today < MaxDay /\ today' = today + 1 /\ UNCHANGED <<block, log, run, raced>>

\* EscrowReleasedToMinter, in a block of today.
Release == Len(block) < MaxBlock /\ block' = Append(block, today) /\ UNCHANGED <<today, log, run, raced>>

\* The command for the days up to target; no statement of the bank is 0.
RunBegins(r, target, days, credits) ==
    /\ run[r] = AtRest /\ target <= today /\ days <= target
    /\ run' = [run EXCEPT ![r] = [pc |-> "day", at |-> target - days + 1, target |-> target,
                                  head |-> Len(block), credits |-> credits]]
    /\ UNCHANGED <<today, block, log, raced>>

RowsOf(d) == {i \in Entries: log[i] # NoEntry /\ log[i].day = d}
RoomInLog == \E i \in Entries: log[i] = NoEntry
NextEntry == Min({i \in Entries: log[i] = NoEntry})

\* The releases of the day between the window's first block and the head.
ReleasedOn(d, head) == Cardinality({b \in 1..head: b >= head - ScanBlocks /\ block[b] = d})

\* The bank's figure is for the last day only; the others get none.
CreditsFor(r) == IF run[r].at = run[r].target THEN run[r].credits ELSE 0
Verdict(r) ==
    LET released == ReleasedOn(run[r].at, run[r].head)
        bank == CreditsFor(r)
    IN  [status |-> IF bank = 0 THEN "PARTIAL" ELSE IF bank = released THEN "OK" ELSE "DISCREPANCY",
         day |-> run[r].at, released |-> released, bank |-> bank]

\* The loop goes on to the next day or the command is done.
NextDate(r) == IF run[r].at = run[r].target THEN AtRest ELSE [run[r] EXCEPT !.pc = "day", !.at = @ + 1]
GoesOn(r) == run' = [run EXCEPT ![r] = NextDate(r)]

\* Another run has seen that the day has no row and has not created it yet.
Meets(r) == \E s \in Run: run[s].pc = "create" /\ run[s].at = run[r].at
Races(r) == raced' = IF Meets(r) THEN raced \cup {run[r].at} ELSE raced

\* The logs cannot be read: a row of its own says so.
RpcFails(r) ==
    /\ run[r].pc = "day" /\ RoomInLog
    /\ log' = [log EXCEPT ![NextEntry] = [status |-> "ERROR", day |-> run[r].at, released |-> 0, bank |-> 0]]
    /\ GoesOn(r) /\ Races(r)
    /\ UNCHANGED <<today, block>>

\* update_or_create: the one row of the day is written over.
Updates(r) ==
    /\ run[r].pc = "day"
    /\ \E i \in RowsOf(run[r].at):
         /\ RowsOf(run[r].at) = {i}
         /\ log' = [log EXCEPT ![i] = Verdict(r)]
    /\ GoesOn(r)
    /\ UNCHANGED <<today, block, raced>>

\* (mutant of FindsNoRow: the row of the day is not looked for)
FindsNoVerdict(r) ==
    /\ run[r].pc = "day"
    /\ run' = [run EXCEPT ![r].pc = "create"]
    /\ UNCHANGED <<today, block, log, raced>>

\* It has no row yet: one will be created.
FindsNoRow(r) ==
    /\ run[r].pc = "day" /\ RowsOf(run[r].at) = {}
    /\ run' = [run EXCEPT ![r].pc = "create"]
    /\ Races(r)
    /\ UNCHANGED <<today, block, log>>

Creates(r) ==
    /\ run[r].pc = "create" /\ RoomInLog
    /\ log' = [log EXCEPT ![NextEntry] = Verdict(r)]
    /\ GoesOn(r)
    /\ UNCHANGED <<today, block, raced>>

\* MultipleObjectsReturned for a day with two rows; or the process dies.
RunDies(r) ==
    /\ run[r] # AtRest
    /\ run' = [run EXCEPT ![r] = AtRest]
    /\ UNCHANGED <<today, block, log, raced>>

ReconciliationNext ==
    \/ NextDay \/ Release
    \/ \E r \in Run: \/ \E target, days \in Day, credits \in 0..MaxBlock + 1: RunBegins(r, target, days, credits)
                     \/ RpcFails(r) \/ Updates(r) \/ FindsNoRow(r) \/ Creates(r) \/ RunDies(r)

\* A day has one verdict at most (rows of failed runs aside), however often it
\* is reconciled and whatever failed before, unless one run came to it while
\* another had looked for its row in vain and not inserted it yet.
OneVerdictPerDay ==
    \A d \in Day \ raced: Cardinality({i \in RowsOf(d): log[i].status # "ERROR"}) <= 1
=============================================================================
