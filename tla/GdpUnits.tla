------------------------------- MODULE GdpUnits -------------------------------
(* GDP units once GdpMinting has created them: transfers, earmarks and their   *)
(* releases, swaps (irg_gdp) and the burning of units by recall.  No handler   *)
(* locks the rows it read: it loads a row, waits for its chain transaction     *)
(* (whose answer it does not look at) and saves the whole row it loaded.       *)
(* Requests overlap and die.  A unit is named by the order of its creation.    *)
EXTENDS Handlers

CONSTANTS
    Mint,        \* mints, each of one unit
    TotalUnits,  \* Mint -> units the unit of this mint counts for
    MaxUnit,     \* bound: units ever created
    MaxEarmark,  \* bound: earmarking records
    MaxSwap      \* bound: swap records

ASSUME UnitConstants ==
    /\ TotalUnits \in [Mint -> Nat]
    /\ {MaxUnit, MaxEarmark, MaxSwap} \subseteq Nat

VARIABLES
    unit,       \* the GDPUnit rows that exist: status, owner, mint
    earmark,    \* the EarmarkingRecord rows: status, unit
    swap,       \* the SwapRecord rows: status, user, gdp_units_swapped
    moving,     \* Request -> what it is doing and the rows it has loaded
    made,       \* history: mints that have happened
    stale       \* history: Mint -> saves that brought a unit of it back from an old read

rows == <<unit, earmark, swap>>
unitVars == <<unit, earmark, swap, moving, made, stale>>

Units == 1..MaxUnit
Live == {"ACTIVE", "EARMARKED"}

UnitInit ==
    /\ unit = [u \in Units |-> Absent]
    /\ earmark = [e \in 1..MaxEarmark |-> Absent]
    /\ swap = [s \in 1..MaxSwap |-> Absent]
    /\ moving = [q \in Request |-> Free]
    /\ made = {}
    /\ stale = [m \in Mint |-> 0]

At(q, pc) == moving[q].pc = pc
Serve(q, step) == moving' = [moving EXCEPT ![q] = step]
Done(q) == Serve(q, Free)

Owned(user) == {u \in Units: unit[u] # Absent /\ unit[u].status = "ACTIVE" /\ unit[u].owner = user}

NewUnit(m, user) == [status |-> "ACTIVE", owner |-> user, mint |-> m]

\* What GdpMinting does for the movements.
Minted(m, user) ==
    /\ HasRoom(unit) /\ m \notin made
    /\ unit' = [unit EXCEPT ![NextRow(unit)] = NewUnit(m, user)]
    /\ made' = made \cup {m}
    /\ UNCHANGED <<earmark, swap, moving, stale>>

-----------------------------------------------------------------------------
\* The request holds the row as it was.
LoadsUnit(q, pc, u, user) ==
    /\ At(q, "free") /\ u \in Owned(user)
    /\ Serve(q, [pc |-> pc, unit |-> u, row |-> unit[u]])
    /\ UNCHANGED <<rows, made, stale>>

\* Saving the row of a unit from what was read earlier.
Outdated(q) == unit[moving[q].unit] # moving[q].row
CountStale(r, isStale) == stale' = IF isStale THEN [stale EXCEPT ![r] = @ + 1] ELSE stale

TransferLoads(q, u, user) == LoadsUnit(q, "transfer", u, user)

\* (mutant of TransferSaves: the original keeps its status)
TransferSavesKeepingIt(q, to) ==
    /\ At(q, "transfer") /\ HasRoom(unit)
    /\ LET row == moving[q].row IN
       /\ unit' = [unit EXCEPT ![moving[q].unit] = [row EXCEPT !.owner = to],
                               ![NextRow(unit)] = NewUnit(row.mint, to)]
       /\ CountStale(row.mint, Outdated(q))
    /\ Done(q)
    /\ UNCHANGED <<earmark, swap, made>>

TransferSaves(q, to) ==
    /\ At(q, "transfer") /\ HasRoom(unit)
    /\ LET row == moving[q].row IN
       /\ unit' = [unit EXCEPT ![moving[q].unit] = [row EXCEPT !.owner = to, !.status = "TRANSFERRED"],
                               ![NextRow(unit)] = NewUnit(row.mint, to)]
       /\ CountStale(row.mint, Outdated(q))
    /\ Done(q)
    /\ UNCHANGED <<earmark, swap, made>>

EarmarkLoads(q, u, user) == LoadsUnit(q, "earmark", u, user)

EarmarkSaves(q) ==
    /\ At(q, "earmark") /\ HasRoom(earmark)
    /\ earmark' = [earmark EXCEPT ![NextRow(earmark)] = [status |-> "ACTIVE", unit |-> moving[q].unit]]
    /\ unit' = [unit EXCEPT ![moving[q].unit] = [moving[q].row EXCEPT !.status = "EARMARKED"]]
    /\ CountStale(moving[q].row.mint, Outdated(q))
    /\ Done(q)
    /\ UNCHANGED <<swap, made>>

\* Any day may be past the release date.
ReleaseLoads(q, e) ==
    /\ At(q, "free") /\ earmark[e] # Absent /\ earmark[e].status = "ACTIVE"
    /\ Serve(q, [pc |-> "release", earmark |-> e])
    /\ UNCHANGED <<rows, made, stale>>

\* The unit is read after the chain's answer, and made ACTIVE whatever it is now:
\* a burned one too.
ReleaseSaves(q) ==
    /\ At(q, "release")
    /\ LET e == moving[q].earmark
           u == earmark[e].unit IN
       /\ earmark' = [earmark EXCEPT ![e].status = "RELEASED"]
       /\ unit' = [unit EXCEPT ![u].status = "ACTIVE"]
       /\ CountStale(unit[u].mint, earmark[e].status = "RELEASED")
    /\ Done(q)
    /\ UNCHANGED <<swap, made>>

\* The admin action saves the earmark and the unit one after the other.
AdminReleaseDies(q) ==
    /\ At(q, "release")
    /\ earmark' = [earmark EXCEPT ![moving[q].earmark].status = "RELEASED"]
    /\ Done(q)
    /\ UNCHANGED <<unit, swap, made, stale>>

InitiateSwap(user, chosen) ==
    /\ HasRoom(swap) /\ chosen # {} /\ chosen \subseteq Owned(user)
    /\ swap' = [swap EXCEPT ![NextRow(swap)] =
                  [status |-> "INITIATED", user |-> user,
                   count |-> SumFunctionOnSet([u \in chosen |-> TotalUnits[unit[u].mint]], chosen)]]
    /\ UNCHANGED <<unit, earmark, moving, made, stale>>

ConfirmLoads(q, s) ==
    /\ At(q, "free") /\ swap[s] # Absent /\ swap[s].status = "INITIATED"
    /\ Serve(q, [pc |-> "swap", swap |-> s])
    /\ UNCHANGED <<rows, made, stale>>

\* The oldest n of these rows.
FirstOf(n, rowsOf) == {u \in rowsOf: Cardinality({v \in rowsOf: v < u}) < n}

\* The swap's units are not recorded: the user's oldest rows are taken, as many rows
\* as the swap has units.
ConfirmMarks(q, status) ==
    /\ At(q, "swap")
    /\ LET s == moving[q].swap
           marked == FirstOf(swap[s].count, Owned(swap[s].user)) IN
       /\ swap' = [swap EXCEPT ![s].status = "COMPLETED"]
       /\ unit' = [u \in Units |-> IF u \in marked THEN [unit[u] EXCEPT !.status = status] ELSE unit[u]]
    /\ Done(q)
    /\ UNCHANGED <<earmark, made, stale>>

ConfirmSaves(q) == ConfirmMarks(q, "SWAPPED")

ConfirmRaises(q) ==
    /\ At(q, "swap")
    /\ swap' = [swap EXCEPT ![moving[q].swap].status = "CANCELLED"]
    /\ Done(q)
    /\ UNCHANGED <<unit, earmark, made, stale>>

\* recall burns a unit whatever its status.
RecallBurns(u) ==
    /\ unit[u] # Absent
    /\ unit' = [unit EXCEPT ![u].status = "BURNED"]
    /\ UNCHANGED <<earmark, swap, moving, made, stale>>

MoveDies(q) ==
    /\ ~At(q, "free")
    /\ Done(q)
    /\ UNCHANGED <<rows, made, stale>>

-----------------------------------------------------------------------------
MoveStep(q) ==
    \/ \E u \in Units, user \in User: TransferLoads(q, u, user) \/ EarmarkLoads(q, u, user)
    \/ \E to \in User: TransferSaves(q, to)
    \/ \E e \in 1..MaxEarmark: ReleaseLoads(q, e)
    \/ \E s \in 1..MaxSwap: ConfirmLoads(q, s)
    \/ EarmarkSaves(q) \/ ReleaseSaves(q) \/ AdminReleaseDies(q)
    \/ ConfirmSaves(q) \/ ConfirmRaises(q) \/ MoveDies(q)

UnitNext ==
    \/ \E q \in Request: MoveStep(q)
    \/ \E m \in Mint, user \in User: Minted(m, user)
    \/ \E user \in User, chosen \in SUBSET Units: InitiateSwap(user, chosen)
    \/ \E u \in Units: RecallBurns(u)

UnitSpec == UnitInit /\ [][UnitNext]_unitVars

-----------------------------------------------------------------------------
UnitRow == [status: Live \cup {"SWAPPED", "TRANSFERRED", "BURNED"}, owner: User, mint: Mint]
EarmarkRow == [status: {"ACTIVE", "RELEASED"}, unit: Units]
SwapRow == [status: {"INITIATED", "COMPLETED", "CANCELLED"}, user: User, count: Nat]

\* Rows have the statuses of the models.
UnitTypeOK ==
    /\ unit \in [Units -> {Absent} \cup UnitRow]
    /\ earmark \in [1..MaxEarmark -> {Absent} \cup EarmarkRow]
    /\ swap \in [1..MaxSwap -> {Absent} \cup SwapRow]
    /\ made \subseteq Mint /\ stale \in [Mint -> Nat]

LiveOf(m) == {u \in Units: unit[u] # Absent /\ unit[u].mint = m /\ unit[u].status \in Live}

\* Gold is not doubled by moving it: a mint has one live unit, through transfers,
\* earmarks, releases (of burned units too), swaps and recalls, but for the saves
\* that were made from a row or an earmark that had changed since it was read.
OneLiveUnitPerMint == \A m \in Mint: Cardinality(LiveOf(m)) <= 1 + stale[m]
=============================================================================
