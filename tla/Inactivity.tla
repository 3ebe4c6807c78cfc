------------------------------ MODULE Inactivity ------------------------------
(* The inactivity watchdog (wallet_access/services.py, middleware.py): every   *)
(* request of an owner touches the wallet, at most once in a while for each    *)
(* server process; a daily sweep prompts the owner of a silent wallet, reminds *)
(* him, and then alerts his nominees.  The sweep works on the rows it loaded   *)
(* when it began and saves only the column it sets, so an owner may come back  *)
(* between the load and the save.  The handlers that activate or unlock a      *)
(* wallet, or mark it recovered, save the whole row as they loaded it, the     *)
(* columns of the watchdog too.                                                *)
EXTENDS Naturals, FiniteSets

CONSTANTS
    Wallet,         \* wallets
    PromptAfter,    \* INACTIVITY_PROMPT_AFTER
    ReminderAfter,  \* INACTIVITY_REMINDER_AFTER_PROMPT
    NomineesAfter,  \* INACTIVITY_NOMINEES_AFTER_REMINDER
    TouchInterval,  \* _TOUCH_INTERVAL_SECONDS, in the same unit of time
    MaxTime         \* bound: the clock

ASSUME InactivityConstants ==
    /\ PromptAfter \in Nat \ {0} /\ ReminderAfter \in Nat \ {0} /\ NomineesAfter \in Nat \ {0}
    /\ TouchInterval \in Nat /\ MaxTime \in Nat

VARIABLES
    now,        \* the clock
    row,        \* Wallet -> the columns of WalletActivation the watchdog uses
    lastTouch,  \* Wallet -> when this process last touched it (_last_touch), or Never
    sweep,      \* the sweep: when it began, the rows it loaded and has still to do
    heldRow,    \* Wallet -> the row a handler has loaded and will save whole, or NotHeld
    seen,       \* history: Wallet -> when its owner was last seen
    outdated    \* history: wallets whose owner was last seen while a sweep or a handler
                \* held their row, or activated them with a stage in place

inactivityVars == <<now, row, lastTouch, sweep, heldRow, seen, outdated>>

\* A column that is NULL, an entry the cache does not have.
Never == MaxTime + 1
Time == 0..MaxTime + 1
Rows == [activated: BOOLEAN, last: 0..MaxTime, prompt: Time, reminder: Time, alerted: Time]
NotHeld == [none |-> TRUE]
Idle == [began |-> Never, todo |-> {}, rows |-> <<>>]

InactivityTypeOK ==
    /\ now \in 0..MaxTime
    /\ row \in [Wallet -> Rows]
    /\ lastTouch \in [Wallet -> Time]
    /\ sweep.began \in Time /\ sweep.todo \subseteq Wallet
    /\ sweep = Idle \/ sweep.rows \in [Wallet -> Rows]
    /\ heldRow \in [Wallet -> Rows \cup {NotHeld}]
    /\ seen \in [Wallet -> 0..MaxTime]
    /\ outdated \subseteq Wallet

\* Activated wallets; last_activity_at falls back to activated_at.
InactivityInit ==
    /\ now = 0
    /\ row = [w \in Wallet |-> [activated |-> TRUE, last |-> 0,
                                prompt |-> Never, reminder |-> Never, alerted |-> Never]]
    /\ lastTouch = [w \in Wallet |-> Never]
    /\ sweep = Idle /\ heldRow = [w \in Wallet |-> NotHeld]
    /\ seen = [w \in Wallet |-> 0] /\ outdated = {}

Tick == now < MaxTime /\ now' = now + 1 /\ UNCHANGED <<row, lastTouch, sweep, heldRow, seen, outdated>>

\* The state alone is saved: a lock, a suspension, a recovery or a transfer and their ends.
ChangesState(w) ==
    /\ row' = [row EXCEPT ![w].activated = ~@]
    /\ UNCHANGED <<now, lastTouch, sweep, heldRow, seen, outdated>>

\* A handler loads the row that it will save whole.
LoadsRow(w) ==
    /\ heldRow[w] = NotHeld
    /\ heldRow' = [heldRow EXCEPT ![w] = row[w]]
    /\ UNCHANGED <<now, row, lastTouch, sweep, seen, outdated>>

HasStage(r) == r.prompt # Never \/ r.reminder # Never \/ r.alerted # Never

\* The owner is seen: what a sweep or a handler holds, or a stage left in place, is older.
Sees(w, older) ==
    /\ seen' = [seen EXCEPT ![w] = now]
    /\ outdated' = IF older \/ w \in sweep.todo THEN outdated \cup {w} ELSE outdated \ {w}

\* The activation, possible again for a wallet that is locked or paused: it sets
\* last_activity_at and leaves the stages as they were loaded.
Activates(w) ==
    /\ heldRow[w] # NotHeld /\ ~heldRow[w].activated
    /\ row' = [row EXCEPT ![w] = [heldRow[w] EXCEPT !.activated = TRUE, !.last = now]]
    /\ heldRow' = [heldRow EXCEPT ![w] = NotHeld]
    /\ Sees(w, HasStage(heldRow[w]))
    /\ UNCHANGED <<now, lastTouch, sweep>>

\* The unlocking by a password after the lock or by the admin, and the admin's
\* execution of a recovery, which takes the wallet out of ACTIVATED.
SavesRow(w) ==
    /\ heldRow[w] # NotHeld
    /\ \E activated \in BOOLEAN: row' = [row EXCEPT ![w] = [heldRow[w] EXCEPT !.activated = activated]]
    /\ heldRow' = [heldRow EXCEPT ![w] = NotHeld]
    /\ UNCHANGED <<now, lastTouch, sweep, seen, outdated>>

\* The handler raises or dies.
DropsRow(w) ==
    /\ heldRow[w] # NotHeld
    /\ heldRow' = [heldRow EXCEPT ![w] = NotHeld]
    /\ UNCHANGED <<now, row, lastTouch, sweep, seen, outdated>>

\* (mutant of Touched: the reminder of an earlier silence is left in place)
TouchedKeepingReminder(r) == [r EXCEPT !.last = now, !.prompt = Never, !.alerted = Never]

Touched(r) == [r EXCEPT !.last = now, !.prompt = Never, !.reminder = Never, !.alerted = Never]

Touch(w) ==
    /\ row' = [row EXCEPT ![w] = Touched(@)]
    /\ Sees(w, heldRow[w] # NotHeld)

\* _should_touch: the cache is written before the wallet is.
ShouldTouch(w) == lastTouch[w] = Never \/ now - lastTouch[w] >= TouchInterval

\* A request of the owner; a touch that raises is swallowed, and the cache
\* keeps the next one away for a while.
OwnerActive(w) ==
    /\ ShouldTouch(w)
    /\ lastTouch' = [lastTouch EXCEPT ![w] = now]
    /\ Touch(w) \/ UNCHANGED <<row, seen, outdated>>
    /\ UNCHANGED <<now, sweep, heldRow>>

\* "I am still here", whatever the cache holds.
ConfirmLiveness(w) == Touch(w) /\ UNCHANGED <<now, lastTouch, sweep, heldRow>>

\* The cache lives in the process.
ServerRestarts ==
    /\ lastTouch' = [w \in Wallet |-> Never]
    /\ UNCHANGED <<now, row, sweep, heldRow, seen, outdated>>

SweepBegins ==
    /\ sweep = Idle /\ \E w \in Wallet: row[w].activated
    /\ sweep' = [began |-> now, todo |-> {w \in Wallet: row[w].activated}, rows |-> row]
    /\ UNCHANGED <<now, row, lastTouch, heldRow, seen, outdated>>

\* The stages, on the row as it was loaded; the first that is due is taken.
NomineesDue(r) == r.reminder # Never /\ r.alerted = Never /\ sweep.began >= r.reminder + NomineesAfter
ReminderDue(r) == ~NomineesDue(r) /\ r.prompt # Never /\ r.reminder = Never /\ sweep.began >= r.prompt + ReminderAfter
PromptDue(r) == ~NomineesDue(r) /\ ~ReminderDue(r) /\ sweep.began >= r.last + PromptAfter /\ r.prompt = Never

\* The wallet is done; the sweep ends with the last one.
GoesOnFrom(w) == sweep' = IF sweep.todo = {w} THEN Idle ELSE [sweep EXCEPT !.todo = @ \ {w}]

\* _alert_nominees_on_inactivity comes before the save of its stage.
SweepsWallet(w) ==
    /\ w \in sweep.todo
    /\ LET r == sweep.rows[w]
       IN  row' = [row EXCEPT ![w].alerted = IF NomineesDue(r) THEN sweep.began ELSE @,
                              ![w].reminder = IF ReminderDue(r) THEN sweep.began ELSE @,
                              ![w].prompt = IF PromptDue(r) THEN sweep.began ELSE @]
    /\ GoesOnFrom(w)
    /\ UNCHANGED <<now, lastTouch, heldRow, seen, outdated>>

\* The process dies, perhaps between an alert and the save of its stage.
SweepDies ==
    /\ sweep # Idle
    /\ sweep' = Idle
    /\ UNCHANGED <<now, row, lastTouch, heldRow, seen, outdated>>

InactivityNext ==
    \/ Tick \/ ServerRestarts \/ SweepBegins \/ SweepDies
    \/ \E w \in Wallet: \/ ChangesState(w) \/ LoadsRow(w) \/ Activates(w) \/ SavesRow(w) \/ DropsRow(w)
                       \/ OwnerActive(w) \/ ConfirmLiveness(w) \/ SweepsWallet(w)

\* Nominees are alerted only of an owner who was not seen for PromptAfter at least,
\* unless he was last seen while a sweep or a handler held the row of his wallet, whose
\* stages then survive or come back, or activated a wallet that had a stage in place.
\* The next touch that nobody overtakes ends the excuse.
AlertsOnlyTheSilent ==
    \A w \in sweep.todo \ outdated: NomineesDue(sweep.rows[w]) => now >= seen[w] + PromptAfter
=============================================================================
