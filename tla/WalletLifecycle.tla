--------------------------- MODULE WalletLifecycle ---------------------------
(* One wallet of the wallet_access application: the WalletActivation row, its  *)
(* nominees, its devices, the recovery cases and ownership transfers filed     *)
(* against it, and every handler that writes any of them (the service layer,   *)
(* the admin actions and the RecoveryExecuted watcher).  Wallets share no row, *)
(* so one wallet is the whole state space.  A handler that runs in a           *)
(* transaction or saves once is one action; one that saves several rows        *)
(* without a transaction is a request that takes a step for each save, with    *)
(* others in between, and may die on the way.                                  *)
EXTENDS Naturals, FiniteSets

CONSTANTS
    Device,             \* device rows that may be bound over the wallet's life
    Case,               \* recovery-case rows that may be filed
    Transfer,           \* ownership-transfer rows that may be filed
    Admin,              \* operators of the Django admin; {} leaves them out
    Request,            \* handlers that may be between two saves at the same time
    NomineeLists,       \* sizes of the nominee lists users submit
    MaxFailedAttempts,  \* MAX_FAILED_PASSWORD_ATTEMPTS
    AttemptBound,       \* bound: no wrong password is tried beyond this counter
    NomineeBound        \* bound: active nominee rows never exceed this number

ASSUME WalletConstants ==
    /\ MaxFailedAttempts \in Nat \ {0}
    /\ AttemptBound \in Nat
    /\ NomineeBound \in Nat
    /\ NomineeLists \subseteq Nat
    /\ IsFiniteSet(Device) /\ IsFiniteSet(Case)

VARIABLES
    wallet,      \* the WalletActivation row
    nominees,    \* active nominee rows: their number and the sum of their shares
    devices,     \* Device -> WalletDevice row
    cases,       \* Case -> RecoveryCase row
    transfers,   \* Transfer -> status of the OwnershipTransferCase row
    confirmed,   \* cases whose RecoveryExecuted event is on the chain
    work         \* Request -> what it has still to save

vars == <<wallet, nominees, devices, cases, transfers, confirmed, work>>

-----------------------------------------------------------------------------
(* Rows.  A deadline some handler reads (locked_until, cooling_off_until,      *)
(* cooling_off_ends_at) is a timer: never set, still running, or elapsed.      *)

Timer == {"none", "running", "elapsed"}

WalletState == {"CREATED", "ACTIVATED", "LOCKED", "RECOVERING",
                "OWNERSHIP_TRANSFER", "SUSPENDED", "RECOVERED"}
Wallet == [state: WalletState, holder: {"INDIVIDUAL", "LEGAL_PERSON"},
           password: BOOLEAN, attempts: Nat, lock: Timer]

DeviceRow == [state: {"ABSENT", "ACTIVE", "RETIRED", "REVOKED"}, cooling: Timer]
Absent == [state |-> "ABSENT", cooling |-> "none"]

CaseStatus == {"NONE", "NOTIFIED", "AWAITING_OMBUDSMAN", "APPROVED", "EXECUTED",
               "REJECTED", "CANCELLED"}
CaseRow == [path: {"NONE", "SELF", "SOCIAL", "TRUSTEE"}, status: CaseStatus,
            cooling: Timer, execTx: BOOLEAN]
Unfiled == [path |-> "NONE", status |-> "NONE", cooling |-> "none", execTx |-> FALSE]

TransferStatus == {"NONE", "AWAITING_OMBUDSMAN", "APPROVED", "REJECTED", "CANCELLED"}

Closed == {"EXECUTED", "CANCELLED", "REJECTED"}
Disposition == {"APPROVE", "APPROVE_MODIFIED", "REJECT", "REMAND", "ESCALATE_COURT"}

(* What is left of a request: the state it will save in the wallet, or the     *)
(* step of a self-recovery or an execution it has come to, and for which case. *)
Free == [pc |-> "free"]
ToSave(state) == [pc |-> "wallet", to |-> state]
Stage == {"filed", "retired", "bound", "approved", "submitted", "recovered"}
Working(stage, c) == [pc |-> stage, case |-> c]
Rejected == [pc |-> "rejected"]

Work == {Free, Rejected} \cup [pc: {"wallet"}, to: WalletState] \cup [pc: Stage, case: Case]

Init ==
    /\ wallet = [state |-> "CREATED", holder |-> "INDIVIDUAL",
                 password |-> FALSE, attempts |-> 0, lock |-> "none"]
    /\ nominees = [count |-> 0, shares |-> 0]
    /\ devices = [d \in Device |-> Absent]
    /\ cases = [c \in Case |-> Unfiled]
    /\ transfers = [t \in Transfer |-> "NONE"]
    /\ confirmed = {}
    /\ work = [r \in Request |-> Free]

-----------------------------------------------------------------------------
(* What the handlers compute *)

\* (mutant of Restored: the name of a device state is written to the wallet)
RestoredWrongName(w) == IF w.password THEN "ACTIVE" ELSE "CREATED"

\* Where a wallet goes when whatever paused it is over.
Restored(w) == IF w.password THEN "ACTIVATED" ELSE "CREATED"

\* The active rows, each with the share it gives its nominee.
NomineeRows == [count: Nat, shares: Nat]

\* The list replaces or joins nominee rows; every accepted list totals 100%.
ShareOf(n) == IF n = 0 THEN 0 ELSE 100

\* (mutant of RetireActive: the earlier devices stay as they are)
RetireActiveForgotten(ds) == ds

RetireActive(ds) ==
    [d \in Device |-> IF ds[d].state = "ACTIVE"
                      THEN [ds[d] EXCEPT !.state = "RETIRED"] ELSE ds[d]]

BoundDevice(timer) == [state |-> "ACTIVE", cooling |-> timer]

Filed(path, status, timer) ==
    [path |-> path, status |-> status, cooling |-> timer, execTx |-> FALSE]

\* (mutant of Executed: the execution transaction is not stored)
ExecutedUnrecorded(row) == [row EXCEPT !.status = "EXECUTED"]

Executed(row) == [row EXCEPT !.status = "EXECUTED", !.execTx = TRUE]

LockedOut(w) == w.state = "LOCKED" /\ w.lock = "running"

Unlocked(w) ==
    IF w.state = "LOCKED"
    THEN [w EXCEPT !.state = Restored(w), !.lock = "none", !.attempts = 0]
    ELSE w

FailedAttempt(w) ==
    IF w.attempts + 1 >= MaxFailedAttempts
    THEN [w EXCEPT !.attempts = @ + 1, !.state = "LOCKED", !.lock = "running"]
    ELSE [w EXCEPT !.attempts = @ + 1]

\* The row verify_wallet_password leaves behind when it does not refuse: the
\* unlock is saved before the password is looked at, and a wallet without a
\* password goes no further than that.
Verified(w, correct) ==
    LET u == Unlocked(w) IN
    IF ~u.password THEN u
    ELSE IF correct THEN [u EXCEPT !.attempts = 0] ELSE FailedAttempt(u)

Transactable == wallet.state = "ACTIVATED" /\ wallet.lock # "running"

ReadyDevice(d) == devices[d].state = "ACTIVE" /\ devices[d].cooling # "running"

\* wallet_check: what a transaction endpoint lets through.
WalletCheck(requireNominees) ==
    /\ Transactable
    /\ requireNominees => nominees.count >= 2 /\ nominees.shares = 100
    /\ \E d \in Device: ReadyDevice(d)

-----------------------------------------------------------------------------
(* Owner: activation, passwords, nominees, devices, freeze *)

ActivateWallet(d, holder, n) ==
    /\ wallet.state \notin {"ACTIVATED", "SUSPENDED", "RECOVERED"}
    /\ holder = "INDIVIDUAL" => n >= 2
    /\ nominees.count + n <= NomineeBound
    /\ devices[d] = Absent
    /\ devices' = [devices EXCEPT ![d] = BoundDevice("none")]
    /\ nominees' = [count |-> nominees.count + n, shares |-> nominees.shares + ShareOf(n)]
    /\ wallet' = [state |-> "ACTIVATED", holder |-> holder, password |-> TRUE,
                  attempts |-> 0, lock |-> "none"]
    /\ UNCHANGED <<cases, transfers, confirmed, work>>

\* A wrong old password raises inside the transaction: nothing is saved.
ChangeWalletPassword ==
    /\ wallet.state = "ACTIVATED"
    /\ wallet.password
    /\ wallet' = [wallet EXCEPT !.attempts = 0, !.lock = "none"]
    /\ UNCHANGED <<nominees, devices, cases, transfers, confirmed, work>>

VerifyWalletPassword(correct) ==
    /\ ~LockedOut(wallet)
    /\ correct \/ Unlocked(wallet).attempts < AttemptBound
    /\ wallet' = Verified(wallet, correct)
    /\ UNCHANGED <<nominees, devices, cases, transfers, confirmed, work>>

\* A failed verification raises inside the transaction: nothing is saved.
UpdateNominees(n) ==
    /\ n >= 1 /\ n <= NomineeBound
    /\ \/ wallet.state = "CREATED" /\ UNCHANGED wallet
       \/ /\ wallet.state = "ACTIVATED" /\ wallet.password
          /\ wallet' = Verified(wallet, TRUE)
    /\ nominees' = [count |-> n, shares |-> ShareOf(n)]
    /\ UNCHANGED <<devices, cases, transfers, confirmed, work>>

\* (mutant of BindNewDevice: a wallet without a password hash is not refused)
BindNewDeviceAnyone(d) ==
    /\ wallet.state \in {"ACTIVATED", "CREATED"}
    /\ devices[d] = Absent
    /\ wallet' = Verified(wallet, TRUE)
    /\ devices' = [RetireActive(devices) EXCEPT ![d] = BoundDevice("running")]
    /\ UNCHANGED <<nominees, cases, transfers, confirmed, work>>

BindNewDevice(d) ==
    /\ wallet.state \in {"ACTIVATED", "CREATED"} /\ wallet.password
    /\ devices[d] = Absent
    /\ wallet' = Verified(wallet, TRUE)
    /\ devices' = [RetireActive(devices) EXCEPT ![d] = BoundDevice("running")]
    /\ UNCHANGED <<nominees, cases, transfers, confirmed, work>>

\* Not a transaction: a wrong password or an unknown device leaves behind what
\* VerifyWalletPassword does.
RevokeDevice(d) ==
    /\ ~LockedOut(wallet) /\ wallet.password
    /\ devices[d] # Absent
    /\ wallet' = Verified(wallet, TRUE)
    /\ devices' = [devices EXCEPT ![d].state = "REVOKED"]
    /\ UNCHANGED <<nominees, cases, transfers, confirmed, work>>

EmergencyFreeze ==
    /\ wallet.state \notin {"SUSPENDED", "RECOVERED"}
    /\ wallet' = [wallet EXCEPT !.state = "SUSPENDED"]
    /\ UNCHANGED <<nominees, devices, cases, transfers, confirmed, work>>

-----------------------------------------------------------------------------
(* Recovery: each save is a step; related rows are loaded where they are first *)
(* used.                                                                       *)

IsFree(r) == work[r] = Free
At(r, pc) == work[r].pc = pc
Goes(r, next) == work' = [work EXCEPT ![r] = next]

\* The seed hash is stored with the password hash, so a seed can match only
\* once the wallet has been activated.
SelfRecovery(r, c) ==
    /\ IsFree(r)
    /\ wallet.state \notin {"SUSPENDED", "RECOVERED"} /\ wallet.password
    /\ cases[c] = Unfiled
    /\ cases' = [cases EXCEPT ![c] = Filed("SELF", "APPROVED", "none")]
    /\ Goes(r, Working("filed", c))
    /\ UNCHANGED <<wallet, nominees, devices, transfers, confirmed>>

\* (mutant of RetiresDevices: the case is closed before the device is bound)
RetiresDevicesOnly(r) ==
    /\ At(r, "filed")
    /\ devices' = RetireActive(devices)
    /\ Goes(r, Working("bound", work[r].case))
    /\ UNCHANGED <<wallet, nominees, cases, transfers, confirmed>>

RetiresDevices(r) ==
    /\ At(r, "filed")
    /\ devices' = RetireActive(devices)
    /\ Goes(r, Working("retired", work[r].case))
    /\ UNCHANGED <<wallet, nominees, cases, transfers, confirmed>>

BindsDevice(r, d) ==
    /\ At(r, "retired")
    /\ devices[d] = Absent
    /\ devices' = [devices EXCEPT ![d] = BoundDevice("running")]
    /\ Goes(r, Working("bound", work[r].case))
    /\ UNCHANGED <<wallet, nominees, cases, transfers, confirmed>>

ClosesSelfRecovery(r) ==
    /\ At(r, "bound")
    /\ cases' = [cases EXCEPT ![work[r].case].status = "EXECUTED"]
    /\ Goes(r, Free)
    /\ UNCHANGED <<wallet, nominees, devices, transfers, confirmed>>

SocialRecovery(r, c) ==
    /\ IsFree(r)
    /\ wallet.state \notin {"RECOVERED", "SUSPENDED"}
    /\ nominees.count > 0
    /\ cases[c] = Unfiled
    /\ cases' = [cases EXCEPT ![c] = Filed("SOCIAL", "NOTIFIED", "running")]
    /\ Goes(r, ToSave("RECOVERING"))
    /\ UNCHANGED <<wallet, nominees, devices, transfers, confirmed>>

TrusteeRecovery(r, c) ==
    /\ IsFree(r)
    /\ wallet.state # "RECOVERED"
    /\ cases[c] = Unfiled
    /\ cases' = [cases EXCEPT ![c] = Filed("TRUSTEE", "AWAITING_OMBUDSMAN", "none")]
    /\ Goes(r, ToSave("RECOVERING"))
    /\ UNCHANGED <<wallet, nominees, devices, transfers, confirmed>>

\* (mutant of CancelRecovery: a decided case is not refused)
CancelRecoveryLate(r, c) ==
    /\ IsFree(r)
    /\ cases[c].status \notin {"NONE", "CANCELLED"}
    /\ ~(cases[c].path = "SOCIAL" /\ cases[c].cooling = "elapsed")
    /\ cases' = [cases EXCEPT ![c].status = "CANCELLED"]
    /\ Goes(r, ToSave(Restored(wallet)))
    /\ UNCHANGED <<wallet, nominees, devices, transfers, confirmed>>

\* The wallet was read before the case.
CancelRecovery(r, c) ==
    /\ IsFree(r)
    /\ cases[c].status \notin Closed \cup {"NONE"}
    /\ ~(cases[c].path = "SOCIAL" /\ cases[c].cooling = "elapsed")
    /\ cases' = [cases EXCEPT ![c].status = "CANCELLED"]
    /\ Goes(r, ToSave(Restored(wallet)))
    /\ UNCHANGED <<wallet, nominees, devices, transfers, confirmed>>

\* An order names a case by its number: of any path and any status.
ExecuteOmbudsmanOrder(r, c, disposition) ==
    /\ IsFree(r)
    /\ cases[c] # Unfiled
    /\ \/ /\ disposition = "REJECT"
          /\ cases' = [cases EXCEPT ![c].status = "REJECTED"]
          /\ Goes(r, Rejected)
       \/ /\ disposition \in {"APPROVE", "APPROVE_MODIFIED"}
          /\ cases' = [cases EXCEPT ![c].status = "APPROVED"]
          /\ Goes(r, Working("approved", c))
       \/ /\ disposition \in {"REMAND", "ESCALATE_COURT"}
          /\ UNCHANGED <<cases, work>>
    /\ UNCHANGED <<wallet, nominees, devices, transfers, confirmed>>

\* The order's execution is saved before its wallet, the admin's after it.
RecordsExecution(r) ==
    /\ At(r, "approved") \/ At(r, "recovered")
    /\ cases' = [cases EXCEPT ![work[r].case] = Executed(@)]
    /\ Goes(r, IF At(r, "approved") THEN ToSave("RECOVERED") ELSE Free)
    /\ UNCHANGED <<wallet, nominees, devices, transfers, confirmed>>

\* watch_chain_events delivers a RecoveryExecuted event, perhaps late or again.
HandleRecoveryExecuted(r, c) ==
    /\ IsFree(r)
    /\ c \in confirmed
    /\ cases' = IF cases[c].execTx THEN cases
                ELSE [cases EXCEPT ![c] = Executed(@)]
    /\ Goes(r, ToSave("RECOVERED"))
    /\ UNCHANGED <<wallet, nominees, devices, transfers, confirmed>>

SavesWallet(r) ==
    /\ At(r, "wallet")
    /\ wallet' = [wallet EXCEPT !.state = work[r].to]
    /\ Goes(r, Free)
    /\ UNCHANGED <<nominees, devices, cases, transfers, confirmed>>

RestoresWallet(r) ==
    /\ At(r, "rejected")
    /\ wallet' = [wallet EXCEPT !.state = Restored(wallet)]
    /\ Goes(r, Free)
    /\ UNCHANGED <<nominees, devices, cases, transfers, confirmed>>

\* The process dies, or a save raises.
Dies(r) ==
    /\ ~IsFree(r)
    /\ Goes(r, Free)
    /\ UNCHANGED <<wallet, nominees, devices, cases, transfers, confirmed>>

-----------------------------------------------------------------------------
(* Ownership transfer *)

\* (mutant of InitiateOwnershipTransfer: a RECOVERED wallet is not refused)
InitiateOwnershipTransferAlways(t) ==
    /\ wallet.holder = "LEGAL_PERSON"
    /\ wallet.state \notin {"RECOVERING", "OWNERSHIP_TRANSFER", "SUSPENDED"}
    /\ transfers[t] = "NONE"
    /\ transfers' = [transfers EXCEPT ![t] = "AWAITING_OMBUDSMAN"]
    /\ wallet' = [wallet EXCEPT !.state = "OWNERSHIP_TRANSFER"]
    /\ UNCHANGED <<nominees, devices, cases, confirmed, work>>

InitiateOwnershipTransfer(t) ==
    /\ wallet.holder = "LEGAL_PERSON"
    /\ wallet.state \notin {"RECOVERING", "OWNERSHIP_TRANSFER", "RECOVERED", "SUSPENDED"}
    /\ transfers[t] = "NONE"
    /\ transfers' = [transfers EXCEPT ![t] = "AWAITING_OMBUDSMAN"]
    /\ wallet' = [wallet EXCEPT !.state = "OWNERSHIP_TRANSFER"]
    /\ UNCHANGED <<nominees, devices, cases, confirmed, work>>

CancelOwnershipTransfer(r, t) ==
    /\ IsFree(r)
    /\ transfers[t] \notin Closed \cup {"NONE"}
    /\ transfers' = [transfers EXCEPT ![t] = "CANCELLED"]
    /\ Goes(r, ToSave(Restored(wallet)))
    /\ UNCHANGED <<wallet, nominees, devices, cases, confirmed>>

-----------------------------------------------------------------------------
(* Admin actions, each applied to one selected row *)

SuspendWallet ==
    /\ wallet.state # "SUSPENDED"
    /\ wallet' = [wallet EXCEPT !.state = "SUSPENDED"]
    /\ UNCHANGED <<nominees, devices, cases, transfers, confirmed, work>>

UnsuspendWallet ==
    /\ wallet.state = "SUSPENDED"
    /\ wallet' = [wallet EXCEPT !.state = "ACTIVATED"]
    /\ UNCHANGED <<nominees, devices, cases, transfers, confirmed, work>>

\* (mutant of UnlockWallet: the used-up attempts are kept)
UnlockWalletKeepsAttempts ==
    /\ wallet.state = "LOCKED"
    /\ wallet' = [wallet EXCEPT !.state = "ACTIVATED", !.lock = "none"]
    /\ UNCHANGED <<nominees, devices, cases, transfers, confirmed, work>>

UnlockWallet ==
    /\ wallet.state = "LOCKED"
    /\ wallet' = [wallet EXCEPT !.state = "ACTIVATED", !.attempts = 0, !.lock = "none"]
    /\ UNCHANGED <<nominees, devices, cases, transfers, confirmed, work>>

ApproveRecovery(c) ==
    /\ cases[c].status \in {"NOTIFIED", "AWAITING_OMBUDSMAN"}
    /\ cases' = [cases EXCEPT ![c].status = "APPROVED"]
    /\ UNCHANGED <<wallet, nominees, devices, transfers, confirmed, work>>

RejectRecovery(c) ==
    /\ cases[c].status \notin {"NONE", "EXECUTED", "REJECTED"}
    /\ cases' = [cases EXCEPT ![c].status = "REJECTED"]
    /\ UNCHANGED <<wallet, nominees, devices, transfers, confirmed, work>>

\* The event is submitted first; then the wallet is saved, and then the case.
ExecuteRecovery(r, c) ==
    /\ IsFree(r)
    /\ cases[c].status = "APPROVED"
    /\ confirmed' = confirmed \cup {c}
    /\ Goes(r, Working("submitted", c))
    /\ UNCHANGED <<wallet, nominees, devices, cases, transfers>>

MarksRecovered(r) ==
    /\ At(r, "submitted")
    /\ wallet' = [wallet EXCEPT !.state = "RECOVERED"]
    /\ Goes(r, Working("recovered", work[r].case))
    /\ UNCHANGED <<nominees, devices, cases, transfers, confirmed>>

ApproveTransfer(t) ==
    /\ transfers[t] = "AWAITING_OMBUDSMAN"
    /\ transfers' = [transfers EXCEPT ![t] = "APPROVED"]
    /\ UNCHANGED <<wallet, nominees, devices, cases, confirmed, work>>

RejectTransfer(t) ==
    /\ transfers[t] \notin {"NONE", "REJECTED"}
    /\ transfers' = [transfers EXCEPT ![t] = "REJECTED"]
    /\ UNCHANGED <<wallet, nominees, devices, cases, confirmed, work>>

AdminAction ==
    \/ SuspendWallet \/ UnsuspendWallet \/ UnlockWallet
    \/ \E c \in Case: ApproveRecovery(c) \/ RejectRecovery(c)
    \/ \E r \in Request, c \in Case: ExecuteRecovery(r, c)
    \/ \E t \in Transfer: ApproveTransfer(t) \/ RejectTransfer(t)

-----------------------------------------------------------------------------
(* Deadlines pass, each on its own; one that nothing reads any more is left as *)
(* it stands (a device that is not ACTIVE, a case that is closed).             *)

LockElapses ==
    /\ wallet.lock = "running"
    /\ wallet' = [wallet EXCEPT !.lock = "elapsed"]
    /\ UNCHANGED <<nominees, devices, cases, transfers, confirmed, work>>

DeviceCoolingElapses(d) ==
    /\ devices[d].state = "ACTIVE" /\ devices[d].cooling = "running"
    /\ devices' = [devices EXCEPT ![d].cooling = "elapsed"]
    /\ UNCHANGED <<wallet, nominees, cases, transfers, confirmed, work>>

CaseCoolingElapses(c) ==
    /\ cases[c].cooling = "running" /\ cases[c].status \notin Closed
    /\ cases' = [cases EXCEPT ![c].cooling = "elapsed"]
    /\ UNCHANGED <<wallet, nominees, devices, transfers, confirmed, work>>

-----------------------------------------------------------------------------
OwnerAction ==
    \/ \E d \in Device, h \in {"INDIVIDUAL", "LEGAL_PERSON"}, n \in NomineeLists:
          ActivateWallet(d, h, n)
    \/ ChangeWalletPassword
    \/ \E correct \in BOOLEAN: VerifyWalletPassword(correct)
    \/ \E n \in NomineeLists: UpdateNominees(n)
    \/ \E d \in Device: BindNewDevice(d) \/ RevokeDevice(d)
    \/ EmergencyFreeze

RecoveryAction ==
    \/ \E r \in Request, c \in Case:
          \/ SelfRecovery(r, c) \/ SocialRecovery(r, c) \/ TrusteeRecovery(r, c)
          \/ CancelRecovery(r, c) \/ HandleRecoveryExecuted(r, c)
          \/ \E disposition \in Disposition: ExecuteOmbudsmanOrder(r, c, disposition)
    \/ \E t \in Transfer: \/ InitiateOwnershipTransfer(t)
                          \/ \E r \in Request: CancelOwnershipTransfer(r, t)

GoesOn(r) ==
    \/ RetiresDevices(r) \/ (\E d \in Device: BindsDevice(r, d)) \/ ClosesSelfRecovery(r)
    \/ RecordsExecution(r) \/ MarksRecovered(r) \/ SavesWallet(r) \/ RestoresWallet(r)

TimePasses ==
    \/ LockElapses
    \/ \E d \in Device: DeviceCoolingElapses(d)
    \/ \E c \in Case: CaseCoolingElapses(c)

Next ==
    \/ OwnerAction
    \/ RecoveryAction
    \/ \E r \in Request: GoesOn(r) \/ Dies(r)
    \/ TimePasses
    \/ \E a \in Admin: AdminAction

Spec == Init /\ [][Next]_vars

-----------------------------------------------------------------------------
(* What holds *)

\* Every row has the shape its Django model declares.
TypeOK ==
    /\ wallet \in Wallet
    /\ nominees \in NomineeRows
    /\ devices \in [Device -> DeviceRow]
    /\ cases \in [Case -> CaseRow]
    /\ transfers \in [Transfer -> TransferStatus]
    /\ confirmed \subseteq Case
    /\ work \in [Request -> Work]

\* A transaction is never let through for a wallet without a password hash,
\* although an admin can mark such a wallet ACTIVATED: the devices are what
\* stops it, and no handler binds a device before the password is stored.
SigningNeedsPassword == WalletCheck(FALSE) => wallet.password

\* The counter and the lock agree on every path through the two: a LOCKED row
\* has used up its attempts, and used-up attempts are never left without a
\* lock window, whatever recovery, freeze or admin step came between.
LockAccounting ==
    /\ wallet.state = "LOCKED" => wallet.attempts >= MaxFailedAttempts
    /\ wallet.attempts >= MaxFailedAttempts => wallet.lock # "none"

\* A wallet is marked RECOVERED only if an execution is on record for one of its
\* claims, in the database or, where the admin's request died between its two
\* saves, on the chain; and no social or trustee case is EXECUTED without it.
ExecutionRecorded ==
    /\ wallet.state = "RECOVERED" => \E c \in Case: cases[c].execTx \/ c \in confirmed
    /\ \A c \in Case: cases[c].status = "EXECUTED" /\ cases[c].path # "SELF"
          => cases[c].execTx

\* A self-recovery that reports itself EXECUTED has bound its device, wherever
\* others went before they died: there are as many devices that had to cool off.
SelfRecoveryBinds ==
    Cardinality({c \in Case: /\ cases[c].path = "SELF" /\ cases[c].status = "EXECUTED"
                             /\ ~cases[c].execTx})
       <= Cardinality({d \in Device: devices[d].cooling # "none"})

\* While a wallet is RECOVERED nothing new is attached to it: no recovery case
\* of any path, no ownership transfer, and no device but that of a
\* self-recovery which was under way when the wallet became RECOVERED.
RecoveredTakesNothingNew ==
    [][wallet.state = "RECOVERED" =>
          /\ \A c \in Case: cases[c] = Unfiled => cases'[c] = Unfiled
          /\ \A t \in Transfer: transfers[t] = "NONE" => transfers'[t] = "NONE"
          /\ \A d \in Device: devices[d] = Absent /\ devices'[d] # Absent =>
                \E r \in Request: At(r, "retired")]_vars

\* A decided case is never open again, nor cancelled: whatever a late request, an
\* order repeated or an old event saves in it, and however torn the saves are.  A
\* recorded execution stays on record, and a case keeps its path.
DecidedStaysDecided ==
    [][\A c \in Case:
          /\ cases[c].status \in {"EXECUTED", "REJECTED"} =>
                cases'[c].status \in {"EXECUTED", "REJECTED", "APPROVED"}
          /\ cases[c].execTx => cases'[c].execTx
          /\ cases[c] # Unfiled => cases'[c].path = cases[c].path]_vars

\* A device that can sign at once comes only with an activation; any other new
\* device cools off and takes the place of the ACTIVE ones, unless a wallet was
\* activated while a self-recovery stood between the two.  A device that was
\* retired or revoked never signs again.  (An activation retires nothing: what
\* that leads to is the matter of OneActiveDevice.)
RebindCoolsOff ==
    [][\A d \in Device:
          /\ devices[d] = Absent /\ devices'[d] # Absent =>
                \/ /\ devices'[d].cooling = "running"
                   /\ \A e \in Device \ {d}:
                         devices'[e].state = "ACTIVE" => \E r \in Request: At(r, "retired")
                \/ wallet.state # "ACTIVATED" /\ wallet'.state = "ACTIVATED" /\ wallet'.password
          /\ devices[d].state \in {"RETIRED", "REVOKED"} => devices'[d].state # "ACTIVE"]_vars

-----------------------------------------------------------------------------
(* What the repository says and the code does not do *)

\* docs/OMBUDSMAN_INTEGRATION.md:77-80: a cancellation after an order "is ignored
\* (an issued order is final unless reversed within the 90-day reversibility
\* window)".  While an executed claim stands on record, no handler gives the wallet
\* back unless a claim was rejected: cancelling another claim must not.  (Said of
\* wallets with the claims of others only, which orders are about.)
OrderIsFinal ==
    [][/\ wallet.state = "RECOVERED" /\ wallet'.state \in {"ACTIVATED", "CREATED"}
       /\ \E c \in Case: cases[c].status = "EXECUTED" /\ cases[c].execTx
       /\ \A c \in Case: cases[c].path # "SELF"
       => \E c \in Case: cases[c].status = "REJECTED"]_vars

\* wallet_access/models.py:235-236: "Only one device may be ACTIVE at a time".  An
\* activation binds its device beside those the wallet has, and a wallet that is
\* LOCKED, RECOVERING or in a transfer may be activated again.
OneActiveDevice ==
    \A d, e \in Device: devices[d].state = "ACTIVE" /\ devices[e].state = "ACTIVE" => d = e
=============================================================================
