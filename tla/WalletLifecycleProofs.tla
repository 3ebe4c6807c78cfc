---------------------- MODULE WalletLifecycleProofs ----------------------
(* The safety of WalletLifecycle for any number of devices, cases, transfers,  *)
(* admins and requests between their saves, and any attempt limit.  The        *)
(* invariants of the module are not inductive alone: what a request still has  *)
(* to save must fit the rows it was read from, whoever saved in between.       *)
EXTENDS WalletLifecycle, FiniteSetTheorems, TLAPS

\* No device row exists before the password hash does.
Provisioned == \A d \in Device: devices[d] # Absent => wallet.password

\* An execution is on record, in the database or on the chain.
Recorded == \E c \in Case: cases[c].execTx \/ c \in confirmed
RecoveredHasRecord == wallet.state = "RECOVERED" => Recorded

\* A row is unfiled or has a path and a status; a social or trustee case is
\* EXECUTED with its transaction; only a filed case is announced as executed.
RowShape(row) ==
    /\ row.path = "NONE" \/ row.status = "NONE" => row = Unfiled
    /\ row.status = "EXECUTED" /\ row.path # "SELF" => row.execTx

CaseShape ==
    /\ \A c \in Case: RowShape(cases[c])
    /\ \A c \in confirmed: cases[c] # Unfiled

\* A request never saves LOCKED, and RECOVERED only with an execution on record;
\* its self-recovery has its case and a password, its execution a filed case, and
\* the admin's has been announced.
WorkFits(w) ==
    /\ w.pc = "wallet" => w.to # "LOCKED" /\ (w.to = "RECOVERED" => Recorded)
    /\ w.pc \in {"filed", "retired", "bound"} =>
          wallet.password /\ cases[w.case].path = "SELF"
    /\ w.pc = "approved" => cases[w.case] # Unfiled
    /\ w.pc \in {"submitted", "recovered"} => w.case \in confirmed

WorkShape == \A r \in Request: WorkFits(work[r])

\* Self-recoveries that have bound their device, whether they say so yet or not,
\* and the devices that had to cool off.
SelfDone(c) == cases[c].path = "SELF" /\ cases[c].status = "EXECUTED" /\ ~cases[c].execTx
IsBound(c) == \E r \in Request: At(r, "bound") /\ work[r].case = c
Binders == {c \in Case: SelfDone(c) \/ IsBound(c)}
Cooled == {d \in Device: devices[d].cooling # "none"}
BindingsCounted == Cardinality(Binders) <= Cardinality(Cooled)

IInv ==
    /\ TypeOK
    /\ Provisioned
    /\ CaseShape
    /\ WorkShape
    /\ LockAccounting
    /\ RecoveredHasRecord
    /\ BindingsCounted

-----------------------------------------------------------------------------
(* What the handlers' helpers return *)

\* Unlocking keeps the row well formed and touches neither the password nor
\* the holder; the wallet moves only out of LOCKED, to where it is restored to.
LEMMA UnlockedRow ==
  ASSUME NEW w \in Wallet
  PROVE  /\ Unlocked(w) \in Wallet
         /\ Unlocked(w).password = w.password
         /\ Unlocked(w).holder = w.holder
         /\ w.state # "LOCKED" => Unlocked(w) = w
         /\ w.state = "LOCKED" => /\ Unlocked(w).state = Restored(w)
                                  /\ Unlocked(w).attempts = 0
  BY DEF Unlocked, Restored, Wallet, WalletState, Timer

\* A failed attempt counts one up and locks at the limit, nothing else.
LEMMA FailedAttemptRow ==
  ASSUME NEW w \in Wallet
  PROVE  /\ FailedAttempt(w) \in Wallet
         /\ FailedAttempt(w).password = w.password
         /\ FailedAttempt(w).holder = w.holder
         /\ FailedAttempt(w).attempts = w.attempts + 1
         /\ w.attempts + 1 >= MaxFailedAttempts =>
               FailedAttempt(w).state = "LOCKED" /\ FailedAttempt(w).lock = "running"
         /\ w.attempts + 1 < MaxFailedAttempts => FailedAttempt(w).state = w.state
  <1>1. w.attempts + 1 \in Nat
    BY DEF Wallet
  <1>2. CASE w.attempts + 1 >= MaxFailedAttempts
    <2>1. FailedAttempt(w) =
            [w EXCEPT !.attempts = w.attempts + 1, !.state = "LOCKED", !.lock = "running"]
      BY <1>2 DEF FailedAttempt
    <2>2. ~(w.attempts + 1 < MaxFailedAttempts)
      BY <1>1, <1>2, WalletConstants
    <2> QED
      BY <1>1, <2>1, <2>2 DEF Wallet, WalletState, Timer
  <1>3. CASE ~(w.attempts + 1 >= MaxFailedAttempts)
    <2>1. FailedAttempt(w) = [w EXCEPT !.attempts = w.attempts + 1]
      BY <1>3 DEF FailedAttempt
    <2> QED
      BY <1>1, <1>3, <2>1 DEF Wallet
  <1> QED
    BY <1>2, <1>3

\* Verifying a password, right or wrong, keeps the row well formed, touches
\* neither the password nor the holder, and moves the wallet only into LOCKED
\* or, out of LOCKED, back to where it is restored to.
LEMMA VerifiedRow ==
  ASSUME NEW w \in Wallet, NEW b \in BOOLEAN
  PROVE  /\ Verified(w, b) \in Wallet
         /\ Verified(w, b).password = w.password
         /\ Verified(w, b).holder = w.holder
         /\ Verified(w, b).state \in {w.state, "LOCKED", "ACTIVATED", "CREATED"}
  <1> DEFINE u == Unlocked(w)
  <1>1. /\ u \in Wallet /\ u.password = w.password /\ u.holder = w.holder
        /\ u.state \in {w.state, "ACTIVATED", "CREATED"}
    BY UnlockedRow DEF Restored
  <1> HIDE DEF u
  <1>2. /\ [u EXCEPT !.attempts = 0] \in Wallet
        /\ [u EXCEPT !.attempts = 0].password = u.password
        /\ [u EXCEPT !.attempts = 0].holder = u.holder
        /\ [u EXCEPT !.attempts = 0].state = u.state
    BY <1>1 DEF Wallet, Wallet, WalletState, DeviceRow, Timer
  <1>3. /\ FailedAttempt(u) \in Wallet
        /\ FailedAttempt(u).password = u.password
        /\ FailedAttempt(u).holder = u.holder
        /\ FailedAttempt(u).state \in {u.state, "LOCKED"}
    <2>1. u.attempts + 1 >= MaxFailedAttempts \/ u.attempts + 1 < MaxFailedAttempts
      BY <1>1, WalletConstants DEF Wallet
    <2> QED
      BY <1>1, <2>1, FailedAttemptRow
  <1>4. Verified(w, b) \in {u, [u EXCEPT !.attempts = 0], FailedAttempt(u)}
    BY DEF Verified, u
  <1> QED
    BY <1>1, <1>2, <1>3, <1>4

\* Executing a case sets its status and its transaction and keeps its path.
LEMMA ExecutedRow ==
  ASSUME NEW row \in CaseRow
  PROVE  /\ Executed(row) \in CaseRow
         /\ Executed(row).path = row.path
         /\ Executed(row).status = "EXECUTED"
         /\ Executed(row).execTx
  BY DEF Executed, CaseRow, CaseStatus

\* Retiring the ACTIVE devices leaves none ACTIVE, binds none, forgets none and
\* leaves their cooling-off as it is.
LEMMA RetireActiveRows ==
  ASSUME NEW ds \in [Device -> DeviceRow]
  PROVE  /\ RetireActive(ds) \in [Device -> DeviceRow]
         /\ \A d \in Device: /\ RetireActive(ds)[d].state # "ACTIVE"
                             /\ RetireActive(ds)[d].cooling = ds[d].cooling
                             /\ RetireActive(ds)[d] = Absent <=> ds[d] = Absent
  BY DEF RetireActive, DeviceRow, Absent, Timer

\* What the rows of work hold.
LEMMA WorkRows ==
  /\ Free \in Work /\ Free.pc = "free"
  /\ Rejected \in Work /\ Rejected.pc = "rejected"
  /\ \A s \in WalletState: ToSave(s) \in Work /\ ToSave(s).pc = "wallet" /\ ToSave(s).to = s
  /\ \A p \in Stage, c \in Case:
        Working(p, c) \in Work /\ Working(p, c).pc = p /\ Working(p, c).case = c
  BY DEF Free, Rejected, ToSave, Working, Work

LEMMA WorkFields ==
  ASSUME NEW w \in Work
  PROVE  /\ w.pc = "wallet" => w.to \in WalletState
         /\ w.pc \in Stage => w.case \in Case
  <1>1. CASE w \in {Free, Rejected}
    BY <1>1 DEF Free, Rejected, Stage
  <1>2. CASE w \in [pc: {"wallet"}, to: WalletState]
    BY <1>2 DEF Stage
  <1>3. CASE w \in [pc: Stage, case: Case]
    BY <1>3 DEF Stage
  <1> QED
    BY <1>1, <1>2, <1>3 DEF Work

-----------------------------------------------------------------------------
(* Type correctness *)

\* The row the signal handler creates is well typed.
LEMMA TypeInit == Init => TypeOK
  BY WorkRows DEF Init, TypeOK, NomineeRows, Wallet, WalletState, DeviceRow, Absent, CaseRow,
         CaseStatus, Unfiled, TransferStatus, Timer

\* Every handler keeps every row well typed.
LEMMA TypeStep == TypeOK /\ [Next]_vars => TypeOK'
  <1> SUFFICES ASSUME TypeOK, [Next]_vars PROVE TypeOK'
    OBVIOUS
  <1> USE WalletConstants DEF TypeOK, NomineeRows
  <1>w. ASSUME NEW r \in Request, NEW next \in Work, Goes(r, next)
        PROVE  work' \in [Request -> Work]
    BY <1>w DEF Goes
  <1>r. Restored(wallet) \in WalletState
    BY DEF Restored, WalletState
  <1>c. ASSUME NEW c \in Case, NEW s \in CaseStatus
        PROVE  [cases EXCEPT ![c].status = s] \in [Case -> CaseRow]
    BY DEF CaseRow
  <1>f. ASSUME NEW c \in Case, NEW p \in {"SELF", "SOCIAL", "TRUSTEE"}, NEW s \in CaseStatus,
               NEW m \in Timer
        PROVE  [cases EXCEPT ![c] = Filed(p, s, m)] \in [Case -> CaseRow]
    BY DEF Filed, CaseRow
  <1>e. ASSUME NEW c \in Case
        PROVE  [cases EXCEPT ![c] = Executed(cases[c])] \in [Case -> CaseRow]
    BY ExecutedRow
  <1>s. ASSUME NEW s \in WalletState PROVE [wallet EXCEPT !.state = s] \in Wallet
    BY DEF Wallet
  <1>b. ASSUME NEW d \in Device, NEW m \in Timer, NEW ds \in [Device -> DeviceRow]
        PROVE  [ds EXCEPT ![d] = BoundDevice(m)] \in [Device -> DeviceRow]
    BY DEF BoundDevice, DeviceRow
  <1>k. ASSUME NEW r \in Request
        PROVE  /\ At(r, "wallet") => work[r].to \in WalletState
               /\ \A p \in Stage: At(r, p) => work[r].case \in Case
    BY WorkFields DEF At
  <1>n. /\ {"CANCELLED", "REJECTED", "APPROVED", "EXECUTED", "NOTIFIED", "AWAITING_OMBUDSMAN"}
              \subseteq CaseStatus
        /\ {"none", "running", "elapsed"} \subseteq Timer
        /\ {"RECOVERING", "RECOVERED", "OWNERSHIP_TRANSFER", "SUSPENDED", "ACTIVATED"}
              \subseteq WalletState
        /\ {"filed", "retired", "bound", "approved", "submitted", "recovered"} \subseteq Stage
    BY DEF CaseStatus, Timer, WalletState, Stage
  <1>1. ASSUME NEW d \in Device, NEW h \in {"INDIVIDUAL", "LEGAL_PERSON"}, NEW n \in NomineeLists, ActivateWallet(d, h, n) PROVE TypeOK'
    BY <1>1, <1>b, <1>n DEF ActivateWallet, ShareOf, Wallet
  <1>2. ASSUME ChangeWalletPassword PROVE TypeOK'
    BY <1>2 DEF ChangeWalletPassword, Wallet, Timer
  <1>3. ASSUME NEW b \in BOOLEAN, VerifyWalletPassword(b) PROVE TypeOK'
    BY <1>3, VerifiedRow DEF VerifyWalletPassword
  <1>4. ASSUME NEW n \in NomineeLists, UpdateNominees(n) PROVE TypeOK'
    BY <1>4, VerifiedRow DEF UpdateNominees, ShareOf
  <1>5. ASSUME NEW d \in Device, BindNewDevice(d) PROVE TypeOK'
    BY <1>5, <1>b, <1>n, VerifiedRow, RetireActiveRows DEF BindNewDevice
  <1>6. ASSUME NEW d \in Device, RevokeDevice(d) PROVE TypeOK'
    BY <1>6, VerifiedRow DEF RevokeDevice, DeviceRow
  <1>7. ASSUME EmergencyFreeze \/ SuspendWallet \/ UnsuspendWallet PROVE TypeOK'
    BY <1>7, <1>s, <1>n DEF EmergencyFreeze, SuspendWallet, UnsuspendWallet
  <1>8. ASSUME NEW r \in Request, NEW c \in Case, SelfRecovery(r, c) PROVE TypeOK'
    BY <1>8, <1>f, <1>w, <1>n, WorkRows DEF SelfRecovery
  <1>9. ASSUME NEW r \in Request, NEW c \in Case, SocialRecovery(r, c) \/ TrusteeRecovery(r, c)
        PROVE  TypeOK'
    BY <1>9, <1>f, <1>w, <1>n, WorkRows DEF SocialRecovery, TrusteeRecovery
  <1>10. ASSUME NEW r \in Request, NEW c \in Case, CancelRecovery(r, c) PROVE TypeOK'
    BY <1>10, <1>c, <1>w, <1>n, <1>r, WorkRows DEF CancelRecovery
  <1>11. ASSUME NEW r \in Request, NEW c \in Case, NEW o \in Disposition,
                ExecuteOmbudsmanOrder(r, c, o)
         PROVE  TypeOK'
    <2>0. /\ Working("approved", c) \in Work /\ Rejected \in Work
          /\ "REJECTED" \in CaseStatus /\ "APPROVED" \in CaseStatus
      BY <1>n, WorkRows
    <2>1. cases' \in [Case -> CaseRow]
      BY <1>11, <1>c, <2>0 DEF ExecuteOmbudsmanOrder
    <2>2. work' \in [Request -> Work]
      BY <1>11, <1>w, <2>0 DEF ExecuteOmbudsmanOrder
    <2> QED
      BY <1>11, <2>1, <2>2 DEF ExecuteOmbudsmanOrder
  <1>12. ASSUME NEW r \in Request, RecordsExecution(r) PROVE TypeOK'
    BY <1>12, <1>e, <1>k, <1>w, <1>n, WorkRows DEF RecordsExecution
  <1>13. ASSUME NEW r \in Request, NEW c \in Case, HandleRecoveryExecuted(r, c) PROVE TypeOK'
    BY <1>13, <1>e, <1>w, <1>n, WorkRows DEF HandleRecoveryExecuted
  <1>14. ASSUME NEW r \in Request, SavesWallet(r) \/ RestoresWallet(r) PROVE TypeOK'
    BY <1>14, <1>k, <1>r, <1>s, <1>w, WorkRows DEF SavesWallet, RestoresWallet
  <1>15. ASSUME NEW r \in Request, RetiresDevices(r) PROVE TypeOK'
    BY <1>15, <1>k, <1>w, <1>n, WorkRows, RetireActiveRows DEF RetiresDevices
  <1>16. ASSUME NEW r \in Request, NEW d \in Device, BindsDevice(r, d) PROVE TypeOK'
    BY <1>16, <1>b, <1>k, <1>w, <1>n, WorkRows DEF BindsDevice
  <1>17. ASSUME NEW r \in Request, ClosesSelfRecovery(r) PROVE TypeOK'
    BY <1>17, <1>c, <1>k, <1>w, <1>n, WorkRows DEF ClosesSelfRecovery
  <1>18. ASSUME NEW r \in Request, Dies(r) PROVE TypeOK'
    BY <1>18, <1>w, WorkRows DEF Dies
  <1>19. ASSUME NEW r \in Request, NEW c \in Case, ExecuteRecovery(r, c) PROVE TypeOK'
    BY <1>19, <1>w, <1>n, WorkRows DEF ExecuteRecovery
  <1>20. ASSUME NEW r \in Request, MarksRecovered(r) PROVE TypeOK'
    BY <1>20, <1>k, <1>s, <1>w, <1>n, WorkRows DEF MarksRecovered
  <1>21. ASSUME NEW t \in Transfer, InitiateOwnershipTransfer(t) PROVE TypeOK'
    BY <1>21, <1>s, <1>n DEF InitiateOwnershipTransfer, TransferStatus
  <1>22. ASSUME NEW r \in Request, NEW t \in Transfer, CancelOwnershipTransfer(r, t) PROVE TypeOK'
    BY <1>22, <1>r, <1>w, WorkRows DEF CancelOwnershipTransfer, TransferStatus
  <1>23. ASSUME UnlockWallet PROVE TypeOK'
    BY <1>23 DEF UnlockWallet, Wallet, WalletState, Timer
  <1>24. ASSUME NEW c \in Case, ApproveRecovery(c) \/ RejectRecovery(c) PROVE TypeOK'
    BY <1>24, <1>c, <1>n DEF ApproveRecovery, RejectRecovery
  <1>25. ASSUME NEW t \in Transfer, ApproveTransfer(t) \/ RejectTransfer(t) PROVE TypeOK'
    BY <1>25 DEF ApproveTransfer, RejectTransfer, TransferStatus
  <1>26. ASSUME LockElapses PROVE TypeOK'
    BY <1>26 DEF LockElapses, Wallet, Timer
  <1>27. ASSUME NEW d \in Device, DeviceCoolingElapses(d) PROVE TypeOK'
    BY <1>27 DEF DeviceCoolingElapses, DeviceRow, Timer
  <1>28. ASSUME NEW c \in Case, CaseCoolingElapses(c) PROVE TypeOK'
    BY <1>28 DEF CaseCoolingElapses, CaseRow, Timer
  <1>29. CASE UNCHANGED vars
    BY <1>29 DEF vars
  <1> QED
    BY <1>1, <1>2, <1>3, <1>4, <1>5, <1>6, <1>7, <1>8, <1>9, <1>10, <1>11, <1>12, <1>13, <1>14, <1>15, <1>16, <1>17, <1>18, <1>19, <1>20, <1>21, <1>22, <1>23, <1>24, <1>25, <1>26, <1>27, <1>28, <1>29
    DEF Next, OwnerAction, RecoveryAction, GoesOn, TimePasses, AdminAction

\* Every row has the shape its Django model declares, in every reachable state.
THEOREM TypeCorrect == Spec => []TypeOK
  <1>1. Init => TypeOK
    BY TypeInit
  <1>2. TypeOK /\ [Next]_vars => TypeOK'
    BY TypeStep
  <1> QED
    BY <1>1, <1>2, PTL DEF Spec

-----------------------------------------------------------------------------
(* What a step does to the cases, to the wallet and to the devices *)

\* What the rewriting of a case row keeps: its shape, its path, its transaction, a
\* decision; who files one, and who closes a self-recovery.
Kept(c, new) ==
    /\ RowShape(new)
    /\ cases[c] # Unfiled => new # Unfiled /\ new.path = cases[c].path
    /\ cases[c] = Unfiled /\ new # Unfiled => wallet.state # "RECOVERED"
    /\ cases[c].execTx => new.execTx
    /\ cases[c].status \in {"EXECUTED", "REJECTED"} =>
          new.status \in {"EXECUTED", "REJECTED", "APPROVED"}
    /\ new.path = "SELF" /\ new.status = "EXECUTED" /\ ~new.execTx => SelfDone(c) \/ IsBound(c)

CasesKept ==
    /\ \A c \in Case: Kept(c, cases'[c])
    /\ confirmed \subseteq confirmed'
    /\ \A c \in confirmed' \ confirmed: cases[c] # Unfiled

\* A row that is left alone is kept.
LEMMA KeptAsIs ==
  ASSUME TypeOK, CaseShape, NEW c \in Case
  PROVE  Kept(c, cases[c])
  BY DEF Kept, CaseShape, SelfDone

\* Rewriting one row, with nothing announced, keeps the cases if it keeps that row.
LEMMA OneRow ==
  ASSUME TypeOK, CaseShape, NEW c \in Case, NEW row,
         cases' = [cases EXCEPT ![c] = row], confirmed' = confirmed, Kept(c, row)
  PROVE  CasesKept
  <1>1. ASSUME NEW x \in Case PROVE Kept(x, cases'[x])
    <2>1. CASE x = c
      BY <2>1 DEF TypeOK
    <2>2. CASE x # c
      BY <2>2, KeptAsIs DEF TypeOK
    <2> QED
      BY <2>1, <2>2
  <1> QED
    BY <1>1 DEF CasesKept

\* Every handler keeps the cases: an order and an event rewrite only a filed one, a
\* cancellation and an admin only an open one, a self-recovery only its own.
LEMMA CasesStep == IInv /\ [Next]_vars => CasesKept
  <1> SUFFICES ASSUME IInv, [Next]_vars PROVE CasesKept
    OBVIOUS
  <1>0. TypeOK /\ CaseShape /\ WorkShape
    BY DEF IInv
  <1>k. ASSUME NEW c \in Case
        PROVE  cases[c] \in CaseRow /\ RowShape(cases[c])
    BY <1>0 DEF TypeOK, CaseShape
  <1>r. ASSUME NEW r \in Request
        PROVE  /\ WorkFits(work[r])
               /\ \A p \in Stage: At(r, p) => work[r].case \in Case
    BY <1>0, WorkFields DEF WorkShape, TypeOK, At
  <1>n. {"filed", "retired", "bound", "approved", "submitted", "recovered"} \subseteq Stage
    BY DEF Stage
  <1>1. ASSUME cases' = cases, confirmed' = confirmed PROVE CasesKept
    BY <1>0, <1>1, KeptAsIs DEF CasesKept
  <1>2. ASSUME NEW c \in Case, NEW p \in {"SELF", "SOCIAL", "TRUSTEE"},
               NEW s \in {"APPROVED", "NOTIFIED", "AWAITING_OMBUDSMAN"}, NEW m,
               cases[c] = Unfiled, wallet.state # "RECOVERED",
               cases' = [cases EXCEPT ![c] = Filed(p, s, m)], confirmed' = confirmed
        PROVE  CasesKept
    <2> DEFINE row == Filed(p, s, m)
    <2>1. row.path = p /\ row.status = s /\ ~row.execTx
      BY DEF Filed
    <2>2. ~cases[c].execTx /\ cases[c].status = "NONE"
      BY <1>2 DEF Unfiled
    <2> HIDE DEF row
    <2>3. Kept(c, row)
      BY <1>2, <2>1, <2>2 DEF Kept, RowShape
    <2> QED
      BY <1>0, <1>2, <2>3, OneRow DEF row
  <1>3. ASSUME NEW c \in Case, NEW s \in {"APPROVED", "REJECTED", "CANCELLED"},
               cases' = [cases EXCEPT ![c].status = s], cases[c] # Unfiled,
               s = "CANCELLED" => cases[c].status \notin {"EXECUTED", "REJECTED"},
               confirmed' = confirmed
        PROVE  CasesKept
    <2> DEFINE row == [cases[c] EXCEPT !.status = s]
    <2>1. cases' = [cases EXCEPT ![c] = row]
      BY <1>3
    <2>2. row.path = cases[c].path /\ row.status = s /\ row.execTx = cases[c].execTx
      BY <1>k DEF CaseRow
    <2>3. row.path # "NONE"
      BY <1>3, <1>k, <2>2 DEF RowShape
    <2>4. row # Unfiled
      BY <2>3 DEF Unfiled
    <2> HIDE DEF row
    <2>5. Kept(c, row)
      BY <1>3, <2>2, <2>3, <2>4 DEF Kept, RowShape
    <2> QED
      BY <1>0, <1>3, <2>1, <2>5, OneRow
  <1>4. ASSUME NEW c \in Case, cases' = [cases EXCEPT ![c] = Executed(cases[c])],
               cases[c] # Unfiled, confirmed' = confirmed
        PROVE  CasesKept
    <2> DEFINE row == Executed(cases[c])
    <2>1. row.path = cases[c].path /\ row.status = "EXECUTED" /\ row.execTx
      BY <1>k, ExecutedRow
    <2>2. row.path # "NONE"
      BY <1>4, <1>k, <2>1 DEF RowShape
    <2>3. row # Unfiled
      BY <2>2 DEF Unfiled
    <2> HIDE DEF row
    <2>4. Kept(c, row)
      BY <1>4, <2>1, <2>2, <2>3 DEF Kept, RowShape
    <2> QED
      BY <1>0, <1>4, <2>4, OneRow DEF row
  <1>5. ASSUME OwnerAction PROVE CasesKept
    BY <1>1, <1>5 DEF OwnerAction, ActivateWallet, ChangeWalletPassword, VerifyWalletPassword,
       UpdateNominees, BindNewDevice, RevokeDevice, EmergencyFreeze
  <1>6. ASSUME NEW r \in Request, NEW c \in Case,
               SelfRecovery(r, c) \/ SocialRecovery(r, c) \/ TrusteeRecovery(r, c)
        PROVE  CasesKept
    BY <1>2, <1>6 DEF SelfRecovery, SocialRecovery, TrusteeRecovery
  <1>7. ASSUME NEW r \in Request, NEW c \in Case, CancelRecovery(r, c) PROVE CasesKept
    <2>1. cases[c] # Unfiled
      BY <1>7 DEF CancelRecovery, Unfiled
    <2> QED
      BY <1>3, <1>7, <2>1 DEF CancelRecovery, Closed
  <1>8. ASSUME NEW r \in Request, NEW c \in Case, NEW o \in Disposition,
               ExecuteOmbudsmanOrder(r, c, o)
        PROVE  CasesKept
    BY <1>1, <1>3, <1>8 DEF ExecuteOmbudsmanOrder
  <1>9. ASSUME NEW r \in Request, NEW c \in Case, HandleRecoveryExecuted(r, c) PROVE CasesKept
    <2>1. cases[c] # Unfiled
      BY <1>0, <1>9 DEF HandleRecoveryExecuted, CaseShape
    <2> QED
      BY <1>1, <1>4, <1>9, <2>1 DEF HandleRecoveryExecuted
  <1>10. ASSUME NEW r \in Request, RecordsExecution(r) PROVE CasesKept
    <2>1. work[r].case \in Case /\ cases[work[r].case] # Unfiled
      BY <1>0, <1>10, <1>n, <1>r DEF RecordsExecution, WorkFits, At, CaseShape
    <2> QED
      BY <1>4, <1>10, <2>1 DEF RecordsExecution
  <1>11. ASSUME NEW r \in Request, ClosesSelfRecovery(r) PROVE CasesKept
    <2> DEFINE c == work[r].case
               row == [cases[c] EXCEPT !.status = "EXECUTED"]
    <2>1. c \in Case /\ cases[c].path = "SELF" /\ IsBound(c)
      BY <1>11, <1>n, <1>r DEF ClosesSelfRecovery, WorkFits, At, IsBound
    <2>2. cases' = [cases EXCEPT ![c] = row] /\ confirmed' = confirmed
      BY <1>11 DEF ClosesSelfRecovery
    <2> HIDE DEF c
    <2>3. row.path = "SELF" /\ row.status = "EXECUTED" /\ row.execTx = cases[c].execTx
      BY <1>k, <2>1 DEF CaseRow
    <2>4. row # Unfiled /\ cases[c] # Unfiled
      BY <2>1, <2>3 DEF Unfiled
    <2> HIDE DEF row
    <2>5. Kept(c, row)
      BY <2>1, <2>3, <2>4 DEF Kept, RowShape
    <2> QED
      BY <1>0, <2>1, <2>2, <2>5, OneRow
  <1>12. ASSUME NEW r \in Request, NEW c \in Case, ExecuteRecovery(r, c) PROVE CasesKept
    <2>1. cases[c] # Unfiled
      BY <1>12 DEF ExecuteRecovery, Unfiled
    <2> QED
      BY <1>0, <1>12, <2>1, KeptAsIs DEF ExecuteRecovery, CasesKept
  <1>13. ASSUME NEW r \in Request,
                \/ RetiresDevices(r) \/ (\E d \in Device: BindsDevice(r, d))
                \/ MarksRecovered(r) \/ SavesWallet(r) \/ RestoresWallet(r) \/ Dies(r)
         PROVE  CasesKept
    BY <1>1, <1>13 DEF RetiresDevices, BindsDevice, MarksRecovered, SavesWallet, RestoresWallet, Dies
  <1>14. ASSUME NEW t \in Transfer,
                \/ InitiateOwnershipTransfer(t)
                \/ \E r \in Request: CancelOwnershipTransfer(r, t)
                \/ ApproveTransfer(t) \/ RejectTransfer(t)
         PROVE  CasesKept
    BY <1>1, <1>14 DEF InitiateOwnershipTransfer, CancelOwnershipTransfer, ApproveTransfer,
       RejectTransfer
  <1>15. ASSUME SuspendWallet \/ UnsuspendWallet \/ UnlockWallet \/ LockElapses PROVE CasesKept
    BY <1>1, <1>15 DEF SuspendWallet, UnsuspendWallet, UnlockWallet, LockElapses
  <1>16. ASSUME NEW c \in Case, ApproveRecovery(c) \/ RejectRecovery(c) PROVE CasesKept
    <2>1. cases[c] # Unfiled
      BY <1>16 DEF ApproveRecovery, RejectRecovery, Unfiled
    <2> QED
      BY <1>3, <1>16, <2>1 DEF ApproveRecovery, RejectRecovery
  <1>17. ASSUME NEW d \in Device, DeviceCoolingElapses(d) PROVE CasesKept
    BY <1>1, <1>17 DEF DeviceCoolingElapses
  <1>18. ASSUME NEW c \in Case, CaseCoolingElapses(c) PROVE CasesKept
    <2> DEFINE row == [cases[c] EXCEPT !.cooling = "elapsed"]
    <2>1. cases' = [cases EXCEPT ![c] = row] /\ confirmed' = confirmed
      BY <1>18 DEF CaseCoolingElapses
    <2>2. /\ row.path = cases[c].path /\ row.status = cases[c].status
          /\ row.execTx = cases[c].execTx /\ row.cooling = "elapsed"
      BY <1>k DEF CaseRow
    <2>3. cases[c] # Unfiled /\ row # Unfiled
      BY <1>18, <2>2 DEF CaseCoolingElapses, Unfiled
    <2> HIDE DEF row
    <2>4. Kept(c, row)
      BY <1>k, <2>2, <2>3 DEF Kept, RowShape, SelfDone
    <2> QED
      BY <1>0, <2>1, <2>4, OneRow
  <1>19. CASE UNCHANGED vars
    BY <1>1, <1>19 DEF vars
  <1> QED
    BY <1>5, <1>6, <1>7, <1>8, <1>9, <1>10, <1>11, <1>12, <1>13, <1>14, <1>15, <1>16, <1>17, <1>18, <1>19
    DEF Next, RecoveryAction, GoesOn, TimePasses, AdminAction

\* What becomes of the wallet: it is verified, activated or unlocked, its lock runs
\* out, or one state is saved, RECOVERED only with an execution on record.
WalletMoves ==
    \/ wallet' = wallet
    \/ \E b \in BOOLEAN: wallet' = Verified(wallet, b)
    \/ \E s \in WalletState \ {"LOCKED"}:
          wallet' = [wallet EXCEPT !.state = s] /\ (s = "RECOVERED" => Recorded)
    \/ wallet'.state = "ACTIVATED" /\ wallet'.attempts = 0 /\ wallet'.password
    \/ wallet' = [wallet EXCEPT !.state = "ACTIVATED", !.attempts = 0, !.lock = "none"]
    \/ wallet' = [wallet EXCEPT !.lock = "elapsed"]

\* Every handler moves the wallet in one of those ways.
LEMMA WalletStep == IInv /\ [Next]_vars => WalletMoves
  <1> SUFFICES ASSUME IInv, [Next]_vars PROVE WalletMoves
    OBVIOUS
  <1>0. TypeOK /\ WorkShape
    BY DEF IInv
  <1>1. ASSUME wallet' = wallet PROVE WalletMoves
    BY <1>1 DEF WalletMoves
  <1>2. ASSUME NEW b \in BOOLEAN, wallet' = Verified(wallet, b) PROVE WalletMoves
    BY <1>2 DEF WalletMoves
  <1>3. ASSUME NEW s \in WalletState \ {"LOCKED"}, wallet' = [wallet EXCEPT !.state = s],
               s = "RECOVERED" => Recorded
        PROVE  WalletMoves
    BY <1>3 DEF WalletMoves
  <1>n. /\ {"RECOVERED", "OWNERSHIP_TRANSFER", "SUSPENDED", "ACTIVATED"} \subseteq WalletState
        /\ Restored(wallet) \in WalletState \ {"LOCKED", "RECOVERED"}
    BY DEF WalletState, Restored
  <1>4. ASSUME OwnerAction PROVE WalletMoves
    <2>1. ASSUME NEW d \in Device, NEW h \in {"INDIVIDUAL", "LEGAL_PERSON"}, NEW n \in NomineeLists,
                 ActivateWallet(d, h, n)
          PROVE  WalletMoves
      BY <2>1 DEF ActivateWallet, WalletMoves
    <2>2. ASSUME ChangeWalletPassword PROVE WalletMoves
      BY <1>0, <2>2 DEF ChangeWalletPassword, WalletMoves, TypeOK, Wallet
    <2>3. ASSUME NEW b \in BOOLEAN, VerifyWalletPassword(b) PROVE WalletMoves
      BY <1>2, <2>3 DEF VerifyWalletPassword
    <2>4. ASSUME NEW n \in NomineeLists, UpdateNominees(n) PROVE WalletMoves
      BY <1>1, <1>2, <2>4 DEF UpdateNominees
    <2>5. ASSUME NEW d \in Device, BindNewDevice(d) \/ RevokeDevice(d) PROVE WalletMoves
      BY <1>2, <2>5 DEF BindNewDevice, RevokeDevice
    <2>6. ASSUME EmergencyFreeze PROVE WalletMoves
      BY <1>3, <1>n, <2>6 DEF EmergencyFreeze
    <2> QED
      BY <1>4, <2>1, <2>2, <2>3, <2>4, <2>5, <2>6 DEF OwnerAction
  <1>5. ASSUME RecoveryAction PROVE WalletMoves
    <2>1. ASSUME NEW t \in Transfer, InitiateOwnershipTransfer(t) PROVE WalletMoves
      BY <1>3, <1>n, <2>1 DEF InitiateOwnershipTransfer
    <2> QED
      BY <1>1, <1>5, <2>1 DEF RecoveryAction, SelfRecovery, SocialRecovery, TrusteeRecovery,
         CancelRecovery, HandleRecoveryExecuted, ExecuteOmbudsmanOrder, CancelOwnershipTransfer
  <1>6. ASSUME NEW r \in Request, GoesOn(r) \/ Dies(r) PROVE WalletMoves
    <2>1. WorkFits(work[r]) /\ (At(r, "wallet") => work[r].to \in WalletState)
      BY <1>0, WorkFields DEF WorkShape, TypeOK, At
    <2>2. CASE SavesWallet(r)
      BY <1>3, <2>1, <2>2 DEF SavesWallet, WorkFits, At
    <2>3. CASE RestoresWallet(r)
      BY <1>3, <1>n, <2>3 DEF RestoresWallet
    <2>4. CASE MarksRecovered(r)
      <3>1. Recorded
        BY <1>0, <2>1, <2>4 DEF MarksRecovered, WorkFits, At, TypeOK, Recorded
      <3> QED
        BY <1>3, <1>n, <2>4, <3>1 DEF MarksRecovered
    <2> QED
      BY <1>1, <1>6, <2>2, <2>3, <2>4 DEF GoesOn, RetiresDevices, BindsDevice,
         ClosesSelfRecovery, RecordsExecution, Dies
  <1>7. ASSUME TimePasses PROVE WalletMoves
    BY <1>7 DEF TimePasses, LockElapses, DeviceCoolingElapses, CaseCoolingElapses, WalletMoves
  <1>8. ASSUME AdminAction PROVE WalletMoves
    <2>1. ASSUME SuspendWallet \/ UnsuspendWallet PROVE WalletMoves
      BY <1>3, <1>n, <2>1 DEF SuspendWallet, UnsuspendWallet
    <2>2. ASSUME UnlockWallet PROVE WalletMoves
      BY <2>2 DEF UnlockWallet, WalletMoves
    <2> QED
      BY <1>1, <1>8, <2>1, <2>2
      DEF AdminAction, ApproveRecovery, RejectRecovery, ExecuteRecovery, ApproveTransfer, RejectTransfer
  <1>9. CASE UNCHANGED vars
    BY <1>1, <1>9 DEF vars
  <1> QED
    BY <1>4, <1>5, <1>6, <1>7, <1>8, <1>9 DEF Next

\* What becomes of the devices: an activation adds one that can sign at once, a
\* rebinding retires the others and adds one that cools off, a self-recovery does
\* the same in two steps, a device is revoked or has cooled off.
DeviceMoves ==
    \/ devices' = devices
    \/ devices' = RetireActive(devices)
    \/ \E d \in Device:
          /\ devices[d] = Absent
          /\ \/ /\ devices' = [devices EXCEPT ![d] = BoundDevice("none")]
                /\ wallet.state \notin {"ACTIVATED", "RECOVERED"}
                /\ wallet'.state = "ACTIVATED" /\ wallet'.password
             \/ /\ devices' = [RetireActive(devices) EXCEPT ![d] = BoundDevice("running")]
                /\ wallet.state # "RECOVERED" /\ wallet.password
             \/ /\ devices' = [devices EXCEPT ![d] = BoundDevice("running")]
                /\ wallet.password /\ \E r \in Request: At(r, "retired")
    \/ \E d \in Device:
          /\ devices[d] # Absent
          /\ \/ devices' = [devices EXCEPT ![d].state = "REVOKED"]
             \/ devices' = [devices EXCEPT ![d].cooling = "elapsed"] /\ devices[d].cooling # "none"

\* Every handler moves the devices in one of those ways.
LEMMA DeviceStep == IInv /\ [Next]_vars => DeviceMoves
  <1> SUFFICES ASSUME IInv, [Next]_vars PROVE DeviceMoves
    OBVIOUS
  <1>0. TypeOK /\ WorkShape
    BY DEF IInv
  <1>1. ASSUME devices' = devices PROVE DeviceMoves
    BY <1>1 DEF DeviceMoves
  <1>2. ASSUME OwnerAction PROVE DeviceMoves
    <2>1. ASSUME NEW d \in Device, NEW h \in {"INDIVIDUAL", "LEGAL_PERSON"}, NEW n \in NomineeLists,
                 ActivateWallet(d, h, n)
          PROVE  DeviceMoves
      BY <2>1 DEF ActivateWallet, DeviceMoves
    <2>2. ASSUME NEW d \in Device, BindNewDevice(d) PROVE DeviceMoves
      BY <2>2 DEF BindNewDevice, DeviceMoves
    <2>3. ASSUME NEW d \in Device, RevokeDevice(d) PROVE DeviceMoves
      BY <2>3 DEF RevokeDevice, DeviceMoves
    <2> QED
      BY <1>1, <1>2, <2>1, <2>2, <2>3 DEF OwnerAction, ChangeWalletPassword,
         VerifyWalletPassword, UpdateNominees, EmergencyFreeze
  <1>3. ASSUME RecoveryAction PROVE DeviceMoves
    BY <1>1, <1>3 DEF RecoveryAction, SelfRecovery, SocialRecovery, TrusteeRecovery, CancelRecovery,
       HandleRecoveryExecuted, ExecuteOmbudsmanOrder, InitiateOwnershipTransfer,
       CancelOwnershipTransfer
  <1>4. ASSUME NEW r \in Request, GoesOn(r) \/ Dies(r) PROVE DeviceMoves
    <2>1. CASE RetiresDevices(r)
      BY <2>1 DEF RetiresDevices, DeviceMoves
    <2>2. ASSUME NEW d \in Device, BindsDevice(r, d) PROVE DeviceMoves
      <3>1. wallet.password
        BY <1>0, <2>2 DEF BindsDevice, WorkShape, WorkFits, At
      <3> QED
        BY <2>2, <3>1 DEF BindsDevice, DeviceMoves
    <2> QED
      BY <1>1, <1>4, <2>1, <2>2 DEF GoesOn, ClosesSelfRecovery, RecordsExecution, MarksRecovered,
         SavesWallet, RestoresWallet, Dies
  <1>5. ASSUME TimePasses PROVE DeviceMoves
    <2>1. ASSUME NEW d \in Device, DeviceCoolingElapses(d) PROVE DeviceMoves
      <3>1. Absent.state # "ACTIVE"
        BY DEF Absent
      <3>2. devices[d] # Absent /\ devices[d].cooling # "none"
        BY <2>1, <3>1 DEF DeviceCoolingElapses
      <3> QED
        BY <2>1, <3>2 DEF DeviceCoolingElapses, DeviceMoves
    <2> QED
      BY <1>1, <1>5, <2>1 DEF TimePasses, LockElapses, CaseCoolingElapses
  <1>6. ASSUME AdminAction PROVE DeviceMoves
    BY <1>1, <1>6 DEF AdminAction, SuspendWallet, UnsuspendWallet, UnlockWallet, ApproveRecovery,
       RejectRecovery, ExecuteRecovery, ApproveTransfer, RejectTransfer
  <1>7. CASE UNCHANGED vars
    BY <1>1, <1>7 DEF vars
  <1> QED
    BY <1>2, <1>3, <1>4, <1>5, <1>6, <1>7 DEF Next

-----------------------------------------------------------------------------
(* The inductive invariant *)

\* The invariant holds of the row the signal handler creates.
LEMMA IInvInit == Init => IInv
  <1> SUFFICES ASSUME Init PROVE IInv
    OBVIOUS
  <1>1. TypeOK
    BY TypeInit
  <1>2. Provisioned /\ CaseShape /\ RecoveredHasRecord
    BY DEF Init, Provisioned, CaseShape, RowShape, RecoveredHasRecord, Unfiled
  <1>3. WorkShape
    BY WorkRows DEF Init, WorkShape, WorkFits
  <1>4. LockAccounting
    BY WalletConstants DEF Init, LockAccounting
  <1>5. BindingsCounted
    <2>1. Binders = {} /\ Cooled = {}
      BY WorkRows DEF Init, Binders, Cooled, SelfDone, IsBound, At, Unfiled, Absent
    <2> QED
      BY <2>1, FS_EmptySet DEF BindingsCounted
  <1> QED
    BY <1>1, <1>2, <1>3, <1>4, <1>5 DEF IInv

\* A password once stored stays.
LEMMA PasswordStays ==
  ASSUME TypeOK, WalletMoves, wallet.password
  PROVE  wallet'.password
  <1>0. wallet \in Wallet
    BY DEF TypeOK
  <1>1. ASSUME NEW b \in BOOLEAN, wallet' = Verified(wallet, b) PROVE wallet'.password
    BY <1>0, <1>1, VerifiedRow
  <1> QED
    BY <1>0, <1>1 DEF WalletMoves, Wallet

\* The two handlers that bind a device ask for the password first, and the third
\* stores it.
LEMMA ProvisionedStep ==
  ASSUME IInv, WalletMoves, DeviceMoves
  PROVE  Provisioned'
  <1>0. TypeOK /\ Provisioned
    BY DEF IInv
  <1>1. wallet.password => wallet'.password
    BY <1>0, PasswordStays
  <1>2. ASSUME wallet.password \/ wallet'.password PROVE Provisioned'
    BY <1>1, <1>2 DEF Provisioned
  <1>3. ASSUME ~wallet.password, ~wallet'.password PROVE Provisioned'
    <2>1. \A d \in Device: devices[d] = Absent
      BY <1>0, <1>3 DEF Provisioned
    <2>2. devices' = devices \/ devices' = RetireActive(devices)
      BY <1>3, <2>1 DEF DeviceMoves
    <2> QED
      BY <1>0, <2>1, <2>2, RetireActiveRows DEF Provisioned, TypeOK
  <1> QED
    BY <1>2, <1>3

\* A case row that is kept has the shape, and what is announced is filed.
LEMMA CaseShapeStep ==
  ASSUME IInv, TypeOK', CasesKept
  PROVE  CaseShape'
  <1>1. ASSUME NEW c \in Case PROVE RowShape(cases'[c])
    BY <1>1 DEF CasesKept, Kept
  <1>2. ASSUME NEW c \in confirmed' PROVE cases'[c] # Unfiled
    <2>1. c \in Case /\ cases[c] # Unfiled
      BY <1>2 DEF IInv, TypeOK, CaseShape, CasesKept
    <2> QED
      BY <2>1 DEF CasesKept, Kept
  <1>3. \A c \in Case: RowShape(cases[c])'
    BY <1>1 DEF RowShape
  <1> QED
    BY <1>2, <1>3 DEF CaseShape

\* An execution on record stays on record.
LEMMA RecordStays ==
  ASSUME CasesKept, Recorded
  PROVE  Recorded'
  BY DEF CasesKept, Kept, Recorded

\* What a request has to save still fits after a step of another one.
LEMMA StillFits ==
  ASSUME IInv, CasesKept, wallet.password => wallet'.password,
         NEW w \in Work, WorkFits(w)
  PROVE  WorkFits(w)'
  <1>1. w.pc \in Stage => w.case \in Case
    BY WorkFields
  <1>2. {"filed", "retired", "bound", "approved", "submitted", "recovered"} \subseteq Stage
    BY DEF Stage
  <1>3. ASSUME NEW c \in Case, cases[c] # Unfiled PROVE cases'[c] # Unfiled /\ cases'[c].path = cases[c].path
    BY <1>3 DEF CasesKept, Kept
  <1>4. Unfiled.path # "SELF"
    BY DEF Unfiled
  <1>5. Recorded => Recorded'
    BY RecordStays
  <1>6. w.pc \in {"filed", "retired", "bound"} => wallet'.password /\ cases'[w.case].path = "SELF"
    BY <1>1, <1>2, <1>3, <1>4 DEF WorkFits
  <1>7. w.pc = "approved" => cases'[w.case] # Unfiled
    BY <1>1, <1>2, <1>3 DEF WorkFits
  <1>8. w.pc \in {"submitted", "recovered"} => w.case \in confirmed'
    BY DEF WorkFits, CasesKept
  <1> QED
    BY <1>5, <1>6, <1>7, <1>8 DEF WorkFits

\* Every step of a request leaves behind what fits.
LEMMA WorkStep ==
  ASSUME IInv, TypeOK', [Next]_vars, CasesKept, wallet.password => wallet'.password
  PROVE  WorkShape'
  <1>0. /\ TypeOK /\ CaseShape
        /\ work \in [Request -> Work] /\ work' \in [Request -> Work]
        /\ \A r \in Request: WorkFits(work[r])
    BY DEF IInv, TypeOK, WorkShape
  <1>k. ASSUME NEW w \in Work, WorkFits(w) PROVE WorkFits(w)'
    BY <1>k, StillFits
  <1>c. ASSUME NEW c \in Case
        PROVE  /\ cases[c] \in CaseRow
               /\ cases[c] # Unfiled =>
                     cases'[c] # Unfiled /\ cases'[c].path = cases[c].path
    BY <1>0 DEF TypeOK, CasesKept, Kept
  <1>r. ASSUME NEW r \in Request
        PROVE  \A p \in Stage: At(r, p) => work[r].case \in Case
    BY <1>0, WorkFields DEF At
  <1>n. /\ {"filed", "retired", "bound", "approved", "submitted", "recovered"} = Stage
        /\ {"CREATED", "ACTIVATED", "RECOVERING", "RECOVERED"} \subseteq WalletState
        /\ Restored(wallet) \in {"CREATED", "ACTIVATED"}
    BY DEF Stage, WalletState, Restored
  <1>1. ASSUME work' = work PROVE WorkShape'
    <2> SUFFICES ASSUME NEW r \in Request PROVE WorkFits(work[r])'
      BY DEF WorkShape
    <2>1. PICK w \in Work: w = work[r]
      BY <1>0
    <2>2. WorkFits(w)'
      BY <1>0, <1>k, <2>1
    <2> QED
      BY <1>1, <2>1, <2>2
  <1>2. ASSUME NEW r \in Request, NEW next \in Work, Goes(r, next), WorkFits(next)'
        PROVE  WorkShape'
    <2> SUFFICES ASSUME NEW q \in Request PROVE WorkFits(work[q])'
      BY DEF WorkShape
    <2>1. CASE q = r
      <3>1. work'[q] = next
        BY <1>0, <1>2, <2>1 DEF Goes
      <3> QED
        BY <1>2, <3>1
    <2>2. CASE q # r
      <3>1. PICK w \in Work: w = work[q]
        BY <1>0
      <3>2. WorkFits(w)'
        BY <1>0, <1>k, <3>1
      <3>3. work'[q] = w
        BY <1>0, <1>2, <2>2, <3>1 DEF Goes
      <3> QED
        BY <3>2, <3>3
    <2> QED
      BY <2>1, <2>2
  <1>f. WorkFits(Free)' /\ WorkFits(Rejected)'
    BY WorkRows DEF WorkFits
  <1>w. ASSUME NEW s \in {"CREATED", "ACTIVATED", "RECOVERING", "RECOVERED"},
               s = "RECOVERED" => Recorded'
        PROVE  ToSave(s) \in Work /\ WorkFits(ToSave(s))'
    <2>1. ToSave(s) \in Work /\ ToSave(s).pc = "wallet" /\ ToSave(s).to = s
      BY <1>n, WorkRows
    <2> QED
      BY <1>w, <2>1 DEF WorkFits
  <1>s. ASSUME NEW c \in Case, NEW p \in {"filed", "retired", "bound"},
               wallet'.password, cases'[c].path = "SELF"
        PROVE  Working(p, c) \in Work /\ WorkFits(Working(p, c))'
    <2>0. p \in Stage
      BY <1>n
    <2>1. Working(p, c) \in Work /\ Working(p, c).pc = p /\ Working(p, c).case = c
      BY <2>0, WorkRows
    <2> QED
      BY <1>s, <2>1 DEF WorkFits
  <1>3. ASSUME OwnerAction PROVE WorkShape'
    BY <1>1, <1>3 DEF OwnerAction, ActivateWallet, ChangeWalletPassword, VerifyWalletPassword,
       UpdateNominees, BindNewDevice, RevokeDevice, EmergencyFreeze
  <1>4. ASSUME NEW r \in Request, NEW c \in Case, SelfRecovery(r, c) PROVE WorkShape'
    <2>1. cases'[c] = Filed("SELF", "APPROVED", "none")
      BY <1>0, <1>4 DEF SelfRecovery, TypeOK
    <2>2. wallet'.password /\ cases'[c].path = "SELF"
      BY <1>4, <2>1 DEF SelfRecovery, Filed
    <2> QED
      BY <1>2, <1>4, <1>s, <2>2 DEF SelfRecovery
  <1>5. ASSUME NEW r \in Request, NEW c \in Case, SocialRecovery(r, c) \/ TrusteeRecovery(r, c)
        PROVE  WorkShape'
    BY <1>2, <1>5, <1>w DEF SocialRecovery, TrusteeRecovery
  <1>6. ASSUME NEW r \in Request, Goes(r, ToSave(Restored(wallet))) PROVE WorkShape'
    <2>1. PICK s \in {"CREATED", "ACTIVATED"}: s = Restored(wallet)
      BY <1>n
    <2>2. Goes(r, ToSave(s))
      BY <1>6, <2>1
    <2> QED
      BY <1>2, <1>w, <2>2
  <1>7. ASSUME NEW r \in Request, NEW c \in Case, CancelRecovery(r, c) PROVE WorkShape'
    BY <1>6, <1>7 DEF CancelRecovery
  <1>8. ASSUME NEW r \in Request, NEW t \in Transfer, CancelOwnershipTransfer(r, t) PROVE WorkShape'
    BY <1>6, <1>8 DEF CancelOwnershipTransfer
  <1>9. ASSUME NEW r \in Request, NEW c \in Case, NEW o \in Disposition,
               ExecuteOmbudsmanOrder(r, c, o)
        PROVE  WorkShape'
    <2> DEFINE next == Working("approved", c)
    <2>1. next \in Work /\ next.pc = "approved" /\ next.case = c
      BY <1>n, WorkRows
    <2>2. cases'[c] # Unfiled
      BY <1>9, <1>c DEF ExecuteOmbudsmanOrder
    <2>3. WorkFits(next)'
      BY <2>1, <2>2 DEF WorkFits
    <2>4. Rejected \in Work
      BY WorkRows
    <2> QED
      BY <1>1, <1>2, <1>9, <1>f, <2>1, <2>3, <2>4 DEF ExecuteOmbudsmanOrder
  <1>10. ASSUME NEW r \in Request, RecordsExecution(r) PROVE WorkShape'
    <2>1. work[r].case \in Case
      BY <1>10, <1>n, <1>r DEF RecordsExecution
    <2>2. cases'[work[r].case].execTx
      BY <1>0, <1>10, <1>c, <2>1, ExecutedRow DEF RecordsExecution, TypeOK
    <2>3. Recorded'
      <3>1. PICK c \in Case: c = work[r].case
        BY <2>1
      <3> QED
        BY <2>2, <3>1 DEF Recorded
    <2>4. Free \in Work
      BY WorkRows
    <2> QED
      BY <1>2, <1>10, <1>f, <1>w, <2>3, <2>4 DEF RecordsExecution
  <1>11. ASSUME NEW r \in Request, NEW c \in Case, HandleRecoveryExecuted(r, c) PROVE WorkShape'
    <2>1. c \in confirmed'
      BY <1>11 DEF HandleRecoveryExecuted
    <2> QED
      BY <1>2, <1>11, <1>w, <2>1 DEF HandleRecoveryExecuted, Recorded
  <1>12. ASSUME NEW r \in Request, RetiresDevices(r) PROVE WorkShape'
    <2>1. work[r].case \in Case
      BY <1>12, <1>n, <1>r DEF RetiresDevices
    <2>2. PICK c \in Case: c = work[r].case
      BY <2>1
    <2>3. wallet'.password /\ cases'[c].path = "SELF"
      BY <1>0, <1>12, <2>2 DEF RetiresDevices, WorkFits, At
    <2> QED
      BY <1>2, <1>12, <1>s, <2>2, <2>3 DEF RetiresDevices
  <1>13. ASSUME NEW r \in Request, NEW d \in Device, BindsDevice(r, d) PROVE WorkShape'
    <2>1. work[r].case \in Case
      BY <1>13, <1>n, <1>r DEF BindsDevice
    <2>2. PICK c \in Case: c = work[r].case
      BY <2>1
    <2>3. wallet'.password /\ cases'[c].path = "SELF"
      BY <1>0, <1>13, <2>2 DEF BindsDevice, WorkFits, At
    <2> QED
      BY <1>2, <1>13, <1>s, <2>2, <2>3 DEF BindsDevice
  <1>14. ASSUME NEW r \in Request,
                \/ ClosesSelfRecovery(r) \/ SavesWallet(r) \/ RestoresWallet(r) \/ Dies(r)
         PROVE  WorkShape'
    BY <1>2, <1>14, <1>f, WorkRows DEF ClosesSelfRecovery, SavesWallet, RestoresWallet, Dies
  <1>a. ASSUME NEW c \in Case, NEW p \in {"submitted", "recovered"}, c \in confirmed'
        PROVE  Working(p, c) \in Work /\ WorkFits(Working(p, c))'
    <2>0. p \in Stage
      BY <1>n
    <2>1. Working(p, c) \in Work /\ Working(p, c).pc = p /\ Working(p, c).case = c
      BY <2>0, WorkRows
    <2> QED
      BY <1>a, <2>1 DEF WorkFits
  <1>15. ASSUME NEW r \in Request, NEW c \in Case, ExecuteRecovery(r, c) PROVE WorkShape'
    BY <1>2, <1>15, <1>a DEF ExecuteRecovery
  <1>16. ASSUME NEW r \in Request, MarksRecovered(r) PROVE WorkShape'
    <2>1. work[r].case \in Case
      BY <1>16, <1>n, <1>r DEF MarksRecovered
    <2>2. PICK c \in Case: c = work[r].case
      BY <2>1
    <2>3. c \in confirmed'
      BY <1>0, <1>16, <2>2 DEF MarksRecovered, WorkFits, At
    <2> QED
      BY <1>2, <1>16, <1>a, <2>2, <2>3 DEF MarksRecovered
  <1>17. ASSUME TimePasses \/ \E t \in Transfer: InitiateOwnershipTransfer(t) PROVE WorkShape'
    BY <1>1, <1>17 DEF TimePasses, LockElapses, DeviceCoolingElapses, CaseCoolingElapses,
       InitiateOwnershipTransfer
  <1>18. ASSUME AdminAction PROVE WorkShape'
    BY <1>1, <1>15, <1>18 DEF AdminAction, SuspendWallet, UnsuspendWallet, UnlockWallet,
       ApproveRecovery, RejectRecovery, ApproveTransfer, RejectTransfer
  <1>19. CASE UNCHANGED vars
    BY <1>1, <1>19 DEF vars
  <1> QED
    BY <1>3, <1>4, <1>5, <1>7, <1>8, <1>9, <1>10, <1>11, <1>12, <1>13, <1>14, <1>15, <1>16, <1>17, <1>18, <1>19
    DEF Next, RecoveryAction, GoesOn

\* A failed attempt keeps the counter and the lock in step.
LEMMA VerifiedLock ==
  ASSUME NEW w \in Wallet, NEW b \in BOOLEAN,
         w.state = "LOCKED" => w.attempts >= MaxFailedAttempts,
         w.attempts >= MaxFailedAttempts => w.lock # "none"
  PROVE  /\ Verified(w, b).state = "LOCKED" => Verified(w, b).attempts >= MaxFailedAttempts
         /\ Verified(w, b).attempts >= MaxFailedAttempts => Verified(w, b).lock # "none"
  <1> DEFINE u == Unlocked(w)
  <1>1. /\ u \in Wallet
        /\ u.state # "LOCKED"
        /\ u.attempts >= MaxFailedAttempts => u.lock # "none"
    BY UnlockedRow, WalletConstants DEF Restored
  <1> HIDE DEF u
  <1>2. Verified(w, b) \in {u, [u EXCEPT !.attempts = 0], FailedAttempt(u)}
    BY DEF Verified, u
  <1>3. [u EXCEPT !.attempts = 0].state # "LOCKED" /\ [u EXCEPT !.attempts = 0].attempts = 0
    BY <1>1 DEF Wallet
  <1>4. ~(0 >= MaxFailedAttempts)
    BY WalletConstants
  <1>5. /\ FailedAttempt(u).state = "LOCKED" => FailedAttempt(u).attempts >= MaxFailedAttempts
        /\ FailedAttempt(u).attempts >= MaxFailedAttempts => FailedAttempt(u).lock # "none"
    <2>1. u.attempts \in Nat
      BY <1>1 DEF Wallet
    <2> QED
      BY <1>1, <2>1, FailedAttemptRow, WalletConstants
  <1> QED
    BY <1>1, <1>2, <1>3, <1>4, <1>5

\* Only a failed attempt locks, only at the limit; the steps that clear the
\* lock window clear the counter with it.
LEMMA LockStep ==
  ASSUME IInv, WalletMoves
  PROVE  LockAccounting'
  <1>0. wallet \in Wallet /\ LockAccounting /\ ~(0 >= MaxFailedAttempts)
    BY WalletConstants DEF IInv, TypeOK
  <1>1. ASSUME NEW b \in BOOLEAN, wallet' = Verified(wallet, b) PROVE LockAccounting'
    BY <1>0, <1>1, VerifiedLock DEF LockAccounting
  <1>2. ASSUME NEW s \in WalletState \ {"LOCKED"}, wallet' = [wallet EXCEPT !.state = s]
        PROVE  LockAccounting'
    BY <1>0, <1>2 DEF LockAccounting, Wallet
  <1>3. ASSUME wallet'.state = "ACTIVATED", wallet'.attempts = 0 PROVE LockAccounting'
    BY <1>0, <1>3 DEF LockAccounting
  <1>4. ASSUME wallet' = [wallet EXCEPT !.state = "ACTIVATED", !.attempts = 0, !.lock = "none"]
        PROVE  LockAccounting'
    BY <1>0, <1>3, <1>4 DEF Wallet
  <1>5. ASSUME wallet' = [wallet EXCEPT !.lock = "elapsed"] PROVE LockAccounting'
    BY <1>0, <1>5 DEF LockAccounting, Wallet
  <1>6. ASSUME wallet' = wallet PROVE LockAccounting'
    BY <1>0, <1>6 DEF LockAccounting
  <1> QED
    BY <1>1, <1>2, <1>3, <1>4, <1>5, <1>6 DEF WalletMoves

\* RECOVERED is saved only with an execution on record, and no record is erased.
LEMMA RecordStep ==
  ASSUME IInv, WalletMoves, CasesKept
  PROVE  RecoveredHasRecord'
  <1>0. wallet \in Wallet /\ RecoveredHasRecord
    BY DEF IInv, TypeOK
  <1>1. Recorded => Recorded'
    BY RecordStays
  <1>2. ASSUME NEW b \in BOOLEAN, wallet' = Verified(wallet, b) PROVE RecoveredHasRecord'
    <2>1. wallet'.state = "RECOVERED" => wallet.state = "RECOVERED"
      BY <1>0, <1>2, VerifiedRow
    <2> QED
      BY <1>0, <1>1, <2>1 DEF RecoveredHasRecord
  <1>3. ASSUME NEW s \in WalletState \ {"LOCKED"}, wallet' = [wallet EXCEPT !.state = s],
               s = "RECOVERED" => Recorded
        PROVE  RecoveredHasRecord'
    BY <1>0, <1>1, <1>3 DEF RecoveredHasRecord, Wallet
  <1>4. ASSUME wallet'.state = "ACTIVATED" PROVE RecoveredHasRecord'
    BY <1>4 DEF RecoveredHasRecord
  <1>5. ASSUME wallet'.state = wallet.state PROVE RecoveredHasRecord'
    BY <1>0, <1>1, <1>5 DEF RecoveredHasRecord
  <1>6. /\ [wallet EXCEPT !.state = "ACTIVATED", !.attempts = 0, !.lock = "none"].state = "ACTIVATED"
        /\ [wallet EXCEPT !.lock = "elapsed"].state = wallet.state
    BY <1>0 DEF Wallet
  <1> QED
    BY <1>2, <1>3, <1>4, <1>5, <1>6 DEF WalletMoves

\* What becomes of the requests that have bound their device: one more only by
\* binding a device.
BindMoves ==
    \/ \A c \in Case: IsBound(c)' => IsBound(c)
    \/ \E e \in Case, d \in Device:
          /\ \A c \in Case \ {e}: IsBound(c)' => IsBound(c)
          /\ UNCHANGED cases
          /\ devices[d] = Absent
          /\ devices' = [devices EXCEPT ![d] = BoundDevice("running")]

LEMMA BindStep == IInv /\ [Next]_vars => BindMoves
  <1> SUFFICES ASSUME IInv, [Next]_vars PROVE BindMoves
    OBVIOUS
  <1>0. /\ TypeOK /\ work \in [Request -> Work]
        /\ Free.pc # "bound" /\ Rejected.pc # "bound"
        /\ \A s: ToSave(s).pc # "bound"
        /\ \A p, c: Working(p, c).pc = p /\ Working(p, c).case = c
    BY DEF IInv, TypeOK, Free, Rejected, ToSave, Working
  <1>1. ASSUME work' = work PROVE BindMoves
    BY <1>1 DEF BindMoves, IsBound, At
  <1>2. ASSUME NEW r \in Request, NEW next, Goes(r, next), next.pc # "bound" PROVE BindMoves
    <2>1. \A q \in Request: work'[q].pc = "bound" => work'[q] = work[q]
      BY <1>0, <1>2 DEF Goes
    <2> QED
      BY <2>1 DEF BindMoves, IsBound, At
  <1>3. ASSUME NEW r \in Request, NEW d \in Device, BindsDevice(r, d) PROVE BindMoves
    <2>1. work[r].case \in Case
      BY <1>0, <1>3, WorkFields DEF BindsDevice, At, Stage
    <2>2. PICK e \in Case: e = work[r].case
      BY <2>1
    <2>3. \A q \in Request: work'[q] = work[q] \/ work'[q] = Working("bound", e)
      BY <1>0, <1>3, <2>2 DEF BindsDevice, Goes
    <2>4. \A c \in Case \ {e}: IsBound(c)' => IsBound(c)
      BY <1>0, <2>3 DEF IsBound, At
    <2>5. /\ UNCHANGED cases /\ devices[d] = Absent
          /\ devices' = [devices EXCEPT ![d] = BoundDevice("running")]
      BY <1>3 DEF BindsDevice
    <2> QED
      BY <2>4, <2>5 DEF BindMoves
  <1>4. ASSUME OwnerAction PROVE BindMoves
    BY <1>1, <1>4 DEF OwnerAction, ActivateWallet, ChangeWalletPassword, VerifyWalletPassword,
       UpdateNominees, BindNewDevice, RevokeDevice, EmergencyFreeze
  <1>5. ASSUME RecoveryAction PROVE BindMoves
    BY <1>0, <1>1, <1>2, <1>5 DEF RecoveryAction, SelfRecovery, SocialRecovery, TrusteeRecovery,
       CancelRecovery, HandleRecoveryExecuted, ExecuteOmbudsmanOrder, InitiateOwnershipTransfer,
       CancelOwnershipTransfer
  <1>6. ASSUME NEW r \in Request, GoesOn(r) \/ Dies(r) PROVE BindMoves
    BY <1>0, <1>2, <1>3, <1>6 DEF GoesOn, RetiresDevices, ClosesSelfRecovery, RecordsExecution,
       MarksRecovered, SavesWallet, RestoresWallet, Dies
  <1>7. ASSUME TimePasses PROVE BindMoves
    BY <1>1, <1>7 DEF TimePasses, LockElapses, DeviceCoolingElapses, CaseCoolingElapses
  <1>8. ASSUME AdminAction PROVE BindMoves
    BY <1>0, <1>1, <1>2, <1>8 DEF AdminAction, SuspendWallet, UnsuspendWallet, UnlockWallet,
       ApproveRecovery, RejectRecovery, ExecuteRecovery, ApproveTransfer, RejectTransfer
  <1>9. CASE UNCHANGED vars
    BY <1>1, <1>9 DEF vars
  <1> QED
    BY <1>4, <1>5, <1>6, <1>7, <1>8, <1>9 DEF Next

\* A device that had to cool off remains one that had to.
LEMMA CooledStay ==
  ASSUME TypeOK, DeviceMoves
  PROVE  Cooled \subseteq Cooled'
  <1> SUFFICES ASSUME NEW x \in Device, devices[x].cooling # "none"
               PROVE  devices'[x].cooling # "none"
    BY DEF Cooled
  <1>0. devices \in [Device -> DeviceRow] /\ devices[x] # Absent
    BY DEF TypeOK, Absent
  <1>1. /\ RetireActive(devices) \in [Device -> DeviceRow]
        /\ RetireActive(devices)[x].cooling = devices[x].cooling
    BY <1>0, RetireActiveRows
  <1>2. ASSUME NEW d \in Device, devices[d] # Absent,
               \/ devices' = [devices EXCEPT ![d].state = "REVOKED"]
               \/ devices' = [devices EXCEPT ![d].cooling = "elapsed"]
        PROVE  devices'[x].cooling # "none"
    BY <1>0, <1>2 DEF DeviceRow
  <1>3. ASSUME NEW d \in Device, devices[d] = Absent,
               \E m \in {"none", "running"}:
                  \/ devices' = [devices EXCEPT ![d] = BoundDevice(m)]
                  \/ devices' = [RetireActive(devices) EXCEPT ![d] = BoundDevice(m)]
        PROVE  devices'[x].cooling # "none"
    BY <1>0, <1>1, <1>3
  <1> QED
    BY <1>1, <1>2, <1>3 DEF DeviceMoves

\* Each binding of a self-recovery is counted with the device it brought.
LEMMA BindingsStep ==
  ASSUME IInv, TypeOK', CasesKept, DeviceMoves, BindMoves
  PROVE  BindingsCounted'
  <1>0. /\ TypeOK /\ BindingsCounted /\ Cooled \subseteq Cooled'
        /\ IsFiniteSet(Case) /\ IsFiniteSet(Device)
    BY CooledStay, WalletConstants DEF IInv
  <1>1. /\ IsFiniteSet(Binders) /\ IsFiniteSet(Cooled)
        /\ IsFiniteSet(Binders') /\ IsFiniteSet(Cooled')
    BY <1>0, FS_Subset DEF Binders, Cooled
  <1>2. /\ Cardinality(Binders) \in Nat /\ Cardinality(Cooled) \in Nat
        /\ Cardinality(Binders') \in Nat /\ Cardinality(Cooled') \in Nat
        /\ Cardinality(Cooled) <= Cardinality(Cooled')
    BY <1>0, <1>1, FS_CardinalityType, FS_Subset
  <1>3. ASSUME NEW c \in Case, SelfDone(c)' PROVE c \in Binders
    BY <1>3 DEF CasesKept, Kept, SelfDone, Binders
  <1>4. CASE \A c \in Case: IsBound(c)' => IsBound(c)
    <2>1. Binders' \subseteq Binders
      BY <1>3, <1>4 DEF Binders
    <2>2. Cardinality(Binders') <= Cardinality(Binders)
      BY <1>1, <2>1, FS_Subset
    <2> QED
      BY <1>0, <1>2, <2>2 DEF BindingsCounted
  <1>5. CASE \E e \in Case, d \in Device:
                /\ \A c \in Case \ {e}: IsBound(c)' => IsBound(c)
                /\ UNCHANGED cases
                /\ devices[d] = Absent
                /\ devices' = [devices EXCEPT ![d] = BoundDevice("running")]
    <2>1. PICK e \in Case, d \in Device:
                /\ \A c \in Case \ {e}: IsBound(c)' => IsBound(c)
                /\ devices[d] = Absent
                /\ devices' = [devices EXCEPT ![d] = BoundDevice("running")]
      BY <1>5
    <2>2. Binders' \subseteq Binders \cup {e}
      BY <1>3, <2>1 DEF Binders
    <2>3. d \in Cooled' /\ d \notin Cooled
      BY <1>0, <2>1 DEF Cooled, TypeOK, BoundDevice, Absent
    <2>4. Cardinality(Cooled \cup {d}) = Cardinality(Cooled) + 1
      BY <1>1, <2>3, FS_AddElement
    <2>5. Cardinality(Cooled \cup {d}) <= Cardinality(Cooled')
      BY <1>0, <1>1, <2>3, FS_Subset
    <2>6. /\ IsFiniteSet(Binders \cup {e})
          /\ Cardinality(Binders \cup {e}) <= Cardinality(Binders) + 1
      <3>1. CASE e \in Binders
        <4>1. Binders \cup {e} = Binders
          BY <3>1
        <4> QED
          BY <1>1, <1>2, <4>1
      <3>2. CASE e \notin Binders
        <4>1. /\ IsFiniteSet(Binders \cup {e})
              /\ Cardinality(Binders \cup {e}) = Cardinality(Binders) + 1
          BY <1>1, <3>2, FS_AddElement
        <4> QED
          BY <1>2, <4>1
      <3> QED
        BY <3>1, <3>2
    <2>7. Cardinality(Binders') <= Cardinality(Binders \cup {e}) /\ Cardinality(Binders \cup {e}) \in Nat
      BY <2>2, <2>6, FS_Subset, FS_CardinalityType
    <2> QED
      BY <1>0, <1>2, <2>4, <2>5, <2>6, <2>7 DEF BindingsCounted
  <1> QED
    BY <1>4, <1>5 DEF BindMoves

\* Every handler, with the conjuncts of IInv as its only knowledge, keeps IInv.
LEMMA IInvStep == IInv /\ [Next]_vars => IInv'
  <1> SUFFICES ASSUME IInv, [Next]_vars PROVE IInv'
    OBVIOUS
  <1>1. TypeOK /\ TypeOK'
    BY TypeStep DEF IInv
  <1>2. CasesKept /\ WalletMoves /\ DeviceMoves /\ BindMoves
    BY CasesStep, WalletStep, DeviceStep, BindStep
  <1>3. wallet.password => wallet'.password
    BY <1>1, <1>2, PasswordStays
  <1>4. Provisioned' /\ CaseShape' /\ WorkShape'
    BY <1>1, <1>2, <1>3, ProvisionedStep, CaseShapeStep, WorkStep
  <1>5. LockAccounting' /\ RecoveredHasRecord' /\ BindingsCounted'
    BY <1>1, <1>2, LockStep, RecordStep, BindingsStep
  <1> QED
    BY <1>1, <1>4, <1>5 DEF IInv

\* The inductive invariant holds in every reachable state.
THEOREM Inductive == Spec => []IInv
  BY IInvInit, IInvStep, PTL DEF Spec

-----------------------------------------------------------------------------
(* The safety of the wallet *)

\* A transaction is never let through for a wallet without a password hash:
\* wallet_check wants a ready device, and devices imply a password.
THEOREM SigningSafe == Spec => []SigningNeedsPassword
  <1>1. IInv => SigningNeedsPassword
    BY DEF IInv, Provisioned, SigningNeedsPassword, WalletCheck, ReadyDevice, Absent
  <1> QED
    BY <1>1, Inductive, PTL

\* The failed-attempt counter and the lock never disagree.
THEOREM LockSafe == Spec => []LockAccounting
  <1>1. IInv => LockAccounting
    BY DEF IInv
  <1> QED
    BY <1>1, Inductive, PTL

\* A RECOVERED wallet has an execution on record, though the saves of the wallet and
\* of its case are apart.
THEOREM ExecutionSafe == Spec => []ExecutionRecorded
  <1>1. IInv => ExecutionRecorded
    BY DEF IInv, CaseShape, RowShape, RecoveredHasRecord, Recorded, ExecutionRecorded
  <1> QED
    BY <1>1, Inductive, PTL

\* A self-recovery that reports itself EXECUTED has bound its device.
THEOREM BindingsSafe == Spec => []SelfRecoveryBinds
  <1>1. ASSUME IInv PROVE SelfRecoveryBinds
    <2> DEFINE Done == {c \in Case: /\ cases[c].path = "SELF" /\ cases[c].status = "EXECUTED"
                                    /\ ~cases[c].execTx}
    <2>1. Done \subseteq Binders /\ IsFiniteSet(Binders) /\ IsFiniteSet(Cooled)
      BY WalletConstants, FS_Subset DEF Binders, Cooled, SelfDone
    <2>2. /\ Cardinality(Done) <= Cardinality(Binders)
          /\ Cardinality(Done) \in Nat
          /\ Cardinality(Binders) \in Nat /\ Cardinality(Cooled) \in Nat
      BY <2>1, FS_Subset, FS_CardinalityType
    <2> QED
      BY <1>1, <2>2 DEF IInv, BindingsCounted, Cooled, SelfRecoveryBinds
  <1> QED
    BY <1>1, Inductive, PTL

-----------------------------------------------------------------------------
(* What no step does *)

\* No transfer is filed for a wallet that is RECOVERED.
LEMMA TransfersStep ==
  ASSUME TypeOK, [Next]_vars, wallet.state = "RECOVERED"
  PROVE  \A t \in Transfer: transfers[t] = "NONE" => transfers'[t] = "NONE"
  <1> DEFINE Ts == \A t \in Transfer: transfers[t] = "NONE" => transfers'[t] = "NONE"
  <1>1. ASSUME transfers' = transfers PROVE Ts
    BY <1>1
  <1>2. ASSUME NEW t \in Transfer, transfers[t] # "NONE", NEW s,
               transfers' = [transfers EXCEPT ![t] = s]
        PROVE  Ts
    BY <1>2 DEF TypeOK
  <1>3. ASSUME NEW r \in Request, NEW t \in Transfer, CancelOwnershipTransfer(r, t) PROVE Ts
    BY <1>2, <1>3 DEF CancelOwnershipTransfer
  <1>4. ASSUME RecoveryAction PROVE Ts
    BY <1>1, <1>3, <1>4 DEF RecoveryAction, SelfRecovery, SocialRecovery, TrusteeRecovery,
       CancelRecovery, HandleRecoveryExecuted, ExecuteOmbudsmanOrder, InitiateOwnershipTransfer
  <1>5. ASSUME OwnerAction PROVE Ts
    BY <1>1, <1>5 DEF OwnerAction, ActivateWallet, ChangeWalletPassword, VerifyWalletPassword,
       UpdateNominees, BindNewDevice, RevokeDevice, EmergencyFreeze
  <1>6. ASSUME NEW r \in Request, GoesOn(r) \/ Dies(r) PROVE Ts
    BY <1>1, <1>6 DEF GoesOn, RetiresDevices, BindsDevice, ClosesSelfRecovery, RecordsExecution,
       MarksRecovered, SavesWallet, RestoresWallet, Dies
  <1>7. ASSUME TimePasses PROVE Ts
    BY <1>1, <1>7 DEF TimePasses, LockElapses, DeviceCoolingElapses, CaseCoolingElapses
  <1>8. ASSUME AdminAction PROVE Ts
    BY <1>1, <1>2, <1>8 DEF AdminAction, SuspendWallet, UnsuspendWallet, UnlockWallet,
       ApproveRecovery, RejectRecovery, ExecuteRecovery, ApproveTransfer, RejectTransfer
  <1>9. CASE UNCHANGED vars
    BY <1>1, <1>9 DEF vars
  <1> QED
    BY <1>4, <1>5, <1>6, <1>7, <1>8, <1>9 DEF Next

\* While a wallet is RECOVERED nothing new is attached to it but the device of a
\* self-recovery that was under way.
THEOREM RecoveredSealed == Spec => RecoveredTakesNothingNew
  <1> DEFINE Sealed ==
        wallet.state = "RECOVERED" =>
          /\ \A c \in Case: cases[c] = Unfiled => cases'[c] = Unfiled
          /\ \A t \in Transfer: transfers[t] = "NONE" => transfers'[t] = "NONE"
          /\ \A d \in Device: devices[d] = Absent /\ devices'[d] # Absent =>
                \E r \in Request: At(r, "retired")
  <1>1. ASSUME IInv, [Next]_vars PROVE Sealed
    <2> SUFFICES ASSUME wallet.state = "RECOVERED" PROVE Sealed
      OBVIOUS
    <2>0. TypeOK /\ CasesKept /\ DeviceMoves
      BY <1>1, CasesStep, DeviceStep DEF IInv
    <2>1. \A c \in Case: cases[c] = Unfiled => cases'[c] = Unfiled
      BY <2>0 DEF CasesKept, Kept
    <2>2. \A t \in Transfer: transfers[t] = "NONE" => transfers'[t] = "NONE"
      BY <1>1, <2>0, TransfersStep
    <2>3. ASSUME NEW d \in Device, devices[d] = Absent, devices'[d] # Absent
          PROVE  \E r \in Request: At(r, "retired")
      <3>1. devices \in [Device -> DeviceRow] /\ RetireActive(devices)[d] = Absent
        BY <2>0, <2>3, RetireActiveRows DEF TypeOK
      <3>2. ASSUME NEW e \in Device, devices[e] # Absent,
                   \/ devices' = [devices EXCEPT ![e].state = "REVOKED"]
                   \/ devices' = [devices EXCEPT ![e].cooling = "elapsed"]
            PROVE  FALSE
        BY <2>3, <3>1, <3>2
      <3> QED
        BY <2>0, <2>3, <3>1, <3>2 DEF DeviceMoves
    <2> QED
      BY <2>1, <2>2, <2>3
  <1>2. IInv /\ [Next]_vars => [Sealed]_vars
    BY <1>1
  <1> QED
    BY <1>2, Inductive, PTL DEF Spec, RecoveredTakesNothingNew

\* A decided case is never open again nor cancelled, its execution and its path stay.
THEOREM DecisionsStand == Spec => DecidedStaysDecided
  <1> DEFINE Stands == \A c \in Case:
          /\ cases[c].status \in {"EXECUTED", "REJECTED"} =>
                cases'[c].status \in {"EXECUTED", "REJECTED", "APPROVED"}
          /\ cases[c].execTx => cases'[c].execTx
          /\ cases[c] # Unfiled => cases'[c].path = cases[c].path
  <1>1. IInv /\ [Next]_vars => [Stands]_vars
    BY CasesStep DEF CasesKept, Kept
  <1> QED
    BY <1>1, Inductive, PTL DEF Spec, DecidedStaysDecided

\* Only an activation brings in a device that can sign at once; a rebinding leaves
\* no other device ACTIVE; a retired or revoked device never signs again.
THEOREM RebindSafe == Spec => RebindCoolsOff
  <1> DEFINE Cools == \A d \in Device:
          /\ devices[d] = Absent /\ devices'[d] # Absent =>
                \/ /\ devices'[d].cooling = "running"
                   /\ \A e \in Device \ {d}:
                         devices'[e].state = "ACTIVE" => \E r \in Request: At(r, "retired")
                \/ wallet.state # "ACTIVATED" /\ wallet'.state = "ACTIVATED" /\ wallet'.password
          /\ devices[d].state \in {"RETIRED", "REVOKED"} => devices'[d].state # "ACTIVE"
  <1>1. ASSUME IInv, [Next]_vars PROVE Cools
    <2>0. /\ devices \in [Device -> DeviceRow] /\ DeviceMoves
          /\ RetireActive(devices) \in [Device -> DeviceRow]
          /\ \A d \in Device: /\ RetireActive(devices)[d].state # "ACTIVE"
                              /\ RetireActive(devices)[d] = Absent <=> devices[d] = Absent
          /\ Absent.state = "ABSENT"
          /\ \A m: BoundDevice(m).cooling = m
      BY <1>1, DeviceStep, RetireActiveRows DEF IInv, TypeOK, Absent, BoundDevice
    <2>1. CASE devices' = devices
      BY <2>1
    <2>2. CASE devices' = RetireActive(devices)
      BY <2>0, <2>2
    <2>3. ASSUME NEW e \in Device, devices[e] = Absent,
                 devices' = [devices EXCEPT ![e] = BoundDevice("none")],
                 wallet.state # "ACTIVATED", wallet'.state = "ACTIVATED", wallet'.password
          PROVE  Cools
      BY <2>0, <2>3
    <2>4. ASSUME NEW e \in Device, devices[e] = Absent,
                 devices' = [RetireActive(devices) EXCEPT ![e] = BoundDevice("running")]
          PROVE  Cools
      BY <2>0, <2>4
    <2>5. ASSUME NEW e \in Device, devices[e] = Absent,
                 devices' = [devices EXCEPT ![e] = BoundDevice("running")],
                 \E r \in Request: At(r, "retired")
          PROVE  Cools
      BY <2>0, <2>5
    <2>6. ASSUME NEW e \in Device, devices[e] # Absent,
                 \/ devices' = [devices EXCEPT ![e].state = "REVOKED"]
                 \/ devices' = [devices EXCEPT ![e].cooling = "elapsed"]
          PROVE  Cools
      BY <2>0, <2>6 DEF DeviceRow
    <2> HIDE DEF Cools
    <2> QED
      BY <2>0, <2>1, <2>2, <2>3, <2>4, <2>5, <2>6 DEF DeviceMoves
  <1>2. IInv /\ [Next]_vars => [Cools]_vars
    BY <1>1
  <1> QED
    BY <1>2, Inductive, PTL DEF Spec, RebindCoolsOff

=============================================================================
