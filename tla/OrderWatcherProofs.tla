-------------------------- MODULE OrderWatcherProofs --------------------------
(* Proofs about OrderWatcher, for any cases, chain, crashes, reorganisations   *)
(* and errors: no reorganisation takes away the order behind a decision; and   *)
(* while no save raises, the last order in block order is the one that counts. *)
EXTENDS OrderWatcher, SetTheorems, TLAPS

Block == Order \cup {Empty}
Decisive(block) == Approves(block) \/ block.disposition = "REJECT"
Reading == {"batch", "save_executed", "save_wallet"}

(* The watcher reads final blocks only, and the order it is at decides a case. *)
ReadsFinal ==
    /\ watcher.pc \in Reading => watcher.to <= final /\ watcher.next <= watcher.to + 1
    /\ watcher.pc \in {"save_executed", "save_wallet"} =>
          watcher.next <= watcher.to /\ Decisive(chain[watcher.next])

(* What is final has its confirmations. *)
FinalKeepsUp == Len(chain) <= MaxBlock /\ Len(chain) - Confirmations <= final

IInv == TypeOK /\ FinalKeepsUp /\ ReadsFinal /\ DecisionsAreFinal

-----------------------------------------------------------------------------
(* Blocks and orders *)

\* The larger of two numbers.
LEMMA MaxOfTwo ==
    ASSUME NEW a \in Int, NEW b \in Int
    PROVE  Max({a, b}) \in {a, b} /\ Max({a, b}) >= a /\ Max({a, b}) >= b
<1>1. \E x \in {a, b}: \A y \in {a, b}: x >= y
  OBVIOUS
<1>2. QED
  BY <1>1 DEF Max

\* An order that decides something is about a case.
LEMMA DecisiveOrder ==
    ASSUME NEW block \in Block, Decisive(block)
    PROVE  block \in Order /\ block.case \in Case
  BY DEF Block, Order, Empty, Decisive, Approves

\* A block of the chain is a block.
LEMMA BlockAt == ASSUME IInv, NEW n \in 1..Len(chain) PROVE chain[n] \in Block
  BY DEF IInv, TypeOK, Block

\* Numbers, once and for all.
LEMMA Numbers ==
    ASSUME IInv
    PROVE  /\ final \in Nat /\ final >= 1 /\ final <= Len(chain) /\ Len(chain) \in Nat
           /\ Len(chain) <= MaxBlock /\ Len(chain) - Confirmations <= final
           /\ MaxBlock \in Nat /\ Confirmations \in Nat
           /\ watcher.last \in 1..MaxBlock /\ watcher.to \in 1..MaxBlock /\ watcher.next \in 1..MaxBlock + 1
           /\ watcher = [pc |-> watcher.pc, last |-> watcher.last, to |-> watcher.to, next |-> watcher.next]
<1>1. chain \in Seq(Order \cup {Empty})
  BY DEF IInv, TypeOK
<1>2. Len(chain) \in Nat
  BY <1>1
<1>3. QED
  BY <1>2, WatcherConstants DEF IInv, TypeOK, FinalKeepsUp

\* One crash, reorganisation or error less is left.
LEMMA Spent ==
    ASSUME IInv,
           \/ budget.reorg > 0 /\ budget' = [budget EXCEPT !.reorg = @ - 1]
           \/ budget.crash > 0 /\ budget' = [budget EXCEPT !.crash = @ - 1]
           \/ budget.save > 0 /\ budget' = [budget EXCEPT !.save = @ - 1]
           \/ budget.store > 0 /\ budget' = [budget EXCEPT !.store = @ - 1]
    PROVE  budget' \in [reorg: Nat, crash: Nat, save: Nat, store: Nat]
<1>1. budget \in [reorg: Nat, crash: Nat, save: Nat, store: Nat]
  BY DEF IInv, TypeOK
<1>2. ASSUME NEW n \in Nat PROVE n > 0 => n - 1 \in Nat
  OBVIOUS
<1>3. /\ budget.reorg > 0 => budget.reorg - 1 \in Nat
      /\ budget.crash > 0 => budget.crash - 1 \in Nat
      /\ budget.save > 0 => budget.save - 1 \in Nat
      /\ budget.store > 0 => budget.store - 1 \in Nat
  BY <1>1, <1>2
<1>4. CASE budget.reorg > 0 /\ budget' = [budget EXCEPT !.reorg = budget.reorg - 1]
  BY <1>1, <1>3, <1>4
<1>5. CASE budget.crash > 0 /\ budget' = [budget EXCEPT !.crash = budget.crash - 1]
  BY <1>1, <1>3, <1>5
<1>6. CASE budget.save > 0 /\ budget' = [budget EXCEPT !.save = budget.save - 1]
  BY <1>1, <1>3, <1>6
<1>7. CASE budget.store > 0 /\ budget' = [budget EXCEPT !.store = budget.store - 1]
  BY <1>1, <1>3, <1>7
<1>8. QED
  BY <1>4, <1>5, <1>6, <1>7

\* The types that a step of the chain leaves alone, and those a step of a process does.
LEMMA TypesStay ==
    ASSUME IInv
    PROVE  /\ UNCHANGED <<cursor, watcher, cases, wallet, cancel, reached>>
                  /\ chain' \in Seq(Block) /\ final' \in 1..Len(chain')
                  /\ budget' \in [reorg: Nat, crash: Nat, save: Nat, store: Nat]
              => TypeOK'
           /\ UNCHANGED <<chain, final>> /\ cursor' \in 0..MaxBlock
                  /\ watcher' \in [pc: {"down"} \cup {"poll"} \cup Reading, last: 1..MaxBlock,
                                   to: 1..MaxBlock, next: 1..MaxBlock + 1]
                  /\ cases' \in [Case -> Closed \cup {"AWAITING_OMBUDSMAN", "APPROVED"}]
                  /\ wallet' \in {"RECOVERING", "ACTIVATED", "RECOVERED"}
                  /\ cancel' \in [Case -> {"none", "loaded", "saved", "done"}]
                  /\ reached' \in 1..MaxBlock
                  /\ budget' \in [reorg: Nat, crash: Nat, save: Nat, store: Nat]
              => TypeOK'
<1>1. {"down"} \cup {"poll"} \cup Reading = {"down", "poll", "batch", "save_executed", "save_wallet"}
  BY DEF Reading
<1>2. TypeOK
  BY DEF IInv
<1>3. ASSUME UNCHANGED <<cursor, watcher, cases, wallet, cancel, reached>>,
             chain' \in Seq(Block), final' \in 1..Len(chain'),
             budget' \in [reorg: Nat, crash: Nat, save: Nat, store: Nat]
      PROVE  TypeOK'
  BY <1>2, <1>3 DEF TypeOK, Block
<1>4. ASSUME UNCHANGED <<chain, final>>, cursor' \in 0..MaxBlock,
             watcher' \in [pc: {"down", "poll", "batch", "save_executed", "save_wallet"}, last: 1..MaxBlock,
                            to: 1..MaxBlock, next: 1..MaxBlock + 1],
             cases' \in [Case -> Closed \cup {"AWAITING_OMBUDSMAN", "APPROVED"}],
             wallet' \in {"RECOVERING", "ACTIVATED", "RECOVERED"},
             cancel' \in [Case -> {"none", "loaded", "saved", "done"}],
             reached' \in 1..MaxBlock,
             budget' \in [reorg: Nat, crash: Nat, save: Nat, store: Nat]
      PROVE  TypeOK'
  <2>1. chain' \in Seq(Block) /\ final' \in 1..Len(chain')
    BY <1>2, <1>4 DEF TypeOK, Block
  <2>2. QED
    BY <1>4, <2>1 DEF TypeOK, Block
<1>5. QED
  BY <1>1, <1>3, <1>4

\* While the final blocks stay, decisions keep their orders.
LEMMA DecisionsStay ==
    ASSUME IInv, final' \in Nat, final <= final', \A n \in 1..final: chain'[n] = chain[n],
           \A c \in Case: cases'[c] \in {"APPROVED", "EXECUTED", "REJECTED"} =>
               \/ cases[c] \in {"APPROVED", "EXECUTED", "REJECTED"}
               \/ \E n \in 1..final: Decisive(chain[n]) /\ chain[n].case = c
    PROVE  DecisionsAreFinal'
<1> SUFFICES ASSUME NEW c \in Case, cases'[c] \in {"APPROVED", "EXECUTED", "REJECTED"}
             PROVE  DecisiveFor({c}, final)' # {}
  BY DEF DecisionsAreFinal
<1>1. PICK n \in 1..final: Decisive(chain[n]) /\ chain[n].case = c
  BY DEF IInv, DecisionsAreFinal, DecisiveFor, Decisive
<1>2. n \in 1..final' /\ chain'[n] = chain[n]
  BY <1>1, Numbers
<1>3. n \in DecisiveFor({c}, final)'
  BY <1>1, <1>2 DEF DecisiveFor, Decisive, Approves
<1>4. QED
  BY <1>3

\* The first block is empty, and nothing is decided.
LEMMA Initially == Init => IInv
<1> SUFFICES ASSUME Init PROVE IInv
  OBVIOUS
<1>1. chain \in Seq(Order \cup {Empty}) /\ Len(chain) = 1 /\ final = 1
  BY DEF Init
<1>2. watcher \in [pc: {"down", "poll", "batch", "save_executed", "save_wallet"},
                   last: 1..MaxBlock, to: 1..MaxBlock, next: 1..MaxBlock + 1]
  BY WatcherConstants DEF Init
<1>3. cursor \in 0..MaxBlock /\ reached \in 1..MaxBlock
      /\ budget \in [reorg: Nat, crash: Nat, save: Nat, store: Nat]
  BY WatcherConstants DEF Init
<1>4. TypeOK
  BY <1>1, <1>2, <1>3 DEF Init, TypeOK, Closed
<1>5. FinalKeepsUp /\ ReadsFinal /\ DecisionsAreFinal
  BY <1>1, WatcherConstants DEF Init, FinalKeepsUp, ReadsFinal, Reading, DecisionsAreFinal
<1>6. QED
  BY <1>4, <1>5 DEF IInv

-----------------------------------------------------------------------------
(* The chain *)

\* The chain grows: final blocks stay where they are.
LEMMA MineKeeps == ASSUME IInv, NEW block \in Block, Mine(block) PROVE IInv'
<1>1. /\ chain' = Append(chain, block) /\ Len(chain) < MaxBlock
      /\ final' = Max({final, Len(chain) + 1 - Confirmations})
      /\ UNCHANGED <<cursor, watcher, cases, wallet, cancel, reached, budget>>
  BY DEF Mine
<1>2. chain \in Seq(Block)
  BY DEF IInv, TypeOK, Block
<1>3. /\ chain' \in Seq(Block) /\ Len(chain') = Len(chain) + 1
      /\ \A n \in 1..Len(chain): chain'[n] = chain[n]
  BY <1>1, <1>2
<1>4. final' \in Nat /\ final' >= final /\ final' <= Len(chain') /\ Len(chain') - Confirmations <= final'
  <2> DEFINE b == Len(chain) + 1 - Confirmations
  <2>1. final \in Int /\ b \in Int /\ b <= Len(chain) + 1
    BY Numbers
  <2>2. final' \in {final, b} /\ final' >= final /\ final' >= b
    BY <1>1, <2>1, MaxOfTwo
  <2>3. QED
    BY <1>3, <2>1, <2>2, Numbers
<1>5. TypeOK'
  <2>1. final' \in 1..Len(chain')
    BY <1>3, <1>4, Numbers
  <2>2. budget' \in [reorg: Nat, crash: Nat, save: Nat, store: Nat]
    BY <1>1 DEF IInv, TypeOK
  <2>3. QED
    BY <1>1, <1>3, <2>1, <2>2, TypesStay
<1>6. FinalKeepsUp'
  BY <1>1, <1>3, <1>4, Numbers DEF FinalKeepsUp
<1>7. ReadsFinal'
  <2>1. watcher.pc \in {"save_executed", "save_wallet"} =>
            watcher.next \in 1..Len(chain) /\ Decisive(chain[watcher.next])
    BY Numbers DEF IInv, ReadsFinal, Reading
  <2>2. watcher.pc \in {"save_executed", "save_wallet"} => Decisive(chain'[watcher.next])
    BY <1>3, <2>1
  <2>3. QED
    BY <1>1, <1>4, <2>2, Numbers DEF IInv, ReadsFinal, Reading, Decisive, Approves
<1>8. DecisionsAreFinal'
  BY <1>1, <1>3, <1>4, Numbers, DecisionsStay
<1>9. QED
  BY <1>5, <1>6, <1>7, <1>8 DEF IInv

\* The blocks after the final ones give way.
LEMMA ReorganiseKeeps == ASSUME IInv, Reorganise PROVE IInv'
<1>1. /\ chain' = SubSeq(chain, 1, final) /\ budget' = [budget EXCEPT !.reorg = @ - 1]
      /\ budget.reorg > 0
      /\ UNCHANGED <<final, cursor, watcher, cases, wallet, cancel, reached>>
  BY DEF Reorganise
<1>2. chain \in Seq(Block)
  BY DEF IInv, TypeOK, Block
<1>3. /\ chain' \in Seq(Block) /\ Len(chain') = final
      /\ \A n \in 1..final: chain'[n] = chain[n]
  BY <1>1, <1>2, Numbers
<1>4. budget' \in [reorg: Nat, crash: Nat, save: Nat, store: Nat]
  BY <1>1, Spent
<1>5. TypeOK'
  <2>1. final' \in 1..Len(chain')
    BY <1>1, <1>3, Numbers
  <2>2. QED
    BY <1>1, <1>3, <1>4, <2>1, TypesStay
<1>6. FinalKeepsUp'
  BY <1>1, <1>3, Numbers DEF FinalKeepsUp
<1>7. ReadsFinal'
  <2>1. watcher.pc \in {"save_executed", "save_wallet"} =>
            watcher.next \in 1..final /\ Decisive(chain[watcher.next])
    BY Numbers DEF IInv, ReadsFinal, Reading
  <2>2. watcher.pc \in {"save_executed", "save_wallet"} => Decisive(chain'[watcher.next])
    BY <1>3, <2>1
  <2>3. QED
    BY <1>1, <2>2, Numbers DEF IInv, ReadsFinal, Reading, Decisive, Approves
<1>8. DecisionsAreFinal'
  BY <1>1, <1>3, Numbers, DecisionsStay
<1>9. QED
  BY <1>5, <1>6, <1>7, <1>8 DEF IInv

-----------------------------------------------------------------------------
(* The watcher *)

WatcherState == [pc: {"down"} \cup {"poll"} \cup Reading, last: 1..MaxBlock, to: 1..MaxBlock,
                 next: 1..MaxBlock + 1]

\* Where a watcher may be in the chain.
Placed(w) ==
    /\ w.pc \in Reading => w.to <= final /\ w.next <= w.to + 1
    /\ w.pc \in {"save_executed", "save_wallet"} => w.next <= w.to /\ Decisive(chain[w.next])

\* The watcher's state, and the order it is at.
LEMMA WatcherTyped ==
    ASSUME IInv
    PROVE  /\ watcher \in WatcherState /\ Placed(watcher)
           /\ cursor \in 0..MaxBlock /\ reached \in 1..MaxBlock
           /\ watcher.pc \in Reading /\ watcher.next <= watcher.to =>
                 watcher.next \in 1..final /\ chain[watcher.next] \in Block
<1>1. watcher \in WatcherState
  BY DEF IInv, TypeOK, WatcherState, Reading
<1>2. Placed(watcher)
  BY DEF IInv, ReadsFinal, Placed
<1>3. ASSUME watcher.pc \in Reading, watcher.next <= watcher.to
      PROVE  watcher.next \in 1..final /\ chain[watcher.next] \in Block
  BY <1>2, <1>3, Numbers, BlockAt DEF Placed
<1>4. QED
  BY <1>1, <1>2, <1>3 DEF IInv, TypeOK

\* The watcher moves to another state, and may save a case, the wallet or the cursor.
LEMMA WatcherMoves ==
    ASSUME IInv, NEW w \in WatcherState, watcher' = w, Placed(w), UNCHANGED <<chain, final, cancel>>,
           cursor' \in 0..MaxBlock, reached' \in 1..MaxBlock,
           wallet' \in {"RECOVERING", "ACTIVATED", "RECOVERED"},
           budget' \in [reorg: Nat, crash: Nat, save: Nat, store: Nat],
           \/ UNCHANGED cases
           \/ \E n \in 1..final, status \in {"REJECTED", "APPROVED", "EXECUTED"}:
                 Decisive(chain[n]) /\ cases' = [cases EXCEPT ![chain[n].case] = status]
    PROVE  IInv'
<1>1. cases' \in [Case -> Closed \cup {"AWAITING_OMBUDSMAN", "APPROVED"}]
  BY DEF IInv, TypeOK, Closed
<1>2. TypeOK'
  BY <1>1, TypesStay DEF IInv, TypeOK, WatcherState
<1>3. ReadsFinal'
  BY DEF Placed, ReadsFinal, Decisive, Approves
<1>4. DecisionsAreFinal'
  <2>1. ASSUME NEW c \in Case, cases'[c] \in {"APPROVED", "EXECUTED", "REJECTED"}
        PROVE  \/ cases[c] \in {"APPROVED", "EXECUTED", "REJECTED"}
               \/ \E n \in 1..final: Decisive(chain[n]) /\ chain[n].case = c
    BY <2>1 DEF IInv, TypeOK
  <2>2. final' \in Nat /\ final <= final' /\ \A n \in 1..final: chain'[n] = chain[n]
    BY Numbers
  <2>3. QED
    BY <2>1, <2>2, DecisionsStay
<1>5. QED
  BY <1>2, <1>3, <1>4 DEF IInv, FinalKeepsUp

\* The watcher starts, polls and stores its cursor.
LEMMA LoopKeeps == ASSUME IInv, Start \/ Poll \/ Advance \/ AdvanceRaises PROVE IInv'
<1>1. /\ wallet \in {"RECOVERING", "ACTIVATED", "RECOVERED"}
      /\ budget \in [reorg: Nat, crash: Nat, save: Nat, store: Nat]
  BY DEF IInv, TypeOK
<1>2. CASE Start
  <2> DEFINE w == [watcher EXCEPT !.pc = "poll", !.last = IF cursor > 0 THEN cursor ELSE Len(chain)]
  <2>1. (IF cursor > 0 THEN cursor ELSE Len(chain)) \in 1..MaxBlock
    BY WatcherTyped, Numbers
  <2>2. w \in WatcherState /\ w.pc = "poll"
    BY <2>1, WatcherTyped DEF WatcherState
  <2>3. Placed(w)
    BY <2>2 DEF Placed, Reading
  <2>4. watcher' = w /\ UNCHANGED <<chain, final, cursor, cases, wallet, cancel, reached, budget>>
    BY <1>2 DEF Start
  <2> HIDE DEF w
  <2>5. QED
    BY <1>1, <2>2, <2>3, <2>4, WatcherTyped, WatcherMoves
<1>3. CASE Poll
  <2> DEFINE to == Len(chain) - Confirmations
             w == [watcher EXCEPT !.pc = "batch", !.to = to, !.next = watcher.last + 1]
  <2>1. to \in 1..MaxBlock /\ watcher.last + 1 \in 1..MaxBlock + 1 /\ to <= final /\ watcher.last + 1 <= to + 1
    BY <1>3, Numbers DEF Poll
  <2>2. watcher' = w /\ UNCHANGED <<chain, final, cursor, cases, wallet, cancel, reached, budget>>
    BY <1>3 DEF Poll
  <2> HIDE DEF to
  <2>3. w \in WatcherState /\ w.pc = "batch" /\ w.to = to /\ w.next = watcher.last + 1
    BY <2>1, WatcherTyped DEF WatcherState, Reading
  <2>4. Placed(w)
    BY <2>1, <2>3 DEF Placed
  <2> HIDE DEF w
  <2>5. QED
    BY <1>1, <2>2, <2>3, <2>4, WatcherTyped, WatcherMoves
<1>4. CASE Advance \/ AdvanceRaises
  <2> DEFINE w == [watcher EXCEPT !.pc = "poll", !.last = watcher.to]
  <2>1. w \in WatcherState /\ w.pc = "poll"
    BY WatcherTyped DEF WatcherState
  <2>2. Placed(w)
    BY <2>1 DEF Placed, Reading
  <2>3. watcher' = w /\ UNCHANGED <<chain, final, cases, wallet, cancel, reached>>
    BY <1>4 DEF Advance, AdvanceRaises
  <2>4. cursor' \in 0..MaxBlock
    BY <1>4, WatcherTyped, Numbers DEF Advance, AdvanceRaises
  <2>5. budget' \in [reorg: Nat, crash: Nat, save: Nat, store: Nat]
    BY <1>1, <1>4, Spent DEF Advance, AdvanceRaises
  <2> HIDE DEF w
  <2>6. QED
    BY <1>1, <2>1, <2>2, <2>3, <2>4, <2>5, WatcherTyped, WatcherMoves
<1>5. QED
  BY <1>2, <1>3, <1>4

\* One block on in the batch.
LEMMA OneOn ==
    ASSUME IInv, watcher.pc \in Reading, watcher.next <= watcher.to
    PROVE  /\ [watcher EXCEPT !.pc = "batch", !.next = watcher.next + 1] \in WatcherState
           /\ Placed([watcher EXCEPT !.pc = "batch", !.next = watcher.next + 1])
<1> DEFINE n == watcher.next + 1
           w == [watcher EXCEPT !.pc = "batch", !.next = n]
<1>1. n \in 1..MaxBlock + 1 /\ n <= watcher.to + 1 /\ watcher.to <= final
  BY Numbers, WatcherTyped DEF Placed
<1> HIDE DEF n
<1>2. w \in WatcherState /\ w.pc = "batch" /\ w.to = watcher.to /\ w.next = n
  BY <1>1, WatcherTyped DEF WatcherState, Reading
<1>3. Placed(w)
  BY <1>1, <1>2 DEF Placed
<1>4. QED
  BY <1>2, <1>3 DEF n

\* The watcher stays at its order, for the next of its saves.
LEMMA SameOrder ==
    ASSUME IInv, watcher.pc \in Reading, watcher.next <= watcher.to, Decisive(chain[watcher.next]),
           NEW pc \in {"save_executed", "save_wallet"}
    PROVE  /\ [watcher EXCEPT !.pc = pc] \in WatcherState
           /\ Placed([watcher EXCEPT !.pc = pc])
<1> DEFINE w == [watcher EXCEPT !.pc = pc]
<1>1. w \in WatcherState /\ w.pc = pc /\ w.to = watcher.to /\ w.next = watcher.next
  BY WatcherTyped DEF WatcherState, Reading
<1>2. watcher.to <= final /\ watcher.next <= watcher.to + 1
  BY WatcherTyped DEF Placed
<1>3. Placed(w)
  BY <1>1, <1>2 DEF Placed
<1>4. QED
  BY <1>1, <1>3

\* The first save of an order: a decision has a final order behind it.
LEMMA SaveDecisionKeeps == ASSUME IInv, SaveDecision PROVE IInv'
<1> DEFINE n == watcher.next
           order == chain[n]
<1>1. /\ watcher.pc = "batch" /\ watcher.pc \in Reading /\ n <= watcher.to
      /\ n \in 1..final /\ order \in Block /\ n \in 1..MaxBlock
  BY WatcherTyped, Numbers DEF SaveDecision, InBatch, Reading
<1>2. /\ reached' = Max({reached, n})
      /\ UNCHANGED <<chain, final, cursor, wallet, cancel, budget>>
  BY DEF SaveDecision
<1>3. reached' \in 1..MaxBlock
  <2>1. reached \in Int /\ n \in Int /\ reached \in 1..MaxBlock
    BY <1>1, WatcherTyped, Numbers
  <2>2. reached' \in {reached, n}
    BY <1>2, <2>1, MaxOfTwo
  <2>3. QED
    BY <1>1, <2>1, <2>2
<1>4. /\ wallet \in {"RECOVERING", "ACTIVATED", "RECOVERED"}
      /\ budget \in [reorg: Nat, crash: Nat, save: Nat, store: Nat]
      /\ cursor \in 0..MaxBlock
  BY DEF IInv, TypeOK
<1>5. CASE watcher' = [watcher EXCEPT !.next = @ + 1] /\ UNCHANGED cases
  <2> DEFINE w == [watcher EXCEPT !.pc = "batch", !.next = watcher.next + 1]
  <2>1. w \in WatcherState /\ Placed(w)
    BY <1>1, OneOn
  <2>2. watcher' = w
    BY <1>1, <1>5, WatcherTyped DEF WatcherState
  <2> HIDE DEF w
  <2>3. QED
    BY <1>2, <1>3, <1>4, <1>5, <2>1, <2>2, WatcherMoves
<1>6. ASSUME NEW pc \in {"save_executed", "save_wallet"}, NEW status \in {"REJECTED", "APPROVED"},
             watcher' = [watcher EXCEPT !.pc = pc], Decisive(order),
             cases' = [cases EXCEPT ![order.case] = status]
      PROVE  IInv'
  <2> DEFINE w == [watcher EXCEPT !.pc = pc]
  <2>1. w \in WatcherState /\ Placed(w)
    BY <1>1, <1>6, SameOrder
  <2> HIDE DEF w
  <2>2. \E m \in 1..final, s \in {"REJECTED", "APPROVED", "EXECUTED"}:
            Decisive(chain[m]) /\ cases' = [cases EXCEPT ![chain[m].case] = s]
    BY <1>1, <1>6
  <2>3. watcher' = w
    BY <1>6 DEF w
  <2>4. QED
    BY <1>2, <1>3, <1>4, <2>1, <2>2, <2>3, WatcherMoves
<1>7. QED
  BY <1>5, <1>6 DEF SaveDecision, OrderAt, Decisive

\* The later saves of an order.
LEMMA LaterSavesKeep == ASSUME IInv, SaveExecuted \/ SaveWallet PROVE IInv'
<1> DEFINE n == watcher.next
<1>1. /\ watcher.pc \in {"save_executed", "save_wallet"} /\ watcher.pc \in Reading
      /\ n <= watcher.to /\ n \in 1..final /\ Decisive(chain[n])
  BY WatcherTyped DEF SaveExecuted, SaveWallet, Reading, Placed
<1>2. /\ wallet \in {"RECOVERING", "ACTIVATED", "RECOVERED"} /\ cursor \in 0..MaxBlock
      /\ budget \in [reorg: Nat, crash: Nat, save: Nat, store: Nat] /\ reached \in 1..MaxBlock
  BY DEF IInv, TypeOK
<1>3. CASE SaveExecuted
  <2> DEFINE w == [watcher EXCEPT !.pc = "save_wallet"]
  <2>1. w \in WatcherState /\ Placed(w)
    BY <1>1, SameOrder
  <2>2. /\ watcher' = w /\ cases' = [cases EXCEPT ![chain[n].case] = "EXECUTED"]
        /\ UNCHANGED <<chain, final, cursor, wallet, cancel, reached, budget>>
    BY <1>3 DEF SaveExecuted, OrderAt
  <2> HIDE DEF w
  <2>3. QED
    BY <1>1, <1>2, <2>1, <2>2, WatcherMoves
<1>4. CASE SaveWallet
  <2> DEFINE w == [watcher EXCEPT !.pc = "batch", !.next = watcher.next + 1]
  <2>1. w \in WatcherState /\ Placed(w)
    BY <1>1, OneOn
  <2>2. /\ watcher' = w /\ wallet' \in {"RECOVERED", "ACTIVATED"}
        /\ UNCHANGED <<chain, final, cursor, cases, cancel, reached, budget>>
    BY <1>4 DEF SaveWallet
  <2> HIDE DEF w
  <2>3. QED
    BY <1>2, <2>1, <2>2, WatcherMoves
<1>5. QED
  BY <1>3, <1>4

\* The watcher crashes, or a save of it raises.
LEMMA FaultKeeps == ASSUME IInv, Crash \/ SaveRaises PROVE IInv'
<1>1. /\ wallet \in {"RECOVERING", "ACTIVATED", "RECOVERED"} /\ cursor \in 0..MaxBlock
      /\ reached \in 1..MaxBlock
  BY DEF IInv, TypeOK
<1>2. /\ budget' \in [reorg: Nat, crash: Nat, save: Nat, store: Nat]
      /\ UNCHANGED <<chain, final, cursor, cases, wallet, cancel, reached>>
  BY Spent DEF Crash, SaveRaises
<1>3. CASE Crash
  <2> DEFINE w == [watcher EXCEPT !.pc = "down"]
  <2>1. w \in WatcherState /\ w.pc = "down"
    BY WatcherTyped DEF WatcherState
  <2>2. Placed(w)
    BY <2>1 DEF Placed, Reading
  <2>3. watcher' = w
    BY <1>3 DEF Crash
  <2> HIDE DEF w
  <2>4. QED
    BY <1>1, <1>2, <2>1, <2>2, <2>3, WatcherMoves
<1>4. CASE SaveRaises
  <2> DEFINE w == [watcher EXCEPT !.pc = "batch", !.next = watcher.next + 1]
  <2>1. watcher.pc \in Reading /\ watcher.next <= watcher.to
    BY <1>4, WatcherTyped DEF SaveRaises, InBatch, Placed, Reading
  <2>2. w \in WatcherState /\ Placed(w)
    BY <2>1, OneOn
  <2>3. watcher' = w
    BY <1>4 DEF SaveRaises
  <2> HIDE DEF w
  <2>4. QED
    BY <1>1, <1>2, <2>2, <2>3, WatcherMoves
<1>5. QED
  BY <1>3, <1>4

-----------------------------------------------------------------------------
(* The owner, and the theorems *)

\* A cancellation decides nothing by itself.
LEMMA CancelKeeps ==
    ASSUME IInv, NEW c \in Case, CancelLoads(c) \/ CancelSavesCase(c) \/ CancelSavesWallet(c) \/ CancelDies(c)
    PROVE  IInv'
<1>1. /\ UNCHANGED <<chain, final, cursor, watcher, reached>>
      /\ cases' \in [Case -> Closed \cup {"AWAITING_OMBUDSMAN", "APPROVED"}]
      /\ \A d \in Case: cases'[d] \in {cases[d], "CANCELLED"}
      /\ wallet' \in {"RECOVERING", "ACTIVATED", "RECOVERED"}
      /\ cancel' \in [Case -> {"none", "loaded", "saved", "done"}]
  BY DEF CancelLoads, CancelSavesCase, CancelSavesWallet, CancelDies, IInv, TypeOK, Closed
<1>2. budget' \in [reorg: Nat, crash: Nat, save: Nat, store: Nat]
  <2>1. budget' = budget \/ (budget.crash > 0 /\ budget' = [budget EXCEPT !.crash = @ - 1])
    BY DEF CancelLoads, CancelSavesCase, CancelSavesWallet, CancelDies
  <2>2. QED
    BY <2>1, Spent DEF IInv, TypeOK
<1>3. TypeOK'
  BY <1>1, <1>2, WatcherTyped, TypesStay DEF WatcherState
<1>4. ReadsFinal' /\ FinalKeepsUp'
  BY <1>1 DEF IInv, ReadsFinal, FinalKeepsUp, Decisive, Approves
<1>5. DecisionsAreFinal'
  <2>1. final' \in Nat /\ final <= final' /\ \A n \in 1..final: chain'[n] = chain[n]
    BY <1>1, Numbers
  <2>2. ASSUME NEW d \in Case, cases'[d] \in {"APPROVED", "EXECUTED", "REJECTED"}
        PROVE  cases[d] \in {"APPROVED", "EXECUTED", "REJECTED"}
    BY <1>1, <2>2
  <2>3. QED
    BY <2>1, <2>2, DecisionsStay
<1>6. QED
  BY <1>3, <1>4, <1>5 DEF IInv

\* Every step keeps the inductive invariant.
LEMMA NextKeeps == IInv /\ [Next]_vars => IInv'
<1> SUFFICES ASSUME IInv, [Next]_vars PROVE IInv'
  OBVIOUS
<1>1. CASE ChainGrows \/ Reorganise
  BY <1>1, MineKeeps, ReorganiseKeeps DEF ChainGrows, Block
<1>2. CASE WatcherStep \/ AdvanceRaises
  BY <1>2, LoopKeeps, SaveDecisionKeeps, LaterSavesKeep DEF WatcherStep
<1>3. CASE Crash \/ SaveRaises
  BY <1>3, FaultKeeps
<1>4. CASE \E c \in Cancellable: CancelLoads(c) \/ CancelSavesCase(c) \/ CancelSavesWallet(c) \/ CancelDies(c)
  BY <1>4, CancelKeeps, WatcherConstants
<1>5. CASE Sleep \/ UNCHANGED vars
  <2>1. UNCHANGED <<chain, final, cursor, watcher, cases, wallet, cancel, reached, budget>>
    BY <1>5 DEF Sleep, vars
  <2>2. TypeOK'
    BY <2>1 DEF IInv, TypeOK
  <2>3. FinalKeepsUp' /\ ReadsFinal'
    BY <2>1 DEF IInv, FinalKeepsUp, ReadsFinal, Decisive, Approves
  <2>4. DecisionsAreFinal'
    BY <2>1 DEF IInv, DecisionsAreFinal, DecisiveFor, Approves
  <2>5. QED
    BY <2>2, <2>3, <2>4 DEF IInv
<1>6. QED
  BY <1>1, <1>2, <1>3, <1>4, <1>5 DEF Next

\* IInv is an invariant of every behaviour of chain, watcher and owner.
THEOREM Inductive == Spec => []IInv
  BY Initially, NextKeeps, PTL DEF Spec

\* The variables keep their types; a watcher's positions stay in the chain
\* (watch_ombudsman_orders.py).
THEOREM TypeCorrect == Spec => []TypeOK
<1>1. IInv => TypeOK
  BY DEF IInv
<1>2. QED
  BY Inductive, <1>1, PTL

\* Whatever crashes, reorganisations and errors: the order behind a decision is never
\* reorganised away (watch_ombudsman_orders.py --confirmations).
THEOREM DecisionsFinal == Spec => []DecisionsAreFinal
<1>1. IInv => DecisionsAreFinal
  BY DEF IInv
<1>2. QED
  BY Inductive, <1>1, PTL

-----------------------------------------------------------------------------
(* The last order wins *)

\* s is what the orders up to p leave behind, unless a later one was started.
Settles(group, s, p, started, none, approved, rejected) ==
    DecisiveFor(group, started) \subseteq 1..p => s = Outcome(group, p, none, approved, rejected)

\* Orders that are replayed are told apart by how far the saves have come.
CaseDone == CASE watcher.pc = "down" -> cursor
              [] watcher.pc = "poll" -> watcher.last
              [] watcher.pc = "save_wallet" -> watcher.next
              [] OTHER -> watcher.next - 1
WalletDone == CASE watcher.pc = "down" -> cursor
                [] watcher.pc = "poll" -> watcher.last
                [] OTHER -> watcher.next - 1

CaseSettles(c, p, started) ==
    \/ cancel[c] # "none" /\ cases[c] = "CANCELLED"
    \/ Settles({c}, cases[c], p, started, "AWAITING_OMBUDSMAN", "EXECUTED", "REJECTED")
WalletSettles(p, started) ==
    NoCancel => Settles(Case, wallet, p, started, "RECOVERING", "RECOVERED", "ACTIVATED")

\* The cursor is behind what was started, and what was started is final.
InStep ==
    /\ 1 <= cursor /\ cursor <= reached /\ reached <= final
    /\ watcher.pc = "poll" => cursor <= watcher.last /\ watcher.last <= reached
    /\ watcher.pc \in Reading => cursor < watcher.next /\ watcher.next - 1 <= reached
    /\ watcher.pc \in {"save_executed", "save_wallet"} => watcher.next <= reached
    /\ watcher.pc = "save_executed" => Approves(chain[watcher.next])

(* The inductive invariant: every case and the wallet are settled as far as    *)
(* the saves have come; what a replay has still to pass is not claimed.        *)
Ordered ==
    /\ budget.save <= MaxFailure
    /\ NoSaveRaised => /\ InStep
                       /\ \A c \in Case: CaseSettles(c, CaseDone, reached)
                       /\ WalletSettles(WalletDone, reached)

\* A block that decides for the group settles it.
LEMMA Decides ==
    ASSUME NEW group, NEW n \in Nat, n >= 1, Decisive(chain[n]), chain[n].case \in group,
           NEW none, NEW approved, NEW rejected, NEW started
    PROVE  Settles(group, IF Approves(chain[n]) THEN approved ELSE rejected, n, started,
                   none, approved, rejected)
<1> DEFINE D == DecisiveFor(group, n)
<1>1. n \in D /\ D \subseteq 1..n
  BY DEF DecisiveFor, Decisive
<1> HIDE DEF D
<1>2. Max(D) \in 1..n /\ Max(D) >= n
  BY <1>1, MaxIsIn
<1>3. Max(D) = n
  BY <1>2
<1>4. QED
  BY <1>1, <1>3 DEF Settles, Outcome, D

\* While an order that was started has not been passed nothing is claimed.
LEMMA Undecided ==
    ASSUME NEW group, NEW n \in Nat, n >= 1, Decisive(chain[n]), chain[n].case \in group,
           NEW started \in Nat, n <= started, NEW s, NEW none, NEW approved, NEW rejected
    PROVE  Settles(group, s, n - 1, started, none, approved, rejected)
<1>1. n \in DecisiveFor(group, started) /\ n \notin 1..(n - 1)
  BY DEF DecisiveFor, Decisive
<1>2. QED
  BY <1>1 DEF Settles

\* A block that does not decide for the group is passed.
LEMMA Passes ==
    ASSUME NEW group, NEW n \in Nat, n >= 1, ~ (Decisive(chain[n]) /\ chain[n].case \in group),
           NEW started, NEW s, NEW none, NEW approved, NEW rejected,
           Settles(group, s, n - 1, started, none, approved, rejected)
    PROVE  Settles(group, s, n, started, none, approved, rejected)
<1>1. n \notin DecisiveFor(group, started)
  BY DEF DecisiveFor, Decisive
<1>2. 1..n = 1..(n - 1) \cup {n} /\ n \notin 1..(n - 1)
  OBVIOUS
<1>3. DecisiveFor(group, n) = DecisiveFor(group, n - 1)
  BY <1>2 DEF DecisiveFor, Decisive
<1>4. DecisiveFor(group, started) \subseteq 1..n => DecisiveFor(group, started) \subseteq 1..(n - 1)
  BY <1>1, <1>2
<1>5. QED
  BY <1>3, <1>4 DEF Settles, Outcome

\* Starting more orders claims less, and so does going back to an earlier block.
LEMMA Weaker ==
    ASSUME NEW group, NEW p \in Nat, NEW q \in Nat, q <= p,
           NEW started \in Nat, NEW more \in Nat, p <= started, started <= more,
           NEW s, NEW none, NEW approved, NEW rejected,
           Settles(group, s, p, started, none, approved, rejected)
    PROVE  Settles(group, s, q, more, none, approved, rejected)
<1> SUFFICES ASSUME DecisiveFor(group, more) \subseteq 1..q
             PROVE  s = Outcome(group, q, none, approved, rejected)
  BY DEF Settles
<1>1. 1..q \subseteq 1..p /\ 1..p \subseteq 1..started /\ 1..started \subseteq 1..more
  OBVIOUS
<1>2. DecisiveFor(group, started) \subseteq 1..p
  BY <1>1 DEF DecisiveFor
<1>3. DecisiveFor(group, p) = DecisiveFor(group, q)
  BY <1>1 DEF DecisiveFor
<1>4. QED
  BY <1>2, <1>3 DEF Settles, Outcome

\* Blocks that stay in the chain mean what they meant.
LEMMA SettlesStays ==
    ASSUME NEW n \in Nat, \A i \in 1..n: chain'[i] = chain[i],
           NEW group, NEW s, NEW p \in Nat, p <= n, NEW started \in Nat, started <= n,
           NEW none, NEW approved, NEW rejected
    PROVE  Settles(group, s, p, started, none, approved, rejected)'
             <=> Settles(group, s, p, started, none, approved, rejected)
<1>1. ASSUME NEW m \in Nat, m <= n PROVE DecisiveFor(group, m)' = DecisiveFor(group, m)
  BY <1>1 DEF DecisiveFor, Approves
<1>2. ASSUME DecisiveFor(group, p) # {}
      PROVE  chain'[Max(DecisiveFor(group, p))] = chain[Max(DecisiveFor(group, p))]
  <2> DEFINE D == DecisiveFor(group, p)
  <2>1. D \subseteq 1..p /\ D # {}
    BY <1>2 DEF DecisiveFor
  <2> HIDE DEF D
  <2>2. Max(D) \in 1..p
    BY <2>1, MaxIsIn
  <2>3. QED
    BY <2>2 DEF D
<1>3. Outcome(group, p, none, approved, rejected)' = Outcome(group, p, none, approved, rejected)
  BY <1>1, <1>2 DEF Outcome, Approves
<1>4. QED
  BY <1>1, <1>3 DEF Settles

\* Numbers of the positions that the invariant speaks of.
LEMMA Positions ==
    ASSUME IInv, Ordered, NoSaveRaised
    PROVE  /\ InStep /\ \A c \in Case: CaseSettles(c, CaseDone, reached)
           /\ WalletSettles(WalletDone, reached)
           /\ cursor \in Nat /\ reached \in Nat /\ final \in Nat /\ watcher.next \in Nat /\ watcher.last \in Nat
           /\ CaseDone \in Nat /\ cursor <= CaseDone /\ CaseDone <= reached
           /\ WalletDone \in Nat /\ cursor <= WalletDone /\ WalletDone <= reached
           /\ watcher.pc \in {"down", "poll", "batch", "save_executed", "save_wallet"}
           /\ budget.save = MaxFailure /\ MaxFailure \in Nat
<1>1. InStep
  BY DEF Ordered
<1>2. /\ cursor \in Nat /\ reached \in Nat /\ final \in Nat /\ watcher.next \in Nat /\ watcher.next >= 1
      /\ watcher.last \in Nat
      /\ watcher.pc \in {"down", "poll", "batch", "save_executed", "save_wallet"}
  BY WatcherTyped, Numbers DEF WatcherState, Reading
<1>3. CaseDone \in Nat /\ cursor <= CaseDone /\ CaseDone <= reached
  BY <1>1, <1>2 DEF CaseDone, InStep, Reading
<1>4. WalletDone \in Nat /\ cursor <= WalletDone /\ WalletDone <= reached
  BY <1>1, <1>2 DEF WalletDone, InStep, Reading
<1>5. QED
  BY <1>1, <1>2, <1>3, <1>4, WatcherConstants DEF Ordered, NoSaveRaised

\* What a step of a process has to show.
LEMMA OrderedMoves ==
    ASSUME chain' = chain, budget'.save <= MaxFailure, InStep',
           NEW p, NEW q, NEW R, p = CaseDone', q = WalletDone', R = reached',
           \A c \in Case:
              \/ cancel'[c] # "none" /\ cases'[c] = "CANCELLED"
              \/ Settles({c}, cases'[c], p, R, "AWAITING_OMBUDSMAN", "EXECUTED", "REJECTED"),
           NoCancel' => Settles(Case, wallet', q, R, "RECOVERING", "RECOVERED", "ACTIVATED")
    PROVE  Ordered'
<1>1. ASSUME NEW c \in Case PROVE CaseSettles(c, p, R)'
  <2>1. CaseSettles(c, p, R)' <=>
          \/ cancel'[c] # "none" /\ cases'[c] = "CANCELLED"
          \/ Settles({c}, cases[c], p, R, "AWAITING_OMBUDSMAN", "EXECUTED", "REJECTED")'
    BY DEF CaseSettles
  <2>2. Settles({c}, cases[c], p, R, "AWAITING_OMBUDSMAN", "EXECUTED", "REJECTED")'
          <=> Settles({c}, cases'[c], p, R, "AWAITING_OMBUDSMAN", "EXECUTED", "REJECTED")
    BY DEF Settles, Outcome, DecisiveFor, Approves
  <2>3. QED
    BY <2>1, <2>2
<1>2. WalletSettles(q, R)'
  BY DEF WalletSettles, Settles, Outcome, DecisiveFor, Approves
<1>3. (\A c \in Case: CaseSettles(c, CaseDone, reached))'
  BY <1>1
<1>4. WalletSettles(WalletDone, reached)'
  BY <1>2
<1>5. QED
  BY <1>3, <1>4 DEF Ordered

\* A step that leaves cases and wallet alone, and the watcher at most further back.
LEMMA OrderedStays ==
    ASSUME IInv, Ordered, NoSaveRaised, UNCHANGED <<chain, cases, wallet, cancel, reached>>,
           budget'.save = budget.save, InStep',
           CaseDone' \in Nat, CaseDone' <= CaseDone, WalletDone' \in Nat, WalletDone' <= WalletDone
    PROVE  Ordered'
<1>1. PICK p, q, r, t, R: p = CaseDone' /\ q = WalletDone' /\ r = CaseDone /\ t = WalletDone /\ R = reached
  OBVIOUS
<1>2. p \in Nat /\ q \in Nat /\ r \in Nat /\ t \in Nat /\ R \in Nat /\ p <= r /\ q <= t /\ r <= R /\ t <= R /\ R <= R
  BY <1>1, Positions
<1>3. ASSUME NEW c \in Case
      PROVE  \/ cancel'[c] # "none" /\ cases'[c] = "CANCELLED"
             \/ Settles({c}, cases'[c], p, R, "AWAITING_OMBUDSMAN", "EXECUTED", "REJECTED")
  <2>1. CaseSettles(c, r, R)
    BY <1>1, Positions
  <2>2. QED
    BY <1>2, <2>1, Weaker DEF CaseSettles
<1>4. NoCancel' => Settles(Case, wallet', q, R, "RECOVERING", "RECOVERED", "ACTIVATED")
  <2>1. WalletSettles(t, R)
    BY <1>1, Positions
  <2>2. QED
    BY <1>2, <2>1, Weaker DEF WalletSettles, NoCancel
<1>5. budget'.save <= MaxFailure /\ R = reached'
  BY <1>1, Positions
<1>6. QED
  BY <1>1, <1>3, <1>4, <1>5, OrderedMoves

\* The watcher starts, polls, stores its cursor, fails to, or dies.
LEMMA LoopOrdered ==
    ASSUME IInv, Ordered, NoSaveRaised, Start \/ Poll \/ Advance \/ AdvanceRaises \/ Crash
    PROVE  Ordered'
<1>1. UNCHANGED <<chain, final, cases, wallet, cancel, reached>>
  BY DEF Start, Poll, Advance, AdvanceRaises, Crash
<1>2. budget'.save = budget.save
  BY DEF Start, Poll, Advance, AdvanceRaises, Crash, IInv, TypeOK
<1>3. /\ cursor' \in Nat /\ InStep'
      /\ CaseDone' \in Nat /\ CaseDone' <= CaseDone /\ WalletDone' \in Nat /\ WalletDone' <= WalletDone
  <2>1. CASE Start
    <3>1. watcher.pc = "down" /\ watcher'.pc = "poll" /\ watcher'.last = cursor /\ cursor' = cursor
      BY <2>1, Positions, Numbers DEF Start, InStep
    <3>2. QED
      BY <1>1, <3>1, Positions DEF InStep, CaseDone, WalletDone, Reading
  <2>2. CASE Poll
    <3>1. watcher.pc = "poll" /\ watcher'.pc = "batch" /\ watcher'.next = watcher.last + 1 /\ cursor' = cursor
      BY <2>2, Numbers DEF Poll
    <3>2. QED
      BY <1>1, <3>1, Positions DEF InStep, CaseDone, WalletDone, Reading
  <2>3. CASE Advance \/ AdvanceRaises
    <3>1. watcher.pc = "batch" /\ watcher.next > watcher.to /\ watcher.next <= watcher.to + 1
      BY <2>3, WatcherTyped DEF Advance, AdvanceRaises, Placed, Reading
    <3>2. watcher'.pc = "poll" /\ watcher'.last = watcher.to
      BY <2>3, WatcherTyped DEF Advance, AdvanceRaises, WatcherState
    <3>3. watcher.to \in Nat /\ watcher.next = watcher.to + 1
      BY <3>1, Numbers
    <3>4. cursor' \in {cursor, watcher.to}
      BY <2>3 DEF Advance, AdvanceRaises
    <3>5. QED
      BY <1>1, <3>1, <3>2, <3>4, <3>3, Positions DEF InStep, CaseDone, WalletDone, Reading
  <2>4. CASE Crash
    <3>1. watcher'.pc = "down" /\ cursor' = cursor
      BY <2>4, Numbers DEF Crash
    <3>2. QED
      BY <1>1, <3>1, Positions DEF InStep, CaseDone, WalletDone, Reading
  <2>5. QED
    BY <2>1, <2>2, <2>3, <2>4
<1>4. QED
  BY <1>1, <1>2, <1>3, OrderedStays

\* The owner cancels, or the request dies.
LEMMA CancelOrdered ==
    ASSUME IInv, Ordered, NoSaveRaised, NEW d \in Case,
           CancelLoads(d) \/ CancelSavesCase(d) \/ CancelSavesWallet(d) \/ CancelDies(d)
    PROVE  Ordered'
<1>1. /\ UNCHANGED <<chain, final, cursor, watcher, reached>> /\ budget'.save = budget.save
      /\ cancel' \in [Case -> {"none", "loaded", "saved", "done"}] /\ cancel'[d] # "none"
      /\ \A c \in Case \ {d}: cancel'[c] = cancel[c]
      /\ \A c \in Case: cancel[c] # "none" => cancel'[c] # "none"
  BY DEF CancelLoads, CancelSavesCase, CancelSavesWallet, CancelDies, IInv, TypeOK
<1>2. \A c \in Case: cases'[c] = cases[c] \/ (cases'[c] = "CANCELLED" /\ cancel'[c] # "none")
  BY <1>1 DEF CancelLoads, CancelSavesCase, CancelSavesWallet, CancelDies, IInv, TypeOK
<1>3. InStep' /\ CaseDone' = CaseDone /\ WalletDone' = WalletDone /\ budget'.save <= MaxFailure
  BY <1>1, Positions DEF InStep, CaseDone, WalletDone, Approves
<1>4. ~ NoCancel'
  BY <1>1 DEF NoCancel
<1>5. PICK p, q, R: p = CaseDone /\ q = WalletDone /\ R = reached
  OBVIOUS
<1>6. ASSUME NEW c \in Case
      PROVE  \/ cancel'[c] # "none" /\ cases'[c] = "CANCELLED"
             \/ Settles({c}, cases'[c], p, R, "AWAITING_OMBUDSMAN", "EXECUTED", "REJECTED")
  <2>1. CaseSettles(c, p, R)
    BY <1>5, Positions
  <2>2. QED
    BY <1>1, <1>2, <2>1 DEF CaseSettles
<1>7. QED
  BY <1>1, <1>3, <1>4, <1>5, <1>6, OrderedMoves

\* A case that the order is not about goes on to the next block, or waits.
LEMMA Bystander ==
    ASSUME UNCHANGED cancel, NEW c, cases'[c] = cases[c],
           NEW n \in Nat, n >= 1, ~ (Decisive(chain[n]) /\ chain[n].case = c),
           NEW p \in Nat, NEW R \in Nat, CaseSettles(c, p, R), p \in {n - 1, n}, p <= R,
           NEW q \in {p, n}, NEW r \in Nat, R <= r
    PROVE  \/ cancel'[c] # "none" /\ cases'[c] = "CANCELLED"
           \/ Settles({c}, cases'[c], q, r, "AWAITING_OMBUDSMAN", "EXECUTED", "REJECTED")
<1> SUFFICES ASSUME ~ (cancel'[c] # "none" /\ cases'[c] = "CANCELLED")
             PROVE  Settles({c}, cases[c], q, r, "AWAITING_OMBUDSMAN", "EXECUTED", "REJECTED")
  OBVIOUS
<1>1. Settles({c}, cases[c], p, R, "AWAITING_OMBUDSMAN", "EXECUTED", "REJECTED")
  BY DEF CaseSettles
<1>2. Settles({c}, cases[c], p, r, "AWAITING_OMBUDSMAN", "EXECUTED", "REJECTED")
  BY <1>1, Weaker
<1>3. QED
  BY <1>2, Passes

\* The saves of an order: what each leaves to be done.
LEMMA SavesOrdered ==
    ASSUME IInv, Ordered, NoSaveRaised, SaveDecision \/ SaveExecuted \/ SaveWallet
    PROVE  Ordered'
<1> DEFINE n == watcher.next
           order == chain[n]
<1>1. /\ UNCHANGED <<chain, final, cursor, cancel, budget>> /\ budget'.save <= MaxFailure
      /\ n \in Nat /\ n >= 1 /\ n <= final /\ order \in Block /\ watcher.pc \in Reading
  <2>1. UNCHANGED <<chain, final, cursor, cancel, budget>> /\ budget'.save <= MaxFailure
    BY Positions DEF SaveDecision, SaveExecuted, SaveWallet
  <2>2. watcher.pc \in Reading /\ (watcher.pc = "batch" => watcher.next <= watcher.to)
    BY DEF SaveDecision, SaveExecuted, SaveWallet, InBatch, Reading
  <2>3. watcher.next <= watcher.to
    BY <2>2, WatcherTyped DEF Placed, Reading
  <2>4. n \in 1..final /\ order \in Block
    BY <2>2, <2>3, WatcherTyped
  <2>5. QED
    BY <2>1, <2>2, <2>4, Numbers
<1>2. PICK p, q, R, r: p = CaseDone /\ q = WalletDone /\ R = reached /\ r = reached'
  OBVIOUS
<1>3. PICK m: m = n
  OBVIOUS
<1>4. /\ \A c \in Case: CaseSettles(c, p, R)
      /\ WalletSettles(q, R)
      /\ p \in Nat /\ q \in Nat /\ R \in Nat /\ p <= R /\ q <= R
  BY <1>2, Positions
<1>5. q = m - 1 /\ (watcher.pc # "save_wallet" => p = m - 1) /\ (watcher.pc = "save_wallet" => p = m)
  BY <1>1, <1>2, <1>3 DEF CaseDone, WalletDone, Reading
<1>6. r \in Nat /\ R <= r /\ (SaveDecision => r >= m) /\ (~ SaveDecision => r = R) /\ r <= final
  <2>1. CASE SaveDecision
    <3>1. r = Max({R, m}) /\ R \in Int /\ m \in Int /\ m <= final /\ R <= final
      BY <1>1, <1>2, <1>3, <1>4, <2>1, Positions DEF SaveDecision, InStep
    <3>2. r \in {R, m} /\ r >= R /\ r >= m
      BY <3>1, MaxOfTwo
    <3>3. QED
      BY <1>1, <1>3, <1>4, <2>1, <3>1, <3>2
  <2>2. CASE ~ SaveDecision
    <3>1. r = R
      BY <1>2, <2>2 DEF SaveExecuted, SaveWallet
    <3>2. QED
      BY <1>2, <1>4, <2>2, <3>1, Positions DEF InStep
  <2>3. QED
    BY <2>1, <2>2
<1>7. InStep /\ order = chain[m] /\ m \in Nat /\ m >= 1 /\ p \in {m - 1, m}
  BY <1>1, <1>3, <1>5, Positions
<1>8. Decisive(order) => order \in Order /\ order.case \in Case
  BY <1>1, DecisiveOrder
<1> HIDE DEF n, order
<1>9. CASE SaveDecision /\ ~ Decisive(order)
  <2>1. UNCHANGED <<cases, wallet>> /\ watcher'.pc = "batch" /\ watcher'.next = m + 1
    BY <1>3, <1>9, WatcherTyped DEF SaveDecision, InBatch, Decisive, Approves, OrderAt, order, n, WatcherState
  <2>2. m = CaseDone' /\ m = WalletDone' /\ InStep'
    BY <1>1, <1>2, <1>3, <1>6, <1>7, <1>9, <2>1, Positions DEF CaseDone, WalletDone, InStep, Reading
  <2>3. ASSUME NEW c \in Case
        PROVE  \/ cancel'[c] # "none" /\ cases'[c] = "CANCELLED"
               \/ Settles({c}, cases'[c], m, r, "AWAITING_OMBUDSMAN", "EXECUTED", "REJECTED")
    BY <1>1, <1>4, <1>6, <1>7, <1>9, <2>1, Bystander
  <2>4. NoCancel' => Settles(Case, wallet', m, r, "RECOVERING", "RECOVERED", "ACTIVATED")
    <3> SUFFICES ASSUME NoCancel
                 PROVE  Settles(Case, wallet, m, r, "RECOVERING", "RECOVERED", "ACTIVATED")
      BY <1>1, <2>1 DEF NoCancel
    <3>1. Settles(Case, wallet, q, R, "RECOVERING", "RECOVERED", "ACTIVATED")
      BY <1>4 DEF WalletSettles
    <3>2. Settles(Case, wallet, q, r, "RECOVERING", "RECOVERED", "ACTIVATED")
      BY <1>4, <1>6, <3>1, Weaker
    <3>3. QED
      BY <1>5, <1>7, <1>9, <3>2, Passes
  <2>5. QED
    BY <1>1, <1>2, <2>2, <2>3, <2>4, OrderedMoves
<1>10. ASSUME Decisive(order), NEW status, NEW s \in {m - 1, m},
              cases' = [cases EXCEPT ![order.case] = status],
              s = m => status = IF Approves(order) THEN "EXECUTED" ELSE "REJECTED",
              m <= r, UNCHANGED wallet, s = CaseDone', q = WalletDone', InStep',
              s \in {p, m}
       PROVE  Ordered'
  <2>1. ASSUME NEW c \in Case
        PROVE  \/ cancel'[c] # "none" /\ cases'[c] = "CANCELLED"
               \/ Settles({c}, cases'[c], s, r, "AWAITING_OMBUDSMAN", "EXECUTED", "REJECTED")
    <3>1. CASE c # order.case
      <4>1. cases'[c] = cases[c]
        BY <1>10, <3>1 DEF IInv, TypeOK
      <4>2. QED
        <5>1. UNCHANGED cancel /\ CaseSettles(c, p, R) /\ ~ (Decisive(chain[m]) /\ chain[m].case = c)
          BY <1>1, <1>4, <1>7, <3>1
        <5>2. m \in Nat /\ m >= 1 /\ p \in Nat /\ R \in Nat /\ r \in Nat /\ p <= R /\ R <= r
          BY <1>4, <1>6, <1>7
        <5>3. p \in {m - 1, m} /\ s \in {p, m}
          BY <1>7, <1>10
        <5>4. QED
          BY <4>1, <5>1, <5>2, <5>3, Bystander
    <3>2. CASE c = order.case /\ s = m
      <4>1. cases'[c] = IF Approves(chain[m]) THEN "EXECUTED" ELSE "REJECTED"
        BY <1>7, <1>10, <3>2 DEF IInv, TypeOK
      <4>2. QED
        BY <1>7, <1>10, <3>2, <4>1, Decides
    <3>3. CASE c = order.case /\ s = m - 1
      BY <1>6, <1>7, <1>10, <3>3, Undecided
    <3>4. QED
      BY <1>10, <3>1, <3>2, <3>3
  <2>2. Settles(Case, wallet', q, r, "RECOVERING", "RECOVERED", "ACTIVATED")
    BY <1>5, <1>6, <1>7, <1>8, <1>10, Undecided
  <2>3. QED
    BY <1>1, <1>2, <1>10, <2>1, <2>2, OrderedMoves
<1>11. CASE SaveDecision /\ Decisive(order) /\ ~ Approves(order)
  <2>1. /\ cases' = [cases EXCEPT ![order.case] = "REJECTED"] /\ UNCHANGED wallet
        /\ watcher'.pc = "save_wallet" /\ watcher'.next = m
    BY <1>3, <1>11, WatcherTyped DEF SaveDecision, InBatch, Decisive, OrderAt, order, n, WatcherState
  <2>2. m = CaseDone' /\ q = WalletDone' /\ InStep' /\ m <= r
    BY <1>1, <1>2, <1>3, <1>5, <1>6, <1>7, <1>11, <2>1, Positions DEF CaseDone, WalletDone, InStep, Reading
  <2>3. QED
    BY <1>10, <1>11, <2>1, <2>2
<1>12. CASE SaveDecision /\ Approves(order)
  <2>1. /\ cases' = [cases EXCEPT ![order.case] = "APPROVED"] /\ UNCHANGED wallet
        /\ watcher'.pc = "save_executed" /\ watcher'.next = m /\ Decisive(order) /\ watcher.pc = "batch"
    BY <1>3, <1>12, WatcherTyped DEF SaveDecision, InBatch, Decisive, Approves, OrderAt, order, n, WatcherState
  <2>2. m - 1 = CaseDone' /\ q = WalletDone' /\ m <= r
    BY <1>1, <1>2, <1>3, <1>5, <1>6, <1>7, <1>12, <2>1, Positions DEF CaseDone, WalletDone, Reading
  <2>3. Approves(chain'[watcher'.next])
    BY <1>1, <1>7, <1>12, <2>1
  <2>4. InStep'
    BY <1>1, <1>2, <1>3, <1>5, <1>6, <1>7, <1>12, <2>1, <2>2, <2>3, Positions DEF InStep, Reading, Approves
  <2>5. m - 1 \in {p, m} /\ m - 1 # m
    BY <1>5, <1>7, <2>1
  <2>6. QED
    BY <1>10, <1>12, <2>1, <2>2, <2>4, <2>5
<1>13. CASE SaveExecuted
  <2>1. /\ cases' = [cases EXCEPT ![order.case] = "EXECUTED"] /\ UNCHANGED wallet
        /\ watcher'.pc = "save_wallet" /\ watcher'.next = m /\ watcher.pc = "save_executed"
    BY <1>3, <1>13, WatcherTyped DEF SaveExecuted, OrderAt, order, n, WatcherState
  <2>2. ~ SaveDecision /\ r = R
    BY <1>6, <2>1 DEF SaveDecision, InBatch
  <2>3. Approves(order) /\ Decisive(order) /\ m <= r
    BY <1>2, <1>3, <1>7, <2>1, <2>2 DEF InStep, Decisive, order, n
  <2>4. m = CaseDone' /\ q = WalletDone' /\ InStep'
    BY <1>1, <1>2, <1>3, <1>5, <1>7, <2>1, <2>2, <2>3, Positions DEF CaseDone, WalletDone, InStep, Reading
  <2>5. QED
    BY <1>10, <2>1, <2>3, <2>4
<1>14. CASE SaveWallet
  <2>1. /\ UNCHANGED cases /\ wallet' = IF Approves(order) THEN "RECOVERED" ELSE "ACTIVATED"
        /\ watcher'.pc = "batch" /\ watcher'.next = m + 1 /\ watcher.pc = "save_wallet"
    BY <1>3, <1>14, WatcherTyped DEF SaveWallet, OrderAt, order, n, WatcherState
  <2>2. ~ SaveDecision /\ r = R /\ p = m
    BY <1>5, <1>6, <2>1 DEF SaveDecision, InBatch
  <2>3. Decisive(order)
    BY <2>1, WatcherTyped DEF Placed, order, n
  <2>4. m = CaseDone' /\ m = WalletDone' /\ InStep'
    BY <1>1, <1>2, <1>3, <1>7, <2>1, <2>2, Positions DEF CaseDone, WalletDone, InStep, Reading
  <2>5. ASSUME NEW c \in Case
        PROVE  \/ cancel'[c] # "none" /\ cases'[c] = "CANCELLED"
               \/ Settles({c}, cases'[c], m, r, "AWAITING_OMBUDSMAN", "EXECUTED", "REJECTED")
    BY <1>1, <1>4, <2>1, <2>2 DEF CaseSettles
  <2>6. Settles(Case, wallet', m, r, "RECOVERING", "RECOVERED", "ACTIVATED")
    BY <1>7, <1>8, <2>1, <2>3, Decides
  <2>7. QED
    BY <1>1, <1>2, <2>4, <2>5, <2>6, OrderedMoves
<1>15. QED
  BY <1>9, <1>11, <1>12, <1>13, <1>14

\* The chain grows or is reorganised: what was started is final and stays.
LEMMA ChainOrdered ==
    ASSUME IInv, Ordered, NoSaveRaised, IInv',
           \/ \E block \in Block: Mine(block)
           \/ Reorganise
    PROVE  Ordered'
<1>1. /\ UNCHANGED <<cursor, watcher, cases, wallet, cancel, reached>> /\ budget'.save = budget.save
      /\ final <= final' /\ \A i \in 1..final: chain'[i] = chain[i]
  <2>1. CASE \E block \in Block: Mine(block)
    <3>1. PICK block \in Block: Mine(block)
      BY <2>1
    <3>2. chain \in Seq(Block) /\ chain' = Append(chain, block)
          /\ final' = Max({final, Len(chain) + 1 - Confirmations})
      BY <3>1 DEF Mine, IInv, TypeOK, Block
    <3>3. \A i \in 1..final: chain'[i] = chain[i]
      BY <3>2, Numbers
    <3>4. final \in Int /\ Len(chain) + 1 - Confirmations \in Int
      BY Numbers
    <3>5. final <= final'
      BY <3>2, <3>4, MaxOfTwo
    <3>6. QED
      BY <3>1, <3>3, <3>5 DEF Mine
  <2>2. CASE Reorganise
    <3>1. chain \in Seq(Block) /\ chain' = SubSeq(chain, 1, final) /\ final' = final
      BY <2>2 DEF Reorganise, IInv, TypeOK, Block
    <3>2. \A i \in 1..final: chain'[i] = chain[i]
      BY <3>1, Numbers
    <3>3. budget'.save = budget.save
      BY <2>2 DEF Reorganise, IInv, TypeOK
    <3>4. QED
      BY <2>2, <3>1, <3>2, <3>3, Numbers DEF Reorganise
  <2>3. QED
    BY <2>1, <2>2
<1>2. PICK p, q, R, n: p = CaseDone /\ q = WalletDone /\ R = reached /\ n = final
  OBVIOUS
<1>3. /\ p \in Nat /\ q \in Nat /\ R \in Nat /\ n \in Nat /\ p <= n /\ q <= n /\ R <= n
      /\ \A c \in Case: CaseSettles(c, p, R)
      /\ WalletSettles(q, R)
  BY <1>2, Positions DEF InStep
<1>4. \A i \in 1..n: chain'[i] = chain[i]
  BY <1>1, <1>2
<1>5. InStep'
  <2>1. watcher.pc = "save_executed" => watcher.next \in 1..final
    BY WatcherTyped DEF Placed, Reading
  <2>2. watcher.pc = "save_executed" => chain'[watcher.next] = chain[watcher.next]
    BY <1>1, <2>1
  <2>3. final' \in Nat
    BY Numbers DEF IInv, TypeOK
  <2>4. QED
    BY <1>1, <2>2, <2>3, Positions DEF InStep, Approves
<1>6. p = CaseDone' /\ q = WalletDone' /\ R = reached'
  BY <1>1, <1>2 DEF CaseDone, WalletDone
<1>7. ASSUME NEW c \in Case PROVE CaseSettles(c, p, R)'
  <2>1. PICK s: s = cases[c]
    OBVIOUS
  <2>2. /\ Settles({c}, s, p, R, "AWAITING_OMBUDSMAN", "EXECUTED", "REJECTED")'
              <=> Settles({c}, s, p, R, "AWAITING_OMBUDSMAN", "EXECUTED", "REJECTED")
    BY <1>3, <1>4, SettlesStays
  <2>3. CaseSettles(c, p, R)
    BY <1>3
  <2>4. QED
    BY <1>1, <2>1, <2>2, <2>3 DEF CaseSettles
<1>8. WalletSettles(q, R)'
  <2>1. PICK s: s = wallet
    OBVIOUS
  <2>2. /\ Settles(Case, s, q, R, "RECOVERING", "RECOVERED", "ACTIVATED")'
              <=> Settles(Case, s, q, R, "RECOVERING", "RECOVERED", "ACTIVATED")
    BY <1>3, <1>4, SettlesStays
  <2>3. QED
    BY <1>1, <1>3, <2>1, <2>2 DEF WalletSettles, NoCancel
<1>9. (\A c \in Case: CaseSettles(c, CaseDone, reached))' /\ WalletSettles(WalletDone, reached)'
  BY <1>6, <1>7, <1>8
<1>10. budget'.save <= MaxFailure
  BY <1>1, Positions
<1>11. QED
  BY <1>5, <1>9, <1>10 DEF Ordered

\* Nothing gives back the error of a save: after one no claim is made.
LEMMA RaisedOrdered ==
    ASSUME IInv, Ordered, Next, ~ NoSaveRaised \/ SaveRaises
    PROVE  Ordered'
<1>1. budget \in [reorg: Nat, crash: Nat, save: Nat, store: Nat] /\ budget.save <= MaxFailure /\ MaxFailure \in Nat
  BY WatcherConstants DEF IInv, TypeOK, Ordered
<1>2. budget'.save = budget.save \/ (SaveRaises /\ budget'.save = budget.save - 1)
  BY <1>1 DEF Next, ChainGrows, Mine, Reorganise, WatcherStep, Start, Poll, SaveDecision, SaveExecuted,
              SaveWallet, Advance, Sleep, vars, Crash, SaveRaises, AdvanceRaises,
              CancelLoads, CancelSavesCase, CancelSavesWallet, CancelDies
<1>3. SaveRaises => budget'.save = budget.save - 1
  BY <1>1 DEF SaveRaises
<1>4. budget'.save <= MaxFailure /\ budget'.save # MaxFailure
  BY <1>1, <1>2, <1>3 DEF NoSaveRaised
<1>5. QED
  BY <1>4 DEF Ordered, NoSaveRaised

\* Every step keeps the last order the one that counts.
LEMMA NextOrdered == IInv /\ Ordered /\ [Next]_vars => Ordered'
<1> SUFFICES ASSUME IInv, Ordered, [Next]_vars PROVE Ordered'
  OBVIOUS
<1>1. CASE UNCHANGED vars \/ Sleep
  <2>1. UNCHANGED vars
    BY <1>1 DEF Sleep
  <2>2. QED
    BY <2>1 DEF vars, Ordered, NoSaveRaised, InStep, CaseSettles, WalletSettles, NoCancel, CaseDone, WalletDone,
                Settles, Outcome, DecisiveFor, Approves
<1>2. CASE Next /\ (~ NoSaveRaised \/ SaveRaises)
  BY <1>2, RaisedOrdered
<1>3. CASE Next /\ ~ Sleep /\ NoSaveRaised /\ ~ SaveRaises
  <2>1. CASE ChainGrows \/ Reorganise
    BY <1>3, <2>1, NextKeeps, ChainOrdered DEF ChainGrows, Block
  <2>2. CASE Start \/ Poll \/ Advance \/ AdvanceRaises \/ Crash
    BY <1>3, <2>2, LoopOrdered
  <2>3. CASE SaveDecision \/ SaveExecuted \/ SaveWallet
    BY <1>3, <2>3, SavesOrdered
  <2>4. CASE \E c \in Cancellable: CancelLoads(c) \/ CancelSavesCase(c) \/ CancelSavesWallet(c) \/ CancelDies(c)
    BY <1>3, <2>4, CancelOrdered, WatcherConstants
  <2>5. QED
    BY <1>3, <2>1, <2>2, <2>3, <2>4 DEF Next, WatcherStep
<1>4. QED
  BY <1>1, <1>2, <1>3

\* The chain starts with an empty block: with a stored cursor nothing is pending.
LEMMA InitiallyOrdered == FirstCursor > 0 /\ Init => Ordered
<1> SUFFICES ASSUME FirstCursor > 0, Init PROVE Ordered
  OBVIOUS
<1>1. FirstCursor = 1 /\ MaxFailure \in Nat
  BY WatcherConstants
<1>2. /\ chain = <<Empty>> /\ final = 1 /\ cursor = 1 /\ reached = 1 /\ budget.save = MaxFailure
      /\ watcher.pc = "poll" /\ watcher.last = 1
      /\ \A c \in Case: cases[c] = "AWAITING_OMBUDSMAN"
      /\ wallet = "RECOVERING"
  BY <1>1 DEF Init
<1>3. \A group: DecisiveFor(group, 1) = {}
  <2>1. ~ Decisive(chain[1])
    BY <1>2 DEF Decisive, Approves, Empty
  <2>2. QED
    BY <2>1 DEF DecisiveFor, Decisive
<1>4. InStep /\ CaseDone = 1 /\ WalletDone = 1
  BY <1>2 DEF InStep, Reading, CaseDone, WalletDone
<1>5. QED
  BY <1>1, <1>2, <1>3, <1>4 DEF Ordered, CaseSettles, WalletSettles, Settles, Outcome

\* With a stored cursor: however often the watcher dies, replays orders or fails to store
\* its cursor, a case and the wallet show the last order in block order, unless the owner
\* cancelled or a save raised (watch_ombudsman_orders.py, execute_ombudsman_order).
THEOREM LastWins == FirstCursor > 0 /\ Spec => []LastOrderWins
<1>1. IInv /\ Ordered => LastOrderWins
  <2> SUFFICES ASSUME IInv, Ordered, watcher.pc = "poll", reached <= watcher.last, NoSaveRaised
               PROVE  /\ \A c \in Case: \/ cases[c] = CaseOutcome(c, watcher.last)
                                        \/ cancel[c] # "none" /\ cases[c] = "CANCELLED"
                      /\ NoCancel => wallet = WalletOutcome(watcher.last)
    BY DEF LastOrderWins
  <2>1. CaseDone = reached /\ WalletDone = reached /\ watcher.last = reached
    BY Positions DEF CaseDone, WalletDone, InStep
  <2>2. \A g: DecisiveFor(g, reached) \subseteq 1..reached
    BY DEF DecisiveFor
  <2>3. QED
    BY <2>1, <2>2, Positions DEF CaseSettles, WalletSettles, Settles, CaseOutcome, WalletOutcome
<1>2. FirstCursor > 0 /\ Init => IInv /\ Ordered
  BY Initially, InitiallyOrdered
<1>3. IInv /\ Ordered /\ [Next]_vars => (IInv /\ Ordered)'
  BY NextKeeps, NextOrdered
<1>4. QED
  BY <1>1, <1>2, <1>3, PTL DEF Spec
=============================================================================
