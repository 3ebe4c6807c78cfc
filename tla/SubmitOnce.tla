------------------------------ MODULE SubmitOnce ------------------------------
(* What chain/client.py and middleware/server.js promise of a submission: it   *)
(* is on record before it is sent, and however often it is retried it is       *)
(* written to the chain once.  Inside a transaction of the caller the record   *)
(* may come later, or never.                                                   *)
EXTENDS Naturals

CONSTANT Tx

VARIABLES
    inner,     \* submitted inside a transaction of the caller
    begun,     \* handed to the client
    recorded,  \* with a row that others see
    writes     \* Tx -> number of writes

vars == <<inner, begun, recorded, writes>>

Init ==
    /\ inner \in SUBSET Tx
    /\ begun = {} /\ recorded = {}
    /\ writes = [t \in Tx |-> 0]

Begin(t) ==
    /\ t \notin begun
    /\ begun' = begun \cup {t}
    /\ recorded' = IF t \in inner THEN recorded ELSE recorded \cup {t}
    /\ UNCHANGED <<inner, writes>>

\* The caller commits, or the audit sink makes up for a row that was rolled back.
Record(t) ==
    /\ t \in (begun \cap inner) \ recorded
    /\ recorded' = recorded \cup {t}
    /\ UNCHANGED <<inner, begun, writes>>

Write(t) ==
    /\ t \in recorded \/ t \in begun \cap inner
    /\ writes[t] = 0
    /\ writes' = [writes EXCEPT ![t] = 1]
    /\ UNCHANGED <<inner, begun, recorded>>

Next == \E t \in Tx: Begin(t) \/ Record(t) \/ Write(t)

Spec == Init /\ [][Next]_vars
=============================================================================
