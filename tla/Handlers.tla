------------------------------- MODULE Handlers -------------------------------
(* What the REST handlers and admin actions of the backend have in common.  A  *)
(* request loads rows, often waits for a chain transaction, and saves the      *)
(* whole row it loaded; without select_for_update other requests run in        *)
(* between.  It holds what it has read, and it may die at any step.            *)
EXTENDS Integers, FiniteSetsExt

CONSTANTS
    User,        \* the accounts
    Request      \* requests served at the same time

Free == [pc |-> "free"]

\* Tables are functions from the order of insertion to rows.
Absent == [status |-> "none"]
HasRoom(table) == \E i \in DOMAIN table: table[i] = Absent
NextRow(table) == Min({i \in DOMAIN table: table[i] = Absent})
=============================================================================
