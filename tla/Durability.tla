------------------------------ MODULE Durability -------------------------------
(***************************************************************************)
(* ChatService::mutate.  An operation changes the store in memory under    *)
(* the write lock and writes the whole of it to the one row of             *)
(* application_state_snapshots before the lock is released, so nobody sees *)
(* the store in between and a mutate is one step:                          *)
(*                                                                         *)
(*   Committed   the row is written, the caller gets the result;           *)
(*   Failed      the statement fails, memory is as before, an error;       *)
(*   Dropped     the request is given up during the statement (the client  *)
(*               disconnects, TimeoutLayer): memory keeps the change, no   *)
(*               event is published and nobody gets an answer.             *)
(*                                                                         *)
(* A statement that failed or was given up may still be executed by the    *)
(* database, at once or when later ones are done.  An operation that is    *)
(* refused leaves everything as it was.                                    *)
(***************************************************************************)
EXTENDS Naturals

CONSTANT MaxFaults      \* bound on failed and dropped commits and restarts

ASSUME MaxFaultsAssumption == MaxFaults \in Nat

VARIABLES
    memory,      \* the Store
    database,    \* payload of the row
    late,        \* statements given up that may still be executed
    regressed,   \* the row was written last by a statement older than a commit
    faults

durabilityVars == <<memory, database, late, regressed, faults>>

StartWith(store) ==
    /\ memory = store /\ database = store
    /\ late = {}
    /\ regressed = FALSE
    /\ faults = 0

DurabilityTypeOK(Stores) ==
    /\ memory \in Stores /\ database \in Stores
    /\ \A w \in late : w \in [snapshot : Stores, old : BOOLEAN]
    /\ regressed \in BOOLEAN
    /\ faults \in 0 .. MaxFaults

Fault == faults < MaxFaults /\ faults' = faults + 1

Outcomes == {"Committed", "Failed", "Dropped"}

Committed(new) ==
    /\ memory' = new /\ database' = new
    /\ late' = {[w EXCEPT !.old = TRUE] : w \in late}
    /\ regressed' = FALSE
    /\ UNCHANGED faults

\* The statement has reached the database or has not.
GivenUp(new) ==
    /\ Fault
    /\ late' \in {late, late \cup {[snapshot |-> new, old |-> FALSE]}}
    /\ UNCHANGED <<database, regressed>>

\* Mutant of Mutate: an operation that changes nothing is not written.
MutateWhenChanged(new, outcome) ==
    \/ outcome = "Committed" /\ new = memory /\ UNCHANGED durabilityVars
    \/ outcome = "Committed" /\ new # memory /\ Committed(new)
    \/ outcome = "Failed" /\ GivenUp(new) /\ UNCHANGED memory
    \/ outcome = "Dropped" /\ GivenUp(new) /\ memory' = new

Mutate(new, outcome) ==
    \/ outcome = "Committed" /\ Committed(new)
    \/ outcome = "Failed" /\ GivenUp(new) /\ UNCHANGED memory
    \/ outcome = "Dropped" /\ GivenUp(new) /\ memory' = new

LateWrite(w) ==
    /\ w \in late
    /\ late' = late \ {w}
    /\ database' = w.snapshot
    /\ regressed' = (regressed \/ w.old)
    /\ UNCHANGED <<memory, faults>>

\* ChatService::postgres reads the row back.
Restart ==
    /\ Fault
    /\ memory' = database
    /\ regressed' = FALSE
    /\ UNCHANGED <<database, late>>
================================================================================
