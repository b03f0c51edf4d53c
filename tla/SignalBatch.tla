---------------------------- MODULE SignalBatch ----------------------------
(***************************************************************************)
(* What a mirrored batch of orders promises to the copy trader.  On every  *)
(* account the slices of a signal reach the broker one after the other;    *)
(* the account then reports either all of them, which it does only once    *)
(* all have reached the broker, or none; and after its report nothing      *)
(* more is placed.                                                         *)
(***************************************************************************)
EXTENDS Naturals

CONSTANTS Accounts, None

VARIABLES
    size,       \* the number of slices, None before the signal is planned
    reached,    \* Accounts -> how many slices have reached the broker
    report      \* Accounts -> "pending", "all" or "none"

vars == <<size, reached, report>>

Init ==
    /\ size = None
    /\ reached = [a \in Accounts |-> 0]
    /\ report = [a \in Accounts |-> "pending"]

Accept ==
    /\ size = None
    /\ size' \in Nat
    /\ UNCHANGED <<reached, report>>

Reach(a) ==
    /\ size # None /\ report[a] = "pending" /\ reached[a] < size
    /\ reached' = [reached EXCEPT ![a] = @ + 1]
    /\ UNCHANGED <<size, report>>

\* The last slice may reach the broker in the step that reports the batch.
ReportAll(a) ==
    /\ size # None /\ report[a] = "pending" /\ size <= reached[a] + 1
    /\ reached' = [reached EXCEPT ![a] = size]
    /\ report' = [report EXCEPT ![a] = "all"]
    /\ UNCHANGED size

\* Nor does a batch that is given up say what its last request did.
ReportNone(a) ==
    /\ size # None /\ report[a] = "pending"
    /\ \E n \in {reached[a], reached[a] + 1} :
          n <= size /\ reached' = [reached EXCEPT ![a] = n]
    /\ report' = [report EXCEPT ![a] = "none"]
    /\ UNCHANGED size

Next == Accept \/ \E a \in Accounts : Reach(a) \/ ReportAll(a) \/ ReportNone(a)

Spec == Init /\ [][Next]_vars
=============================================================================
