------------------------------ MODULE FinalLog ------------------------------
(***************************************************************************)
(* What the consensus promises to the rest of the program: the validators  *)
(* build one log together.  It only grows, one block at a time, and every  *)
(* validator's chain is at all times a prefix of it: "that commit is       *)
(* final: no fork choice, no reversion" (README.md, the consensus round).  *)
(***************************************************************************)
EXTENDS Naturals, Sequences

CONSTANTS
    Replica,   \* who keeps a copy of the log
    Item,      \* what the log is made of
    Start      \* the log everybody starts from

VARIABLES
    log,       \* the log
    copy       \* each replica's copy of it

vars == <<log, copy>>

Init == log = Start /\ copy = [r \in Replica |-> Start]

\* r is the first to commit the next item.
Extend(r) ==
    /\ copy[r] = log
    /\ \E x \in Item : log' = Append(log, x)
    /\ copy' = [copy EXCEPT ![r] = log']

\* r catches up by one item of the log.
Follow(r) ==
    /\ Len(copy[r]) < Len(log)
    /\ copy' = [copy EXCEPT ![r] = SubSeq(log, 1, Len(@) + 1)]
    /\ UNCHANGED log

Next == \E r \in Replica : Extend(r) \/ Follow(r)

Spec == Init /\ [][Next]_vars
=============================================================================
