-------------------------- MODULE AbstractLedger --------------------------
(***************************************************************************)
(* What the ledger promises to the commands of the proof service: one      *)
(* shared append-only log of events.  A process may load some prefix of    *)
(* the log (its view), append unconditionally, or append on condition that *)
(* what it has seen is the whole log (compare-and-swap).                   *)
(***************************************************************************)
EXTENDS Naturals, Sequences

CONSTANTS Procs, Events

VARIABLES
    log,    \* the events appended so far
    view    \* view[p]: the prefix of the log that process p last read

vars == <<log, view>>

Init ==
    /\ log = <<>>
    /\ view = [p \in Procs |-> <<>>]

(* Reading takes no lock, so what it returns may already be out of date;   *)
(* it is nevertheless a prefix of the log.                                 *)
Load(p) ==
    /\ \E n \in 0 .. Len(log) :
          view' = [view EXCEPT ![p] = SubSeq(log, 1, n)]
    /\ UNCHANGED log

(* A process that fails, or starts again, has seen nothing.                *)
Forget(p) ==
    /\ view' = [view EXCEPT ![p] = <<>>]
    /\ UNCHANGED log

Append_(p, e) ==
    /\ log' = Append(log, e)
    /\ UNCHANGED view

AppendIfSequence(p, e) ==
    /\ view[p] = log
    /\ log' = Append(log, e)
    /\ view' = [view EXCEPT ![p] = Append(log, e)]

Next ==
    \E p \in Procs :
        \/ Load(p)
        \/ Forget(p)
        \/ \E e \in Events : Append_(p, e) \/ AppendIfSequence(p, e)

Spec == Init /\ [][Next]_vars
===========================================================================
