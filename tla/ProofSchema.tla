---------------------------- MODULE ProofSchema ----------------------------
(***************************************************************************)
(* The pure part of the proof tree: hierarchical node IDs                  *)
(* (internal/types), the legal transitions (internal/schema) and the taint *)
(* rules (internal/taint).  A node ID such as 1.2.1 is the sequence        *)
(* <<1, 2, 1>>.                                                            *)
(***************************************************************************)
EXTENDS Naturals, Sequences, FiniteSets

Root == <<1>>

Parent(n) == SubSeq(n, 1, Len(n) - 1)

Child(n, i) == Append(n, i)

Depth(n) == Len(n)

IsAncestorOf(a, n) == Len(a) < Len(n) /\ a = SubSeq(n, 1, Len(a))

---------------------------------------------------------------------------
EpistemicStates ==
    {"pending", "validated", "admitted", "refuted", "archived", "needs_refinement"}

WorkflowStates == {"available", "claimed", "blocked"}

TaintStates == {"clean", "self_admitted", "tainted", "unresolved"}

ChallengeStates == {"open", "resolved", "withdrawn", "superseded"}

(* The states that stand for a node the verifiers agreed to.               *)
Settled == {"validated", "admitted"}


EpistemicTransition(from, to) ==
    \/ from \in {"pending", "needs_refinement"}
       /\ to \in {"validated", "admitted", "refuted", "archived"}
    \/ from = "validated" /\ to = "needs_refinement"

WorkflowTransition(from, to) ==
    <<from, to>> \in {<<"available", "claimed">>, <<"claimed", "available">>,
                      <<"claimed", "blocked">>, <<"blocked", "available">>}

---------------------------------------------------------------------------
(* The taint of a node in the given epistemic state whose ancestors have   *)
(* the taints `above'.                                                     *)
ComputeTaint(epistemic, above) ==
    IF epistemic = "pending" \/ "unresolved" \in above THEN "unresolved"
    ELSE IF epistemic = "admitted" THEN "self_admitted"
    ELSE IF above \cap {"tainted", "self_admitted"} # {} THEN "tainted"
    ELSE "clean"

Ancestors(ids, n) == {a \in ids : IsAncestorOf(a, n)}

(* Recompute the taint of the nodes in `part', shallower nodes first (each *)
(* sees the new taint of its ancestors in `part'), and keep the others.    *)
Propagate(ids, epistemic, taint, part) ==
    LET t[n \in DOMAIN taint] ==
            IF n \in part
            THEN ComputeTaint(epistemic[n], {t[a] : a \in Ancestors(ids, n)})
            ELSE taint[n]
    IN  t

(* A node and its descendants.                                             *)
Subtree(ids, n) == {m \in ids : m = n \/ IsAncestorOf(n, m)}

---------------------------------------------------------------------------
(* What taint means, as a function of the epistemic states alone: a node   *)
(* is unresolved while it or an ancestor is pending, self-admitted if it   *)
(* is admitted, tainted if it hangs below an admitted node.                *)
TaintMeaning(ids, epistemic, n) ==
    LET above == {epistemic[a] : a \in Ancestors(ids, n)}
    IN  IF "pending" \in above \cup {epistemic[n]} THEN "unresolved"
        ELSE IF epistemic[n] = "admitted" THEN "self_admitted"
        ELSE IF "admitted" \in above THEN "tainted"
        ELSE "clean"

(* A dependency cycle can be reached from `start': some set of nodes that  *)
(* contains it never leads out of itself.                                  *)
HasCycleFrom(ids, dependsOn, start) ==
    \E S \in SUBSET ids :
        start \in S /\ \A x \in S : \E y \in S : y \in dependsOn[x]
===========================================================================
