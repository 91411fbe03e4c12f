---------------------------- MODULE ProofState ----------------------------
(***************************************************************************)
(* The state that replaying the ledger yields (internal/state).  Every     *)
(* process rebuilds it from the event files, so there is one value of it   *)
(* per ledger content; Apply(e) is what appending event e does to it.  A   *)
(* ledger with an event that cannot be applied cannot be replayed by       *)
(* anybody: `broken'.                                                      *)
(***************************************************************************)
EXTENDS ProofSchema

CONSTANTS
    Agents,         \* the agents (owner strings)
    NoAgent,        \* the empty owner
    NodeIDs,        \* the node IDs that may occur
    Challenges,     \* the challenge IDs that may occur
    MaxAmendments   \* bound: amendments of one node

ASSUME StateAssumption ==
    /\ NoAgent \notin Agents
    /\ NodeIDs \subseteq Seq(Nat)
    /\ Root \in NodeIDs
    /\ MaxAmendments \in Nat

VARIABLES
    broken,         \* some event in the ledger cannot be applied
    initialized,    \* the ledger has a ProofInitialized event
    nodes,          \* the IDs of the nodes that exist
    epistemic, workflow, claimedBy, taint, deps, valDeps, amended,
                    \* the fields of each node (a default where there is no node)
    late,           \* the claimed nodes whose claim timeout has passed
    status, target, blocking
                    \* the challenges: status, challenged node, severity blocks

tree == <<nodes, epistemic, taint, deps, valDeps, amended>>
claims == <<workflow, claimedBy, late>>
challenges == <<status, target, blocking>>
replayed == <<broken, initialized, tree, claims, challenges>>

StateTypeOK ==
    /\ broken \in BOOLEAN
    /\ initialized \in BOOLEAN
    /\ nodes \subseteq NodeIDs
    /\ epistemic \in [NodeIDs -> EpistemicStates]
    /\ workflow \in [NodeIDs -> WorkflowStates]
    /\ claimedBy \in [NodeIDs -> Agents \cup {NoAgent}]
    /\ taint \in [NodeIDs -> TaintStates]
    /\ deps \in [NodeIDs -> SUBSET NodeIDs]
    /\ valDeps \in [NodeIDs -> SUBSET NodeIDs]
    /\ amended \in [NodeIDs -> 0 .. MaxAmendments]
    /\ late \subseteq NodeIDs
    /\ status \in [Challenges -> ChallengeStates \cup {"unraised"}]
    /\ target \in [Challenges -> NodeIDs]
    /\ blocking \in [Challenges -> BOOLEAN]

(* The state in which exactly the given nodes exist, new and untouched.    *)
StateInit(existing) ==
    /\ broken = FALSE
    /\ initialized = (existing # {})
    /\ nodes = existing
    /\ epistemic = [n \in NodeIDs |-> "pending"]
    /\ workflow = [n \in NodeIDs |-> "available"]
    /\ claimedBy = [n \in NodeIDs |-> NoAgent]
    /\ taint = [n \in NodeIDs |-> "unresolved"]
    /\ deps = [n \in NodeIDs |-> {}]
    /\ valDeps = [n \in NodeIDs |-> {}]
    /\ amended = [n \in NodeIDs |-> 0]
    /\ late = {}
    /\ status = [c \in Challenges |-> "unraised"]
    /\ target = [c \in Challenges |-> Root]
    /\ blocking = [c \in Challenges |-> FALSE]

---------------------------------------------------------------------------
(* The events.                                                             *)

ProofInitialized == [type |-> "proof_initialized"]
NodeCreated(n, ds, vs) == [type |-> "node_created", node |-> n, deps |-> ds, valDeps |-> vs]
NodesClaimed(n, a) == [type |-> "nodes_claimed", node |-> n, owner |-> a]
ClaimRefreshed(n, a) == [type |-> "claim_refreshed", node |-> n, owner |-> a]
NodesReleased(ns) == [type |-> "nodes_released", ids |-> ns]
EpistemicChange(n, to) == [type |-> "epistemic", node |-> n, to |-> to]
TaintRecomputed(n, t) == [type |-> "taint_recomputed", node |-> n, taint |-> t]
NodeAmended(n) == [type |-> "node_amended", node |-> n]
ChallengeRaised(c, n, b) ==
    [type |-> "challenge_raised", challenge |-> c, on |-> n, blocks |-> b]
ChallengeClosed(c, s) == [type |-> "challenge_closed", challenge |-> c, to |-> s]

---------------------------------------------------------------------------
Children(n) == {m \in nodes : Len(m) > 1 /\ Parent(m) = n}

OpenChallenges(n) == {c \in Challenges : status[c] = "open" /\ target[c] = n}

GetBlockingChallengesForNode(n) == {c \in OpenChallenges(n) : blocking[c]}

(* Apply returns no error.                                                 *)
Applicable(e) ==
    /\ e.type \in {"nodes_claimed", "claim_refreshed", "epistemic", "taint_recomputed",
                   "node_amended"} => e.node \in nodes
    /\ e.type = "nodes_claimed" => WorkflowTransition(workflow[e.node], "claimed")
    /\ e.type = "claim_refreshed" =>
          workflow[e.node] = "claimed" /\ claimedBy[e.node] = e.owner
    /\ e.type = "nodes_released" =>
          \A n \in e.ids : n \in nodes /\ WorkflowTransition(workflow[n], "available")
    /\ e.type = "epistemic" => EpistemicTransition(epistemic[e.node], e.to)
    /\ e.type = "challenge_closed" => status[e.challenge] # "unraised"


(* A node that already exists is replaced, whatever its state.             *)
applyNodeCreated(e) ==
    /\ nodes' = nodes \cup {e.node}
    /\ epistemic' = [epistemic EXCEPT ![e.node] = "pending"]
    /\ taint' = [taint EXCEPT ![e.node] = "unresolved"]
    /\ deps' = [deps EXCEPT ![e.node] = e.deps]
    /\ valDeps' = [valDeps EXCEPT ![e.node] = e.valDeps]
    /\ amended' = [amended EXCEPT ![e.node] = 0]
    /\ workflow' = [workflow EXCEPT ![e.node] = "available"]
    /\ claimedBy' = [claimedBy EXCEPT ![e.node] = NoAgent]
    /\ late' = late \ {e.node}
    /\ UNCHANGED <<initialized, challenges>>

applyNodesClaimed(e) ==
    /\ workflow' = [workflow EXCEPT ![e.node] = "claimed"]
    /\ claimedBy' = [claimedBy EXCEPT ![e.node] = e.owner]
    /\ late' = late \ {e.node}
    /\ UNCHANGED <<initialized, tree, challenges>>

applyClaimRefreshed(e) ==
    /\ late' = late \ {e.node}
    /\ UNCHANGED <<initialized, tree, workflow, claimedBy, challenges>>

applyNodesReleased(e) ==
    /\ workflow' = [n \in NodeIDs |-> IF n \in e.ids THEN "available" ELSE workflow[n]]
    /\ claimedBy' = [n \in NodeIDs |-> IF n \in e.ids THEN NoAgent ELSE claimedBy[n]]
    /\ late' = late \ e.ids
    /\ UNCHANGED <<initialized, tree, challenges>>

(* The challenges after supersedeOpenChallengesForNode.                    *)
Superseded(n) ==
    [c \in Challenges |-> IF c \in OpenChallenges(n) THEN "superseded" ELSE status[c]]


applyEpistemic(e) ==
    /\ epistemic' = [epistemic EXCEPT ![e.node] = e.to]
    /\ taint' = IF e.to = "needs_refinement" THEN taint
                ELSE Propagate(nodes, epistemic', taint, Subtree(nodes, e.node))
    /\ status' = IF e.to \in {"refuted", "archived"} THEN Superseded(e.node) ELSE status
    /\ UNCHANGED <<initialized, nodes, deps, valDeps, amended, claims, target, blocking>>

applyTaintRecomputed(e) ==
    /\ taint' = [taint EXCEPT ![e.node] = e.taint]
    /\ UNCHANGED <<initialized, nodes, epistemic, deps, valDeps, amended, claims, challenges>>

applyNodeAmended(e) ==
    /\ amended' = [amended EXCEPT ![e.node] = @ + 1]
    /\ UNCHANGED <<initialized, nodes, epistemic, taint, deps, valDeps, claims, challenges>>

(* The challenged node need not exist.                                     *)
applyChallengeRaised(e) ==
    /\ status' = [status EXCEPT ![e.challenge] = "open"]
    /\ target' = [target EXCEPT ![e.challenge] = e.on]
    /\ blocking' = [blocking EXCEPT ![e.challenge] = e.blocks]
    /\ UNCHANGED <<initialized, tree, claims>>

(* ChallengeResolved and ChallengeWithdrawn: whatever the status was.      *)
applyChallengeClosed(e) ==
    /\ status' = [status EXCEPT ![e.challenge] = e.to]
    /\ UNCHANGED <<initialized, tree, claims, target, blocking>>

applyProofInitialized(e) ==
    /\ initialized' = TRUE
    /\ UNCHANGED <<tree, claims, challenges>>

(* Replay stops at the first event that cannot be applied: what it had     *)
(* built up to there no longer changes.                                    *)
Apply(e) ==
    \/ /\ broken \/ ~Applicable(e)
       /\ broken' = TRUE
       /\ UNCHANGED <<initialized, tree, claims, challenges>>
    \/ /\ ~broken /\ Applicable(e)
       /\ UNCHANGED broken
       /\ \/ e.type = "proof_initialized" /\ applyProofInitialized(e)
          \/ e.type = "node_created" /\ applyNodeCreated(e)
          \/ e.type = "nodes_claimed" /\ applyNodesClaimed(e)
          \/ e.type = "claim_refreshed" /\ applyClaimRefreshed(e)
          \/ e.type = "nodes_released" /\ applyNodesReleased(e)
          \/ e.type = "epistemic" /\ applyEpistemic(e)
          \/ e.type = "taint_recomputed" /\ applyTaintRecomputed(e)
          \/ e.type = "node_amended" /\ applyNodeAmended(e)
          \/ e.type = "challenge_raised" /\ applyChallengeRaised(e)
          \/ e.type = "challenge_closed" /\ applyChallengeClosed(e)
===========================================================================
