--------------------------- MODULE ProofService ---------------------------
(***************************************************************************)
(* The commands of af (internal/service/proof.go and the commands of       *)
(* cmd/af that append to the ledger themselves).  A command loads the      *)
(* state, checks its conditions on it, and appends one or more events; the *)
(* commands of different agents interleave at every load and every append. *)
(*                                                                         *)
(* The ledger is the append-only log that module Ledger implements         *)
(* (theorem LedgerRefines).  AppendIfSequence succeeds iff nothing was     *)
(* appended since the caller's load, which is what `fresh' records; the    *)
(* sequence numbers themselves are not needed.                             *)
(***************************************************************************)
EXTENDS ProofState

CONSTANTS
    Commands,       \* the commands in use
    InitialTree,    \* the nodes that exist at the start ({}: before af init)
    MaxChildren,    \* config.MaxChildren
    MaxDepth,       \* config.MaxDepth
    MaxDeps,        \* bound: dependencies given to one refine
    MaxBulk         \* bound: nodes given to one bulk command

(* The commands whose only append is one AppendIfSequence, followed at     *)
(* most by TaintRecomputed events ("recompute": a chain of them); raising  *)
(* a challenge is a plain Append.                                          *)
CasCommands ==
    {"create", "claim", "refresh", "release", "refine", "accept", "admit", "refute",
     "archive", "request_refinement", "amend"}

AllCommands ==
    CasCommands \cup {"init", "refine_bulk", "accept_bulk", "accept_all", "recompute", "reap",
                      "reap_all", "challenge", "resolve", "withdraw"}

ASSUME ServiceAssumption ==
    /\ Commands \subseteq AllCommands
    /\ InitialTree \subseteq NodeIDs
    /\ IsFiniteSet(InitialTree)
    /\ MaxChildren \in Nat
    /\ MaxDepth \in Nat
    /\ MaxDeps \in Nat
    /\ MaxBulk \in Nat

VARIABLES
    cmd,    \* the command each agent is executing, or "none"
    todo,   \* the appends it has still to do: [event, cas] records
    fresh,  \* nothing but its own events was appended since its load
    emit    \* the nodes it has still to recompute taint for

locals == <<cmd, todo, fresh, emit>>
vars == <<replayed, locals>>

Init ==
    /\ StateInit(InitialTree)
    /\ cmd = [a \in Agents |-> "none"]
    /\ todo = [a \in Agents |-> <<>>]
    /\ fresh = [a \in Agents |-> FALSE]
    /\ emit = [a \in Agents |-> <<>>]

Cas(e) == [event |-> e, cas |-> TRUE]
Plain(e) == [event |-> e, cas |-> FALSE]

(* The load succeeds and the conditions hold: the command goes on to       *)
(* append.  A command that finds otherwise returns an error and does       *)
(* nothing.                                                                *)
Issue(a, c, appends, taints) ==
    /\ c \in Commands
    /\ cmd[a] = "none"
    /\ ~broken
    /\ cmd' = [cmd EXCEPT ![a] = c]
    /\ todo' = [todo EXCEPT ![a] = appends]
    /\ emit' = [emit EXCEPT ![a] = taints]
    /\ fresh' = [fresh EXCEPT ![a] = TRUE]
    /\ UNCHANGED replayed

---------------------------------------------------------------------------
(* Claims.                                                                 *)

ClaimNode(a) ==
    \E n \in nodes :
        /\ workflow[n] = "available"
        /\ Issue(a, "claim", <<Cas(NodesClaimed(n, a))>>, <<>>)

RefreshClaim(a) ==
    \E n \in nodes :
        /\ workflow[n] = "claimed"
        /\ claimedBy[n] = a
        /\ Issue(a, "refresh", <<Cas(ClaimRefreshed(n, a))>>, <<>>)

ReleaseNode_mNoOwner(a) ==
    \E n \in nodes :
        /\ workflow[n] = "claimed"
        /\ Issue(a, "release", <<Cas(NodesReleased({n}))>>, <<>>)

ReleaseNode(a) ==
    \E n \in nodes :
        /\ workflow[n] = "claimed"
        /\ claimedBy[n] = a
        /\ Issue(a, "release", <<Cas(NodesReleased({n}))>>, <<>>)

(* af reap releases every claimed node whose timeout has passed, af reap   *)
(* --all every claimed node, by a plain Append.                            *)
Reap(a) ==
    LET claimed == {n \in nodes : workflow[n] = "claimed"} IN
    \/ /\ claimed \cap late # {}
       /\ Issue(a, "reap", <<Plain(NodesReleased(claimed \cap late))>>, <<>>)
    \/ /\ claimed # {}
       /\ Issue(a, "reap_all", <<Plain(NodesReleased(claimed))>>, <<>>)

(* Time passes.                                                            *)
ClaimExpires ==
    /\ "reap" \in Commands
    /\ \E n \in nodes \ late :
          workflow[n] = "claimed" /\ late' = late \cup {n}
    /\ UNCHANGED <<broken, initialized, tree, workflow, claimedBy, challenges, locals>>

---------------------------------------------------------------------------
(* Building the tree.                                                      *)

InitProof(a) ==
    /\ ~initialized
    /\ Issue(a, "init", <<Plain(ProofInitialized), Plain(NodeCreated(Root, {}, {}))>>, <<>>)

(* A child of the root from the template that af init was given.           *)
CreateNode(a) ==
    \E n \in NodeIDs \ nodes :
        /\ Root \in nodes
        /\ Len(n) = 2
        /\ Depth(n) <= MaxDepth
        /\ Cardinality(Children(Root)) < MaxChildren
        /\ Issue(a, "create", <<Cas(NodeCreated(n, {}, {}))>>, <<>>)

(* The number of the first child ID that is not taken.                     *)
NextChildNumber(n) ==
    CHOOSE i \in 1 .. Cardinality(nodes) + 1 :
        /\ Child(n, i) \notin nodes
        /\ \A j \in 1 .. i - 1 : Child(n, j) \in nodes

WouldCreateCycle(from, to) ==
    \/ from = to
    \/ HasCycleFrom(nodes, [x \in nodes |-> deps[x] \cup valDeps[x]
                                              \cup (IF x = from THEN {to} ELSE {})], from)

(* Mutants of Refine: a forgotten check.                                   *)
Refine_mNoOwner(a) ==
    \E n \in nodes :
        LET m == Child(n, NextChildNumber(n)) IN
        /\ workflow[n] = "claimed" /\ Depth(m) <= MaxDepth /\ m \in NodeIDs \ nodes
        /\ Cardinality(Children(n)) < MaxChildren
        /\ Issue(a, "refine", <<Cas(NodeCreated(m, {}, {}))>>, <<>>)
Refine_mNoChildCount(a) ==
    \E n \in nodes :
        LET m == Child(n, NextChildNumber(n)) IN
        /\ claimedBy[n] = a /\ Depth(m) <= MaxDepth /\ m \in NodeIDs \ nodes
        /\ Issue(a, "refine", <<Cas(NodeCreated(m, {}, {}))>>, <<>>)

Refine(a) ==
    \E n \in nodes :
        LET m == Child(n, NextChildNumber(n)) IN
        /\ Depth(m) <= MaxDepth
        /\ workflow[n] = "claimed"
        /\ claimedBy[n] = a
        /\ m \in NodeIDs \ nodes
        /\ Cardinality(Children(n)) < MaxChildren
        /\ \E ds, vs \in SUBSET nodes :
             /\ Cardinality(ds) + Cardinality(vs) <= MaxDeps
             /\ \A d \in ds \cup vs : ~WouldCreateCycle(n, d)
             /\ Issue(a, "refine", <<Cas(NodeCreated(m, ds, vs))>>, <<>>)

(* appendBulkIfSequence: the first event by AppendIfSequence, the others   *)
(* by plain Appends.                                                       *)
Bulk(events) ==
    [i \in DOMAIN events |-> IF i = 1 THEN Cas(events[i]) ELSE Plain(events[i])]

RefineNodeBulk(a) ==
    \E n \in nodes, k \in 1 .. MaxBulk :
        LET first == NextChildNumber(n) IN
        /\ Depth(n) + 1 <= MaxDepth
        /\ workflow[n] = "claimed"
        /\ claimedBy[n] = a
        /\ Cardinality(Children(n)) + k <= MaxChildren
        /\ \A i \in 1 .. k : Child(n, first + i - 1) \in NodeIDs
        /\ Issue(a, "refine_bulk",
                 Bulk([i \in 1 .. k |-> NodeCreated(Child(n, first + i - 1), {}, {})]), <<>>)

AmendNode(a) ==
    \E n \in nodes :
        /\ epistemic[n] = "pending"
        /\ workflow[n] = "claimed" => claimedBy[n] = a
        /\ amended[n] < MaxAmendments
        /\ Issue(a, "amend", <<Cas(NodeAmended(n))>>, <<>>)

---------------------------------------------------------------------------
(* Verdicts.                                                               *)

Acceptable_mNoChildren(n) ==
    /\ GetBlockingChallengesForNode(n) = {}
    /\ \A d \in valDeps[n] : d \in nodes /\ epistemic[d] \in Settled

(* What AcceptNode requires of the tree.                                   *)
Acceptable(n) ==
    /\ GetBlockingChallengesForNode(n) = {}
    /\ \A d \in valDeps[n] : d \in nodes /\ epistemic[d] \in Settled
    /\ \A m \in Children(n) : epistemic[m] \in Settled
    /\ epistemic[n] = "needs_refinement" => Children(n) # {}

AcceptNodeWithNote_mStateOnly(a) ==
    \E n \in nodes :
        /\ EpistemicTransition(epistemic[n], "validated")
        /\ Issue(a, "accept", <<Cas(EpistemicChange(n, "validated"))>>, <<n>>)

AcceptNodeWithNote(a) ==
    \E n \in nodes :
        /\ Acceptable(n)
        /\ EpistemicTransition(epistemic[n], "validated")
        /\ Issue(a, "accept", <<Cas(EpistemicChange(n, "validated"))>>, <<n>>)

(* The nodes that af accept --all was given by an earlier load.            *)
PendingNodes(ids) ==
    \A i, j \in DOMAIN ids : epistemic[ids[i]] = "pending" /\ (i # j => ids[i] # ids[j])

(* Neither the children nor the validation dependencies are looked at, and *)
(* an ID may be given twice on the command line.                           *)
AcceptNodeBulk(a) ==
    \E c \in {"accept_bulk", "accept_all"}, k \in 2 .. MaxBulk : \E ids \in [1 .. k -> nodes] :
        /\ c = "accept_all" => PendingNodes(ids)
        /\ \A i \in 1 .. k : /\ GetBlockingChallengesForNode(ids[i]) = {}
                             /\ EpistemicTransition(epistemic[ids[i]], "validated")
        /\ Issue(a, c,
                 Bulk([i \in 1 .. k |-> EpistemicChange(ids[i], "validated")]), ids)

Verdict(a, c, to) ==
    \E n \in nodes :
        /\ EpistemicTransition(epistemic[n], to)
        /\ Issue(a, c, <<Cas(EpistemicChange(n, to))>>, <<n>>)

AdmitNode(a) == Verdict(a, "admit", "admitted")
RefuteNode(a) == Verdict(a, "refute", "refuted")
ArchiveNode(a) == Verdict(a, "archive", "archived")

RequestRefinement(a) ==
    \E n \in nodes :
        /\ EpistemicTransition(epistemic[n], "needs_refinement")
        /\ Issue(a, "request_refinement",
                 <<Cas(EpistemicChange(n, "needs_refinement"))>>, <<>>)

---------------------------------------------------------------------------
(* Challenges: all three commands of cmd/af use plain Appends.             *)


(* The challenge ID is drawn at random: it is new.                         *)
RaiseChallenge(a) ==
    \E c \in Challenges, n \in nodes, b \in BOOLEAN :
        /\ status[c] = "unraised"
        /\ \A o \in Agents : \A i \in DOMAIN todo[o] :
              todo[o][i].event.type = "challenge_raised" => todo[o][i].event.challenge # c
        /\ Issue(a, "challenge", <<Plain(ChallengeRaised(c, n, b))>>, <<>>)

(* Resolve and withdraw scan the ledger for raised, resolved and withdrawn *)
(* events only, so a superseded challenge still looks open to them.        *)
(* (They do so without replaying it, so they would also append to a broken *)
(* ledger, where nothing that is replayed changes any more.)               *)
LooksOpen(c) == status[c] \in {"open", "superseded"}

ResolveChallenge(a) ==
    \E c \in Challenges :
        /\ LooksOpen(c)
        /\ Issue(a, "resolve", <<Plain(ChallengeClosed(c, "resolved"))>>, <<>>)

WithdrawChallenge(a) ==
    \E c \in Challenges :
        /\ LooksOpen(c)
        /\ Issue(a, "withdraw", <<Plain(ChallengeClosed(c, "withdrawn"))>>, <<>>)

---------------------------------------------------------------------------
(* Taint records.                                                          *)

(* The orders in which the taint of the given nodes may be recorded:       *)
(* shallower nodes first, otherwise the order of a Go map.                 *)
TaintOrders(ns) ==
    {s \in [1 .. Cardinality(ns) -> ns] :
        \A i, j \in DOMAIN s : i < j => s[i] # s[j] /\ Depth(s[i]) <= Depth(s[j])}

RecomputeAllTaint_mPlain(a) ==
    LET new == Propagate(nodes, epistemic, taint, nodes)
        changed == {n \in nodes : new[n] # taint[n]}
    IN  /\ changed # {}
        /\ \E s \in TaintOrders(changed) :
              Issue(a, "recompute",
                    [i \in DOMAIN s |-> Plain(TaintRecomputed(s[i], new[s[i]]))], <<>>)

(* af recompute-taint: a chain of AppendIfSequence calls, each expecting   *)
(* the sequence number of the one before.                                  *)
RecomputeAllTaint(a) ==
    LET new == Propagate(nodes, epistemic, taint, nodes)
        changed == {n \in nodes : new[n] # taint[n]}
    IN  /\ changed # {}
        /\ \E s \in TaintOrders(changed) :
              Issue(a, "recompute",
                    [i \in DOMAIN s |-> Cas(TaintRecomputed(s[i], new[s[i]]))], <<>>)

(* The agent a is left with these appends and taint emissions to do.       *)
Remain(a, appends, taints) ==
    /\ todo' = [todo EXCEPT ![a] = appends]
    /\ emit' = [emit EXCEPT ![a] = taints]
    /\ cmd' = IF appends = <<>> /\ taints = <<>> THEN [cmd EXCEPT ![a] = "none"] ELSE cmd

(* emitTaintRecomputedEvents for the next node: it loads the state again.  *)
EmitTaint(a) ==
    /\ todo[a] = <<>>
    /\ emit[a] # <<>>
    /\ LET n == Head(emit[a])
           new == Propagate(nodes, epistemic, taint, Subtree(nodes, n))
           changed == {m \in Subtree(nodes, n) : new[m] # taint[m]}
       IN  \E s \in TaintOrders(IF broken THEN {} ELSE changed) :
              Remain(a, [i \in DOMAIN s |-> Plain(TaintRecomputed(s[i], new[s[i]]))],
                     Tail(emit[a]))
    /\ fresh' = [fresh EXCEPT ![a] = FALSE]
    /\ UNCHANGED replayed

---------------------------------------------------------------------------
(* The next append of a command: Append, or AppendIfSequence that finds    *)
(* the sequence number it expects.                                         *)
AppendEvent_mNoCompare(a) ==
    /\ todo[a] # <<>>
    /\ Apply(Head(todo[a]).event)
    /\ fresh' = [b \in Agents |-> b = a /\ fresh[b] /\ Len(todo[a]) > 1]
    /\ Remain(a, Tail(todo[a]), emit[a])

AppendEvent(a) ==
    /\ todo[a] # <<>>
    /\ Head(todo[a]).cas => fresh[a]
    /\ Apply(Head(todo[a]).event)
    /\ fresh' = [b \in Agents |-> b = a /\ fresh[b] /\ Len(todo[a]) > 1]
    /\ Remain(a, Tail(todo[a]), emit[a])

Abandon(a) ==
    /\ Remain(a, <<>>, <<>>)
    /\ fresh' = [fresh EXCEPT ![a] = FALSE]
    /\ UNCHANGED replayed

SequenceMismatch_mKeepsTaints(a) ==
    /\ todo[a] # <<>>
    /\ Head(todo[a]).cas /\ ~fresh[a]
    /\ cmd' = [cmd EXCEPT ![a] = "none"]
    /\ todo' = [todo EXCEPT ![a] = <<>>]
    /\ UNCHANGED <<replayed, fresh, emit>>

SequenceMismatch_mRetries(a) ==
    /\ todo[a] # <<>>
    /\ Head(todo[a]).cas /\ ~fresh[a]
    /\ UNCHANGED vars

(* AppendIfSequence finds another sequence number: the command returns     *)
(* ErrConcurrentModification.                                              *)
SequenceMismatch(a) ==
    /\ todo[a] # <<>>
    /\ Head(todo[a]).cas /\ ~fresh[a]
    /\ Abandon(a)

(* The process dies, or an append fails (lock timeout, I/O error).         *)
Crash(a) == cmd[a] # "none" /\ Abandon(a)

Load(a) ==
    \/ ClaimNode(a) \/ RefreshClaim(a) \/ ReleaseNode(a) \/ Reap(a)
    \/ InitProof(a) \/ CreateNode(a) \/ Refine(a) \/ RefineNodeBulk(a) \/ AmendNode(a)
    \/ AcceptNodeWithNote(a) \/ AcceptNodeBulk(a)
    \/ AdmitNode(a) \/ RefuteNode(a) \/ ArchiveNode(a) \/ RequestRefinement(a)
    \/ RaiseChallenge(a) \/ ResolveChallenge(a) \/ WithdrawChallenge(a)
    \/ RecomputeAllTaint(a)

Continue(a) == AppendEvent(a) \/ SequenceMismatch(a) \/ EmitTaint(a)

Next == ClaimExpires \/ \E a \in Agents : Load(a) \/ Continue(a) \/ Crash(a)

Spec == Init /\ [][Next]_vars

(* A command that has begun goes on; nobody has to begin one.              *)
FairSpec == Spec /\ \A a \in Agents : WF_vars(Continue(a))

---------------------------------------------------------------------------
EventTypes ==
    {"proof_initialized", "node_created", "nodes_claimed", "claim_refreshed",
     "nodes_released", "epistemic", "taint_recomputed", "node_amended",
     "challenge_raised", "challenge_closed"}

TypeOK ==
    /\ StateTypeOK
    /\ cmd \in [Agents -> Commands \cup {"none"}]
    /\ fresh \in [Agents -> BOOLEAN]
    /\ \A a \in Agents :
          /\ \A i \in DOMAIN todo[a] :
                todo[a][i].cas \in BOOLEAN /\ todo[a][i].event.type \in EventTypes
          /\ \A i \in DOMAIN emit[a] : emit[a][i] \in NodeIDs
          /\ cmd[a] = "none" => todo[a] = <<>> /\ emit[a] = <<>>

(* Replay succeeds: however the commands of the agents interleave, and     *)
(* wherever they crash, every event in the ledger can be applied to the    *)
(* state that the events before it yield.                                  *)
Replayable == ~broken


(* The step carries out an append of command c.                            *)
Carries(c) ==
    \E a \in Agents : cmd[a] = c /\ todo'[a] # todo[a] /\ replayed' # replayed

(* At the moment at which af accept of one node makes it validated (and    *)
(* not only when the verifier looked at it) it has no blocking challenge,  *)
(* its validation dependencies and children are validated or admitted.     *)
AcceptSound ==
    [][\A n \in nodes :
          epistemic[n] # "validated" /\ epistemic'[n] = "validated" /\ Carries("accept")
              => Acceptable(n)]_vars

(* The validation invariant for every way of accepting: a node becomes     *)
(* validated only when its children are validated or admitted.             *)
AcceptEnforcesChildren ==
    [][\A n \in nodes :
          epistemic[n] # "validated" /\ epistemic'[n] = "validated"
              => \A m \in Children(n) : epistemic[m] \in Settled]_vars

(* A claim ends only when its holder releases it.                          *)
ClaimKept ==
    [][\A n \in nodes :
          workflow[n] = "claimed" /\ (workflow'[n] # "claimed" \/ claimedBy'[n] # claimedBy[n])
              => \E a \in Agents : a = claimedBy[n] /\ cmd[a] = "release" /\ todo'[a] # todo[a]]_vars

(* A child appears only under a node that the refining agent holds at that *)
(* very moment.                                                            *)
OnlyHolderRefines ==
    [][\A m \in nodes' \ nodes :
          Carries("refine") \/ Carries("refine_bulk")
              => \E a \in Agents :
                    /\ cmd[a] \in {"refine", "refine_bulk"} /\ todo'[a] # todo[a]
                    /\ Parent(m) \in nodes /\ claimedBy[Parent(m)] = a]_vars

(* A node is never replaced: it keeps its dependencies; admitted, refuted  *)
(* and archived are final and validated only leads to needs_refinement;    *)
(* its statement changes only while it is pending.                         *)
NodeHistory ==
    [][\A n \in nodes :
          /\ n \in nodes'
          /\ deps'[n] = deps[n] /\ valDeps'[n] = valDeps[n]
          /\ epistemic'[n] # epistemic[n] =>
                /\ epistemic[n] \notin {"admitted", "refuted", "archived"}
                /\ epistemic'[n] # "pending"
                /\ epistemic[n] = "validated" => epistemic'[n] = "needs_refinement"
          /\ amended'[n] # amended[n] => epistemic[n] = "pending" /\ amended'[n] > amended[n]]_vars

(* However many provers refine at the same time, the tree stays a tree     *)
(* within the configured limits on depth and on the number of children.    *)
TreeOK ==
    \A n \in nodes :
        /\ n # Root => Parent(n) \in nodes
        /\ Depth(n) <= MaxDepth
        /\ Cardinality(Children(n)) <= MaxChildren


(* af recompute-taint that gets to its end leaves every taint right, even  *)
(* if it was wrong before and others append meanwhile.                     *)
RecomputeRepairs ==
    [][\A a \in Agents :
          cmd[a] = "recompute" /\ cmd'[a] = "none" /\ taint' # taint
              => \A n \in nodes : taint'[n] = TaintMeaning(nodes, epistemic, n)]_vars


(* RefineNodeBulk creates all of the children or none of them.             *)
BulkRefineAllOrNone ==
    [][\A a \in Agents :
          cmd[a] = "refine_bulk" /\ ~Head(todo[a]).cas /\ cmd'[a] = "none"
              => Head(todo[a]).event.node \in nodes']_vars

(* A command that has begun comes to its end.                              *)
CommandEnds == \A a \in Agents : cmd[a] # "none" ~> cmd[a] = "none"
===========================================================================
