--------------------------- MODULE ServiceProofs ---------------------------
(***************************************************************************)
(* What the commands of module ProofService keep, for any number of agents,*)
(* nodes and challenges and for any tree.                                  *)
(***************************************************************************)
EXTENDS ProofService, FiniteSetTheorems, SequenceTheorems, TLAPS

(* The commands whose plain appends may become inapplicable before they    *)
(* are made; and those that may create a node that exists by then.         *)
Poisonous == {"accept_bulk", "accept_all", "reap", "reap_all"}
Replacing == {"init", "refine_bulk"}

---------------------------------------------------------------------------
(* The inductive invariant.                                                *)

(* The part of the state that the arguments rest on: the type of every     *)
(* field but the taint, and that the tree is finite.                       *)
Fields ==
    /\ broken \in BOOLEAN
    /\ nodes \subseteq NodeIDs
    /\ IsFiniteSet(nodes)
    /\ epistemic \in [NodeIDs -> EpistemicStates]
    /\ workflow \in [NodeIDs -> WorkflowStates]
    /\ claimedBy \in [NodeIDs -> Agents \cup {NoAgent}]
    /\ deps \in [NodeIDs -> SUBSET NodeIDs]
    /\ valDeps \in [NodeIDs -> SUBSET NodeIDs]
    /\ amended \in [NodeIDs -> Nat]
    /\ status \in [Challenges -> ChallengeStates \cup {"unraised"}]

(* What stays true of an event that waits to be appended, whatever is      *)
(* appended before it.                                                     *)
EventOK(e) ==
    /\ e.type \in EventTypes
    /\ e.type = "node_created" =>
          e.node \in NodeIDs /\ e.deps \in SUBSET NodeIDs /\ e.valDeps \in SUBSET NodeIDs
    /\ e.type = "nodes_claimed" => e.owner \in Agents
    /\ e.type = "epistemic" => e.to \in EpistemicStates
    /\ e.type = "taint_recomputed" => e.node \in nodes
    /\ e.type = "challenge_raised" => e.challenge \in Challenges
    /\ e.type = "challenge_closed" =>
          /\ e.challenge \in Challenges /\ status[e.challenge] # "unraised"
          /\ e.to \in {"resolved", "withdrawn"}

(* The type of the event that command c appends first, comparing.          *)
FirstRole(c, t) ==
    \/ c \in {"create", "refine", "refine_bulk"} /\ t = "node_created"
    \/ c = "claim" /\ t = "nodes_claimed"
    \/ c = "refresh" /\ t = "claim_refreshed"
    \/ c = "release" /\ t = "nodes_released"
    \/ c = "amend" /\ t = "node_amended"
    \/ c \in {"accept", "accept_bulk", "accept_all", "admit", "refute", "archive",
              "request_refinement"}
       /\ t = "epistemic"

(* The types of the events that command c appends without comparing (the   *)
(* taint records are harmless, whichever command makes them).              *)
PlainRole(c, t) ==
    \/ t = "taint_recomputed"
    \/ c \in {"reap", "reap_all"} /\ t = "nodes_released"
    \/ c = "challenge" /\ t = "challenge_raised"
    \/ c \in {"resolve", "withdraw"} /\ t = "challenge_closed"
    \/ c = "init" /\ t \in {"proof_initialized", "node_created"}
    \/ c = "refine_bulk" /\ t = "node_created"
    \/ c \in {"accept_bulk", "accept_all"} /\ t = "epistemic"

(* What command c of agent a checked on the state it loaded.               *)
Guard(a, c, e) ==
    /\ Applicable(e)
    /\ c \in {"create", "refine"} => e.node \notin nodes
    /\ c = "refine" => Parent(e.node) \in nodes /\ claimedBy[Parent(e.node)] = a
    /\ c = "accept" => Acceptable(e.node)
    /\ c = "release" => \A n \in e.ids : claimedBy[n] = a
    /\ e.type = "node_amended" => epistemic[e.node] = "pending"

(* The i-th append that agent a has still to do for command c: while       *)
(* nothing else was appended, what the command checked is still so.        *)
ItemOK(a, c, i, x, f) ==
    /\ EventOK(x.event)
    /\ \/ x.cas = TRUE /\ i = 1 /\ FirstRole(c, x.event.type)
       \/ x.cas = TRUE /\ c = "recompute" /\ x.event.type = "taint_recomputed"
       \/ x.cas = FALSE /\ PlainRole(c, x.event.type)
    /\ x.cas = TRUE /\ i = 1 /\ f => Guard(a, c, x.event)

IsSeq(s) == s \in Seq({s[i] : i \in DOMAIN s})

IInv ==
    /\ Fields
    /\ cmd \in [Agents -> Commands \cup {"none"}]
    /\ todo = [a \in Agents |-> todo[a]]
    /\ fresh \in [Agents -> BOOLEAN]
    /\ \A a \in Agents :
          /\ IsSeq(todo[a])
          /\ \A i \in 1 .. Len(todo[a]) : ItemOK(a, cmd[a], i, todo[a][i], fresh[a])

---------------------------------------------------------------------------
(* Sequences.                                                              *)

(* A function on 1 .. n is a sequence of length n.                         *)
LEMMA SeqOfFunction ==
    ASSUME NEW n \in Nat, NEW s, s = [i \in 1 .. n |-> s[i]]
    PROVE  IsSeq(s) /\ Len(s) = n
<1> DEFINE S == {s[i] : i \in 1 .. n}
<1>1. s \in [1 .. n -> S]
  OBVIOUS
<1>2. DOMAIN s = 1 .. n
  OBVIOUS
<1> HIDE DEF S
<1>3. s \in Seq(S) /\ Len(s) = n
  BY <1>1
<1> QED
  BY <1>2, <1>3 DEF IsSeq, S

(* What is left of a sequence when its first element is taken off, as the  *)
(* appends that are still to do are.                                       *)
LEMMA SeqTail ==
    ASSUME NEW s, IsSeq(s), s # <<>>
    PROVE  /\ Len(s) \in Nat /\ 1 \in 1 .. Len(s) /\ Head(s) = s[1]
           /\ IsSeq(Tail(s))
           /\ Len(Tail(s)) = Len(s) - 1
           /\ \A i \in 1 .. Len(Tail(s)) : i + 1 \in 1 .. Len(s) /\ Tail(s)[i] = s[i + 1]
<1> DEFINE S == {s[i] : i \in DOMAIN s}
<1>1. s \in Seq(S)
  BY DEF IsSeq
<1> HIDE DEF S
<1>2. /\ Len(s) \in Nat /\ 1 \in 1 .. Len(s) /\ Head(s) = s[1]
      /\ Tail(s) \in Seq(S)
      /\ Len(Tail(s)) = Len(s) - 1
      /\ \A i \in 1 .. Len(Tail(s)) : i + 1 \in 1 .. Len(s) /\ Tail(s)[i] = s[i + 1]
  BY <1>1
<1>3. IsSeq(Tail(s))
  <2>1. Len(s) - 1 \in Nat
    BY <1>2
  <2>2. Tail(s) \in [1 .. Len(Tail(s)) -> S]
    BY <1>2, LenProperties
  <2> QED
    BY <1>2, <2>1, <2>2, SeqOfFunction
<1> QED
  BY <1>2, <1>3

---------------------------------------------------------------------------
(* Loading the state.                                                      *)

(* While the replayed state stays the same, the invariant is what it says  *)
(* of the new lists, judged in the old state.                              *)
LEMMA SameItems ==
    ASSUME Fields,
           UNCHANGED <<broken, nodes, epistemic, workflow, claimedBy, deps, valDeps, amended,
                       status, target, blocking>>,
           cmd' \in [Agents -> Commands \cup {"none"}],
           todo' = [b \in Agents |-> todo'[b]],
           fresh' \in [Agents -> BOOLEAN],
           \A b \in Agents :
              /\ IsSeq(todo'[b])
              /\ \A i \in 1 .. Len(todo'[b]) : ItemOK(b, cmd'[b], i, todo'[b][i], fresh'[b])
    PROVE  IInv'
<1>1. Fields'
  BY DEF Fields
<1>2. ASSUME NEW b \in Agents, NEW i \in 1 .. Len(todo'[b])
      PROVE  ItemOK(b, cmd[b], i, todo[b][i], fresh[b])'
  <2>1. ItemOK(b, cmd'[b], i, todo'[b][i], fresh'[b])
    OBVIOUS
  <2>2. EventOK(todo'[b][i].event) => EventOK(todo[b][i].event)'
    BY DEF EventOK
  <2>3. Applicable(todo'[b][i].event) => Applicable(todo[b][i].event)'
    BY DEF Applicable
  <2>4. Acceptable(todo'[b][i].event.node) => Acceptable(todo[b][i].event.node)'
    BY DEF Acceptable, Children, OpenChallenges, GetBlockingChallengesForNode
  <2>5. Guard(b, cmd'[b], todo'[b][i].event) => Guard(b, cmd[b], todo[b][i].event)'
    BY <2>3, <2>4 DEF Guard
  <2> QED
    BY <2>1, <2>2, <2>5 DEF ItemOK
<1>3. ASSUME NEW b \in Agents PROVE IsSeq(todo[b])'
  BY DEF IsSeq
<1> QED
  BY <1>1, <1>2, <1>3 DEF IInv

(* A command that appends what it checked keeps the invariant.             *)
LEMMA IssueKeeps ==
    ASSUME IInv, NEW a \in Agents, NEW c, NEW s, NEW t, Issue(a, c, s, t),
           IsSeq(s), \A i \in 1 .. Len(s) : ItemOK(a, c, i, s[i], TRUE)
    PROVE  IInv'
<1>1. UNCHANGED <<broken, nodes, epistemic, workflow, claimedBy, deps, valDeps, amended,
                  status, target, blocking>>
  BY DEF Issue, replayed, tree, claims, challenges
<1>2. /\ cmd' \in [Agents -> Commands \cup {"none"}]
      /\ todo' = [b \in Agents |-> todo'[b]]
      /\ fresh' \in [Agents -> BOOLEAN]
  BY DEF IInv, Issue
<1>3. ASSUME NEW b \in Agents
      PROVE  /\ IsSeq(todo'[b])
             /\ \A i \in 1 .. Len(todo'[b]) : ItemOK(b, cmd'[b], i, todo'[b][i], fresh'[b])
  <2>1. CASE b = a
    <3>1. cmd'[b] = c /\ todo'[b] = s /\ fresh'[b] = TRUE
      BY <2>1 DEF IInv, Issue
    <3> QED
      BY <2>1, <3>1
  <2>2. CASE b # a
    <3>1. cmd'[b] = cmd[b] /\ todo'[b] = todo[b] /\ fresh'[b] = fresh[b]
      BY <2>2 DEF IInv, Issue
    <3> QED
      BY <3>1 DEF IInv
  <2> QED
    BY <2>1, <2>2
<1> QED
  BY <1>1, <1>2, <1>3, SameItems DEF IInv

---------------------------------------------------------------------------
(* Appending.                                                              *)

(* Replaying one more event keeps the types of the fields; a node never    *)
(* disappears and a challenge that was raised stays so.                    *)
LEMMA ApplyKeeps ==
    ASSUME Fields, NEW e, EventOK(e), Apply(e)
    PROVE  /\ Fields'
           /\ nodes \subseteq nodes'
           /\ \A c \in Challenges : status[c] # "unraised" => status'[c] # "unraised"
<1> USE DEF Fields
<1>1. CASE broken' = TRUE /\ UNCHANGED <<initialized, tree, claims, challenges>>
  BY <1>1 DEF tree, claims, challenges
<1>2. CASE UNCHANGED broken /\ applyProofInitialized(e)
  BY <1>2 DEF applyProofInitialized, tree, claims, challenges
<1>3. CASE UNCHANGED broken /\ e.type = "node_created" /\ applyNodeCreated(e)
  <2>1. e.node \in NodeIDs /\ e.deps \in SUBSET NodeIDs /\ e.valDeps \in SUBSET NodeIDs
    BY <1>3 DEF EventOK
  <2>2. IsFiniteSet(nodes')
    BY <1>3, FS_AddElement DEF applyNodeCreated
  <2> QED
    BY <1>3, <2>1, <2>2 DEF applyNodeCreated, challenges, EpistemicStates, WorkflowStates
<1>4. CASE UNCHANGED broken /\ e.type = "nodes_claimed" /\ applyNodesClaimed(e)
  <2>1. e.owner \in Agents
    BY <1>4 DEF EventOK
  <2> QED
    BY <1>4, <2>1 DEF applyNodesClaimed, tree, challenges, WorkflowStates
<1>5. CASE UNCHANGED broken /\ applyClaimRefreshed(e)
  BY <1>5 DEF applyClaimRefreshed, tree, challenges
<1>6. CASE UNCHANGED broken /\ applyNodesReleased(e)
  BY <1>6 DEF applyNodesReleased, tree, challenges, WorkflowStates
<1>7. CASE UNCHANGED broken /\ e.type = "epistemic" /\ applyEpistemic(e)
  <2>1. e.to \in EpistemicStates
    BY <1>7 DEF EventOK
  <2>2. epistemic' \in [NodeIDs -> EpistemicStates]
    BY <1>7, <2>1 DEF applyEpistemic
  <2>3. /\ status' \in [Challenges -> ChallengeStates \cup {"unraised"}]
        /\ \A c \in Challenges : status[c] # "unraised" => status'[c] # "unraised"
    BY <1>7 DEF applyEpistemic, Superseded, ChallengeStates
  <2> QED
    BY <1>7, <2>2, <2>3 DEF applyEpistemic, claims
<1>8. CASE UNCHANGED broken /\ applyTaintRecomputed(e)
  BY <1>8 DEF applyTaintRecomputed, claims, challenges
<1>9. CASE UNCHANGED broken /\ applyNodeAmended(e)
  <2>1. amended' \in [NodeIDs -> Nat]
    <3>1. amended' = [n \in NodeIDs |-> IF n = e.node THEN amended[n] + 1 ELSE amended[n]]
      BY <1>9 DEF applyNodeAmended
    <3> QED
      BY <3>1
  <2> QED
    BY <1>9, <2>1 DEF applyNodeAmended, claims, challenges
<1>10. CASE UNCHANGED broken /\ applyChallengeRaised(e)
  BY <1>10 DEF applyChallengeRaised, tree, claims, ChallengeStates
<1>11. CASE UNCHANGED broken /\ e.type = "challenge_closed" /\ applyChallengeClosed(e)
  <2>1. e.to \in {"resolved", "withdrawn"}
    BY <1>11 DEF EventOK
  <2> QED
    BY <1>11, <2>1 DEF applyChallengeClosed, tree, claims, ChallengeStates
<1> QED
  BY <1>1, <1>2, <1>3, <1>4, <1>5, <1>6, <1>7, <1>8, <1>9, <1>10, <1>11 DEF Apply

(* An append leaves the other commands with a state that may no longer be  *)
(* the one they checked, and its own command with the rest of its list.    *)
LEMMA AppendKeeps ==
    ASSUME IInv, NEW a \in Agents, AppendEvent(a)
    PROVE  IInv'
<1> DEFINE e == Head(todo[a]).event
<1>1. /\ IsSeq(todo[a]) /\ todo[a] # <<>>
      /\ \A i \in 1 .. Len(todo[a]) : ItemOK(a, cmd[a], i, todo[a][i], fresh[a])
  BY DEF IInv, AppendEvent
<1>2. /\ Len(todo[a]) \in Nat /\ 1 \in 1 .. Len(todo[a]) /\ Head(todo[a]) = todo[a][1]
      /\ IsSeq(Tail(todo[a]))
      /\ Len(Tail(todo[a])) = Len(todo[a]) - 1
      /\ \A i \in 1 .. Len(Tail(todo[a])) :
            i + 1 \in 1 .. Len(todo[a]) /\ Tail(todo[a])[i] = todo[a][i + 1]
  BY <1>1, SeqTail
<1>3. EventOK(e) /\ Apply(e)
  BY <1>1, <1>2 DEF ItemOK, AppendEvent
<1> HIDE DEF e
<1>4. /\ Fields'
      /\ nodes \subseteq nodes'
      /\ \A c \in Challenges : status[c] # "unraised" => status'[c] # "unraised"
  BY <1>3, ApplyKeeps DEF IInv
<1>5. /\ cmd' \in [Agents -> Commands \cup {"none"}]
      /\ todo' = [b \in Agents |-> todo'[b]]
      /\ fresh' \in [Agents -> BOOLEAN]
      /\ todo'[a] = Tail(todo[a])
      /\ cmd'[a] = cmd[a] \/ todo'[a] = <<>>
      /\ \A b \in Agents \ {a} : cmd'[b] = cmd[b] /\ todo'[b] = todo[b] /\ fresh'[b] = FALSE
  BY DEF IInv, AppendEvent, Remain
<1>6. ASSUME NEW x, EventOK(x) PROVE EventOK(x)'
  BY <1>4, <1>6 DEF EventOK
<1>7. ASSUME NEW b \in Agents
      PROVE  IsSeq(todo[b])' /\ \A i \in 1 .. Len(todo'[b]) :
                                   ItemOK(b, cmd[b], i, todo[b][i], fresh[b])'
  <2>1. CASE b = a
    <3>1. IsSeq(todo[b])'
      <4>1. IsSeq(todo'[b])
        BY <1>2, <1>5, <2>1
      <4> QED
        BY <4>1 DEF IsSeq
    <3>2. ASSUME NEW i \in 1 .. Len(todo'[b])
          PROVE  ItemOK(b, cmd[b], i, todo[b][i], fresh[b])'
      <4>1. /\ i \in Nat \ {0} /\ i + 1 \in 1 .. Len(todo[a]) /\ i + 1 # 1
            /\ todo'[b][i] = todo[a][i + 1]
            /\ cmd'[b] = cmd[a]
        BY <1>2, <1>5, <2>1
      <4> DEFINE x == todo[a][i + 1]
      <4>2. ItemOK(a, cmd[a], i + 1, x, fresh[a])
        BY <1>1, <4>1
      <4>3. EventOK(todo[b][i].event)'
        BY <1>6, <4>1, <4>2 DEF ItemOK, EventOK
      <4>4. \/ todo'[b][i].cas = TRUE /\ cmd'[b] = "recompute"
               /\ todo'[b][i].event.type = "taint_recomputed"
            \/ todo'[b][i].cas = FALSE /\ PlainRole(cmd'[b], todo'[b][i].event.type)
        <5>1. todo'[b][i] = x
          BY <4>1
        <5> HIDE DEF x
        <5>2. \/ x.cas = TRUE /\ cmd[a] = "recompute" /\ x.event.type = "taint_recomputed"
              \/ x.cas = FALSE /\ PlainRole(cmd[a], x.event.type)
          BY <4>1, <4>2, Zenon DEF ItemOK
        <5> QED
          BY <4>1, <5>1, <5>2, Zenon
      <4>5. todo'[b][i].cas = TRUE => Guard(b, cmd[b], todo[b][i].event)'
        BY <4>3, <4>4 DEF Guard, Applicable, EventOK
      <4> QED
        BY <4>3, <4>4, <4>5 DEF ItemOK, PlainRole
    <3> QED
      BY <3>1, <3>2
  <2>2. CASE b # a
    <3>1. cmd'[b] = cmd[b] /\ todo'[b] = todo[b] /\ fresh'[b] = FALSE
      BY <1>5, <2>2
    <3>2. IsSeq(todo[b])'
      BY <3>1 DEF IInv, IsSeq
    <3>3. ASSUME NEW i \in 1 .. Len(todo'[b])
          PROVE  ItemOK(b, cmd[b], i, todo[b][i], fresh[b])'
      <4>1. ItemOK(b, cmd[b], i, todo[b][i], fresh[b])
        BY <3>1 DEF IInv
      <4>2. EventOK(todo[b][i].event)'
        BY <1>6, <3>1, <4>1 DEF ItemOK, EventOK
      <4> QED
        BY <3>1, <4>1, <4>2 DEF ItemOK, FirstRole, PlainRole
    <3> QED
      BY <3>2, <3>3
  <2> QED
    BY <2>1, <2>2
<1> QED
  BY <1>4, <1>5, <1>7 DEF IInv

---------------------------------------------------------------------------
(* The other steps.                                                        *)

(* The orders in which taint is recorded are sequences of nodes.           *)
LEMMA TaintOrdersAreSequences ==
    ASSUME NEW ns, ns \subseteq nodes, IsFiniteSet(nodes), NEW s \in TaintOrders(ns)
    PROVE  \E k \in Nat : DOMAIN s = 1 .. k /\ \A i \in 1 .. k : s[i] \in nodes
<1>1. IsFiniteSet(ns)
  BY FS_Subset
<1>2. Cardinality(ns) \in Nat
  BY <1>1, FS_CardinalityType
<1> QED
  BY <1>2 DEF TaintOrders

(* An agent whose command is over, or that has only taint records left,    *)
(* has nothing pending that the invariant could speak of but those.        *)
LEMMA RestKeeps ==
    ASSUME IInv, NEW a \in Agents, NEW s, NEW t, Remain(a, s, t), UNCHANGED replayed,
           fresh' = [fresh EXCEPT ![a] = FALSE],
           IsSeq(s), \A i \in 1 .. Len(s) : ItemOK(a, cmd[a], i, s[i], FALSE)
    PROVE  IInv'
<1>1. UNCHANGED <<broken, nodes, epistemic, workflow, claimedBy, deps, valDeps, amended,
                  status, target, blocking>>
  BY DEF replayed, tree, claims, challenges
<1>2. /\ cmd' \in [Agents -> Commands \cup {"none"}]
      /\ todo' = [b \in Agents |-> todo'[b]]
      /\ fresh' \in [Agents -> BOOLEAN]
  BY DEF IInv, Remain
<1>3. ASSUME NEW b \in Agents
      PROVE  /\ IsSeq(todo'[b])
             /\ \A i \in 1 .. Len(todo'[b]) : ItemOK(b, cmd'[b], i, todo'[b][i], fresh'[b])
  <2>1. CASE b = a
    <3>1. todo'[b] = s /\ fresh'[b] = FALSE
      BY <2>1 DEF IInv, Remain
    <3>2. cmd'[b] = cmd[a] \/ s = <<>>
      BY <2>1 DEF IInv, Remain
    <3>3. s = <<>> => 1 .. Len(s) = {}
      OBVIOUS
    <3> QED
      BY <2>1, <3>1, <3>2, <3>3
  <2>2. CASE b # a
    <3>1. cmd'[b] = cmd[b] /\ todo'[b] = todo[b] /\ fresh'[b] = fresh[b]
      BY <2>2 DEF IInv, Remain
    <3> QED
      BY <3>1 DEF IInv
  <2> QED
    BY <2>1, <2>2
<1> QED
  BY <1>1, <1>2, <1>3, SameItems DEF IInv

(* A command that gives up keeps the invariant.                            *)
LEMMA AbandonKeeps ==
    ASSUME IInv, NEW a \in Agents, Abandon(a)
    PROVE  IInv'
<1>1. IsSeq(<<>>)
  BY DEF IsSeq
<1>2. 1 .. Len(<<>>) = {}
  OBVIOUS
<1> QED
  BY <1>1, <1>2, RestKeeps DEF Abandon

(* So does one that turns to the taint records of its next node.           *)
LEMMA EmitTaintKeeps ==
    ASSUME IInv, NEW a \in Agents, EmitTaint(a)
    PROVE  IInv'
<1> DEFINE n == Head(emit[a])
           new == Propagate(nodes, epistemic, taint, Subtree(nodes, n))
           changed == IF broken THEN {} ELSE {m \in Subtree(nodes, n) : new[m] # taint[m]}
<1>1. changed \subseteq nodes
  BY DEF Subtree
<1>2. PICK s \in TaintOrders(changed) :
         Remain(a, [i \in DOMAIN s |-> Plain(TaintRecomputed(s[i], new[s[i]]))], Tail(emit[a]))
  BY DEF EmitTaint
<1> HIDE DEF changed, new
<1>3. PICK k \in Nat : DOMAIN s = 1 .. k /\ \A i \in 1 .. k : s[i] \in nodes
  BY <1>1, TaintOrdersAreSequences DEF IInv, Fields
<1> DEFINE l == [i \in 1 .. k |-> Plain(TaintRecomputed(s[i], new[s[i]]))]
<1>4. IsSeq(l) /\ Len(l) = k
  BY SeqOfFunction
<1>5. ASSUME NEW i \in 1 .. Len(l) PROVE ItemOK(a, cmd[a], i, l[i], FALSE)
  BY <1>3, <1>4
     DEF ItemOK, EventOK, PlainRole, Plain, TaintRecomputed, EventTypes
<1> QED
  BY <1>2, <1>3, <1>4, <1>5, RestKeeps DEF EmitTaint

(* Time passing leaves everything as it was but the expired claims.        *)
LEMMA ClaimExpiresKeeps ==
    ASSUME IInv, ClaimExpires
    PROVE  IInv'
<1>1. /\ UNCHANGED <<broken, nodes, epistemic, workflow, claimedBy, deps, valDeps, amended,
                     status, target, blocking>>
      /\ UNCHANGED <<cmd, todo, fresh>>
  BY DEF ClaimExpires, tree, challenges, locals
<1> QED
  BY <1>1, SameItems DEF IInv

---------------------------------------------------------------------------
(* The commands.                                                           *)

(* A command with one comparing append, whose conditions the invariant     *)
(* remembers.                                                              *)
LEMMA IssueCas ==
    ASSUME IInv, NEW a \in Agents, NEW c, NEW e, NEW t, Issue(a, c, <<Cas(e)>>, t),
           EventOK(e), FirstRole(c, e.type), Guard(a, c, e)
    PROVE  IInv'
<1> DEFINE s == <<Cas(e)>>
<1>1. IsSeq(s) /\ Len(s) = 1 /\ s[1] = Cas(e)
  BY DEF IsSeq
<1>2. ASSUME NEW i \in 1 .. Len(s) PROVE ItemOK(a, c, i, s[i], TRUE)
  <2>1. i = 1 /\ s[i].event = e /\ s[i].cas = TRUE
    BY <1>1 DEF Cas
  <2> QED
    BY <2>1 DEF ItemOK
<1> QED
  BY <1>1, <1>2, IssueKeeps

(* A plain append carries no promise but that of its event.                *)
LEMMA PlainItem ==
    ASSUME NEW a, NEW c, NEW i, NEW f, NEW e, EventOK(e), PlainRole(c, e.type)
    PROVE  ItemOK(a, c, i, Plain(e), f)
<1>1. Plain(e).event = e /\ Plain(e).cas = FALSE
  BY DEF Plain
<1> QED
  BY <1>1 DEF ItemOK

(* A command with one plain append.                                        *)
LEMMA IssuePlain ==
    ASSUME IInv, NEW a \in Agents, NEW c, NEW e, NEW t, Issue(a, c, <<Plain(e)>>, t),
           EventOK(e), PlainRole(c, e.type)
    PROVE  IInv'
<1> DEFINE s == <<Plain(e)>>
<1>1. IsSeq(s) /\ Len(s) = 1 /\ s[1] = Plain(e)
  BY DEF IsSeq
<1>2. ASSUME NEW i \in 1 .. Len(s) PROVE ItemOK(a, c, i, s[i], TRUE)
  <2>1. s[i] = Plain(e)
    BY <1>1
  <2> QED
    BY <2>1, PlainItem
<1> QED
  BY <1>1, <1>2, IssueKeeps

(* appendBulkIfSequence: only the first event is compared.                 *)
LEMMA IssueBulk ==
    ASSUME IInv, NEW a \in Agents, NEW c, NEW k \in Nat, NEW f, NEW t,
           Issue(a, c, Bulk([i \in 1 .. k |-> f[i]]), t),
           \A i \in 1 .. k : /\ EventOK(f[i])
                             /\ FirstRole(c, f[i].type) /\ PlainRole(c, f[i].type)
                             /\ i = 1 => Guard(a, c, f[i])
    PROVE  IInv'
<1> DEFINE s == Bulk([i \in 1 .. k |-> f[i]])
<1>1. s = [i \in 1 .. k |-> IF i = 1 THEN Cas(f[i]) ELSE Plain(f[i])]
  BY DEF Bulk
<1>2. IsSeq(s) /\ Len(s) = k
  BY <1>1, SeqOfFunction
<1> HIDE DEF s
<1>3. ASSUME NEW i \in 1 .. Len(s) PROVE ItemOK(a, c, i, s[i], TRUE)
  <2>1. /\ i \in 1 .. k
        /\ s[i].event = f[i]
        /\ s[i].cas = (i = 1)
    BY <1>1, <1>2 DEF Cas, Plain
  <2> QED
    BY <2>1 DEF ItemOK
<1> QED
  BY <1>2, <1>3, IssueKeeps DEF s

(* The parent of a child of n is n.                                        *)
LEMMA ParentOfChild ==
    ASSUME NEW n \in Seq(Nat), NEW i
    PROVE  Parent(Child(n, i)) = n
<1> DEFINE S == Nat \cup {i}
<1>1. n \in Seq(S) /\ i \in S
  OBVIOUS
<1> HIDE DEF S
<1>2. /\ Append(n, i) \in Seq(S) /\ Len(n) \in Nat /\ Len(Append(n, i)) = Len(n) + 1
      /\ \A j \in 1 .. Len(n) : Append(n, i)[j] = n[j]
  BY <1>1
<1>3. SubSeq(Append(n, i), 1, Len(n)) = [j \in 1 .. Len(n) |-> Append(n, i)[j]]
  BY <1>1, <1>2
<1>4. n = [j \in 1 .. Len(n) |-> n[j]]
  BY <1>1
<1>5. Len(Append(n, i)) - 1 = Len(n)
  BY <1>2
<1> QED
  BY <1>2, <1>3, <1>4, <1>5 DEF Parent, Child

(* Loading the state keeps the invariant: one case per command.            *)
LEMMA LoadKeeps ==
    ASSUME IInv, NEW a \in Agents, Load(a)
    PROVE  IInv'
<1> USE StateAssumption, ServiceAssumption
<1>1. CASE ClaimNode(a)
  <2>1. PICK n \in nodes : /\ workflow[n] = "available"
                           /\ Issue(a, "claim", <<Cas(NodesClaimed(n, a))>>, <<>>)
    BY <1>1 DEF ClaimNode
  <2>2. /\ EventOK(NodesClaimed(n, a)) /\ FirstRole("claim", NodesClaimed(n, a).type)
        /\ Guard(a, "claim", NodesClaimed(n, a))
    BY <2>1 DEF NodesClaimed, EventOK, EventTypes, FirstRole, Guard, Applicable,
                WorkflowTransition
  <2> QED
    BY <2>1, <2>2, IssueCas
<1>2. CASE RefreshClaim(a)
  <2>1. PICK n \in nodes : /\ workflow[n] = "claimed" /\ claimedBy[n] = a
                           /\ Issue(a, "refresh", <<Cas(ClaimRefreshed(n, a))>>, <<>>)
    BY <1>2 DEF RefreshClaim
  <2>2. /\ EventOK(ClaimRefreshed(n, a)) /\ FirstRole("refresh", ClaimRefreshed(n, a).type)
        /\ Guard(a, "refresh", ClaimRefreshed(n, a))
    BY <2>1 DEF ClaimRefreshed, EventOK, EventTypes, FirstRole, Guard, Applicable
  <2> QED
    BY <2>1, <2>2, IssueCas
<1>3. CASE ReleaseNode(a)
  <2>1. PICK n \in nodes : /\ workflow[n] = "claimed" /\ claimedBy[n] = a
                           /\ Issue(a, "release", <<Cas(NodesReleased({n}))>>, <<>>)
    BY <1>3 DEF ReleaseNode
  <2>2. /\ EventOK(NodesReleased({n})) /\ FirstRole("release", NodesReleased({n}).type)
        /\ Guard(a, "release", NodesReleased({n}))
    BY <2>1 DEF NodesReleased, EventOK, EventTypes, FirstRole, Guard, Applicable,
                WorkflowTransition
  <2> QED
    BY <2>1, <2>2, IssueCas
<1>4. CASE Reap(a)
  <2>1. PICK c \in {"reap", "reap_all"}, ns \in SUBSET nodes :
           Issue(a, c, <<Plain(NodesReleased(ns))>>, <<>>)
    BY <1>4 DEF Reap
  <2>2. EventOK(NodesReleased(ns)) /\ PlainRole(c, NodesReleased(ns).type)
    BY DEF NodesReleased, EventOK, EventTypes, PlainRole
  <2> QED
    BY <2>1, <2>2, IssuePlain
<1>5. CASE InitProof(a)
  <2> DEFINE e == NodeCreated(Root, {}, {})
             s == <<Plain(ProofInitialized), Plain(e)>>
  <2>1. Issue(a, "init", s, <<>>)
    BY <1>5 DEF InitProof
  <2>2. IsSeq(s) /\ Len(s) = 2 /\ s[1] = Plain(ProofInitialized) /\ s[2] = Plain(e)
    BY DEF IsSeq
  <2>3. /\ EventOK(ProofInitialized) /\ PlainRole("init", ProofInitialized.type)
        /\ EventOK(e) /\ PlainRole("init", e.type)
    BY DEF ProofInitialized, NodeCreated, EventOK, EventTypes, PlainRole
  <2> HIDE DEF e, s
  <2>4. ASSUME NEW i \in 1 .. Len(s) PROVE ItemOK(a, "init", i, s[i], TRUE)
    <3>1. s[i] = Plain(ProofInitialized) \/ s[i] = Plain(e)
      BY <2>2
    <3> QED
      BY <2>3, <3>1, PlainItem
  <2> QED
    BY <2>1, <2>2, <2>4, IssueKeeps
<1>6. CASE CreateNode(a)
  <2>1. PICK n \in NodeIDs \ nodes : Issue(a, "create", <<Cas(NodeCreated(n, {}, {}))>>, <<>>)
    BY <1>6 DEF CreateNode
  <2>2. /\ EventOK(NodeCreated(n, {}, {})) /\ FirstRole("create", NodeCreated(n, {}, {}).type)
        /\ Guard(a, "create", NodeCreated(n, {}, {}))
    BY <2>1 DEF NodeCreated, EventOK, EventTypes, FirstRole, Guard, Applicable
  <2> QED
    BY <2>1, <2>2, IssueCas
<1>7. CASE Refine(a)
  <2>1. PICK n \in nodes, m \in NodeIDs \ nodes, ds \in SUBSET nodes, vs \in SUBSET nodes :
           /\ m = Child(n, NextChildNumber(n))
           /\ claimedBy[n] = a
           /\ Issue(a, "refine", <<Cas(NodeCreated(m, ds, vs))>>, <<>>)
    BY <1>7 DEF Refine
  <2>2. Parent(m) = n
    BY <2>1, ParentOfChild DEF IInv, Fields
  <2> DEFINE e == NodeCreated(m, ds, vs)
  <2>3. /\ EventOK(e) /\ FirstRole("refine", e.type) /\ Guard(a, "refine", e)
    BY <2>1, <2>2 DEF NodeCreated, EventOK, EventTypes, FirstRole, Guard, Applicable,
                      IInv, Fields
  <2> QED
    BY <2>1, <2>3, IssueCas
<1>8. CASE RefineNodeBulk(a)
  <2>1. PICK n \in nodes, k \in 1 .. MaxBulk :
           LET first == NextChildNumber(n) IN
           /\ \A i \in 1 .. k : Child(n, first + i - 1) \in NodeIDs
           /\ Issue(a, "refine_bulk",
                 Bulk([i \in 1 .. k |-> NodeCreated(Child(n, first + i - 1), {}, {})]), <<>>)
    BY <1>8 DEF RefineNodeBulk
  <2> DEFINE f == [i \in 1 .. k |-> NodeCreated(Child(n, NextChildNumber(n) + i - 1), {}, {})]
  <2>2. k \in Nat /\ f = [i \in 1 .. k |-> f[i]] /\ Issue(a, "refine_bulk", Bulk(f), <<>>)
    BY <2>1
  <2>3. ASSUME NEW i \in 1 .. k
        PROVE  /\ EventOK(f[i]) /\ Guard(a, "refine_bulk", f[i])
               /\ FirstRole("refine_bulk", f[i].type) /\ PlainRole("refine_bulk", f[i].type)
    <3> DEFINE m == Child(n, NextChildNumber(n) + i - 1)
    <3>1. m \in NodeIDs /\ f[i] = NodeCreated(m, {}, {})
      BY <2>1
    <3> HIDE DEF m, f
    <3> QED
      <4>1. f[i].type = "node_created" /\ f[i].node = m /\ f[i].deps = {} /\ f[i].valDeps = {}
        BY <3>1 DEF NodeCreated
      <4>2. EventOK(f[i])
        BY <3>1, <4>1 DEF EventOK, EventTypes
      <4>3. Guard(a, "refine_bulk", f[i])
        BY <4>1 DEF Guard, Applicable
      <4> QED
        BY <4>1, <4>2, <4>3 DEF FirstRole, PlainRole
  <2> HIDE DEF f
  <2> QED
    BY <2>2, <2>3, IssueBulk
<1>9. CASE AmendNode(a)
  <2>1. PICK n \in nodes : /\ epistemic[n] = "pending"
                           /\ Issue(a, "amend", <<Cas(NodeAmended(n))>>, <<>>)
    BY <1>9 DEF AmendNode
  <2>2. /\ EventOK(NodeAmended(n)) /\ FirstRole("amend", NodeAmended(n).type)
        /\ Guard(a, "amend", NodeAmended(n))
    BY <2>1 DEF NodeAmended, EventOK, EventTypes, FirstRole, Guard, Applicable
  <2> QED
    BY <2>1, <2>2, IssueCas
<1>10. CASE AcceptNodeWithNote(a)
  <2>1. PICK n \in nodes :
           /\ Acceptable(n) /\ EpistemicTransition(epistemic[n], "validated")
           /\ Issue(a, "accept", <<Cas(EpistemicChange(n, "validated"))>>, <<n>>)
    BY <1>10 DEF AcceptNodeWithNote
  <2> DEFINE e == EpistemicChange(n, "validated")
  <2>2. EventOK(e) /\ FirstRole("accept", e.type) /\ Guard(a, "accept", e)
    BY <2>1 DEF EpistemicChange, EventOK, EventTypes, EpistemicStates, FirstRole, Guard,
                Applicable
  <2> QED
    BY <2>1, <2>2, IssueCas
<1>11. CASE AcceptNodeBulk(a)
  <2>1. PICK c \in {"accept_bulk", "accept_all"}, k \in 2 .. MaxBulk : \E ids \in [1 .. k -> nodes] :
           /\ \A i \in 1 .. k : EpistemicTransition(epistemic[ids[i]], "validated")
           /\ Issue(a, c, Bulk([i \in 1 .. k |-> EpistemicChange(ids[i], "validated")]), ids)
    BY <1>11 DEF AcceptNodeBulk
  <2>2. PICK ids \in [1 .. k -> nodes] :
           /\ \A i \in 1 .. k : EpistemicTransition(epistemic[ids[i]], "validated")
           /\ Issue(a, c, Bulk([i \in 1 .. k |-> EpistemicChange(ids[i], "validated")]), ids)
    BY <2>1
  <2> DEFINE f == [i \in 1 .. k |-> EpistemicChange(ids[i], "validated")]
  <2>3. k \in Nat /\ f = [i \in 1 .. k |-> f[i]] /\ Issue(a, c, Bulk(f), ids)
    BY <2>2
  <2>4. ASSUME NEW i \in 1 .. k
        PROVE  /\ EventOK(f[i]) /\ Guard(a, c, f[i])
               /\ FirstRole(c, f[i].type) /\ PlainRole(c, f[i].type)
    BY <2>2 DEF EpistemicChange, EventOK, EventTypes, EpistemicStates, FirstRole, PlainRole,
                Guard, Applicable
  <2> HIDE DEF f
  <2> QED
    BY <2>3, <2>4, IssueBulk
<1>12. ASSUME NEW c \in {"admit", "refute", "archive", "request_refinement"}, NEW n \in nodes,
              NEW to \in EpistemicStates, NEW t, EpistemicTransition(epistemic[n], to),
              Issue(a, c, <<Cas(EpistemicChange(n, to))>>, t)
       PROVE  IInv'
  <2> DEFINE e == EpistemicChange(n, to)
  <2>1. EventOK(e) /\ FirstRole(c, e.type) /\ Guard(a, c, e)
    BY <1>12 DEF EpistemicChange, EventOK, EventTypes, FirstRole, Guard, Applicable
  <2> QED
    BY <1>12, <2>1, IssueCas
<1>13. CASE AdmitNode(a) \/ RefuteNode(a) \/ ArchiveNode(a) \/ RequestRefinement(a)
  BY <1>12, <1>13 DEF AdmitNode, RefuteNode, ArchiveNode, RequestRefinement, Verdict,
                      EpistemicStates
<1>14. CASE RaiseChallenge(a)
  <2>1. PICK c \in Challenges, n \in nodes, b \in BOOLEAN :
           Issue(a, "challenge", <<Plain(ChallengeRaised(c, n, b))>>, <<>>)
    BY <1>14 DEF RaiseChallenge
  <2>2. /\ EventOK(ChallengeRaised(c, n, b))
        /\ PlainRole("challenge", ChallengeRaised(c, n, b).type)
    BY DEF ChallengeRaised, EventOK, EventTypes, PlainRole
  <2> QED
    BY <2>1, <2>2, IssuePlain
<1>15. CASE ResolveChallenge(a) \/ WithdrawChallenge(a)
  <2>1. PICK c \in {"resolve", "withdraw"}, k \in Challenges, to \in {"resolved", "withdrawn"} :
           LooksOpen(k) /\ Issue(a, c, <<Plain(ChallengeClosed(k, to))>>, <<>>)
    BY <1>15 DEF ResolveChallenge, WithdrawChallenge
  <2>2. EventOK(ChallengeClosed(k, to)) /\ PlainRole(c, ChallengeClosed(k, to).type)
    BY <2>1 DEF ChallengeClosed, EventOK, EventTypes, PlainRole, LooksOpen
  <2> QED
    BY <2>1, <2>2, IssuePlain
<1>16. CASE RecomputeAllTaint(a)
  <2> DEFINE new == Propagate(nodes, epistemic, taint, nodes)
             changed == {n \in nodes : new[n] # taint[n]}
  <2>1. PICK s \in TaintOrders(changed) :
           Issue(a, "recompute",
                 [i \in DOMAIN s |-> Cas(TaintRecomputed(s[i], new[s[i]]))], <<>>)
    BY <1>16 DEF RecomputeAllTaint
  <2>2. changed \subseteq nodes
    OBVIOUS
  <2> HIDE DEF changed, new
  <2>3. PICK k \in Nat : DOMAIN s = 1 .. k /\ \A i \in 1 .. k : s[i] \in nodes
    BY <2>2, TaintOrdersAreSequences DEF IInv, Fields
  <2> DEFINE l == [i \in 1 .. k |-> Cas(TaintRecomputed(s[i], new[s[i]]))]
  <2>4. IsSeq(l) /\ Len(l) = k
    BY SeqOfFunction
  <2>5. ASSUME NEW i \in 1 .. Len(l) PROVE ItemOK(a, "recompute", i, l[i], TRUE)
    BY <2>3, <2>4
       DEF ItemOK, EventOK, Guard, Applicable, Cas, TaintRecomputed, EventTypes
  <2> QED
    BY <2>1, <2>3, <2>4, <2>5, IssueKeeps
<1> QED
  BY <1>1, <1>2, <1>3, <1>4, <1>5, <1>6, <1>7, <1>8, <1>9, <1>10, <1>11, <1>13, <1>14, <1>15,
     <1>16 DEF Load

---------------------------------------------------------------------------
(* The invariant.                                                          *)

(* The invariant holds in the initial state, in which nobody has loaded    *)
(* anything.                                                               *)
LEMMA InitIInv == Init => IInv
<1> SUFFICES ASSUME Init PROVE IInv
  OBVIOUS
<1>1. Fields
  BY ServiceAssumption
     DEF Init, StateInit, Fields, EpistemicStates, WorkflowStates, ChallengeStates
<1>2. ASSUME NEW a \in Agents PROVE todo[a] = <<>> /\ IsSeq(todo[a]) /\ 1 .. Len(todo[a]) = {}
  BY DEF Init, IsSeq
<1> QED
  BY <1>1, <1>2 DEF Init, IInv

(* Every step keeps the invariant.                                         *)
LEMMA NextIInv == IInv /\ [Next]_vars => IInv'
<1> SUFFICES ASSUME IInv, [Next]_vars PROVE IInv'
  OBVIOUS
<1>1. CASE ClaimExpires
  BY <1>1, ClaimExpiresKeeps
<1>2. ASSUME NEW a \in Agents, Load(a) \/ Continue(a) \/ Crash(a) PROVE IInv'
  BY <1>2, LoadKeeps, AppendKeeps, EmitTaintKeeps, AbandonKeeps
     DEF Continue, SequenceMismatch, Crash
<1>3. CASE UNCHANGED vars
  <2>1. /\ UNCHANGED <<broken, nodes, epistemic, workflow, claimedBy, deps, valDeps, amended,
                       status, target, blocking>>
        /\ UNCHANGED <<cmd, todo, fresh>>
    BY <1>3 DEF vars, replayed, tree, claims, challenges, locals
  <2> QED
    BY <2>1, SameItems DEF IInv
<1> QED
  BY <1>1, <1>2, <1>3 DEF Next

(* Whatever commands are in use: a waiting comparing append that would     *)
(* succeed still meets the conditions its command checked when it loaded   *)
(* the state.                                                              *)
THEOREM ChecksStillHold == Spec => []IInv
<1>1. Init => IInv
  BY InitIInv
<1>2. IInv /\ [Next]_vars => IInv'
  BY NextIInv
<1> QED
  BY <1>1, <1>2, PTL DEF Spec

---------------------------------------------------------------------------
(* What a step does to the replayed state.                                 *)

(* Only an append, or time passing, changes the replayed state.            *)
LEMMA StepCases ==
    ASSUME IInv, [Next]_vars
    PROVE  UNCHANGED replayed \/ ClaimExpires \/ \E a \in Agents : AppendEvent(a)
<1>1. ASSUME NEW a \in Agents, Load(a) PROVE UNCHANGED replayed
  BY <1>1 DEF Load, Issue, ClaimNode, RefreshClaim, ReleaseNode, Reap, InitProof, CreateNode,
     Refine, RefineNodeBulk, AmendNode, AcceptNodeWithNote, AcceptNodeBulk, AdmitNode,
     RefuteNode, ArchiveNode, Verdict, RequestRefinement, RaiseChallenge, ResolveChallenge,
     WithdrawChallenge, RecomputeAllTaint
<1>2. ASSUME NEW a \in Agents, SequenceMismatch(a) \/ EmitTaint(a) \/ Crash(a)
      PROVE  UNCHANGED replayed
  BY <1>2 DEF SequenceMismatch, EmitTaint, Crash, Abandon
<1> QED
  BY <1>1, <1>2 DEF Next, Continue, vars

(* What is appended: an event whose command's conditions hold in the very  *)
(* state it is applied to, or one of those appended without comparing.     *)
LEMMA AppendCases ==
    ASSUME IInv, NEW a \in Agents, AppendEvent(a)
    PROVE  LET e == Head(todo[a]).event IN
           /\ Apply(e) /\ EventOK(e)
           /\ \/ FirstRole(cmd[a], e.type) /\ Guard(a, cmd[a], e)
              \/ cmd[a] = "recompute" /\ e.type = "taint_recomputed"
              \/ PlainRole(cmd[a], e.type)
           /\ cmd[a] \in Commands \cup {"none"}
           /\ todo'[a] # todo[a]
           /\ \A b \in Agents : todo'[b] # todo[b] => b = a
<1>1. /\ Len(todo[a]) \in Nat /\ 1 \in 1 .. Len(todo[a]) /\ Head(todo[a]) = todo[a][1]
      /\ Len(Tail(todo[a])) = Len(todo[a]) - 1
  BY SeqTail DEF IInv, AppendEvent
<1>2. ItemOK(a, cmd[a], 1, todo[a][1], fresh[a])
  BY <1>1 DEF IInv
<1>3. /\ Head(todo[a]).cas => fresh[a]
      /\ Apply(Head(todo[a]).event)
      /\ todo' = [todo EXCEPT ![a] = Tail(todo[a])]
  BY DEF AppendEvent, Remain
<1>4. todo'[a] = Tail(todo[a]) /\ \A b \in Agents : b # a => todo'[b] = todo[b]
  BY <1>3 DEF IInv
<1>5. Tail(todo[a]) # todo[a]
  <2> SUFFICES ASSUME Tail(todo[a]) = todo[a] PROVE FALSE
    OBVIOUS
  <2> DEFINE k == Len(todo[a])
  <2>1. Len(Tail(todo[a])) = k
    BY Zenon
  <2>2. k \in Nat /\ k = k - 1
    BY <1>1, <2>1
  <2> HIDE DEF k
  <2> QED
    BY <2>2
<1>6. cmd[a] \in Commands \cup {"none"}
  BY DEF IInv
<1> QED
  BY <1>1, <1>2, <1>3, <1>4, <1>5, <1>6 DEF ItemOK

---------------------------------------------------------------------------
(* The properties.                                                         *)

(* As long as nobody uses bulk acceptance or reaping, every event in the   *)
(* ledger can be replayed: the comparison in AppendIfSequence protects all *)
(* the other commands, whoever else appends.                               *)
THEOREM AlwaysReplayable ==
    ASSUME Commands \cap Poisonous = {}
    PROVE  Spec => []Replayable
<1>1. Init => Replayable
  BY DEF Init, StateInit, Replayable
<1>2. IInv /\ Replayable /\ [Next]_vars => Replayable'
  <2> SUFFICES ASSUME IInv, Replayable, [Next]_vars PROVE Replayable'
    OBVIOUS
  <2>1. CASE UNCHANGED replayed
    BY <2>1 DEF Replayable, replayed
  <2>2. CASE ClaimExpires
    BY <2>2 DEF Replayable, ClaimExpires
  <2>3. ASSUME NEW a \in Agents, AppendEvent(a) PROVE Replayable'
    <3> DEFINE e == Head(todo[a]).event
    <3>1. /\ Apply(e) /\ EventOK(e)
          /\ \/ FirstRole(cmd[a], e.type) /\ Guard(a, cmd[a], e)
             \/ e.type = "taint_recomputed"
             \/ PlainRole(cmd[a], e.type)
          /\ cmd[a] \notin Poisonous
      BY <2>3, AppendCases DEF Poisonous
    <3> HIDE DEF e
    <3>2. CASE Guard(a, cmd[a], e)
      BY <3>1, <3>2 DEF Guard, Apply, Replayable
    <3>3. CASE e.type = "taint_recomputed" \/ PlainRole(cmd[a], e.type)
      <4>1. Applicable(e)
        BY <3>1, <3>3 DEF Applicable, EventOK, PlainRole, Poisonous
      <4> QED
        BY <3>1, <4>1 DEF Apply, Replayable
    <3> QED
      BY <3>1, <3>2, <3>3
  <2> QED
    BY <2>1, <2>2, <2>3, StepCases
<1> QED
  BY <1>1, <1>2, ChecksStillHold, PTL DEF Spec

(* Whatever else goes on, af accept validates a node only in a state in    *)
(* which it has no blocking challenge and its validation dependencies and  *)
(* children are settled.                                                   *)
THEOREM AcceptIsSound == Spec => AcceptSound
<1> DEFINE A == \A n \in nodes :
                   epistemic[n] # "validated" /\ epistemic'[n] = "validated" /\ Carries("accept")
                      => Acceptable(n)
<1>1. IInv /\ [Next]_vars => A
  <2> SUFFICES ASSUME IInv, [Next]_vars, NEW n \in nodes, epistemic[n] # "validated",
                      epistemic'[n] = "validated", Carries("accept")
               PROVE  Acceptable(n)
    OBVIOUS
  <2>1. PICK a \in Agents : AppendEvent(a)
    BY StepCases DEF replayed, tree, ClaimExpires
  <2> DEFINE e == Head(todo[a]).event
  <2>2. /\ Apply(e)
        /\ (FirstRole(cmd[a], e.type) /\ Guard(a, cmd[a], e)) \/ PlainRole(cmd[a], e.type)
        /\ cmd[a] = "accept"
    BY <2>1, AppendCases DEF Carries, PlainRole
  <2> HIDE DEF e
  <2>3. e.type \in {"epistemic", "taint_recomputed"}
    BY <2>2 DEF FirstRole, PlainRole
  <2>4. e.type = "epistemic" /\ epistemic' = [epistemic EXCEPT ![e.node] = e.to]
    BY <2>2, <2>3 DEF Apply, applyEpistemic, applyTaintRecomputed, tree
  <2>5. n = e.node
    BY <2>4 DEF IInv, Fields
  <2>6. Guard(a, "accept", e)
    BY <2>2, <2>4 DEF PlainRole
  <2> QED
    BY <2>5, <2>6 DEF Guard
<1> QED
  BY <1>1, ChecksStillHold, PTL DEF Spec, AcceptSound

(* Whatever else goes on, and though claims may be reaped at any time, a   *)
(* single refinement adds a child only under a node its agent holds.       *)
THEOREM RefinersHoldTheParent ==
    ASSUME "refine_bulk" \notin Commands
    PROVE  Spec => OnlyHolderRefines
<1> DEFINE A == \A m \in nodes' \ nodes :
                   Carries("refine") \/ Carries("refine_bulk")
                      => \E a \in Agents :
                            /\ cmd[a] \in {"refine", "refine_bulk"} /\ todo'[a] # todo[a]
                            /\ Parent(m) \in nodes /\ claimedBy[Parent(m)] = a
<1>1. IInv /\ [Next]_vars => A
  <2> SUFFICES ASSUME IInv, [Next]_vars, NEW m \in nodes' \ nodes,
                      Carries("refine") \/ Carries("refine_bulk")
               PROVE  \E a \in Agents :
                         /\ cmd[a] \in {"refine", "refine_bulk"} /\ todo'[a] # todo[a]
                         /\ Parent(m) \in nodes /\ claimedBy[Parent(m)] = a
    OBVIOUS
  <2>1. PICK a \in Agents : AppendEvent(a)
    BY StepCases DEF replayed, tree, ClaimExpires
  <2> DEFINE e == Head(todo[a]).event
  <2>2. /\ Apply(e) /\ todo'[a] # todo[a]
        /\ (FirstRole(cmd[a], e.type) /\ Guard(a, cmd[a], e)) \/ PlainRole(cmd[a], e.type)
        /\ cmd[a] = "refine"
    BY <2>1, AppendCases DEF Carries, PlainRole
  <2> HIDE DEF e
  <2>3. e.type \in {"node_created", "taint_recomputed"}
    BY <2>2 DEF FirstRole, PlainRole
  <2>4. e.type = "node_created" /\ nodes' = nodes \cup {e.node}
    BY <2>2, <2>3 DEF Apply, applyNodeCreated, applyTaintRecomputed, tree
  <2>5. m = e.node
    BY <2>4
  <2>6. Guard(a, "refine", e)
    BY <2>2, <2>4 DEF PlainRole
  <2> QED
    BY <2>2, <2>5, <2>6 DEF Guard
<1> QED
  BY <1>1, ChecksStillHold, PTL DEF Spec, OnlyHolderRefines

(* As long as nobody reaps claims and nobody replaces nodes, a claim ends  *)
(* only when its holder releases it.                                       *)
THEOREM ClaimsAreKept ==
    ASSUME Commands \cap (Replacing \cup {"reap", "reap_all"}) = {}
    PROVE  Spec => ClaimKept
<1> DEFINE A == \A n \in nodes :
                   workflow[n] = "claimed"
                     /\ (workflow'[n] # "claimed" \/ claimedBy'[n] # claimedBy[n])
                      => \E a \in Agents :
                            a = claimedBy[n] /\ cmd[a] = "release" /\ todo'[a] # todo[a]
<1>1. IInv /\ [Next]_vars => A
  <2> SUFFICES ASSUME IInv, [Next]_vars, NEW n \in nodes, workflow[n] = "claimed",
                      workflow'[n] # "claimed" \/ claimedBy'[n] # claimedBy[n]
               PROVE  \E a \in Agents :
                         a = claimedBy[n] /\ cmd[a] = "release" /\ todo'[a] # todo[a]
    OBVIOUS
  <2>1. PICK a \in Agents : AppendEvent(a)
    BY StepCases DEF replayed, claims, ClaimExpires
  <2> DEFINE e == Head(todo[a]).event
  <2>2. /\ Apply(e) /\ todo'[a] # todo[a]
        /\ \/ FirstRole(cmd[a], e.type) /\ Guard(a, cmd[a], e)
           \/ cmd[a] = "recompute" /\ e.type = "taint_recomputed"
           \/ PlainRole(cmd[a], e.type)
        /\ cmd[a] \notin Replacing \cup {"reap", "reap_all"}
    BY <2>1, AppendCases DEF Replacing
  <2> HIDE DEF e
  <2>3. /\ n \in NodeIDs /\ workflow \in [NodeIDs -> WorkflowStates]
        /\ claimedBy \in [NodeIDs -> Agents \cup {NoAgent}]
    BY DEF IInv, Fields
  <2>4. /\ ~broken /\ Applicable(e)
        /\ \/ e.type = "node_created" /\ applyNodeCreated(e)
           \/ e.type = "nodes_claimed" /\ applyNodesClaimed(e)
           \/ e.type = "nodes_released" /\ applyNodesReleased(e)
    BY <2>2 DEF Apply, claims, applyProofInitialized, applyClaimRefreshed, applyEpistemic,
       applyTaintRecomputed, applyNodeAmended, applyChallengeRaised, applyChallengeClosed
  <2>5. CASE e.type = "node_created" /\ applyNodeCreated(e)
    <3>1. e.node \notin nodes
      BY <2>2, <2>5 DEF FirstRole, PlainRole, Guard, Replacing
    <3> QED
      BY <2>3, <2>5, <3>1 DEF applyNodeCreated
  <2>6. CASE e.type = "nodes_claimed" /\ applyNodesClaimed(e)
    <3>1. e.node # n
      BY <2>4, <2>6 DEF Applicable, WorkflowTransition
    <3> QED
      BY <2>3, <2>6, <3>1 DEF applyNodesClaimed
  <2>7. CASE e.type = "nodes_released" /\ applyNodesReleased(e)
    <3>1. cmd[a] = "release" /\ \A m \in e.ids : claimedBy[m] = a
      BY <2>2, <2>7 DEF FirstRole, PlainRole, Guard
    <3>2. n \in e.ids
      BY <2>3, <2>7 DEF applyNodesReleased
    <3> QED
      BY <2>2, <3>1, <3>2
  <2> QED
    BY <2>4, <2>5, <2>6, <2>7
<1> QED
  BY <1>1, ChecksStillHold, PTL DEF Spec, ClaimKept

(* Without a second af init and without bulk refinement no node is ever    *)
(* replaced: it keeps its dependencies, its verdict is final and its       *)
(* statement changes only while it is pending.                             *)
THEOREM NodesAreNotReplaced ==
    ASSUME Commands \cap Replacing = {}
    PROVE  Spec => NodeHistory
<1> DEFINE H(n) ==
              /\ n \in nodes'
              /\ deps'[n] = deps[n] /\ valDeps'[n] = valDeps[n]
              /\ epistemic'[n] # epistemic[n] =>
                    /\ epistemic[n] \notin {"admitted", "refuted", "archived"}
                    /\ epistemic'[n] # "pending"
                    /\ epistemic[n] = "validated" => epistemic'[n] = "needs_refinement"
              /\ amended'[n] # amended[n] => epistemic[n] = "pending" /\ amended'[n] > amended[n]
<1>1. IInv /\ [Next]_vars => \A n \in nodes : H(n)
  <2> SUFFICES ASSUME IInv, [Next]_vars, NEW n \in nodes PROVE H(n)
    OBVIOUS
  <2>1. CASE UNCHANGED tree
    BY <2>1 DEF tree
  <2>2. ASSUME NEW a \in Agents, AppendEvent(a) PROVE H(n)
    <3> DEFINE e == Head(todo[a]).event
    <3>1. /\ Apply(e)
          /\ \/ FirstRole(cmd[a], e.type) /\ Guard(a, cmd[a], e)
             \/ cmd[a] = "recompute" /\ e.type = "taint_recomputed"
             \/ PlainRole(cmd[a], e.type)
          /\ cmd[a] \notin Replacing
      BY <2>2, AppendCases DEF Replacing
    <3> HIDE DEF e
    <3>2. /\ n \in NodeIDs /\ epistemic \in [NodeIDs -> EpistemicStates]
          /\ deps \in [NodeIDs -> SUBSET NodeIDs] /\ valDeps \in [NodeIDs -> SUBSET NodeIDs]
          /\ amended \in [NodeIDs -> Nat]
      BY DEF IInv, Fields
    <3>3. \/ UNCHANGED <<nodes, epistemic, deps, valDeps, amended>>
          \/ e.type = "node_created" /\ applyNodeCreated(e)
          \/ e.type = "epistemic" /\ applyEpistemic(e) /\ Applicable(e)
          \/ e.type = "node_amended" /\ applyNodeAmended(e)
      BY <3>1 DEF Apply, tree, applyProofInitialized, applyNodesClaimed, applyClaimRefreshed,
         applyNodesReleased, applyTaintRecomputed, applyChallengeRaised, applyChallengeClosed
    <3>4. CASE e.type = "node_created" /\ applyNodeCreated(e)
      <4>1. e.node # n
        BY <3>1, <3>4 DEF FirstRole, PlainRole, Guard, Replacing
      <4> QED
        BY <3>2, <3>4, <4>1 DEF applyNodeCreated
    <3>5. CASE e.type = "epistemic" /\ applyEpistemic(e) /\ Applicable(e)
      <4>1. EpistemicTransition(epistemic[e.node], e.to)
        BY <3>5 DEF Applicable
      <4>2. epistemic'[n] = IF n = e.node THEN e.to ELSE epistemic[n]
        BY <3>2, <3>5 DEF applyEpistemic
      <4>3. UNCHANGED <<nodes, deps, valDeps, amended>>
        BY <3>5 DEF applyEpistemic
      <4> QED
        BY <4>1, <4>2, <4>3 DEF EpistemicTransition
    <3>6. CASE e.type = "node_amended" /\ applyNodeAmended(e)
      <4>1. epistemic[e.node] = "pending"
        BY <3>1, <3>6 DEF FirstRole, PlainRole, Guard
      <4>2. amended'[n] = IF n = e.node THEN amended[n] + 1 ELSE amended[n]
        BY <3>2, <3>6 DEF applyNodeAmended
      <4>3. UNCHANGED <<nodes, epistemic, deps, valDeps>> /\ amended[n] \in Nat
        BY <3>2, <3>6 DEF applyNodeAmended
      <4> QED
        BY <4>1, <4>2, <4>3
    <3> QED
      BY <3>3, <3>4, <3>5, <3>6
  <2> QED
    BY <2>1, <2>2, StepCases DEF replayed, ClaimExpires
<1> QED
  BY <1>1, ChecksStillHold, PTL DEF Spec, NodeHistory
===========================================================================
