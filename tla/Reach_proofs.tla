---------------------------- MODULE Reach_proofs ----------------------------
(***************************************************************************)
(* Proofs about Reach, for every set of blocks and definitions, every      *)
(* graph with mirrored edges and every order of the block addresses.       *)
(***************************************************************************)
EXTENDS Reach, TLAPS

(* An edge of the graph: its end is a node, and in both vectors. *)
LEMMA EdgeMirror ==
  ASSUME NEW c \in CFGs, NEW m \in c.nodes, NEW n \in Succs(c, m)
  PROVE  n \in c.nodes /\ m \in Preds(c, n)
  BY CFGsAssumption DEF MirroredEdges

(* An entry of a predecessor vector is a node whose successors hold it. *)
LEMMA PredIsNode ==
  ASSUME NEW c \in CFGs, NEW n \in c.nodes, NEW i \in 1 .. Len(c.pred[n])
  PROVE  c.pred[n][i] \in c.nodes /\ n \in Succs(c, c.pred[n][i])
<1>1. c.pred[n] \in Seq(Blocks)
  BY CFGsAssumption DEF CFG
<1>2. c.pred[n][i] \in Preds(c, n)
  BY <1>1 DEF Preds, Range
<1>. QED
  BY <1>2, CFGsAssumption DEF MirroredEdges

LEMMA FlowThroughType ==
  ASSUME NEW c \in CFGs, NEW n \in c.nodes, NEW E \in SUBSET Defs
  PROVE  FlowThrough(c, n, E) \in SUBSET Defs
  BY CFGsAssumption DEF FlowThrough, Gen, CFG

-----------------------------------------------------------------------------
(* Type correctness of the worklist and the flow maps. *)
THEOREM TypeCorrect == Spec => []TypeOK
<1>1. Init => TypeOK
  BY CFGsAssumption DEF Init, TypeOK, Gen, CFG, MirroredEdges
<1>2. TypeOK /\ [Next]_vars => TypeOK'
  <2>. SUFFICES ASSUME TypeOK, [Next]_vars PROVE TypeOK'
    OBVIOUS
  <2>. USE DEF TypeOK, inputs
  <2>1. CASE \E n \in cfg.nodes : Pick(n)
    BY <2>1 DEF Pick
  <2>2. CASE Merge
    <3>1. cfg.pred[cur][next] \in cfg.nodes
      BY <2>2, PredIsNode, CFGsAssumption DEF Merge, CFG
    <3>. QED
      BY <2>2, <3>1 DEF Merge
  <2>3. CASE Transfer
    <3>1. FlowThrough(cfg, cur, in[cur]) \in SUBSET Defs
      BY FlowThroughType
    <3>2. Succs(cfg, cur) \subseteq cfg.nodes
      BY EdgeMirror
    <3>. QED
      BY <2>3, <3>1, <3>2 DEF Transfer
  <2>4. CASE Finish
    BY <2>4 DEF Finish
  <2>5. CASE UNCHANGED vars
    BY <2>5 DEF vars
  <2>. QED
    BY <2>1, <2>2, <2>3, <2>4, <2>5 DEF Next
<1>. QED
  BY <1>1, <1>2, PTL DEF Spec

-----------------------------------------------------------------------------
(* merge only adds to an in set: no step takes a definition out of one. *)
THEOREM InGrows == Spec => InNeverShrinks
<1>1. TypeOK /\ [Next]_vars => [\A n \in cfg.nodes : in[n] \subseteq in'[n]]_vars
  BY DEF TypeOK, Next, Pick, Merge, Transfer, Finish, vars
<1>. QED
  BY <1>1, TypeCorrect, PTL DEF Spec, InNeverShrinks

-----------------------------------------------------------------------------
(***************************************************************************)
(* The reference is closed under the flow through a block, because each of *)
(* the sets it is the intersection of is.                                  *)
(***************************************************************************)
LEMMA ReferenceSpreads ==
  ASSUME NEW c \in CFGs, NEW d \in Defs, NEW m \in c.nodes, NEW n \in Succs(c, m),
         d \in c.own[m] \/ (m \in Reference[c][d] /\ d \notin Kill(c, m))
  PROVE  n \in Reference[c][d]
<1>1. Reference[c][d] = {b \in c.nodes : \A arrived \in SUBSET c.nodes :
                                           Spreads(c, Kill, d, arrived) => b \in arrived}
  BY DEF Reference, Arrives
<1>2. n \in c.nodes
  BY EdgeMirror
<1>3. ASSUME NEW arrived \in SUBSET c.nodes, Spreads(c, Kill, d, arrived)
      PROVE  n \in arrived
  <2>1. d \in c.own[m] \/ (m \in arrived /\ d \notin Kill(c, m))
    BY <1>1, <1>3
  <2>. QED
    BY <2>1, <1>3 DEF Spreads
<1>. QED
  BY <1>1, <1>2, <1>3

(***************************************************************************)
(* NothingInvented is not inductive alone: what merge brings to in[n] was  *)
(* in an out set, so those must hold only what their block generates or    *)
(* what arrives there and survives.                                        *)
(***************************************************************************)
FlowInv ==
  /\ NothingInvented
  /\ \A n \in cfg.nodes : \A d \in out[n] :
       d \in cfg.own[n] \/ (n \in Reference[cfg][d] /\ d \notin Kill(cfg, n))

(* No definition is ever placed where the flow equations do not bring it. *)
THEOREM NoInvention == Spec => []NothingInvented
<1>1. Init => FlowInv
  BY DEF Init, FlowInv, NothingInvented, Gen
<1>2. TypeOK /\ FlowInv /\ [Next]_vars => FlowInv'
  <2>. SUFFICES ASSUME TypeOK, FlowInv, [Next]_vars PROVE FlowInv'
    OBVIOUS
  <2>. USE DEF TypeOK, FlowInv, NothingInvented, inputs
  <2>1. CASE \E n \in cfg.nodes : Pick(n)
    BY <2>1 DEF Pick
  <2>2. CASE Merge
    <3>. DEFINE p == cfg.pred[cur][next]
    <3>1. p \in cfg.nodes /\ cur \in Succs(cfg, p)
      BY <2>2, PredIsNode, CFGsAssumption DEF Merge, CFG
    <3>2. \A d \in out[p] : cur \in Reference[cfg][d]
      BY <3>1, ReferenceSpreads
    <3>3. cfg' = cfg /\ in' = [in EXCEPT ![cur] = @ \union out[p]]
          /\ out' = [out EXCEPT ![p] = @ \intersect in[cur]]
      BY <2>2 DEF Merge
    <3>4. \A n \in cfg.nodes : out'[n] \subseteq out[n]
      BY <3>1, <3>3
    <3>5. \A n \in cfg.nodes : \A d \in in'[n] : n \in Reference[cfg][d]
      BY <3>2, <3>3
    <3>. QED
      BY <3>3, <3>4, <3>5 DEF Kill, KnownAtConstruction
  <2>3. CASE Transfer
    <3>1. cfg' = cfg /\ in' = in
          /\ out' = [out EXCEPT ![cur] = FlowThrough(cfg, cur, in[cur])]
      BY <2>3 DEF Transfer
    <3>2. \A d \in FlowThrough(cfg, cur, in[cur]) :
            d \in cfg.own[cur] \/ (cur \in Reference[cfg][d] /\ d \notin Kill(cfg, cur))
      BY DEF FlowThrough, Gen
    <3>. QED
      BY <3>1, <3>2
  <2>4. CASE Finish
    BY <2>4 DEF Finish
  <2>5. CASE UNCHANGED vars
    BY <2>5 DEF vars
  <2>. QED
    BY <2>1, <2>2, <2>3, <2>4, <2>5 DEF Next
<1>3. FlowInv => NothingInvented
  BY DEF FlowInv
<1>. QED
  BY <1>1, <1>2, <1>3, TypeCorrect, PTL DEF Spec

-----------------------------------------------------------------------------
(***************************************************************************)
(* A block that is neither queued nor being merged has passed what flows   *)
(* through it on: it is still in its out set, or a successor took it.      *)
(***************************************************************************)
PassedOn ==
  \A n \in cfg.nodes :
    \/ n \in changed
    \/ phase = "merge" /\ n = cur
    \/ FlowThrough(cfg, n, in[n]) \subseteq out[n] \union UNION {in[s] : s \in Succs(cfg, n)}

WorklistInv ==
  /\ OutIsOfferedToAll
  /\ PassedOn
  /\ phase = "done" => changed = {}

(* Whoever loses a definition to merge loses it to a successor. *)
LEMMA MergeOffers == TypeOK /\ WorklistInv /\ Merge => WorklistInv'
<1>. SUFFICES ASSUME TypeOK, WorklistInv, Merge PROVE WorklistInv'
  OBVIOUS
<1>. USE DEF TypeOK, WorklistInv, OutIsOfferedToAll, PassedOn, Awaits
<1>. DEFINE p == cfg.pred[cur][next]
<1>1. /\ cfg' = cfg /\ changed' = changed /\ phase' = phase /\ cur' = cur
      /\ phase = "merge" /\ next' = next + 1 /\ next <= Len(cfg.pred[cur])
      /\ in' = [in EXCEPT ![cur] = @ \union out[p]]
      /\ out' = [out EXCEPT ![p] = @ \intersect in[cur]]
  BY DEF Merge, inputs
<1>2. p \in cfg.nodes /\ cur \in Succs(cfg, p) /\ Len(cfg.pred[cur]) \in Nat
  BY <1>1, PredIsNode, CFGsAssumption DEF CFG
<1>3. \A n \in cfg.nodes : /\ in[n] \subseteq in'[n] /\ out'[n] \subseteq out[n]
                           /\ n # cur => in'[n] = in[n]
                           /\ out[n] \subseteq out'[n] \union in'[cur]
                           /\ n # p => out'[n] = out[n]
  BY <1>1, <1>2
<1>4. out[p] \subseteq in'[cur]
  BY <1>1
<1>5. ASSUME NEW n \in cfg.nodes, NEW s \in Succs(cfg, n)
      PROVE  Awaits(s, n)' \/ out'[n] \subseteq in'[s]
  <2>1. s \in cfg.nodes
    BY EdgeMirror
  <2>2. CASE Awaits(s, n)
    <3>1. CASE s \in changed
      BY <3>1, <1>1
    <3>2. CASE s = cur /\ n = p
      BY <3>2, <1>3, <1>4
    <3>3. CASE s = cur /\ n # p /\ \E i \in next .. Len(cfg.pred[cur]) : cfg.pred[cur][i] = n
      <4>1. PICK i \in next .. Len(cfg.pred[cur]) : cfg.pred[cur][i] = n
        BY <3>3
      <4>2. i \in next + 1 .. Len(cfg.pred[cur])
        BY <4>1, <3>3, <1>1, <1>2
      <4>. QED
        BY <4>1, <4>2, <3>3, <1>1
    <3>. QED
      BY <2>2, <3>1, <3>2, <3>3
  <2>3. CASE out[n] \subseteq in[s]
    BY <2>1, <2>3, <1>3
  <2>. QED
    BY <2>2, <2>3
<1>6. ASSUME NEW n \in cfg.nodes, n \notin changed, n # cur
      PROVE  FlowThrough(cfg, n, in'[n]) \subseteq out'[n] \union UNION {in'[s] : s \in Succs(cfg, n)}
  <2>1. FlowThrough(cfg, n, in[n]) \subseteq out[n] \union UNION {in[s] : s \in Succs(cfg, n)}
    BY <1>6
  <2>2. in'[n] = in[n]
    BY <1>3, <1>6
  <2>3. \A s \in Succs(cfg, n) : in[s] \subseteq in'[s]
    BY <1>3, EdgeMirror
  <2>4. out[n] \subseteq out'[n] \union UNION {in'[s] : s \in Succs(cfg, n)}
    BY <1>2, <1>3
  <2>. QED
    BY <2>1, <2>2, <2>3, <2>4
<1>7. OutIsOfferedToAll'
  BY <1>1, <1>5
<1>8. PassedOn'
  BY <1>1, <1>6 DEF FlowThrough, Gen, Kill, KnownAtConstruction
<1>. QED
  BY <1>1, <1>7, <1>8

(* A changed out set is offered to every successor by queueing them all. *)
LEMMA TransferOffers == TypeOK /\ WorklistInv /\ Transfer => WorklistInv'
<1>. SUFFICES ASSUME TypeOK, WorklistInv, Transfer PROVE WorklistInv'
  OBVIOUS
<1>. USE DEF TypeOK, WorklistInv, OutIsOfferedToAll, PassedOn, Awaits
<1>. DEFINE result == FlowThrough(cfg, cur, in[cur])
<1>1. /\ cfg' = cfg /\ in' = in /\ cur' = cur /\ phase = "merge" /\ phase' = "pick"
      /\ next > Len(cfg.pred[cur]) /\ Len(cfg.pred[cur]) \in Nat
      /\ out' = [out EXCEPT ![cur] = result]
      /\ changed' = IF result = out[cur] THEN changed ELSE changed \union Succs(cfg, cur)
  BY CFGsAssumption DEF Transfer, inputs, CFG
<1>2. ASSUME NEW n \in cfg.nodes, NEW s \in Succs(cfg, n)
      PROVE  Awaits(s, n)' \/ out'[n] \subseteq in'[s]
  <2>1. CASE s \in changed
    BY <2>1, <1>1
  <2>2. CASE s \notin changed /\ out[n] \subseteq in[s]
    BY <2>2, <1>1
  <2>. QED
    BY <2>1, <2>2, <1>1
<1>3. ASSUME NEW n \in cfg.nodes, n \notin changed'
      PROVE  FlowThrough(cfg, n, in[n]) \subseteq out'[n] \union UNION {in[s] : s \in Succs(cfg, n)}
  BY <1>1, <1>3
<1>4. OutIsOfferedToAll'
  BY <1>1, <1>2
<1>5. PassedOn'
  BY <1>1, <1>3 DEF FlowThrough, Gen, Kill, KnownAtConstruction
<1>. QED
  BY <1>1, <1>4, <1>5

(* The worklist invariant, of which two checked properties are consequences. *)
THEOREM WorklistSettles == Spec => []WorklistInv
<1>1. Init => WorklistInv
  BY EdgeMirror DEF Init, WorklistInv, OutIsOfferedToAll, PassedOn, Awaits
<1>2. TypeOK /\ WorklistInv /\ [Next]_vars => WorklistInv'
  <2>. SUFFICES ASSUME TypeOK, WorklistInv, [Next]_vars PROVE WorklistInv'
    OBVIOUS
  <2>1. ASSUME NEW n \in cfg.nodes, Pick(n) PROVE WorklistInv'
    <3>1. /\ cfg' = cfg /\ in' = in /\ out' = out /\ changed' = changed \ {n}
          /\ phase = "pick" /\ phase' = "merge" /\ cur' = n /\ next' = 1
      BY <2>1 DEF Pick, inputs
    <3>2. ASSUME NEW m \in cfg.nodes, NEW s \in Succs(cfg, m), s = n
          PROVE  \E i \in 1 .. Len(cfg.pred[n]) : cfg.pred[n][i] = m
      <4>1. m \in Preds(cfg, n) /\ cfg.pred[n] \in Seq(Blocks)
        BY <3>2, EdgeMirror, CFGsAssumption DEF TypeOK, CFG
      <4>. QED
        BY <4>1 DEF Preds, Range
    <3>3. OutIsOfferedToAll'
      BY <3>1, <3>2 DEF WorklistInv, OutIsOfferedToAll, Awaits
    <3>4. PassedOn'
      BY <3>1 DEF WorklistInv, PassedOn, FlowThrough, Gen, Kill, KnownAtConstruction
    <3>. QED
      BY <3>1, <3>3, <3>4 DEF WorklistInv
  <2>2. CASE Merge
    BY <2>2, MergeOffers
  <2>3. CASE Transfer
    BY <2>3, TransferOffers
  <2>4. CASE Finish
    BY <2>4 DEF Finish, inputs, WorklistInv, OutIsOfferedToAll, PassedOn, Awaits,
                FlowThrough, Gen, Kill, KnownAtConstruction
  <2>5. CASE UNCHANGED vars
    BY <2>5 DEF vars, WorklistInv, OutIsOfferedToAll, PassedOn, Awaits,
                FlowThrough, Gen, Kill, KnownAtConstruction
  <2>. QED
    BY <2>1, <2>2, <2>3, <2>4, <2>5 DEF Next
<1>. QED
  BY <1>1, <1>2, TypeCorrect, PTL DEF Spec

(* A block off the worklist has nothing left to offer to its successors. *)
THEOREM OffersSettled == Spec => []OutIsOfferedToAll
<1>1. WorklistInv => OutIsOfferedToAll
  BY DEF WorklistInv
<1>. QED
  BY <1>1, WorklistSettles, PTL

(* When the analysis ends, every definition that leaves a block is kept by *)
(* a successor: merge moves definitions, it does not lose them.            *)
THEOREM DefinitionsSurvive == Spec => []NoDefinitionVanishes
<1>1. TypeOK /\ WorklistInv => NoDefinitionVanishes
  <2>. SUFFICES ASSUME TypeOK, WorklistInv, phase = "done",
                       NEW n \in cfg.nodes, Succs(cfg, n) # {}
                PROVE  FlowThrough(cfg, n, in[n]) \subseteq UNION {in[s] : s \in Succs(cfg, n)}
    BY DEF NoDefinitionVanishes
  <2>1. \A s \in Succs(cfg, n) : out[n] \subseteq in[s]
    BY DEF WorklistInv, OutIsOfferedToAll, Awaits
  <2>2. FlowThrough(cfg, n, in[n]) \subseteq out[n] \union UNION {in[s] : s \in Succs(cfg, n)}
    BY DEF WorklistInv, PassedOn
  <2>. QED
    BY <2>1, <2>2
<1>. QED
  BY <1>1, TypeCorrect, WorklistSettles, PTL

=============================================================================
