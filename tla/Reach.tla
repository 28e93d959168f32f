------------------------------- MODULE Reach -------------------------------
(***************************************************************************)
(* The reaching-definitions analysis of optimizer/reach.cpp: a worklist    *)
(* over the basic blocks of one control-flow graph.                        *)
(*                                                                         *)
(* Three traits of the code shape the model.  The worklist is a            *)
(* std::set<BBP>, a set of shared pointers, so "*changed.rbegin()" is the  *)
(* block with the highest ADDRESS: an arbitrary but fixed total order, the *)
(* variable rank.  "in[n].merge(out.at(p))" is std::set::merge, which     *)
(* MOVES the elements that are new to in[n] out of out[p].  And the kill   *)
(* set of a block holds every definition of the blocks constructed before  *)
(* it, whichever variable they define.                                     *)
(***************************************************************************)
EXTENDS Naturals, Sequences, Functions

CONSTANTS
  Blocks,   \* identifiers of basic blocks, numbered in construction order
  Defs,     \* the instructions that have a result: records with a bid
            \* (what set_id_cmp compares) and the name they define
  CFGs,     \* the control-flow graphs that may be analysed
  Ranks     \* the address orders of the blocks that may be met

(***************************************************************************)
(* A graph: the blocks reachable from its entry block, their successor and *)
(* predecessor vectors (Blocker inserts each edge in both), and the        *)
(* definitions that stand in each block of the program.                    *)
(***************************************************************************)
CFG == [nodes : SUBSET Blocks,
        entry : Blocks,
        succ : [Blocks -> Seq(Blocks)],
        pred : [Blocks -> Seq(Blocks)],
        own : [Blocks -> SUBSET Defs]]

Succs(c, n) == Range(c.succ[n])
Preds(c, n) == Range(c.pred[n])

(***************************************************************************)
(* out.at(p) throws on a block the traversal did not reach, so the edges   *)
(* of a graph the code survives stay among its nodes, in both directions.  *)
(***************************************************************************)
MirroredEdges(c) ==
  /\ c.entry \in c.nodes
  /\ \A n \in c.nodes : Succs(c, n) \subseteq c.nodes /\ Preds(c, n) \subseteq c.nodes
  /\ \A m, n \in c.nodes : m \in Preds(c, n) <=> n \in Succs(c, m)

ASSUME BlocksAssumption == Blocks \subseteq Nat
ASSUME CFGsAssumption == CFGs \subseteq CFG /\ \A c \in CFGs : MirroredEdges(c)
ASSUME RanksAssumption == Ranks \subseteq [Blocks -> Nat]

VARIABLES
  cfg,      \* the graph under analysis
  rank,     \* the address of each block
  in, out,  \* the definitions that enter and leave each block
  changed,  \* the worklist
  phase,    \* where worklistReaching stands in an iteration
  cur,      \* the block being processed
  next      \* index in cur's predecessor vector of the next merge

vars == <<cfg, rank, in, out, changed, phase, cur, next>>
inputs == <<cfg, rank>>

-----------------------------------------------------------------------------
(* BasicBlock::computeGenAndKillSets *)

Gen(c, n) == c.own[n]
KnownAtConstruction(c, n) == UNION {c.own[m] : m \in {b \in Blocks : b <= n}}
Kill(c, n) == KnownAtConstruction(c, n) \ c.own[n]

(* A mutation of FlowThrough: the kill set is forgotten. *)
FlowThroughKillsNothing(c, n, entering) == Gen(c, n) \union entering

(* The transfer function, out[n] = gen[n] U (in[n] - kill[n]). *)
FlowThrough(c, n, entering) == Gen(c, n) \union (entering \ Kill(c, n))

-----------------------------------------------------------------------------
Init ==
  /\ cfg \in CFGs
  /\ rank \in Ranks
  /\ in = [n \in cfg.nodes |-> {}]
  /\ out = [n \in cfg.nodes |-> Gen(cfg, n)]
  /\ changed = cfg.nodes
  /\ phase = "pick"
  /\ cur = cfg.entry
  /\ next = 1

(* A mutation of Pick: the predecessors are counted from zero. *)
PickFromZero(n) ==
  /\ phase = "pick"
  /\ n \in changed
  /\ \A m \in changed : rank[m] <= rank[n]
  /\ changed' = changed \ {n}
  /\ cur' = n
  /\ next' = 0
  /\ phase' = "merge"
  /\ UNCHANGED <<inputs, in, out>>

(* Take the block with the highest address from the worklist. *)
Pick(n) ==
  /\ phase = "pick"
  /\ n \in changed
  /\ \A m \in changed : rank[m] <= rank[n]
  /\ changed' = changed \ {n}
  /\ cur' = n
  /\ next' = 1
  /\ phase' = "merge"
  /\ UNCHANGED <<inputs, in, out>>

(* A mutation of Merge: the last predecessor is never merged. *)
MergeAllButLast ==
  /\ phase = "merge"
  /\ next <= Len(cfg.pred[cur])
  /\ next' = next + 1
  /\ IF next = Len(cfg.pred[cur])
     THEN UNCHANGED <<in, out>>
     ELSE LET p == cfg.pred[cur][next]
          IN  /\ in' = [in EXCEPT ![cur] = @ \union out[p]]
              /\ out' = [out EXCEPT ![p] = @ \intersect in[cur]]
  /\ UNCHANGED <<inputs, changed, phase, cur>>

(* A mutation of Merge: in[n] is swapped with out[p], the other std::set call. *)
MergeSwaps ==
  /\ phase = "merge"
  /\ next <= Len(cfg.pred[cur])
  /\ LET p == cfg.pred[cur][next]
     IN  /\ in' = [in EXCEPT ![cur] = out[p]]
         /\ out' = [out EXCEPT ![p] = in[cur]]
  /\ next' = next + 1
  /\ UNCHANGED <<inputs, changed, phase, cur>>

(* in[n].merge(out.at(p)): what in[n] lacks is moved out of out[p]. *)
Merge ==
  /\ phase = "merge"
  /\ next <= Len(cfg.pred[cur])
  /\ LET p == cfg.pred[cur][next]
     IN  /\ in' = [in EXCEPT ![cur] = @ \union out[p]]
         /\ out' = [out EXCEPT ![p] = @ \intersect in[cur]]
  /\ next' = next + 1
  /\ UNCHANGED <<inputs, changed, phase, cur>>

(* A mutation of Transfer: a changed block is queued again, not its successors. *)
TransferRequeuesItself ==
  /\ phase = "merge"
  /\ next > Len(cfg.pred[cur])
  /\ LET result == FlowThrough(cfg, cur, in[cur])
     IN  /\ out' = [out EXCEPT ![cur] = result]
         /\ changed' = IF result = out[cur] THEN changed ELSE changed \union {cur}
  /\ phase' = "pick"
  /\ UNCHANGED <<inputs, in, cur, next>>

(* A mutation of Transfer: the successors are queued whether or not out changed. *)
TransferAlwaysQueues ==
  /\ phase = "merge"
  /\ next > Len(cfg.pred[cur])
  /\ out' = [out EXCEPT ![cur] = FlowThrough(cfg, cur, in[cur])]
  /\ changed' = changed \union Succs(cfg, cur)
  /\ phase' = "pick"
  /\ UNCHANGED <<inputs, in, cur, next>>

(* Recompute out[n]; a change puts every successor on the worklist. *)
Transfer ==
  /\ phase = "merge"
  /\ next > Len(cfg.pred[cur])
  /\ LET result == FlowThrough(cfg, cur, in[cur])
     IN  /\ out' = [out EXCEPT ![cur] = result]
         /\ changed' = IF result = out[cur] THEN changed
                                            ELSE changed \union Succs(cfg, cur)
  /\ phase' = "pick"
  /\ UNCHANGED <<inputs, in, cur, next>>

(* The worklist is empty: the names in in and out become the result. *)
Finish ==
  /\ phase = "pick"
  /\ changed = {}
  /\ phase' = "done"
  /\ UNCHANGED <<inputs, in, out, changed, cur, next>>

Next == (\E n \in cfg.nodes : Pick(n)) \/ Merge \/ Transfer \/ Finish

Spec == Init /\ [][Next]_vars
FairSpec == Spec /\ WF_vars(Next)

(* Reach::getVariablesIntoBlock and getVariablesOutOfBlock, once done. *)
VariablesInto(n) == {d.result : d \in in[n]}
VariablesOutOf(n) == {d.result : d \in out[n]}

-----------------------------------------------------------------------------
(***************************************************************************)
(* Reference definitions: where a definition truly arrives.                *)
(***************************************************************************)
Spreads(c, kills(_, _), d, arrived) ==
  \A m \in c.nodes : \A n \in Succs(c, m) :
    (d \in c.own[m] \/ (m \in arrived /\ d \notin kills(c, m))) => n \in arrived

(* The blocks at whose entry d arrives: the least set d spreads over. *)
Arrives(c, kills(_, _), d) ==
  {n \in c.nodes : \A arrived \in SUBSET c.nodes : Spreads(c, kills, d, arrived) => n \in arrived}

(* The reference, tabulated once for every graph. *)
Reference == [c \in CFGs |-> [d \in Defs |-> Arrives(c, Kill, d)]]

-----------------------------------------------------------------------------
(* Type invariant of the worklist and the two flow maps of Reach. *)
TypeOK ==
  /\ cfg \in CFGs
  /\ rank \in Ranks
  /\ in \in [cfg.nodes -> SUBSET Defs]
  /\ out \in [cfg.nodes -> SUBSET Defs]
  /\ changed \subseteq cfg.nodes
  /\ phase \in {"pick", "merge", "done"}
  /\ cur \in cfg.nodes
  /\ next \in Nat \ {0}

(***************************************************************************)
(* However merge moves definitions between blocks, the analysis never puts *)
(* a definition where no path brings it: in[n] stays within the least      *)
(* solution of the flow equations for the code's own gen and kill sets.    *)
(***************************************************************************)
NothingInvented ==
  \A n \in cfg.nodes : \A d \in in[n] : n \in Reference[cfg][d]

(***************************************************************************)
(* merge may take a definition from the out set of a block, but never from *)
(* the analysis: when the worklist is empty, whatever flows through a      *)
(* block is in the in set of at least one of its successors.               *)
(***************************************************************************)
NoDefinitionVanishes ==
  phase = "done" =>
    \A n \in cfg.nodes : Succs(cfg, n) # {} =>
      FlowThrough(cfg, n, in[n]) \subseteq UNION {in[s] : s \in Succs(cfg, n)}

(***************************************************************************)
(* A block left off the worklist is settled: a definition still in its out *)
(* set is known to every successor that will not be processed again.  This *)
(* is what makes it right for Transfer to queue nothing when out[n] is the *)
(* value it was left with.                                                 *)
(***************************************************************************)
Awaits(s, n) ==
  \/ s \in changed
  \/ phase = "merge" /\ s = cur /\ \E i \in next .. Len(cfg.pred[cur]) : cfg.pred[cur][i] = n

OutIsOfferedToAll ==
  \A n \in cfg.nodes : \A s \in Succs(cfg, n) : Awaits(s, n) \/ out[n] \subseteq in[s]

(* A step of the worklist never takes a definition out of an in set, which *)
(* is what bounds the iteration although out sets grow and shrink.         *)
InNeverShrinks == [][\A n \in cfg.nodes : in[n] \subseteq in'[n]]_vars

(* The worklist drains: merging and moving cannot requeue blocks for ever. *)
Terminates == <>(phase = "done")

-----------------------------------------------------------------------------
(***************************************************************************)
(* What reach.h says of the result, "the variables flowing into the block  *)
(* bb", read with the kill sets the code computes.                         *)
(***************************************************************************)
AllVariablesFlowingIn ==
  phase = "done" => \A n \in cfg.nodes :
    VariablesInto(n) = {d.result : d \in {e \in Defs : n \in Reference[cfg][e]}}
=============================================================================
