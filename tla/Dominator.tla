----------------------------- MODULE Dominator -----------------------------
(***************************************************************************)
(* The control flow graphs of graphs.cpp and cfg.cpp, one for the code     *)
(* before and after the procedures and one for each procedure: for each,   *)
(* the dominator tree of dominator.cpp, found by passes over the blocks in *)
(* reverse postorder until nothing changes, and from it the natural loops. *)
(***************************************************************************)
EXTENDS Tac, Naturals, Sequences, SequencesExt, FiniteSets

CONSTANTS
  Graphs  \* the blocks and edges to analyze: records of what the blocker leaves

VARIABLES
  phase,     \* "analyzing", "tree", "done"
  blocks, successors, predecessors,
  entry,     \* the entry block of the graph being analyzed
  postorder, \* of that graph
  iDoms,     \* immediate dominators, of the blocks that have one so far
  position,  \* place in reverse postorder of the next block to visit
  changed,
  loops,     \* natural loops: the entry of their graph, header and footer
  fault      \* an assertion or a lookup of a block outside the graph

graph == <<blocks, successors, predecessors>>
tree == <<iDoms, position, changed>>
vars == <<phase, graph, entry, postorder, tree, loops, fault>>

NoBlock == 0
Blocks == 1 .. Len(blocks)

Idle ==
  /\ entry = NoBlock /\ postorder = <<>>
  /\ iDoms = [b \in {} |-> NoBlock]
  /\ position = 1 /\ changed = FALSE
  /\ loops = {}

Init ==
  /\ phase = "analyzing" /\ fault = "none"
  /\ \E g \in Graphs : blocks = g.blocks /\ successors = g.successors /\ predecessors = g.predecessors
  /\ Idle

-----------------------------------------------------------------------------
(***************************************************************************)
(* computePostorderTraversalInternal, from left to right; the block it     *)
(* starts from is not marked as visited until an edge leads to it.  The    *)
(* stack holds the calls to come: to enter a block, or to go on after its  *)
(* successors.                                                             *)
(***************************************************************************)
Enter(children) == [k \in DOMAIN children |-> <<"enter", children[k]>>]

Walks == [stack : Seq({"enter", "leave"} \X Blocks), visited : SUBSET Blocks, order : Seq(Blocks)]

Walk[w \in Walks] ==
  IF w.stack = <<>> THEN w.order
  ELSE IF Head(w.stack)[1] = "leave"
  THEN Walk[[w EXCEPT !.stack = Tail(@), !.order = Append(@, Head(w.stack)[2])]]
  ELSE IF Head(w.stack)[2] \in w.visited
  THEN Walk[[w EXCEPT !.stack = Tail(@)]]
  ELSE Walk[[w EXCEPT !.stack = Enter(successors[Head(@)[2]]) \o <<<<"leave", Head(@)[2]>>>> \o Tail(@),
                      !.visited = @ \union {Head(w.stack)[2]}]]

PostorderFrom(b) ==
  Walk[[stack |-> Append(Enter(successors[b]), <<"leave", b>>), visited |-> {}, order |-> <<>>]]

(* PostOrderView: a block that comes twice has its last place. *)
PlaceOf(b) == CHOOSE k \in DOMAIN postorder : postorder[k] = b /\ \A j \in k + 1 .. Len(postorder) : postorder[j] # b

Starts(b) == \E i \in 1 .. Len(blocks[b]) : blocks[b][i].op = "ENTER_PROC"

(* constructCFGs: the first block, then every block that enters a procedure. *)
NextEntry == {b \in Blocks : b > entry /\ (b = 1 \/ Starts(b))}

StartGraph ==
  /\ phase = "analyzing" /\ fault = "none"
  /\ NextEntry # {}
  /\ entry' = CHOOSE b \in NextEntry : \A c \in NextEntry : b <= c
  /\ postorder' = PostorderFrom(entry')
  /\ iDoms' = [b \in {entry'} |-> entry']
  /\ position' = 1 /\ changed' = FALSE
  /\ phase' = "tree"
  /\ UNCHANGED <<graph, loops, fault>>

-----------------------------------------------------------------------------
(* buildDominatorTree *)

Known(b) == b \in DOMAIN iDoms

(***************************************************************************)
(* The two fingers of intersect climb the tree, the one that is earlier in *)
(* postorder first.  Off the tree the code asserts: NoBlock stands for it. *)
(***************************************************************************)
Intersect(b1, b2) ==
  LET Fingers == (Blocks \union {NoBlock}) \X (Blocks \union {NoBlock})
      Up(b) == IF Known(b) THEN iDoms[b] ELSE NoBlock
      Meet[f \in Fingers] ==
        IF f[1] = f[2] THEN f[1]
        ELSE IF ~({f[1], f[2]} \subseteq ToSet(postorder)) THEN NoBlock
        ELSE IF PlaceOf(f[1]) < PlaceOf(f[2]) THEN Meet[<<Up(f[1]), f[2]>>]
        ELSE Meet[<<f[1], Up(f[2])>>]
  IN  Meet[<<b1, b2>>]

(* A mutation of NewIdom: a predecessor replaces those before it. *)
NewIdomOfLast(b) ==
  FoldLeft(LAMBDA idom, p : IF Known(p) THEN p ELSE idom, Head(predecessors[b]), Tail(predecessors[b]))

(* The first predecessor, intersected with those whose dominator is known. *)
NewIdom(b) ==
  FoldLeft(LAMBDA idom, p : IF Known(p) THEN Intersect(p, idom) ELSE idom,
           Head(predecessors[b]), Tail(predecessors[b]))

Visiting == postorder[Len(postorder) + 1 - position]

InTree == phase = "tree" /\ fault = "none" /\ position <= Len(postorder)

(* The entry, and a block nobody leads to, keep what they have. *)
Skip ==
  /\ InTree
  /\ Visiting = entry \/ predecessors[Visiting] = <<>>
  /\ position' = position + 1
  /\ UNCHANGED <<phase, graph, entry, postorder, iDoms, changed, loops, fault>>

(* A mutation of SetIdom: a dominator that was there already is a change. *)
SetIdomAnew ==
  /\ InTree
  /\ Visiting # entry /\ predecessors[Visiting] # <<>>
  /\ iDoms' = [c \in DOMAIN iDoms \union {Visiting} |-> IF c = Visiting THEN NewIdom(c) ELSE iDoms[c]]
  /\ changed' = TRUE
  /\ position' = position + 1
  /\ UNCHANGED <<phase, graph, entry, postorder, loops, fault>>

(* Off the tree, an assertion or a lookup in the postorder fails. *)
SetIdom ==
  /\ InTree
  /\ Visiting # entry /\ predecessors[Visiting] # <<>>
  /\ LET b == Visiting
         idom == NewIdom(b)
     IN  IF idom = NoBlock
         THEN fault' = "off the tree" /\ UNCHANGED tree
         ELSE /\ iDoms' = [c \in DOMAIN iDoms \union {b} |-> IF c = b THEN idom ELSE iDoms[c]]
              /\ changed' = (changed \/ ~Known(b) \/ iDoms[b] # idom)
              /\ position' = position + 1
              /\ UNCHANGED fault
  /\ UNCHANGED <<phase, graph, entry, postorder, loops>>

NextPass ==
  /\ phase = "tree" /\ fault = "none" /\ position > Len(postorder)
  /\ changed
  /\ position' = 1 /\ changed' = FALSE
  /\ UNCHANGED <<phase, graph, entry, postorder, iDoms, loops, fault>>

-----------------------------------------------------------------------------
(* dominates: up the tree from b until a or the entry is met. *)
Dominates(a, b) ==
  LET Climb[c \in Blocks] == c # entry /\ (c = a \/ Climb[iDoms[c]])
  IN  a = b \/ a = entry \/ Climb[iDoms[b]]

(* computeBackwardsEdges: edges to a block that came earlier. *)
BackEdges ==
  {e \in Blocks \X Blocks :
     /\ e[2] \in ToSet(successors[e[1]])
     /\ \E j, k \in DOMAIN postorder : j < k /\ postorder[j] = e[1] /\ postorder[k] = e[2]}

(* A mutation of FindLoops: the ends of the edge are exchanged. *)
FindLoopsBackwards ==
  /\ phase = "tree" /\ fault = "none" /\ position > Len(postorder)
  /\ ~changed
  /\ loops' = loops \union
       {[graph |-> entry, header |-> e[1], footer |-> e[2]] : e \in {d \in BackEdges : Dominates(d[2], d[1])}}
  /\ phase' = "analyzing"
  /\ UNCHANGED <<graph, entry, postorder, tree, fault>>

(* A mutation of FindLoops: the loops of the other graphs are forgotten. *)
FindLoopsOfLastGraph ==
  /\ phase = "tree" /\ fault = "none" /\ position > Len(postorder)
  /\ ~changed
  /\ loops' = {[graph |-> entry, header |-> e[2], footer |-> e[1]] : e \in {d \in BackEdges : Dominates(d[2], d[1])}}
  /\ phase' = "analyzing"
  /\ UNCHANGED <<graph, entry, postorder, tree, fault>>

(* computeNaturalLoops *)
FindLoops ==
  /\ phase = "tree" /\ fault = "none" /\ position > Len(postorder)
  /\ ~changed
  /\ loops' = loops \union
       {[graph |-> entry, header |-> e[2], footer |-> e[1]] : e \in {d \in BackEdges : Dominates(d[2], d[1])}}
  /\ phase' = "analyzing"
  /\ UNCHANGED <<graph, entry, postorder, tree, fault>>

Finish ==
  /\ phase = "analyzing" /\ fault = "none"
  /\ NextEntry = {}
  /\ phase' = "done"
  /\ UNCHANGED <<graph, entry, postorder, tree, loops, fault>>

Next ==
  \/ StartGraph \/ Skip \/ SetIdom \/ NextPass
  \/ FindLoops \/ Finish

Spec == Init /\ [][Next]_vars

-----------------------------------------------------------------------------
(* forEachBBInBody: against the edges from the footer, up to the header. *)
Body(header, footer) ==
  LET Grown(inner) == inner \union (UNION {ToSet(predecessors[b]) : b \in inner} \ {header})
  IN  FoldLeft(LAMBDA inner, b : Grown(inner), {footer} \ {header}, blocks)

-----------------------------------------------------------------------------
(* The tree and the loops are of blocks, and a pass does not leave the postorder. *)
TypeOK ==
  /\ entry \in Blocks \union {NoBlock}
  /\ \A b \in DOMAIN iDoms : b \in Blocks /\ iDoms[b] \in Blocks
  /\ position \in 1 .. Len(blocks) + 1
  /\ changed \in BOOLEAN
  /\ \A l \in loops : l.header \in Blocks /\ l.footer \in Blocks

(* The blocks that can be reached from one of those given, avoiding others. *)
Reached(from, avoiding) ==
  LET Grown(inner) == inner \union (UNION {ToSet(successors[b]) : b \in inner} \ avoiding)
  IN  FoldLeft(LAMBDA inner, b : Grown(inner), from \ avoiding, blocks)

(***************************************************************************)
(* dominator.h: "A node d dominates a node n if every node from the        *)
(* starting node to the node n must go through node d."  When the passes   *)
(* end, the tree answers exactly that of every block of the graph.         *)
(***************************************************************************)
DominatesIsDominance ==
  phase = "analyzing" /\ entry # NoBlock =>
    LET inside == Reached({entry}, {})
    IN  \A a \in inside :
          LET past == Reached({entry}, {a})
          IN  \A b \in inside : Dominates(a, b) <=> a = b \/ b \notin past

(***************************************************************************)
(* natural_loop.h: "the smallest set of nodes in which the back edge is    *)
(* included with no predecessors outside of the set except for the         *)
(* predecessor of the header": the only way into the body of a loop that   *)
(* was found is its header, and every block of it comes back to the header.*)
(***************************************************************************)
LoopsHaveOneEntrance ==
  \A l \in loops :
    LET body == Body(l.header, l.footer)
    IN  /\ \A b \in Blocks \ (body \union {l.header}) : ToSet(successors[b]) \intersect body = {}
        /\ \A b \in body : l.footer \in Reached({b}, {l.header})
        /\ body \subseteq Reached({l.graph}, {})
        /\ body \intersect Reached({l.graph}, {l.header}) = {}
=============================================================================
