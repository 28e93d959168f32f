------------------------------ MODULE MCReach ------------------------------
(***************************************************************************)
(* Instances of Reach for TLC: the graphs Blocker builds for small         *)
(* programs, under every address order of their blocks.                    *)
(***************************************************************************)
EXTENDS Reach

D(bid, name) == [bid |-> bid, result |-> name]

MCBlocks == 0 .. 5

(***************************************************************************)
(* Definitions common to the programs: block 0 declares x and y, a loop    *)
(* body computes temporary t and assigns x, and so on.                     *)
(***************************************************************************)
x0 == D(0, "x")
y0 == D(1, "y")
t1 == D(2, "t")
x1 == D(3, "x")
y1 == D(4, "y")

MCDefs == {x0, y0, t1, x1, y1}

Edges(succ, pred, own, nodes) ==
  [nodes |-> nodes,
   entry |-> 0,
   succ |-> [n \in MCBlocks |-> IF n \in nodes THEN succ[n + 1] ELSE <<>>],
   pred |-> [n \in MCBlocks |-> IF n \in nodes THEN pred[n + 1] ELSE <<>>],
   own |-> [n \in MCBlocks |-> IF n \in nodes THEN own[n + 1] ELSE {}]]

(* declarations; then a statement with no jump of the first block *)
Straight == Edges(<<<<1>>, <<2>>, <<>>>>, <<<<>>, <<0>>, <<1>>>>,
                  <<{x0, y0}, {t1}, {x1}>>, 0 .. 2)

(* decl; while c do S; rest *)
While == Edges(<<<<1>>, <<3, 2>>, <<1>>, <<>>>>,
               <<<<>>, <<0, 2>>, <<1>>, <<1>>>>,
               <<{x0, y0}, {}, {t1, x1}, {y1}>>, 0 .. 3)

(* decl; while c do begin if d then S1; S2 end; rest *)
WhileIf == Edges(<<<<1>>, <<5, 2>>, <<4, 3>>, <<4>>, <<1>>, <<>>>>,
                 <<<<>>, <<0, 4>>, <<1>>, <<2>>, <<2, 3>>, <<1>>>>,
                 <<{x0, y0}, {}, {t1}, {x1}, {y1}, {}>>, 0 .. 5)

(* decl; while c do while d do S; rest *)
NestedWhile == Edges(<<<<1>>, <<5, 2>>, <<4, 3>>, <<2>>, <<1>>, <<>>>>,
                     <<<<>>, <<0, 4>>, <<1, 3>>, <<2>>, <<2>>, <<1>>>>,
                     <<{x0, y0}, {}, {t1}, {x1}, {}, {y1}>>, 0 .. 5)

MCCFGs == {Straight, While, WhileIf, NestedWhile}

(* Every order of the block addresses. *)
MCRanks == {r \in [MCBlocks -> 0 .. 5] : IsInjective(r)}
=============================================================================
