---------------------------- MODULE TypeChecker ----------------------------
(***************************************************************************)
(* The typeChecker methods of past.cpp and the traversal that calls them,  *)
(* children first; and the checks generateCode makes of a call.  The types *)
(* a checker writes into its node are functions of the tree and of the     *)
(* tables.                                                                 *)
(***************************************************************************)
EXTENDS SymbolTable, SequencesExt

(* In the order of getChildren.  A null child is passed over. *)
Children(node) ==
  CASE node.kind = "list" -> SelectSeq(node.children, LAMBDA child : child.kind # "nullptr")
    [] node.kind \in {"binary", "assign"} -> <<node.right, node.left>>
    [] node.kind \in {"if", "while"} -> <<node.left, node.right>>
    [] node.kind \in {"read", "write", "odd"} -> <<node.operand>>
    [] node.kind = "call" -> node.arguments
    [] node.kind \in {"element", "procedure"} -> <<node.right>>
    [] node.kind \in {"variable", "declare", "number"} -> <<>>

RECURSIVE Subtrees(_)
Subtrees(node) == {node} \union UNION {Subtrees(child) : child \in ToSet(Children(node))}

Named(tables, node) == lookup(tables, node.scope, node.name)

RECURSIVE TypeOf(_, _)
TypeOf(tables, node) ==
  CASE node.kind = "number" -> node.type
    [] node.kind \in {"variable", "declare", "element"} -> Named(tables, node).type
    [] node.kind \in {"binary", "assign"} -> TypeOf(tables, node.left)
    [] node.kind \in {"read", "write", "odd"} -> TypeOf(tables, node.operand)
    [] node.kind = "call" -> Named(tables, node).returnType
    [] node.kind \in {"list", "procedure", "if", "while"} -> "NO_TYPE"

(* An array is not told from a single variable. *)
typeChecker(tables, node) ==
  CASE node.kind = "number" -> Named(tables, node).entry_type = "ST_LITERAL"
    [] node.kind \in {"variable", "declare"} -> IsVariable(Named(tables, node))
    [] node.kind = "element" -> IsVariable(Named(tables, node)) /\ TypeOf(tables, node.right) = "INT"
    [] node.kind \in {"binary", "assign"} ->
         /\ TypeOf(tables, node.right) \notin {"VOID", "NO_TYPE"}
         /\ TypeOf(tables, node.left) = TypeOf(tables, node.right)
    [] node.kind = "call" -> IsFunction(Named(tables, node))
    [] node.kind \in {"if", "while"} -> TypeOf(tables, node.left) = "INT"
    [] node.kind \in {"list", "procedure", "read", "write", "odd"} -> TRUE

(* treeTraversal: the first node that fails ends the compiler. *)
RECURSIVE Passes(_, _)
Passes(tables, node) ==
  /\ \A child \in ToSet(Children(node)) : Passes(tables, child)
  /\ typeChecker(tables, node)

(* A mutation of CallFits: as many arguments as the procedure has suffice. *)
CallFitsAtLeast(tables, call) ==
  Len(call.arguments) >= Len(Named(tables, call).argumentTypes)

(* CallExprAST::generateCode stops at a call that does not fit. *)
CallFits(tables, call) ==
  LET expected == Named(tables, call).argumentTypes
  IN  /\ Len(call.arguments) = Len(expected)
      /\ \A i \in DOMAIN expected : TypeOf(tables, call.arguments[i]) = expected[i]

CallsFit(tables, node) ==
  \A call \in {subtree \in Subtrees(node) : subtree.kind = "call"} : CallFits(tables, call)
=============================================================================
