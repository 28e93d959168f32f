---------------------------- MODULE SymbolTable ----------------------------
(***************************************************************************)
(* The symbol tables of symbol_table.cpp.  A table is known by its place   *)
(* in the sequence of all tables; the global one is the first.  What a     *)
(* name is bound to is a record with an entry_type.                        *)
(***************************************************************************)
EXTENDS Integers, Sequences

NoTable == 0

NewTable(enclosing) == [enclosingScope |-> enclosing, symbolTable |-> [name \in {} |-> 0]]

VariableEntry(type, isConstant, value, token) ==
  [entry_type |-> "ST_VARIABLE", isConstant |-> isConstant, isArray |-> type.is_array,
   arraySize |-> type.array_size, type |-> type.type, value |-> value, token |-> token]

LiteralEntry(type, value, token) ==
  [entry_type |-> "ST_LITERAL", type |-> type, value |-> value, token |-> token]

FunctionEntry(argumentTypes, returnType) ==
  [entry_type |-> "ST_FUNCTION", argumentTypes |-> argumentTypes, returnType |-> returnType]

NotFound == [entry_type |-> "none"]

(* std::map::insert leaves a name alone that is there already. *)
Bound(symbolTable, name, entry) ==
  [n \in DOMAIN symbolTable \union {name} |->
     IF n \in DOMAIN symbolTable THEN symbolTable[n] ELSE entry]

insert(tables, t, name, entry) == [tables EXCEPT ![t].symbolTable = Bound(@, name, entry)]

(* A mutation of lookup: the global scope is asked first. *)
lookupGlobalFirst(tables, scope, name) ==
  IF name \in DOMAIN tables[1].symbolTable THEN tables[1].symbolTable[name]
  ELSE IF name \in DOMAIN tables[scope].symbolTable THEN tables[scope].symbolTable[name]
  ELSE NotFound

(* A scope answers for itself or asks the one around it. *)
lookup(tables, scope, name) ==
  LET answer[t \in 0 .. Len(tables)] ==
        IF t = NoTable THEN NotFound
        ELSE IF name \in DOMAIN tables[t].symbolTable THEN tables[t].symbolTable[name]
        ELSE answer[tables[t].enclosingScope]
  IN  answer[scope]

IsVariable(entry) == entry.entry_type = "ST_VARIABLE"
IsFunction(entry) == entry.entry_type = "ST_FUNCTION"
IsFound(entry) == entry # NotFound
=============================================================================
