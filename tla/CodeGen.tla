------------------------------ MODULE CodeGen ------------------------------
(***************************************************************************)
(* The code generator of codegen2/: registers are handed out block by      *)
(* block, and three tables remember what the emitted code has done so far  *)
(* (the register allocation table, the address table, and the global and   *)
(* stack tables).  Every helper that changes a table or emits code is an   *)
(* action, in the order the C++ calls them.                                *)
(*                                                                         *)
(* Beside the tables the model keeps the machine that runs the emitted     *)
(* code and a reference that interprets the three-address code itself.     *)
(* Both compute with symbolic values, tuples headed by the operation that  *)
(* made them, and both restart with arbitrary variables at every block:    *)
(* code generation carries only tables from block to block.                *)
(***************************************************************************)
EXTENDS Tac, Naturals, Sequences, FiniteSets

CONSTANTS
  Scalars, Arrays,  \* declared variables
  Consts,           \* declared constants: named by the user, never in memory
  Temps,            \* "$t" names
  Literals, Labels,
  LargeImmediate,   \* the name of a literal's 256-bit copy in memory
  GPR, AVX,         \* the general purpose and the vector registers
  Programs,         \* sequences of basic blocks, each a sequence of instructions
  NoReg, Free       \* no register in a location; no entry in the register table

(* registers.cpp has thirteen of the one and sixteen of the other. *)
ASSUME RegistersAssumption ==
  /\ IsFiniteSet(GPR) /\ IsFiniteSet(AVX) /\ GPR \intersect AVX = {} /\ NoReg \notin GPR \union AVX
  /\ GPR # {} /\ Cardinality(GPR) <= Cardinality(AVX)

LargeCopies == {LargeImmediate[l] : l \in Literals}

Names ==
  UNION {Scalars, Arrays, Consts, Temps, Literals, LargeCopies}

(* Each name stands for one thing: no two scopes give it to different ones. *)
ASSUME NamesAssumption ==
  /\ Free \notin Names /\ NoName \notin Names /\ Labels \intersect Names = {}
  /\ Scalars \intersect UNION {Arrays, Consts, Temps, Literals, LargeCopies} = {}
  /\ Arrays \intersect UNION {Consts, Temps, Literals, LargeCopies} = {}
  /\ Consts \intersect UNION {Temps, Literals, LargeCopies} = {}
  /\ Temps \intersect (Literals \union LargeCopies) = {}
  /\ Literals \intersect LargeCopies = {}
ASSUME LargeImmediateAssumption == DOMAIN LargeImmediate = Literals

Regs(type) == IF type = "GPR" THEN GPR ELSE AVX
AllRegs == GPR \union AVX

(* The instructions the earlier phases emit, by the operands they carry. *)
Instruction ==
  Shape(Arithmetic \union {"ARRAY_INDEX", "VADD", "VSUB", "VLOAD", "VSTORE"}, Names, Names, Names)
    \union Shape(Comparisons, Names \union {NoName}, Names, Names)
    \union Shape({"ASSIGN"}, Scalars \union Arrays, {NoName}, {NoName})
    \union Shape({"ASSIGN", "VASSIGN"}, Names, Names, {NoName})
    \union Shape({"READ", "WRITE", "PROC_PARAM"}, {NoName}, Names, {NoName})
    \union Shape({"NEGATE"}, Names, Names, {NoName})
    \union Shape(Jumps \union {"LABEL", "CALL", "ENTER_PROC", "EXIT_PROC"}, {NoName}, Labels, {NoName})
    \union Shape({"NOP"}, {NoName}, {NoName}, {NoName})

ASSUME ProgramsAssumption == \A p \in Programs : p \in Seq(Seq(Instruction))

VARIABLES
  program,
  blk, idx,      \* the block and the instruction being generated
  stage,         \* "next" instruction, its "registers", or "done"
  freed,         \* freeRegisters has run for this block
  requests, got, \* registers the instruction still asks for, and those it has
  fault,         \* an assertion failed or a null register was used
  regTable, addressTable, globals, stack,
  machine,       \* registers, memory, flags and effects of the emitted code
  reference      \* variables, flags and effects of the three-address code

position == <<program, blk, idx>>
tables == <<regTable, addressTable, globals, stack>>
vars == <<position, stage, freed, requests, got, fault, tables, machine, reference>>

Block == program[blk]
Inst == Block[idx]

-----------------------------------------------------------------------------
(* Location, address_table.h *)

At(type, reg, isAddress) == [type |-> type, reg |-> reg, isAddress |-> isAddress]
Nowhere == At("none", NoReg, FALSE)
Global == At("global", NoReg, FALSE)
Stack == At("stack", NoReg, FALSE)
Immediate == At("immediate", NoReg, FALSE)
Register(r, isAddress) == At("register", r, isAddress)

Location == {Nowhere, Global, Stack, Immediate}
              \union {Register(r, b) : r \in AllRegs, b \in BOOLEAN}

Located(v) == addressTable[v] # Nowhere
InRegister(v) == addressTable[v].type = "register"

(* A mutation of HomeOf: every variable is stored in a stack slot. *)
HomeOfStack(v) == Stack

(* Where storeVariable puts a variable: global memory or a stack slot. *)
HomeOf(v) == IF v \in globals THEN Global ELSE Stack

(***************************************************************************)
(* RegisterAllocationTable.  The sets of registers are ordered by pointer, *)
(* so which register of a set comes first is any choice.  The table holds  *)
(* registers of both types, and its size counts both.                      *)
(***************************************************************************)
Used == {r \in AllRegs : regTable[r] # Free}

(* A mutation of AtLeastOneRegisterUnused: the size of both sets is compared. *)
AnyRegisterUnused(type) == Cardinality(AllRegs) # Cardinality(Used)

AtLeastOneRegisterUnused(type) == Cardinality(Regs(type)) # Cardinality(Used)

(***************************************************************************)
(* LivenessTable.  Liveness::setLive assigns the member to itself, so what *)
(* is live is what is live by default: every name that is not a temporary. *)
(***************************************************************************)
IsLive(v) == v \notin Temps
HasNextUse(v) ==
  \E j \in idx + 1 .. Len(Block) :
    /\ IsSimple(Block[j]) /\ v \in Operands(Block[j])
    /\ \A k \in idx + 1 .. j - 1 : IsSimple(Block[k]) => Block[k].result # v

(* A mutation of IsUpdated: only the last instruction is looked at. *)
IsUpdatedLast(v) == Block[Len(Block)].result = v

IsUpdated(v) == \E i \in 1 .. Len(Block) : Block[i].result = v
Expendable(v) == ~IsLive(v) /\ ~HasNextUse(v)

(***************************************************************************)
(* The registers an instruction asks for, in order: "force" is a call of   *)
(* forceRegister, otherwise of getRegister; an address is loaded by leaq.  *)
(***************************************************************************)
Ask(v, type, address, force) == [name |-> v, type |-> type, address |-> address, force |-> force]
Request == [name : Names, type : {"GPR", "AVX"}, address : BOOLEAN, force : BOOLEAN]

IndexAndArray(i, last) ==
  <<Ask(i.arg2, "GPR", FALSE, TRUE), Ask(i.arg1, "GPR", TRUE, TRUE), last>>

Requests(i) ==
  IF i.op = "ASSIGN" /\ i.arg1 # NoName /\ ~Located(i.result)
  THEN <<Ask(i.result, "GPR", FALSE, FALSE)>>
  ELSE IF i.op \in Arithmetic THEN <<Ask(i.arg1, "GPR", FALSE, TRUE)>>
  ELSE IF IsComparison(i)
  THEN LET operand == Ask(i.arg1, "GPR", FALSE, FALSE)
       IN  IF HasResult(i) THEN <<operand, operand>> ELSE <<operand>>
  ELSE IF i.op = "ARRAY_INDEX" THEN IndexAndArray(i, Ask(i.result, "GPR", TRUE, FALSE))
  ELSE IF i.op \in {"VLOAD", "VSTORE"} THEN IndexAndArray(i, Ask(i.result, "AVX", FALSE, FALSE))
  ELSE IF \/ i.op \in {"VADD", "VSUB"} /\ ~Expendable(i.arg1) /\ ~Expendable(i.arg2)
          \/ i.op = "VASSIGN"
  THEN <<Ask(i.result, "AVX", FALSE, FALSE)>>
  ELSE <<>>

-----------------------------------------------------------------------------
(***************************************************************************)
(* Symbolic values.  An element's place is a value headed "element"; a     *)
(* load remembers every store made before it.                              *)
(***************************************************************************)
Junk == <<"junk">>
Load(place, heap) == <<"load", place, heap>>
AddressOf(v) == <<"address", v>>
Element(array, index) == <<"element", array, index>>
IsPlace(value) == value[1] = "element"

(* Each block starts with unknown variables and nothing in registers. *)
Initially == [v \in Names |-> IF v \in Literals THEN <<"literal", v>> ELSE <<"initially", v>>]
FreshMachine ==
  [reg |-> [r \in AllRegs |-> Junk], mem |-> Initially, heap |-> <<>>, flags |-> Junk, output |-> <<>>]
FreshReference == [env |-> Initially, heap |-> <<>>, flags |-> Junk, output |-> <<>>]

(***************************************************************************)
(* What the operand Location::address prints evaluates to.  The stack      *)
(* operand adds its offset to a C string instead of printing it, and no    *)
(* store to the stack is ever emitted: it reads anything.                  *)
(***************************************************************************)
Read(v, location, m) ==
  CASE location.type = "register" ->
         IF location.isAddress THEN Load(m.reg[location.reg], m.heap) ELSE m.reg[location.reg]
    [] location.type = "immediate" -> <<"literal", v>>
    [] location.type = "global" -> m.mem[v]
    [] OTHER -> Junk

Operand(v) == Read(v, addressTable[v], machine)

(* Two operands in memory are a form x86 does not have. *)
InMemory(location) ==
  location.type \in {"global", "stack"} \/ (location.type = "register" /\ location.isAddress)

(* What an instruction of three-address code means: the reference after it. *)
(* Nothing is said of the flags once there was arithmetic or output.        *)
Meaning(v) ==
  CASE v \in Literals -> <<"literal", v>>
    [] v \notin Literals /\ IsPlace(reference.env[v]) -> Load(reference.env[v], reference.heap)
    [] OTHER -> reference.env[v]

Define(v, value) == [reference EXCEPT !.env[v] = value]
World(m) == [v \in Scalars |-> m[v]]
AfterCall(m, heap) ==
  [v \in DOMAIN m |-> IF v \in Scalars THEN <<"after call", v, World(m), heap>> ELSE m[v]]

Interpreted(i) ==
  CASE i.op = "ASSIGN" /\ i.arg1 # NoName ->
         IF IsPlace(reference.env[i.result])
         THEN [reference EXCEPT !.heap = Append(@, <<reference.env[i.result], Meaning(i.arg1)>>)]
         ELSE Define(i.result, Meaning(i.arg1))
    [] i.op \in Arithmetic ->
         [Define(i.result, <<i.op, Meaning(i.arg1), Meaning(i.arg2)>>) EXCEPT !.flags = Junk]
    [] i.op \in {"VADD", "VSUB"} ->
         Define(i.result, <<i.op, Meaning(i.arg1), Meaning(i.arg2)>>)
    [] IsComparison(i) ->
         LET compared == [reference EXCEPT !.flags = <<"compare", Meaning(i.arg1), Meaning(i.arg2)>>]
         IN  IF HasResult(i) THEN [compared EXCEPT !.env[i.result] = <<i.op, compared.flags>>]
                             ELSE compared
    [] i.op \in {"ARRAY_INDEX", "VLOAD"} ->
         LET place == Element(AddressOf(i.arg1), Meaning(i.arg2))
         IN  Define(i.result, IF i.op = "ARRAY_INDEX" /\ i.result \in Temps THEN place
                                                     ELSE Load(place, reference.heap))
    [] i.op = "VSTORE" ->
         [reference EXCEPT !.heap =
            Append(@, <<Element(AddressOf(i.arg1), Meaning(i.arg2)), Meaning(i.result)>>)]
    [] i.op = "VASSIGN" ->
         Define(i.result, IF i.arg1 \in Literals THEN <<"initially", LargeImmediate[i.arg1]>>
                                                 ELSE Meaning(i.arg1))
    [] i.op = "WRITE" -> [reference EXCEPT !.output = Append(@, Meaning(i.arg1)), !.flags = Junk]
    [] i.op = "READ" -> Define(i.arg1, <<"input">>)
    [] i.op = "CALL" ->
         [reference EXCEPT !.env = AfterCall(@, reference.heap),
                           !.heap = Append(@, <<"call", World(reference.env)>>),
                           !.output = Append(@, <<"call", World(reference.env)>>)]
    [] OTHER -> reference

-----------------------------------------------------------------------------
Init ==
  /\ program \in Programs
  /\ blk = 1 /\ idx = 1
  /\ stage = "next" /\ freed = FALSE
  /\ requests = <<>> /\ got = <<>>
  /\ fault = "none"
  /\ regTable = [r \in AllRegs |-> Free]
  /\ addressTable = [v \in Names |-> Nowhere]
  /\ globals = {} /\ stack = {}
  /\ machine = FreshMachine /\ reference = FreshReference

(***************************************************************************)
(* generateFrom3AC, up to the first register an instruction asks for: the  *)
(* literals among its operands are located, and some operands looked up.   *)
(***************************************************************************)
AtInstruction ==
  /\ fault = "none" /\ stage = "next"
  /\ blk <= Len(program) /\ idx <= Len(Block)
  /\ idx = Len(Block) /\ TransfersControl(Inst) => freed

(* A mutation of WithLiterals: the second operand is forgotten. *)
WithFirstLiteral ==
  [v \in Names |-> IF v \in {Inst.arg1} \intersect Literals THEN Immediate ELSE addressTable[v]]

WithLiterals ==
  [v \in Names |-> IF v \in Operands(Inst) \intersect Literals THEN Immediate ELSE addressTable[v]]

(* Names getLocation is asked for first; it asserts that it contains them. *)
LookedUp(i) ==
  IF i.op \in {"ASSIGN", "WRITE", "VADD", "VSUB", "VASSIGN"} THEN Operands(i) ELSE {}

LookupHolds ==
  \A v \in LookedUp(Inst) :
    /\ WithLiterals[v] # Nowhere
    /\ Inst.op \in {"VADD", "VSUB"} => WithLiterals[v].type = "register"

Captured(i) ==
  IF i.op \in {"VADD", "VSUB"} THEN <<addressTable[i.arg1].reg, addressTable[i.arg2].reg>>
  ELSE IF i.op = "VASSIGN" THEN <<WithLiterals[i.arg1].reg>>
  ELSE <<>>

Fetch ==
  /\ AtInstruction
  /\ LookupHolds
  /\ stage' = "registers"
  /\ addressTable' = WithLiterals
  /\ requests' = Requests(Inst)
  /\ got' = Captured(Inst)
  /\ UNCHANGED <<position, freed, fault, regTable, globals, stack, machine, reference>>

LookupFails ==
  /\ AtInstruction
  /\ ~LookupHolds
  /\ fault' = "assertion"
  /\ addressTable' = WithLiterals
  /\ UNCHANGED <<position, stage, freed, requests, got, regTable, globals, stack, machine, reference>>

-----------------------------------------------------------------------------
(* getRegister and forceRegister, for the register asked for first. *)

Asking == fault = "none" /\ stage = "registers" /\ requests # <<>>
Asked == Head(requests)
Answer(reg) == requests' = Tail(requests) /\ got' = Append(got, reg)

(* forceRegister returns the register of a value that is in one already. *)
HasRegister ==
  /\ Asked.force /\ InRegister(Asked.name)
  /\ addressTable[Asked.name].isAddress => Asked.address

AlreadyInRegister ==
  /\ Asking
  /\ HasRegister
  /\ Answer(addressTable[Asked.name].reg)
  /\ UNCHANGED <<position, stage, freed, fault, tables, machine, reference>>

(***************************************************************************)
(* The end of getRegister, given the tables and the machine it has reached *)
(* by then: load the variable if it is located in memory, and record it.   *)
(* forceRegister then follows an address, but through the location it      *)
(* holds a reference to, which getRegister has just overwritten.           *)
(***************************************************************************)
Grant(reg, table, owners, m) ==
  LET v == Asked.name
      loaded == CASE table[v].type \in {"none", "register"} -> m.reg[reg]
                  [] table[v].type = "global" /\ Asked.address -> AddressOf(v)
                  [] OTHER -> Read(v, table[v], m)
      follows == Asked.force /\ InRegister(v)
  IN  /\ regTable' = [owners EXCEPT ![reg] = v]
      /\ addressTable' = [table EXCEPT ![v] = Register(reg, Asked.address)]
      /\ machine' = [m EXCEPT !.reg[reg] = IF follows THEN Load(loaded, m.heap) ELSE loaded]
      /\ Answer(reg)

(***************************************************************************)
(* storeContentFromRegister: the variable the table names goes home, and   *)
(* with it only the address of that one variable.                          *)
(***************************************************************************)
SentHome(reg) == [addressTable EXCEPT ![regTable[reg]] = HomeOf(regTable[reg])]
Stored(reg) ==
  IF regTable[reg] \in globals THEN [machine EXCEPT !.mem[regTable[reg]] = machine.reg[reg]]
                               ELSE machine
OnStack(reg) == IF regTable[reg] \in globals THEN stack ELSE stack \union {regTable[reg]}
Freed(reg) == [regTable EXCEPT ![reg] = Free]

Reusable == InRegister(Asked.name) /\ ~IsLive(Asked.name)

(* A value in a register that is not live: the register is taken from it. *)
ReuseRegister ==
  /\ Asking /\ ~HasRegister
  /\ Reusable
  /\ LET reg == addressTable[Asked.name].reg
     IN  IF Asked.name \in globals \union stack
         THEN Grant(reg, SentHome(reg), Freed(reg), Stored(reg)) /\ stack' = OnStack(reg)
         ELSE Grant(reg, addressTable, regTable, machine) /\ stack' = stack
  /\ UNCHANGED <<position, stage, freed, fault, globals, reference>>

TakeUnused ==
  /\ Asking /\ ~HasRegister /\ ~Reusable
  /\ AtLeastOneRegisterUnused(Asked.type)
  /\ \E reg \in Regs(Asked.type) \ Used : Grant(reg, addressTable, regTable, machine)
  /\ UNCHANGED <<position, stage, freed, fault, globals, stack, reference>>

(* The sizes differ, yet every register of the type is taken: a null pointer. *)
NullRegister ==
  /\ Asking /\ ~HasRegister /\ ~Reusable
  /\ AtLeastOneRegisterUnused(Asked.type)
  /\ Regs(Asked.type) \subseteq Used
  /\ fault' = "null register"
  /\ UNCHANGED <<position, stage, freed, requests, got, tables, machine, reference>>

Spill ==
  /\ Asking /\ ~HasRegister /\ ~Reusable
  /\ ~AtLeastOneRegisterUnused(Asked.type)
  /\ \E reg \in Regs(Asked.type) \intersect Used :
       /\ Grant(reg, SentHome(reg), Freed(reg), Stored(reg))
       /\ stack' = OnStack(reg)
  /\ UNCHANGED <<position, stage, freed, fault, globals, reference>>

(* Every entry is of the other type: storeContentFromRegister asserts. *)
NothingToSpill ==
  /\ Asking /\ ~HasRegister /\ ~Reusable
  /\ ~AtLeastOneRegisterUnused(Asked.type)
  /\ Regs(Asked.type) \intersect Used = {}
  /\ fault' = "assertion"
  /\ UNCHANGED <<position, stage, freed, requests, got, tables, machine, reference>>

-----------------------------------------------------------------------------
(* The instruction itself, once it has its registers. *)

Emitting(operations) ==
  /\ fault = "none" /\ stage = "registers" /\ requests = <<>>
  /\ Inst.op \in operations

(* On to the next instruction; the reference takes its step with the code. *)
Emitted ==
  /\ stage' = "next" /\ idx' = idx + 1 /\ got' = <<>>
  /\ reference' = Interpreted(Inst)
  /\ UNCHANGED <<program, blk, freed, requests, fault>>

Holds(reg, v, isAddress) ==
  /\ regTable' = [regTable EXCEPT ![reg] = v]
  /\ addressTable' = [addressTable EXCEPT ![v] = Register(reg, isAddress)]
  /\ UNCHANGED <<globals, stack>>

SetsRegister(reg, value) == machine' = [machine EXCEPT !.reg[reg] = value]

(* No scope is ever opened in the stack table: every variable is global. *)
EmitDeclaration ==
  /\ Emitting({"ASSIGN"}) /\ Inst.arg1 = NoName
  /\ globals' = globals \union {Inst.result}
  /\ addressTable' = [addressTable EXCEPT ![Inst.result] = Global]
  /\ Emitted /\ UNCHANGED <<regTable, stack, machine>>

(* movq source, destination: wherever the address table has the result. *)
EmitCopy ==
  /\ Emitting({"ASSIGN"}) /\ Inst.arg1 # NoName
  /\ LET dest == addressTable[Inst.result]
         value == IF InMemory(dest) /\ InMemory(addressTable[Inst.arg1]) THEN Junk
                                                                         ELSE Operand(Inst.arg1)
     IN  machine' = CASE dest.type = "register" /\ dest.isAddress ->
                           [machine EXCEPT !.heap = Append(@, <<machine.reg[dest.reg], value>>)]
                      [] dest.type = "register" /\ ~dest.isAddress ->
                           [machine EXCEPT !.reg[dest.reg] = value]
                      [] dest.type = "global" -> [machine EXCEPT !.mem[Inst.result] = value]
                      [] OTHER -> machine
  /\ Emitted /\ UNCHANGED tables

(* generateConditional and convertGeneral3AC assert that arg2 has a location. *)
SecondOperandMissing ==
  /\ Emitting(Arithmetic \union Comparisons)
  /\ ~Located(Inst.arg2)
  /\ fault' = "assertion"
  /\ UNCHANGED <<position, stage, freed, requests, got, tables, machine, reference>>

(* op arg2, reg: the register of arg1 becomes the result's.  A division is  *)
(* printed with two operands, which no division has.                        *)
EmitArithmetic ==
  /\ Emitting(Arithmetic) /\ Located(Inst.arg2)
  /\ machine' = [machine EXCEPT
       !.reg[got[1]] = IF Inst.op = "DIV" THEN Junk
                       ELSE <<Inst.op, machine.reg[got[1]], Operand(Inst.arg2)>>,
       !.flags = Junk]
  /\ Holds(got[1], Inst.result, FALSE)
  /\ Emitted

(* cmp arg2, reg; a result that is wanted only gets a one-operand test. *)
EmitConditional ==
  /\ Emitting(Comparisons) /\ Located(Inst.arg2)
  /\ machine' = [machine EXCEPT !.flags =
       IF HasResult(Inst) THEN Junk
                          ELSE <<"compare", machine.reg[got[1]], Operand(Inst.arg2)>>]
  /\ Emitted /\ UNCHANGED tables

(* leaq (array, index, 8), result *)
EmitArrayIndex ==
  /\ Emitting({"ARRAY_INDEX"})
  /\ SetsRegister(got[3], Element(machine.reg[got[2]], machine.reg[got[1]]))
  /\ Holds(got[3], Inst.result, TRUE)
  /\ Emitted

(* The registers in use are saved around the call of the library, those of  *)
(* vectors with a pushq they do not have: such code is not even assembled.  *)
EmitWrite ==
  /\ Emitting({"WRITE"})
  /\ machine' = [machine EXCEPT
       !.output = Append(@, IF Used \subseteq GPR THEN Operand(Inst.arg1) ELSE Junk),
       !.flags = Junk]
  /\ Emitted /\ UNCHANGED tables

(* The callee uses the same registers and variables; the tables stay. *)
EmitCall ==
  /\ Emitting({"CALL"})
  /\ machine' = [machine EXCEPT !.reg = [r \in AllRegs |-> Junk],
                                !.mem = AfterCall(@, machine.heap),
                                !.heap = Append(@, <<"call", World(machine.mem)>>),
                                !.output = Append(@, <<"call", World(machine.mem)>>),
                                !.flags = Junk]
  /\ Emitted /\ UNCHANGED tables

EmitVectorLoad ==
  /\ Emitting({"VLOAD"})
  /\ SetsRegister(got[3], Load(Element(machine.reg[got[2]], machine.reg[got[1]]), machine.heap))
  /\ Holds(got[3], Inst.result, FALSE)
  /\ Emitted

EmitVectorStore ==
  /\ Emitting({"VSTORE"})
  /\ machine' = [machine EXCEPT !.heap = Append(@,
       <<Element(machine.reg[got[2]], machine.reg[got[1]]), machine.reg[got[3]]>>)]
  /\ Emitted /\ UNCHANGED tables

(* The result takes the register of an operand nobody needs any more.  The  *)
(* operands are printed in the order arg1, arg2, in which the assembler      *)
(* subtracts the first from the second.                                      *)
EmitVector ==
  /\ Emitting({"VADD", "VSUB"})
  /\ LET target == IF Expendable(Inst.arg1) THEN got[1]
                   ELSE IF Expendable(Inst.arg2) THEN got[2]
                   ELSE got[3]
         value == IF Inst.op = "VADD" THEN <<"VADD", machine.reg[got[1]], machine.reg[got[2]]>>
                                      ELSE <<"VSUB", machine.reg[got[2]], machine.reg[got[1]]>>
     IN  /\ SetsRegister(target, value)
         /\ Holds(target, Inst.result, FALSE)
  /\ Emitted

(* A mutation of EmitVectorAssign: the absent operand is recorded. *)
EmitVectorAssignSecond ==
  /\ Emitting({"VASSIGN"})
  /\ got[1] # NoReg \/ Inst.arg1 \in Literals
  /\ LET fromMemory == got[1] = NoReg
         large == IF fromMemory THEN {LargeImmediate[Inst.arg1]} ELSE {}
     IN  /\ SetsRegister(got[2], IF fromMemory THEN machine.mem[LargeImmediate[Inst.arg1]]
                                               ELSE machine.reg[got[1]])
         /\ globals' = globals \union large
         /\ addressTable' = [v \in Names |-> IF v = Inst.result THEN Register(got[2], FALSE)
                                              ELSE IF v \in large THEN Global
                                              ELSE addressTable[v]]
  /\ regTable' = [regTable EXCEPT ![got[2]] = Inst.arg2]
  /\ UNCHANGED stack
  /\ Emitted

(***************************************************************************)
(* generateYmmAssign: a literal is copied from a 256-bit region that is    *)
(* declared on first use.  The register table records the OPERAND's name.  *)
(***************************************************************************)
VectorSourceFails ==
  /\ Emitting({"VASSIGN"})
  /\ got[1] = NoReg /\ Inst.arg1 \notin Literals
  /\ fault' = "assertion"
  /\ UNCHANGED <<position, stage, freed, requests, got, tables, machine, reference>>

EmitVectorAssign ==
  /\ Emitting({"VASSIGN"})
  /\ got[1] # NoReg \/ Inst.arg1 \in Literals
  /\ LET fromMemory == got[1] = NoReg
         large == IF fromMemory THEN {LargeImmediate[Inst.arg1]} ELSE {}
     IN  /\ SetsRegister(got[2], IF fromMemory THEN machine.mem[LargeImmediate[Inst.arg1]]
                                               ELSE machine.reg[got[1]])
         /\ globals' = globals \union large
         /\ addressTable' = [v \in Names |-> IF v = Inst.result THEN Register(got[2], FALSE)
                                              ELSE IF v \in large THEN Global
                                              ELSE addressTable[v]]
  /\ regTable' = [regTable EXCEPT ![got[2]] = Inst.arg1]
  /\ UNCHANGED stack
  /\ Emitted

(* The generator has no instruction for a negation, nor for these jumps. *)
Unprintable == {"NEGATE", "JMP_L", "JMP_G"}

InvalidInstruction ==
  /\ Emitting(Unprintable)
  /\ fault' = "invalid instruction"
  /\ UNCHANGED <<position, stage, freed, requests, got, tables, machine, reference>>

(* Labels and jumps are printed; reading, parameters and bounds are not. *)
EmitUntracked ==
  /\ Emitting((Jumps \ Unprintable) \union {"LABEL", "NOP", "READ", "PROC_PARAM", "ENTER_PROC", "EXIT_PROC"})
  /\ Emitted /\ UNCHANGED <<tables, machine>>

-----------------------------------------------------------------------------
(***************************************************************************)
(* freeRegisters: every variable that has a home and is defined somewhere  *)
(* in the block is stored from the register the address table has it in,   *)
(* before the jump that ends the block or else after the last instruction. *)
(***************************************************************************)
Homed == {v \in Names : InRegister(v) /\ v \in globals \union stack}

(* A mutation of FreeRegisters: the addresses of temporaries stay. *)
FreeRegistersOfVariables ==
  /\ fault = "none" /\ stage = "next" /\ ~freed
  /\ blk <= Len(program)
  /\ \/ idx > Len(Block)
     \/ idx = Len(Block) /\ TransfersControl(Inst)
  /\ freed' = TRUE
  /\ machine' = [machine EXCEPT !.mem =
       [v \in Names |-> IF v \in Homed \intersect globals /\ IsUpdated(v)
                        THEN machine.reg[addressTable[v].reg] ELSE machine.mem[v]]]
  /\ addressTable' = [v \in Names |-> IF v \in Homed THEN HomeOf(v) ELSE addressTable[v]]
  /\ regTable' = [r \in AllRegs |-> Free]
  /\ UNCHANGED <<position, stage, requests, got, fault, globals, stack, reference>>

FreeRegisters ==
  /\ fault = "none" /\ stage = "next" /\ ~freed
  /\ blk <= Len(program)
  /\ \/ idx > Len(Block)
     \/ idx = Len(Block) /\ TransfersControl(Inst)
  /\ freed' = TRUE
  /\ machine' = [machine EXCEPT !.mem =
       [v \in Names |-> IF v \in Homed \intersect globals /\ IsUpdated(v)
                        THEN machine.reg[addressTable[v].reg] ELSE machine.mem[v]]]
  /\ addressTable' = [v \in Names |-> IF v \in Homed THEN HomeOf(v)
                                       ELSE IF InRegister(v) THEN Nowhere
                                       ELSE addressTable[v]]
  /\ regTable' = [r \in AllRegs |-> Free]
  /\ UNCHANGED <<position, stage, requests, got, fault, globals, stack, reference>>

NextBlock ==
  /\ fault = "none" /\ stage = "next" /\ freed
  /\ blk <= Len(program) /\ idx > Len(Block)
  /\ blk' = blk + 1 /\ idx' = 1
  /\ freed' = FALSE
  /\ machine' = FreshMachine /\ reference' = FreshReference
  /\ UNCHANGED <<program, stage, requests, got, fault, tables>>

(* insertExit and to_file: the program is complete. *)
Finish ==
  /\ fault = "none" /\ stage = "next"
  /\ blk > Len(program)
  /\ stage' = "done"
  /\ UNCHANGED <<position, freed, requests, got, fault, tables, machine, reference>>

Emit ==
  \/ EmitDeclaration \/ EmitCopy \/ EmitArithmetic \/ EmitConditional
  \/ EmitArrayIndex \/ EmitWrite \/ EmitCall \/ EmitUntracked
  \/ EmitVectorLoad \/ EmitVectorStore \/ EmitVector \/ EmitVectorAssign

GetRegister == AlreadyInRegister \/ ReuseRegister \/ TakeUnused \/ Spill

Fail ==
  \/ LookupFails \/ NullRegister \/ NothingToSpill
  \/ SecondOperandMissing \/ VectorSourceFails \/ InvalidInstruction

Next == Fetch \/ GetRegister \/ Emit \/ Fail \/ FreeRegisters \/ NextBlock \/ Finish

Spec == Init /\ [][Next]_vars

-----------------------------------------------------------------------------
(* The type invariant of the tables and of the generator's own position. *)
TypeOK ==
  /\ program \in Seq(Seq(Instruction))
  /\ blk \in Nat \ {0} /\ idx \in Nat \ {0}
  /\ stage \in {"next", "registers", "done"}
  /\ freed \in BOOLEAN
  /\ requests \in Seq(Request)
  /\ got \in Seq(AllRegs \union {NoReg})
  /\ fault \in {"none", "assertion", "null register", "invalid instruction"}
  /\ regTable \in [AllRegs -> Names \union {Free}]
  /\ addressTable \in [Names -> Location]
  /\ globals \subseteq Names
  /\ stack \subseteq Names

(***************************************************************************)
(* A declared variable is always to be found: getRegister, spilling and    *)
(* freeRegisters move it between its register and global memory, and at a  *)
(* block boundary, which another path of the program may reach with other  *)
(* registers, it is in global memory and no register is taken.             *)
(***************************************************************************)
GlobalsHaveHome ==
  /\ \A v \in globals \ Literals : addressTable[v] = Global \/ InRegister(v)
  /\ freed => Used = {} /\ \A v \in Names : ~InRegister(v)

(***************************************************************************)
(* A register in which the address table locates some name is taken in the *)
(* register table, although the two tables are written separately and      *)
(* storing frees a register other names are still located in: an unused    *)
(* register is never one that somebody's value is believed to be in.       *)
(***************************************************************************)
LocatedRegistersAreTaken ==
  \A v \in Names : InRegister(v) => regTable[addressTable[v].reg] # Free

(***************************************************************************)
(* atLeastOneRegisterUnused compares the size of one register set with the *)
(* number of entries of both.  In a program without vector instructions    *)
(* every request is still answered with a register, never a null pointer.  *)
(***************************************************************************)
UsesVectors(p) == \E b \in 1 .. Len(p) : \E i \in 1 .. Len(p[b]) : p[b][i].op \in VectorOperations

ScalarCodeGetsARegister == fault = "null register" => UsesVectors(program)

-----------------------------------------------------------------------------
(***************************************************************************)
(* What the earlier phases see to: a variable is declared before it is     *)
(* mentioned, a temporary defined once before it is used, an operand is of *)
(* a kind its operation has a meaning for, and a jump that tests stands    *)
(* right behind a comparison.                                              *)
(***************************************************************************)
Before(b, i) == UNION {Mentions(b[j]) : j \in 1 .. i - 1}
After(b, i) == UNION {Mentions(b[j]) : j \in i + 1 .. Len(b)}
DefinedBefore(b, i) == {b[j].result : j \in 1 .. i - 1}
Places(b) == {b[j].result : j \in {k \in 1 .. Len(b) : b[k].op = "ARRAY_INDEX"}}

IsDeclaration(i) == i.op = "ASSIGN" /\ i.arg1 = NoName
Declared(b, i) == {b[j].result : j \in {k \in 1 .. i : IsDeclaration(b[k])}}
DeclaredBefore(p, k) == UNION {Declared(p[j], Len(p[j])) : j \in 1 .. k - 1}

Values == UNION {Scalars, Consts, Temps, Literals}

OfItsKind(b, i) ==
  CASE b[i].op = "ASSIGN" -> IsDeclaration(b[i]) \/ b[i].result \in Values \ Literals
    [] b[i].op \in Arithmetic -> Operands(b[i]) \subseteq Values /\ b[i].result \in Scalars \union Temps
    [] b[i].op \in Comparisons \union {"WRITE"} -> Operands(b[i]) \subseteq Values
    [] b[i].op \in {"ARRAY_INDEX", "VLOAD", "VSTORE"} ->
         /\ b[i].arg1 \in Arrays /\ b[i].arg2 \in Values /\ b[i].result \in Temps
         /\ b[i].op = "VSTORE" => b[i].result \notin Places(b)
    [] b[i].op \in {"VADD", "VSUB"} -> Operands(b[i]) \subseteq Temps \ Places(b) /\ b[i].result \in Temps
    [] b[i].op = "VASSIGN" -> b[i].result \in Temps
    [] OTHER -> TRUE

InOrder(p, k, i) ==
  LET b == p[k]
  IN  /\ Mentions(b[i]) \intersect (Scalars \union Arrays) \subseteq DeclaredBefore(p, k) \union Declared(b, i)
      /\ IsDeclaration(b[i]) => b[i].result \notin Before(b, i)
      /\ Operands(b[i]) \intersect Temps \subseteq DefinedBefore(b, i)
      /\ b[i].result \in Temps => (b[i].result \in DefinedBefore(b, i) <=> b[i].op \in {"ASSIGN", "VSTORE"})
      /\ b[i].op \in ConditionalJumps => i > 1 /\ IsComparison(b[i - 1]) /\ ~HasResult(b[i - 1])

WellFormed(p, k) == \A i \in 1 .. Len(p[k]) : OfItsKind(p[k], i) /\ InOrder(p, k, i)

(***************************************************************************)
(* The blocks the generator gets right.  Each condition names a shape it   *)
(* does not handle; without any one of them EffectIsCorrect fails.         *)
(***************************************************************************)
Sums == Arithmetic \union {"VADD", "VSUB"}

(* arg1's register is about to hold the result: arg1 may not matter again. *)
ConsumesFirstOperand(b, i) ==
  \/ b[i].arg1 \in {b[i].result} \union Literals
  \/ b[i].arg1 \notin After(b, i) \union (DefinedBefore(b, i) \ Temps)

(* The operands have forms that movq, add, sub, imul and cmp can take; a    *)
(* vector is subtracted from itself only, the order being the wrong one.    *)
HasForm(b, i) ==
  CASE b[i].op = "ASSIGN" -> b[i].arg1 \in {NoName} \union Literals \union Consts \union (Temps \ Places(b))
    [] b[i].op \in Comparisons -> b[i].result = NoName
    [] b[i].op = "VASSIGN" -> b[i].arg1 \in Literals
    [] b[i].op = "VSUB" -> b[i].arg1 = b[i].arg2
    [] OTHER -> b[i].op \notin {"READ", "DIV", "PROC_PARAM"} \union Unprintable

Handled(b, i) ==
  /\ HasForm(b, i)
  /\ b[i].op \in Sums => ConsumesFirstOperand(b, i)
  /\ b[i].op \in Comparisons =>
       b[i].arg1 \in (Temps \ Places(b)) \union Literals \/ b[i].arg1 \notin Before(b, i)
  /\ b[i].op \in {"ARRAY_INDEX", "VLOAD", "VSTORE"} /\ b[i].arg2 \in Places(b) => b[i].arg2 \notin After(b, i)
  /\ b[i].op = "CALL" => Before(b, i) = {}
  /\ b[i].op = "WRITE" => \A j \in 1 .. i - 1 : b[j].op \notin VectorOperations

(***************************************************************************)
(* The registers a block takes, of both types as the table counts them.    *)
(* A sum takes that of its first operand, which a temporary that is a sum  *)
(* is in already; a literal is located as an immediate again by every use, *)
(* and loaded again.                                                       *)
(***************************************************************************)
InRegisters(i) ==
  CASE i.op \in Arithmetic \union Comparisons -> {i.arg1}
    [] i.op \in {"ARRAY_INDEX", "VLOAD", "VSTORE"} -> Mentions(i)
    [] OTHER -> {i.result} \intersect (IF i.op = "VASSIGN" THEN Temps ELSE Consts)

Taken(b) ==
  LET sums == {b[i].result : i \in {j \in 1 .. Len(b) : b[j].op \in Sums}} \intersect Temps
  IN  UNION {{<<v, IF v \in Literals THEN i ELSE 0>> : v \in InRegisters(b[i]) \ sums} : i \in 1 .. Len(b)}

(***************************************************************************)
(* Only a scalar survives losing its register, and only while the register *)
(* table names one register for it: the result of a sum that was in        *)
(* another register stays in the table there, and would be stored again.   *)
(***************************************************************************)
MaySpill(b) ==
  \A i \in 1 .. Len(b) :
    /\ InRegisters(b[i]) \subseteq Scalars /\ b[i].result \notin Temps
    /\ b[i].op \in Sums => b[i].result \notin Before(b, i) \ {b[i].arg1}

RegistersSuffice(b) == Cardinality(Taken(b)) <= Cardinality(GPR) \/ MaySpill(b)

ConstantsAreLocal(b) ==
  \A i \in 1 .. Len(b) : Operands(b[i]) \intersect Consts \subseteq DefinedBefore(b, i)

Disciplined(b) ==
  /\ \A i \in 1 .. Len(b) : Handled(b, i)
  /\ RegistersSuffice(b)
  /\ ConstantsAreLocal(b)

(* A name that was ever sent to the stack is taken for stored there again. *)
NothingOnStack == stack \intersect (Temps \union Consts) \intersect After(Block, 0) = {}

GoodBlock == blk <= Len(program) /\ WellFormed(program, blk) /\ Disciplined(Block) /\ NothingOnStack

(***************************************************************************)
(* When a disciplined block has been generated, the code has done what the *)
(* three-address code says: the same values in memory, the same stores and *)
(* output, and the flags the jump at its end will test.                    *)
(***************************************************************************)
EffectIsCorrect ==
  freed /\ GoodBlock /\ idx > Len(Block) =>
    /\ \A v \in Scalars : machine.mem[v] = reference.env[v]
    /\ machine.heap = reference.heap
    /\ machine.output = reference.output
    /\ TransfersControl(Block[Len(Block)]) => machine.flags = reference.flags

(* A program of disciplined blocks fails no assertion on its way. *)
DisciplinedCodeIsGenerated ==
  fault # "none" => \E k \in 1 .. blk : ~(WellFormed(program, k) /\ Disciplined(program[k]))

-----------------------------------------------------------------------------
(* The assertions of the generator, address_table.cpp and code_generator.cpp. *)
AssertionsHold == fault # "assertion"
=============================================================================
