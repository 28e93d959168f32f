--------------------------- MODULE CodeGen_proofs ---------------------------
(***************************************************************************)
(* Proofs about CodeGen, for any program and any two sets of registers.    *)
(* The type invariant needs to know how many registers an instruction has  *)
(* yet to receive (Quota); the other invariants are conjuncts of one       *)
(* inductive invariant on the tables, Inv.                                 *)
(***************************************************************************)
EXTENDS CodeGen, TLAPS

USE DEF NoName

-----------------------------------------------------------------------------
(* Instructions and their requests *)

Need(i) ==
  IF i.op \in Arithmetic THEN 1
  ELSE IF i.op \in {"ARRAY_INDEX", "VLOAD"} THEN 3
  ELSE IF i.op \in {"VADD", "VSUB"} THEN IF Expendable(i.arg1) \/ Expendable(i.arg2) THEN 2 ELSE 3
  ELSE IF i.op = "VASSIGN" THEN 2
  ELSE 0

(* The registers Captured has for it already. *)
Given(i) == IF i.op \in {"VADD", "VSUB"} THEN 2 ELSE IF i.op = "VASSIGN" THEN 1 ELSE 0

(* The operands an instruction carries, by its operation. *)
LEMMA Shapes ==
  ASSUME NEW i \in Instruction
  PROVE  /\ i.op \in Arithmetic \union VectorOperations \union Comparisons \union {"ARRAY_INDEX"}
              => i.arg1 \in Names
         /\ i.op \in Arithmetic \union {"ARRAY_INDEX", "VADD", "VSUB", "VLOAD", "VSTORE"}
              => i.arg2 \in Names /\ i.result \in Names
         /\ i.op \in {"ASSIGN", "VASSIGN"} => i.result \in Names /\ i.arg2 = NoName
         /\ i.op = "ASSIGN" /\ i.arg1 # NoName => i.arg1 \in Names
         /\ i.op \in {"READ", "WRITE", "PROC_PARAM"} => i.arg1 \in Names /\ i.arg2 = NoName
         /\ i.op \in Jumps => i.arg1 \in Labels /\ i.arg2 = NoName
  BY DEF Instruction, Shape, Names, Arithmetic, VectorOperations, Comparisons, Jumps, ConditionalJumps

LEMMA InstTyped ==
  ASSUME program \in Seq(Seq(Instruction)), blk \in Nat \ {0}, idx \in Nat \ {0},
         blk <= Len(program), idx <= Len(Block)
  PROVE  Inst \in Instruction
  <1>1. Block \in Seq(Instruction)
    BY DEF Block
  <1> QED
    BY <1>1 DEF Inst

LEMMA OneRequest ==
  ASSUME NEW x \in Request
  PROVE  /\ <<x>> \in Seq(Request) /\ Len(<<x>>) = 1
         /\ x.type = "GPR" => \A k \in 1 .. Len(<<x>>) : <<x>>[k].type = "GPR"
  OBVIOUS

(* What is asked for is well formed, and enough for the instruction. *)
LEMMA RequestsFit ==
  ASSUME NEW i \in Instruction
  PROVE  /\ Requests(i) \in Seq(Request)
         /\ Len(Requests(i)) + Given(i) >= Need(i)
         /\ i.op \in Jumps => Requests(i) = <<>>
         /\ i.op \notin VectorOperations => \A k \in 1 .. Len(Requests(i)) : Requests(i)[k].type = "GPR"
  <1>1. CASE i.op = "ASSIGN" /\ i.arg1 # NoName /\ ~Located(i.result)
    <2> DEFINE x == Ask(i.result, "GPR", FALSE, FALSE)
    <2>1. Requests(i) = <<x>>
      BY <1>1 DEF Requests, IsComparison, Arithmetic, Comparisons
    <2>2. i.result \in Names /\ Need(i) = 0 /\ Given(i) = 0 /\ i.op \notin Jumps
      BY <1>1, Shapes DEF Need, Given, Arithmetic, Jumps, ConditionalJumps
    <2>3. x \in Request /\ x.type = "GPR"
      BY <2>2 DEF Ask, Request
    <2>4. <<x>> \in Seq(Request) /\ Len(<<x>>) = 1 /\ \A k \in 1 .. 1 : <<x>>[k].type = "GPR"
      <3> HIDE DEF x
      <3> QED BY <2>3, OneRequest
    <2> HIDE DEF x
    <2>5. Requests(i) \in Seq(Request) /\ Len(Requests(i)) = 1
      BY <2>1, <2>4
    <2>6. \A k \in 1 .. Len(Requests(i)) : Requests(i)[k].type = "GPR"
      BY <2>1, <2>4, <2>5
    <2> QED
      BY <2>2, <2>5, <2>6
  <1>2. CASE i.op \in Arithmetic
    <2> DEFINE x == Ask(i.arg1, "GPR", FALSE, TRUE)
    <2>1. Requests(i) = <<x>>
      BY <1>2 DEF Requests, IsComparison, Arithmetic, Comparisons
    <2>2. i.arg1 \in Names /\ Need(i) = 1 /\ Given(i) = 0 /\ i.op \notin Jumps
      BY <1>2, Shapes DEF Need, Given, Arithmetic, Jumps, ConditionalJumps
    <2>3. x \in Request /\ x.type = "GPR"
      BY <2>2 DEF Ask, Request
    <2>4. <<x>> \in Seq(Request) /\ Len(<<x>>) = 1 /\ \A k \in 1 .. 1 : <<x>>[k].type = "GPR"
      <3> HIDE DEF x
      <3> QED BY <2>3, OneRequest
    <2> HIDE DEF x
    <2>5. Requests(i) \in Seq(Request) /\ Len(Requests(i)) = 1
      BY <2>1, <2>4
    <2>6. \A k \in 1 .. Len(Requests(i)) : Requests(i)[k].type = "GPR"
      BY <2>1, <2>4, <2>5
    <2> QED
      BY <2>2, <2>5, <2>6
  <1>3. CASE i.op \in Comparisons
    <2> DEFINE operand == Ask(i.arg1, "GPR", FALSE, FALSE)
    <2>1. Requests(i) = IF HasResult(i) THEN <<operand, operand>> ELSE <<operand>>
      BY <1>3 DEF Requests, IsComparison, Comparisons, Arithmetic
    <2>2. i.arg1 \in Names /\ Need(i) = 0 /\ Given(i) = 0 /\ i.op \notin Jumps
      BY <1>3, Shapes DEF Need, Given, Arithmetic, Comparisons, Jumps, ConditionalJumps
    <2>3. operand \in Request /\ operand.type = "GPR"
      BY <2>2 DEF Ask, Request
    <2> HIDE DEF operand
    <2> QED
      BY <1>3, <2>1, <2>2, <2>3 DEF Comparisons
  <1>4. CASE i.op \in {"ARRAY_INDEX", "VLOAD", "VSTORE"}
    <2> DEFINE first == Ask(i.arg2, "GPR", FALSE, TRUE)
               second == Ask(i.arg1, "GPR", TRUE, TRUE)
               third == IF i.op = "ARRAY_INDEX" THEN Ask(i.result, "GPR", TRUE, FALSE)
                                                ELSE Ask(i.result, "AVX", FALSE, FALSE)
    <2>1. Requests(i) = <<first, second, third>>
      BY <1>4 DEF Requests, IndexAndArray, IsComparison, Arithmetic, Comparisons
    <2>2. i.arg1 \in Names /\ i.arg2 \in Names /\ i.result \in Names /\ i.op \notin Jumps
      BY <1>4, Shapes DEF VectorOperations, Arithmetic, Jumps, ConditionalJumps
    <2>3. Need(i) \in 0 .. 3 /\ Given(i) = 0
      BY <1>4 DEF Need, Given, Arithmetic
    <2>4. first \in Request /\ second \in Request /\ third \in Request
      BY <2>2 DEF Ask, Request
    <2>5. first.type = "GPR" /\ second.type = "GPR" /\ (i.op \notin VectorOperations => third.type = "GPR")
      BY <1>4 DEF Ask, VectorOperations
    <2> HIDE DEF first, second, third
    <2>6. /\ <<first, second, third>> \in Seq(Request) /\ Len(<<first, second, third>>) = 3
          /\ third.type = "GPR" => \A k \in 1 .. 3 : <<first, second, third>>[k].type = "GPR"
      BY <2>4, <2>5
    <2> QED
      BY <2>1, <2>2, <2>3, <2>5, <2>6
  <1>5. CASE \/ i.op \in {"VADD", "VSUB"} /\ ~Expendable(i.arg1) /\ ~Expendable(i.arg2)
             \/ i.op = "VASSIGN"
    <2> DEFINE x == Ask(i.result, "AVX", FALSE, FALSE)
    <2>1. Requests(i) = <<x>>
      BY <1>5 DEF Requests, IsComparison, Arithmetic, Comparisons
    <2>2. i.result \in Names /\ i.op \notin Jumps /\ i.op \in VectorOperations
      BY <1>5, Shapes DEF VectorOperations, Jumps, ConditionalJumps
    <2>3. Need(i) = Given(i) + 1 /\ Given(i) \in Nat
      BY <1>5 DEF Need, Given, Arithmetic
    <2>4. x \in Request
      BY <2>2 DEF Ask, Request
    <2>5. <<x>> \in Seq(Request) /\ Len(<<x>>) = 1
      <3> HIDE DEF x
      <3> QED BY <2>4, OneRequest
    <2> HIDE DEF x
    <2>6. Requests(i) \in Seq(Request) /\ Len(Requests(i)) = 1
      BY <2>1, <2>5
    <2> QED
      BY <2>2, <2>3, <2>6
  <1>6. CASE ~(\/ i.op = "ASSIGN" /\ i.arg1 # NoName /\ ~Located(i.result)
               \/ i.op \in Arithmetic \/ i.op \in Comparisons
               \/ i.op \in {"ARRAY_INDEX", "VLOAD", "VSTORE"}
               \/ i.op \in {"VADD", "VSUB"} /\ ~Expendable(i.arg1) /\ ~Expendable(i.arg2)
               \/ i.op = "VASSIGN")
    <2>1. Requests(i) = <<>>
      BY <1>6 DEF Requests, IsComparison
    <2>2. Need(i) = Given(i) /\ Given(i) \in Nat
      BY <1>6 DEF Need, Given
    <2>3. Requests(i) \in Seq(Request) /\ Len(Requests(i)) = 0
      BY <2>1
    <2>4. \A k \in 1 .. Len(Requests(i)) : Requests(i)[k].type = "GPR"
      BY <2>3
    <2> QED
      BY <2>1, <2>2, <2>3, <2>4
  <1> QED
    BY <1>1, <1>2, <1>3, <1>4, <1>5, <1>6

-----------------------------------------------------------------------------
(* The inductive invariant *)

(* An instruction has, or will have been given, the registers it needs. *)
Quota ==
  /\ stage = "registers" =>
       /\ blk <= Len(program) /\ idx <= Len(Block)
       /\ Len(got) + Len(requests) >= Need(Inst)
       /\ \A k \in 1 .. Len(got) : got[k] \in AllRegs \/ (k = 1 /\ Inst.op = "VASSIGN")
  /\ stage # "registers" => requests = <<>> /\ got = <<>>

(* After freeRegisters only the jump at the end can still be generated. *)
Boundary ==
  freed =>
    /\ blk <= Len(program)
    /\ idx > Len(Block) \/ (idx = Len(Block) /\ TransfersControl(Inst))
    /\ requests = <<>>

(* The generator has come to a vector instruction of the block it is in. *)
VectorsBegun == blk <= Len(program) /\ \E j \in 1 .. Len(Block) : j <= idx /\ Block[j].op \in VectorOperations

(* Before the first vector instruction no vector register is in the tables. *)
ScalarOnly ==
  ~VectorsBegun =>
    /\ \A r \in AVX : regTable[r] = Free
    /\ \A v \in Names : InRegister(v) => addressTable[v].reg \in GPR
    /\ \A k \in 1 .. Len(got) : got[k] \in GPR
    /\ \A k \in 1 .. Len(requests) : requests[k].type = "GPR"
    /\ fault # "null register"

Inv ==
  /\ TypeOK
  /\ Quota
  /\ Boundary
  /\ GlobalsHaveHome
  /\ LocatedRegistersAreTaken
  /\ ScalarOnly

LEMMA RegisterTyped ==
  ASSUME NEW loc \in Location, loc.type = "register"
  PROVE  loc.reg \in AllRegs
  BY DEF Location, Nowhere, Global, Stack, Immediate, Register, At

LEMMA LocationsTyped ==
  /\ Nowhere \in Location /\ Global \in Location /\ Stack \in Location /\ Immediate \in Location
  /\ \A r \in AllRegs, b \in BOOLEAN : Register(r, b) \in Location
  /\ \A v \in Names : HomeOf(v) \in Location
  BY DEF Location, HomeOf

LEMMA Kinds ==
  /\ Nowhere.type # "register" /\ Global.type # "register" /\ Stack.type # "register"
  /\ Immediate.type # "register"
  /\ \A r, b : Register(r, b).type = "register" /\ Register(r, b).reg = r
  BY DEF Nowhere, Global, Stack, Immediate, Register, At

LEMMA InitInv == Init => Inv
  <1> SUFFICES ASSUME Init PROVE Inv
    OBVIOUS
  <1>1. TypeOK
    <2>1. program \in Seq(Seq(Instruction))
      BY ProgramsAssumption DEF Init
    <2>2. requests \in Seq(Request) /\ got \in Seq(AllRegs \union {NoReg})
      BY DEF Init
    <2>3. regTable \in [AllRegs -> Names \union {Free}] /\ addressTable \in [Names -> Location]
      BY LocationsTyped DEF Init
    <2>4. blk \in Nat \ {0} /\ idx \in Nat \ {0}
      <3>1. blk = 1 /\ idx = 1
        BY DEF Init
      <3> QED
        BY <3>1
    <2>7. freed \in BOOLEAN
      BY DEF Init
    <2>5. stage \in {"next", "registers", "done"} /\ fault \in {"none", "assertion", "null register", "invalid instruction"}
      BY DEF Init
    <2>6. globals \subseteq Names /\ stack \subseteq Names
      BY DEF Init
    <2> QED
      BY <2>1, <2>2, <2>3, <2>4, <2>5, <2>6, <2>7 DEF TypeOK
  <1>2. \A v \in Names : ~InRegister(v)
    BY Kinds DEF Init, InRegister
  <1>3. GlobalsHaveHome /\ LocatedRegistersAreTaken
    BY <1>2 DEF Init, GlobalsHaveHome, LocatedRegistersAreTaken
  <1>4. ScalarOnly
    BY <1>2 DEF Init, ScalarOnly, AllRegs
  <1> QED
    BY <1>1, <1>3, <1>4 DEF Init, Inv, Quota, Boundary

-----------------------------------------------------------------------------
(* What the actions do to the tables *)

(* getRegister: reg now holds what was asked for, its owner perhaps stored. *)
Granted(reg, table) ==
  /\ regTable' = [regTable EXCEPT ![reg] = Asked.name]
  /\ addressTable' = [table EXCEPT ![Asked.name] = Register(reg, Asked.address)]

LEMMA AskedTyped ==
  ASSUME TypeOK, requests # <<>>
  PROVE  Asked \in Request /\ Asked.name \in Names /\ Asked.address \in BOOLEAN
  <1>1. requests \in Seq(Request)
    BY DEF TypeOK
  <1>2. Asked \in Request
    BY <1>1 DEF Asked
  <1> QED
    BY <1>2 DEF Request

LEMMA GetRegisterEffect ==
  ASSUME Inv, GetRegister
  PROVE  /\ stage = "registers" /\ requests # <<>> /\ fault = "none"
         /\ UNCHANGED <<position, stage, freed, fault, globals>>
         /\ \E reg \in AllRegs :
              /\ Answer(reg)
              /\ Asked.type = "GPR" => reg \in GPR \/ \E v \in Names : InRegister(v) /\ addressTable[v].reg = reg
              /\ \/ UNCHANGED <<regTable, addressTable, stack>>
                 \/ Granted(reg, addressTable) /\ UNCHANGED stack
                 \/ regTable[reg] \in Names /\ Granted(reg, SentHome(reg)) /\ stack' = OnStack(reg)
  <1> USE DEF Asking
  <1>1. CASE AlreadyInRegister
    <2>1. InRegister(Asked.name) /\ Asked.name \in Names /\ addressTable[Asked.name] \in Location
      BY <1>1, AskedTyped DEF AlreadyInRegister, HasRegister, Inv, TypeOK
    <2>2. addressTable[Asked.name].reg \in AllRegs
      BY <2>1, RegisterTyped DEF InRegister
    <2> QED
      BY <1>1, <2>1, <2>2 DEF AlreadyInRegister, tables
  <1>2. CASE ReuseRegister
    <2> DEFINE reg == addressTable[Asked.name].reg
    <2>1. InRegister(Asked.name) /\ Asked.name \in Names /\ addressTable[Asked.name] \in Location
      BY <1>2, AskedTyped DEF ReuseRegister, Reusable, Inv, TypeOK
    <2>2. reg \in AllRegs
      BY <2>1, RegisterTyped DEF InRegister
    <2>3. regTable[reg] \in Names
      BY <2>1, <2>2 DEF Inv, LocatedRegistersAreTaken, TypeOK
    <2>4. CASE Asked.name \in globals \union stack
      <3>1. Grant(reg, SentHome(reg), Freed(reg), Stored(reg)) /\ stack' = OnStack(reg)
        BY <1>2, <2>4 DEF ReuseRegister
      <3>2. Granted(reg, SentHome(reg)) /\ Answer(reg)
        BY <3>1 DEF Grant, Granted, Freed, Inv, TypeOK
      <3> QED
        BY <1>2, <2>1, <2>2, <2>3, <3>1, <3>2 DEF ReuseRegister
    <2>5. CASE Asked.name \notin globals \union stack
      <3>1. Grant(reg, addressTable, regTable, machine) /\ stack' = stack
        BY <1>2, <2>5 DEF ReuseRegister
      <3>2. Granted(reg, addressTable) /\ Answer(reg)
        BY <3>1 DEF Grant, Granted
      <3> QED
        BY <1>2, <2>1, <2>2, <3>1, <3>2 DEF ReuseRegister
    <2> QED
      BY <2>4, <2>5
  <1>3. CASE TakeUnused
    <2>1. PICK reg \in Regs(Asked.type) \ Used : Grant(reg, addressTable, regTable, machine)
      BY <1>3 DEF TakeUnused
    <2>2. reg \in AllRegs /\ (Asked.type = "GPR" => reg \in GPR)
      BY <2>1 DEF Regs, AllRegs
    <2>3. Granted(reg, addressTable) /\ Answer(reg)
      BY <2>1 DEF Grant, Granted
    <2> QED
      BY <1>3, <2>2, <2>3 DEF TakeUnused
  <1>4. CASE Spill
    <2>1. PICK reg \in Regs(Asked.type) \intersect Used :
            Grant(reg, SentHome(reg), Freed(reg), Stored(reg)) /\ stack' = OnStack(reg)
      BY <1>4 DEF Spill
    <2>2. reg \in AllRegs /\ (Asked.type = "GPR" => reg \in GPR)
      BY <2>1 DEF Regs, AllRegs
    <2>3. regTable[reg] \in Names
      BY <2>1, <2>2 DEF Used, Inv, TypeOK
    <2>4. Granted(reg, SentHome(reg)) /\ Answer(reg)
      BY <2>1 DEF Grant, Granted, Freed, Inv, TypeOK
    <2> QED
      BY <1>4, <2>1, <2>2, <2>3, <2>4 DEF Spill
  <1> QED
    BY <1>1, <1>2, <1>3, <1>4 DEF GetRegister

(* An instruction being generated, and the registers it has by then. *)
LEMMA Generating ==
  ASSUME Inv, stage = "registers"
  PROVE  /\ Inst \in Instruction
         /\ freed => Inst.op \in Jumps
         /\ Inst.op \in VectorOperations => VectorsBegun
         /\ requests = <<>> => \A k \in 1 .. Need(Inst) :
              /\ k \in 1 .. Len(got)
              /\ got[k] \in AllRegs \/ (k = 1 /\ Inst.op = "VASSIGN")
              /\ ~VectorsBegun => got[k] \in GPR
  <1>1. /\ program \in Seq(Seq(Instruction)) /\ blk \in Nat \ {0} /\ idx \in Nat \ {0}
        /\ got \in Seq(AllRegs \union {NoReg})
    BY DEF Inv, TypeOK
  <1>2. blk \in 1 .. Len(program) /\ idx <= Len(Block)
    BY <1>1 DEF Inv, Quota
  <1>3. Block \in Seq(Instruction)
    BY <1>1, <1>2 DEF Block
  <1>4. idx \in 1 .. Len(Block) /\ Len(Block) \in Nat
    BY <1>1, <1>2, <1>3
  <1>5. Inst \in Instruction
    BY <1>3, <1>4 DEF Inst
  <1>6. freed => Inst.op \in Jumps
    BY <1>1, <1>2, <1>4 DEF Inv, Boundary, TransfersControl
  <1>7. Inst.op \in VectorOperations => VectorsBegun
    BY <1>1, <1>2, <1>4 DEF VectorsBegun, Inst
  <1>8. ASSUME requests = <<>>, NEW k \in 1 .. Need(Inst)
        PROVE  /\ k \in 1 .. Len(got)
               /\ got[k] \in AllRegs \/ (k = 1 /\ Inst.op = "VASSIGN")
               /\ ~VectorsBegun => got[k] \in GPR
    <2>1. Need(Inst) \in Nat
      BY DEF Need
    <2>2. k \in 1 .. Len(got)
      BY <1>1, <1>8, <2>1 DEF Inv, Quota
    <2> QED
      BY <2>2 DEF Inv, Quota, ScalarOnly
  <1> QED
    BY <1>5, <1>6, <1>7, <1>8

(* A result recorded in a register, and a vector copied from memory. *)
Recorded ==
  \E reg \in AllRegs, v \in Names, b \in BOOLEAN :
    Holds(reg, v, b) /\ (~VectorsBegun => reg \in GPR)

Declaring ==
  \E v \in Names :
    /\ globals' = globals \union {v}
    /\ addressTable' = [addressTable EXCEPT ![v] = Global]
    /\ UNCHANGED <<regTable, stack>>

Copied ==
  /\ VectorsBegun
  /\ \E reg \in AllRegs, v \in Names, w \in Names, large \in SUBSET Names :
       /\ regTable' = [regTable EXCEPT ![reg] = w]
       /\ globals' = globals \union large
       /\ addressTable' = [u \in Names |-> IF u = v THEN Register(reg, FALSE)
                                           ELSE IF u \in large THEN Global ELSE addressTable[u]]
       /\ UNCHANGED stack

LEMMA EmitEffect ==
  ASSUME Inv, Emit
  PROVE  /\ stage = "registers" /\ requests = <<>> /\ fault = "none" /\ Emitted
         /\ (~freed /\ (Recorded \/ Declaring \/ Copied)) \/ UNCHANGED tables
  <1>1. stage = "registers" /\ requests = <<>> /\ fault = "none" /\ Emitted
    BY DEF Emit, Emitting, EmitDeclaration, EmitCopy, EmitArithmetic, EmitConditional, EmitArrayIndex,
           EmitWrite, EmitCall, EmitUntracked, EmitVectorLoad, EmitVectorStore, EmitVector, EmitVectorAssign
  <1>2. /\ Inst \in Instruction
        /\ freed => Inst.op \in Jumps
        /\ Inst.op \in VectorOperations => VectorsBegun
    BY <1>1, Generating
  <1>3. \A k \in 1 .. Need(Inst) :
          /\ got[k] \in AllRegs \/ (k = 1 /\ Inst.op = "VASSIGN")
          /\ ~VectorsBegun => got[k] \in GPR
    BY <1>1, Generating
  <1>4. CASE EmitDeclaration
    <2>1. Inst.op = "ASSIGN" /\ Inst.result \in Names
      BY <1>2, <1>4, Shapes DEF EmitDeclaration, Emitting
    <2>2. ~freed
      BY <1>2, <2>1 DEF Jumps, ConditionalJumps
    <2> QED
      BY <1>1, <1>4, <2>1, <2>2 DEF EmitDeclaration, Declaring
  <1>5. CASE EmitArithmetic
    <2>1. Inst.op \in Arithmetic /\ Inst.result \in Names /\ Need(Inst) = 1
      BY <1>2, <1>5, Shapes DEF EmitArithmetic, Emitting, Need
    <2>2. ~freed /\ Inst.op # "VASSIGN"
      BY <1>2, <2>1 DEF Jumps, ConditionalJumps, Arithmetic
    <2>3. got[1] \in AllRegs /\ (~VectorsBegun => got[1] \in GPR)
      BY <1>3, <2>1, <2>2
    <2>4. Recorded
      BY <1>5, <2>1, <2>3 DEF EmitArithmetic, Recorded
    <2> QED
      BY <1>1, <2>2, <2>4
  <1>6. CASE EmitArrayIndex \/ EmitVectorLoad
    <2>1. Inst.op \in {"ARRAY_INDEX", "VLOAD"} /\ Inst.result \in Names /\ Need(Inst) = 3
      BY <1>2, <1>6, Shapes DEF EmitArrayIndex, EmitVectorLoad, Emitting, Need, Arithmetic
    <2>2. ~freed /\ Inst.op # "VASSIGN"
      BY <1>2, <2>1 DEF Jumps, ConditionalJumps
    <2>3. got[3] \in AllRegs /\ (~VectorsBegun => got[3] \in GPR)
      BY <1>3, <2>1, <2>2
    <2>4. Recorded
      BY <1>6, <2>1, <2>3 DEF EmitArrayIndex, EmitVectorLoad, Recorded
    <2> QED
      BY <1>1, <2>2, <2>4
  <1>7. CASE EmitVector
    <2> DEFINE n == IF Expendable(Inst.arg1) THEN 1 ELSE IF Expendable(Inst.arg2) THEN 2 ELSE 3
    <2>1. /\ Inst.op \in {"VADD", "VSUB"} /\ Inst.result \in Names
          /\ Need(Inst) = IF Expendable(Inst.arg1) \/ Expendable(Inst.arg2) THEN 2 ELSE 3
      BY <1>2, <1>7, Shapes DEF EmitVector, Emitting, Need, Arithmetic
    <2>6. n \in 1 .. Need(Inst)
      <3>1. CASE Expendable(Inst.arg1)
        <4>1. n = 1 /\ Need(Inst) = 2
          BY <2>1, <3>1
        <4> QED
          BY <4>1
      <3>2. CASE ~Expendable(Inst.arg1) /\ Expendable(Inst.arg2)
        <4>1. n = 2 /\ Need(Inst) = 2
          BY <2>1, <3>2
        <4> QED
          BY <4>1
      <3>3. CASE ~Expendable(Inst.arg1) /\ ~Expendable(Inst.arg2)
        <4>1. n = 3 /\ Need(Inst) = 3
          BY <2>1, <3>3
        <4> QED
          BY <4>1
      <3> QED
        BY <3>1, <3>2, <3>3
    <2>2. ~freed /\ Inst.op # "VASSIGN"
      BY <1>2, <2>1 DEF Jumps, ConditionalJumps
    <2>3. got[n] \in AllRegs /\ (~VectorsBegun => got[n] \in GPR)
      BY <1>3, <2>6, <2>2
    <2>4. Holds(got[n], Inst.result, FALSE)
      BY <1>7 DEF EmitVector
    <2>5. Recorded
      BY <2>1, <2>3, <2>4 DEF Recorded
    <2> QED
      BY <1>1, <2>2, <2>5
  <1>8. CASE EmitVectorAssign
    <2> DEFINE large == IF got[1] = NoReg THEN {LargeImmediate[Inst.arg1]} ELSE {}
    <2>1. Inst.op = "VASSIGN" /\ Inst.result \in Names /\ Inst.arg1 \in Names /\ Need(Inst) = 2
      BY <1>2, <1>8, Shapes DEF EmitVectorAssign, Emitting, Need, Arithmetic, VectorOperations
    <2>2. ~freed /\ VectorsBegun
      BY <1>2, <2>1 DEF Jumps, ConditionalJumps, VectorOperations
    <2>3. got[2] \in AllRegs
      BY <1>3, <2>1
    <2>4. large \subseteq Names
      BY <1>8, <2>1 DEF EmitVectorAssign, Names, LargeCopies
    <2>5. /\ regTable' = [regTable EXCEPT ![got[2]] = Inst.arg1]
          /\ globals' = globals \union large
          /\ addressTable' = [u \in Names |-> IF u = Inst.result THEN Register(got[2], FALSE)
                                              ELSE IF u \in large THEN Global ELSE addressTable[u]]
          /\ UNCHANGED stack
      BY <1>8 DEF EmitVectorAssign
    <2> HIDE DEF large
    <2>6. Copied
      BY <2>1, <2>2, <2>3, <2>4, <2>5 DEF Copied
    <2> QED
      BY <1>1, <2>2, <2>6
  <1>9. CASE EmitCopy \/ EmitConditional \/ EmitWrite \/ EmitCall \/ EmitUntracked \/ EmitVectorStore
    BY <1>1, <1>9 DEF EmitCopy, EmitConditional, EmitWrite, EmitCall, EmitUntracked, EmitVectorStore
  <1> QED
    BY <1>4, <1>5, <1>6, <1>7, <1>8, <1>9 DEF Emit

-----------------------------------------------------------------------------
(* Every action preserves the invariant *)

LEMMA AtInstructionTyped ==
  ASSUME Inv, AtInstruction
  PROVE  /\ Inst \in Instruction
         /\ freed => Inst.op \in Jumps
         /\ Inst.op \in VectorOperations => VectorsBegun
  <1>1. program \in Seq(Seq(Instruction)) /\ blk \in Nat \ {0} /\ idx \in Nat \ {0}
    BY DEF Inv, TypeOK
  <1>2. blk \in 1 .. Len(program) /\ idx <= Len(Block)
    BY <1>1 DEF AtInstruction
  <1>3. Inst \in Instruction
    BY <1>1, <1>2, InstTyped
  <1>4. Block \in Seq(Instruction)
    BY <1>1, <1>2 DEF Block
  <1>5. idx \in 1 .. Len(Block) /\ Len(Block) \in Nat
    BY <1>1, <1>2, <1>4
  <1>6. freed => Inst.op \in Jumps
    BY <1>1, <1>5 DEF Inv, Boundary, TransfersControl
  <1>7. Inst.op \in VectorOperations => VectorsBegun
    BY <1>1, <1>2, <1>5 DEF VectorsBegun, Inst
  <1> QED
    BY <1>3, <1>6, <1>7

(* Locating literals moves nothing into a register. *)
LEMMA WithLiteralsEffect ==
  ASSUME Inv
  PROVE  /\ WithLiterals \in [Names -> Location]
         /\ \A v \in Names : WithLiterals[v] = Immediate \/ WithLiterals[v] = addressTable[v]
         /\ \A v \in Names \ Literals : WithLiterals[v] = addressTable[v]
  BY LocationsTyped DEF WithLiterals, Inv, TypeOK

LEMMA FetchInv == ASSUME Inv, Fetch PROVE Inv'
  <1> USE DEF Fetch
  <1>1. /\ Inst \in Instruction
        /\ freed => Inst.op \in Jumps
        /\ Inst.op \in VectorOperations => VectorsBegun
    BY AtInstructionTyped
  <1>2. /\ Requests(Inst) \in Seq(Request)
        /\ Len(Requests(Inst)) + Given(Inst) >= Need(Inst)
        /\ Inst.op \in Jumps => Requests(Inst) = <<>>
        /\ Inst.op \notin VectorOperations =>
             \A k \in 1 .. Len(Requests(Inst)) : Requests(Inst)[k].type = "GPR"
    BY <1>1, RequestsFit
  <1>3. /\ WithLiterals \in [Names -> Location]
        /\ \A v \in Names : WithLiterals[v] = Immediate \/ WithLiterals[v] = addressTable[v]
        /\ \A v \in Names \ Literals : WithLiterals[v] = addressTable[v]
    BY WithLiteralsEffect
  <1>4. \A v \in Names : InRegister(v)' => InRegister(v) /\ addressTable'[v] = addressTable[v]
    BY <1>3, Kinds DEF InRegister
  <1>5. /\ Captured(Inst) \in Seq(AllRegs \union {NoReg})
        /\ Len(Captured(Inst)) = Given(Inst)
        /\ \A k \in 1 .. Len(Captured(Inst)) :
             Captured(Inst)[k] \in AllRegs \/ (k = 1 /\ Inst.op = "VASSIGN")
        /\ Inst.op \notin VectorOperations => Captured(Inst) = <<>>
    <2>1. CASE Inst.op \in {"VADD", "VSUB"}
      <3>1. Inst.arg1 \in Names /\ Inst.arg2 \in Names
        BY <1>1, <2>1, Shapes DEF VectorOperations
      <3>2. {Inst.arg1, Inst.arg2} \subseteq Operands(Inst)
        BY <2>1, <3>1, NamesAssumption DEF Operands
      <3>3. \A v \in {Inst.arg1, Inst.arg2} : WithLiterals[v].type = "register"
        BY <2>1, <3>2 DEF LookupHolds, LookedUp
      <3>4. \A v \in {Inst.arg1, Inst.arg2} : addressTable[v] \in Location /\ addressTable[v].type = "register"
        BY <1>3, <3>1, <3>3, Kinds
      <3>5. addressTable[Inst.arg1].reg \in AllRegs /\ addressTable[Inst.arg2].reg \in AllRegs
        BY <3>4, RegisterTyped
      <3>6. Captured(Inst) = <<addressTable[Inst.arg1].reg, addressTable[Inst.arg2].reg>>
        BY <2>1 DEF Captured
      <3>7. Given(Inst) = 2 /\ Inst.op \in VectorOperations
        BY <2>1 DEF Given, VectorOperations
      <3> QED
        BY <3>5, <3>6, <3>7
    <2>2. CASE Inst.op = "VASSIGN"
      <3>1. Inst.arg1 \in Names
        BY <1>1, <2>2, Shapes DEF VectorOperations
      <3>2. WithLiterals[Inst.arg1].reg \in AllRegs \union {NoReg}
        BY <1>3, <3>1 DEF Location, Nowhere, Global, Stack, Immediate, Register, At
      <3>3. Captured(Inst) = <<WithLiterals[Inst.arg1].reg>> /\ Given(Inst) = 1
        BY <2>2 DEF Captured, Given
      <3>4. Inst.op \in VectorOperations
        BY <2>2 DEF VectorOperations
      <3> QED
        BY <2>2, <3>2, <3>3, <3>4
    <2>3. CASE Inst.op \notin {"VADD", "VSUB", "VASSIGN"}
      BY <2>3 DEF Captured, Given
    <2> QED
      BY <2>1, <2>2, <2>3
  <1>6. Inst' = Inst /\ Block' = Block /\ Need(Inst)' = Need(Inst)
    BY DEF position, Inst, Block, Need, Expendable, IsLive, HasNextUse
  <1>7. TypeOK'
    <2>1. requests' \in Seq(Request) /\ got' \in Seq(AllRegs \union {NoReg})
      BY <1>2, <1>5
    <2>2. addressTable' \in [Names -> Location]
      BY <1>3
    <2> QED
      BY <2>1, <2>2 DEF Inv, TypeOK, position
  <1>8. Quota'
    <2>1. blk' <= Len(program') /\ idx' <= Len(Block)'
      BY <1>6 DEF AtInstruction, position
    <2>2. Len(got') + Len(requests') >= Need(Inst)'
      <3>1. Given(Inst) \in Nat
        BY DEF Given
      <3>2. Len(Requests(Inst)) \in Nat
        BY <1>2
      <3> HIDE DEF Fetch
      <3>3. Need(Inst) \in Nat
        BY DEF Need
      <3>4. Len(got') = Given(Inst) /\ Len(requests') = Len(Requests(Inst))
        BY <1>5 DEF Fetch
      <3> QED
        BY <1>2, <1>6, <3>1, <3>2, <3>3, <3>4
    <2>3. \A k \in 1 .. Len(got') : got'[k] \in AllRegs \/ (k = 1 /\ Inst'.op = "VASSIGN")
      BY <1>5, <1>6
    <2> QED
      BY <2>1, <2>2, <2>3 DEF Quota
  <1>9. Boundary'
    BY <1>1, <1>2, <1>6 DEF Inv, Boundary, position
  <1>10. GlobalsHaveHome'
    <2>1. \A v \in globals' \ Literals : addressTable'[v] = Global \/ InRegister(v)'
      BY <1>3 DEF Inv, TypeOK, GlobalsHaveHome, InRegister
    <2>2. freed' => Used' = {} /\ \A v \in Names : ~InRegister(v)'
      BY <1>4 DEF Inv, GlobalsHaveHome, Used
    <2> QED
      BY <2>1, <2>2 DEF GlobalsHaveHome
  <1>11. LocatedRegistersAreTaken'
    BY <1>4 DEF Inv, LocatedRegistersAreTaken
  <1>12. ScalarOnly'
    <2> SUFFICES ASSUME ~VectorsBegun
                 PROVE  /\ \A r \in AVX : regTable[r] = Free
                        /\ \A v \in Names : InRegister(v)' => addressTable'[v].reg \in GPR
                        /\ \A k \in 1 .. Len(got') : got'[k] \in GPR
                        /\ \A k \in 1 .. Len(requests') : requests'[k].type = "GPR"
                        /\ fault # "null register"
      BY <1>6 DEF ScalarOnly, VectorsBegun, position
    <2>1. Inst.op \notin VectorOperations
      BY <1>1
    <2>2. got' = <<>> /\ \A k \in 1 .. Len(requests') : requests'[k].type = "GPR"
      BY <1>2, <1>5, <2>1
    <2>3. \A k \in 1 .. Len(got') : got'[k] \in GPR
      BY <2>2
    <2> QED
      BY <1>4, <2>2, <2>3 DEF Inv, ScalarOnly
  <1> QED
    BY <1>7, <1>8, <1>9, <1>10, <1>11, <1>12 DEF Inv

(* One answer more, and one request less. *)
LEMMA AnswerTyped ==
  ASSUME TypeOK, requests # <<>>, NEW reg \in AllRegs, Answer(reg)
  PROVE  /\ requests' \in Seq(Request) /\ got' \in Seq(AllRegs \union {NoReg})
         /\ Len(got') + Len(requests') = Len(got) + Len(requests)
         /\ \A k \in 1 .. Len(got') : got'[k] = reg \/ (k \in 1 .. Len(got) /\ got'[k] = got[k])
         /\ \A k \in 1 .. Len(requests') : k + 1 \in 1 .. Len(requests) /\ requests'[k] = requests[k + 1]
         /\ Asked = requests[1] /\ 1 \in 1 .. Len(requests)
  <1>1. requests \in Seq(Request) /\ got \in Seq(AllRegs \union {NoReg})
    BY DEF TypeOK
  <1>2. requests' = Tail(requests) /\ got' = Append(got, reg)
    BY DEF Answer
  <1> QED
    BY <1>1, <1>2 DEF Asked

(* A grant takes a register for one name and sends at most one other home. *)
LEMMA GrantedEffect ==
  ASSUME Inv, requests # <<>>, NEW reg \in AllRegs, NEW table,
         \/ table = addressTable
         \/ table = SentHome(reg) /\ regTable[reg] \in Names,
         Granted(reg, table)
  PROVE  /\ regTable' \in [AllRegs -> Names \union {Free}]
         /\ addressTable' \in [Names -> Location]
         /\ \A r \in AllRegs : regTable'[r] = regTable[r] \/ (r = reg /\ regTable'[r] # Free)
         /\ \A v \in Names : InRegister(v)' =>
              \/ addressTable'[v].reg = reg
              \/ InRegister(v) /\ addressTable'[v] = addressTable[v]
         /\ \A v \in globals : addressTable'[v] \in {addressTable[v], Global} \/ InRegister(v)'
         /\ regTable'[reg] # Free
  <1>1. Asked.name \in Names /\ Asked.address \in BOOLEAN
    BY AskedTyped DEF Inv
  <1>2. regTable \in [AllRegs -> Names \union {Free}] /\ addressTable \in [Names -> Location] /\ globals \subseteq Names
    BY DEF Inv, TypeOK
  <1>3. /\ table \in [Names -> Location]
        /\ \A v \in Names : table[v] \in {addressTable[v], HomeOf(v)}
    BY <1>2, LocationsTyped DEF SentHome
  <1>4. Register(reg, Asked.address) \in Location
    BY <1>1, LocationsTyped
  <1> DEFINE here == Register(reg, Asked.address)
             n == Asked.name
  <1>5. here.type = "register" /\ here.reg = reg
    BY Kinds
  <1>7. /\ regTable' = [regTable EXCEPT ![reg] = n]
        /\ addressTable' = [table EXCEPT ![n] = here]
    BY DEF Granted
  <1>8. n # Free
    BY <1>1, NamesAssumption
  <1>9. \A v \in Names : HomeOf(v).type # "register" /\ (v \in globals => HomeOf(v) = Global)
    BY Kinds DEF HomeOf
  <1> HIDE DEF here, n
  <1>10. regTable' \in [AllRegs -> Names \union {Free}] /\ addressTable' \in [Names -> Location]
    BY <1>1, <1>2, <1>3, <1>4, <1>7 DEF here, n
  <1>11. \A v \in Names : addressTable'[v] = here \/ addressTable'[v] \in {addressTable[v], HomeOf(v)}
    BY <1>3, <1>7
  <1>12. \A r \in AllRegs : regTable'[r] = regTable[r] \/ (r = reg /\ regTable'[r] # Free)
    BY <1>2, <1>7, <1>8
  <1>13. regTable'[reg] # Free
    BY <1>2, <1>7, <1>8
  <1>14. ASSUME NEW v \in Names, InRegister(v)'
         PROVE  \/ addressTable'[v].reg = reg
                \/ InRegister(v) /\ addressTable'[v] = addressTable[v]
    BY <1>5, <1>9, <1>11, <1>14 DEF InRegister
  <1>15. ASSUME NEW v \in globals
         PROVE  addressTable'[v] \in {addressTable[v], Global} \/ InRegister(v)'
    BY <1>2, <1>5, <1>9, <1>11 DEF InRegister
  <1> QED
    BY <1>10, <1>12, <1>13, <1>14, <1>15

LEMMA GetRegisterInv == ASSUME Inv, GetRegister PROVE Inv'
  <1>1. /\ stage = "registers" /\ requests # <<>> /\ fault = "none"
        /\ UNCHANGED <<position, stage, freed, fault, globals>>
    BY GetRegisterEffect
  <1>2. PICK reg \in AllRegs :
          /\ Answer(reg)
          /\ Asked.type = "GPR" => reg \in GPR \/ \E v \in Names : InRegister(v) /\ addressTable[v].reg = reg
          /\ \/ UNCHANGED <<regTable, addressTable, stack>>
             \/ Granted(reg, addressTable) /\ UNCHANGED stack
             \/ regTable[reg] \in Names /\ Granted(reg, SentHome(reg)) /\ stack' = OnStack(reg)
    BY GetRegisterEffect
  <1>3. /\ requests' \in Seq(Request) /\ got' \in Seq(AllRegs \union {NoReg})
        /\ Len(got') + Len(requests') = Len(got) + Len(requests)
        /\ \A k \in 1 .. Len(got') : got'[k] = reg \/ (k \in 1 .. Len(got) /\ got'[k] = got[k])
        /\ \A k \in 1 .. Len(requests') : k + 1 \in 1 .. Len(requests) /\ requests'[k] = requests[k + 1]
        /\ Asked = requests[1] /\ 1 \in 1 .. Len(requests)
    BY <1>1, <1>2, AnswerTyped DEF Inv
  <1>4. /\ regTable' \in [AllRegs -> Names \union {Free}]
        /\ addressTable' \in [Names -> Location]
        /\ \A r \in AllRegs : regTable'[r] = regTable[r] \/ (r = reg /\ regTable'[r] # Free)
        /\ \A v \in Names : InRegister(v)' =>
             \/ addressTable'[v].reg = reg /\ regTable'[reg] # Free
             \/ InRegister(v) /\ addressTable'[v] = addressTable[v]
        /\ \A v \in globals : addressTable'[v] \in {addressTable[v], Global} \/ InRegister(v)'
    <2>1. CASE UNCHANGED <<regTable, addressTable, stack>>
      BY <2>1 DEF Inv, TypeOK, InRegister
    <2>2. CASE Granted(reg, addressTable)
      BY <1>1, <2>2, GrantedEffect
    <2>3. CASE regTable[reg] \in Names /\ Granted(reg, SentHome(reg))
      BY <1>1, <2>3, GrantedEffect
    <2> QED
      BY <1>2, <2>1, <2>2, <2>3
  <1>5. Block' = Block /\ Inst' = Inst /\ Need(Inst)' = Need(Inst) /\ VectorsBegun' = VectorsBegun
    BY <1>1 DEF position, Block, Inst, Need, Expendable, IsLive, HasNextUse, VectorsBegun
  <1>6. ~freed
    BY <1>1 DEF Inv, Boundary
  <1>7. TypeOK'
    <2>1. stack' \subseteq Names
      BY <1>2 DEF OnStack, Inv, TypeOK
    <2> QED
      BY <1>1, <1>3, <1>4, <2>1 DEF Inv, TypeOK, position
  <1>8. Quota'
    <2>1. blk' <= Len(program') /\ idx' <= Len(Block)'
      BY <1>1, <1>5 DEF Inv, Quota, position
    <2>2. Len(got') + Len(requests') >= Need(Inst)'
      BY <1>1, <1>3, <1>5 DEF Inv, Quota
    <2>3. \A k \in 1 .. Len(got') : got'[k] \in AllRegs \/ (k = 1 /\ Inst'.op = "VASSIGN")
      BY <1>1, <1>3, <1>5 DEF Inv, Quota
    <2> QED
      BY <1>1, <2>1, <2>2, <2>3 DEF Quota
  <1>9. Boundary'
    BY <1>1, <1>6 DEF Boundary
  <1>10. GlobalsHaveHome'
    <2>1. ASSUME NEW v \in globals \ Literals
          PROVE  addressTable'[v] = Global \/ InRegister(v)'
      <3>1. addressTable[v] = Global \/ InRegister(v)
        BY DEF Inv, GlobalsHaveHome
      <3> QED
        BY <1>4, <3>1 DEF InRegister
    <2> QED
      BY <1>1, <1>6, <2>1 DEF GlobalsHaveHome
  <1>11. LocatedRegistersAreTaken'
    <2> SUFFICES ASSUME NEW v \in Names, InRegister(v)' PROVE regTable'[addressTable'[v].reg] # Free
      BY DEF LocatedRegistersAreTaken
    <2>1. CASE addressTable'[v].reg = reg /\ regTable'[reg] # Free
      BY <2>1
    <2>2. CASE InRegister(v) /\ addressTable'[v] = addressTable[v]
      <3>1. regTable[addressTable[v].reg] # Free /\ addressTable[v].reg \in AllRegs
        BY <2>2, RegisterTyped DEF Inv, LocatedRegistersAreTaken, InRegister, TypeOK
      <3> QED
        BY <1>4, <2>2, <3>1
    <2> QED
      BY <1>4, <2>1, <2>2
  <1>12. ScalarOnly'
    <2> SUFFICES ASSUME ~VectorsBegun
                 PROVE  /\ \A r \in AVX : regTable'[r] = Free
                        /\ \A v \in Names : InRegister(v)' => addressTable'[v].reg \in GPR
                        /\ \A k \in 1 .. Len(got') : got'[k] \in GPR
                        /\ \A k \in 1 .. Len(requests') : requests'[k].type = "GPR"
                        /\ fault' # "null register"
      BY <1>5 DEF ScalarOnly
    <2>1. /\ \A r \in AVX : regTable[r] = Free
          /\ \A v \in Names : InRegister(v) => addressTable[v].reg \in GPR
          /\ \A k \in 1 .. Len(got) : got[k] \in GPR
          /\ \A k \in 1 .. Len(requests) : requests[k].type = "GPR"
      BY DEF Inv, ScalarOnly
    <2>2. reg \in GPR
      BY <1>2, <1>3, <2>1
    <2>3. \A r \in AVX : r \in AllRegs /\ r # reg
      BY <2>2, RegistersAssumption DEF AllRegs
    <2>4. \A r \in AVX : regTable'[r] = Free
      BY <1>4, <2>1, <2>3
    <2>5. \A v \in Names : InRegister(v)' => addressTable'[v].reg \in GPR
      BY <1>4, <2>1, <2>2
    <2>6. \A k \in 1 .. Len(got') : got'[k] \in GPR
      BY <1>3, <2>1, <2>2
    <2>7. \A k \in 1 .. Len(requests') : requests'[k].type = "GPR"
      BY <1>3, <2>1
    <2> QED
      BY <1>1, <2>4, <2>5, <2>6, <2>7
  <1> QED
    BY <1>7, <1>8, <1>9, <1>10, <1>11, <1>12 DEF Inv

(* An emitted result is in a taken register, a declared variable at home. *)
LEMMA WrittenTables ==
  ASSUME Inv, Recorded \/ Declaring \/ Copied \/ UNCHANGED tables
  PROVE  /\ regTable' \in [AllRegs -> Names \union {Free}] /\ addressTable' \in [Names -> Location]
         /\ globals' \subseteq Names /\ stack' = stack
         /\ \A r \in AllRegs : regTable[r] # Free => regTable'[r] # Free
         /\ \A v \in globals' \ Literals : addressTable'[v] = Global \/ InRegister(v)'
         /\ \A v \in Names : InRegister(v)' =>
              \/ InRegister(v) /\ addressTable'[v] = addressTable[v]
              \/ addressTable'[v].reg \in AllRegs /\ regTable'[addressTable'[v].reg] # Free
         /\ ~VectorsBegun =>
              /\ \A r \in AVX : regTable'[r] = Free
              /\ \A v \in Names : InRegister(v)' => addressTable'[v].reg \in GPR
  <1>1. /\ regTable \in [AllRegs -> Names \union {Free}] /\ addressTable \in [Names -> Location]
        /\ globals \subseteq Names /\ Free \notin Names /\ AVX \subseteq AllRegs
    BY NamesAssumption DEF Inv, TypeOK, AllRegs
  <1>2. \A v \in globals \ Literals : addressTable[v] = Global \/ InRegister(v)
    BY DEF Inv, GlobalsHaveHome
  <1>3. ~VectorsBegun =>
          /\ \A r \in AVX : regTable[r] = Free
          /\ \A v \in Names : InRegister(v) => addressTable[v].reg \in GPR
    BY DEF Inv, ScalarOnly
  <1>4. CASE UNCHANGED tables
    BY <1>1, <1>2, <1>3, <1>4 DEF tables, InRegister, Inv, TypeOK
  <1>5. CASE Declaring
    <2>1. PICK v \in Names : /\ globals' = globals \union {v}
                             /\ addressTable' = [addressTable EXCEPT ![v] = Global]
                             /\ UNCHANGED <<regTable, stack>>
      BY <1>5 DEF Declaring
    <2>2. \A u \in Names : InRegister(u)' => InRegister(u) /\ addressTable'[u] = addressTable[u]
      BY <1>1, <2>1, Kinds DEF InRegister
    <2>3. addressTable' \in [Names -> Location] /\ globals' \subseteq Names
      BY <1>1, <2>1, LocationsTyped
    <2>4. \A u \in globals' \ Literals : addressTable'[u] = Global \/ InRegister(u)'
      BY <1>1, <1>2, <2>1 DEF InRegister
    <2> QED
      BY <1>1, <1>3, <2>1, <2>2, <2>3, <2>4
  <1>6. CASE Recorded
    <2>1. PICK reg \in AllRegs, v \in Names, b \in BOOLEAN :
            Holds(reg, v, b) /\ (~VectorsBegun => reg \in GPR)
      BY <1>6 DEF Recorded
    <2> DEFINE here == Register(reg, b)
    <2>2. here \in Location /\ here.type = "register" /\ here.reg = reg
      BY LocationsTyped, Kinds
    <2>3. /\ regTable' = [regTable EXCEPT ![reg] = v]
          /\ addressTable' = [addressTable EXCEPT ![v] = here]
          /\ UNCHANGED <<globals, stack>>
      BY <2>1 DEF Holds
    <2> HIDE DEF here
    <2>4. regTable' \in [AllRegs -> Names \union {Free}] /\ addressTable' \in [Names -> Location]
      BY <1>1, <2>2, <2>3
    <2>5. \A u \in Names : InRegister(u)' =>
            \/ InRegister(u) /\ addressTable'[u] = addressTable[u]
            \/ addressTable'[u].reg = reg
      BY <1>1, <2>2, <2>3 DEF InRegister
    <2>6. regTable'[reg] # Free /\ \A r \in AllRegs : regTable[r] # Free => regTable'[r] # Free
      BY <1>1, <2>3
    <2>7. \A u \in globals' \ Literals : addressTable'[u] = Global \/ InRegister(u)'
      BY <1>1, <1>2, <2>2, <2>3 DEF InRegister
    <2>8. ASSUME ~VectorsBegun
          PROVE  /\ \A r \in AVX : regTable'[r] = Free
                 /\ \A u \in Names : InRegister(u)' => addressTable'[u].reg \in GPR
      <3>1. reg \in GPR /\ \A r \in AVX : r # reg
        BY <2>1, <2>8, RegistersAssumption
      <3> QED
        BY <1>1, <1>3, <2>3, <2>5, <2>8, <3>1
    <2> QED
      BY <1>1, <2>3, <2>4, <2>5, <2>6, <2>7, <2>8
  <1>7. CASE Copied
    <2>1. PICK reg \in AllRegs, v \in Names, w \in Names, large \in SUBSET Names :
            /\ regTable' = [regTable EXCEPT ![reg] = w]
            /\ globals' = globals \union large
            /\ addressTable' = [u \in Names |-> IF u = v THEN Register(reg, FALSE)
                                                ELSE IF u \in large THEN Global ELSE addressTable[u]]
            /\ UNCHANGED stack
      BY <1>7 DEF Copied
    <2> DEFINE here == Register(reg, FALSE)
    <2>2. here \in Location /\ here.type = "register" /\ here.reg = reg /\ Global \in Location /\ Global.type # "register"
      BY LocationsTyped, Kinds
    <2>3. addressTable' = [u \in Names |-> IF u = v THEN here
                                           ELSE IF u \in large THEN Global ELSE addressTable[u]]
      BY <2>1
    <2> HIDE DEF here
    <2>4. regTable' \in [AllRegs -> Names \union {Free}] /\ addressTable' \in [Names -> Location] /\ globals' \subseteq Names
      BY <1>1, <2>1, <2>2, <2>3
    <2>5. \A u \in Names : InRegister(u)' =>
            \/ InRegister(u) /\ addressTable'[u] = addressTable[u]
            \/ addressTable'[u].reg = reg
      BY <1>1, <2>2, <2>3 DEF InRegister
    <2>6. regTable'[reg] # Free /\ \A r \in AllRegs : regTable[r] # Free => regTable'[r] # Free
      BY <1>1, <2>1
    <2>7. \A u \in globals' \ Literals : addressTable'[u] = Global \/ InRegister(u)'
      BY <1>1, <1>2, <2>1, <2>2, <2>3 DEF InRegister
    <2>8. VectorsBegun
      BY <1>7 DEF Copied
    <2> QED
      BY <2>1, <2>4, <2>5, <2>6, <2>7, <2>8
  <1> QED
    BY <1>4, <1>5, <1>6, <1>7

LEMMA EmitInv == ASSUME Inv, Emit PROVE Inv'
  <1>1. /\ stage = "registers" /\ requests = <<>> /\ fault = "none" /\ Emitted
        /\ (~freed /\ (Recorded \/ Declaring \/ Copied)) \/ UNCHANGED tables
    BY EmitEffect
  <1>2. /\ stage' = "next" /\ idx' = idx + 1 /\ got' = <<>>
        /\ UNCHANGED <<program, blk, freed, requests, fault>>
    BY <1>1 DEF Emitted
  <1>3. /\ regTable' \in [AllRegs -> Names \union {Free}] /\ addressTable' \in [Names -> Location]
        /\ globals' \subseteq Names /\ stack' = stack
        /\ \A r \in AllRegs : regTable[r] # Free => regTable'[r] # Free
        /\ \A v \in globals' \ Literals : addressTable'[v] = Global \/ InRegister(v)'
        /\ \A v \in Names : InRegister(v)' =>
             \/ InRegister(v) /\ addressTable'[v] = addressTable[v]
             \/ addressTable'[v].reg \in AllRegs /\ regTable'[addressTable'[v].reg] # Free
        /\ ~VectorsBegun =>
             /\ \A r \in AVX : regTable'[r] = Free
             /\ \A v \in Names : InRegister(v)' => addressTable'[v].reg \in GPR
    BY <1>1, WrittenTables
  <1>4. Block' = Block /\ (VectorsBegun => VectorsBegun')
    <2>1. Block' = Block /\ idx \in Nat
      BY <1>2 DEF Block, Inv, TypeOK
    <2> QED
      BY <1>2, <2>1 DEF VectorsBegun
  <1>5. TypeOK'
    <2>3. blk \in Nat \ {0} /\ idx \in Nat \ {0} /\ requests \in Seq(Request)
      BY DEF Inv, TypeOK
    <2>1. blk' \in Nat \ {0} /\ idx' \in Nat \ {0}
      BY <1>2, <2>3
    <2>2. requests' \in Seq(Request) /\ got' \in Seq(AllRegs \union {NoReg})
      BY <1>2, <2>3
    <2> QED
      BY <1>2, <1>3, <2>1, <2>2 DEF Inv, TypeOK
  <1>6. Quota'
    BY <1>1, <1>2 DEF Quota
  <1>7. Boundary'
    <2> SUFFICES ASSUME freed PROVE blk' <= Len(program') /\ idx' > Len(Block)' /\ requests' = <<>>
      BY <1>2 DEF Boundary
    <2>1. blk <= Len(program) /\ idx >= Len(Block) /\ Len(Block) \in Nat /\ idx \in Nat
      <3>1. program \in Seq(Seq(Instruction)) /\ blk \in Nat \ {0} /\ idx \in Nat \ {0}
        BY DEF Inv, TypeOK
      <3>2. blk <= Len(program) /\ (idx > Len(Block) \/ idx = Len(Block))
        BY DEF Inv, Boundary
      <3>3. Block \in Seq(Instruction)
        BY <3>1, <3>2 DEF Block
      <3> QED
        BY <3>1, <3>2, <3>3
    <2> QED
      BY <1>1, <1>2, <1>4, <2>1
  <1>8. GlobalsHaveHome'
    <2>1. ASSUME freed PROVE Used' = {} /\ \A v \in Names : ~InRegister(v)'
      <3>1. UNCHANGED tables
        BY <1>1, <2>1
      <3> QED
        BY <2>1, <3>1 DEF tables, Inv, GlobalsHaveHome, Used, InRegister
    <2> QED
      BY <1>2, <1>3, <2>1 DEF GlobalsHaveHome
  <1>9. LocatedRegistersAreTaken'
    <2> SUFFICES ASSUME NEW v \in Names, InRegister(v)' PROVE regTable'[addressTable'[v].reg] # Free
      BY DEF LocatedRegistersAreTaken
    <2>1. CASE InRegister(v) /\ addressTable'[v] = addressTable[v]
      <3>1. regTable[addressTable[v].reg] # Free /\ addressTable[v].reg \in AllRegs
        BY <2>1, RegisterTyped DEF Inv, LocatedRegistersAreTaken, InRegister, TypeOK
      <3> QED
        BY <1>3, <2>1, <3>1
    <2> QED
      BY <1>3, <2>1
  <1>10. ScalarOnly'
    BY <1>1, <1>2, <1>3, <1>4 DEF ScalarOnly
  <1> QED
    BY <1>5, <1>6, <1>7, <1>8, <1>9, <1>10 DEF Inv

LEMMA FailInv == ASSUME Inv, Fail PROVE Inv'
  <1>1. CASE LookupFails
    <2> USE DEF LookupFails
    <2>1. /\ WithLiterals \in [Names -> Location]
          /\ \A v \in Names : WithLiterals[v] = Immediate \/ WithLiterals[v] = addressTable[v]
          /\ \A v \in Names \ Literals : WithLiterals[v] = addressTable[v]
      BY WithLiteralsEffect
    <2>2. \A v \in Names : InRegister(v)' => InRegister(v) /\ addressTable'[v] = addressTable[v]
      BY <1>1, <2>1, Kinds DEF InRegister
    <2>3. Block' = Block /\ Inst' = Inst /\ VectorsBegun' = VectorsBegun
      BY <1>1 DEF position, Block, Inst, VectorsBegun
    <2>4. TypeOK'
      BY <1>1, <2>1 DEF Inv, TypeOK, position
    <2>5. Quota'
      BY <1>1 DEF Inv, Quota, AtInstruction
    <2>6. Boundary'
      BY <1>1, <2>3 DEF Inv, Boundary, position
    <2>7. GlobalsHaveHome'
      <3>1. \A v \in globals' \ Literals : addressTable'[v] = Global \/ InRegister(v)'
        BY <1>1, <2>1 DEF Inv, TypeOK, GlobalsHaveHome, InRegister
      <3>2. freed' => Used' = {} /\ \A v \in Names : ~InRegister(v)'
        BY <1>1, <2>2 DEF Inv, GlobalsHaveHome, Used
      <3> QED
        BY <3>1, <3>2 DEF GlobalsHaveHome
    <2>8. LocatedRegistersAreTaken'
      BY <1>1, <2>2 DEF Inv, LocatedRegistersAreTaken
    <2>9. ScalarOnly'
      BY <1>1, <2>2, <2>3 DEF Inv, ScalarOnly
    <2> QED
      BY <2>4, <2>5, <2>6, <2>7, <2>8, <2>9 DEF Inv
  <1>2. ASSUME /\ fault' \in {"assertion", "invalid instruction"} \/ (fault' = "null register" /\ VectorsBegun)
               /\ UNCHANGED <<position, stage, freed, requests, got, tables>>
        PROVE  Inv'
    <2>1. /\ Block' = Block /\ Inst' = Inst /\ VectorsBegun' = VectorsBegun
          /\ Need(Inst)' = Need(Inst)
      <3>1. program' = program /\ blk' = blk /\ idx' = idx
        BY <1>2 DEF position
      <3>2. Block' = Block /\ Inst' = Inst /\ VectorsBegun' = VectorsBegun
        BY <3>1 DEF Block, Inst, VectorsBegun
      <3>3. \A v : Expendable(v)' = Expendable(v)
        BY <3>1, <3>2 DEF Expendable, IsLive, HasNextUse
      <3> QED BY <3>2, <3>3 DEF Need
    <2>2. \A v : InRegister(v)' = InRegister(v)
      BY <1>2 DEF tables, InRegister
    <2>3. TypeOK'
      BY <1>2 DEF Inv, TypeOK, tables, position
    <2>4. Quota'
      BY <1>2, <2>1 DEF Inv, Quota, position
    <2>5. Boundary'
      BY <1>2, <2>1 DEF Inv, Boundary, position
    <2>6. GlobalsHaveHome' /\ LocatedRegistersAreTaken'
      BY <1>2, <2>2 DEF Inv, GlobalsHaveHome, LocatedRegistersAreTaken, tables, Used
    <2>7. ScalarOnly'
      BY <1>2, <2>1, <2>2 DEF Inv, ScalarOnly, tables
    <2> QED
      BY <2>3, <2>4, <2>5, <2>6, <2>7 DEF Inv
  <1>3. CASE NullRegister
    <2>1. ASSUME ~VectorsBegun PROVE FALSE
      <3>1. requests \in Seq(Request) /\ requests # <<>>
        BY <1>3 DEF NullRegister, Asking, Inv, TypeOK
      <3>2. Asked = requests[1] /\ 1 \in 1 .. Len(requests)
        BY <3>1 DEF Asked
      <3>3. Asked.type = "GPR" /\ \A r \in AVX : regTable[r] = Free
        BY <2>1, <3>2 DEF Inv, ScalarOnly
      <3>4. Regs(Asked.type) = GPR
        BY <3>3 DEF Regs
      <3>5. Used = GPR
        BY <1>3, <3>3, <3>4 DEF NullRegister, Used, AllRegs
      <3> QED
        BY <1>3, <3>4, <3>5 DEF NullRegister, AtLeastOneRegisterUnused
    <2> QED
      BY <1>2, <1>3, <2>1 DEF NullRegister
  <1> QED
    BY <1>1, <1>2, <1>3 DEF Fail, NothingToSpill, SecondOperandMissing, VectorSourceFails, InvalidInstruction

(* freeRegisters leaves no register taken and nothing located in one. *)
LEMMA FreeRegistersInv == ASSUME Inv, FreeRegisters PROVE Inv'
  <1> USE DEF FreeRegisters
  <1>1. /\ regTable \in [AllRegs -> Names \union {Free}] /\ addressTable \in [Names -> Location]
        /\ globals \subseteq Names
    BY DEF Inv, TypeOK
  <1>2. Block' = Block /\ Inst' = Inst /\ VectorsBegun' = VectorsBegun
    BY DEF position, Block, Inst, VectorsBegun
  <1>3. requests = <<>> /\ got = <<>>
    BY DEF Inv, Quota
  <1>4. addressTable' = [v \in Names |-> IF v \in Homed THEN HomeOf(v)
                                          ELSE IF InRegister(v) THEN Nowhere
                                          ELSE addressTable[v]]
    OBVIOUS
  <1>5. \A v \in Names : addressTable'[v] \in {HomeOf(v), Nowhere, addressTable[v]} /\ ~InRegister(v)'
    BY <1>4, Kinds DEF InRegister, HomeOf
  <1>6. addressTable' \in [Names -> Location]
    BY <1>1, <1>4, LocationsTyped
  <1>7. \A v \in globals : addressTable'[v] = IF InRegister(v) THEN Global ELSE addressTable[v]
    BY <1>1, <1>4 DEF Homed, HomeOf
  <1>8. regTable' = [r \in AllRegs |-> Free]
    OBVIOUS
  <1>9. TypeOK'
    BY <1>6, <1>8 DEF Inv, TypeOK, position
  <1>10. Quota'
    BY <1>3 DEF Quota
  <1>11. Boundary'
    BY <1>2, <1>3 DEF Boundary, position
  <1>12. GlobalsHaveHome'
    <2>1. Used' = {}
      BY <1>8 DEF Used
    <2>2. \A v \in globals' \ Literals : addressTable'[v] = Global
      BY <1>7 DEF Inv, GlobalsHaveHome
    <2> QED
      BY <1>5, <2>1, <2>2 DEF GlobalsHaveHome
  <1>13. LocatedRegistersAreTaken'
    BY <1>5 DEF LocatedRegistersAreTaken
  <1>14. ScalarOnly'
    <2>1. \A r \in AVX : regTable'[r] = Free
      BY <1>8 DEF AllRegs
    <2>2. /\ fault' = fault /\ requests' = <<>>
          /\ ~VectorsBegun => \A k \in 1 .. Len(got') : got'[k] \in GPR
      BY <1>3 DEF Inv, ScalarOnly
    <2>3. \A k \in 1 .. Len(requests') : requests'[k].type = "GPR"
      BY <2>2
    <2> QED
      BY <1>2, <1>5, <2>1, <2>2, <2>3 DEF ScalarOnly, Inv
  <1> QED
    BY <1>9, <1>10, <1>11, <1>12, <1>13, <1>14 DEF Inv

(* Every step of the generator preserves the invariant. *)
LEMMA StepInv == ASSUME Inv, [Next]_vars PROVE Inv'
  <1>1. ASSUME /\ program' = program
               /\ stage' # "registers" /\ freed' = FALSE /\ freed \in {TRUE, FALSE}
               /\ blk' \in Nat \ {0} /\ idx' \in Nat \ {0}
               /\ stage' \in {"next", "done"} /\ stage = "next"
               /\ (freed /\ fault = "none") \/ UNCHANGED <<blk, idx>>
               /\ UNCHANGED <<requests, got, fault, tables>>
        PROVE  Inv'
    <2>1. \A v : InRegister(v)' = InRegister(v)
      BY <1>1 DEF tables, InRegister
    <2>2. (freed /\ fault = "none") \/ VectorsBegun' = VectorsBegun
      BY <1>1 DEF VectorsBegun, Block
    <2>3. TypeOK'
      BY <1>1 DEF Inv, TypeOK, tables
    <2>4. Quota' /\ Boundary'
      BY <1>1 DEF Inv, Quota, Boundary
    <2>5. GlobalsHaveHome' /\ LocatedRegistersAreTaken'
      BY <1>1, <2>1 DEF Inv, GlobalsHaveHome, LocatedRegistersAreTaken, tables
    <2>6. ScalarOnly'
      <3>1. CASE freed /\ fault = "none"
        <4>1. requests = <<>> /\ got = <<>> /\ \A r \in AVX : regTable[r] = Free
          BY <1>1, <3>1 DEF Inv, Quota, GlobalsHaveHome, Used, AllRegs
        <4>2. \A v \in Names : ~InRegister(v)
          BY <3>1 DEF Inv, GlobalsHaveHome
        <4> QED
          BY <1>1, <2>1, <3>1, <4>1, <4>2 DEF ScalarOnly, tables
      <3>2. CASE VectorsBegun' = VectorsBegun
        BY <1>1, <2>1, <3>2 DEF Inv, ScalarOnly, tables
      <3> QED
        BY <2>2, <3>1, <3>2
    <2> QED
      BY <2>3, <2>4, <2>5, <2>6 DEF Inv
  <1>2. CASE NextBlock
    <2>1. blk \in Nat \ {0}
      BY DEF Inv, TypeOK
    <2>2. blk' \in Nat \ {0} /\ idx' \in Nat \ {0}
      BY <1>2, <2>1 DEF NextBlock
    <2> QED
      BY <1>1, <1>2, <2>2 DEF NextBlock
  <1>3. CASE Finish
    <2>1. blk \in Nat \ {0} /\ idx \in Nat \ {0} /\ program \in Seq(Seq(Instruction))
      BY DEF Inv, TypeOK
    <2>2. ~freed
      BY <1>3, <2>1 DEF Finish, Inv, Boundary
    <2>3. freed = FALSE
      BY <2>2 DEF Inv, TypeOK
    <2> QED
      BY <1>1, <1>3, <2>1, <2>3 DEF Finish, position
  <1>4. CASE UNCHANGED vars
    <2>1. /\ UNCHANGED <<program, blk, idx, stage, freed, requests, got, fault>>
          /\ UNCHANGED <<regTable, addressTable, globals, stack>>
      BY <1>4 DEF vars, position, tables
    <2>2. /\ \A v : InRegister(v)' = InRegister(v)
          /\ Block' = Block /\ Inst' = Inst /\ VectorsBegun' = VectorsBegun
          /\ Need(Inst)' = Need(Inst)
      BY <2>1 DEF InRegister, Block, Inst, VectorsBegun, Need, Expendable, IsLive, HasNextUse
    <2>3. TypeOK'
      BY <2>1 DEF Inv, TypeOK
    <2>4. Quota'
      BY <2>1, <2>2 DEF Inv, Quota
    <2>5. Boundary'
      BY <2>1, <2>2 DEF Inv, Boundary
    <2>6. GlobalsHaveHome' /\ LocatedRegistersAreTaken'
      BY <2>1, <2>2 DEF Inv, GlobalsHaveHome, LocatedRegistersAreTaken, Used
    <2>7. ScalarOnly'
      BY <2>1, <2>2 DEF Inv, ScalarOnly
    <2> QED
      BY <2>3, <2>4, <2>5, <2>6, <2>7 DEF Inv
  <1> QED
    BY <1>2, <1>3, <1>4, FetchInv, GetRegisterInv, EmitInv, FailInv, FreeRegistersInv DEF Next

LEMMA Invariance == Spec => []Inv
  BY InitInv, StepInv, PTL DEF Spec

-----------------------------------------------------------------------------
(* The tables and the generator's position are well typed: in particular    *)
(* every located register exists, and only names the code mentions have one. *)
THEOREM TypeCorrect == Spec => []TypeOK
  <1>1. Inv => TypeOK
    BY DEF Inv
  <1> QED
    BY <1>1, Invariance, PTL

(* A declared variable is in its register or at home, and at home at a block's end. *)
THEOREM HomesKept == Spec => []GlobalsHaveHome
  <1>1. Inv => GlobalsHaveHome
    BY DEF Inv
  <1> QED
    BY <1>1, Invariance, PTL

(* The address table never locates a name in a register the other table has free. *)
THEOREM LocatedTaken == Spec => []LocatedRegistersAreTaken
  <1>1. Inv => LocatedRegistersAreTaken
    BY DEF Inv
  <1> QED
    BY <1>1, Invariance, PTL

LEMMA ScalarsServed == ASSUME Inv PROVE ScalarCodeGetsARegister
  <1>1. fault = "null register" => VectorsBegun
    BY DEF Inv, ScalarOnly
  <1>2. program \in Seq(Seq(Instruction)) /\ blk \in Nat \ {0}
    BY DEF Inv, TypeOK
  <1>3. ASSUME VectorsBegun PROVE UsesVectors(program)
    <2>1. blk <= Len(program)
      BY <1>3 DEF VectorsBegun
    <2>2. blk \in 1 .. Len(program)
      BY <1>2, <2>1
    <2>3. \E j \in 1 .. Len(program[blk]) : program[blk][j].op \in VectorOperations
      BY <1>3 DEF VectorsBegun, Block
    <2> QED
      BY <2>2, <2>3 DEF UsesVectors
  <1> QED
    BY <1>1, <1>3 DEF ScalarCodeGetsARegister

(* Code without vector instructions is always given a register. *)
THEOREM ScalarRegisters == Spec => []ScalarCodeGetsARegister
  BY ScalarsServed, Invariance, PTL
=============================================================================
