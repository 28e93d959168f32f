---------------------------- MODULE Effect_proofs ----------------------------
(***************************************************************************)
(* The code of a good block does what its three-address code says, for any *)
(* program and any two sets of registers.  While a block is generated, the *)
(* registers and the memory of the machine agree with the variables of the *)
(* three-address code wherever anybody may still look: Faithful says where *)
(* that is, name by name, and is inductive together with what is known of  *)
(* the tables (Inv).                                                       *)
(***************************************************************************)
EXTENDS CodeGen_proofs, FiniteSetTheorems

-----------------------------------------------------------------------------
(* The names of the block, by where they are mentioned *)

Pending == After(Block, idx - 1)
Later == After(Block, idx)
Defined == DefinedBefore(Block, idx)

RegOf(v) == addressTable[v].reg
Value(v) == machine.reg[RegOf(v)]

(***************************************************************************)
(* The names whose register matters: those mentioned from here on, and the *)
(* variables that are stored when the block ends.  A literal is located    *)
(* anew by each instruction.                                               *)
(***************************************************************************)
Wanted(v) ==
  IF v \in Literals THEN stage = "registers" /\ v \in Operands(Inst)
                    ELSE v \in Pending \/ (v \in Scalars /\ IsUpdated(v))
Held(v) == InRegister(v) /\ Wanted(v)

(* A register with the value itself, of a place its address. *)
Kept(v) ==
  /\ InRegister(v) /\ Value(v) = reference.env[v]
  /\ addressTable[v].isAddress <=> IsPlace(reference.env[v])

(* A register with what the name means: of a place its contents. *)
Loaded(v) == InRegister(v) /\ ~addressTable[v].isAddress /\ Value(v) = Meaning(v)

-----------------------------------------------------------------------------
(* The inductive invariant *)

MachineTyped ==
  /\ DOMAIN machine = {"reg", "mem", "heap", "flags", "output"}
  /\ DOMAIN machine.reg = AllRegs /\ DOMAIN machine.mem = Names
  /\ DOMAIN reference = {"env", "heap", "flags", "output"}
  /\ DOMAIN reference.env = Names

(* The tables of declared names and of stack slots, whatever the program. *)
GlobalsDeclared == globals \subseteq UNION {Scalars, Arrays, LargeCopies}
DeclarationsRecorded ==
  blk <= Len(program) => DeclaredBefore(program, blk) \union Declared(Block, idx - 1) \subseteq globals
HomesAgree ==
  \A v \in Names : /\ addressTable[v] = Stack => v \in stack
                   /\ addressTable[v] = Global => v \in globals
                   /\ addressTable[v] = Immediate => v \in Literals

(* What is in a register was mentioned before, or asked for just now. *)
OnlyMentionedLocated ==
  \A v \in Names : InRegister(v) =>
    \/ v \in Before(Block, idx)
    \/ stage = "registers" /\ v \in Mentions(Inst) /\ \E n \in 1 .. Len(got) : got[n] = RegOf(v)
LocatedAreDeclared == \A v \in Scalars \union Arrays : InRegister(v) => v \in globals

ScalarsRight ==
  \A v \in Scalars :
    /\ ~InRegister(v) \/ ~IsUpdated(v) => machine.mem[v] = reference.env[v]
    /\ Held(v) => ~addressTable[v].isAddress /\ Value(v) = reference.env[v]

ValuesKept ==
  \A v \in (Temps \union Consts) \intersect Defined \intersect Pending :
    Kept(v) \/ (stage = "registers" /\ got # <<>> /\ v \notin Later /\ Loaded(v))

ArraysAddressed ==
  \A v \in Arrays : Held(v) => addressTable[v].isAddress /\ Value(v) = AddressOf(v)

Unshared == \A v, w \in Names : Held(v) /\ Held(w) /\ v # w => RegOf(v) # RegOf(w)

PlacesInPlace == \A v \in Names : IsPlace(reference.env[v]) => v \in Temps \intersect Places(Block)

SameEffects ==
  machine.heap = reference.heap /\ machine.output = reference.output /\ machine.flags = reference.flags

FlagsUntouched == Before(Block, idx) = {} => reference.flags = Junk

CopiesIntact == \A v \in LargeCopies : machine.mem[v] = <<"initially", v>>

LiteralsReady ==
  stage = "registers" =>
    \A v \in Operands(Inst) \intersect Literals : addressTable[v] = Immediate \/ Loaded(v)

(* A literal, or a name new to the block, is asked for only while in no register. *)
NewRequests ==
  \A k \in 1 .. Len(requests) :
    requests[k].name \in Literals \/ requests[k].name \notin Before(Block, idx) =>
      ~InRegister(requests[k].name)

(* The n-th register the instruction was given is that of v. *)
Answered(n, v) == InRegister(v) /\ RegOf(v) = got[n]

FirstOperandAnswered(force) ==
  \/ got = <<>> /\ requests = <<Ask(Inst.arg1, "GPR", FALSE, force)>>
  \/ Len(got) = 1 /\ requests = <<>> /\ Answered(1, Inst.arg1) /\ Loaded(Inst.arg1)

ThirdRequest ==
  IF Inst.op = "ARRAY_INDEX" THEN Ask(Inst.result, "GPR", TRUE, FALSE)
                             ELSE Ask(Inst.result, "AVX", FALSE, FALSE)
IndexAnswered ==
  /\ \/ Len(got) = 0 /\ requests = IndexAndArray(Inst, ThirdRequest)
     \/ Len(got) = 1 /\ requests = <<Ask(Inst.arg1, "GPR", TRUE, TRUE), ThirdRequest>>
     \/ Len(got) = 2 /\ requests = <<ThirdRequest>>
     \/ Len(got) = 3 /\ requests = <<>>
  /\ Len(got) >= 1 => Answered(1, Inst.arg2) /\ Loaded(Inst.arg2)
  /\ Len(got) >= 2 => Answered(2, Inst.arg1) /\ Value(Inst.arg1) = AddressOf(Inst.arg1)
  /\ Len(got) >= 3 => Answered(3, Inst.result)

CopyAnswered ==
  /\ \/ got = <<>> /\ requests = <<Ask(Inst.result, "GPR", FALSE, FALSE)>> /\ ~Located(Inst.result)
     \/ requests = <<>> /\ Located(Inst.result)
  /\ Inst.result \in Consts /\ requests = <<>> =>
       InRegister(Inst.result) /\ ~addressTable[Inst.result].isAddress
  /\ Inst.result \in Temps => got = <<>>

VectorAnswered ==
  requests = <<>> /\ Len(got) = 2 /\ Answered(1, Inst.arg1) /\ Answered(2, Inst.arg2)

VectorAssignAnswered ==
  /\ got[1] = NoReg
  /\ \/ Len(got) = 1 /\ requests = <<Ask(Inst.result, "AVX", FALSE, FALSE)>>
     \/ Len(got) = 2 /\ requests = <<>> /\ Answered(2, Inst.result)

AnswersRight ==
  stage = "registers" =>
    CASE Inst.op \in Arithmetic -> FirstOperandAnswered(TRUE)
      [] Inst.op \in Comparisons -> FirstOperandAnswered(FALSE)
      [] Inst.op \in {"ARRAY_INDEX", "VLOAD", "VSTORE"} -> IndexAnswered
      [] Inst.op = "ASSIGN" /\ Inst.arg1 # NoName -> CopyAnswered
      [] Inst.op \in {"VADD", "VSUB"} -> VectorAnswered
      [] Inst.op = "VASSIGN" -> VectorAssignAnswered
      [] OTHER -> requests = <<>> /\ got = <<>>

(* The registers of Taken(Block) that have been taken by now. *)
Claimed ==
  {k \in Taken(Block) :
     IF k[1] \in Literals
     THEN k[2] < idx \/ (k[2] = idx /\ stage = "registers" /\ InRegister(k[1]))
     ELSE InRegister(k[1])}

(* In a block that may spill, the register table is right about every register. *)
OwnersRight ==
  /\ Used \subseteq GPR
  /\ \A r \in Used : /\ regTable[r] \in Scalars
                     /\ addressTable[regTable[r]] = Register(r, FALSE)
                     /\ machine.reg[r] = reference.env[regTable[r]]
  /\ \A v \in Names : Held(v) => regTable[RegOf(v)] = v

RegistersCounted ==
  IF MaySpill(Block) THEN OwnersRight ELSE Cardinality(Used) <= Cardinality(Claimed)

(* The tables and the machine, and what has been answered of the requests. *)
StateFaithful ==
  /\ OnlyMentionedLocated /\ LocatedAreDeclared
  /\ ScalarsRight /\ ValuesKept /\ ArraysAddressed /\ Unshared
  /\ PlacesInPlace /\ SameEffects /\ FlagsUntouched /\ CopiesIntact /\ LiteralsReady
  /\ RegistersCounted

Faithful == GoodBlock => fault = "none" /\ StateFaithful /\ NewRequests /\ AnswersRight

StackMeansFault ==
  stack \intersect (Temps \union Consts) # {} =>
    \E k \in 1 .. blk : k <= Len(program) /\ ~(WellFormed(program, k) /\ Disciplined(program[k]))

FaultInBlock == fault # "none" => blk <= Len(program)

TableInv == MachineTyped /\ GlobalsDeclared /\ DeclarationsRecorded /\ HomesAgree /\ FaultInBlock
EffectInv == Inv /\ TableInv /\ StackMeansFault /\ Faithful

-----------------------------------------------------------------------------
(* Names and the instruction at hand *)

(* The block that is being generated. *)
LEMMA BlockTyped ==
  ASSUME TypeOK, blk <= Len(program)
  PROVE  /\ blk \in 1 .. Len(program) /\ Block \in Seq(Instruction) /\ Len(Block) \in Nat
         /\ idx \in Nat /\ idx >= 1
  <1>1. program \in Seq(Seq(Instruction)) /\ blk \in Nat \ {0} /\ idx \in Nat \ {0}
    BY DEF TypeOK
  <1>2. Block \in Seq(Instruction)
    BY <1>1 DEF Block
  <1> QED
    BY <1>1, <1>2

(* What is mentioned from here on is mentioned here or later. *)
LEMMA Windows ==
  ASSUME TypeOK, blk <= Len(program), idx <= Len(Block)
  PROVE  /\ Inst \in Instruction
         /\ Pending = Mentions(Inst) \union Later
         /\ Before(Block, idx + 1) = Before(Block, idx) \union Mentions(Inst)
         /\ DefinedBefore(Block, idx + 1) = Defined \union {Inst.result}
         /\ Declared(Block, idx) =
              Declared(Block, idx - 1) \union (IF IsDeclaration(Inst) THEN {Inst.result} ELSE {})
  <1>1. Block \in Seq(Instruction) /\ Len(Block) \in Nat /\ idx \in Nat /\ idx >= 1
    BY BlockTyped
  <1>2. Inst \in Instruction
    BY <1>1 DEF Inst
  <1>3. Pending = Mentions(Inst) \union Later
    <2>1. (idx - 1) + 1 .. Len(Block) = {idx} \union (idx + 1 .. Len(Block))
      BY <1>1
    <2> QED
      BY <2>1 DEF Pending, Later, After, Inst
  <1>4. 1 .. (idx + 1) - 1 = (1 .. idx - 1) \union {idx}
    BY <1>1
  <1>5. Before(Block, idx + 1) = Before(Block, idx) \union Mentions(Inst)
    BY <1>4 DEF Before, Inst
  <1>6. DefinedBefore(Block, idx + 1) = Defined \union {Inst.result}
    BY <1>4 DEF DefinedBefore, Defined, Inst
  <1>7. 1 .. idx = (1 .. idx - 1) \union {idx}
    BY <1>1
  <1>8. Declared(Block, idx) =
          Declared(Block, idx - 1) \union (IF IsDeclaration(Inst) THEN {Inst.result} ELSE {})
    BY <1>7 DEF Declared, Inst
  <1> QED
    BY <1>2, <1>3, <1>5, <1>6, <1>8

(* The conditions on a good block, of each of its instructions. *)
LEMMA GoodInstruction ==
  ASSUME TypeOK, GoodBlock, NEW j \in 1 .. Len(Block)
  PROVE  /\ Block[j] \in Instruction
         /\ OfItsKind(Block, j) /\ InOrder(program, blk, j) /\ Handled(Block, j)
         /\ Operands(Block[j]) \intersect Consts \subseteq DefinedBefore(Block, j)
         /\ program[blk] = Block
  <1>1. Block \in Seq(Instruction)
    BY BlockTyped DEF GoodBlock
  <1> QED
    BY <1>1 DEF GoodBlock, WellFormed, Disciplined, ConstantsAreLocal, Block

(* No name is of two kinds. *)
LEMMA NamesApart ==
  /\ UNION {Scalars, Arrays, Consts, Temps, Literals, LargeCopies} = Names
  /\ NoName \notin Names /\ Free \notin Names /\ \A l \in Labels : l \notin Names
  /\ \A v \in Scalars : v \notin Arrays /\ v \notin Consts /\ v \notin Temps /\ v \notin Literals /\ v \notin LargeCopies
  /\ \A v \in Arrays : v \notin Consts /\ v \notin Temps /\ v \notin Literals /\ v \notin LargeCopies
  /\ \A v \in Consts : v \notin Temps /\ v \notin Literals /\ v \notin LargeCopies
  /\ \A v \in Temps : v \notin Literals /\ v \notin LargeCopies
  /\ \A v \in Literals : v \notin LargeCopies
  BY NamesAssumption DEF Names

(* The operands an instruction of a good block has. *)
OfAKind(i) ==
  /\ i.op \in Arithmetic =>
       i.arg1 \in Values /\ i.arg2 \in Values /\ i.result \in Scalars \union Temps /\ i.op # "DIV"
  /\ i.op \in Comparisons => i.arg1 \in Values /\ i.arg2 \in Values /\ i.result = NoName
  /\ i.op = "ASSIGN" /\ i.arg1 # NoName =>
       /\ i.result \in UNION {Scalars, Consts, Temps} /\ i.arg2 = NoName
       /\ i.arg1 \in UNION {Literals, Consts, Temps \ Places(Block)}
  /\ i.op = "ASSIGN" /\ i.arg1 = NoName => i.result \in Scalars \union Arrays /\ i.arg2 = NoName
  /\ i.op \in {"ARRAY_INDEX", "VLOAD", "VSTORE"} =>
       i.arg1 \in Arrays /\ i.arg2 \in Values /\ i.result \in Temps
  /\ i.op = "VSTORE" => i.result \notin Places(Block)
  /\ i.op \in {"VADD", "VSUB"} =>
       i.arg1 \in Temps \ Places(Block) /\ i.arg2 \in Temps \ Places(Block) /\ i.result \in Temps
  /\ i.op = "VSUB" => i.arg1 = i.arg2
  /\ i.op = "VASSIGN" => i.result \in Temps /\ i.arg1 \in Literals /\ i.arg2 = NoName
  /\ i.op = "WRITE" => i.arg1 \in Values /\ i.arg2 = NoName /\ i.result = NoName
  /\ i.op \in Jumps \union {"LABEL", "CALL", "ENTER_PROC", "EXIT_PROC"} =>
       i.arg1 \in Labels /\ i.arg2 = NoName /\ i.result = NoName
  /\ i.op = "NOP" => i.arg1 = NoName /\ i.arg2 = NoName /\ i.result = NoName
  /\ i.op \notin {"READ", "PROC_PARAM"} \union Unprintable
  /\ i.op \in UNION {Arithmetic, Comparisons, VectorOperations, Jumps,
                     {"ASSIGN", "ARRAY_INDEX", "WRITE", "LABEL", "CALL", "ENTER_PROC", "EXIT_PROC", "NOP"}}

(* The instructions of a good block, by operation. *)
LEMMA Kindly ==
  ASSUME TypeOK, GoodBlock, NEW j \in 1 .. Len(Block)
  PROVE  OfAKind(Block[j])
  <1>1. Block[j] \in Instruction /\ OfItsKind(Block, j) /\ HasForm(Block, j)
    BY GoodInstruction DEF Handled
  <1>2. Block[j].op \notin {"READ", "PROC_PARAM"} \union Unprintable
    BY <1>1 DEF HasForm, Comparisons, Unprintable
  <1>3. Block[j].op = "VSUB" => Block[j].arg1 = Block[j].arg2
    BY <1>1 DEF HasForm, Comparisons
  <1> QED
    BY <1>1, <1>2, <1>3, NamesApart DEF OfAKind, OfItsKind, HasForm, Instruction, Shape, Values, Operands,
       IsDeclaration, Arithmetic, Comparisons, Jumps, ConditionalJumps, VectorOperations, Unprintable

(* A temporary or a constant that was mentioned was defined. *)
LEMMA MentionedIsDefined ==
  ASSUME TypeOK, GoodBlock, NEW i \in Nat, i <= Len(Block) + 1,
         NEW v \in Temps \union Consts, v \in Before(Block, i)
  PROVE  v \in DefinedBefore(Block, i)
  <1>1. Len(Block) \in Nat
    BY BlockTyped DEF GoodBlock
  <1>2. PICK j \in 1 .. i - 1 : v \in Mentions(Block[j])
    BY DEF Before
  <1>3. j \in 1 .. Len(Block)
    BY <1>1
  <1>4. CASE v = Block[j].result
    BY <1>4 DEF DefinedBefore
  <1>5. CASE v \in Operands(Block[j])
    <2>1. v \in DefinedBefore(Block, j)
      BY <1>3, <1>5, GoodInstruction DEF InOrder
    <2>2. 1 .. j - 1 \subseteq 1 .. i - 1
      BY <1>1
    <2> QED
      BY <2>1, <2>2 DEF DefinedBefore
  <1> QED
    BY <1>2, <1>4, <1>5 DEF Mentions

(* A temporary is new where an operation other than a copy gives it a value. *)
LEMMA NewTemporary ==
  ASSUME TypeOK, GoodBlock, NEW j \in 1 .. Len(Block),
         Block[j].result \in Temps, Block[j].op \notin {"ASSIGN", "VSTORE"}
  PROVE  Block[j].result \notin Before(Block, j) /\ Block[j].result \notin DefinedBefore(Block, j)
  <1>1. Len(Block) \in Nat
    BY BlockTyped DEF GoodBlock
  <1>2. Block[j].result \notin DefinedBefore(Block, j)
    BY GoodInstruction DEF InOrder
  <1>3. j \in Nat /\ j <= Len(Block) + 1
    BY <1>1
  <1> QED
    BY <1>2, <1>3, MentionedIsDefined

LEMMA NewOnce ==
  ASSUME TypeOK, GoodBlock, NEW j \in 1 .. Len(Block), NEW k \in 1 .. Len(Block),
         Block[j].result = Block[k].result, Block[j].result \in Temps,
         Block[j].op \notin {"ASSIGN", "VSTORE"}, Block[k].op \notin {"ASSIGN", "VSTORE"}
  PROVE  j = k
  <1>1. Len(Block) \in Nat
    BY BlockTyped DEF GoodBlock
  <1>2. Block[j].result \notin DefinedBefore(Block, j) /\ Block[k].result \notin DefinedBefore(Block, k)
    BY NewTemporary
  <1>3. ~(j < k) /\ ~(k < j)
    BY <1>1, <1>2 DEF DefinedBefore
  <1> QED
    BY <1>1, <1>3

(* Nothing writes a literal or its copy in memory. *)
LEMMA Results ==
  ASSUME TypeOK, GoodBlock, NEW v \in Literals \union LargeCopies
  PROVE  ~IsUpdated(v)
  <1>1. ASSUME NEW j \in 1 .. Len(Block) PROVE Block[j].result # v
    <2>1. OfAKind(Block[j])
      BY Kindly
    <2> QED
      BY <2>1, NamesApart DEF OfAKind, VectorOperations
  <1> QED
    BY <1>1 DEF IsUpdated

(* Nothing takes a register that is not a name of the program. *)
LEMMA RegistersKind ==
  ASSUME TypeOK, GoodBlock, NEW j \in 1 .. Len(Block)
  PROVE  InRegisters(Block[j]) \subseteq Names \ LargeCopies
  <1>1. OfAKind(Block[j])
    BY Kindly
  <1> QED
    BY <1>1, NamesApart DEF OfAKind, InRegisters, Values, Mentions, Operands

(* The operation of the instruction at hand, where its operands are wanted. *)
LEMMA AtHand ==
  ASSUME TypeOK, GoodBlock, idx <= Len(Block)
  PROVE  /\ idx \in 1 .. Len(Block) /\ idx \in Nat /\ Len(Block) \in Nat
         /\ Inst = Block[idx] /\ Inst \in Instruction /\ OfAKind(Inst)
         /\ InOrder(program, blk, idx) /\ Handled(Block, idx)
         /\ Operands(Inst) \intersect (Temps \union Consts) \subseteq Defined
         /\ Pending = Mentions(Inst) \union Later
         /\ program[blk] = Block
         /\ \A v \in Operands(Inst) \union ({Inst.result} \ {NoName}) : v \in Mentions(Inst) /\ v \in Pending
  <1>1. idx \in 1 .. Len(Block) /\ Inst = Block[idx] /\ Len(Block) \in Nat
    BY BlockTyped DEF GoodBlock, Inst
  <1>2. OfAKind(Inst) /\ Inst \in Instruction
    BY <1>1, Kindly, GoodInstruction
  <1>3. InOrder(program, blk, idx) /\ Handled(Block, idx) /\ program[blk] = Block
    BY <1>1, GoodInstruction
  <1>4. Operands(Inst) \intersect (Temps \union Consts) \subseteq Defined
    BY <1>1, <1>3, GoodInstruction DEF InOrder, Defined
  <1>5. Pending = Mentions(Inst) \union Later
    BY Windows DEF GoodBlock
  <1> QED
    BY <1>1, <1>2, <1>3, <1>4, <1>5 DEF Mentions

(* The first operand of a sum, whose register the result takes, is done with. *)
LEMMA FirstOperandConsumed ==
  ASSUME TypeOK, GoodBlock, idx <= Len(Block), Inst.op \in Sums, Inst.arg1 # Inst.result
  PROVE  \/ Inst.arg1 \in Literals
         \/ Inst.arg1 \notin Later /\ (Inst.arg1 \in Scalars => ~IsUpdated(Inst.arg1))
  <1>1. /\ idx \in 1 .. Len(Block) /\ idx \in Nat /\ Len(Block) \in Nat
        /\ Inst = Block[idx] /\ OfAKind(Inst) /\ Handled(Block, idx)
    BY AtHand
  <1>2. ConsumesFirstOperand(Block, idx)
    BY <1>1 DEF Handled
  <1>3. Inst.arg1 \in Literals \/ Inst.arg1 \notin Later \union (Defined \ Temps)
    BY <1>1, <1>2 DEF ConsumesFirstOperand, Later, Defined
  <1>4. ASSUME Inst.arg1 \in Scalars, Inst.arg1 \notin Later, Inst.arg1 \notin Defined \ Temps
        PROVE  ~IsUpdated(Inst.arg1)
    <2> SUFFICES ASSUME NEW j \in 1 .. Len(Block), Block[j].result = Inst.arg1 PROVE FALSE
      BY DEF IsUpdated
    <2>1. CASE j < idx
      BY <1>1, <1>4, <2>1, NamesApart DEF Defined, DefinedBefore
    <2>2. CASE j = idx
      BY <1>1, <2>2
    <2>3. CASE j > idx
      <3>1. j \in idx + 1 .. Len(Block)
        BY <1>1, <2>3
      <3>2. Inst.arg1 \in Mentions(Block[j])
        BY <1>4, NamesApart DEF Mentions
      <3> QED
        BY <1>4, <3>1, <3>2 DEF Later, After
    <2> QED
      BY <1>1, <2>1, <2>2, <2>3
  <1> QED
    BY <1>3, <1>4

-----------------------------------------------------------------------------
(* The registers a block takes are finitely many *)

SumResults(b) == {b[i].result : i \in {j \in 1 .. Len(b) : b[j].op \in Sums}} \intersect Temps
Key(v, i) == <<v, IF v \in Literals THEN i ELSE 0>>
KeysAt(b, i) == {Key(v, i) : v \in InRegisters(b[i]) \ SumResults(b)}

LEMMA TakenKeys ==
  ASSUME NEW b
  PROVE  Taken(b) = UNION {KeysAt(b, i) : i \in 1 .. Len(b)}
  BY DEF Taken, SumResults, Key, KeysAt

LEMMA TakenFinite ==
  ASSUME NEW b \in Seq(Instruction)
  PROVE  IsFiniteSet(Taken(b))
  <1> DEFINE n == Len(b)
             Sets == {KeysAt(b, i) : i \in 1 .. n}
             f == [i \in 1 .. n |-> KeysAt(b, i)]
  <1>1. n \in Nat
    OBVIOUS
  <1>2. IsFiniteSet(1 .. n)
    BY <1>1, FS_Interval
  <1>3. f \in Surjection(1 .. n, Sets)
    BY DEF Surjection
  <1>4. IsFiniteSet(Sets)
    <2> HIDE DEF n, Sets, f
    <2> QED BY <1>2, <1>3, FS_Surjection
  <1>5. ASSUME NEW i \in 1 .. n PROVE IsFiniteSet(KeysAt(b, i))
    <2> DEFINE A == {Key(b[i].arg1, i)}
               B == A \union {Key(b[i].arg2, i)}
               C == B \union {Key(b[i].result, i)}
    <2>1. IsFiniteSet(A)
      BY FS_Singleton
    <2>2. IsFiniteSet(B)
      BY <2>1, FS_AddElement
    <2>3. IsFiniteSet(C)
      <3> HIDE DEF B
      <3> QED BY <2>2, FS_AddElement
    <2>4. InRegisters(b[i]) \subseteq {b[i].arg1, b[i].arg2, b[i].result}
      BY DEF InRegisters, Mentions, Operands
    <2>5. KeysAt(b, i) \in SUBSET C
      BY <2>4 DEF KeysAt
    <2> HIDE DEF C
    <2> QED
      BY <2>3, <2>5, FS_Subset
  <1>6. \A T \in Sets : IsFiniteSet(T)
    BY <1>5
  <1>7. Taken(b) = UNION Sets
    BY TakenKeys
  <1> HIDE DEF Sets
  <1> QED
    BY <1>4, <1>6, <1>7, FS_UNION

(* What is still to be taken leaves a register unused. *)
LEMMA Room ==
  ASSUME TypeOK, GoodBlock, ~MaySpill(Block), Cardinality(Used) <= Cardinality(Claimed),
         NEW key \in Taken(Block), key \notin Claimed
  PROVE  /\ IsFiniteSet(Claimed) /\ Cardinality(Claimed) \in Nat
         /\ Cardinality(Used) < Cardinality(GPR) /\ Cardinality(Used) < Cardinality(AVX)
         /\ IsFiniteSet(Used) /\ Cardinality(Used) \in Nat
  <1>1. IsFiniteSet(Taken(Block))
    BY BlockTyped, TakenFinite DEF GoodBlock
  <1>2. Claimed \in SUBSET Taken(Block)
    BY DEF Claimed
  <1>3. /\ IsFiniteSet(Claimed) /\ Cardinality(Claimed) <= Cardinality(Taken(Block))
        /\ Cardinality(Taken(Block)) = Cardinality(Claimed) => Taken(Block) = Claimed
    BY <1>1, <1>2, FS_Subset
  <1>4. Cardinality(Claimed) \in Nat /\ Cardinality(Taken(Block)) \in Nat
    BY <1>1, <1>3, FS_CardinalityType
  <1>5. Cardinality(Claimed) < Cardinality(Taken(Block))
    BY <1>3, <1>4
  <1>6. Cardinality(Taken(Block)) <= Cardinality(GPR)
    BY DEF GoodBlock, Disciplined, RegistersSuffice
  <1>7. IsFiniteSet(AllRegs)
    BY RegistersAssumption, FS_Union DEF AllRegs
  <1>8. Used \in SUBSET AllRegs
    BY DEF Used
  <1>9. IsFiniteSet(Used) /\ Cardinality(Used) \in Nat
    BY <1>7, <1>8, FS_Subset, FS_CardinalityType
  <1>10. Cardinality(GPR) \in Nat /\ Cardinality(AVX) \in Nat /\ Cardinality(GPR) <= Cardinality(AVX)
    BY RegistersAssumption, FS_CardinalityType
  <1> QED
    BY <1>3, <1>4, <1>5, <1>6, <1>9, <1>10

-----------------------------------------------------------------------------
(* What the reference does, by operation *)

LEMMA InterpretedCopy ==
  ASSUME NEW i, i.op = "ASSIGN", i.arg1 # NoName
  PROVE  Interpreted(i) =
           IF IsPlace(reference.env[i.result])
           THEN [reference EXCEPT !.heap = Append(@, <<reference.env[i.result], Meaning(i.arg1)>>)]
           ELSE Define(i.result, Meaning(i.arg1))
  BY DEF Interpreted, Arithmetic, Comparisons, IsComparison

LEMMA InterpretedSum ==
  ASSUME NEW i
  PROVE  LET sum == Define(i.result, <<i.op, Meaning(i.arg1), Meaning(i.arg2)>>)
         IN  /\ i.op \in Arithmetic => Interpreted(i) = [sum EXCEPT !.flags = Junk]
             /\ i.op \in {"VADD", "VSUB"} => Interpreted(i) = sum
  BY DEF Interpreted, Arithmetic, Comparisons, IsComparison

LEMMA InterpretedComparison ==
  ASSUME NEW i, i.op \in Comparisons
  PROVE  LET compared == [reference EXCEPT !.flags = <<"compare", Meaning(i.arg1), Meaning(i.arg2)>>]
         IN  Interpreted(i) = IF HasResult(i) THEN [compared EXCEPT !.env[i.result] = <<i.op, compared.flags>>]
                                              ELSE compared
  BY DEF Interpreted, Arithmetic, Comparisons, IsComparison

LEMMA InterpretedElement ==
  ASSUME NEW i, i.op \in {"ARRAY_INDEX", "VLOAD"}
  PROVE  LET place == Element(AddressOf(i.arg1), Meaning(i.arg2))
         IN  Interpreted(i) = Define(i.result, IF i.op = "ARRAY_INDEX" /\ i.result \in Temps THEN place
                                                                            ELSE Load(place, reference.heap))
  BY DEF Interpreted, Arithmetic, Comparisons, IsComparison

LEMMA InterpretedStore ==
  ASSUME NEW i, i.op = "VSTORE"
  PROVE  Interpreted(i) = [reference EXCEPT !.heap =
            Append(@, <<Element(AddressOf(i.arg1), Meaning(i.arg2)), Meaning(i.result)>>)]
  BY DEF Interpreted, Arithmetic, Comparisons, IsComparison

LEMMA InterpretedVector ==
  ASSUME NEW i, i.op = "VASSIGN"
  PROVE  Interpreted(i) = Define(i.result, IF i.arg1 \in Literals THEN <<"initially", LargeImmediate[i.arg1]>>
                                                                  ELSE Meaning(i.arg1))
  BY DEF Interpreted, Arithmetic, Comparisons, IsComparison

LEMMA InterpretedOutput ==
  ASSUME NEW i
  PROVE  /\ i.op = "WRITE" => Interpreted(i) = [reference EXCEPT !.output = Append(@, Meaning(i.arg1)), !.flags = Junk]
         /\ i.op = "READ" => Interpreted(i) = Define(i.arg1, <<"input">>)
         /\ i.op = "CALL" =>
              Interpreted(i) =
                [reference EXCEPT !.env = AfterCall(@, reference.heap),
                                  !.heap = Append(@, <<"call", World(reference.env)>>),
                                  !.output = Append(@, <<"call", World(reference.env)>>)]
  BY DEF Interpreted, Arithmetic, Comparisons, IsComparison

LEMMA InterpretedNothing ==
  ASSUME NEW i,
         \/ i.op = "ASSIGN" /\ i.arg1 = NoName
         \/ i.op \in Jumps \union {"LABEL", "NOP", "NEGATE", "PROC_PARAM", "ENTER_PROC", "EXIT_PROC"}
  PROVE  Interpreted(i) = reference
  BY DEF Interpreted, Arithmetic, Comparisons, IsComparison, Jumps, ConditionalJumps

LEMMA ReferenceTyped ==
  ASSUME MachineTyped, NEW i \in Instruction
  PROVE  /\ DOMAIN Interpreted(i) = {"env", "heap", "flags", "output"}
         /\ DOMAIN Interpreted(i).env = Names
  <1>1. /\ DOMAIN reference = {"env", "heap", "flags", "output"} /\ DOMAIN reference.env = Names
    BY DEF MachineTyped
  <1>2. \A v, x : /\ DOMAIN Define(v, x) = {"env", "heap", "flags", "output"}
                  /\ DOMAIN Define(v, x).env = Names
    BY <1>1 DEF Define
  <1>3. CASE i.op = "ASSIGN" /\ i.arg1 # NoName
    BY <1>1, <1>2, <1>3, InterpretedCopy
  <1>4. CASE i.op \in Arithmetic \union {"VADD", "VSUB"}
    <2>1. PICK x : Interpreted(i) \in {Define(i.result, x), [Define(i.result, x) EXCEPT !.flags = Junk]}
      BY <1>4, InterpretedSum
    <2> QED
      BY <1>2, <2>1
  <1>5. CASE i.op \in Comparisons
    <2> DEFINE compared == [reference EXCEPT !.flags = <<"compare", Meaning(i.arg1), Meaning(i.arg2)>>]
    <2>1. DOMAIN compared = {"env", "heap", "flags", "output"} /\ DOMAIN compared.env = Names
      BY <1>1
    <2>2. PICK x : Interpreted(i) = compared \/ Interpreted(i) = [compared EXCEPT !.env[i.result] = x]
      BY <1>5, InterpretedComparison
    <2> HIDE DEF compared
    <2> QED
      BY <2>1, <2>2
  <1>6. CASE i.op \in {"ARRAY_INDEX", "VLOAD"}
    BY <1>2, <1>6, InterpretedElement
  <1>7. CASE i.op = "VSTORE"
    BY <1>1, <1>7, InterpretedStore
  <1>8. CASE i.op = "VASSIGN"
    <2>1. PICK x : Interpreted(i) = Define(i.result, x)
      BY <1>8, InterpretedVector
    <2> QED
      BY <1>2, <2>1
  <1>9. CASE i.op \in {"WRITE", "READ", "CALL"}
    <2>1. CASE i.op = "WRITE"
      <3>1. Interpreted(i) = [reference EXCEPT !.output = Append(@, Meaning(i.arg1)), !.flags = Junk]
        BY <2>1, InterpretedOutput
      <3> QED
        BY <1>1, <3>1
    <2>2. CASE i.op = "READ"
      <3>1. PICK x : Interpreted(i) = Define(i.arg1, x)
        BY <2>2, InterpretedOutput
      <3> QED
        BY <1>2, <3>1
    <2>3. CASE i.op = "CALL"
      <3>1. DOMAIN AfterCall(reference.env, reference.heap) = Names
        BY <1>1 DEF AfterCall
      <3> QED
        BY <1>1, <2>3, <3>1, InterpretedOutput
    <2> QED
      BY <1>9, <2>1, <2>2, <2>3
  <1>10. CASE \/ i.op = "ASSIGN" /\ i.arg1 = NoName
              \/ i.op \in Jumps \union {"LABEL", "NOP", "NEGATE", "PROC_PARAM", "ENTER_PROC", "EXIT_PROC"}
    BY <1>1, <1>10, InterpretedNothing
  <1>11. i.op \in UNION {Arithmetic, Comparisons, VectorOperations, Jumps, {"ASSIGN", "ARRAY_INDEX", "READ", "WRITE",
                         "LABEL", "CALL", "ENTER_PROC", "EXIT_PROC", "NOP", "NEGATE", "PROC_PARAM"}}
    BY DEF Instruction, Shape, VectorOperations
  <1> QED
    BY <1>3, <1>4, <1>5, <1>6, <1>7, <1>8, <1>9, <1>10, <1>11 DEF VectorOperations

-----------------------------------------------------------------------------
(* What the actions do to the tables and to the machine *)

(* The five kinds of location. *)
LEMMA LocationsApart ==
  /\ Nowhere # Global /\ Nowhere # Stack /\ Nowhere # Immediate
  /\ Global # Stack /\ Global # Immediate /\ Stack # Immediate
  /\ Nowhere.type = "none" /\ Global.type = "global" /\ Stack.type = "stack" /\ Immediate.type = "immediate"
  /\ Immediate.reg = NoReg
  /\ \A r, b : /\ Register(r, b) # Nowhere /\ Register(r, b) # Global
               /\ Register(r, b) # Stack /\ Register(r, b) # Immediate
               /\ Register(r, b).type = "register" /\ Register(r, b).reg = r /\ Register(r, b).isAddress = b
  /\ \A r : /\ Register(r, FALSE) # Nowhere /\ Register(r, FALSE) # Global
            /\ Register(r, FALSE) # Stack /\ Register(r, FALSE) # Immediate
            /\ Register(r, FALSE).type = "register" /\ Register(r, FALSE).reg = r /\ ~Register(r, FALSE).isAddress
  /\ \A r : /\ Register(r, TRUE) # Nowhere /\ Register(r, TRUE) # Global
            /\ Register(r, TRUE) # Stack /\ Register(r, TRUE) # Immediate
            /\ Register(r, TRUE).type = "register" /\ Register(r, TRUE).reg = r /\ Register(r, TRUE).isAddress
  /\ \A l \in Location :
       /\ l.type = "register" <=> l \notin {Nowhere, Global, Stack, Immediate}
       /\ l.type = "register" => l.reg \in AllRegs /\ l.isAddress \in BOOLEAN /\ l = Register(l.reg, l.isAddress)
  BY DEF Location, Nowhere, Global, Stack, Immediate, Register, At

(* The parts of a machine of which one has been written. *)
LEMMA Writes ==
  ASSUME MachineTyped
  PROVE  /\ \A r, x : LET m == [machine EXCEPT !.reg[r] = x]
                      IN  /\ DOMAIN m = DOMAIN machine
                          /\ m.reg = [machine.reg EXCEPT ![r] = x] /\ m.mem = machine.mem
                          /\ m.heap = machine.heap /\ m.flags = machine.flags /\ m.output = machine.output
         /\ \A v, x : LET m == [machine EXCEPT !.mem[v] = x]
                      IN  /\ DOMAIN m = DOMAIN machine
                          /\ m.mem = [machine.mem EXCEPT ![v] = x] /\ m.reg = machine.reg
                          /\ m.heap = machine.heap /\ m.flags = machine.flags /\ m.output = machine.output
         /\ \A x : LET m == [machine EXCEPT !.heap = Append(@, x)]
                   IN  /\ DOMAIN m = DOMAIN machine
                       /\ m.heap = Append(machine.heap, x) /\ m.reg = machine.reg
                       /\ m.mem = machine.mem /\ m.flags = machine.flags /\ m.output = machine.output
  BY DEF MachineTyped

LEMMA GrantWrites ==
  ASSUME NEW reg, NEW table, NEW owners, NEW m, DOMAIN m = {"reg", "mem", "heap", "flags", "output"},
         Grant(reg, table, owners, m)
  PROVE  /\ \E x : machine' = [m EXCEPT !.reg[reg] = x]
         /\ DOMAIN machine' = DOMAIN m /\ DOMAIN machine'.reg = DOMAIN m.reg
         /\ machine'.mem = m.mem /\ machine'.heap = m.heap
         /\ machine'.flags = m.flags /\ machine'.output = m.output
  <1>1. PICK x : machine' = [m EXCEPT !.reg[reg] = x]
    BY DEF Grant
  <1> QED
    BY <1>1

(* Whatever getRegister does is a grant, after a variable was sent home or not. *)
Granting(reg, table, owners, m) ==
  \/ table = addressTable /\ owners = regTable /\ m = machine /\ stack' = stack
  \/ /\ table = SentHome(reg) /\ owners = Freed(reg) /\ m = Stored(reg) /\ stack' = OnStack(reg)
     /\ regTable[reg] \in Names

(* getRegister finds the name in a register, or grants it one. *)
LEMMA GetRegisterGrants ==
  ASSUME Inv, GetRegister
  PROVE  \/ AlreadyInRegister
         \/ \E reg \in AllRegs : \E table, owners, m :
              Granting(reg, table, owners, m) /\ Grant(reg, table, owners, m)
  <1>1. CASE ReuseRegister
    <2> DEFINE reg == addressTable[Asked.name].reg
    <2>1. InRegister(Asked.name) /\ Asked.name \in Names /\ addressTable[Asked.name] \in Location
      BY <1>1, AskedTyped DEF ReuseRegister, Reusable, Asking, Inv, TypeOK
    <2>2. reg \in AllRegs
      BY <2>1, RegisterTyped DEF InRegister
    <2>3. regTable[reg] \in Names
      BY <2>1, <2>2 DEF Inv, LocatedRegistersAreTaken, TypeOK
    <2>4. \/ Grant(reg, SentHome(reg), Freed(reg), Stored(reg)) /\ stack' = OnStack(reg)
          \/ Grant(reg, addressTable, regTable, machine) /\ stack' = stack
      BY <1>1 DEF ReuseRegister
    <2> QED
      BY <2>2, <2>3, <2>4 DEF Granting
  <1>2. CASE TakeUnused
    <2>1. PICK reg \in Regs(Asked.type) \ Used : Grant(reg, addressTable, regTable, machine)
      BY <1>2 DEF TakeUnused
    <2> QED
      BY <1>2, <2>1 DEF TakeUnused, Regs, AllRegs, Granting
  <1>3. CASE Spill
    <2>1. PICK reg \in Regs(Asked.type) \intersect Used :
            Grant(reg, SentHome(reg), Freed(reg), Stored(reg)) /\ stack' = OnStack(reg)
      BY <1>3 DEF Spill
    <2>2. reg \in AllRegs /\ regTable[reg] \in Names
      BY <2>1 DEF Used, Regs, AllRegs, Inv, TypeOK
    <2> QED
      BY <2>1, <2>2 DEF Granting
  <1> QED
    BY <1>1, <1>2, <1>3 DEF GetRegister

(* The tables are empty at first. *)
LEMMA TableInit == Init => TableInv
  <1> SUFFICES ASSUME Init PROVE TableInv
    OBVIOUS
  <1>1. MachineTyped
    BY DEF Init, MachineTyped, FreshMachine, FreshReference, Initially
  <1>2. GlobalsDeclared /\ HomesAgree /\ FaultInBlock
    BY LocationsApart DEF Init, GlobalsDeclared, HomesAgree, FaultInBlock
  <1>3. DeclarationsRecorded
    BY DEF Init, DeclarationsRecorded, DeclaredBefore, Declared
  <1> QED
    BY <1>1, <1>2, <1>3 DEF TableInv

LEMMA TableGetRegister == ASSUME Inv, TableInv, GetRegister PROVE TableInv'
  <1>1. /\ stage = "registers" /\ requests # <<>> /\ fault = "none"
        /\ UNCHANGED <<position, stage, freed, fault, globals>>
    BY GetRegisterEffect
  <1>2. reference' = reference
    BY DEF GetRegister, AlreadyInRegister, ReuseRegister, TakeUnused, Spill
  <1>3. FaultInBlock' /\ GlobalsDeclared'
    BY <1>1 DEF FaultInBlock, TableInv, GlobalsDeclared, position
  <1>4. DeclarationsRecorded'
    BY <1>1 DEF DeclarationsRecorded, TableInv, Block, position
  <1>5. addressTable \in [Names -> Location] /\ globals \subseteq Names /\ stack \subseteq Names
    BY DEF Inv, TypeOK
  <1>6. CASE AlreadyInRegister
    BY <1>1, <1>2, <1>3, <1>4, <1>6 DEF AlreadyInRegister, tables, TableInv, MachineTyped, HomesAgree
  <1>7. ASSUME NEW reg \in AllRegs, NEW table, NEW owners, NEW m,
               Granting(reg, table, owners, m), Grant(reg, table, owners, m)
        PROVE  TableInv'
    <2>1. /\ DOMAIN m = {"reg", "mem", "heap", "flags", "output"}
          /\ DOMAIN m.reg = AllRegs /\ DOMAIN m.mem = Names
      BY <1>7 DEF Granting, Stored, TableInv, MachineTyped
    <2>2. MachineTyped'
      <3>1. DOMAIN machine' = DOMAIN m /\ DOMAIN machine'.reg = DOMAIN m.reg /\ machine'.mem = m.mem
        BY <1>7, <2>1, GrantWrites
      <3> QED
        BY <1>2, <2>1, <3>1 DEF TableInv, MachineTyped
    <2>3. HomesAgree'
      <3> SUFFICES ASSUME NEW v \in Names
                   PROVE  /\ addressTable'[v] = Stack => v \in stack'
                          /\ addressTable'[v] = Global => v \in globals
                          /\ addressTable'[v] = Immediate => v \in Literals
        BY <1>1 DEF HomesAgree
      <3>1. stack \subseteq stack'
        BY <1>7 DEF Granting, OnStack
      <3>2. addressTable' = [table EXCEPT ![Asked.name] = Register(reg, Asked.address)]
        BY <1>7 DEF Grant
      <3>3. \/ table[v] = addressTable[v]
            \/ v = regTable[reg] /\ table[v] = HomeOf(v) /\ stack' = OnStack(reg)
        BY <1>5, <1>7 DEF Granting, SentHome
      <3>4. DOMAIN table = Names
        BY <1>5, <1>7 DEF Granting, SentHome
      <3>5. addressTable'[v] = Register(reg, Asked.address) \/ addressTable'[v] = table[v]
        BY <3>2, <3>4
      <3>6. CASE table[v] = addressTable[v]
        BY <3>1, <3>5, <3>6, LocationsApart DEF TableInv, HomesAgree
      <3>7. CASE v = regTable[reg] /\ table[v] = HomeOf(v) /\ stack' = OnStack(reg)
        BY <3>5, <3>7, LocationsApart DEF HomeOf, OnStack
      <3> QED
        BY <3>3, <3>6, <3>7
    <2> QED
      BY <1>3, <1>4, <2>2, <2>3 DEF TableInv
  <1> QED
    BY <1>6, <1>7, GetRegisterGrants

(* The instructions that make a name global. *)
LEMMA TableEmit == ASSUME Inv, TableInv, Emit PROVE TableInv'
  <1>1. /\ stage = "registers" /\ requests = <<>> /\ fault = "none" /\ Emitted
        /\ Inst \in Instruction /\ blk <= Len(program) /\ idx <= Len(Block)
    <2>1. stage = "registers" /\ requests = <<>> /\ fault = "none" /\ Emitted
      BY EmitEffect
    <2> QED
      BY <2>1, Generating DEF Inv, Quota
  <1>2. program' = program /\ blk' = blk /\ idx' = idx + 1 /\ Block' = Block /\ fault' = "none"
    BY <1>1 DEF Emitted, Block
  <1>3. addressTable \in [Names -> Location] /\ idx \in Nat
    BY DEF Inv, TypeOK
  <1>4. /\ DOMAIN machine = {"reg", "mem", "heap", "flags", "output"}
        /\ DOMAIN machine.reg = AllRegs /\ DOMAIN machine.mem = Names
    BY DEF TableInv, MachineTyped
  <1>5. DOMAIN reference' = {"env", "heap", "flags", "output"} /\ DOMAIN reference'.env = Names
    BY <1>1, ReferenceTyped DEF Emitted, TableInv
  <1>6. /\ DOMAIN machine' = {"reg", "mem", "heap", "flags", "output"}
        /\ DOMAIN machine'.reg = AllRegs /\ DOMAIN machine'.mem = Names
    <2>1. CASE EmitDeclaration \/ EmitUntracked
      BY <1>4, <2>1 DEF EmitDeclaration, EmitUntracked
    <2>2. CASE EmitCopy
      BY <1>4, <2>2 DEF EmitCopy
    <2>3. CASE EmitArithmetic \/ EmitArrayIndex \/ EmitVectorLoad \/ EmitVector \/ EmitVectorAssign
      <3>1. PICK r, x : machine' \in {[machine EXCEPT !.reg[r] = x], [machine EXCEPT !.reg[r] = x, !.flags = Junk]}
        BY <2>3 DEF EmitArithmetic, EmitArrayIndex, EmitVectorLoad, EmitVector, EmitVectorAssign, SetsRegister
      <3> QED
        BY <1>4, <3>1
    <2>4. CASE EmitConditional
      BY <1>4, <2>4 DEF EmitConditional
    <2>5. CASE EmitWrite
      BY <1>4, <2>5 DEF EmitWrite
    <2>6. CASE EmitVectorStore
      BY <1>4, <2>6 DEF EmitVectorStore
    <2>7. CASE EmitCall
      <3>1. DOMAIN AfterCall(machine.mem, machine.heap) = Names
        BY <1>4 DEF AfterCall
      <3> QED
        BY <1>4, <2>7, <3>1 DEF EmitCall
    <2> QED
      BY <2>1, <2>2, <2>3, <2>4, <2>5, <2>6, <2>7 DEF Emit
  <1>7. MachineTyped'
    BY <1>5, <1>6 DEF MachineTyped
  <1>8. Declared(Block, idx) =
          Declared(Block, idx - 1) \union (IF IsDeclaration(Inst) THEN {Inst.result} ELSE {})
    BY <1>1, Windows DEF Inv
  <1>9. /\ globals \subseteq globals' /\ (IsDeclaration(Inst) => Inst.result \in globals')
        /\ GlobalsDeclared' /\ HomesAgree'
    <2>1. CASE EmitDeclaration
      <3>1. Inst.result \in Scalars \union Arrays /\ Inst.result \in Names
        BY <1>1, <2>1, NamesApart DEF EmitDeclaration, Emitting, Instruction, Shape, Arithmetic, Comparisons,
           Jumps, ConditionalJumps
      <3>2. globals' = globals \union {Inst.result} /\ stack' = stack
            /\ addressTable' = [addressTable EXCEPT ![Inst.result] = Global]
        BY <2>1 DEF EmitDeclaration
      <3> QED
        BY <1>3, <3>1, <3>2, LocationsApart DEF TableInv, GlobalsDeclared, HomesAgree
    <2>2. CASE EmitVectorAssign
      <3>1. ~IsDeclaration(Inst)
        BY <2>2 DEF EmitVectorAssign, Emitting, IsDeclaration
      <3>2. PICK large \in SUBSET LargeCopies :
              /\ globals' = globals \union large
              /\ addressTable' = [v \in Names |-> IF v = Inst.result THEN Register(got[2], FALSE)
                                                   ELSE IF v \in large THEN Global ELSE addressTable[v]]
              /\ stack' = stack
        <4> DEFINE large == IF got[1] = NoReg THEN {LargeImmediate[Inst.arg1]} ELSE {}
        <4>1. large \in SUBSET LargeCopies
          BY <2>2 DEF EmitVectorAssign, LargeCopies
        <4> QED
          BY <2>2, <4>1 DEF EmitVectorAssign
      <3>3. GlobalsDeclared'
        BY <3>2 DEF TableInv, GlobalsDeclared
      <3>4. ASSUME NEW v \in Names
            PROVE  /\ addressTable'[v] = Stack => v \in stack'
                   /\ addressTable'[v] = Global => v \in globals'
                   /\ addressTable'[v] = Immediate => v \in Literals
        <4>1. \/ addressTable'[v] = Register(got[2], FALSE) \/ addressTable'[v] = addressTable[v]
              \/ v \in large /\ addressTable'[v] = Global
          BY <3>2
        <4>2. CASE addressTable'[v] = addressTable[v]
          <5>1. globals \subseteq globals' /\ stack' = stack
            BY <3>2
          <5> QED
            BY <4>2, <5>1 DEF TableInv, HomesAgree
        <4>3. CASE addressTable'[v] = Register(got[2], FALSE)
          BY <4>3, LocationsApart
        <4>4. CASE v \in large /\ addressTable'[v] = Global
          BY <3>2, <4>4, LocationsApart
        <4> QED
          BY <4>1, <4>2, <4>3, <4>4
      <3>5. HomesAgree'
        BY <3>4 DEF HomesAgree
      <3>6. globals \subseteq globals'
        BY <3>2
      <3> QED
        BY <3>1, <3>3, <3>5, <3>6
    <2>3. CASE EmitArithmetic \/ EmitArrayIndex \/ EmitVectorLoad \/ EmitVector
      <3>1. ~IsDeclaration(Inst)
        BY <2>3 DEF EmitArithmetic, EmitArrayIndex, EmitVectorLoad, EmitVector, Emitting, IsDeclaration, Arithmetic
      <3>2. PICK r, v, b : Holds(r, v, b)
        BY <2>3 DEF EmitArithmetic, EmitArrayIndex, EmitVectorLoad, EmitVector
      <3> QED
        BY <1>3, <3>1, <3>2, LocationsApart DEF TableInv, GlobalsDeclared, HomesAgree, Holds
    <2>4. CASE EmitCopy \/ EmitConditional \/ EmitWrite \/ EmitCall \/ EmitUntracked \/ EmitVectorStore
      <3>1. ~IsDeclaration(Inst)
        BY <2>4 DEF EmitCopy, EmitConditional, EmitWrite, EmitCall, EmitUntracked, EmitVectorStore, Emitting,
           IsDeclaration, Comparisons, Jumps, ConditionalJumps
      <3>2. UNCHANGED tables
        BY <2>4 DEF EmitCopy, EmitConditional, EmitWrite, EmitCall, EmitUntracked, EmitVectorStore
      <3> QED
        BY <3>1, <3>2 DEF tables, TableInv, GlobalsDeclared, HomesAgree
    <2> QED
      BY <2>1, <2>2, <2>3, <2>4 DEF Emit
  <1>10. DeclarationsRecorded'
    <2>1. idx' - 1 = idx
      BY <1>2, <1>3
    <2> QED
      BY <1>1, <1>2, <1>8, <1>9, <2>1 DEF TableInv, DeclarationsRecorded
  <1>11. FaultInBlock'
    BY <1>2 DEF FaultInBlock
  <1> QED
    BY <1>7, <1>9, <1>10, <1>11 DEF TableInv

LEMMA TableStep == ASSUME Inv, TableInv, [Next]_vars PROVE TableInv'
  <1>1. CASE Fetch \/ LookupFails
    <2>1. /\ AtInstruction /\ addressTable' = WithLiterals
          /\ UNCHANGED <<position, globals, stack, machine, reference>>
      BY <1>1 DEF Fetch, LookupFails
    <2>2. HomesAgree'
      BY <2>1, LocationsApart DEF WithLiterals, TableInv, HomesAgree
    <2> QED
      BY <2>1, <2>2 DEF TableInv, MachineTyped, GlobalsDeclared, DeclarationsRecorded, FaultInBlock, Block,
         position, AtInstruction
  <1>2. CASE GetRegister
    BY <1>2, TableGetRegister
  <1>3. CASE Emit
    BY <1>3, TableEmit
  <1>4. CASE NullRegister \/ NothingToSpill \/ SecondOperandMissing \/ VectorSourceFails \/ InvalidInstruction
    <2>1. stage = "registers" /\ UNCHANGED <<position, tables, machine, reference>>
      BY <1>4 DEF NullRegister, NothingToSpill, SecondOperandMissing, VectorSourceFails, InvalidInstruction,
         Asking, Emitting
    <2>2. blk <= Len(program)
      BY <2>1 DEF Inv, Quota
    <2> QED
      BY <2>1, <2>2 DEF TableInv, MachineTyped, GlobalsDeclared, DeclarationsRecorded, HomesAgree, FaultInBlock,
         Block, position, tables
  <1>5. CASE FreeRegisters
    <2>1. HomesAgree'
      BY <1>5, LocationsApart DEF FreeRegisters, TableInv, HomesAgree, HomeOf, Homed
    <2> QED
      BY <1>5, <2>1 DEF FreeRegisters, TableInv, MachineTyped, GlobalsDeclared, DeclarationsRecorded, FaultInBlock,
         Block, position
  <1>6. CASE NextBlock
    <2>1. /\ blk \in 1 .. Len(program) /\ Block \in Seq(Instruction) /\ Len(Block) \in Nat
          /\ idx \in Nat /\ idx > Len(Block) /\ blk <= Len(program)
      BY <1>6, BlockTyped DEF NextBlock, Inv
    <2>2. program' = program /\ blk' = blk + 1 /\ idx' = 1 /\ UNCHANGED <<fault, tables>> /\ fault = "none"
      BY <1>6 DEF NextBlock
    <2>3. MachineTyped'
      BY <1>6 DEF NextBlock, MachineTyped, FreshMachine, FreshReference, Initially
    <2>4. DeclaredBefore(program, blk + 1) = DeclaredBefore(program, blk) \union Declared(Block, Len(Block))
      <3>1. 1 .. (blk + 1) - 1 = (1 .. blk - 1) \union {blk}
        BY <2>1
      <3> QED
        BY <3>1 DEF DeclaredBefore, Block
    <2>5. Declared(Block, Len(Block)) \subseteq Declared(Block, idx - 1)
      <3>1. 1 .. Len(Block) \subseteq 1 .. idx - 1
        BY <2>1
      <3> QED
        BY <3>1 DEF Declared
    <2>6. DeclaredBefore(program, blk + 1) \subseteq globals
      BY <2>1, <2>4, <2>5 DEF TableInv, DeclarationsRecorded
    <2>7. Declared(Block', idx' - 1) = {}
      BY <2>2 DEF Declared
    <2>8. DeclarationsRecorded'
      BY <2>2, <2>6, <2>7 DEF DeclarationsRecorded, tables
    <2> QED
      BY <2>2, <2>3, <2>8 DEF TableInv, GlobalsDeclared, HomesAgree, FaultInBlock, tables
  <1>7. CASE Finish \/ UNCHANGED vars
    BY <1>7 DEF Finish, vars, tables, TableInv, MachineTyped, GlobalsDeclared, DeclarationsRecorded, HomesAgree,
       FaultInBlock, Block, position
  <1> QED
    BY <1>1, <1>2, <1>3, <1>4, <1>5, <1>6, <1>7 DEF Next, Fail

-----------------------------------------------------------------------------
(* What the operands of an instruction evaluate to *)

(* What holds of an instruction that has been fetched and not emitted. *)
LEMMA Underway ==
  ASSUME EffectInv, GoodBlock, stage = "registers"
  PROVE  /\ TypeOK /\ fault = "none" /\ blk <= Len(program) /\ idx <= Len(Block)
         /\ StateFaithful /\ NewRequests /\ AnswersRight
  BY DEF EffectInv, Faithful, Inv, Quota, GoodBlock

LEMMA NoPlace ==
  ASSUME PlacesInPlace, NEW v \in Names, v \notin Temps \/ v \notin Places(Block)
  PROVE  /\ ~IsPlace(reference.env[v])
         /\ v \notin Literals => Meaning(v) = reference.env[v]
  BY DEF PlacesInPlace, Meaning

(* Only a temporary or a constant means what it was defined as: never a place. *)
LEMMA MeaningIsNoPlace ==
  ASSUME NEW v
  PROVE  ~IsPlace(Meaning(v))
  BY DEF Meaning, IsPlace, Load

(* The variables an instruction mentions are declared, and at home or in a register. *)
LEMMA DeclaredHere ==
  ASSUME EffectInv, GoodBlock, idx <= Len(Block), ~IsDeclaration(Inst),
         NEW v \in Mentions(Inst), v \in Scalars \union Arrays
  PROVE  v \in globals /\ (addressTable[v] = Global \/ InRegister(v))
  <1>1. /\ TypeOK /\ TableInv /\ GlobalsHaveHome /\ blk <= Len(program)
    BY DEF EffectInv, Inv, GoodBlock
  <1>2. InOrder(program, blk, idx) /\ program[blk] = Block /\ Inst = Block[idx]
    BY <1>1, AtHand
  <1>3. v \in DeclaredBefore(program, blk) \union Declared(Block, idx)
    BY <1>2 DEF InOrder
  <1>4. Declared(Block, idx) = Declared(Block, idx - 1)
    BY <1>1, Windows
  <1>5. v \in globals
    BY <1>1, <1>3, <1>4 DEF TableInv, DeclarationsRecorded
  <1> QED
    BY <1>1, <1>5, NamesApart DEF GlobalsHaveHome

(* The register of what an instruction mentions matters until it is emitted. *)
LEMMA WantedOperand ==
  ASSUME EffectInv, GoodBlock, stage = "registers",
         NEW v \in Mentions(Inst), v \in Literals => v \in Operands(Inst)
  PROVE  Wanted(v)
  <1>1. idx <= Len(Block) /\ TypeOK
    BY Underway
  <1>2. Pending = Mentions(Inst) \union Later
    BY <1>1, AtHand
  <1> QED
    BY <1>2 DEF Wanted

(* Operands are mentioned. *)
LEMMA OperandsMentioned ==
  \A i : Operands(i) \subseteq Mentions(i) /\ (i.arg1 # NoName => i.arg1 \in Operands(i))
         /\ (i.arg2 # NoName => i.arg2 \in Operands(i)) /\ (i.result # NoName => i.result \in Mentions(i))
  BY DEF Operands, Mentions

(* A temporary or a constant that is an operand is in a register. *)
LEMMA DefinedOperand ==
  ASSUME EffectInv, GoodBlock, stage = "registers",
         NEW v \in Operands(Inst), v \in Temps \union Consts
  PROVE  /\ InRegister(v)
         /\ Kept(v) \/ (got # <<>> /\ v \notin Later /\ Loaded(v))
         /\ Operand(v) = Meaning(v)
  <1>1. /\ idx <= Len(Block) /\ TypeOK /\ ValuesKept /\ SameEffects /\ v \in Names
    BY Underway, NamesApart DEF StateFaithful
  <1>2. v \in Defined /\ v \in Pending
    BY <1>1, AtHand
  <1>3. Kept(v) \/ (got # <<>> /\ v \notin Later /\ Loaded(v))
    BY <1>1, <1>2 DEF ValuesKept
  <1>4. InRegister(v)
    BY <1>3 DEF Kept, Loaded
  <1>5. addressTable[v].isAddress \in BOOLEAN
    BY <1>1, <1>4, LocationsApart DEF InRegister, TypeOK
  <1>6. v \notin Literals
    BY NamesApart
  <1>7. Operand(v) = Meaning(v)
    BY <1>1, <1>3, <1>4, <1>6 DEF Operand, Read, InRegister, Kept, Loaded, Meaning, SameEffects, Value, RegOf
  <1> QED
    BY <1>3, <1>4, <1>7

(* A scalar operand evaluates to its value, from memory as from a register. *)
LEMMA ScalarOperand ==
  ASSUME EffectInv, GoodBlock, stage = "registers", ~IsDeclaration(Inst),
         NEW v \in Mentions(Inst), v \in Scalars
  PROVE  /\ Located(v) /\ Operand(v) = Meaning(v) /\ Meaning(v) = reference.env[v]
         /\ v \in globals
         /\ \/ InRegister(v) /\ ~addressTable[v].isAddress /\ Value(v) = reference.env[v]
            \/ addressTable[v] = Global /\ machine.mem[v] = reference.env[v]
  <1>1. /\ idx <= Len(Block) /\ TypeOK /\ ScalarsRight /\ PlacesInPlace
    BY Underway DEF StateFaithful
  <1>2. v \in globals /\ (addressTable[v] = Global \/ InRegister(v))
    BY <1>1, DeclaredHere
  <1>3. Meaning(v) = reference.env[v] /\ v \in Names
    BY <1>1, NoPlace, NamesApart
  <1>4. CASE InRegister(v)
    <2>1. Wanted(v)
      BY NamesApart, WantedOperand
    <2>2. ~addressTable[v].isAddress /\ Value(v) = reference.env[v]
      BY <1>1, <1>4, <2>1 DEF ScalarsRight, Held
    <2>3. addressTable[v] \in Location
      BY <1>1, <1>3 DEF TypeOK
    <2> QED
      BY <1>2, <1>3, <1>4, <2>2, <2>3, LocationsApart DEF InRegister, Located, Operand, Read, Value, RegOf
  <1>5. CASE addressTable[v] = Global
    <2>1. ~InRegister(v)
      BY <1>5, LocationsApart DEF InRegister
    <2>2. machine.mem[v] = reference.env[v]
      BY <1>1, <2>1 DEF ScalarsRight
    <2> QED
      BY <1>2, <1>3, <1>5, <2>2, LocationsApart DEF Located, Operand, Read
  <1> QED
    BY <1>2, <1>4, <1>5

(* A literal operand evaluates to itself. *)
LEMMA LiteralOperand ==
  ASSUME EffectInv, GoodBlock, stage = "registers", NEW v \in Operands(Inst), v \in Literals
  PROVE  Located(v) /\ Operand(v) = Meaning(v) /\ (addressTable[v] = Immediate \/ Loaded(v))
  <1>1. LiteralsReady /\ TypeOK /\ v \in Names
    BY Underway, NamesApart DEF StateFaithful
  <1>2. addressTable[v] = Immediate \/ Loaded(v)
    BY <1>1 DEF LiteralsReady
  <1> QED
    BY <1>1, <1>2, LocationsApart DEF Located, Operand, Read, Meaning, Loaded, InRegister, Value, RegOf

(* What an operand evaluates to is what it means to the reference. *)
LEMMA OperandMeans ==
  ASSUME EffectInv, GoodBlock, stage = "registers", NEW v \in Operands(Inst), v \in Values
  PROVE  Located(v) /\ Operand(v) = Meaning(v)
  <1>1. v \in Mentions(Inst)
    BY OperandsMentioned
  <1>2. idx <= Len(Block) /\ TypeOK
    BY Underway
  <1>3. OfAKind(Inst)
    BY <1>2, AtHand
  <1>4. ~IsDeclaration(Inst)
    BY <1>3 DEF OfAKind, IsDeclaration, Operands
  <1>5. CASE v \in Temps \union Consts
    <2>1. InRegister(v) /\ Operand(v) = Meaning(v)
      BY <1>5, DefinedOperand
    <2> QED
      BY <2>1, LocationsApart DEF InRegister, Located
  <1> QED
    BY <1>1, <1>4, <1>5, ScalarOperand, LiteralOperand DEF Values

-----------------------------------------------------------------------------
(* The instruction itself *)

(* Emitting an instruction moves on to the names mentioned behind it. *)
LEMMA EmittedWindow ==
  ASSUME EffectInv, GoodBlock, stage = "registers", Emitted
  PROVE  /\ Block' = Block /\ blk' = blk /\ program' = program /\ idx' = idx + 1
         /\ stage' = "next" /\ got' = <<>> /\ requests' = requests /\ fault' = fault
         /\ Pending' = Later /\ Defined' = Defined \union {Inst.result}
         /\ Before(Block, idx)' = Before(Block, idx) \union Mentions(Inst)
         /\ Later \subseteq Pending
         /\ \A v : (IsUpdated(v)' <=> IsUpdated(v)) /\ (Wanted(v)' => Wanted(v) /\ v \notin Literals)
         /\ \A v : Wanted(v)' => v \in Later \/ (v \in Scalars /\ IsUpdated(v))
         /\ (Inst.result # NoName => IsUpdated(Inst.result))
  <1>1. Block' = Block /\ blk' = blk /\ program' = program /\ idx' = idx + 1
    BY DEF Emitted, Block
  <1>2. stage' = "next" /\ got' = <<>> /\ requests' = requests /\ fault' = fault
    BY DEF Emitted
  <1>3. TypeOK /\ blk <= Len(program) /\ idx <= Len(Block)
    BY Underway
  <1>4. Pending' = Later
    <2>1. idx' - 1 = idx
      BY <1>1, <1>3, BlockTyped
    <2> QED
      BY <1>1, <2>1 DEF Pending, Later
  <1>5. Defined' = Defined \union {Inst.result}
    BY <1>1, <1>3, Windows DEF Defined
  <1>6. Before(Block, idx)' = Before(Block, idx) \union Mentions(Inst)
    BY <1>1, <1>3, Windows
  <1>7. Later \subseteq Pending
    BY <1>3, Windows
  <1>8. \A v : IsUpdated(v)' <=> IsUpdated(v)
    BY <1>1 DEF IsUpdated
  <1>9. \A v : /\ Wanted(v)' => Wanted(v) /\ v \notin Literals
               /\ Wanted(v)' => v \in Later \/ (v \in Scalars /\ IsUpdated(v))
    BY <1>2, <1>4, <1>7, <1>8 DEF Wanted
  <1>10. Inst.result # NoName => IsUpdated(Inst.result)
    BY <1>3, AtHand DEF IsUpdated
  <1> QED
    BY <1>1, <1>2, <1>4, <1>5, <1>6, <1>7, <1>8, <1>9, <1>10

(* What has been claimed of the block's registers stays claimed. *)
LEMMA ClaimsStay ==
  ASSUME EffectInv, GoodBlock, stage = "registers", Emitted,
         \A v \in Names \ LargeCopies : InRegister(v) => InRegister(v)'
  PROVE  Claimed \subseteq Claimed'
  <1>1. Block' = Block /\ idx' = idx + 1 /\ stage' = "next"
    BY EmittedWindow
  <1>2. TypeOK /\ blk <= Len(program) /\ Block \in Seq(Instruction) /\ Len(Block) \in Nat /\ idx \in Nat
    BY Underway, BlockTyped
  <1>3. ASSUME NEW k \in Claimed PROVE k \in Claimed'
    <2>1. k \in Taken(Block)
      BY <1>3 DEF Claimed
    <2>2. PICK i \in 1 .. Len(Block) : k \in KeysAt(Block, i)
      BY <2>1, TakenKeys
    <2>3. k[1] \in Names \ LargeCopies
      BY <1>2, <2>2, RegistersKind DEF KeysAt, Key
    <2>4. k[2] \in Nat
      BY <1>2, <2>2 DEF KeysAt, Key
    <2>5. CASE k[1] \in Literals
      BY <1>1, <1>2, <1>3, <2>1, <2>4, <2>5 DEF Claimed
    <2>6. CASE k[1] \notin Literals
      BY <1>1, <1>3, <2>1, <2>3, <2>6 DEF Claimed
    <2> QED
      BY <2>5, <2>6
  <1> QED
    BY <1>3

(* As long as no register is taken, the claimed ones remain enough. *)
LEMMA CountStays ==
  ASSUME EffectInv, GoodBlock, Claimed \subseteq Claimed', Used' = Used, Block' = Block, blk' = blk, program' = program,
         Cardinality(Used) <= Cardinality(Claimed)
  PROVE  Cardinality(Used') <= Cardinality(Claimed')
  <1>1. IsFiniteSet(Taken(Block))
    BY BlockTyped, TakenFinite DEF GoodBlock, EffectInv, Inv
  <1>2. Claimed' \in SUBSET Taken(Block)
    BY DEF Claimed
  <1>3. IsFiniteSet(Claimed')
    BY <1>1, <1>2, FS_Subset
  <1>4. IsFiniteSet(Claimed) /\ Cardinality(Claimed) <= Cardinality(Claimed')
    <2> DEFINE S == Claimed
               T == Claimed'
    <2>1. S \in SUBSET T /\ IsFiniteSet(T)
      BY <1>3
    <2> HIDE DEF S, T
    <2>2. IsFiniteSet(S) /\ Cardinality(S) <= Cardinality(T)
      BY <2>1, FS_Subset
    <2> QED
      BY <2>2 DEF S, T
  <1>5. Cardinality(Claimed) \in Nat /\ Cardinality(Claimed') \in Nat
    <2> DEFINE S == Claimed
               T == Claimed'
    <2>1. IsFiniteSet(S) /\ IsFiniteSet(T)
      BY <1>3, <1>4
    <2> HIDE DEF S, T
    <2>2. Cardinality(S) \in Nat /\ Cardinality(T) \in Nat
      BY <2>1, FS_CardinalityType
    <2> QED
      BY <2>2 DEF S, T
  <1>6. IsFiniteSet(AllRegs) /\ Used \in SUBSET AllRegs
    BY RegistersAssumption, FS_Union DEF AllRegs, Used
  <1>7. Cardinality(Used) \in Nat
    BY <1>6, FS_Subset, FS_CardinalityType
  <1> QED
    BY <1>4, <1>5, <1>7

(* An instruction that gives no name a register, and writes none that is in use. *)
LEMMA QuietEffect ==
  ASSUME EffectInv, GoodBlock, stage = "registers", Emitted,
         regTable' = regTable, globals \subseteq globals',
         \A w \in Names : \/ addressTable'[w] = addressTable[w]
                          \/ w = Inst.result /\ ~InRegister(w) /\ ~InRegister(w)',
         machine'.reg = machine.reg \/ \A w \in Names : ~InRegister(w),
         \A w \in Names \ Scalars : machine'.mem[w] = machine.mem[w] /\ reference'.env[w] = reference.env[w],
         \A w \in Scalars :
           /\ InRegister(w) => machine'.mem[w] = machine.mem[w] /\ reference'.env[w] = reference.env[w]
           /\ ~InRegister(w) /\ machine.mem[w] = reference.env[w] => machine'.mem[w] = reference'.env[w]
           /\ ~IsPlace(reference'.env[w]),
         Inst.result \in Temps \union Consts => Inst.result \in Defined,
         SameEffects', FlagsUntouched'
  PROVE  StateFaithful'
  <1>1. StateFaithful /\ TypeOK
    BY Underway
  <1>2. /\ Block' = Block /\ idx' = idx + 1 /\ stage' = "next" /\ Pending' = Later
        /\ blk' = blk /\ program' = program
        /\ Defined' = Defined \union {Inst.result}
        /\ Before(Block, idx)' = Before(Block, idx) \union Mentions(Inst)
        /\ Later \subseteq Pending
        /\ \A v : (IsUpdated(v)' <=> IsUpdated(v)) /\ (Wanted(v)' => Wanted(v) /\ v \notin Literals)
    BY EmittedWindow
  <1>3. \A v \in Names : InRegister(v)' <=> InRegister(v)
    BY DEF InRegister
  <1>4. ASSUME NEW v \in Names, InRegister(v)
        PROVE  /\ Held(v)' => Held(v)
               /\ RegOf(v)' = RegOf(v) /\ Value(v)' = Value(v) /\ addressTable'[v] = addressTable[v]
               /\ reference'.env[v] = reference.env[v]
    <2>1. addressTable'[v] = addressTable[v] /\ machine'.reg = machine.reg
      BY <1>4
    <2>2. Held(v)' => Held(v)
      BY <1>2, <1>4 DEF Held
    <2> QED
      BY <1>4, <2>1, <2>2 DEF RegOf, Value
  <1>5. \A v \in Names : Held(v)' => InRegister(v)
    BY <1>3 DEF Held
  <1>6. OnlyMentionedLocated'
    BY <1>1, <1>2, <1>3 DEF StateFaithful, OnlyMentionedLocated
  <1>7. LocatedAreDeclared'
    BY <1>1, <1>3, NamesApart DEF StateFaithful, LocatedAreDeclared
  <1>8. ScalarsRight'
    <2> SUFFICES ASSUME NEW v \in Scalars
                 PROVE  /\ ~InRegister(v)' \/ ~IsUpdated(v)' => machine'.mem[v] = reference'.env[v]
                        /\ Held(v)' => ~addressTable'[v].isAddress /\ Value(v)' = reference'.env[v]
      BY DEF ScalarsRight
    <2>1. v \in Names
      BY NamesApart
    <2>2. ~InRegister(v)' \/ ~IsUpdated(v)' => machine'.mem[v] = reference'.env[v]
      BY <1>1, <1>2, <1>3, <2>1 DEF StateFaithful, ScalarsRight
    <2>3. Held(v)' => ~addressTable'[v].isAddress /\ Value(v)' = reference'.env[v]
      BY <1>1, <1>4, <1>5, <2>1 DEF StateFaithful, ScalarsRight
    <2> QED
      BY <2>2, <2>3
  <1>9. ValuesKept'
    <2>1. ASSUME NEW v \in (Temps \union Consts) \intersect Defined' \intersect Pending' PROVE Kept(v)'
      <3>1. v \in Defined /\ v \in Pending /\ v \in Later
        BY <1>2, <2>1
      <3>2. Kept(v) /\ InRegister(v) /\ v \in Names
        BY <1>1, <3>1, NamesApart DEF StateFaithful, ValuesKept, Kept
      <3> QED
        BY <1>3, <1>4, <3>2 DEF Kept
    <2> QED
      BY <2>1 DEF ValuesKept
  <1>10. ArraysAddressed'
    <2> SUFFICES ASSUME NEW v \in Arrays, Held(v)' PROVE addressTable'[v].isAddress /\ Value(v)' = AddressOf(v)
      BY DEF ArraysAddressed
    <2>1. v \in Names
      BY NamesApart
    <2> QED
      BY <1>1, <1>4, <1>5, <2>1 DEF StateFaithful, ArraysAddressed
  <1>11. Unshared'
    BY <1>1, <1>4, <1>5 DEF StateFaithful, Unshared
  <1>12. PlacesInPlace'
    BY <1>1, <1>2 DEF StateFaithful, PlacesInPlace
  <1>13. CopiesIntact'
    BY <1>1, NamesApart DEF StateFaithful, CopiesIntact
  <1>14. LiteralsReady'
    BY <1>2 DEF LiteralsReady
  <1>15. RegistersCounted'
    <2>1. Used' = Used
      BY DEF Used
    <2>2. CASE MaySpill(Block)
      <3>1. OwnersRight
        BY <1>1, <2>2 DEF StateFaithful, RegistersCounted
      <3>2. ASSUME NEW r \in Used
            PROVE  /\ regTable'[r] \in Scalars
                   /\ addressTable'[regTable'[r]] = Register(r, FALSE)
                   /\ machine'.reg[r] = reference'.env[regTable'[r]]
        <4>1. regTable[r] \in Scalars /\ regTable[r] \in Names /\ addressTable[regTable[r]] = Register(r, FALSE)
          BY <3>1, NamesApart DEF OwnersRight
        <4>2. InRegister(regTable[r])
          BY <4>1 DEF InRegister, Register, At
        <4>3. machine'.reg = machine.reg
          BY <4>1, <4>2
        <4> QED
          BY <1>4, <3>1, <4>1, <4>2, <4>3 DEF OwnersRight
      <3>3. \A v \in Names : Held(v)' => regTable'[RegOf(v)'] = v
        BY <1>4, <1>5, <3>1 DEF OwnersRight
      <3>4. Used' \subseteq GPR
        BY <2>1, <3>1 DEF OwnersRight
      <3> QED
        BY <1>2, <2>1, <2>2, <3>2, <3>3, <3>4 DEF RegistersCounted, OwnersRight
    <2>3. CASE ~MaySpill(Block)
      BY <1>1, <1>2, <1>3, <2>1, <2>3, ClaimsStay, CountStays DEF StateFaithful, RegistersCounted
    <2> QED
      BY <2>2, <2>3
  <1> QED
    BY <1>6, <1>7, <1>8, <1>9, <1>10, <1>11, <1>12, <1>13, <1>14, <1>15 DEF StateFaithful

(* A value is computed into a register, of a name in the reference. *)
Computes(reg, d, val) ==
  /\ machine'.reg = [machine.reg EXCEPT ![reg] = val] /\ machine'.mem = machine.mem
  /\ machine'.heap = machine.heap /\ machine'.output = machine.output
  /\ reference'.env = [reference.env EXCEPT ![d] = val]
  /\ reference'.heap = reference.heap /\ reference'.output = reference.output
  /\ machine.flags = reference.flags => machine'.flags = reference'.flags

LEMMA SettingComputes ==
  ASSUME MachineTyped, NEW reg, NEW val, NEW d, SetsRegister(reg, val), reference' = Define(d, val)
  PROVE  Computes(reg, d, val)
  <1>1. /\ machine'.reg = [machine.reg EXCEPT ![reg] = val] /\ machine'.mem = machine.mem
        /\ machine'.heap = machine.heap /\ machine'.output = machine.output /\ machine'.flags = machine.flags
    BY DEF SetsRegister, MachineTyped
  <1>2. /\ reference'.env = [reference.env EXCEPT ![d] = val] /\ reference'.flags = reference.flags
        /\ reference'.heap = reference.heap /\ reference'.output = reference.output
    BY DEF Define, MachineTyped
  <1> QED
    BY <1>1, <1>2 DEF Computes


(* An instruction whose result takes a register in which nothing is left of use. *)
LEMMA WriteEffect ==
  ASSUME EffectInv, GoodBlock, stage = "registers", Emitted,
         NEW reg \in AllRegs, NEW val, NEW b \in BOOLEAN, NEW owner \in Names,
         NEW d \in UNION {Scalars, Consts, Temps},
         d = Inst.result, Computes(reg, d, val),
         regTable[reg] # Free, regTable' = [regTable EXCEPT ![reg] = owner],
         addressTable' \in [Names -> Location], addressTable'[d] = Register(reg, b),
         \A w \in Names \ {d} :
           addressTable'[w] = addressTable[w] \/ (w \in LargeCopies /\ addressTable'[w] = Global),
         globals \subseteq globals', d \in Scalars => d \in globals,
         IsPlace(val) <=> b, b => d \in Temps \intersect Places(Block),
         \A w \in Names \ {d} : Held(w) /\ Wanted(w)' => RegOf(w) # reg,
         MaySpill(Block) => owner = d /\ d \in Scalars /\ \A r \in Used : r # reg => regTable[r] # d
  PROVE  StateFaithful'
  <1>1. StateFaithful /\ TypeOK /\ MachineTyped
    BY Underway DEF EffectInv, TableInv
  <1>2. /\ Block' = Block /\ idx' = idx + 1 /\ stage' = "next" /\ Pending' = Later
        /\ blk' = blk /\ program' = program
        /\ Defined' = Defined \union {Inst.result}
        /\ Before(Block, idx)' = Before(Block, idx) \union Mentions(Inst)
        /\ Later \subseteq Pending
        /\ \A v : (IsUpdated(v)' <=> IsUpdated(v)) /\ (Wanted(v)' => Wanted(v) /\ v \notin Literals)
        /\ Inst.result # NoName => IsUpdated(Inst.result)
    BY EmittedWindow
  <1>3. /\ machine'.reg = [machine.reg EXCEPT ![reg] = val] /\ machine'.mem = machine.mem
        /\ machine'.heap = machine.heap /\ machine'.output = machine.output
        /\ machine'.reg[reg] = val
        /\ \A r \in AllRegs : r # reg => machine'.reg[r] = machine.reg[r]
    BY <1>1 DEF Computes, MachineTyped
  <1>4. d \in Names /\ d # NoName /\ d \notin Arrays /\ d \notin LargeCopies /\ d \in Mentions(Inst)
    BY NamesApart, OperandsMentioned
  <1>5. /\ reference'.env[d] = val
        /\ \A v \in Names \ {d} : reference'.env[v] = reference.env[v]
        /\ reference'.heap = reference.heap /\ reference'.output = reference.output
        /\ machine'.flags = reference'.flags
    BY <1>1, <1>4 DEF Computes, MachineTyped, StateFaithful, SameEffects
  <1>6. InRegister(d)' /\ RegOf(d)' = reg /\ Value(d)' = val /\ addressTable'[d].isAddress = b
    BY <1>3, LocationsApart DEF InRegister, RegOf, Value
  <1>7. ASSUME NEW w \in Names \ {d}, InRegister(w)'
        PROVE  /\ InRegister(w) /\ addressTable'[w] = addressTable[w] /\ RegOf(w)' = RegOf(w)
               /\ Held(w)' => Held(w) /\ Value(w)' = Value(w) /\ RegOf(w) # reg
               /\ RegOf(w) \in AllRegs
    <2>1. addressTable'[w] = addressTable[w]
      BY <1>7, LocationsApart DEF InRegister
    <2>2. InRegister(w) /\ RegOf(w)' = RegOf(w) /\ RegOf(w) \in AllRegs
      BY <1>1, <1>7, <2>1, RegisterTyped DEF InRegister, RegOf, TypeOK
    <2>3. Held(w)' => Held(w) /\ Wanted(w)'
      BY <1>2, <2>2 DEF Held
    <2> QED
      BY <1>3, <2>1, <2>2, <2>3 DEF Value
  <1>8. OnlyMentionedLocated'
    <2> SUFFICES ASSUME NEW v \in Names, InRegister(v)' PROVE v \in Before(Block, idx)'
      BY DEF OnlyMentionedLocated
    <2> QED
      BY <1>1, <1>2, <1>4, <1>7 DEF StateFaithful, OnlyMentionedLocated
  <1>9. LocatedAreDeclared'
    <2> SUFFICES ASSUME NEW v \in Scalars \union Arrays, InRegister(v)' PROVE v \in globals'
      BY DEF LocatedAreDeclared
    <2>1. v \in Names
      BY NamesApart
    <2> QED
      BY <1>1, <1>4, <1>7, <2>1 DEF StateFaithful, LocatedAreDeclared
  <1>10. ScalarsRight'
    <2> SUFFICES ASSUME NEW v \in Scalars
                 PROVE  /\ ~InRegister(v)' \/ ~IsUpdated(v)' => machine'.mem[v] = reference'.env[v]
                        /\ Held(v)' => ~addressTable'[v].isAddress /\ Value(v)' = reference'.env[v]
      BY DEF ScalarsRight
    <2>1. v \in Names /\ v \notin Temps
      BY NamesApart
    <2>2. CASE v = d
      BY <1>2, <1>4, <1>5, <1>6, <2>1, <2>2
    <2>3. CASE v # d
      <3>1. InRegister(v) => InRegister(v)'
        BY <2>1, <2>3, NamesApart DEF InRegister
      <3>2. ~InRegister(v)' \/ ~IsUpdated(v)' => machine'.mem[v] = reference'.env[v]
        BY <1>1, <1>2, <1>3, <1>5, <2>1, <2>3, <3>1 DEF StateFaithful, ScalarsRight
      <3>3. Held(v)' => InRegister(v)'
        BY DEF Held
      <3>4. Held(v)' => ~addressTable'[v].isAddress /\ Value(v)' = reference'.env[v]
        BY <1>1, <1>5, <1>7, <2>1, <2>3, <3>3 DEF StateFaithful, ScalarsRight
      <3> QED
        BY <3>2, <3>4
    <2> QED
      BY <2>2, <2>3
  <1>11. ValuesKept'
    <2> SUFFICES ASSUME NEW v \in (Temps \union Consts) \intersect Defined' \intersect Pending' PROVE Kept(v)'
      BY DEF ValuesKept
    <2>1. CASE v = d
      BY <1>5, <1>6, <2>1 DEF Kept
    <2>2. CASE v # d
      <3>1. v \in Names \ {d} /\ v \notin Literals /\ v \in Defined /\ v \in Pending /\ v \in Later /\ v \notin LargeCopies
        BY <1>2, <2>2, NamesApart
      <3>2. Kept(v) /\ InRegister(v)
        BY <1>1, <3>1 DEF StateFaithful, ValuesKept, Kept
      <3>3. Wanted(v)'
        BY <1>2, <3>1 DEF Wanted
      <3>4. InRegister(v)'
        BY <3>1, <3>2 DEF InRegister
      <3> QED
        BY <1>5, <1>7, <3>1, <3>2, <3>3, <3>4 DEF Kept, Held
    <2> QED
      BY <2>1, <2>2
  <1>12. ArraysAddressed'
    <2> SUFFICES ASSUME NEW v \in Arrays, Held(v)' PROVE addressTable'[v].isAddress /\ Value(v)' = AddressOf(v)
      BY DEF ArraysAddressed
    <2>1. v \in Names \ {d} /\ InRegister(v)'
      BY <1>4, NamesApart DEF Held
    <2> QED
      BY <1>1, <1>7, <2>1 DEF StateFaithful, ArraysAddressed
  <1>13. Unshared'
    <2> SUFFICES ASSUME NEW v \in Names, NEW w \in Names, Held(v)', Held(w)', v # w PROVE RegOf(v)' # RegOf(w)'
      BY DEF Unshared
    <2>1. InRegister(v)' /\ InRegister(w)'
      BY DEF Held
    <2>2. CASE v = d
      BY <1>6, <1>7, <2>1, <2>2
    <2>3. CASE w = d
      BY <1>6, <1>7, <2>1, <2>3
    <2>4. CASE v # d /\ w # d
      BY <1>1, <1>7, <2>1, <2>4 DEF StateFaithful, Unshared
    <2> QED
      BY <2>2, <2>3, <2>4
  <1>14. PlacesInPlace'
    <2> SUFFICES ASSUME NEW v \in Names, IsPlace(reference'.env[v]) PROVE v \in Temps \intersect Places(Block)
      BY <1>2 DEF PlacesInPlace
    <2> QED
      BY <1>1, <1>5 DEF StateFaithful, PlacesInPlace
  <1>15. SameEffects' /\ CopiesIntact'
    BY <1>1, <1>3, <1>5 DEF StateFaithful, SameEffects, CopiesIntact
  <1>16. FlagsUntouched' /\ LiteralsReady'
    BY <1>2, <1>4 DEF FlagsUntouched, LiteralsReady
  <1>17. RegistersCounted'
    <2>1. Used' = Used
      BY <1>1, NamesApart DEF Used, TypeOK
    <2>2. CASE MaySpill(Block)
      <3>1. OwnersRight
        BY <1>1, <2>2 DEF StateFaithful, RegistersCounted
      <3>2. owner = d /\ d \in Scalars /\ ~b
        BY <2>2, NamesApart
      <3>3. Used' \subseteq GPR
        BY <2>1, <3>1 DEF OwnersRight
      <3>4. ASSUME NEW r \in Used'
            PROVE  /\ regTable'[r] \in Scalars
                   /\ addressTable'[regTable'[r]] = Register(r, FALSE)
                   /\ machine'.reg[r] = reference'.env[regTable'[r]]
        <4>1. CASE r = reg
          BY <1>1, <1>3, <1>5, <3>2, <4>1 DEF TypeOK
        <4>2. CASE r # reg
          <5>1. r \in Used /\ r \in AllRegs /\ regTable'[r] = regTable[r]
            BY <1>1, <2>1, <4>2 DEF Used, TypeOK
          <5>2. regTable[r] \in Scalars /\ regTable[r] \in Names \ {d} /\ regTable[r] \notin LargeCopies
            BY <2>2, <3>1, <4>2, <5>1, NamesApart DEF OwnersRight
          <5>3. addressTable'[regTable[r]] = addressTable[regTable[r]]
            BY <5>2
          <5>4. machine'.reg[r] = machine.reg[r] /\ reference'.env[regTable[r]] = reference.env[regTable[r]]
            BY <1>3, <1>5, <4>2, <5>1, <5>2
          <5> QED
            BY <3>1, <5>1, <5>2, <5>3, <5>4 DEF OwnersRight
        <4> QED
          BY <4>1, <4>2
      <3>5. ASSUME NEW v \in Names, Held(v)' PROVE regTable'[RegOf(v)'] = v
        <4>1. InRegister(v)'
          BY <3>5 DEF Held
        <4>2. CASE v = d
          BY <1>1, <1>6, <3>2, <4>2 DEF TypeOK
        <4>3. CASE v # d
          <5>1. Held(v) /\ RegOf(v)' = RegOf(v) /\ RegOf(v) # reg /\ RegOf(v) \in AllRegs
            BY <1>7, <3>5, <4>1, <4>3
          <5> QED
            BY <1>1, <3>1, <5>1 DEF TypeOK, OwnersRight
        <4> QED
          BY <4>2, <4>3
      <3> QED
        BY <1>2, <2>2, <3>3, <3>4, <3>5 DEF RegistersCounted, OwnersRight
    <2>3. CASE ~MaySpill(Block)
      <3>1. \A v \in Names \ LargeCopies : InRegister(v) => InRegister(v)'
        <4> SUFFICES ASSUME NEW v \in Names \ LargeCopies, InRegister(v) PROVE InRegister(v)'
          OBVIOUS
        <4> QED
          BY <1>6 DEF InRegister
      <3> QED
        BY <1>1, <1>2, <2>1, <2>3, <3>1, ClaimsStay, CountStays DEF StateFaithful, RegistersCounted
    <2> QED
      BY <2>2, <2>3
  <1> QED
    BY <1>8, <1>9, <1>10, <1>11, <1>12, <1>13, <1>14, <1>15, <1>16, <1>17 DEF StateFaithful

(* The requests and answers of an instruction, by operation. *)
LEMMA Answers ==
  ASSUME EffectInv, GoodBlock, stage = "registers"
  PROVE  /\ Inst.op \in Arithmetic => FirstOperandAnswered(TRUE)
         /\ Inst.op \in Comparisons => FirstOperandAnswered(FALSE)
         /\ Inst.op \in {"ARRAY_INDEX", "VLOAD", "VSTORE"} => IndexAnswered
         /\ Inst.op = "ASSIGN" /\ Inst.arg1 # NoName => CopyAnswered
         /\ Inst.op \in {"VADD", "VSUB"} => VectorAnswered
         /\ Inst.op = "VASSIGN" => VectorAssignAnswered
         /\ Inst.op \in Jumps \union {"LABEL", "CALL", "ENTER_PROC", "EXIT_PROC", "NOP", "WRITE"}
              \/ IsDeclaration(Inst) => requests = <<>> /\ got = <<>>
  BY Underway DEF AnswersRight, Arithmetic, Comparisons, Jumps, ConditionalJumps, IsDeclaration

(* In a good block that may spill only scalars are in registers. *)
LEMMA SpillingBlock ==
  ASSUME EffectInv, GoodBlock, idx <= Len(Block), MaySpill(Block)
  PROVE  /\ InRegisters(Inst) \subseteq Scalars /\ Inst.result \notin Temps
         /\ Inst.op \in Sums => Inst.result \notin Before(Block, idx) \ {Inst.arg1}
         /\ OwnersRight
  <1>1. TypeOK /\ StateFaithful
    BY DEF EffectInv, Inv, Faithful
  <1>2. idx \in 1 .. Len(Block) /\ Inst = Block[idx]
    BY <1>1, AtHand
  <1> QED
    BY <1>1, <1>2 DEF MaySpill, StateFaithful, RegistersCounted

(* The register of a name that has been answered for. *)
LEMMA AnsweredRegister ==
  ASSUME EffectInv, GoodBlock, stage = "registers", NEW n \in {1, 2, 3}, NEW v \in Names, Answered(n, v)
  PROVE  /\ got[n] \in AllRegs /\ regTable[got[n]] # Free /\ machine.reg[got[n]] = Value(v)
         /\ Wanted(v) => \A w \in Names : Held(w) /\ w # v => RegOf(w) # got[n]
  <1>1. InRegister(v) /\ RegOf(v) = got[n]
    BY DEF Answered
  <1>2. TypeOK /\ LocatedRegistersAreTaken /\ Unshared
    BY Underway DEF EffectInv, Inv, StateFaithful
  <1>3. got[n] \in AllRegs
    BY <1>1, <1>2, RegisterTyped DEF TypeOK, InRegister, RegOf
  <1>4. regTable[got[n]] # Free
    BY <1>1, <1>2 DEF LocatedRegistersAreTaken, RegOf
  <1> QED
    BY <1>1, <1>2, <1>3, <1>4 DEF Value, Unshared, Held

LEMMA ArithmeticFaithful == ASSUME EffectInv, GoodBlock, EmitArithmetic PROVE StateFaithful'
  <1>1. /\ stage = "registers" /\ requests = <<>> /\ Inst.op \in Arithmetic /\ Emitted
    BY DEF EmitArithmetic, Emitting
  <1>2. TypeOK /\ idx <= Len(Block) /\ OfAKind(Inst) /\ Inst \in Instruction
    BY <1>1, Underway, AtHand
  <1>3. /\ Inst.arg1 \in Values /\ Inst.arg2 \in Values /\ Inst.result \in Scalars \union Temps /\ Inst.op # "DIV"
        /\ Inst.op # "VASSIGN" /\ Inst.op \in Sums /\ Inst.op # "ASSIGN"
    BY <1>1, <1>2 DEF OfAKind, Arithmetic, Sums
  <1>4. /\ Inst.arg1 \in Names /\ Inst.arg1 \in Operands(Inst) /\ Inst.arg2 \in Operands(Inst)
        /\ Inst.result \in Names /\ Inst.result \in Mentions(Inst) /\ Inst.arg1 \in Mentions(Inst)
    BY <1>3, NamesApart, OperandsMentioned DEF Values
  <1>5. Len(got) = 1 /\ Answered(1, Inst.arg1) /\ Loaded(Inst.arg1)
    BY <1>1, Answers DEF FirstOperandAnswered
  <1>6. Wanted(Inst.arg1)
    BY <1>1, <1>4, WantedOperand
  <1>7. /\ got[1] \in AllRegs /\ regTable[got[1]] # Free /\ machine.reg[got[1]] = Value(Inst.arg1)
        /\ \A w \in Names : Held(w) /\ w # Inst.arg1 => RegOf(w) # got[1]
    BY <1>1, <1>4, <1>5, <1>6, AnsweredRegister
  <1> DEFINE val == <<Inst.op, machine.reg[got[1]], Operand(Inst.arg2)>>
  <1>8. machine' = [machine EXCEPT !.reg[got[1]] = val, !.flags = Junk] /\ Holds(got[1], Inst.result, FALSE)
    BY <1>3 DEF EmitArithmetic
  <1>9. val = <<Inst.op, Meaning(Inst.arg1), Meaning(Inst.arg2)>>
    BY <1>1, <1>3, <1>4, <1>5, <1>7, OperandMeans DEF Loaded
  <1>10. reference' = [Define(Inst.result, val) EXCEPT !.flags = Junk]
    BY <1>1, <1>9, InterpretedSum DEF Emitted
  <1>11. ~IsPlace(val)
    BY <1>1 DEF IsPlace, Arithmetic
  <1> HIDE DEF val
  <1>12. ASSUME NEW w \in Names \ {Inst.result}, Held(w), Wanted(w)' PROVE RegOf(w) # got[1]
    <2>1. CASE w = Inst.arg1
      <3>1. w \in Later \/ (w \in Scalars /\ IsUpdated(w))
        BY <1>1, <1>12, EmittedWindow
      <3>2. w \notin Literals
        BY <1>1, <1>12, EmittedWindow
      <3> QED
        BY <1>2, <1>3, <1>12, <2>1, <3>1, <3>2, FirstOperandConsumed
    <2> QED
      BY <1>7, <1>12, <2>1
  <1>13. MaySpill(Block) => /\ Inst.result \in Scalars
                            /\ \A r \in Used : r # got[1] => regTable[r] # Inst.result
    <2> SUFFICES ASSUME MaySpill(Block), NEW r \in Used, r # got[1], regTable[r] = Inst.result PROVE FALSE
      BY <1>2, <1>3, SpillingBlock
    <2>1. /\ Inst.result \notin Before(Block, idx) \ {Inst.arg1} /\ OwnersRight
      BY <1>2, <1>3, SpillingBlock
    <2>2. addressTable[Inst.result] = Register(r, FALSE)
      BY <2>1 DEF OwnersRight
    <2>3. InRegister(Inst.result) /\ RegOf(Inst.result) = r
      BY <2>2 DEF InRegister, RegOf, Register, At
    <2>4. OnlyMentionedLocated
      BY <1>1, Underway DEF StateFaithful
    <2>5. \/ Inst.result \in Before(Block, idx)
          \/ \E n \in 1 .. Len(got) : got[n] = RegOf(Inst.result)
      BY <1>4, <2>3, <2>4 DEF OnlyMentionedLocated
    <2>6. ~\E n \in 1 .. Len(got) : got[n] = RegOf(Inst.result)
      BY <1>5, <2>3
    <2>7. Inst.result = Inst.arg1
      BY <2>1, <2>5, <2>6
    <2> QED
      BY <1>5, <2>3, <2>7 DEF Answered
  <1>14. /\ regTable' = [regTable EXCEPT ![got[1]] = Inst.result]
         /\ addressTable' = [addressTable EXCEPT ![Inst.result] = Register(got[1], FALSE)]
         /\ globals' = globals
    BY <1>8 DEF Holds
  <1>15. /\ addressTable' \in [Names -> Location] /\ addressTable'[Inst.result] = Register(got[1], FALSE)
         /\ \A w \in Names \ {Inst.result} : addressTable'[w] = addressTable[w]
    BY <1>2, <1>4, <1>7, <1>14, LocationsTyped DEF TypeOK
  <1>16. Inst.result \in Scalars => Inst.result \in globals
    BY <1>1, <1>2, <1>3, <1>4, DeclaredHere DEF IsDeclaration
  <1>17. Computes(got[1], Inst.result, val)
    <2>1. MachineTyped
      BY DEF EffectInv, TableInv
    <2>2. /\ machine'.reg = [machine.reg EXCEPT ![got[1]] = val] /\ machine'.mem = machine.mem
          /\ machine'.heap = machine.heap /\ machine'.output = machine.output /\ machine'.flags = Junk
      BY <1>8, <2>1 DEF MachineTyped
    <2>3. /\ reference'.env = [reference.env EXCEPT ![Inst.result] = val] /\ reference'.flags = Junk
          /\ reference'.heap = reference.heap /\ reference'.output = reference.output
      BY <1>10, <2>1 DEF Define, MachineTyped
    <2> QED
      BY <2>2, <2>3 DEF Computes
  <1> DEFINE reg == got[1]
             d == Inst.result
  <1>18. /\ d = Inst.result /\ d \in UNION {Scalars, Consts, Temps} /\ Computes(reg, d, val)
         /\ reg \in AllRegs /\ regTable[reg] # Free /\ regTable' = [regTable EXCEPT ![reg] = d] /\ d \in Names
         /\ addressTable' \in [Names -> Location] /\ addressTable'[d] = Register(reg, FALSE)
         /\ globals \subseteq globals' /\ (d \in Scalars => d \in globals)
    BY <1>3, <1>4, <1>7, <1>14, <1>15, <1>16, <1>17
  <1>19. \A w \in Names \ {d} : addressTable'[w] = addressTable[w]
    BY <1>15
  <1>20. /\ \A w \in Names \ {d} : Held(w) /\ Wanted(w)' => RegOf(w) # reg
         /\ MaySpill(Block) => d \in Scalars /\ \A r \in Used : r # reg => regTable[r] # d
    BY <1>12, <1>13
  <1> HIDE DEF reg, d
  <1> QED
    BY <1>1, <1>11, <1>18, <1>19, <1>20, WriteEffect

LEMMA ElementFaithful == ASSUME EffectInv, GoodBlock, EmitArrayIndex \/ EmitVectorLoad PROVE StateFaithful'
  <1>1. /\ stage = "registers" /\ requests = <<>> /\ Inst.op \in {"ARRAY_INDEX", "VLOAD"} /\ Emitted
    BY DEF EmitArrayIndex, EmitVectorLoad, Emitting
  <1>2. TypeOK /\ idx \in 1 .. Len(Block) /\ idx <= Len(Block) /\ OfAKind(Inst) /\ Inst = Block[idx] /\ SameEffects
    BY <1>1, Underway, AtHand DEF StateFaithful
  <1>3. Inst.arg1 \in Arrays /\ Inst.arg2 \in Values /\ Inst.result \in Temps
    BY <1>1, <1>2 DEF OfAKind
  <1>4. /\ Inst.arg1 \in Names /\ Inst.arg2 \in Names /\ Inst.result \in Names
        /\ Inst.result \notin Literals /\ Inst.result \notin Scalars /\ Inst.result \in Mentions(Inst)
    BY <1>3, NamesApart, OperandsMentioned DEF Values
  <1>5. /\ Len(got) = 3
        /\ Answered(1, Inst.arg2) /\ Loaded(Inst.arg2)
        /\ Answered(2, Inst.arg1) /\ Value(Inst.arg1) = AddressOf(Inst.arg1)
        /\ Answered(3, Inst.result)
    <2>1. IndexAnswered
      BY <1>1, Answers
    <2>2. Len(got) = 3
      BY <1>1, <2>1 DEF IndexAnswered, IndexAndArray
    <2> QED
      BY <2>1, <2>2 DEF IndexAnswered
  <1>6. Wanted(Inst.result)
    BY <1>1, <1>4, WantedOperand
  <1>7. /\ got[3] \in AllRegs /\ regTable[got[3]] # Free
        /\ \A w \in Names : Held(w) /\ w # Inst.result => RegOf(w) # got[3]
        /\ machine.reg[got[1]] = Value(Inst.arg2) /\ machine.reg[got[2]] = Value(Inst.arg1)
    BY <1>1, <1>4, <1>5, <1>6, AnsweredRegister
  <1> DEFINE place == Element(machine.reg[got[2]], machine.reg[got[1]])
             isAddress == Inst.op = "ARRAY_INDEX"
             val == IF isAddress THEN place ELSE Load(place, machine.heap)
  <1>8. SetsRegister(got[3], val) /\ Holds(got[3], Inst.result, isAddress)
    <2>1. CASE EmitArrayIndex
      <3>1. isAddress = TRUE
        BY <2>1 DEF EmitArrayIndex, Emitting
      <3> QED
        BY <2>1, <3>1 DEF EmitArrayIndex
    <2>2. CASE EmitVectorLoad
      <3>1. isAddress = FALSE
        BY <2>2 DEF EmitVectorLoad, Emitting
      <3> QED
        BY <2>2, <3>1 DEF EmitVectorLoad
    <2> QED
      BY <2>1, <2>2
  <1>9. place = Element(AddressOf(Inst.arg1), Meaning(Inst.arg2)) /\ machine.heap = reference.heap
    BY <1>2, <1>5, <1>7 DEF Loaded, SameEffects
  <1>10. reference' = Define(Inst.result, val)
    BY <1>1, <1>3, <1>9, InterpretedElement DEF Emitted
  <1>11. (IsPlace(val) <=> isAddress) /\ isAddress \in BOOLEAN
    BY DEF IsPlace, Element, Load
  <1>12. isAddress => Inst.result \in Temps \intersect Places(Block)
    BY <1>2, <1>3 DEF Places
  <1>13. ~MaySpill(Block)
    BY <1>2, <1>3, SpillingBlock
  <1> HIDE DEF isAddress, val
  <1>14. /\ regTable' = [regTable EXCEPT ![got[3]] = Inst.result]
         /\ addressTable' = [addressTable EXCEPT ![Inst.result] = Register(got[3], isAddress)]
         /\ globals' = globals
    BY <1>8 DEF Holds
  <1>15. /\ addressTable' \in [Names -> Location] /\ addressTable'[Inst.result] = Register(got[3], isAddress)
         /\ \A w \in Names \ {Inst.result} : addressTable'[w] = addressTable[w]
    BY <1>2, <1>4, <1>7, <1>11, <1>14, LocationsTyped DEF TypeOK
  <1>16. Computes(got[3], Inst.result, val)
    BY <1>8, <1>10, SettingComputes DEF EffectInv, TableInv
  <1> DEFINE reg == got[3]
             d == Inst.result
  <1>17. /\ d = Inst.result /\ d \in UNION {Scalars, Consts, Temps} /\ Computes(reg, d, val)
         /\ reg \in AllRegs /\ regTable[reg] # Free /\ regTable' = [regTable EXCEPT ![reg] = d] /\ d \in Names
         /\ addressTable' \in [Names -> Location] /\ addressTable'[d] = Register(reg, isAddress)
         /\ globals \subseteq globals' /\ (d \in Scalars => d \in globals)
    BY <1>3, <1>4, <1>7, <1>14, <1>15, <1>16, NamesApart
  <1>18. \A w \in Names \ {d} : addressTable'[w] = addressTable[w]
    BY <1>15
  <1>19. /\ \A w \in Names \ {d} : Held(w) /\ Wanted(w)' => RegOf(w) # reg
         /\ MaySpill(Block) => d \in Scalars /\ \A r \in Used : r # reg => regTable[r] # d
    BY <1>7, <1>13
  <1> HIDE DEF reg, d
  <1> QED
    BY <1>1, <1>11, <1>12, <1>17, <1>18, <1>19, WriteEffect

LEMMA FirstExpendable ==
  ASSUME EffectInv, GoodBlock, idx <= Len(Block), Inst.op \in {"VADD", "VSUB"}
  PROVE  Expendable(Inst.arg1) /\ Inst.arg1 # Inst.result /\ Inst.arg1 \notin Later
  <1>1. TypeOK
    BY DEF EffectInv, Inv
  <1>2. /\ idx \in 1 .. Len(Block) /\ Inst = Block[idx] /\ OfAKind(Inst)
        /\ Operands(Inst) \intersect (Temps \union Consts) \subseteq Defined
    BY <1>1, AtHand
  <1>3. Inst.arg1 \in Temps /\ Inst.result \in Temps
    BY <1>2 DEF OfAKind
  <1>4. Inst.arg1 \in Defined /\ Inst.result \notin Defined
    BY <1>1, <1>2, <1>3, NamesApart, NewTemporary, OperandsMentioned DEF Defined
  <1>5. Inst.arg1 \notin Later
    BY <1>1, <1>3, <1>4, NamesApart, FirstOperandConsumed DEF Sums
  <1>6. ~HasNextUse(Inst.arg1)
    BY <1>5 DEF HasNextUse, Later, After, Mentions
  <1> QED
    BY <1>3, <1>4, <1>5, <1>6 DEF Expendable, IsLive

LEMMA VectorFaithful == ASSUME EffectInv, GoodBlock, EmitVector PROVE StateFaithful'
  <1>1. /\ stage = "registers" /\ requests = <<>> /\ Inst.op \in {"VADD", "VSUB"} /\ Emitted
    BY DEF EmitVector, Emitting
  <1>2. TypeOK /\ idx <= Len(Block) /\ OfAKind(Inst)
    BY <1>1, Underway, AtHand
  <1>3. Inst.arg1 \in Temps /\ Inst.arg2 \in Temps /\ Inst.result \in Temps
    BY <1>1, <1>2 DEF OfAKind
  <1>4. /\ Inst.arg1 \in Names /\ Inst.arg2 \in Names /\ Inst.result \in Names
        /\ Inst.arg1 \in Operands(Inst) /\ Inst.arg2 \in Operands(Inst) /\ Inst.arg1 \in Mentions(Inst)
        /\ Inst.arg1 \notin Literals /\ Inst.arg1 \notin Scalars /\ Inst.result \notin Scalars
    BY <1>3, NamesApart, OperandsMentioned
  <1>5. Len(got) = 2 /\ Answered(1, Inst.arg1) /\ Answered(2, Inst.arg2)
    BY <1>1, Answers DEF VectorAnswered
  <1>6. Expendable(Inst.arg1) /\ Inst.arg1 # Inst.result /\ Inst.arg1 \notin Later
    BY <1>1, <1>2, FirstExpendable
  <1>7. Wanted(Inst.arg1)
    BY <1>1, <1>4, WantedOperand
  <1>8. /\ got[1] \in AllRegs /\ regTable[got[1]] # Free
        /\ \A w \in Names : Held(w) /\ w # Inst.arg1 => RegOf(w) # got[1]
        /\ machine.reg[got[1]] = Value(Inst.arg1) /\ machine.reg[got[2]] = Value(Inst.arg2)
    BY <1>1, <1>4, <1>5, <1>7, AnsweredRegister
  <1> DEFINE val == IF Inst.op = "VADD" THEN <<"VADD", machine.reg[got[1]], machine.reg[got[2]]>>
                                        ELSE <<"VSUB", machine.reg[got[2]], machine.reg[got[1]]>>
  <1>9. SetsRegister(got[1], val) /\ Holds(got[1], Inst.result, FALSE)
    BY <1>6 DEF EmitVector
  <1>10. /\ ~addressTable[Inst.arg1].isAddress /\ ~addressTable[Inst.arg2].isAddress
         /\ Value(Inst.arg1) = Meaning(Inst.arg1) /\ Value(Inst.arg2) = Meaning(Inst.arg2)
    <2>1. ASSUME NEW v \in Operands(Inst), v \in Temps \ Places(Block)
          PROVE  ~addressTable[v].isAddress /\ Value(v) = Meaning(v)
      <3>1. Kept(v) \/ Loaded(v)
        BY <1>1, <2>1, DefinedOperand
      <3>2. ~IsPlace(reference.env[v]) /\ Meaning(v) = reference.env[v]
        BY <1>1, <2>1, NamesApart, NoPlace, Underway DEF StateFaithful
      <3> QED
        BY <3>1, <3>2 DEF Kept, Loaded
    <2>2. Inst.arg1 \in Temps \ Places(Block) /\ Inst.arg2 \in Temps \ Places(Block)
      BY <1>1, <1>2 DEF OfAKind
    <2> QED
      BY <1>4, <2>1, <2>2
  <1>11. reference' = Define(Inst.result, val)
    <2>1. reference' = Define(Inst.result, <<Inst.op, Meaning(Inst.arg1), Meaning(Inst.arg2)>>)
      BY <1>1, InterpretedSum DEF Emitted
    <2>2. Inst.op = "VSUB" => Inst.arg1 = Inst.arg2
      BY <1>2 DEF OfAKind
    <2>3. val = <<Inst.op, Meaning(Inst.arg1), Meaning(Inst.arg2)>>
      BY <1>1, <1>8, <1>10, <2>2
    <2> QED
      BY <2>1, <2>3
  <1>12. ~IsPlace(val)
    BY <1>1 DEF IsPlace
  <1> HIDE DEF val
  <1>13. ASSUME NEW w \in Names \ {Inst.result}, Held(w), Wanted(w)' PROVE RegOf(w) # got[1]
    BY <1>1, <1>4, <1>6, <1>8, <1>13, EmittedWindow
  <1>14. ~MaySpill(Block)
    BY <1>2, <1>3, SpillingBlock
  <1>15. /\ regTable' = [regTable EXCEPT ![got[1]] = Inst.result]
         /\ addressTable' = [addressTable EXCEPT ![Inst.result] = Register(got[1], FALSE)]
         /\ globals' = globals
    BY <1>9 DEF Holds
  <1>16. /\ addressTable' \in [Names -> Location] /\ addressTable'[Inst.result] = Register(got[1], FALSE)
         /\ \A w \in Names \ {Inst.result} : addressTable'[w] = addressTable[w]
    BY <1>2, <1>4, <1>8, <1>15, LocationsTyped DEF TypeOK
  <1>17. Computes(got[1], Inst.result, val)
    BY <1>9, <1>11, SettingComputes DEF EffectInv, TableInv
  <1> DEFINE reg == got[1]
             d == Inst.result
  <1>18. /\ d = Inst.result /\ d \in UNION {Scalars, Consts, Temps} /\ Computes(reg, d, val)
         /\ reg \in AllRegs /\ regTable[reg] # Free /\ regTable' = [regTable EXCEPT ![reg] = d] /\ d \in Names
         /\ addressTable' \in [Names -> Location] /\ addressTable'[d] = Register(reg, FALSE)
         /\ globals \subseteq globals' /\ (d \in Scalars => d \in globals)
    BY <1>3, <1>4, <1>8, <1>15, <1>16, <1>17
  <1>19. \A w \in Names \ {d} : addressTable'[w] = addressTable[w]
    BY <1>16
  <1>20. /\ \A w \in Names \ {d} : Held(w) /\ Wanted(w)' => RegOf(w) # reg
         /\ MaySpill(Block) => d \in Scalars /\ \A r \in Used : r # reg => regTable[r] # d
    BY <1>13, <1>14
  <1> HIDE DEF reg, d
  <1> QED
    BY <1>1, <1>12, <1>18, <1>19, <1>20, WriteEffect

LEMMA VectorAssignFaithful == ASSUME EffectInv, GoodBlock, EmitVectorAssign PROVE StateFaithful'
  <1>1. /\ stage = "registers" /\ requests = <<>> /\ Inst.op = "VASSIGN" /\ Emitted
    BY DEF EmitVectorAssign, Emitting
  <1>2. TypeOK /\ idx <= Len(Block) /\ OfAKind(Inst) /\ CopiesIntact
    BY <1>1, Underway, AtHand DEF StateFaithful
  <1>3. Inst.arg1 \in Literals /\ Inst.result \in Temps
    BY <1>1, <1>2 DEF OfAKind
  <1>4. /\ Inst.arg1 \in Names /\ Inst.result \in Names /\ Inst.result \in Mentions(Inst)
        /\ Inst.result \notin Literals /\ Inst.result \notin Scalars /\ Inst.result \notin LargeCopies
        /\ LargeImmediate[Inst.arg1] \in LargeCopies
    BY <1>3, NamesApart, OperandsMentioned DEF LargeCopies
  <1>5. got[1] = NoReg /\ Answered(2, Inst.result)
    <2>1. VectorAssignAnswered
      BY <1>1, Answers
    <2> QED
      BY <1>1, <2>1 DEF VectorAssignAnswered
  <1>6. Wanted(Inst.result)
    BY <1>1, <1>4, WantedOperand
  <1>7. /\ got[2] \in AllRegs /\ regTable[got[2]] # Free
        /\ \A w \in Names : Held(w) /\ w # Inst.result => RegOf(w) # got[2]
    BY <1>1, <1>4, <1>5, <1>6, AnsweredRegister
  <1> DEFINE large == {LargeImmediate[Inst.arg1]}
             val == machine.mem[LargeImmediate[Inst.arg1]]
  <1>8. /\ SetsRegister(got[2], val)
        /\ globals' = globals \union large
        /\ addressTable' = [v \in Names |-> IF v = Inst.result THEN Register(got[2], FALSE)
                                             ELSE IF v \in large THEN Global
                                             ELSE addressTable[v]]
        /\ regTable' = [regTable EXCEPT ![got[2]] = Inst.arg1]
    BY <1>5 DEF EmitVectorAssign
  <1>9. val = <<"initially", LargeImmediate[Inst.arg1]>>
    BY <1>2, <1>4 DEF CopiesIntact
  <1>10. reference' = Define(Inst.result, val)
    BY <1>1, <1>3, <1>9, InterpretedVector DEF Emitted
  <1>11. ~IsPlace(val)
    BY <1>9 DEF IsPlace
  <1> HIDE DEF val
  <1>12. ~MaySpill(Block)
    BY <1>2, <1>3, SpillingBlock
  <1>13. /\ addressTable' \in [Names -> Location] /\ addressTable'[Inst.result] = Register(got[2], FALSE)
         /\ \A w \in Names \ {Inst.result} :
              addressTable'[w] = addressTable[w] \/ (w \in LargeCopies /\ addressTable'[w] = Global)
    BY <1>2, <1>4, <1>7, <1>8, LocationsTyped DEF TypeOK
  <1>14. Computes(got[2], Inst.result, val)
    BY <1>8, <1>10, SettingComputes DEF EffectInv, TableInv
  <1> DEFINE reg == got[2]
             d == Inst.result
  <1>15. /\ d = Inst.result /\ d \in UNION {Scalars, Consts, Temps} /\ Computes(reg, d, val)
         /\ reg \in AllRegs /\ regTable[reg] # Free /\ regTable' = [regTable EXCEPT ![reg] = Inst.arg1] /\ Inst.arg1 \in Names
         /\ addressTable' \in [Names -> Location] /\ addressTable'[d] = Register(reg, FALSE)
         /\ globals \subseteq globals' /\ (d \in Scalars => d \in globals)
    BY <1>3, <1>4, <1>7, <1>8, <1>13, <1>14
  <1>16. \A w \in Names \ {d} : addressTable'[w] = addressTable[w] \/ (w \in LargeCopies /\ addressTable'[w] = Global)
    BY <1>13
  <1>17. /\ \A w \in Names \ {d} : Held(w) /\ Wanted(w)' => RegOf(w) # reg
         /\ MaySpill(Block) => Inst.arg1 = d /\ d \in Scalars /\ \A r \in Used : r # reg => regTable[r] # d
    BY <1>7, <1>12
  <1> HIDE DEF reg, d
  <1> QED
    BY <1>1, <1>11, <1>15, <1>16, <1>17, WriteEffect

(* An instruction that only stores, writes or compares leaves the variables alone. *)
LEMMA EffectOnly ==
  ASSUME EffectInv, GoodBlock, stage = "registers", Emitted, UNCHANGED tables,
         machine'.reg = machine.reg, machine'.mem = machine.mem, reference'.env = reference.env,
         Inst.result \in Temps \union Consts => Inst.result \in Defined,
         SameEffects', FlagsUntouched'
  PROVE  StateFaithful'
  <1>1. UNCHANGED <<regTable, addressTable, globals, stack>>
    BY DEF tables
  <1>2. \A w \in Scalars : ~IsPlace(reference.env[w])
    BY Underway, NoPlace, NamesApart DEF StateFaithful
  <1> QED
    BY <1>1, <1>2, QuietEffect

LEMMA ConditionalFaithful == ASSUME EffectInv, GoodBlock, EmitConditional PROVE StateFaithful'
  <1>1. /\ stage = "registers" /\ requests = <<>> /\ Inst.op \in Comparisons /\ Emitted /\ UNCHANGED tables
    BY DEF EmitConditional, Emitting
  <1>2. TypeOK /\ idx <= Len(Block) /\ OfAKind(Inst) /\ SameEffects /\ MachineTyped
    BY <1>1, Underway, AtHand DEF StateFaithful, EffectInv, TableInv
  <1>3. Inst.arg1 \in Values /\ Inst.arg2 \in Values /\ Inst.result = NoName
    BY <1>1, <1>2 DEF OfAKind
  <1>4. /\ Inst.arg1 \in Names /\ Inst.arg1 \in Operands(Inst) /\ Inst.arg2 \in Operands(Inst)
        /\ Inst.arg1 \in Mentions(Inst) /\ Inst.result \notin Temps \union Consts
    BY <1>3, NamesApart, OperandsMentioned DEF Values
  <1>5. Answered(1, Inst.arg1) /\ Loaded(Inst.arg1)
    BY <1>1, Answers DEF FirstOperandAnswered
  <1>6. machine.reg[got[1]] = Meaning(Inst.arg1) /\ Operand(Inst.arg2) = Meaning(Inst.arg2)
    BY <1>1, <1>3, <1>4, <1>5, AnsweredRegister, OperandMeans DEF Loaded
  <1> DEFINE compared == <<"compare", Meaning(Inst.arg1), Meaning(Inst.arg2)>>
  <1>7. machine' = [machine EXCEPT !.flags = compared]
    BY <1>3, <1>6 DEF EmitConditional, HasResult
  <1>8. reference' = [reference EXCEPT !.flags = compared]
    BY <1>1, <1>3, InterpretedComparison DEF Emitted, HasResult
  <1> HIDE DEF compared
  <1>9. /\ machine'.reg = machine.reg /\ machine'.mem = machine.mem /\ reference'.env = reference.env
        /\ SameEffects'
    BY <1>2, <1>7, <1>8 DEF SameEffects, MachineTyped
  <1>10. FlagsUntouched'
    BY <1>1, <1>4, EmittedWindow DEF FlagsUntouched
  <1> QED
    BY <1>1, <1>4, <1>9, <1>10, EffectOnly

(* What is written is written before any vector register is taken. *)
LEMMA NoVectorInUse ==
  ASSUME EffectInv, GoodBlock, stage = "registers", Inst.op = "WRITE"
  PROVE  Used \subseteq GPR
  <1>1. TypeOK /\ idx <= Len(Block) /\ ScalarOnly
    BY Underway DEF EffectInv, Inv
  <1>2. Handled(Block, idx) /\ Inst = Block[idx] /\ idx \in Nat
    BY <1>1, AtHand
  <1>3. \A j \in 1 .. Len(Block) : j <= idx => Block[j].op \notin VectorOperations
    <2> SUFFICES ASSUME NEW j \in 1 .. Len(Block), j <= idx PROVE Block[j].op \notin VectorOperations
      OBVIOUS
    <2>1. CASE j = idx
      BY <1>2, <2>1 DEF VectorOperations
    <2>2. CASE j # idx
      <3>1. j \in 1 .. idx - 1
        BY <1>2, <2>2
      <3> QED
        BY <1>2, <3>1 DEF Handled
    <2> QED
      BY <2>1, <2>2
  <1>4. ~VectorsBegun
    BY <1>3 DEF VectorsBegun
  <1> QED
    BY <1>1, <1>4 DEF ScalarOnly, Used, AllRegs

LEMMA WriteFaithful == ASSUME EffectInv, GoodBlock, EmitWrite PROVE StateFaithful'
  <1>1. /\ stage = "registers" /\ requests = <<>> /\ Inst.op = "WRITE" /\ Emitted /\ UNCHANGED tables
    BY DEF EmitWrite, Emitting
  <1>2. TypeOK /\ idx <= Len(Block) /\ OfAKind(Inst) /\ SameEffects /\ MachineTyped
    BY <1>1, Underway, AtHand DEF StateFaithful, EffectInv, TableInv
  <1>3. Inst.arg1 \in Values /\ Inst.result = NoName
    BY <1>1, <1>2 DEF OfAKind
  <1>4. Inst.arg1 \in Operands(Inst) /\ Inst.arg1 \in Mentions(Inst) /\ Inst.result \notin Temps \union Consts
    BY <1>3, NamesApart, OperandsMentioned DEF Values
  <1>5. Operand(Inst.arg1) = Meaning(Inst.arg1)
    BY <1>1, <1>3, <1>4, OperandMeans
  <1>6. machine' = [machine EXCEPT !.output = Append(@, Meaning(Inst.arg1)), !.flags = Junk]
    <2>1. Used \subseteq GPR
      BY <1>1, NoVectorInUse
    <2> QED
      BY <1>5, <2>1 DEF EmitWrite
  <1>7. reference' = [reference EXCEPT !.output = Append(@, Meaning(Inst.arg1)), !.flags = Junk]
    BY <1>1, InterpretedOutput DEF Emitted
  <1>8. /\ machine'.reg = machine.reg /\ machine'.mem = machine.mem /\ reference'.env = reference.env
        /\ SameEffects'
    BY <1>2, <1>6, <1>7 DEF SameEffects, MachineTyped
  <1>9. FlagsUntouched'
    BY <1>1, <1>4, EmittedWindow DEF FlagsUntouched
  <1> QED
    BY <1>1, <1>4, <1>8, <1>9, EffectOnly

LEMMA StoreFaithful == ASSUME EffectInv, GoodBlock, EmitVectorStore PROVE StateFaithful'
  <1>1. /\ stage = "registers" /\ requests = <<>> /\ Inst.op = "VSTORE" /\ Emitted /\ UNCHANGED tables
    BY DEF EmitVectorStore, Emitting
  <1>2. /\ TypeOK /\ idx \in 1 .. Len(Block) /\ idx <= Len(Block) /\ OfAKind(Inst) /\ SameEffects /\ MachineTyped
        /\ Inst = Block[idx] /\ InOrder(program, blk, idx) /\ program[blk] = Block
        /\ Inst.result # NoName => Inst.result \in Pending
    BY <1>1, Underway, AtHand DEF StateFaithful, EffectInv, TableInv
  <1>3. /\ Inst.arg1 \in Arrays /\ Inst.arg2 \in Values /\ Inst.result \in Temps \ Places(Block)
    BY <1>1, <1>2 DEF OfAKind
  <1>4. /\ Inst.arg1 \in Names /\ Inst.arg2 \in Names /\ Inst.result \in Names /\ Inst.result \in Mentions(Inst)
        /\ Inst.result # NoName
    BY <1>3, NamesApart, OperandsMentioned DEF Values
  <1>5. Inst.result \in Defined
    BY <1>1, <1>2, <1>3 DEF InOrder, Defined
  <1>6. /\ Len(got) = 3
        /\ Answered(1, Inst.arg2) /\ Loaded(Inst.arg2)
        /\ Answered(2, Inst.arg1) /\ Value(Inst.arg1) = AddressOf(Inst.arg1)
        /\ Answered(3, Inst.result)
    <2>1. IndexAnswered
      BY <1>1, Answers
    <2>2. Len(got) = 3
      BY <1>1, <2>1 DEF IndexAnswered, IndexAndArray
    <2> QED
      BY <2>1, <2>2 DEF IndexAnswered
  <1>7. /\ machine.reg[got[1]] = Value(Inst.arg2) /\ machine.reg[got[2]] = Value(Inst.arg1)
        /\ machine.reg[got[3]] = Value(Inst.result)
    BY <1>1, <1>4, <1>6, AnsweredRegister
  <1>8. Value(Inst.result) = Meaning(Inst.result)
    <2>1. Kept(Inst.result) \/ Loaded(Inst.result)
      BY <1>1, <1>2, <1>3, <1>4, <1>5, Underway DEF StateFaithful, ValuesKept
    <2>2. Meaning(Inst.result) = reference.env[Inst.result]
      BY <1>1, <1>3, <1>4, NamesApart, NoPlace, Underway DEF StateFaithful
    <2> QED
      BY <2>1, <2>2 DEF Kept, Loaded
  <1> DEFINE store == <<Element(AddressOf(Inst.arg1), Meaning(Inst.arg2)), Meaning(Inst.result)>>
  <1>9. machine' = [machine EXCEPT !.heap = Append(@, store)]
    BY <1>6, <1>7, <1>8 DEF EmitVectorStore, Loaded
  <1>10. reference' = [reference EXCEPT !.heap = Append(@, store)]
    BY <1>1, InterpretedStore DEF Emitted
  <1> HIDE DEF store
  <1>11. /\ machine'.reg = machine.reg /\ machine'.mem = machine.mem /\ reference'.env = reference.env
         /\ SameEffects'
    BY <1>2, <1>9, <1>10 DEF SameEffects, MachineTyped
  <1>12. FlagsUntouched'
    BY <1>1, <1>4, EmittedWindow DEF FlagsUntouched
  <1> QED
    BY <1>1, <1>5, <1>11, <1>12, EffectOnly

LEMMA UntrackedFaithful == ASSUME EffectInv, GoodBlock, EmitUntracked PROVE StateFaithful'
  <1>1. /\ stage = "registers" /\ requests = <<>> /\ Emitted /\ UNCHANGED tables /\ machine' = machine
        /\ Inst.op \in Jumps \union {"LABEL", "NOP", "READ", "PROC_PARAM", "ENTER_PROC", "EXIT_PROC"}
    BY DEF EmitUntracked, Emitting
  <1>2. TypeOK /\ idx <= Len(Block) /\ OfAKind(Inst) /\ SameEffects /\ FlagsUntouched
    BY <1>1, Underway, AtHand DEF StateFaithful
  <1>3. Inst.op \notin {"READ", "PROC_PARAM"} /\ Inst.result = NoName
    BY <1>1, <1>2 DEF OfAKind
  <1>4. reference' = reference
    BY <1>1, <1>3, InterpretedNothing DEF Emitted
  <1>5. SameEffects'
    BY <1>1, <1>2, <1>4 DEF SameEffects
  <1>6. FlagsUntouched'
    BY <1>1, <1>2, <1>4, EmittedWindow DEF FlagsUntouched
  <1> QED
    BY <1>1, <1>3, <1>4, <1>5, <1>6, NamesApart, EffectOnly

(* A call is made while nothing is in a register. *)
LEMMA CallFaithful == ASSUME EffectInv, GoodBlock, EmitCall PROVE StateFaithful'
  <1>1. /\ stage = "registers" /\ requests = <<>> /\ Inst.op = "CALL" /\ Emitted /\ UNCHANGED tables
    BY DEF EmitCall, Emitting
  <1>2. /\ TypeOK /\ idx \in 1 .. Len(Block) /\ idx <= Len(Block) /\ OfAKind(Inst) /\ StateFaithful /\ MachineTyped
        /\ Handled(Block, idx) /\ Inst = Block[idx]
    BY <1>1, Underway, AtHand DEF EffectInv, TableInv
  <1>3. Inst.result = NoName /\ got = <<>> /\ Before(Block, idx) = {}
    BY <1>1, <1>2, Answers DEF OfAKind, Handled
  <1>4. \A v \in Names : ~InRegister(v)
    BY <1>2, <1>3 DEF StateFaithful, OnlyMentionedLocated
  <1>5. \A v \in Scalars : machine.mem[v] = reference.env[v]
    BY <1>2, <1>4, NamesApart DEF StateFaithful, ScalarsRight
  <1>6. World(machine.mem) = World(reference.env)
    BY <1>5 DEF World
  <1>7. /\ machine.heap = reference.heap /\ machine.output = reference.output
        /\ machine.flags = Junk /\ reference.flags = Junk
    BY <1>2, <1>3 DEF StateFaithful, SameEffects, FlagsUntouched
  <1>8. /\ machine'.mem = AfterCall(machine.mem, machine.heap) /\ machine'.flags = Junk
        /\ machine'.heap = Append(machine.heap, <<"call", World(machine.mem)>>)
        /\ machine'.output = Append(machine.output, <<"call", World(machine.mem)>>)
    BY <1>2 DEF EmitCall, MachineTyped
  <1>9. /\ reference'.env = AfterCall(reference.env, reference.heap) /\ reference'.flags = reference.flags
        /\ reference'.heap = Append(reference.heap, <<"call", World(reference.env)>>)
        /\ reference'.output = Append(reference.output, <<"call", World(reference.env)>>)
    BY <1>1, <1>2, InterpretedOutput DEF Emitted, MachineTyped
  <1>10. SameEffects' /\ FlagsUntouched'
    BY <1>6, <1>7, <1>8, <1>9 DEF SameEffects, FlagsUntouched
  <1>11. \A w \in Names \ Scalars : machine'.mem[w] = machine.mem[w] /\ reference'.env[w] = reference.env[w]
    BY <1>2, <1>8, <1>9 DEF AfterCall, MachineTyped
  <1>12. ASSUME NEW w \in Scalars PROVE machine'.mem[w] = reference'.env[w] /\ ~IsPlace(reference'.env[w])
    <2>1. w \in Names
      BY NamesApart
    <2>2. machine'.mem[w] = <<"after call", w, World(machine.mem), machine.heap>>
      BY <1>2, <1>8, <2>1 DEF AfterCall, MachineTyped
    <2>3. reference'.env[w] = <<"after call", w, World(reference.env), reference.heap>>
      BY <1>2, <1>9, <2>1 DEF AfterCall, MachineTyped
    <2>4. ~IsPlace(<<"after call", w, World(reference.env), reference.heap>>)
      BY DEF IsPlace
    <2> QED
      BY <1>6, <1>7, <2>2, <2>3, <2>4
  <1>13. UNCHANGED <<regTable, addressTable, globals, stack>>
    BY <1>1 DEF tables
  <1>14. Scalars \subseteq Names /\ Inst.result \notin Temps \union Consts
    BY <1>3, NamesApart
  <1> QED
    BY <1>1, <1>4, <1>10, <1>11, <1>12, <1>13, <1>14, QuietEffect

LEMMA DeclarationFaithful == ASSUME EffectInv, GoodBlock, EmitDeclaration PROVE StateFaithful'
  <1>1. /\ stage = "registers" /\ requests = <<>> /\ Inst.op = "ASSIGN" /\ Inst.arg1 = NoName /\ Emitted
        /\ IsDeclaration(Inst)
        /\ globals' = globals \union {Inst.result} /\ addressTable' = [addressTable EXCEPT ![Inst.result] = Global]
        /\ UNCHANGED <<regTable, machine>>
    BY DEF EmitDeclaration, Emitting, IsDeclaration
  <1>2. /\ TypeOK /\ idx \in 1 .. Len(Block) /\ idx <= Len(Block) /\ OfAKind(Inst) /\ StateFaithful
        /\ InOrder(program, blk, idx) /\ Inst = Block[idx] /\ program[blk] = Block
    BY <1>1, Underway, AtHand
  <1>3. Inst.result \in Scalars \union Arrays /\ got = <<>> /\ Inst.result \notin Before(Block, idx)
    BY <1>1, <1>2, Answers DEF OfAKind, InOrder
  <1>4. Inst.result \in Names /\ Inst.result \notin Temps \union Consts /\ Inst.result \in Mentions(Inst)
    BY <1>3, NamesApart, OperandsMentioned
  <1>5. ~InRegister(Inst.result)
    BY <1>2, <1>3, <1>4 DEF StateFaithful, OnlyMentionedLocated
  <1>6. /\ addressTable'[Inst.result] = Global
        /\ \A w \in Names \ {Inst.result} : addressTable'[w] = addressTable[w]
    BY <1>1, <1>2, <1>4 DEF TypeOK
  <1>7. \A w \in Names : w = Inst.result => ~InRegister(w)'
    BY <1>6, LocationsApart DEF InRegister
  <1>8. reference' = reference
    BY <1>1, InterpretedNothing DEF Emitted
  <1>9. SameEffects' /\ FlagsUntouched'
    BY <1>1, <1>2, <1>4, <1>8, EmittedWindow DEF StateFaithful, SameEffects, FlagsUntouched
  <1>10. \A w \in Scalars : ~IsPlace(reference.env[w])
    BY <1>2, NoPlace, NamesApart DEF StateFaithful
  <1>11. \A w \in Names : \/ addressTable'[w] = addressTable[w]
                          \/ w = Inst.result /\ ~InRegister(w) /\ ~InRegister(w)'
    BY <1>5, <1>6, <1>7
  <1> QED
    BY <1>1, <1>4, <1>8, <1>9, <1>10, <1>11, QuietEffect

(* A copy goes where the address table has the result. *)
LEMMA CopyFaithful == ASSUME EffectInv, GoodBlock, EmitCopy PROVE StateFaithful'
  <1>1. /\ stage = "registers" /\ requests = <<>> /\ Inst.op = "ASSIGN" /\ Inst.arg1 # NoName /\ Emitted
        /\ ~IsDeclaration(Inst) /\ UNCHANGED <<regTable, addressTable, globals, stack>>
    BY DEF EmitCopy, Emitting, IsDeclaration, tables
  <1>2. /\ TypeOK /\ idx \in 1 .. Len(Block) /\ idx <= Len(Block) /\ OfAKind(Inst) /\ StateFaithful /\ MachineTyped
        /\ InOrder(program, blk, idx) /\ Inst = Block[idx] /\ program[blk] = Block
        /\ Inst.result # NoName => Inst.result \in Pending
    BY <1>1, Underway, AtHand DEF EffectInv, TableInv
  <1> DEFINE d == Inst.result
             value == Meaning(Inst.arg1)
  <1>3. /\ d \in UNION {Scalars, Consts, Temps}
        /\ Inst.arg1 \in UNION {Literals, Consts, Temps \ Places(Block)}
    BY <1>1, <1>2 DEF OfAKind
  <1>4. /\ Inst.arg1 \in Values /\ Inst.arg1 \in Operands(Inst) /\ Inst.arg1 \in Names
        /\ d \in Names /\ d \in Mentions(Inst) /\ d # NoName /\ d \notin Literals /\ d \notin LargeCopies
    BY <1>3, NamesApart, OperandsMentioned DEF Values
  <1>5. Operand(Inst.arg1) = value
    BY <1>1, <1>4, OperandMeans
  <1>6. ~InMemory(addressTable[Inst.arg1])
    <2>1. CASE Inst.arg1 \in Literals
      <3>1. addressTable[Inst.arg1] = Immediate \/ Loaded(Inst.arg1)
        BY <1>1, <1>4, <2>1, LiteralOperand
      <3> QED
        BY <3>1, LocationsApart DEF InMemory, Loaded, InRegister
    <2>2. CASE Inst.arg1 \in Consts \union (Temps \ Places(Block))
      <3>1. InRegister(Inst.arg1) /\ (Kept(Inst.arg1) \/ Loaded(Inst.arg1))
        BY <1>1, <1>4, <2>2, DefinedOperand
      <3>2. ~IsPlace(reference.env[Inst.arg1])
        BY <1>2, <1>4, <2>2, NamesApart, NoPlace DEF StateFaithful
      <3> QED
        BY <3>1, <3>2 DEF InMemory, Kept, Loaded, InRegister
    <2> QED
      BY <1>3, <2>1, <2>2
  <1>7. ~IsPlace(value)
    BY MeaningIsNoPlace
  <1>8. machine' = CASE addressTable[d].type = "register" /\ addressTable[d].isAddress ->
                           [machine EXCEPT !.heap = Append(@, <<machine.reg[addressTable[d].reg], value>>)]
                     [] addressTable[d].type = "register" /\ ~addressTable[d].isAddress ->
                           [machine EXCEPT !.reg[addressTable[d].reg] = value]
                     [] addressTable[d].type = "global" -> [machine EXCEPT !.mem[d] = value]
                     [] OTHER -> machine
    BY <1>5, <1>6 DEF EmitCopy
  <1>9. reference' = IF IsPlace(reference.env[d])
                     THEN [reference EXCEPT !.heap = Append(@, <<reference.env[d], value>>)]
                     ELSE Define(d, value)
    BY <1>1, InterpretedCopy DEF Emitted
  <1>10. SameEffects /\ PlacesInPlace
    BY <1>2 DEF StateFaithful
  <1>11. FlagsUntouched' /\ d \in Names
    BY <1>1, <1>4, EmittedWindow DEF FlagsUntouched
  <1>12. d \in Temps => d \in Defined /\ Kept(d)
    <2> SUFFICES ASSUME d \in Temps PROVE d \in Defined /\ Kept(d)
      OBVIOUS
    <2>1. d \in Defined
      BY <1>1, <1>2 DEF InOrder, Defined
    <2>2. got = <<>>
      BY <1>1, Answers DEF CopyAnswered
    <2> QED
      BY <1>2, <1>4, <2>1, <2>2 DEF StateFaithful, ValuesKept
  <1>13. d \in Consts => InRegister(d) /\ ~addressTable[d].isAddress /\ ~IsPlace(reference.env[d])
    BY <1>1, <1>4, <1>10, Answers, NamesApart, NoPlace DEF CopyAnswered
  <1>14. d \in Scalars => /\ ~IsPlace(reference.env[d]) /\ d \in globals
                          /\ (InRegister(d) /\ ~addressTable[d].isAddress) \/ addressTable[d] = Global
    BY <1>1, <1>4, <1>10, ScalarOperand, NamesApart, NoPlace
  <1> HIDE DEF value, d
  <1>15. CASE InRegister(d) /\ ~addressTable[d].isAddress
    <2> DEFINE reg == RegOf(d)
    <2>1. ~IsPlace(reference.env[d])
      BY <1>3, <1>12, <1>13, <1>14, <1>15 DEF Kept
    <2>2. Computes(reg, d, value)
      <3>1. SetsRegister(reg, value) /\ reference' = Define(d, value)
        BY <1>8, <1>9, <1>15, <2>1 DEF SetsRegister, InRegister, RegOf
      <3> QED
        BY <3>1, SettingComputes DEF EffectInv, TableInv
    <2>3. addressTable[d] \in Location /\ reg \in AllRegs /\ addressTable[d] = Register(reg, FALSE)
      BY <1>2, <1>4, <1>15, LocationsApart DEF TypeOK, InRegister, RegOf
    <2>4. regTable[reg] # Free /\ regTable[reg] \in Names
      BY <1>2, <1>4, <1>15, <2>3 DEF EffectInv, Inv, LocatedRegistersAreTaken, TypeOK, RegOf
    <2>5. regTable' = [regTable EXCEPT ![reg] = regTable[reg]]
      BY <1>1, <1>2 DEF TypeOK
    <2>6. Wanted(d) /\ Held(d)
      BY <1>1, <1>4, <1>15, WantedOperand DEF Held
    <2>7. \A w \in Names \ {d} : Held(w) => RegOf(w) # reg
      BY <1>2, <1>4, <2>6 DEF StateFaithful, Unshared
    <2>8. MaySpill(Block) => /\ regTable[reg] = d /\ d \in Scalars
                             /\ \A r \in Used : r # reg => regTable[r] # d
      <3> SUFFICES ASSUME MaySpill(Block)
                   PROVE  regTable[reg] = d /\ d \in Scalars /\ \A r \in Used : r # reg => regTable[r] # d
        OBVIOUS
      <3>1. OwnersRight
        BY <1>2, SpillingBlock
      <3>2. regTable[reg] = d
        BY <1>4, <2>6, <3>1 DEF OwnersRight
      <3>3. d \in Scalars
        BY <2>3, <2>4, <3>1, <3>2 DEF OwnersRight, Used
      <3>4. ASSUME NEW r \in Used, regTable[r] = d PROVE r = reg
        <4>1. addressTable[d] = Register(r, FALSE)
          BY <3>1, <3>4 DEF OwnersRight
        <4> QED
          BY <4>1 DEF RegOf, Register, At
      <3> QED
        BY <3>2, <3>3, <3>4
    <2>9. /\ addressTable' \in [Names -> Location] /\ addressTable'[d] = Register(reg, FALSE)
          /\ \A w \in Names \ {d} : addressTable'[w] = addressTable[w]
      BY <1>1, <1>2, <2>3 DEF TypeOK
    <2>10. d = Inst.result
      BY DEF d
    <2>11. regTable[reg] \in Names /\ d \in UNION {Scalars, Consts, Temps}
      BY <1>3, <2>4
    <2> HIDE DEF reg
    <2> DEFINE owner == regTable[reg]
    <2>12. /\ owner \in Names /\ regTable' = [regTable EXCEPT ![reg] = owner] /\ owner # Free
           /\ MaySpill(Block) => owner = d /\ d \in Scalars /\ \A r \in Used : r # reg => regTable[r] # d
      BY <2>4, <2>5, <2>8
    <2> HIDE DEF owner
    <2> QED
      BY <1>1, <1>7, <1>14, <2>2, <2>3, <2>4, <2>7, <2>9, <2>10, <2>11, <2>12, WriteEffect
  <1>16. CASE InRegister(d) /\ addressTable[d].isAddress
    <2>1. d \in Temps /\ d \in Defined /\ Kept(d) /\ IsPlace(reference.env[d])
      BY <1>3, <1>12, <1>13, <1>14, <1>16, LocationsApart DEF Kept, InRegister
    <2>2. machine.reg[addressTable[d].reg] = reference.env[d]
      BY <2>1 DEF Kept, Value, RegOf
    <2> DEFINE store == <<reference.env[d], value>>
    <2>3. machine' = [machine EXCEPT !.heap = Append(@, store)]
      BY <1>8, <1>16, <2>2 DEF InRegister
    <2>4. reference' = [reference EXCEPT !.heap = Append(@, store)]
      BY <1>9, <2>1
    <2> HIDE DEF store
    <2>5. /\ machine'.reg = machine.reg /\ machine'.mem = machine.mem /\ reference'.env = reference.env
          /\ SameEffects'
      BY <1>2, <1>10, <2>3, <2>4 DEF SameEffects, MachineTyped
    <2>6. UNCHANGED tables
      BY <1>1 DEF tables
    <2> QED
      BY <1>1, <1>11, <2>1, <2>5, <2>6, EffectOnly DEF d
  <1>17. CASE d \in Scalars /\ addressTable[d] = Global
    <2>1. ~InRegister(d) /\ addressTable[d].type = "global"
      BY <1>17, LocationsApart DEF InRegister
    <2>2. machine' = [machine EXCEPT !.mem[d] = value]
      BY <1>8, <2>1
    <2>3. reference' = Define(d, value)
      BY <1>9, <1>14, <1>17
    <2>4. /\ machine'.reg = machine.reg /\ machine'.mem = [machine.mem EXCEPT ![d] = value]
          /\ reference'.env = [reference.env EXCEPT ![d] = value]
          /\ SameEffects'
      BY <1>2, <1>10, <2>2, <2>3 DEF SameEffects, MachineTyped, Define
    <2>5. /\ machine'.mem[d] = value /\ reference'.env[d] = value
          /\ \A w \in Names \ {d} : machine'.mem[w] = machine.mem[w] /\ reference'.env[w] = reference.env[w]
      BY <1>2, <1>4, <2>4 DEF MachineTyped
    <2>6. \A w \in Scalars : w \in Names /\ ~IsPlace(reference.env[w])
      BY <1>10, NoPlace, NamesApart
    <2>7. d = Inst.result /\ Inst.result \notin Temps \union Consts
      BY <1>17, NamesApart DEF d
    <2>8. \A w \in Scalars :
            /\ InRegister(w) => machine'.mem[w] = machine.mem[w] /\ reference'.env[w] = reference.env[w]
            /\ ~InRegister(w) /\ machine.mem[w] = reference.env[w] => machine'.mem[w] = reference'.env[w]
            /\ ~IsPlace(reference'.env[w])
      BY <1>7, <2>1, <2>5, <2>6
    <2>9. \A w \in Names \ Scalars : machine'.mem[w] = machine.mem[w] /\ reference'.env[w] = reference.env[w]
      BY <1>17, <2>5
    <2> QED
      BY <1>1, <1>11, <2>4, <2>7, <2>8, <2>9, QuietEffect
  <1> QED
    BY <1>3, <1>12, <1>13, <1>14, <1>15, <1>16, <1>17 DEF Kept

(* Whatever instruction is emitted, the machine goes along with the reference. *)
LEMMA EmitFaithful == ASSUME EffectInv, GoodBlock, Emit PROVE Faithful' /\ stack' = stack
  <1>1. stage = "registers" /\ requests = <<>> /\ fault = "none" /\ Emitted /\ stack' = stack
    BY DEF Emit, EmitDeclaration, EmitCopy, EmitArithmetic, EmitConditional, EmitArrayIndex, EmitWrite, EmitCall,
       EmitUntracked, EmitVectorLoad, EmitVectorStore, EmitVector, EmitVectorAssign, Emitting, Holds, tables
  <1>2. StateFaithful'
    BY ArithmeticFaithful, ElementFaithful, VectorFaithful, VectorAssignFaithful, ConditionalFaithful, WriteFaithful,
       StoreFaithful, UntrackedFaithful, CallFaithful, DeclarationFaithful, CopyFaithful DEF Emit
  <1>3. requests' = <<>> /\ stage' = "next" /\ fault' = "none"
    BY <1>1 DEF Emitted
  <1>4. NewRequests' /\ AnswersRight'
    BY <1>3 DEF NewRequests, AnswersRight
  <1> QED
    BY <1>1, <1>2, <1>3, <1>4 DEF Faithful

-----------------------------------------------------------------------------
(* getRegister and forceRegister *)

(* The request at hand is the first one. *)
LEMMA FirstAsked ==
  ASSUME TypeOK, requests # <<>>
  PROVE  /\ requests \in Seq(Request) /\ Len(requests) \in Nat /\ Len(requests) >= 1
         /\ Asked = requests[1] /\ Asked.name \in Names /\ Asked.address \in BOOLEAN /\ Asked.force \in BOOLEAN
  <1>1. requests \in Seq(Request)
    BY DEF TypeOK
  <1>2. Len(requests) \in Nat /\ Len(requests) >= 1 /\ Asked = requests[1]
    BY <1>1 DEF Asked
  <1>3. Asked \in Request
    BY AskedTyped
  <1>4. Asked.name \in Names /\ Asked.address \in BOOLEAN /\ Asked.force \in BOOLEAN
    BY <1>3 DEF Request
  <1> QED
    BY <1>1, <1>2, <1>4

(* A temporary or a constant that is yet to be defined is asked for as the *)
(* result; one that is defined is in a register, and asked for by value.   *)
AskedValue ==
  IF Asked.name \in Defined
  THEN /\ ~Asked.address
       /\ InRegister(Asked.name) /\ (Kept(Asked.name) \/ (Asked.name \notin Later /\ Loaded(Asked.name)))
       /\ IsPlace(reference.env[Asked.name]) => Asked.force /\ Asked.name \notin Later
  ELSE ~Asked.force /\ ~InRegister(Asked.name) /\ Asked.name \notin SumResults(Block)

(* What is asked for, whatever the instruction. *)
ProperlyAsked ==
  /\ Asked.name \in InRegisters(Inst)
  /\ Asked.name \in Mentions(Inst) /\ Asked.name \in UNION {Scalars, Arrays, Consts, Temps, Literals}
  /\ Asked.name \in Literals => Asked.name \in Operands(Inst) /\ ~InRegister(Asked.name)
  /\ Asked.name \in Scalars \union Literals => ~Asked.address
  /\ Asked.name \in Arrays => Asked.address
  /\ Asked.name \in Temps \union Consts => AskedValue
  /\ Asked.name \notin Temps => Asked.force \/ ~InRegister(Asked.name)
  /\ Asked.type # "GPR" => Asked.name \in Temps
  /\ \A k \in 2 .. Len(requests) :
       requests[k].name # Asked.name \/ (requests[k].name \in Before(Block, idx) /\ requests[k].name \notin Literals)
  /\ ~IsDeclaration(Inst)

(* An operand asked for by value. *)
LEMMA OperandAsked ==
  ASSUME EffectInv, GoodBlock, stage = "registers", requests # <<>>,
         Asked.name \in Operands(Inst), ~Asked.address, Asked.name \in Temps \union Consts,
         Asked.name \in Temps \intersect Places(Block) => Asked.force /\ Asked.name \notin Later
  PROVE  AskedValue
  <1>1. TypeOK /\ idx <= Len(Block) /\ PlacesInPlace
    BY Underway DEF StateFaithful
  <1>2. Asked.name \in Defined /\ Asked.name \in Names
    BY <1>1, AtHand, FirstAsked
  <1>3. InRegister(Asked.name) /\ (Kept(Asked.name) \/ (Asked.name \notin Later /\ Loaded(Asked.name)))
    BY DefinedOperand
  <1>4. IsPlace(reference.env[Asked.name]) => Asked.name \in Temps \intersect Places(Block)
    BY <1>1, <1>2 DEF PlacesInPlace
  <1> QED
    BY <1>2, <1>3, <1>4 DEF AskedValue

(* The result of an operation that gives a new temporary its register. *)
LEMMA ResultAsked ==
  ASSUME EffectInv, GoodBlock, stage = "registers", requests # <<>>,
         Asked.name = Inst.result, Inst.result \in Temps, Inst.op \in {"ARRAY_INDEX", "VLOAD", "VASSIGN"}, ~Asked.force
  PROVE  AskedValue /\ Inst.result \notin Before(Block, idx) /\ Inst.result \notin Defined
  <1>1. TypeOK /\ idx \in 1 .. Len(Block) /\ NewRequests /\ Inst = Block[idx] /\ Len(Block) \in Nat
    BY Underway, AtHand
  <1>2. Inst.result \notin Before(Block, idx) /\ Inst.result \notin Defined
    BY <1>1, NewTemporary DEF Defined
  <1>3. ~InRegister(Inst.result)
    BY <1>1, <1>2, FirstAsked DEF NewRequests
  <1>4. Inst.result \notin SumResults(Block)
    <2> SUFFICES ASSUME Inst.result \in SumResults(Block) PROVE FALSE
      OBVIOUS
    <2>1. PICK j \in 1 .. Len(Block) : Block[j].op \in Sums /\ Block[j].result = Inst.result
      BY DEF SumResults
    <2>2. Block[j].op \notin {"ASSIGN", "VSTORE"} /\ j # idx
      BY <1>1, <2>1 DEF Sums, Arithmetic
    <2> QED
      BY <1>1, <2>1, <2>2, NewOnce
  <1> QED
    BY <1>2, <1>3, <1>4 DEF AskedValue

LEMMA FirstOperandAsked ==
  ASSUME EffectInv, GoodBlock, stage = "registers", requests # <<>>, Inst.op \in Arithmetic \union Comparisons
  PROVE  ProperlyAsked /\ ~Asked.address /\ Asked.name = Inst.arg1 /\ got = <<>> /\ Len(requests) = 1
  <1>1. /\ TypeOK /\ NewRequests /\ idx \in 1 .. Len(Block) /\ idx <= Len(Block) /\ OfAKind(Inst)
        /\ Handled(Block, idx) /\ Inst = Block[idx] /\ Len(Block) \in Nat
    BY Underway, AtHand
  <1>2. /\ got = <<>>
        /\ \/ Inst.op \in Arithmetic /\ requests = <<Ask(Inst.arg1, "GPR", FALSE, TRUE)>>
           \/ Inst.op \in Comparisons /\ requests = <<Ask(Inst.arg1, "GPR", FALSE, FALSE)>>
    BY Answers DEF FirstOperandAnswered
  <1>3. /\ Asked.name = Inst.arg1 /\ ~Asked.address /\ Asked.type = "GPR" /\ Len(requests) = 1
        /\ Inst.op \in Arithmetic => Asked.force
    <2>1. Inst.op \notin Arithmetic \/ Inst.op \notin Comparisons
      BY DEF Arithmetic, Comparisons
    <2> QED
      BY <1>1, <1>2, <2>1, FirstAsked DEF Ask
  <1>4. Inst.arg1 \in Values /\ Inst.arg1 \in Operands(Inst) /\ Inst.arg1 \in Mentions(Inst) /\ Inst.op # "ASSIGN"
    <2>1. Inst.arg1 \in Values /\ Inst.op # "ASSIGN"
      BY <1>1 DEF OfAKind, Arithmetic, Comparisons
    <2> QED
      BY <2>1, NamesApart, OperandsMentioned DEF Values
  <1>5. ASSUME Inst.arg1 \in Temps \intersect Places(Block) PROVE Asked.force /\ Inst.arg1 \notin Later
    <2>1. Inst.arg1 \in Defined
      BY <1>1, <1>4, <1>5, AtHand
    <2>2. CASE Inst.op \in Arithmetic
      <3>1. Inst.arg1 # Inst.result
        <4>1. Inst.op \notin {"ASSIGN", "VSTORE"}
          BY <2>2 DEF Arithmetic
        <4>2. Inst.result \in Temps => Inst.result \notin Defined
          BY <1>1, <4>1, NewTemporary DEF Defined
        <4> QED
          BY <1>5, <2>1, <4>2
      <3> QED
        BY <1>1, <1>3, <1>5, <2>2, <3>1, FirstOperandConsumed, NamesApart DEF Sums
    <2>3. CASE Inst.op \in Comparisons
      <3>1. Inst.arg1 \in Before(Block, idx)
        <4>1. PICK j \in 1 .. idx - 1 : Block[j].result = Inst.arg1
          BY <2>1 DEF Defined, DefinedBefore
        <4>2. Inst.arg1 # NoName
          BY <1>5, NamesApart
        <4> QED
          BY <4>1, <4>2 DEF Before, Mentions
      <3>2. Inst.arg1 \in (Temps \ Places(Block)) \union Literals
        BY <1>1, <2>3, <3>1 DEF Handled
      <3> QED
        BY <1>5, <3>2, NamesApart
    <2> QED
      BY <2>2, <2>3
  <1>9. Asked.name \notin Temps => Asked.force \/ ~InRegister(Asked.name)
    <2>1. CASE Inst.op \in Comparisons /\ Inst.arg1 \notin Temps
      <3>1. Inst.arg1 \in Literals \/ Inst.arg1 \notin Before(Block, idx)
        BY <1>1, <2>1 DEF Handled
      <3> QED
        BY <1>1, <1>3, <3>1, FirstAsked DEF NewRequests
    <2> QED
      BY <1>3, <2>1
  <1>6. Asked.name \in Temps \union Consts => AskedValue
    BY <1>3, <1>4, <1>5, OperandAsked
  <1>7. Asked.name \in Literals => ~InRegister(Asked.name)
    BY <1>1, <1>3, FirstAsked DEF NewRequests
  <1>8. Inst.arg1 \in InRegisters(Inst)
    <2>1. InRegisters(Inst) = {Inst.arg1}
      BY DEF InRegisters, Arithmetic, Comparisons
    <2> QED
      BY <2>1
  <1> QED
    BY <1>2, <1>3, <1>4, <1>6, <1>7, <1>8, <1>9, NamesApart DEF ProperlyAsked, Values, IsDeclaration

LEMMA IndexAsked ==
  ASSUME EffectInv, GoodBlock, stage = "registers", requests # <<>>, Inst.op \in {"ARRAY_INDEX", "VLOAD", "VSTORE"}
  PROVE  /\ ProperlyAsked /\ Inst.arg2 # Inst.arg1 /\ Inst.result # Inst.arg1
         /\ Inst.arg2 = Inst.result => Inst.op = "VSTORE"
         /\ Asked.name = IF got = <<>> THEN Inst.arg2 ELSE IF Len(got) = 1 THEN Inst.arg1 ELSE Inst.result
         /\ Asked.name = Inst.arg2 => ~Asked.address
  <1>1. /\ TypeOK /\ NewRequests /\ idx \in 1 .. Len(Block) /\ idx <= Len(Block) /\ OfAKind(Inst)
        /\ Handled(Block, idx) /\ Inst = Block[idx] /\ Len(Block) \in Nat /\ InOrder(program, blk, idx)
        /\ program[blk] = Block /\ got \in Seq(AllRegs \union {NoReg})
    BY Underway, AtHand DEF TypeOK
  <1>2. /\ Inst.arg1 \in Arrays /\ Inst.arg2 \in Values /\ Inst.result \in Temps
        /\ Inst.op = "VSTORE" => Inst.result \notin Places(Block)
    BY <1>1 DEF OfAKind
  <1>3. /\ Inst.arg1 \in Operands(Inst) /\ Inst.arg2 \in Operands(Inst)
        /\ Inst.arg1 \in Mentions(Inst) /\ Inst.arg2 \in Mentions(Inst) /\ Inst.result \in Mentions(Inst)
        /\ Inst.arg1 \notin Temps /\ Inst.arg1 \notin Values /\ Inst.arg1 \notin Literals /\ Inst.arg1 \notin Scalars
        /\ Inst.result \notin Literals /\ Inst.result \notin Scalars /\ Inst.result \notin Arrays
        /\ ~IsDeclaration(Inst)
    BY <1>1, <1>2, NamesApart, OperandsMentioned DEF Values, IsDeclaration
  <1>4. InRegisters(Inst) = Mentions(Inst)
    BY DEF InRegisters, Arithmetic, Comparisons
  <1>5. Inst.op \in {"ARRAY_INDEX", "VLOAD"} => Inst.result \notin Defined /\ Inst.result \notin Before(Block, idx)
    BY <1>1, <1>2, NewTemporary DEF Defined
  <1>6. Inst.op = "VSTORE" => Inst.result \in Defined /\ Inst.result \in Before(Block, idx)
    <2> SUFFICES ASSUME Inst.op = "VSTORE" PROVE Inst.result \in Defined /\ Inst.result \in Before(Block, idx)
      OBVIOUS
    <2>1. Inst.result \in Defined
      BY <1>1, <1>2 DEF InOrder, Defined
    <2>2. PICK j \in 1 .. idx - 1 : Block[j].result = Inst.result
      BY <2>1 DEF Defined, DefinedBefore
    <2>3. Inst.result \in Mentions(Block[j])
      BY <2>2, <1>2, NamesApart DEF Mentions
    <2> QED
      BY <2>1, <2>2, <2>3 DEF Before
  <1>7. Inst.arg2 \in Temps => Inst.arg2 \in Defined
    BY <1>1, <1>3, AtHand
  <1>8. Inst.arg2 # Inst.arg1 /\ Inst.result # Inst.arg1 /\ (Inst.arg2 = Inst.result => Inst.op = "VSTORE")
    BY <1>2, <1>3, <1>5, <1>7
  <1>9. IndexAnswered
    BY Answers
  <1>10. Asked.name \in Literals => ~InRegister(Asked.name)
    BY <1>1, FirstAsked DEF NewRequests
  <1> DEFINE index == Ask(Inst.arg2, "GPR", FALSE, TRUE)
             array == Ask(Inst.arg1, "GPR", TRUE, TRUE)
  <1>11. /\ index.name = Inst.arg2 /\ index.type = "GPR" /\ ~index.address /\ index.force
         /\ array.name = Inst.arg1 /\ array.type = "GPR" /\ array.address /\ array.force
         /\ ThirdRequest.name = Inst.result /\ ~ThirdRequest.force
         /\ ThirdRequest.address <=> Inst.op = "ARRAY_INDEX"
         /\ ThirdRequest.type = IF Inst.op = "ARRAY_INDEX" THEN "GPR" ELSE "AVX"
    <2>1. /\ index.name = Inst.arg2 /\ index.type = "GPR" /\ ~index.address /\ index.force
          /\ array.name = Inst.arg1 /\ array.type = "GPR" /\ array.address /\ array.force
      BY DEF Ask
    <2>2. CASE Inst.op = "ARRAY_INDEX"
      BY <2>1, <2>2 DEF ThirdRequest, Ask
    <2>3. CASE Inst.op # "ARRAY_INDEX"
      BY <2>1, <2>3 DEF ThirdRequest, Ask
    <2> QED
      BY <2>2, <2>3
  <1>12. \/ Len(got) = 0 /\ got = <<>> /\ requests = <<index, array, ThirdRequest>>
         \/ Len(got) = 1 /\ got # <<>> /\ requests = <<array, ThirdRequest>>
         \/ Len(got) = 2 /\ got # <<>> /\ requests = <<ThirdRequest>>
    <2>1. Len(got) = 0 => got = <<>>
      BY <1>1
    <2>2. Len(got) = 1 \/ Len(got) = 2 => got # <<>>
      <3>1. Len(<<>>) = 0
        OBVIOUS
      <3> QED
        BY <3>1
    <2>3. IndexAndArray(Inst, ThirdRequest) = <<index, array, ThirdRequest>>
      BY DEF IndexAndArray
    <2>4. \/ Len(got) = 0 /\ requests = <<index, array, ThirdRequest>>
          \/ Len(got) = 1 /\ requests = <<array, ThirdRequest>>
          \/ Len(got) = 2 /\ requests = <<ThirdRequest>>
      BY <1>9, <2>3 DEF IndexAnswered
    <2> QED
      BY <2>1, <2>2, <2>4
  <1> HIDE DEF index, array
  <1>13. CASE Len(got) = 0
    <2>1. /\ got = <<>> /\ requests[1] = index /\ requests[2] = array /\ requests[3] = ThirdRequest /\ Len(requests) = 3
      BY <1>12, <1>13
    <2>2. Asked.name = Inst.arg2 /\ ~Asked.address /\ Asked.type = "GPR" /\ Asked.force
      BY <1>1, <1>11, <2>1, FirstAsked
    <2>3. Inst.arg2 \in Temps \intersect Places(Block) => Inst.arg2 \notin Later
      BY <1>1 DEF Handled, Later
    <2>4. Asked.name \in Temps \union Consts => AskedValue
      BY <1>3, <2>2, <2>3, OperandAsked
    <2>5. \A k \in 2 .. Len(requests) :
            requests[k].name # Asked.name \/ (requests[k].name \in Before(Block, idx) /\ requests[k].name \notin Literals)
      BY <1>3, <1>6, <1>8, <1>11, <2>1, <2>2
    <2> QED
      BY <1>2, <1>3, <1>4, <1>8, <1>10, <2>1, <2>2, <2>4, <2>5, NamesApart DEF ProperlyAsked, Values
  <1>14. CASE Len(got) = 1
    <2>1. got # <<>> /\ requests[1] = array /\ requests[2] = ThirdRequest /\ Len(requests) = 2
      BY <1>12, <1>14
    <2>2. Asked.name = Inst.arg1 /\ Asked.address /\ Asked.type = "GPR" /\ Asked.force
      BY <1>1, <1>11, <2>1, FirstAsked
    <2>3. \A k \in 2 .. Len(requests) : requests[k].name # Asked.name
      BY <1>8, <1>11, <2>1, <2>2
    <2> QED
      BY <1>2, <1>3, <1>4, <1>8, <1>10, <1>14, <2>1, <2>2, <2>3, NamesApart DEF ProperlyAsked
  <1>15. CASE Len(got) = 2
    <2>1. got # <<>> /\ requests[1] = ThirdRequest /\ Len(requests) = 1
      BY <1>12, <1>15
    <2>2. /\ Asked.name = Inst.result /\ ~Asked.force
          /\ Asked.address <=> Inst.op = "ARRAY_INDEX"
      BY <1>1, <1>11, <2>1, FirstAsked
    <2>3. AskedValue
      <3>1. CASE Inst.op = "VSTORE"
        <4>1. ValuesKept /\ PlacesInPlace /\ Inst.result \in Pending /\ Inst.result \in Names
          BY <1>1, <1>3, <1>2, Underway, AtHand, NamesApart DEF StateFaithful
        <4>2. Kept(Inst.result) \/ (Inst.result \notin Later /\ Loaded(Inst.result))
          BY <1>2, <1>6, <3>1, <4>1 DEF ValuesKept
        <4>3. ~IsPlace(reference.env[Inst.result])
          BY <1>2, <3>1, <4>1 DEF PlacesInPlace
        <4> QED
          BY <1>6, <2>2, <3>1, <4>2, <4>3 DEF AskedValue, Kept, Loaded
      <3>2. CASE Inst.op \in {"ARRAY_INDEX", "VLOAD"}
        BY <1>2, <2>2, <3>2, ResultAsked
      <3> QED
        BY <3>1, <3>2
    <2>4. \A k \in 2 .. Len(requests) : FALSE
      BY <2>1
    <2>5. Inst.arg2 = Inst.result => ~Asked.address
      BY <1>8, <2>2
    <2> QED
      BY <1>2, <1>3, <1>4, <1>8, <1>15, <2>1, <2>2, <2>3, <2>4, <2>5 DEF ProperlyAsked
  <1> QED
    BY <1>12, <1>13, <1>14, <1>15

LEMMA CopyAsked ==
  ASSUME EffectInv, GoodBlock, stage = "registers", requests # <<>>, Inst.op = "ASSIGN", Inst.arg1 # NoName
  PROVE  /\ ProperlyAsked /\ Asked.name = Inst.result /\ Inst.result \in Consts /\ ~Asked.address
         /\ got = <<>> /\ Len(requests) = 1
  <1>1. /\ TypeOK /\ idx \in 1 .. Len(Block) /\ idx <= Len(Block) /\ OfAKind(Inst) /\ ValuesKept
        /\ InOrder(program, blk, idx) /\ Inst = Block[idx] /\ program[blk] = Block
    BY Underway, AtHand DEF StateFaithful
  <1>2. got = <<>> /\ requests = <<Ask(Inst.result, "GPR", FALSE, FALSE)>> /\ ~Located(Inst.result)
    BY Answers DEF CopyAnswered
  <1>3. /\ Asked.name = Inst.result /\ ~Asked.address /\ Asked.type = "GPR" /\ ~Asked.force /\ Len(requests) = 1
    BY <1>1, <1>2, FirstAsked DEF Ask
  <1>4. /\ Inst.result \in UNION {Scalars, Consts, Temps} /\ ~IsDeclaration(Inst)
    BY <1>1 DEF OfAKind, IsDeclaration
  <1>5. Inst.result \in Mentions(Inst) /\ Inst.result \in Pending /\ Inst.result \in Names
    BY <1>1, <1>4, AtHand, OperandsMentioned, NamesApart
  <1>6. ~InRegister(Inst.result)
    BY <1>2, LocationsApart DEF Located, InRegister
  <1>7. ASSUME Inst.result \in (Temps \union Consts) \intersect Defined PROVE FALSE
    BY <1>1, <1>5, <1>6, <1>7 DEF ValuesKept, Kept, Loaded
  <1>8. Inst.result \notin Temps
    BY <1>1, <1>7 DEF InOrder, Defined
  <1>9. Inst.result \notin Scalars
    BY <1>2, <1>4, <1>5, ScalarOperand
  <1>10. Inst.result \in Consts /\ Inst.result \notin Literals /\ Inst.result \notin Arrays
    BY <1>4, <1>8, <1>9, NamesApart
  <1>11. AskedValue
    BY <1>3, <1>6, <1>7, <1>8, <1>10 DEF AskedValue, SumResults
  <1>12. Inst.result \in InRegisters(Inst)
    <2>1. InRegisters(Inst) = {Inst.result} \intersect Consts
      BY DEF InRegisters, Arithmetic, Comparisons
    <2> QED
      BY <1>10, <2>1
  <1> QED
    BY <1>2, <1>3, <1>4, <1>5, <1>6, <1>8, <1>9, <1>10, <1>11, <1>12 DEF ProperlyAsked

LEMMA VectorAsked ==
  ASSUME EffectInv, GoodBlock, stage = "registers", requests # <<>>, Inst.op = "VASSIGN"
  PROVE  ProperlyAsked /\ Asked.name = Inst.result /\ Len(got) = 1 /\ Len(requests) = 1 /\ got[1] = NoReg
  <1>1. TypeOK /\ idx <= Len(Block) /\ OfAKind(Inst)
    BY Underway, AtHand
  <1>2. Len(got) = 1 /\ requests = <<Ask(Inst.result, "AVX", FALSE, FALSE)>> /\ got[1] = NoReg
    BY Answers DEF VectorAssignAnswered
  <1>3. Asked.name = Inst.result /\ ~Asked.address /\ ~Asked.force /\ Len(requests) = 1
    BY <1>1, <1>2, FirstAsked DEF Ask
  <1>4. Inst.result \in Temps /\ ~IsDeclaration(Inst)
    BY <1>1 DEF OfAKind, IsDeclaration
  <1>5. /\ Inst.result \in Mentions(Inst) /\ Inst.result \notin Literals /\ Inst.result \notin Scalars
        /\ Inst.result \notin Arrays
    BY <1>4, OperandsMentioned, NamesApart
  <1>6. AskedValue
    BY <1>3, <1>4, ResultAsked
  <1>7. Inst.result \in InRegisters(Inst)
    <2>1. InRegisters(Inst) = {Inst.result} \intersect Temps
      BY DEF InRegisters, Arithmetic, Comparisons
    <2> QED
      BY <1>4, <2>1
  <1> QED
    BY <1>2, <1>3, <1>4, <1>5, <1>6, <1>7 DEF ProperlyAsked

(* Only these instructions ask for a register. *)
LEMMA WhoAsks ==
  ASSUME EffectInv, GoodBlock, Asking
  PROVE  /\ ProperlyAsked /\ stage = "registers"
         /\ \/ Inst.op \in Arithmetic \union Comparisons
            \/ Inst.op \in {"ARRAY_INDEX", "VLOAD", "VSTORE", "VASSIGN"}
            \/ Inst.op = "ASSIGN" /\ Inst.arg1 # NoName
  <1>1. stage = "registers" /\ requests # <<>>
    BY DEF Asking
  <1>2. OfAKind(Inst)
    BY <1>1, Underway, AtHand
  <1>3. \/ Inst.op \in Arithmetic \union Comparisons
        \/ Inst.op \in {"ARRAY_INDEX", "VLOAD", "VSTORE", "VASSIGN"}
        \/ Inst.op = "ASSIGN" /\ Inst.arg1 # NoName
    <2>1. Inst.op \notin {"VADD", "VSUB"}
      BY <1>1, Answers DEF VectorAnswered
    <2>2. ~(\/ Inst.op \in Jumps \union {"LABEL", "CALL", "ENTER_PROC", "EXIT_PROC", "NOP", "WRITE"}
            \/ IsDeclaration(Inst))
      BY <1>1, Answers
    <2> QED
      BY <1>2, <2>1, <2>2 DEF OfAKind, VectorOperations, IsDeclaration
  <1> QED
    BY <1>1, <1>3, FirstOperandAsked, IndexAsked, CopyAsked, VectorAsked

(* The register asked for is one the block is known to take. *)
LEMMA RoomForAsked ==
  ASSUME EffectInv, GoodBlock, Asking, ~InRegister(Asked.name), ~MaySpill(Block)
  PROVE  /\ Key(Asked.name, idx) \in Taken(Block) /\ Key(Asked.name, idx) \notin Claimed
         /\ IsFiniteSet(Claimed) /\ Cardinality(Claimed) \in Nat
         /\ Cardinality(Used) < Cardinality(GPR) /\ Cardinality(Used) < Cardinality(AVX)
         /\ IsFiniteSet(Used) /\ Cardinality(Used) \in Nat /\ Cardinality(Used) <= Cardinality(Claimed)
  <1>1. ProperlyAsked /\ stage = "registers"
    BY WhoAsks
  <1>2. TypeOK /\ idx \in 1 .. Len(Block) /\ Inst = Block[idx] /\ idx \in Nat /\ RegistersCounted
    BY <1>1, Underway, AtHand DEF StateFaithful
  <1>3. Asked.name \notin SumResults(Block)
    BY <1>1 DEF ProperlyAsked, AskedValue, SumResults
  <1>4. Key(Asked.name, idx) \in Taken(Block)
    BY <1>1, <1>2, <1>3, TakenKeys DEF KeysAt, ProperlyAsked
  <1>5. Key(Asked.name, idx) \notin Claimed
    BY <1>2 DEF Claimed, Key
  <1>6. Cardinality(Used) <= Cardinality(Claimed)
    BY <1>2 DEF RegistersCounted
  <1> QED
    BY <1>2, <1>4, <1>5, <1>6, Room

(* A register that is taken has been claimed by the name that asked for it. *)
LEMMA CountGrows ==
  ASSUME EffectInv, GoodBlock, Asking, ~InRegister(Asked.name), ~MaySpill(Block),
         NEW reg \in AllRegs \ Used, Used' = Used \union {reg},
         Block' = Block, idx' = idx, stage' = stage,
         NEW v, v = Asked.name, InRegister(v)',
         \A w \in Names \ LargeCopies : InRegister(w) => InRegister(w)'
  PROVE  Cardinality(Used') <= Cardinality(Claimed')
  <1> DEFINE key == Key(v, idx)
             C == Claimed
             D == Claimed'
             U == Used
  <1>1. /\ key \in Taken(Block) /\ key \notin C /\ IsFiniteSet(C) /\ Cardinality(C) \in Nat
        /\ IsFiniteSet(U) /\ Cardinality(U) \in Nat /\ Cardinality(U) <= Cardinality(C)
    BY RoomForAsked
  <1>2. TypeOK /\ stage = "registers" /\ blk <= Len(program) /\ Block \in Seq(Instruction) /\ idx \in Nat
    BY WhoAsks, Underway, BlockTyped
  <1>3. key \in D
    BY <1>1, <1>2 DEF Claimed, Key
  <1>4. ASSUME NEW k \in C PROVE k \in D
    <2>1. k \in Taken(Block)
      BY DEF Claimed
    <2>2. PICK i \in 1 .. Len(Block) : k \in KeysAt(Block, i)
      BY <2>1, TakenKeys
    <2>3. k[1] \in Names \ LargeCopies
      BY <1>2, <2>2, RegistersKind DEF KeysAt, Key
    <2> QED
      BY <2>1, <2>3 DEF Claimed
  <1>5. IsFiniteSet(D)
    <2>1. IsFiniteSet(Taken(Block))
      BY <1>2, TakenFinite
    <2>2. D \in SUBSET Taken(Block)
      BY DEF Claimed
    <2> HIDE DEF D
    <2> QED
      BY <2>1, <2>2, FS_Subset
  <1>6. Used' = U \union {reg} /\ reg \notin U
    OBVIOUS
  <1> HIDE DEF key, C, D, U
  <1>7. C \union {key} \in SUBSET D
    BY <1>3, <1>4
  <1>8. Cardinality(C \union {key}) = Cardinality(C) + 1
    BY <1>1, FS_AddElement
  <1>9. Cardinality(C \union {key}) <= Cardinality(D)
    BY <1>5, <1>7, FS_Subset
  <1>10. Cardinality(U \union {reg}) = Cardinality(U) + 1
    BY <1>1, <1>6, FS_AddElement
  <1>11. Cardinality(D) \in Nat
    BY <1>5, FS_CardinalityType
  <1>12. Cardinality(U \union {reg}) <= Cardinality(D)
    BY <1>1, <1>8, <1>9, <1>10, <1>11
  <1> QED
    BY <1>6, <1>12 DEF D

(* A request has been answered with a register, and the position stays. *)
Answering(reg) == Answer(reg) /\ UNCHANGED <<position, stage, freed, fault, globals, stack, reference>>

(* Answering a request leaves the block, the reference and the position alone. *)
LEMMA AnsweringWindow ==
  ASSUME EffectInv, GoodBlock, Asking, NEW reg \in AllRegs, Answering(reg)
  PROVE  /\ Block' = Block /\ Inst' = Inst /\ blk' = blk /\ program' = program /\ idx' = idx
         /\ stage' = "registers" /\ stage = "registers" /\ fault' = fault /\ reference' = reference
         /\ globals' = globals /\ stack' = stack
         /\ Pending' = Pending /\ Later' = Later /\ Defined' = Defined /\ Before(Block, idx)' = Before(Block, idx)
         /\ \A v : (IsUpdated(v)' <=> IsUpdated(v)) /\ (Wanted(v)' <=> Wanted(v)) /\ Meaning(v)' = Meaning(v)
         /\ Len(got) \in Nat /\ Len(got') = Len(got) + 1 /\ got'[Len(got) + 1] = reg
         /\ \A n \in 1 .. Len(got) : got'[n] = got[n]
         /\ got' # <<>> /\ requests' = Tail(requests)
  <1>1. program' = program /\ blk' = blk /\ idx' = idx /\ stage' = stage /\ fault' = fault /\ reference' = reference
        /\ globals' = globals /\ stack' = stack
    BY DEF Answering, position
  <1>2. Block' = Block
    BY <1>1 DEF Block
  <1>3. Inst' = Inst
    BY <1>1, <1>2 DEF Inst
  <1>4. Pending' = Pending /\ Later' = Later /\ Defined' = Defined /\ Before(Block, idx)' = Before(Block, idx)
    BY <1>1, <1>2 DEF Pending, Later, Defined
  <1>5. \A v : (IsUpdated(v)' <=> IsUpdated(v)) /\ Meaning(v)' = Meaning(v)
    BY <1>1, <1>2 DEF IsUpdated, Meaning
  <1>6. \A v : Wanted(v)' <=> Wanted(v)
    BY <1>1, <1>3, <1>4, <1>5 DEF Wanted
  <1>7. stage = "registers" /\ TypeOK
    BY WhoAsks, Underway
  <1>8. got \in Seq(AllRegs \union {NoReg}) /\ got' = Append(got, reg) /\ requests' = Tail(requests)
    BY <1>7 DEF TypeOK, Answering, Answer
  <1>9. /\ Len(got) \in Nat /\ Len(got') = Len(got) + 1 /\ got'[Len(got) + 1] = reg
        /\ \A n \in 1 .. Len(got) : got'[n] = got[n]
    BY <1>8
  <1>10. got' # <<>>
    <2>1. Len(<<>>) = 0
      OBVIOUS
    <2> QED
      BY <1>9, <2>1
  <1> QED
    BY <1>1, <1>2, <1>3, <1>4, <1>5, <1>6, <1>7, <1>8, <1>9, <1>10

(* What was asked for is in reg with its value, or an array's address. *)
Delivered(reg) ==
  /\ Answering(reg) /\ StateFaithful'
  /\ \A v \in Names : v = Asked.name =>
       /\ InRegister(v)' /\ RegOf(v)' = reg /\ (InRegister(v) => RegOf(v) = reg)
       /\ v \in Arrays => Value(v)' = AddressOf(v)
       /\ v \in Scalars \union Literals \/ v \in (Temps \union Consts) \intersect Defined => Loaded(v)'
       /\ v \in Consts => ~(addressTable'[v].isAddress /\ ~Asked.address)
  /\ \A w \in Names : w # Asked.name =>
       /\ InRegister(w)' => InRegister(w)
       /\ Held(w) /\ ~MaySpill(Block) => addressTable'[w] = addressTable[w] /\ Value(w)' = Value(w)

(* A register that nobody is in, or whose scalar has just been stored, is taken. *)
LEMMA TakeEffect ==
  ASSUME EffectInv, GoodBlock, Asking, NEW reg \in AllRegs, NEW table, NEW owners, NEW m,
         Grant(reg, table, owners, m), Answering(reg), ~InRegister(Asked.name),
         table \in [Names -> Location],
         \A w \in Names :
           \/ table[w] = addressTable[w]
           \/ /\ w \in Scalars /\ table[w] = Global /\ m.mem[w] = reference.env[w]
              /\ InRegister(w) /\ RegOf(w) = reg /\ MaySpill(Block),
         DOMAIN m = {"reg", "mem", "heap", "flags", "output"}, m.reg = machine.reg,
         m.heap = machine.heap, m.flags = machine.flags, m.output = machine.output,
         \A w \in Names : m.mem[w] = machine.mem[w] \/ (w \in Scalars /\ m.mem[w] = reference.env[w]),
         \A w \in Names : Held(w) /\ table[w] = addressTable[w] => RegOf(w) # reg,
         owners \in [AllRegs -> Names \union {Free}], \A r \in AllRegs \ {reg} : owners[r] = regTable[r],
         reg \notin Used \/ MaySpill(Block), Asked.type = "GPR" => reg \in GPR
  PROVE  Delivered(reg)
  <1>1. /\ Block' = Block /\ Inst' = Inst /\ blk' = blk /\ program' = program /\ idx' = idx
        /\ stage' = "registers" /\ stage = "registers" /\ reference' = reference /\ globals' = globals
        /\ Pending' = Pending /\ Later' = Later /\ Defined' = Defined /\ Before(Block, idx)' = Before(Block, idx)
        /\ \A v : (IsUpdated(v)' <=> IsUpdated(v)) /\ (Wanted(v)' <=> Wanted(v)) /\ Meaning(v)' = Meaning(v)
        /\ Len(got) \in Nat /\ Len(got') = Len(got) + 1 /\ got'[Len(got) + 1] = reg
        /\ \A n \in 1 .. Len(got) : got'[n] = got[n]
    BY AnsweringWindow
  <1>2. /\ TypeOK /\ StateFaithful /\ MachineTyped /\ idx <= Len(Block)
    BY <1>1, Underway DEF EffectInv, TableInv
  <1>3. ProperlyAsked
    BY WhoAsks
  <1>4. PICK v \in Names : v = Asked.name
    BY <1>2, FirstAsked DEF Asking
  <1>5. PICK b \in BOOLEAN : b = Asked.address
    BY <1>2, FirstAsked DEF Asking
  <1>6. /\ v \in Mentions(Inst) /\ v \in UNION {Scalars, Arrays, Consts, Temps, Literals} /\ v \notin LargeCopies
        /\ v \in Literals => v \in Operands(Inst)
        /\ v \in Scalars \union Literals => ~b
        /\ v \in Arrays => b
        /\ v \in Temps \union Consts => v \notin Defined
        /\ v \in InRegisters(Inst) /\ ~IsDeclaration(Inst) /\ ~InRegister(v)
    BY <1>3, <1>4, <1>5, NamesApart DEF ProperlyAsked, AskedValue
  <1>7. table[v] = addressTable[v]
    BY <1>6
  <1> DEFINE x == CASE table[v].type \in {"none", "register"} -> m.reg[reg]
                    [] table[v].type = "global" /\ b -> AddressOf(v)
                    [] OTHER -> Read(v, table[v], m)
  <1>8. /\ machine' = [m EXCEPT !.reg[reg] = x] /\ regTable' = [owners EXCEPT ![reg] = v]
        /\ addressTable' = [table EXCEPT ![v] = Register(reg, b)]
    BY <1>4, <1>5, <1>6 DEF Grant
  <1>9. v \in Scalars => x = reference.env[v] /\ Meaning(v) = reference.env[v]
    <2> SUFFICES ASSUME v \in Scalars PROVE x = reference.env[v] /\ Meaning(v) = reference.env[v]
      OBVIOUS
    <2>1. /\ addressTable[v] = Global /\ machine.mem[v] = reference.env[v] /\ Meaning(v) = reference.env[v]
      BY <1>1, <1>6, ScalarOperand
    <2>2. x = m.mem[v]
      BY <1>6, <1>7, <2>1, LocationsApart DEF Read
    <2> QED
      BY <2>1, <2>2
  <1>10. v \in Arrays => x = AddressOf(v)
    <2> SUFFICES ASSUME v \in Arrays PROVE x = AddressOf(v)
      OBVIOUS
    <2>1. addressTable[v] = Global
      BY <1>2, <1>6, DeclaredHere
    <2> QED
      BY <1>6, <1>7, <2>1, LocationsApart
  <1>11. v \in Literals => x = Meaning(v)
    <2> SUFFICES ASSUME v \in Literals PROVE x = Meaning(v)
      OBVIOUS
    <2>1. addressTable[v] = Immediate
      BY <1>1, <1>6, LiteralOperand DEF Loaded
    <2> QED
      BY <1>7, <2>1, LocationsApart DEF Read, Meaning
  <1> HIDE DEF x
  <1>12. /\ machine'.reg = [machine.reg EXCEPT ![reg] = x] /\ machine'.mem = m.mem
         /\ machine'.heap = machine.heap /\ machine'.flags = machine.flags /\ machine'.output = machine.output
         /\ machine'.reg[reg] = x
         /\ \A r \in AllRegs : r # reg => machine'.reg[r] = machine.reg[r]
    BY <1>2, <1>8 DEF MachineTyped
  <1>13. /\ addressTable'[v] = Register(reg, b) /\ \A w \in Names \ {v} : addressTable'[w] = table[w]
         /\ regTable'[reg] = v /\ \A r \in AllRegs \ {reg} : regTable'[r] = regTable[r]
    BY <1>8
  <1>14. InRegister(v)' /\ RegOf(v)' = reg /\ Value(v)' = x /\ addressTable'[v].isAddress = b
    BY <1>12, <1>13, LocationsApart DEF InRegister, RegOf, Value
  <1>15. ASSUME NEW w \in Names \ {v}, InRegister(w)'
         PROVE  /\ InRegister(w) /\ addressTable'[w] = addressTable[w] /\ RegOf(w)' = RegOf(w)
                /\ RegOf(w) \in AllRegs
                /\ Held(w) \/ Held(w)' => Held(w) /\ Value(w)' = Value(w) /\ RegOf(w) # reg
    <2>1. addressTable'[w] = addressTable[w] /\ table[w] = addressTable[w]
      BY <1>13, <1>15, LocationsApart DEF InRegister
    <2>2. InRegister(w) /\ RegOf(w)' = RegOf(w) /\ RegOf(w) \in AllRegs
      BY <1>2, <1>15, <2>1, RegisterTyped DEF InRegister, RegOf, TypeOK
    <2>3. Held(w)' => Held(w)
      BY <1>1, <2>2 DEF Held
    <2> QED
      BY <1>12, <2>1, <2>2, <2>3 DEF Value
  <1>16. \A w \in Names \ Scalars : InRegister(w) => InRegister(w)'
    BY <1>6, <1>13, <1>14 DEF InRegister
  <1>17. OnlyMentionedLocated' /\ LocatedAreDeclared'
    <2>1. OnlyMentionedLocated'
      <3> SUFFICES ASSUME NEW w \in Names, InRegister(w)'
                   PROVE  \/ w \in Before(Block, idx)
                          \/ w \in Mentions(Inst) /\ \E n \in 1 .. Len(got') : got'[n] = RegOf(w)'
        BY <1>1 DEF OnlyMentionedLocated
      <3>1. CASE w = v
        <4>1. Len(got) + 1 \in 1 .. Len(got')
          BY <1>1
        <4> QED
          BY <1>1, <1>6, <1>14, <3>1, <4>1
      <3>2. CASE w # v
        <4>1. InRegister(w) /\ RegOf(w)' = RegOf(w)
          BY <1>15, <3>2
        <4>2. \A n \in 1 .. Len(got) : n \in 1 .. Len(got')
          BY <1>1
        <4> QED
          BY <1>1, <1>2, <4>1, <4>2 DEF StateFaithful, OnlyMentionedLocated
      <3> QED
        BY <3>1, <3>2
    <2>2. v \in Scalars \union Arrays => v \in globals
      BY <1>2, <1>6, DeclaredHere
    <2>3. LocatedAreDeclared'
      <3> SUFFICES ASSUME NEW w \in Scalars \union Arrays, InRegister(w)' PROVE w \in globals
        BY <1>1 DEF LocatedAreDeclared
      <3>1. w \in Names
        BY NamesApart
      <3> QED
        BY <1>2, <1>15, <2>2, <3>1 DEF StateFaithful, LocatedAreDeclared
    <2> QED
      BY <2>1, <2>3
  <1>18. ScalarsRight'
    <2> SUFFICES ASSUME NEW w \in Scalars
                 PROVE  /\ ~InRegister(w)' \/ ~IsUpdated(w) => machine'.mem[w] = reference.env[w]
                        /\ Held(w)' => ~addressTable'[w].isAddress /\ Value(w)' = reference.env[w]
      BY <1>1 DEF ScalarsRight
    <2>1. w \in Names
      BY NamesApart
    <2>2. ~InRegister(w)' \/ ~IsUpdated(w) => machine'.mem[w] = reference.env[w]
      <3>1. CASE m.mem[w] = reference.env[w]
        BY <1>12, <3>1
      <3>2. CASE m.mem[w] = machine.mem[w] /\ table[w] = addressTable[w]
        <4>1. ~InRegister(w)' => ~InRegister(w)
          BY <1>6, <1>13, <2>1, <3>2 DEF InRegister
        <4> QED
          BY <1>2, <1>12, <3>2, <4>1 DEF StateFaithful, ScalarsRight
      <3> QED
        BY <2>1, <3>1, <3>2
    <2>3. CASE w = v
      BY <1>6, <1>9, <1>14, <2>2, <2>3
    <2>4. CASE w # v
      <3>1. Held(w)' => InRegister(w)'
        BY DEF Held
      <3> QED
        BY <1>2, <1>15, <2>1, <2>2, <2>4, <3>1 DEF StateFaithful, ScalarsRight
    <2> QED
      BY <2>3, <2>4
  <1>19. ValuesKept'
    <2> SUFFICES ASSUME NEW w \in (Temps \union Consts) \intersect Defined \intersect Pending
                 PROVE  Kept(w)' \/ (got' # <<>> /\ w \notin Later /\ Loaded(w)')
      BY <1>1 DEF ValuesKept
    <2>1. w \in Names \ {v} /\ w \notin Scalars /\ w \notin Literals
      BY <1>6, NamesApart
    <2>2. Kept(w) \/ (got # <<>> /\ w \notin Later /\ Loaded(w))
      BY <1>2 DEF StateFaithful, ValuesKept
    <2>3. InRegister(w) /\ InRegister(w)'
      BY <1>16, <2>1, <2>2 DEF Kept, Loaded
    <2>4. Held(w)
      BY <2>1, <2>3 DEF Held, Wanted
    <2>5. addressTable'[w] = addressTable[w] /\ Value(w)' = Value(w)
      BY <1>15, <2>1, <2>3, <2>4
    <2>6. got' # <<>>
      BY AnsweringWindow
    <2> QED
      BY <1>1, <2>2, <2>3, <2>5, <2>6 DEF Kept, Loaded
  <1>20. ArraysAddressed'
    <2> SUFFICES ASSUME NEW w \in Arrays, Held(w)' PROVE addressTable'[w].isAddress /\ Value(w)' = AddressOf(w)
      BY DEF ArraysAddressed
    <2>1. w \in Names /\ InRegister(w)'
      BY NamesApart DEF Held
    <2>2. CASE w = v
      BY <1>6, <1>10, <1>14, <2>2
    <2>3. CASE w # v
      BY <1>2, <1>15, <2>1, <2>3 DEF StateFaithful, ArraysAddressed
    <2> QED
      BY <2>2, <2>3
  <1>21. Unshared'
    <2> SUFFICES ASSUME NEW u \in Names, NEW w \in Names, Held(u)', Held(w)', u # w PROVE RegOf(u)' # RegOf(w)'
      BY DEF Unshared
    <2>1. InRegister(u)' /\ InRegister(w)'
      BY DEF Held
    <2>2. CASE u = v
      BY <1>14, <1>15, <2>1, <2>2
    <2>3. CASE w = v
      BY <1>14, <1>15, <2>1, <2>3
    <2>4. CASE u # v /\ w # v
      BY <1>2, <1>15, <2>1, <2>4 DEF StateFaithful, Unshared
    <2> QED
      BY <2>2, <2>3, <2>4
  <1>22. PlacesInPlace' /\ SameEffects' /\ FlagsUntouched'
    BY <1>1, <1>2, <1>12 DEF StateFaithful, PlacesInPlace, SameEffects, FlagsUntouched
  <1>23. CopiesIntact'
    <2> SUFFICES ASSUME NEW w \in LargeCopies PROVE machine'.mem[w] = <<"initially", w>>
      BY DEF CopiesIntact
    <2>1. w \in Names /\ w \notin Scalars
      BY NamesApart
    <2> QED
      BY <1>2, <1>12, <2>1 DEF StateFaithful, CopiesIntact
  <1>24. LiteralsReady'
    <2> SUFFICES ASSUME NEW w \in Operands(Inst) \intersect Literals
                 PROVE  addressTable'[w] = Immediate \/ Loaded(w)'
      BY <1>1 DEF LiteralsReady
    <2>1. w \in Names /\ w \notin Scalars /\ Wanted(w)
      BY <1>1, NamesApart DEF Wanted
    <2>2. CASE w = v
      BY <1>1, <1>6, <1>11, <1>14, <2>2 DEF Loaded
    <2>3. CASE w # v
      <3>1. addressTable'[w] = addressTable[w]
        BY <1>13, <2>1, <2>3
      <3>2. addressTable[w] = Immediate \/ Loaded(w)
        BY <1>1, <2>1, LiteralOperand
      <3>3. CASE Loaded(w)
        <4>1. InRegister(w) /\ InRegister(w)' /\ Held(w)
          BY <1>16, <2>1, <3>3 DEF Loaded, Held
        <4>2. Value(w)' = Value(w)
          BY <1>15, <2>1, <2>3, <4>1
        <4> QED
          BY <1>1, <3>1, <3>3, <4>1, <4>2 DEF Loaded
      <3> QED
        BY <3>1, <3>2, <3>3
    <2> QED
      BY <2>2, <2>3
  <1>25. RegistersCounted'
    <2>1. CASE MaySpill(Block)
      <3>1. OwnersRight /\ InRegisters(Inst) \subseteq Scalars
        BY <1>2, <2>1, SpillingBlock
      <3>2. v \in Scalars /\ v \notin Temps
        BY <1>6, <3>1, NamesApart
      <3>3. reg \in GPR
        BY <1>3, <1>4, <3>2 DEF ProperlyAsked
      <3>4. \A r \in Used' : r = reg \/ r \in Used
        BY <1>13 DEF Used
      <3>5. ASSUME NEW r \in Used'
            PROVE  /\ regTable'[r] \in Scalars
                   /\ addressTable'[regTable'[r]] = Register(r, FALSE)
                   /\ machine'.reg[r] = reference.env[regTable'[r]]
        <4>1. CASE r = reg
          <5>1. addressTable'[v] = Register(reg, FALSE)
            BY <1>6, <1>13, <3>2
          <5> QED
            BY <1>9, <1>12, <1>13, <3>2, <4>1, <5>1
        <4>2. CASE r # reg
          <5>1. r \in Used /\ r \in AllRegs /\ regTable'[r] = regTable[r]
            BY <1>13, <3>4, <4>2 DEF Used
          <5> DEFINE o == regTable[r]
          <5>2. o \in Scalars /\ o \in Names /\ addressTable[o] = Register(r, FALSE) /\ machine.reg[r] = reference.env[o]
            BY <3>1, <5>1, NamesApart DEF OwnersRight
          <5> HIDE DEF o
          <5>3. InRegister(o) /\ RegOf(o) = r
            BY <5>2 DEF InRegister, RegOf, Register, At
          <5>4. o # v /\ table[o] = addressTable[o]
            BY <1>6, <4>2, <5>2, <5>3
          <5>5. addressTable'[o] = Register(r, FALSE) /\ machine'.reg[r] = reference.env[o]
            BY <1>12, <1>13, <4>2, <5>1, <5>2, <5>4
          <5> QED
            BY <5>1, <5>2, <5>5 DEF o
        <4> QED
          BY <4>1, <4>2
      <3>6. ASSUME NEW w \in Names, Held(w)' PROVE regTable'[RegOf(w)'] = w
        <4>1. InRegister(w)'
          BY <3>6 DEF Held
        <4>2. CASE w = v
          BY <1>13, <1>14, <4>2
        <4>3. CASE w # v
          <5>1. Held(w) /\ RegOf(w)' = RegOf(w) /\ RegOf(w) # reg /\ RegOf(w) \in AllRegs
            BY <1>15, <3>6, <4>1, <4>3
          <5> QED
            BY <1>13, <3>1, <5>1 DEF OwnersRight
        <4> QED
          BY <4>2, <4>3
      <3>7. Used' \subseteq GPR
        BY <3>1, <3>3, <3>4 DEF OwnersRight
      <3> QED
        BY <1>1, <2>1, <3>5, <3>6, <3>7 DEF RegistersCounted, OwnersRight
    <2>2. CASE ~MaySpill(Block)
      <3>1. reg \in AllRegs \ Used /\ table = addressTable
        <4>1. \A w \in Names : table[w] = addressTable[w]
          BY <2>2
        <4>2. addressTable \in [Names -> Location]
          BY <1>2 DEF TypeOK
        <4>3. table = addressTable
          BY <4>1, <4>2
        <4> QED
          BY <2>2, <4>3
      <3>2. Used' = Used \union {reg}
        BY <1>4, <1>13, NamesApart DEF Used
      <3>3. \A w \in Names \ LargeCopies : InRegister(w) => InRegister(w)'
        <4> SUFFICES ASSUME NEW w \in Names \ LargeCopies, InRegister(w) PROVE InRegister(w)'
          OBVIOUS
        <4> QED
          BY <1>6, <1>13, <3>1 DEF InRegister
      <3>4. Cardinality(Used') <= Cardinality(Claimed')
        BY <1>1, <1>4, <1>14, <2>2, <3>1, <3>2, <3>3, CountGrows
      <3> QED
        BY <1>1, <2>2, <3>4 DEF RegistersCounted
    <2> QED
      BY <2>1, <2>2
  <1>26. StateFaithful'
    BY <1>17, <1>18, <1>19, <1>20, <1>21, <1>22, <1>23, <1>24, <1>25 DEF StateFaithful
  <1>27. v \in Scalars \union Literals \/ v \in (Temps \union Consts) \intersect Defined => Loaded(v)'
    BY <1>1, <1>6, <1>9, <1>11, <1>14 DEF Loaded
  <1>28. ASSUME NEW w \in Names, w # v
         PROVE  /\ InRegister(w)' => InRegister(w)
                /\ Held(w) /\ ~MaySpill(Block) => addressTable'[w] = addressTable[w] /\ Value(w)' = Value(w)
    <2>1. InRegister(w)' => InRegister(w)
      BY <1>15, <1>28
    <2>2. ASSUME Held(w), ~MaySpill(Block) PROVE addressTable'[w] = addressTable[w] /\ Value(w)' = Value(w)
      <3>1. addressTable'[w] = addressTable[w]
        BY <1>13, <1>28, <2>2
      <3>2. InRegister(w)'
        BY <2>2, <3>1 DEF Held, InRegister
      <3> QED
        BY <1>15, <1>28, <2>2, <3>2
    <2> QED
      BY <2>1, <2>2
  <1> QED
    BY <1>4, <1>5, <1>6, <1>10, <1>14, <1>26, <1>27, <1>28 DEF Delivered

(* What was asked for stays in its register, with its own value from now on. *)
LEMMA StayEffect ==
  ASSUME EffectInv, GoodBlock, Asking, NEW v \in Names, v = Asked.name, InRegister(v),
         NEW reg \in AllRegs, reg = RegOf(v), Answering(reg), NEW b \in BOOLEAN, NEW x,
         addressTable'[v] = Register(reg, b), \A w \in Names \ {v} : addressTable'[w] = addressTable[w],
         machine'.reg[reg] = x, \A r \in AllRegs \ {reg} : machine'.reg[r] = machine.reg[r],
         machine'.mem = machine.mem, machine'.heap = machine.heap, machine'.flags = machine.flags,
         machine'.output = machine.output,
         Used' = Used, ~MaySpill(Block) \/ UNCHANGED <<regTable, addressTable, machine>>,
         v \in Arrays => b /\ x = AddressOf(v), v \notin Arrays => ~b /\ x = Meaning(v)
  PROVE  Delivered(reg)
  <1>1. /\ Block' = Block /\ Inst' = Inst /\ blk' = blk /\ program' = program /\ idx' = idx
        /\ stage' = "registers" /\ stage = "registers" /\ reference' = reference /\ globals' = globals
        /\ Pending' = Pending /\ Later' = Later /\ Defined' = Defined /\ Before(Block, idx)' = Before(Block, idx)
        /\ \A w : (IsUpdated(w)' <=> IsUpdated(w)) /\ (Wanted(w)' <=> Wanted(w)) /\ Meaning(w)' = Meaning(w)
        /\ Len(got) \in Nat /\ Len(got') = Len(got) + 1 /\ got'[Len(got) + 1] = reg
        /\ \A n \in 1 .. Len(got) : got'[n] = got[n]
        /\ got' # <<>>
    BY AnsweringWindow
  <1>2. /\ TypeOK /\ StateFaithful /\ idx <= Len(Block)
    BY <1>1, Underway
  <1>3. /\ v \in Mentions(Inst) /\ v \in UNION {Scalars, Arrays, Consts, Temps, Literals}
        /\ v \notin Literals /\ (v \in Temps \union Consts => AskedValue)
    BY WhoAsks DEF ProperlyAsked
  <1>4. /\ v \in Pending /\ Wanted(v) /\ Held(v)
    BY <1>1, <1>2, <1>3, WantedOperand, AtHand DEF Held
  <1>5. v \in Temps \union Consts => v \in Defined /\ (IsPlace(reference.env[v]) => v \notin Later)
    BY <1>3 DEF AskedValue
  <1>6. InRegister(v)' /\ RegOf(v)' = reg /\ Value(v)' = x /\ addressTable'[v].isAddress = b
    BY LocationsApart DEF InRegister, RegOf, Value
  <1>7. \A w \in Names : InRegister(w)' <=> InRegister(w)
    BY <1>6 DEF InRegister
  <1>8. ASSUME NEW w \in Names \ {v}, InRegister(w)
        PROVE  /\ addressTable'[w] = addressTable[w] /\ RegOf(w)' = RegOf(w)
               /\ Held(w)' <=> Held(w)
               /\ Held(w) => Value(w)' = Value(w)
    <2>1. addressTable'[w] = addressTable[w] /\ RegOf(w)' = RegOf(w) /\ RegOf(w) \in AllRegs
      BY <1>2, <1>8, RegisterTyped DEF InRegister, RegOf, TypeOK
    <2>2. Held(w)' <=> Held(w)
      BY <1>1, <1>7 DEF Held
    <2>3. Held(w) => RegOf(w) # reg
      BY <1>2, <1>4, <1>8 DEF StateFaithful, Unshared
    <2> QED
      BY <2>1, <2>2, <2>3 DEF Value
  <1>9. OnlyMentionedLocated' /\ LocatedAreDeclared'
    <2>1. OnlyMentionedLocated'
      <3> SUFFICES ASSUME NEW w \in Names, InRegister(w)
                   PROVE  \/ w \in Before(Block, idx)
                          \/ w \in Mentions(Inst) /\ \E n \in 1 .. Len(got') : got'[n] = RegOf(w)'
        BY <1>1, <1>7 DEF OnlyMentionedLocated
      <3>1. RegOf(w)' = RegOf(w)
        BY <1>6, <1>8
      <3>2. \A n \in 1 .. Len(got) : n \in 1 .. Len(got')
        BY <1>1
      <3> QED
        BY <1>1, <1>2, <3>1, <3>2 DEF StateFaithful, OnlyMentionedLocated
    <2>2. LocatedAreDeclared'
      BY <1>1, <1>2, <1>7, NamesApart DEF StateFaithful, LocatedAreDeclared
    <2> QED
      BY <2>1, <2>2
  <1>10. ScalarsRight'
    <2> SUFFICES ASSUME NEW w \in Scalars
                 PROVE  /\ ~InRegister(w)' \/ ~IsUpdated(w) => machine'.mem[w] = reference.env[w]
                        /\ Held(w)' => ~addressTable'[w].isAddress /\ Value(w)' = reference.env[w]
      BY <1>1 DEF ScalarsRight
    <2>1. w \in Names /\ w \notin Arrays
      BY NamesApart
    <2>2. ~InRegister(w)' \/ ~IsUpdated(w) => machine'.mem[w] = reference.env[w]
      BY <1>2, <1>7, <2>1 DEF StateFaithful, ScalarsRight
    <2>3. CASE w = v
      <3>1. Meaning(v) = reference.env[v]
        BY <1>2, <1>3, <2>3, NamesApart, NoPlace DEF StateFaithful
      <3> QED
        BY <1>6, <2>1, <2>2, <2>3, <3>1
    <2>4. CASE w # v
      <3>1. Held(w)' => InRegister(w)
        BY <1>7, <2>1 DEF Held
      <3> QED
        BY <1>2, <1>8, <2>1, <2>2, <2>4, <3>1 DEF StateFaithful, ScalarsRight
    <2> QED
      BY <2>3, <2>4
  <1>11. ValuesKept'
    <2> SUFFICES ASSUME NEW w \in (Temps \union Consts) \intersect Defined \intersect Pending
                 PROVE  Kept(w)' \/ (w \notin Later /\ Loaded(w)')
      BY <1>1 DEF ValuesKept
    <2>1. w \in Names /\ w \notin Arrays /\ w \notin Literals
      BY NamesApart
    <2>2. CASE w = v
      <3>1. Loaded(w)'
        BY <1>1, <1>6, <2>1, <2>2 DEF Loaded
      <3>2. IsPlace(reference.env[w]) => w \notin Later
        BY <1>5, <2>2
      <3>3. ~IsPlace(reference.env[w]) => Kept(w)'
        BY <1>1, <2>1, <3>1 DEF Loaded, Kept, Meaning
      <3> QED
        BY <3>1, <3>2, <3>3
    <2>3. CASE w # v
      <3>1. Kept(w) \/ (w \notin Later /\ Loaded(w))
        BY <1>2 DEF StateFaithful, ValuesKept
      <3>2. InRegister(w) /\ Held(w)
        BY <2>1, <3>1 DEF Kept, Loaded, Held, Wanted
      <3>3. addressTable'[w] = addressTable[w] /\ Value(w)' = Value(w) /\ InRegister(w)'
        BY <1>7, <1>8, <2>1, <2>3, <3>2
      <3> QED
        BY <1>1, <3>1, <3>3 DEF Kept, Loaded
    <2> QED
      BY <2>2, <2>3
  <1>12. ArraysAddressed'
    <2> SUFFICES ASSUME NEW w \in Arrays, Held(w)' PROVE addressTable'[w].isAddress /\ Value(w)' = AddressOf(w)
      BY DEF ArraysAddressed
    <2>1. w \in Names /\ InRegister(w)
      BY <1>7, NamesApart DEF Held
    <2> QED
      BY <1>2, <1>6, <1>8, <2>1 DEF StateFaithful, ArraysAddressed
  <1>13. Unshared'
    <2> SUFFICES ASSUME NEW u \in Names, NEW w \in Names, Held(u)', Held(w)', u # w PROVE RegOf(u)' # RegOf(w)'
      BY DEF Unshared
    <2>1. \A z \in {u, w} : Held(z) /\ RegOf(z)' = RegOf(z)
      BY <1>4, <1>6, <1>7, <1>8 DEF Held
    <2> QED
      BY <1>2, <2>1 DEF StateFaithful, Unshared
  <1>14. PlacesInPlace' /\ SameEffects' /\ FlagsUntouched' /\ CopiesIntact'
    BY <1>1, <1>2 DEF StateFaithful, PlacesInPlace, SameEffects, FlagsUntouched, CopiesIntact
  <1>15. LiteralsReady'
    <2> SUFFICES ASSUME NEW w \in Operands(Inst) \intersect Literals
                 PROVE  addressTable'[w] = Immediate \/ Loaded(w)'
      BY <1>1 DEF LiteralsReady
    <2>1. w \in Names /\ w # v /\ Wanted(w) /\ addressTable'[w] = addressTable[w]
      BY <1>1, <1>3, NamesApart DEF Wanted
    <2>2. addressTable[w] = Immediate \/ Loaded(w)
      BY <1>1, LiteralOperand
    <2>3. ASSUME Loaded(w) PROVE Loaded(w)'
      <3>1. InRegister(w) /\ InRegister(w)' /\ Held(w)
        BY <1>7, <2>1, <2>3 DEF Loaded, Held
      <3>2. Value(w)' = Value(w)
        BY <1>8, <2>1, <3>1
      <3> QED
        BY <1>1, <2>1, <2>3, <3>1, <3>2 DEF Loaded
    <2> QED
      BY <2>1, <2>2, <2>3
  <1>16. RegistersCounted'
    <2>1. CASE MaySpill(Block)
      <3>1. UNCHANGED <<regTable, addressTable, machine>>
        BY <2>1
      <3>2. OwnersRight
        BY <1>2, <2>1 DEF StateFaithful, RegistersCounted
      <3>3. \A w \in Names : RegOf(w)' = RegOf(w) /\ (Held(w)' <=> Held(w))
        BY <1>1, <1>7, <3>1 DEF RegOf, Held
      <3>4. OwnersRight'
        BY <1>1, <3>1, <3>2, <3>3 DEF OwnersRight
      <3> QED
        BY <1>1, <2>1, <3>4 DEF RegistersCounted
    <2>2. CASE ~MaySpill(Block)
      <3>1. Cardinality(Used) <= Cardinality(Claimed)
        BY <1>2, <2>2 DEF StateFaithful, RegistersCounted
      <3>2. Claimed \subseteq Claimed'
        <4> SUFFICES ASSUME NEW k \in Claimed PROVE k \in Claimed'
          OBVIOUS
        <4>1. k \in Taken(Block)
          BY DEF Claimed
        <4>2. PICK i \in 1 .. Len(Block) : k \in KeysAt(Block, i)
          BY <4>1, TakenKeys
        <4>3. k[1] \in Names
          BY <1>2, <4>2, RegistersKind DEF KeysAt, Key
        <4> QED
          BY <1>1, <1>7, <4>1, <4>3 DEF Claimed
      <3>3. Cardinality(Used') <= Cardinality(Claimed')
        BY <1>1, <3>1, <3>2, CountStays
      <3> QED
        BY <1>1, <2>2, <3>3 DEF RegistersCounted
    <2> QED
      BY <2>1, <2>2
  <1>17. StateFaithful'
    BY <1>9, <1>10, <1>11, <1>12, <1>13, <1>14, <1>15, <1>16 DEF StateFaithful
  <1>18. v \notin Arrays => Loaded(v)'
    BY <1>1, <1>6 DEF Loaded
  <1>19. \A w \in Names \ {v} : /\ InRegister(w)' => InRegister(w)
                                /\ Held(w) => addressTable'[w] = addressTable[w] /\ Value(w)' = Value(w)
    BY <1>7, <1>8 DEF Held
  <1>20. v \in Consts \union Temps => ~b /\ v \notin Arrays
    BY NamesApart
  <1>21. v \in UNION {Scalars, Literals, Consts, Temps} => Loaded(v)'
    BY <1>18, NamesApart
  <1> QED
    BY <1>6, <1>17, <1>19, <1>20, <1>21 DEF Delivered

(* The register the name is in already. *)
LEMMA AlreadyDelivers ==
  ASSUME EffectInv, GoodBlock, AlreadyInRegister
  PROVE  \E reg \in AllRegs : Delivered(reg)
  <1>1. Asking /\ HasRegister /\ ProperlyAsked /\ stage = "registers" /\ requests # <<>>
    BY WhoAsks DEF AlreadyInRegister, Asking
  <1>2. TypeOK /\ StateFaithful /\ idx <= Len(Block)
    BY <1>1, Underway
  <1>3. PICK v \in Names : v = Asked.name
    BY <1>1, <1>2, FirstAsked
  <1>4. InRegister(v) /\ (addressTable[v].isAddress => Asked.address)
    BY <1>1, <1>3 DEF HasRegister
  <1> DEFINE reg == RegOf(v)
             b == addressTable[v].isAddress
             x == Value(v)
  <1>5. addressTable[v] \in Location /\ reg \in AllRegs /\ b \in BOOLEAN /\ addressTable[v] = Register(reg, b)
    BY <1>2, <1>4, LocationsApart DEF TypeOK, InRegister, RegOf
  <1>6. Answering(reg) /\ UNCHANGED <<regTable, addressTable, machine>>
    BY <1>3 DEF AlreadyInRegister, Answering, tables, RegOf
  <1>7. /\ v \in Mentions(Inst) /\ v \in UNION {Scalars, Arrays, Consts, Temps, Literals} /\ v \notin Literals
        /\ v \in Scalars => ~Asked.address
        /\ v \in Temps \union Consts => AskedValue
        /\ ~IsDeclaration(Inst)
    BY <1>1, <1>3, <1>4 DEF ProperlyAsked
  <1>8. Held(v)
    BY <1>1, <1>4, <1>7, WantedOperand DEF Held
  <1>9. v \in Arrays => b /\ x = AddressOf(v)
    BY <1>2, <1>8 DEF StateFaithful, ArraysAddressed
  <1>10. v \notin Arrays => ~b /\ x = Meaning(v)
    <2>1. CASE v \in Scalars
      <3>1. ~b /\ x = reference.env[v]
        BY <1>2, <1>8, <2>1 DEF StateFaithful, ScalarsRight
      <3>2. Meaning(v) = reference.env[v]
        BY <1>1, <1>7, <2>1, ScalarOperand
      <3> QED
        BY <3>1, <3>2
    <2>2. CASE v \in Temps \union Consts
      <3>1. ~Asked.address /\ (Kept(v) \/ Loaded(v))
        BY <1>3, <1>4, <1>7, <2>2 DEF AskedValue
      <3>2. ~b
        BY <1>4, <3>1
      <3> QED
        BY <1>7, <3>1, <3>2 DEF Kept, Loaded, Meaning
    <2> QED
      BY <1>7, <2>1, <2>2
  <1>11. Used' = Used
    BY <1>6 DEF Used
  <1>12. machine'.reg[reg] = x
    BY <1>6 DEF Value
  <1> HIDE DEF reg, b, x
  <1>13. reg = RegOf(v)
    BY DEF reg
  <1>14. addressTable'[v] = Register(reg, b)
    BY <1>5, <1>6
  <1>15. Delivered(reg)
    BY <1>1, <1>3, <1>4, <1>5, <1>6, <1>9, <1>10, <1>11, <1>12, <1>13, <1>14, StayEffect
  <1> QED
    BY <1>5, <1>15

(* A register whose owner is done with, reused for the operand. *)
LEMMA ReuseDelivers ==
  ASSUME EffectInv, GoodBlock, ReuseRegister
  PROVE  \E reg \in AllRegs : Delivered(reg)
  <1>1. Asking /\ ~HasRegister /\ Reusable /\ ProperlyAsked /\ stage = "registers" /\ requests # <<>>
    BY WhoAsks DEF ReuseRegister, Asking
  <1>2. TypeOK /\ StateFaithful /\ idx \in 1 .. Len(Block) /\ idx <= Len(Block) /\ Inst = Block[idx] /\ MachineTyped
    BY <1>1, Underway, AtHand DEF EffectInv, TableInv
  <1>3. PICK v \in Names : v = Asked.name
    BY <1>1, <1>2, FirstAsked
  <1>4. InRegister(v) /\ v \in Temps /\ v \in Mentions(Inst) /\ v \in InRegisters(Inst) /\ AskedValue
    BY <1>1, <1>3 DEF Reusable, IsLive, ProperlyAsked
  <1> DEFINE reg == addressTable[v].reg
  <1>5. addressTable[v] \in Location /\ reg \in AllRegs /\ reg = RegOf(v)
    BY <1>2, <1>4, LocationsApart DEF TypeOK, InRegister, RegOf
  <1>6. v \notin globals
    BY <1>4, NamesApart DEF EffectInv, TableInv, GlobalsDeclared
  <1>7. v \notin stack
    <2>1. v \in After(Block, 0)
      BY <1>2, <1>4 DEF After
    <2> QED
      BY <1>4, <2>1 DEF GoodBlock, NothingOnStack
  <1>8. Grant(reg, addressTable, regTable, machine) /\ stack' = stack
    BY <1>3, <1>6, <1>7 DEF ReuseRegister
  <1>9. Answering(reg)
    BY <1>8 DEF ReuseRegister, Answering, Grant
  <1>10. ~MaySpill(Block)
    BY <1>2, <1>4, SpillingBlock, NamesApart
  <1>11. /\ ~Asked.address /\ (Kept(v) \/ (v \notin Later /\ Loaded(v)))
         /\ IsPlace(reference.env[v]) => Asked.force
    BY <1>3, <1>4 DEF AskedValue
  <1> DEFINE x == IF Asked.force THEN Load(machine.reg[reg], machine.heap) ELSE machine.reg[reg]
  <1>12. /\ regTable' = [regTable EXCEPT ![reg] = v]
         /\ addressTable' = [addressTable EXCEPT ![v] = Register(reg, Asked.address)]
         /\ machine' = [machine EXCEPT !.reg[reg] = x]
    BY <1>3, <1>4, <1>8 DEF Grant, InRegister
  <1>13. x = Meaning(v)
    <2>1. v \notin Literals /\ SameEffects
      BY <1>2, <1>4, NamesApart DEF StateFaithful
    <2>2. CASE Asked.force
      <3>1. addressTable[v].isAddress
        BY <1>1, <1>3, <1>4, <2>2 DEF HasRegister
      <3>2. Kept(v) /\ IsPlace(reference.env[v])
        BY <1>11, <3>1 DEF Kept, Loaded
      <3> QED
        BY <2>1, <2>2, <3>2 DEF Kept, Value, RegOf, Meaning, SameEffects
    <2>3. CASE ~Asked.force
      BY <1>11, <2>1, <2>3 DEF Kept, Loaded, Value, RegOf, Meaning
    <2> QED
      BY <2>2, <2>3
  <1>14. v \notin Arrays
    BY <1>4, NamesApart
  <1>15. Used' = Used
    <2>1. regTable[reg] # Free /\ regTable \in [AllRegs -> Names \union {Free}]
      BY <1>2, <1>4 DEF TypeOK, EffectInv, Inv, LocatedRegistersAreTaken
    <2> QED
      BY <1>12, <2>1, NamesApart DEF Used
  <1>16. Asked.address = FALSE
    BY <1>1, <1>2, <1>11, FirstAsked
  <1> HIDE DEF x, reg
  <1>17. /\ machine'.reg[reg] = x /\ \A r \in AllRegs \ {reg} : machine'.reg[r] = machine.reg[r]
         /\ machine'.mem = machine.mem /\ machine'.heap = machine.heap /\ machine'.flags = machine.flags
         /\ machine'.output = machine.output
    BY <1>2, <1>5, <1>12 DEF MachineTyped
  <1>18. /\ addressTable'[v] = Register(reg, FALSE)
         /\ \A w \in Names \ {v} : addressTable'[w] = addressTable[w]
    BY <1>2, <1>12, <1>16 DEF TypeOK
  <1>19. Delivered(reg)
    BY <1>1, <1>3, <1>4, <1>5, <1>9, <1>10, <1>13, <1>14, <1>15, <1>17, <1>18, StayEffect
  <1> QED
    BY <1>5, <1>19

(* Whatever is in no register of its own to be given is in none. *)
LEMMA NotThere ==
  ASSUME EffectInv, GoodBlock, Asking, ~HasRegister, ~Reusable
  PROVE  ~InRegister(Asked.name)
  <1> SUFFICES ASSUME InRegister(Asked.name) PROVE FALSE
    OBVIOUS
  <1>1. ProperlyAsked /\ stage = "registers" /\ requests # <<>>
    BY WhoAsks DEF Asking
  <1>2. Asked.name \notin Temps
    BY DEF Reusable, IsLive
  <1>3. Asked.force /\ addressTable[Asked.name].isAddress /\ ~Asked.address
    BY <1>1, <1>2 DEF ProperlyAsked, HasRegister
  <1>4. Asked.name \in Scalars \union Consts
    BY <1>1, <1>2, <1>3 DEF ProperlyAsked
  <1>5. CASE Asked.name \in Scalars
    <2>1. ~addressTable[Asked.name].isAddress
      BY <1>1, <1>5, ScalarOperand, LocationsApart DEF ProperlyAsked, InRegister
    <2> QED
      BY <1>3, <2>1
  <1>6. CASE Asked.name \in Consts
    <2>1. Kept(Asked.name)
      BY <1>1, <1>3, <1>6 DEF ProperlyAsked, AskedValue, Loaded
    <2>2. ~IsPlace(reference.env[Asked.name])
      BY <1>1, <1>6, NamesApart, NoPlace, Underway DEF StateFaithful
    <2> QED
      BY <1>3, <2>1, <2>2 DEF Kept
  <1> QED
    BY <1>4, <1>5, <1>6

(* A register that is unused. *)
LEMMA TakeDelivers ==
  ASSUME EffectInv, GoodBlock, TakeUnused
  PROVE  \E reg \in AllRegs : Delivered(reg)
  <1>1. Asking /\ ~InRegister(Asked.name)
    BY NotThere DEF TakeUnused
  <1>2. TypeOK /\ MachineTyped /\ LocatedRegistersAreTaken
    BY DEF EffectInv, Inv, TableInv
  <1>3. PICK reg \in Regs(Asked.type) \ Used : Grant(reg, addressTable, regTable, machine)
    BY DEF TakeUnused
  <1>4. reg \in AllRegs /\ reg \notin Used /\ (Asked.type = "GPR" => reg \in GPR)
    BY <1>3 DEF Regs, AllRegs
  <1>5. Answering(reg)
    BY <1>3 DEF TakeUnused, Answering, Grant
  <1>6. \A w \in Names : Held(w) => RegOf(w) # reg
    BY <1>2, <1>4 DEF LocatedRegistersAreTaken, Used, Held, RegOf
  <1>7. addressTable \in [Names -> Location] /\ regTable \in [AllRegs -> Names \union {Free}]
    BY <1>2 DEF TypeOK
  <1>8. DOMAIN machine = {"reg", "mem", "heap", "flags", "output"}
    BY <1>2 DEF MachineTyped
  <1>9. Delivered(reg)
    BY <1>1, <1>3, <1>4, <1>5, <1>6, <1>7, <1>8, TakeEffect
  <1> QED
    BY <1>4, <1>9

(* Only in a block that may spill: the scalar that goes home is known there. *)
LEMMA SpillDelivers ==
  ASSUME EffectInv, GoodBlock, Spill
  PROVE  \E reg \in AllRegs : Delivered(reg)
  <1>1. Asking /\ ~InRegister(Asked.name) /\ stage = "registers"
    BY NotThere DEF Spill, Asking
  <1>2. TypeOK /\ MachineTyped /\ idx <= Len(Block) /\ StateFaithful
    BY <1>1, Underway DEF EffectInv, TableInv
  <1>3. MaySpill(Block)
    <2> SUFFICES ASSUME ~MaySpill(Block) PROVE FALSE
      OBVIOUS
    <2>1. Cardinality(Used) < Cardinality(GPR) /\ Cardinality(Used) < Cardinality(AVX) /\ Cardinality(Used) \in Nat
      BY <1>1, RoomForAsked
    <2>2. Cardinality(Regs(Asked.type)) = Cardinality(Used)
      BY DEF Spill, AtLeastOneRegisterUnused
    <2>3. Cardinality(Regs(Asked.type)) \in {Cardinality(GPR), Cardinality(AVX)}
      BY DEF Regs
    <2> QED
      BY <2>1, <2>2, <2>3
  <1>4. PICK reg \in Regs(Asked.type) \intersect Used :
          Grant(reg, SentHome(reg), Freed(reg), Stored(reg)) /\ stack' = OnStack(reg)
    BY DEF Spill
  <1>5. reg \in AllRegs /\ reg \in Used /\ (Asked.type = "GPR" => reg \in GPR)
    BY <1>4 DEF Regs, AllRegs
  <1>6. OwnersRight
    BY <1>2, <1>3, SpillingBlock
  <1> DEFINE u == regTable[reg]
  <1>7. u \in Scalars /\ u \in Names /\ addressTable[u] = Register(reg, FALSE) /\ machine.reg[reg] = reference.env[u]
    BY <1>5, <1>6, NamesApart DEF OwnersRight
  <1>8. InRegister(u) /\ RegOf(u) = reg
    BY <1>7 DEF InRegister, RegOf, Register, At
  <1>9. u \in globals
    BY <1>2, <1>7, <1>8 DEF StateFaithful, LocatedAreDeclared
  <1> DEFINE table == SentHome(reg)
             owners == Freed(reg)
             m == Stored(reg)
  <1>10. table = [addressTable EXCEPT ![u] = Global] /\ stack' = stack
         /\ m = [machine EXCEPT !.mem[u] = machine.reg[reg]] /\ owners = [regTable EXCEPT ![reg] = Free]
    BY <1>4, <1>9 DEF SentHome, HomeOf, OnStack, Stored, Freed
  <1>11. Answering(reg) /\ Grant(reg, table, owners, m)
    BY <1>4, <1>10 DEF Spill, Answering, Grant
  <1>12. \A w \in Names : Held(w) /\ w # u => RegOf(w) # reg
    BY <1>6 DEF OwnersRight
  <1> HIDE DEF table, owners, m, u
  <1>13. table \in [Names -> Location] /\ table[u] = Global /\ \A w \in Names \ {u} : table[w] = addressTable[w]
    BY <1>2, <1>7, <1>10, LocationsTyped DEF TypeOK
  <1>14. /\ DOMAIN m = {"reg", "mem", "heap", "flags", "output"} /\ m.reg = machine.reg
         /\ m.heap = machine.heap /\ m.flags = machine.flags /\ m.output = machine.output
         /\ m.mem[u] = reference.env[u] /\ \A w \in Names \ {u} : m.mem[w] = machine.mem[w]
    BY <1>2, <1>7, <1>10 DEF MachineTyped
  <1>15. owners \in [AllRegs -> Names \union {Free}] /\ \A r \in AllRegs \ {reg} : owners[r] = regTable[r]
    BY <1>2, <1>10 DEF TypeOK
  <1>16. addressTable[u] # Global
    BY <1>7 DEF Global, Register, At
  <1>17. \A w \in Names :
           /\ \/ table[w] = addressTable[w]
              \/ /\ w \in Scalars /\ table[w] = Global /\ m.mem[w] = reference.env[w]
                 /\ InRegister(w) /\ RegOf(w) = reg /\ MaySpill(Block)
           /\ m.mem[w] = machine.mem[w] \/ (w \in Scalars /\ m.mem[w] = reference.env[w])
           /\ Held(w) /\ table[w] = addressTable[w] => RegOf(w) # reg
    BY <1>3, <1>7, <1>8, <1>12, <1>13, <1>14, <1>16
  <1>18. Delivered(reg)
    BY <1>1, <1>3, <1>5, <1>11, <1>13, <1>14, <1>15, <1>17, TakeEffect
  <1> QED
    BY <1>5, <1>18

(* In each of the ways, getRegister delivers the register that was asked for. *)
LEMMA GetRegisterDelivers ==
  ASSUME EffectInv, GoodBlock, GetRegister
  PROVE  Asking /\ \E reg \in AllRegs : Delivered(reg)
  BY AlreadyDelivers, ReuseDelivers, TakeDelivers, SpillDelivers
  DEF GetRegister, AlreadyInRegister, ReuseRegister, TakeUnused, Spill

-----------------------------------------------------------------------------
(* What has been answered, and what is still asked for *)

(* The requests that are left are for names in no register, where they have to be. *)
LEMMA RequestsLeft ==
  ASSUME EffectInv, GoodBlock, Asking, NEW reg \in AllRegs, Delivered(reg)
  PROVE  NewRequests'
  <1>1. /\ requests' = Tail(requests) /\ Before(Block, idx)' = Before(Block, idx)
    BY AnsweringWindow DEF Delivered
  <1>2. ProperlyAsked /\ NewRequests /\ TypeOK /\ requests # <<>>
    BY WhoAsks, Underway DEF Asking
  <1>3. requests \in Seq(Request) /\ Len(requests) \in Nat /\ Len(requests) >= 1
    BY <1>2, FirstAsked
  <1>4. ASSUME NEW k \in 1 .. Len(requests')
        PROVE  k + 1 \in 2 .. Len(requests) /\ requests'[k] = requests[k + 1] /\ requests'[k].name \in Names
    <2>1. k + 1 \in 2 .. Len(requests) /\ requests'[k] = requests[k + 1] /\ requests[k + 1] \in Request
      BY <1>1, <1>3
    <2> QED
      BY <2>1 DEF Request
  <1>5. ASSUME NEW k \in 1 .. Len(requests'),
               requests'[k].name \in Literals \/ requests'[k].name \notin Before(Block, idx)
        PROVE  \A w \in Names : w = requests'[k].name => ~InRegister(w)'
    <2> SUFFICES ASSUME NEW w \in Names, w = requests'[k].name PROVE ~InRegister(w)'
      OBVIOUS
    <2>1. w # Asked.name
      BY <1>2, <1>4, <1>5 DEF ProperlyAsked
    <2>2. k + 1 \in 1 .. Len(requests) /\ w = requests[k + 1].name
      BY <1>3, <1>4
    <2>3. ~InRegister(w)
      BY <1>2, <1>5, <2>2 DEF NewRequests
    <2> QED
      BY <2>1, <2>3 DEF Delivered
  <1> SUFFICES ASSUME NEW k \in 1 .. Len(requests'),
                      requests'[k].name \in Literals \/ requests'[k].name \notin Before(Block, idx)
               PROVE  addressTable'[requests'[k].name].type # "register"
    BY <1>1 DEF NewRequests, InRegister
  <1> QED
    BY <1>4, <1>5 DEF InRegister

(* The registers given before stay with their names while the next is asked for. *)
LEMMA AnswersKept ==
  ASSUME EffectInv, GoodBlock, Asking, NEW reg \in AllRegs, Delivered(reg)
  PROVE  AnswersRight'
  <1>1. /\ Inst' = Inst /\ stage' = "registers" /\ stage = "registers"
        /\ Len(got) \in Nat /\ Len(got') = Len(got) + 1 /\ got'[Len(got) + 1] = reg
        /\ \A n \in 1 .. Len(got) : got'[n] = got[n]
        /\ requests' = Tail(requests) /\ Defined' = Defined
    BY AnsweringWindow DEF Delivered
  <1>2. ProperlyAsked /\ TypeOK /\ requests # <<>> /\ idx <= Len(Block)
    BY WhoAsks, Underway DEF Asking
  <1>3. PICK v \in Names : v = Asked.name
    BY <1>2, FirstAsked
  <1>4. /\ InRegister(v)' /\ RegOf(v)' = reg /\ (v \in Arrays => Value(v)' = AddressOf(v))
        /\ v \in Scalars \union Literals \/ v \in (Temps \union Consts) \intersect Defined => Loaded(v)'
        /\ v \in Consts => ~(addressTable'[v].isAddress /\ ~Asked.address)
    BY <1>3 DEF Delivered
  <1>5. requests \in Seq(Request) /\ got \in Seq(AllRegs \union {NoReg})
    BY <1>2 DEF TypeOK
  <1>6. OfAKind(Inst)
    BY <1>2, AtHand
  <1>7. CASE Inst.op \in Arithmetic \union Comparisons
    <2>1. Asked.name = Inst.arg1 /\ got = <<>> /\ Len(requests) = 1
      BY <1>1, <1>2, <1>7, FirstOperandAsked
    <2>2. Len(got') = 1 /\ got'[1] = reg /\ requests' = <<>>
      BY <1>1, <1>5, <2>1
    <2>3. v \in Values /\ v \in Operands(Inst)
      BY <1>3, <1>6, <1>7, <2>1, NamesApart, OperandsMentioned DEF OfAKind, Values
    <2>4. Loaded(v)'
      BY <1>2, <1>4, <2>3, AtHand DEF Values
    <2>5. Answered(1, v)'
      BY <1>4, <2>2 DEF Answered
    <2>6. FirstOperandAnswered(TRUE)' /\ FirstOperandAnswered(FALSE)'
      <3>1. v = Inst'.arg1
        BY <1>1, <1>3, <2>1
      <3>2. Len(got') = 1 /\ requests' = <<>> /\ InRegister(v)' /\ RegOf(v)' = got'[1]
        BY <1>4, <2>2
      <3> QED
        BY <2>4, <3>1, <3>2 DEF FirstOperandAnswered, Answered, Loaded, InRegister, RegOf, Value, Meaning
    <2> QED
      BY <1>1, <1>7, <2>6 DEF AnswersRight, Arithmetic, Comparisons
  <1>8. CASE Inst.op \in {"ARRAY_INDEX", "VLOAD", "VSTORE"}
    <2>1. /\ Inst.arg2 # Inst.arg1 /\ Inst.result # Inst.arg1
          /\ Inst.arg2 = Inst.result => Inst.op = "VSTORE"
          /\ Asked.name = IF got = <<>> THEN Inst.arg2 ELSE IF Len(got) = 1 THEN Inst.arg1 ELSE Inst.result
          /\ Asked.name = Inst.arg2 => ~Asked.address
      BY <1>1, <1>2, <1>8, IndexAsked
    <2>2. IndexAnswered
      BY <1>1, <1>8, Answers
    <2>3. /\ Inst.arg1 \in Arrays /\ Inst.arg2 \in Values /\ Inst.result \in Temps
          /\ Inst.arg1 \in Names /\ Inst.arg2 \in Names /\ Inst.result \in Names
          /\ Inst.arg1 \notin Literals /\ Inst.arg2 \in Operands(Inst)
          /\ Inst.arg1 \in Mentions(Inst) /\ Inst.arg2 \in Mentions(Inst)
      BY <1>6, <1>8, NamesApart, OperandsMentioned DEF OfAKind, Values
    <2>4. ~MaySpill(Block)
      BY <1>2, <2>3, SpillingBlock
    <2>5. PICK i \in Names, a \in Names, d \in Names : i = Inst.arg2 /\ a = Inst.arg1 /\ d = Inst.result
      BY <2>3
    <2>6. \/ Len(got) = 0 /\ requests = IndexAndArray(Inst, ThirdRequest)
          \/ Len(got) = 1 /\ requests = <<Ask(Inst.arg1, "GPR", TRUE, TRUE), ThirdRequest>>
          \/ Len(got) = 2 /\ requests = <<ThirdRequest>>
      BY <1>2, <2>2 DEF IndexAnswered
    <2>7. Wanted(a) /\ Wanted(i)
      BY <1>1, <2>3, <2>5, WantedOperand
    <2>8. i \in Temps \union Consts => i \in Defined
      BY <1>2, <2>3, <2>5, AtHand
    <2>9. v = i => Loaded(i)'
      BY <1>4, <2>3, <2>5, <2>8 DEF Values
    <2>10. ASSUME NEW w \in Names, w # v, InRegister(w), Wanted(w)
           PROVE  /\ addressTable'[w] = addressTable[w] /\ Value(w)' = Value(w) /\ InRegister(w)' /\ RegOf(w)' = RegOf(w)
                  /\ Loaded(w) => Loaded(w)'
      <3>1. addressTable'[w] = addressTable[w] /\ Value(w)' = Value(w)
        BY <1>3, <2>4, <2>10 DEF Delivered, Held
      <3>2. Meaning(w)' = Meaning(w)
        BY AnsweringWindow DEF Delivered
      <3> QED
        BY <2>10, <3>1, <3>2 DEF InRegister, RegOf, Loaded
    <2>16. PICK n \in Nat : n = Len(got) /\ Len(got') = n + 1
      BY <1>1
    <2>17. n \in {0, 1, 2}
      <3>1. Len(got) = 0 \/ Len(got) = 1 \/ Len(got) = 2
        BY <2>6
      <3> QED
        BY <2>16, <3>1
    <2>18. got = <<>> => n = 0
      <3> SUFFICES ASSUME got = <<>> PROVE n = 0
        OBVIOUS
      <3>1. Len(got) = 0
        OBVIOUS
      <3> QED
        BY <2>16, <3>1
    <2>11. requests' = IF n = 0 THEN <<Ask(Inst.arg1, "GPR", TRUE, TRUE), ThirdRequest>>
                       ELSE IF n = 1 THEN <<ThirdRequest>> ELSE <<>>
      <3>1. \A x, y, z : /\ Tail(<<x, y, z>>) = <<y, z>> /\ Tail(<<x, y>>) = <<y>> /\ Tail(<<x>>) = <<>>
        OBVIOUS
      <3>2. PICK index, array, third : index = Ask(Inst.arg2, "GPR", FALSE, TRUE)
              /\ array = Ask(Inst.arg1, "GPR", TRUE, TRUE) /\ third = ThirdRequest
        OBVIOUS
      <3>3. \/ n = 0 /\ requests = <<index, array, third>>
            \/ n = 1 /\ requests = <<array, third>>
            \/ n = 2 /\ requests = <<third>>
        <4>1. IndexAndArray(Inst, ThirdRequest) = <<index, array, third>>
          BY <3>2 DEF IndexAndArray
        <4> QED
          BY <2>6, <2>16, <3>2, <4>1
      <3>4. requests' = Tail(requests)
        BY <1>1
      <3>5. CASE n = 0
        <4>1. requests = <<index, array, third>>
          BY <3>3, <3>5
        <4> QED
          BY <3>1, <3>2, <3>4, <3>5, <4>1
      <3>6. CASE n = 1
        <4>1. requests = <<array, third>>
          BY <3>3, <3>6
        <4> QED
          BY <3>1, <3>2, <3>4, <3>6, <4>1
      <3>7. CASE n = 2
        <4>1. requests = <<third>>
          BY <3>3, <3>7
        <4> QED
          BY <3>1, <3>2, <3>4, <3>7, <4>1
      <3> QED
        BY <2>17, <3>5, <3>6, <3>7
    <2>12. Len(got') >= 1 => Answered(1, i)' /\ Loaded(i)'
      <3>1. CASE Len(got) = 0
        <4>1. got = <<>>
          BY <1>5, <3>1
        <4>2. v = i /\ got'[1] = reg
          BY <1>1, <1>3, <2>1, <2>5, <3>1, <4>1
        <4> QED
          BY <1>4, <2>9, <4>2 DEF Answered
      <3>2. CASE Len(got) >= 1
        <4>1. InRegister(i) /\ RegOf(i) = got[1] /\ Loaded(i) /\ got'[1] = got[1]
          BY <1>1, <2>2, <2>5, <3>2 DEF IndexAnswered, Answered
        <4>2. CASE v # i
          BY <2>7, <2>10, <4>1, <4>2 DEF Answered
        <4>3. CASE v = i
          <5>1. RegOf(i) = reg
            BY <1>3, <2>5, <4>1, <4>3 DEF Delivered
          <5> QED
            BY <1>4, <2>9, <4>1, <4>3, <5>1 DEF Answered
        <4> QED
          BY <4>2, <4>3
      <3> QED
        BY <1>1, <3>1, <3>2
    <2>13. ASSUME Len(got') >= 2 PROVE Answered(2, a)' /\ Value(a)' = AddressOf(a)
      <3>0. Len(got) = 1 \/ Len(got) >= 2
        BY <2>13, <2>16, <2>17
      <3>1. CASE Len(got) = 1
        <4>1. got # <<>>
          BY <2>16, <2>18, <3>1
        <4>2. v = a /\ got'[2] = reg
          BY <1>1, <1>3, <2>1, <2>5, <3>1, <4>1
        <4> QED
          BY <1>4, <2>3, <2>5, <4>2 DEF Answered
      <3>2. CASE Len(got) >= 2
        <4>1. InRegister(a) /\ RegOf(a) = got[2] /\ Value(a) = AddressOf(a) /\ got'[2] = got[2]
          BY <1>1, <2>2, <2>5, <3>2 DEF IndexAnswered, Answered
        <4>2. v # a
          <5>1. got # <<>> /\ Len(got) # 1
            BY <2>16, <2>18, <3>2
          <5> QED
            BY <1>3, <2>1, <2>5, <5>1
        <4> QED
          BY <2>7, <2>10, <4>1, <4>2 DEF Answered
      <3> QED
        BY <3>0, <3>1, <3>2
    <2>14. ASSUME Len(got') >= 3 PROVE Answered(3, d)'
      <3>0. Len(got) = 2
        BY <2>14, <2>16, <2>17
      <3>1. CASE Len(got) = 2
        <4>1. got # <<>>
          BY <2>16, <2>18, <3>1
        <4>2. v = d /\ got'[3] = reg
          BY <1>1, <1>3, <2>1, <2>5, <3>1, <4>1
        <4> QED
          BY <1>4, <4>2 DEF Answered
      <3> QED
        BY <3>0, <3>1
    <2>15. IndexAnswered'
      <3>1. ThirdRequest' = ThirdRequest /\ IndexAndArray(Inst, ThirdRequest)' = IndexAndArray(Inst, ThirdRequest)
        BY <1>1 DEF ThirdRequest, IndexAndArray
      <3>2. i = Inst'.arg2 /\ a = Inst'.arg1 /\ d = Inst'.result
        BY <1>1, <2>5
      <3>3. \/ Len(got') = 1 /\ requests' = <<Ask(Inst'.arg1, "GPR", TRUE, TRUE), ThirdRequest'>>
            \/ Len(got') = 2 /\ requests' = <<ThirdRequest'>>
            \/ Len(got') = 3 /\ requests' = <<>>
        <4>4. Inst'.arg1 = Inst.arg1
          BY <1>1
        <4>1. CASE n = 0
          <5>1. Len(got') = 1
            BY <2>16, <4>1
          <5>2. requests' = <<Ask(Inst.arg1, "GPR", TRUE, TRUE), ThirdRequest>>
            BY <2>11, <4>1
          <5> QED
            BY <3>1, <4>4, <5>1, <5>2
        <4>2. CASE n = 1
          <5>1. Len(got') = 2
            BY <2>16, <4>2
          <5>2. requests' = <<ThirdRequest>>
            BY <2>11, <4>2
          <5> QED
            BY <3>1, <5>1, <5>2
        <4>3. CASE n = 2
          <5>1. Len(got') = 3
            BY <2>16, <4>3
          <5>2. requests' = <<>>
            BY <2>11, <4>3
          <5> QED
            BY <5>1, <5>2
        <4> QED
          BY <2>17, <4>1, <4>2, <4>3
      <3> QED
        BY <2>12, <2>13, <2>14, <3>2, <3>3
        DEF IndexAnswered, Answered, Loaded, InRegister, RegOf, Value, Meaning
    <2> QED
      BY <1>1, <1>8, <2>15 DEF AnswersRight, Arithmetic, Comparisons
  <1>9. CASE Inst.op = "ASSIGN" /\ Inst.arg1 # NoName
    <2>1. Asked.name = Inst.result /\ Inst.result \in Consts /\ ~Asked.address /\ got = <<>> /\ Len(requests) = 1
      BY <1>1, <1>2, <1>9, CopyAsked
    <2>2. requests' = <<>> /\ Inst.result \notin Temps
      BY <1>1, <1>5, <2>1, NamesApart
    <2>3. v = Inst'.result /\ InRegister(v)' /\ ~addressTable'[v].isAddress
      BY <1>1, <1>3, <1>4, <2>1
    <2>4. addressTable'[v] # Nowhere
      BY <2>3, LocationsApart DEF InRegister
    <2>5. CopyAnswered'
      BY <1>1, <2>1, <2>2, <2>3, <2>4 DEF CopyAnswered, Located, InRegister
    <2> QED
      BY <1>1, <1>9, <2>5 DEF AnswersRight, Arithmetic, Comparisons
  <1>10. CASE Inst.op = "VASSIGN"
    <2>1. Asked.name = Inst.result /\ Len(got) = 1 /\ Len(requests) = 1 /\ got[1] = NoReg
      BY <1>1, <1>2, <1>10, VectorAsked
    <2>2. Len(got') = 2 /\ got'[1] = NoReg /\ got'[2] = reg /\ requests' = <<>>
      BY <1>1, <1>5, <2>1
    <2>3. v = Inst'.result /\ InRegister(v)' /\ RegOf(v)' = got'[2]
      BY <1>1, <1>3, <1>4, <2>1, <2>2
    <2>4. VectorAssignAnswered'
      BY <2>2, <2>3 DEF VectorAssignAnswered, Answered, InRegister, RegOf
    <2> QED
      BY <1>1, <1>10, <2>4 DEF AnswersRight, Arithmetic, Comparisons
  <1> QED
    BY <1>7, <1>8, <1>9, <1>10, WhoAsks

(* Asking for a register changes nothing the block will look at again. *)
LEMMA GetRegisterFaithful == ASSUME EffectInv, GoodBlock, GetRegister PROVE Faithful' /\ stack' = stack
  <1>1. Asking
    BY GetRegisterDelivers
  <1>2. PICK reg \in AllRegs : Delivered(reg)
    BY GetRegisterDelivers
  <1>3. fault' = fault /\ stack' = stack /\ StateFaithful'
    BY <1>2 DEF Delivered, Answering
  <1>4. fault = "none"
    BY <1>1 DEF Asking
  <1> QED
    BY <1>1, <1>2, <1>3, <1>4, RequestsLeft, AnswersKept DEF Faithful

-----------------------------------------------------------------------------
(* The next instruction is fetched *)

(* What an instruction of a good block asks for. *)
LEMMA RequestsOf ==
  ASSUME EffectInv, GoodBlock, idx <= Len(Block)
  PROVE  /\ Inst.op \in Arithmetic => Requests(Inst) = <<Ask(Inst.arg1, "GPR", FALSE, TRUE)>>
         /\ Inst.op \in Comparisons => Requests(Inst) = <<Ask(Inst.arg1, "GPR", FALSE, FALSE)>>
         /\ Inst.op \in {"ARRAY_INDEX", "VLOAD", "VSTORE"} => Requests(Inst) = IndexAndArray(Inst, ThirdRequest)
         /\ Inst.op = "ASSIGN" /\ Inst.arg1 # NoName =>
              Requests(Inst) = IF Located(Inst.result) THEN <<>> ELSE <<Ask(Inst.result, "GPR", FALSE, FALSE)>>
         /\ Inst.op \in {"VADD", "VSUB"} => Requests(Inst) = <<>>
         /\ Inst.op = "VASSIGN" => Requests(Inst) = <<Ask(Inst.result, "AVX", FALSE, FALSE)>>
         /\ Inst.op \in Jumps \union {"LABEL", "CALL", "ENTER_PROC", "EXIT_PROC", "NOP", "WRITE"}
              \/ IsDeclaration(Inst) => Requests(Inst) = <<>>
  <1>1. TypeOK /\ OfAKind(Inst)
    BY AtHand DEF EffectInv, Inv
  <1>2. CASE Inst.op \in Arithmetic
    BY <1>2 DEF Requests, Arithmetic, Comparisons, Jumps, ConditionalJumps, IsDeclaration
  <1>3. CASE Inst.op \in Comparisons
    <2>1. Inst.result = NoName
      BY <1>1, <1>3 DEF OfAKind
    <2> QED
      BY <1>3, <2>1 DEF Requests, Arithmetic, Comparisons, Jumps, ConditionalJumps, IsDeclaration, IsComparison, HasResult
  <1>4. CASE Inst.op \in {"ARRAY_INDEX", "VLOAD", "VSTORE"}
    BY <1>4 DEF Requests, Arithmetic, Comparisons, Jumps, ConditionalJumps, IsDeclaration, IsComparison, ThirdRequest
  <1>5. CASE Inst.op = "ASSIGN"
    BY <1>5 DEF Requests, Arithmetic, Comparisons, Jumps, ConditionalJumps, IsDeclaration, IsComparison
  <1>6. CASE Inst.op \in {"VADD", "VSUB"}
    <2>1. Expendable(Inst.arg1)
      BY <1>6, FirstExpendable
    <2> QED
      BY <1>6, <2>1 DEF Requests, Arithmetic, Comparisons, Jumps, ConditionalJumps, IsDeclaration, IsComparison
  <1>7. CASE Inst.op = "VASSIGN"
    BY <1>7 DEF Requests, Arithmetic, Comparisons, Jumps, ConditionalJumps, IsDeclaration, IsComparison
  <1>8. CASE Inst.op \in Jumps \union {"LABEL", "CALL", "ENTER_PROC", "EXIT_PROC", "NOP", "WRITE"}
    BY <1>8 DEF Requests, Arithmetic, Comparisons, Jumps, ConditionalJumps, IsDeclaration, IsComparison
  <1> QED
    BY <1>1, <1>2, <1>3, <1>4, <1>5, <1>6, <1>7, <1>8 DEF OfAKind, VectorOperations

(* Between two instructions. *)
LEMMA Fetched ==
  ASSUME EffectInv, GoodBlock, AtInstruction
  PROVE  /\ TypeOK /\ stage = "next" /\ fault = "none" /\ idx <= Len(Block) /\ blk <= Len(program)
         /\ StateFaithful /\ OfAKind(Inst)
         /\ \A v \in Names : /\ v \in Operands(Inst) \intersect Literals => WithLiterals[v] = Immediate
                             /\ v \notin Operands(Inst) \intersect Literals => WithLiterals[v] = addressTable[v]
  <1>1. TypeOK /\ stage = "next" /\ fault = "none" /\ idx <= Len(Block) /\ blk <= Len(program)
    BY DEF AtInstruction, EffectInv, Inv
  <1>2. StateFaithful
    BY DEF EffectInv, Faithful
  <1>3. OfAKind(Inst)
    BY <1>1, AtHand
  <1> QED
    BY <1>1, <1>2, <1>3 DEF WithLiterals

LEMMA FetchState == ASSUME EffectInv, GoodBlock, Fetch PROVE StateFaithful'
  <1>1. AtInstruction /\ stage' = "registers" /\ addressTable' = WithLiterals
        /\ UNCHANGED <<position, freed, fault, regTable, globals, stack, machine, reference>>
    BY DEF Fetch
  <1>2. /\ TypeOK /\ stage = "next" /\ idx <= Len(Block) /\ blk <= Len(program) /\ StateFaithful
        /\ \A v \in Names : /\ v \in Operands(Inst) \intersect Literals => addressTable'[v] = Immediate
                            /\ v \notin Operands(Inst) \intersect Literals => addressTable'[v] = addressTable[v]
    BY <1>1, Fetched
  <1>3. /\ Block' = Block /\ Inst' = Inst /\ program' = program /\ blk' = blk /\ idx' = idx
        /\ Pending' = Pending /\ Later' = Later /\ Defined' = Defined /\ Before(Block, idx)' = Before(Block, idx)
    BY <1>1 DEF position, Block, Inst, Pending, Later, Defined
  <1>4. \A v : IsUpdated(v)' <=> IsUpdated(v)
    BY <1>3 DEF IsUpdated
  <1>5. ASSUME NEW v \in Names, InRegister(v)'
        PROVE  addressTable'[v] = addressTable[v] /\ InRegister(v) /\ v \notin Operands(Inst) \intersect Literals
    BY <1>2, <1>5, LocationsApart DEF InRegister
  <1>6. ASSUME NEW v \in Names, Held(v)' PROVE addressTable'[v] = addressTable[v] /\ Held(v) /\ v \notin Literals
    <2>1. InRegister(v)' /\ Wanted(v)'
      BY <1>6 DEF Held
    <2>2. v \notin Literals
      BY <1>3, <1>5, <2>1 DEF Wanted
    <2> QED
      BY <1>3, <1>4, <1>5, <2>1, <2>2 DEF Held, Wanted
  <1>7. \A v \in Names \ Literals : addressTable'[v] = addressTable[v] /\ (InRegister(v)' <=> InRegister(v))
    BY <1>2 DEF InRegister
  <1>8. machine' = machine /\ reference' = reference /\ regTable' = regTable /\ globals' = globals
    BY <1>1
  <1>9. OnlyMentionedLocated'
    <2> SUFFICES ASSUME NEW v \in Names, InRegister(v)' PROVE v \in Before(Block, idx)'
      BY DEF OnlyMentionedLocated
    <2> QED
      BY <1>2, <1>3, <1>5 DEF StateFaithful, OnlyMentionedLocated
  <1>10. LocatedAreDeclared'
    BY <1>2, <1>7, <1>8, NamesApart DEF StateFaithful, LocatedAreDeclared
  <1>11. ScalarsRight'
    <2> SUFFICES ASSUME NEW v \in Scalars
                 PROVE  /\ ~InRegister(v)' \/ ~IsUpdated(v)' => machine'.mem[v] = reference'.env[v]
                        /\ Held(v)' => ~addressTable'[v].isAddress /\ Value(v)' = reference'.env[v]
      BY DEF ScalarsRight
    <2>1. v \in Names /\ v \notin Literals
      BY NamesApart
    <2>2. ~InRegister(v) \/ ~IsUpdated(v) => machine.mem[v] = reference.env[v]
      BY <1>2 DEF StateFaithful, ScalarsRight
    <2>3. Held(v) => ~addressTable[v].isAddress /\ Value(v) = reference.env[v]
      BY <1>2 DEF StateFaithful, ScalarsRight
    <2>4. ~InRegister(v)' \/ ~IsUpdated(v)' => machine'.mem[v] = reference'.env[v]
      BY <1>4, <1>7, <1>8, <2>1, <2>2
    <2>5. Held(v)' => ~addressTable'[v].isAddress /\ Value(v)' = reference'.env[v]
      BY <1>6, <1>8, <2>1, <2>3 DEF Value, RegOf
    <2> QED
      BY <2>4, <2>5
  <1>12. ValuesKept'
    <2> SUFFICES ASSUME NEW v \in (Temps \union Consts) \intersect Defined' \intersect Pending' PROVE Kept(v)'
      BY DEF ValuesKept
    <2>1. v \in Names /\ v \notin Literals
      BY NamesApart
    <2>2. Kept(v)
      BY <1>2, <1>3 DEF StateFaithful, ValuesKept
    <2> QED
      BY <1>7, <1>8, <2>1, <2>2 DEF Kept, Value, RegOf
  <1>13. ArraysAddressed'
    <2> SUFFICES ASSUME NEW v \in Arrays, Held(v)' PROVE addressTable'[v].isAddress /\ Value(v)' = AddressOf(v)
      BY DEF ArraysAddressed
    <2>1. v \in Names
      BY NamesApart
    <2> QED
      BY <1>2, <1>6, <1>8, <2>1 DEF StateFaithful, ArraysAddressed, Value, RegOf
  <1>14. Unshared'
    <2> SUFFICES ASSUME NEW v \in Names, NEW w \in Names, Held(v)', Held(w)', v # w PROVE RegOf(v)' # RegOf(w)'
      BY DEF Unshared
    <2>1. Held(v) /\ Held(w) /\ RegOf(v)' = RegOf(v) /\ RegOf(w)' = RegOf(w)
      BY <1>6 DEF RegOf
    <2> QED
      BY <1>2, <2>1 DEF StateFaithful, Unshared
  <1>15. PlacesInPlace' /\ SameEffects' /\ FlagsUntouched' /\ CopiesIntact'
    BY <1>2, <1>3, <1>8 DEF StateFaithful, PlacesInPlace, SameEffects, FlagsUntouched, CopiesIntact
  <1>16. LiteralsReady'
    <2>1. Operands(Inst) \intersect Literals \subseteq Names
      BY NamesApart
    <2> QED
      BY <1>2, <1>3, <2>1 DEF LiteralsReady
  <1>17. RegistersCounted'
    <2>1. Used' = Used
      BY <1>8 DEF Used
    <2>2. CASE MaySpill(Block)
      <3>1. OwnersRight
        BY <1>2, <2>2 DEF StateFaithful, RegistersCounted
      <3>2. ASSUME NEW r \in Used
            PROVE  /\ regTable'[r] \in Scalars /\ addressTable'[regTable'[r]] = Register(r, FALSE)
                   /\ machine'.reg[r] = reference'.env[regTable'[r]]
        BY <1>7, <1>8, <3>1, NamesApart DEF OwnersRight
      <3>3. ASSUME NEW v \in Names, Held(v)' PROVE regTable'[RegOf(v)'] = v
        BY <1>6, <1>8, <3>1, <3>3 DEF OwnersRight, RegOf
      <3>4. OwnersRight'
        BY <2>1, <3>1, <3>2, <3>3 DEF OwnersRight
      <3> QED
        BY <1>3, <2>2, <3>4 DEF RegistersCounted
    <2>3. CASE ~MaySpill(Block)
      <3>1. Cardinality(Used) <= Cardinality(Claimed)
        BY <1>2, <2>3 DEF StateFaithful, RegistersCounted
      <3>2. ASSUME NEW k \in Claimed PROVE k \in Claimed'
        <4>1. k \in Taken(Block)
          BY <3>2 DEF Claimed
        <4>2. PICK i \in 1 .. Len(Block) : k \in KeysAt(Block, i)
          BY <4>1, TakenKeys
        <4>3. k[1] \in Names
          BY <1>2, <4>2, RegistersKind DEF KeysAt, Key
        <4>4. CASE k[1] \in Literals
          BY <1>2, <1>3, <3>2, <4>1, <4>4 DEF Claimed
        <4>5. CASE k[1] \notin Literals
          BY <1>3, <1>7, <3>2, <4>1, <4>3, <4>5 DEF Claimed
        <4> QED
          BY <4>4, <4>5
      <3> QED
        BY <1>3, <2>1, <2>3, <3>1, <3>2, CountStays DEF RegistersCounted
    <2> QED
      BY <2>2, <2>3
  <1> QED
    BY <1>9, <1>10, <1>11, <1>12, <1>13, <1>14, <1>15, <1>16, <1>17 DEF StateFaithful

(* A constant that has a location is in a register, with its value. *)
LEMMA LocatedConstant ==
  ASSUME EffectInv, GoodBlock, AtInstruction, NEW v \in Consts, v \in Mentions(Inst), Located(v)
  PROVE  InRegister(v) /\ ~addressTable[v].isAddress
  <1>1. /\ TypeOK /\ stage = "next" /\ idx <= Len(Block) /\ StateFaithful /\ TableInv
        /\ v \in Names /\ v \notin Scalars /\ v \notin Arrays /\ v \notin Literals /\ v \notin LargeCopies /\ v \notin Temps
    BY Fetched, NamesApart DEF EffectInv
  <1>2. idx \in 1 .. Len(Block) /\ Inst = Block[idx] /\ Pending = Mentions(Inst) \union Later /\ Len(Block) \in Nat
    BY <1>1, AtHand
  <1>3. v \in After(Block, 0)
    <2>1. idx \in 0 + 1 .. Len(Block)
      BY <1>2
    <2> QED
      BY <1>2, <2>1 DEF After
  <1>4. addressTable[v] # Stack
    BY <1>1, <1>3 DEF TableInv, HomesAgree, GoodBlock, NothingOnStack
  <1>5. addressTable[v] # Global /\ addressTable[v] # Immediate
    BY <1>1 DEF TableInv, HomesAgree, GlobalsDeclared
  <1>6. InRegister(v)
    BY <1>1, <1>4, <1>5, LocationsApart DEF InRegister, Located, TypeOK
  <1>7. v \in Before(Block, idx)
    BY <1>1, <1>6 DEF StateFaithful, OnlyMentionedLocated
  <1>8. v \in Defined /\ v \in Pending
    <2>1. idx <= Len(Block) + 1 /\ idx \in Nat
      BY <1>2
    <2> QED
      BY <1>1, <1>2, <1>7, <2>1, MentionedIsDefined DEF Defined
  <1>9. Kept(v)
    BY <1>1, <1>8 DEF StateFaithful, ValuesKept
  <1>10. ~IsPlace(reference.env[v])
    BY <1>1, NoPlace DEF StateFaithful
  <1> QED
    BY <1>6, <1>9, <1>10 DEF Kept

LEMMA FetchRequests == ASSUME EffectInv, GoodBlock, Fetch PROVE NewRequests'
  <1>1. AtInstruction /\ requests' = Requests(Inst) /\ addressTable' = WithLiterals /\ UNCHANGED position
    BY DEF Fetch
  <1>2. /\ TypeOK /\ stage = "next" /\ idx <= Len(Block) /\ blk <= Len(program) /\ StateFaithful /\ OfAKind(Inst)
        /\ \A v \in Names : /\ v \in Operands(Inst) \intersect Literals => addressTable'[v] = Immediate
                            /\ v \notin Operands(Inst) \intersect Literals => addressTable'[v] = addressTable[v]
    BY <1>1, Fetched
  <1>3. Inst \in Instruction
    BY <1>2, AtHand
  <1>4. requests' \in Seq(Request)
    BY <1>1, <1>3, RequestsFit
  <1>5. ASSUME NEW k \in 1 .. Len(requests'), requests'[k].name \in Literals
        PROVE  requests'[k].name \in Operands(Inst)
    <2> DEFINE x == requests'[k].name
    <2>1. CASE Inst.op \in Arithmetic \union Comparisons
      <3>1. PICK force : requests' = <<Ask(Inst.arg1, "GPR", FALSE, force)>>
        BY <1>1, <1>2, <2>1, RequestsOf
      <3>2. x = Inst.arg1 /\ Inst.arg1 \in Values
        BY <1>2, <2>1, <3>1 DEF OfAKind, Ask
      <3> QED
        BY <3>2, OperandsMentioned, NamesApart DEF Values
    <2>2. CASE Inst.op \in {"ARRAY_INDEX", "VLOAD", "VSTORE"}
      <3>1. requests' = IndexAndArray(Inst, ThirdRequest)
        BY <1>1, <1>2, <2>2, RequestsOf
      <3>2. PICK one, two, three :
              /\ requests' = <<one, two, three>>
              /\ one.name = Inst.arg2 /\ two.name = Inst.arg1 /\ three.name = Inst.result
        <4>1. ThirdRequest.name = Inst.result
          BY DEF ThirdRequest, Ask
        <4>2. /\ Ask(Inst.arg2, "GPR", FALSE, TRUE).name = Inst.arg2
              /\ Ask(Inst.arg1, "GPR", TRUE, TRUE).name = Inst.arg1
          BY DEF Ask
        <4> QED
          BY <3>1, <4>1, <4>2 DEF IndexAndArray
      <3>3. k \in {1, 2, 3}
        BY <3>2
      <3>4. x \in {Inst.arg2, Inst.arg1, Inst.result}
        BY <3>2, <3>3
      <3>5. Inst.arg2 \in Values /\ Inst.result \in Temps /\ Inst.arg1 \in Arrays
        BY <1>2, <2>2 DEF OfAKind
      <3> QED
        BY <1>5, <3>4, <3>5, OperandsMentioned, NamesApart DEF Values
    <2>3. CASE Inst.op \in {"ASSIGN", "VASSIGN"} /\ Inst.arg1 # NoName
      <3>1. PICK type : requests' = <<Ask(Inst.result, type, FALSE, FALSE)>> \/ requests' = <<>>
        BY <1>1, <1>2, <2>3, RequestsOf
      <3>2. x = Inst.result
        BY <3>1 DEF Ask
      <3> QED
        BY <1>2, <1>5, <2>3, <3>2, NamesApart DEF OfAKind
    <2>4. CASE \/ Inst.op \in {"VADD", "VSUB"} \/ IsDeclaration(Inst)
               \/ Inst.op \in Jumps \union {"LABEL", "CALL", "ENTER_PROC", "EXIT_PROC", "NOP", "WRITE"}
      <3>1. requests' = <<>>
        BY <1>1, <1>2, <2>4, RequestsOf
      <3> QED
        BY <3>1
    <2>5. CASE Inst.op = "VASSIGN"
      <3>1. Inst.arg1 # NoName
        BY <1>2, <2>5, NamesApart DEF OfAKind
      <3> QED
        BY <2>3, <2>5, <3>1
    <2> QED
      BY <1>2, <2>1, <2>2, <2>3, <2>4, <2>5 DEF OfAKind, VectorOperations, IsDeclaration
  <1>6. Before(Block, idx)' = Before(Block, idx)
    BY <1>1 DEF position, Block
  <1>7. ASSUME NEW k \in 1 .. Len(requests'),
               requests'[k].name \in Literals \/ requests'[k].name \notin Before(Block, idx)
        PROVE  addressTable'[requests'[k].name].type # "register"
    <2>1. requests'[k].name \in Names
      <3>1. requests'[k] \in Request
        BY <1>4
      <3> QED
        BY <3>1 DEF Request
    <2>2. PICK v \in Names : v = requests'[k].name
      BY <2>1
    <2>3. CASE v \in Literals
      BY <1>2, <1>5, <2>2, <2>3, LocationsApart
    <2>4. CASE v \notin Literals
      <3>1. ~InRegister(v)
        BY <1>2, <1>7, <2>2, <2>4 DEF StateFaithful, OnlyMentionedLocated
      <3> QED
        BY <1>2, <2>2, <2>4, <3>1 DEF InRegister
    <2> QED
      BY <2>3, <2>4
  <1> QED
    BY <1>6, <1>7 DEF NewRequests, InRegister

LEMMA FetchAnswers == ASSUME EffectInv, GoodBlock, Fetch PROVE AnswersRight'
  <1>1. /\ AtInstruction /\ LookupHolds /\ stage' = "registers" /\ addressTable' = WithLiterals
        /\ requests' = Requests(Inst) /\ got' = Captured(Inst) /\ UNCHANGED position
    BY DEF Fetch
  <1>2. /\ TypeOK /\ stage = "next" /\ idx <= Len(Block) /\ blk <= Len(program) /\ StateFaithful /\ OfAKind(Inst)
        /\ \A v \in Names : /\ v \in Operands(Inst) \intersect Literals => addressTable'[v] = Immediate
                            /\ v \notin Operands(Inst) \intersect Literals => addressTable'[v] = addressTable[v]
    BY <1>1, Fetched
  <1>3. Inst' = Inst
    BY <1>1 DEF Inst, Block, position
  <1>4. Len(<<>>) = 0
    OBVIOUS
  <1>5. CASE Inst.op \in Arithmetic \union Comparisons
    <2>1. got' = <<>>
      BY <1>1, <1>5 DEF Captured, Arithmetic, Comparisons
    <2>2. CASE Inst.op \in Arithmetic
      <3>1. requests' = <<Ask(Inst.arg1, "GPR", FALSE, TRUE)>>
        BY <1>1, <1>2, <2>2, RequestsOf
      <3>2. FirstOperandAnswered(TRUE)'
        BY <1>3, <2>1, <3>1 DEF FirstOperandAnswered
      <3> QED
        BY <1>3, <2>2, <3>2 DEF AnswersRight, Arithmetic, Comparisons
    <2>3. CASE Inst.op \in Comparisons
      <3>1. requests' = <<Ask(Inst.arg1, "GPR", FALSE, FALSE)>>
        BY <1>1, <1>2, <2>3, RequestsOf
      <3>2. FirstOperandAnswered(FALSE)'
        BY <1>3, <2>1, <3>1 DEF FirstOperandAnswered
      <3> QED
        BY <1>3, <2>3, <3>2 DEF AnswersRight, Arithmetic, Comparisons
    <2> QED
      BY <1>5, <2>2, <2>3
  <1>6. CASE Inst.op \in {"ARRAY_INDEX", "VLOAD", "VSTORE"}
    <2>1. got' = <<>>
      BY <1>1, <1>6 DEF Captured
    <2>2. requests' = IndexAndArray(Inst, ThirdRequest)
      BY <1>1, <1>2, <1>6, RequestsOf
    <2>3. Len(got') = 0 /\ ~(Len(got') >= 1) /\ ~(Len(got') >= 2) /\ ~(Len(got') >= 3)
      BY <1>4, <2>1
    <2>4. IndexAnswered'
      <3>1. IndexAndArray(Inst', ThirdRequest') = IndexAndArray(Inst, ThirdRequest)
        BY <1>3 DEF ThirdRequest
      <3> QED
        BY <2>2, <2>3, <3>1 DEF IndexAnswered
    <2> QED
      BY <1>3, <1>6, <2>4 DEF AnswersRight, Arithmetic, Comparisons
  <1>7. CASE Inst.op = "ASSIGN" /\ Inst.arg1 # NoName
    <2>1. got' = <<>>
      BY <1>1, <1>7 DEF Captured
    <2>2. requests' = IF Located(Inst.result) THEN <<>> ELSE <<Ask(Inst.result, "GPR", FALSE, FALSE)>>
      BY <1>1, <1>2, <1>7, RequestsOf
    <2>3. Inst.result \in UNION {Scalars, Consts, Temps}
      BY <1>2, <1>7 DEF OfAKind
    <2>4. PICK d \in Names \ Literals : d = Inst.result
      BY <2>3, NamesApart
    <2>5. addressTable'[d] = addressTable[d]
      BY <1>2
    <2>6. requests' = <<>> => addressTable[d] # Nowhere
      <3>1. <<Ask(Inst.result, "GPR", FALSE, FALSE)>> # <<>>
        OBVIOUS
      <3> QED
        BY <2>2, <2>4, <3>1 DEF Located
    <2>7. d \in Consts /\ requests' = <<>> => addressTable[d].type = "register" /\ ~addressTable[d].isAddress
      BY <1>1, <2>4, <2>6, LocatedConstant, OperandsMentioned, NamesApart DEF Located, InRegister
    <2>8. \/ requests' = <<Ask(Inst.result, "GPR", FALSE, FALSE)>> /\ addressTable[d] = Nowhere
          \/ requests' = <<>> /\ addressTable[d] # Nowhere
      BY <2>2, <2>4 DEF Located
    <2>9. CopyAnswered'
      BY <1>3, <2>1, <2>4, <2>5, <2>7, <2>8 DEF CopyAnswered, Located, InRegister
    <2> QED
      BY <1>3, <1>7, <2>9 DEF AnswersRight, Arithmetic, Comparisons
  <1>8. CASE Inst.op \in {"VADD", "VSUB"}
    <2>1. requests' = <<>>
      BY <1>1, <1>2, <1>8, RequestsOf
    <2>2. got' = <<addressTable[Inst.arg1].reg, addressTable[Inst.arg2].reg>>
      BY <1>1, <1>8 DEF Captured
    <2>3. Inst.arg1 \in Temps /\ Inst.arg2 \in Temps
      BY <1>2, <1>8 DEF OfAKind
    <2>4. PICK a \in Names \ Literals, b \in Names \ Literals : a = Inst.arg1 /\ b = Inst.arg2
      BY <2>3, NamesApart
    <2>5. a \in Operands(Inst) /\ b \in Operands(Inst)
      BY <2>3, <2>4, OperandsMentioned, NamesApart
    <2>6. WithLiterals[a].type = "register" /\ WithLiterals[b].type = "register"
      BY <1>1, <1>8, <2>5 DEF LookupHolds, LookedUp
    <2>7. addressTable'[a] = addressTable[a] /\ addressTable'[b] = addressTable[b]
      BY <1>2
    <2>8. Len(got') = 2 /\ got'[1] = addressTable[a].reg /\ got'[2] = addressTable[b].reg
      BY <2>2, <2>4
    <2>9. VectorAnswered'
      BY <1>1, <1>3, <2>1, <2>4, <2>6, <2>7, <2>8 DEF VectorAnswered, Answered, InRegister, RegOf
    <2> QED
      BY <1>3, <1>8, <2>9 DEF AnswersRight, Arithmetic, Comparisons
  <1>9. CASE Inst.op = "VASSIGN"
    <2>1. requests' = <<Ask(Inst.result, "AVX", FALSE, FALSE)>>
      BY <1>1, <1>2, <1>9, RequestsOf
    <2>2. got' = <<addressTable'[Inst.arg1].reg>>
      BY <1>1, <1>9 DEF Captured
    <2>3. Inst.arg1 \in Literals
      BY <1>2, <1>9 DEF OfAKind
    <2>4. addressTable'[Inst.arg1] = Immediate
      BY <1>2, <2>3, OperandsMentioned, NamesApart
    <2>5. Len(got') = 1 /\ got'[1] = NoReg
      BY <2>2, <2>4, LocationsApart
    <2>6. VectorAssignAnswered'
      BY <1>3, <2>1, <2>5 DEF VectorAssignAnswered
    <2> QED
      BY <1>3, <1>9, <2>6 DEF AnswersRight, Arithmetic, Comparisons
  <1>10. CASE \/ Inst.op \in Jumps \union {"LABEL", "CALL", "ENTER_PROC", "EXIT_PROC", "NOP", "WRITE"}
              \/ IsDeclaration(Inst)
    <2>1. requests' = <<>>
      BY <1>1, <1>2, <1>10, RequestsOf
    <2>2. got' = <<>>
      BY <1>1, <1>10 DEF Captured, Jumps, ConditionalJumps, IsDeclaration
    <2> QED
      BY <1>3, <1>10, <2>1, <2>2 DEF AnswersRight, Arithmetic, Comparisons, Jumps, ConditionalJumps, IsDeclaration
  <1> QED
    BY <1>2, <1>5, <1>6, <1>7, <1>8, <1>9, <1>10 DEF OfAKind, VectorOperations, IsDeclaration

(* Fetching an instruction locates its literals and loses nothing. *)
LEMMA FetchFaithful == ASSUME EffectInv, GoodBlock, Fetch PROVE Faithful' /\ stack' = stack
  <1>1. fault' = "none" /\ stack' = stack
    BY Fetched DEF Fetch
  <1> QED
    BY <1>1, FetchState, FetchRequests, FetchAnswers DEF Faithful

-----------------------------------------------------------------------------
(* No assertion fails in a good block *)

(* No address is missing when it is looked up, address_table.cpp:106. *)
LEMMA LookupNeverFails ==
  ASSUME EffectInv, GoodBlock, AtInstruction
  PROVE  LookupHolds
  <1>1. /\ TypeOK /\ stage = "next" /\ idx <= Len(Block) /\ StateFaithful /\ OfAKind(Inst)
        /\ \A v \in Names : /\ v \in Operands(Inst) \intersect Literals => WithLiterals[v] = Immediate
                            /\ v \notin Operands(Inst) \intersect Literals => WithLiterals[v] = addressTable[v]
    BY Fetched
  <1>2. Operands(Inst) \intersect (Temps \union Consts) \subseteq Defined
        /\ \A v \in Operands(Inst) : v \in Mentions(Inst) /\ v \in Pending
    BY <1>1, AtHand
  <1>3. ASSUME NEW v \in LookedUp(Inst)
        PROVE  WithLiterals[v] # Nowhere /\ (Inst.op \in {"VADD", "VSUB"} => WithLiterals[v].type = "register")
    <2>1. v \in Operands(Inst) /\ Inst.op \in {"ASSIGN", "WRITE", "VADD", "VSUB", "VASSIGN"}
      BY <1>3 DEF LookedUp
    <2>2. /\ ~IsDeclaration(Inst) /\ v \in UNION {Scalars, Consts, Temps, Literals} /\ v \in Names
          /\ Inst.op \in {"VADD", "VSUB"} => v \in Temps
      BY <1>1, <2>1, NamesApart DEF OfAKind, IsDeclaration, Operands, Values
    <2>3. CASE v \in Literals
      BY <1>1, <2>1, <2>2, <2>3, LocationsApart, NamesApart
    <2>4. CASE v \in Temps \union Consts
      <3>1. Kept(v)
        BY <1>1, <1>2, <2>1, <2>4 DEF StateFaithful, ValuesKept
      <3>2. WithLiterals[v] = addressTable[v]
        BY <1>1, <2>2, <2>4, NamesApart
      <3> QED
        BY <3>1, <3>2, LocationsApart DEF Kept, InRegister
    <2>5. CASE v \in Scalars
      <3>1. addressTable[v] = Global \/ InRegister(v)
        BY <1>1, <1>2, <2>1, <2>2, <2>5, DeclaredHere
      <3>2. WithLiterals[v] = addressTable[v]
        BY <1>1, <2>2, <2>5, NamesApart
      <3> QED
        BY <2>2, <2>5, <3>1, <3>2, LocationsApart, NamesApart DEF InRegister
    <2> QED
      BY <2>2, <2>3, <2>4, <2>5
  <1> QED
    BY <1>3 DEF LookupHolds

(* There is a register for every request, or a scalar to be sent home. *)
LEMMA RegisterToGive ==
  ASSUME EffectInv, GoodBlock, Asking, ~HasRegister, ~Reusable
  PROVE  IF AtLeastOneRegisterUnused(Asked.type) THEN ~(Regs(Asked.type) \subseteq Used)
                                                 ELSE Regs(Asked.type) \intersect Used # {}
  <1>1. ~InRegister(Asked.name)
    BY NotThere
  <1>2. ProperlyAsked /\ stage = "registers" /\ idx <= Len(Block)
    BY WhoAsks, Underway
  <1>3. Regs(Asked.type) \in {GPR, AVX} /\ (Asked.type = "GPR" => Regs(Asked.type) = GPR)
    BY DEF Regs
  <1>4. IsFiniteSet(AllRegs) /\ Used \in SUBSET AllRegs
    BY RegistersAssumption, FS_Union DEF AllRegs, Used
  <1>5. IsFiniteSet(Used) /\ Cardinality(Used) \in Nat /\ Cardinality(GPR) \in Nat /\ Cardinality(AVX) \in Nat
    BY <1>4, RegistersAssumption, FS_Subset, FS_CardinalityType
  <1>6. CASE ~MaySpill(Block)
    <2>1. Cardinality(Used) < Cardinality(GPR) /\ Cardinality(Used) < Cardinality(AVX)
      BY <1>1, <1>6, RoomForAsked
    <2>2. AtLeastOneRegisterUnused(Asked.type)
      BY <1>3, <1>5, <2>1 DEF AtLeastOneRegisterUnused
    <2>3. ASSUME NEW R \in {GPR, AVX}, R \subseteq Used PROVE FALSE
      <3>1. Cardinality(R) <= Cardinality(Used)
        BY <1>5, <2>3, FS_Subset
      <3> QED
        BY <1>5, <2>1, <3>1
    <2> QED
      BY <1>3, <2>2, <2>3
  <1>7. CASE MaySpill(Block)
    <2>1. Used \subseteq GPR /\ Asked.name \in Scalars
      BY <1>2, <1>7, SpillingBlock DEF OwnersRight, ProperlyAsked
    <2>2. Regs(Asked.type) = GPR
      BY <1>2, <1>3, <2>1, NamesApart DEF ProperlyAsked
    <2>3. GPR \subseteq Used => Cardinality(GPR) = Cardinality(Used)
      <3>1. GPR \subseteq Used => GPR = Used
        BY <2>1
      <3> QED
        BY <3>1
    <2>4. GPR \intersect Used = {} => Cardinality(Used) = 0 /\ Cardinality(GPR) # 0
      <3>1. GPR \intersect Used = {} => Used = {}
        BY <2>1
      <3> QED
        BY <3>1, RegistersAssumption, FS_EmptySet
    <2> QED
      BY <2>2, <2>3, <2>4 DEF AtLeastOneRegisterUnused
  <1> QED
    BY <1>6, <1>7

(* No assertion fails and no register is missing in a good block. *)
LEMMA NeverFails == ASSUME EffectInv, GoodBlock, Fail PROVE FALSE
  <1>1. CASE LookupFails
    BY <1>1, LookupNeverFails DEF LookupFails
  <1>2. CASE NullRegister
    BY <1>2, RegisterToGive DEF NullRegister
  <1>3. CASE NothingToSpill
    BY <1>3, RegisterToGive DEF NothingToSpill
  <1>4. CASE SecondOperandMissing
    <2>1. stage = "registers" /\ Inst.op \in Arithmetic \union Comparisons /\ ~Located(Inst.arg2)
      BY <1>4 DEF SecondOperandMissing, Emitting
    <2>2. OfAKind(Inst)
      BY <2>1, Underway, AtHand
    <2>3. Inst.arg2 \in Values /\ Inst.arg2 \in Operands(Inst)
      BY <2>1, <2>2, OperandsMentioned, NamesApart DEF OfAKind, Values
    <2> QED
      BY <2>1, <2>3, OperandMeans
  <1>5. CASE VectorSourceFails
    <2>1. stage = "registers" /\ Inst.op = "VASSIGN" /\ Inst.arg1 \notin Literals
      BY <1>5 DEF VectorSourceFails, Emitting
    <2>2. OfAKind(Inst)
      BY <2>1, Underway, AtHand
    <2> QED
      BY <2>1, <2>2 DEF OfAKind
  <1>6. CASE InvalidInstruction
    <2>1. stage = "registers" /\ Inst.op \in Unprintable
      BY <1>6 DEF InvalidInstruction, Emitting
    <2>2. OfAKind(Inst)
      BY <2>1, Underway, AtHand
    <2> QED
      BY <2>1, <2>2 DEF OfAKind
  <1> QED
    BY <1>1, <1>2, <1>3, <1>4, <1>5, <1>6 DEF Fail

-----------------------------------------------------------------------------
(* Where a block begins and ends *)

(* No register is taken, and nobody looks at one. *)
Resting ==
  /\ TypeOK /\ blk <= Len(program) /\ stage = "next" /\ requests = <<>> /\ fault = "none"
  /\ Used = {} /\ \A v \in Names : ~InRegister(v)
  /\ \A v \in Scalars : machine.mem[v] = reference.env[v]
  /\ (Temps \union Consts) \intersect Defined \intersect Pending = {}
  /\ PlacesInPlace /\ SameEffects /\ FlagsUntouched /\ CopiesIntact

(* With nothing in a register, what is in memory is all there is to know. *)
LEMMA RestingFaithful == Resting => Faithful
  <1> SUFFICES ASSUME Resting PROVE Faithful
    OBVIOUS
  <1>1. \A v \in Names : ~InRegister(v) /\ ~Held(v)
    BY DEF Resting, Held
  <1>2. OnlyMentionedLocated /\ LocatedAreDeclared /\ ScalarsRight /\ ArraysAddressed /\ Unshared
    BY <1>1, NamesApart DEF Resting, OnlyMentionedLocated, LocatedAreDeclared, ScalarsRight, ArraysAddressed, Unshared
  <1>3. ValuesKept /\ LiteralsReady /\ NewRequests /\ AnswersRight
    BY DEF Resting, ValuesKept, LiteralsReady, NewRequests, AnswersRight
  <1>4. RegistersCounted
    <2>1. OwnersRight
      BY <1>1 DEF Resting, OwnersRight
    <2>2. IsFiniteSet(Taken(Block)) /\ Claimed \in SUBSET Taken(Block)
      BY BlockTyped, TakenFinite DEF Resting, Claimed
    <2>3. Cardinality(Claimed) \in Nat
      BY <2>2, FS_Subset, FS_CardinalityType
    <2>4. Cardinality(Used) = 0
      BY FS_EmptySet DEF Resting
    <2> QED
      BY <2>1, <2>3, <2>4 DEF RegistersCounted
  <1> QED
    BY <1>2, <1>3, <1>4 DEF Resting, Faithful, StateFaithful

(* At the end of a block nothing is mentioned any more. *)
LEMMA NothingPending ==
  ASSUME EffectInv, GoodBlock,
         idx > Len(Block) \/ (idx = Len(Block) /\ TransfersControl(Inst))
  PROVE  \A v \in Names : v \notin Pending
  <1>1. TypeOK /\ Len(Block) \in Nat /\ idx \in Nat /\ idx >= 1
    BY BlockTyped DEF EffectInv, Inv, GoodBlock
  <1>2. CASE idx > Len(Block)
    <2>1. (idx - 1) + 1 .. Len(Block) = {}
      BY <1>1, <1>2
    <2> QED
      BY <2>1 DEF Pending, After
  <1>3. CASE idx = Len(Block) /\ TransfersControl(Inst)
    <2>1. OfAKind(Inst) /\ Pending = Mentions(Inst) \union Later
      BY <1>1, <1>3, AtHand
    <2>2. Later = {}
      <3>1. idx + 1 .. Len(Block) = {}
        BY <1>1, <1>3
      <3> QED
        BY <3>1 DEF Later, After
    <2>3. Mentions(Inst) \subseteq Labels
      BY <1>3, <2>1 DEF OfAKind, TransfersControl, Mentions, Operands
    <2> QED
      BY <2>1, <2>2, <2>3, NamesApart
  <1> QED
    BY <1>2, <1>3

(* Freeing the registers brings every updated scalar home. *)
LEMMA FreeRegistersFaithful == ASSUME EffectInv, GoodBlock, FreeRegisters PROVE Resting' /\ stack' = stack
  <1>1. /\ fault = "none" /\ stage = "next" /\ blk <= Len(program)
        /\ idx > Len(Block) \/ (idx = Len(Block) /\ TransfersControl(Inst))
        /\ regTable' = [r \in AllRegs |-> Free]
        /\ addressTable' = [v \in Names |-> IF v \in Homed THEN HomeOf(v)
                                            ELSE IF InRegister(v) THEN Nowhere ELSE addressTable[v]]
        /\ UNCHANGED <<position, stage, requests, got, fault, globals, stack, reference>>
    BY DEF FreeRegisters
  <1> DEFINE mem == [v \in Names |-> IF v \in Homed \intersect globals /\ IsUpdated(v)
                                     THEN machine.reg[addressTable[v].reg] ELSE machine.mem[v]]
  <1>2. machine' = [machine EXCEPT !.mem = mem]
    BY DEF FreeRegisters
  <1>3. /\ TypeOK /\ MachineTyped /\ StateFaithful /\ requests = <<>>
    BY <1>1 DEF EffectInv, Inv, TableInv, Faithful, Quota
  <1>4. machine'.mem = mem /\ machine'.heap = machine.heap /\ machine'.output = machine.output
        /\ machine'.flags = machine.flags
    BY <1>2, <1>3 DEF MachineTyped
  <1>5. TypeOK'
    <2>1. Inv'
      BY StepInv DEF EffectInv, Next
    <2> QED
      BY <2>1 DEF Inv
  <1>6. Block' = Block /\ blk' = blk /\ program' = program /\ idx' = idx /\ Pending' = Pending
        /\ Before(Block, idx)' = Before(Block, idx)
    BY <1>1 DEF position, Block, Pending
  <1>7. Used' = {}
    BY <1>1 DEF Used
  <1>8. ASSUME NEW v \in Names PROVE ~InRegister(v)'
    <2>1. addressTable'[v] \in {HomeOf(v), Nowhere} \/ (~InRegister(v) /\ addressTable'[v] = addressTable[v])
      BY <1>1
    <2> QED
      BY <2>1, LocationsApart DEF InRegister, HomeOf
  <1>9. ASSUME NEW v \in Scalars PROVE machine'.mem[v] = reference'.env[v]
    <2>1. v \in Names /\ v \notin Literals
      BY NamesApart
    <2>2. reference' = reference
      BY <1>1
    <2>3. /\ ~InRegister(v) \/ ~IsUpdated(v) => machine.mem[v] = reference.env[v]
          /\ Held(v) => Value(v) = reference.env[v]
          /\ InRegister(v) => v \in globals
      BY <1>3 DEF StateFaithful, ScalarsRight, LocatedAreDeclared
    <2>4. CASE v \in Homed \intersect globals /\ IsUpdated(v)
      <3>1. Held(v)
        BY <2>1, <2>4 DEF Held, Wanted, Homed
      <3> QED
        BY <1>4, <2>1, <2>2, <2>3, <2>4, <3>1 DEF Value, RegOf
    <2>5. CASE ~(v \in Homed \intersect globals /\ IsUpdated(v))
      <3>1. ~InRegister(v) \/ ~IsUpdated(v)
        BY <2>1, <2>3, <2>5 DEF Homed
      <3> QED
        BY <1>4, <2>1, <2>2, <2>3, <2>5, <3>1
    <2> QED
      BY <2>4, <2>5
  <1>10. (Temps \union Consts) \intersect Defined' \intersect Pending' = {}
    BY <1>1, <1>6, NothingPending, NamesApart
  <1>11. PlacesInPlace' /\ SameEffects' /\ FlagsUntouched'
    BY <1>1, <1>3, <1>4, <1>6 DEF StateFaithful, PlacesInPlace, SameEffects, FlagsUntouched
  <1>12. CopiesIntact'
    <2> SUFFICES ASSUME NEW v \in LargeCopies PROVE machine'.mem[v] = <<"initially", v>>
      BY DEF CopiesIntact
    <2>1. v \in Names /\ ~IsUpdated(v)
      BY <1>3, Results, NamesApart
    <2> QED
      BY <1>3, <1>4, <2>1 DEF StateFaithful, CopiesIntact
  <1> QED
    BY <1>1, <1>3, <1>5, <1>6, <1>7, <1>8, <1>9, <1>10, <1>11, <1>12 DEF Resting

(* The machine and the reference start a block alike. *)
LEMMA FreshStart ==
  /\ \A v \in Names : FreshMachine.mem[v] = FreshReference.env[v] /\ ~IsPlace(FreshReference.env[v])
  /\ \A v \in LargeCopies : FreshMachine.mem[v] = <<"initially", v>>
  /\ FreshMachine.heap = FreshReference.heap /\ FreshMachine.output = FreshReference.output
  /\ FreshMachine.flags = FreshReference.flags /\ FreshReference.flags = Junk
  <1>1. \A v \in Names : FreshMachine.mem[v] = FreshReference.env[v] /\ ~IsPlace(FreshReference.env[v])
    BY DEF FreshMachine, FreshReference, Initially, IsPlace
  <1>2. \A v \in LargeCopies : FreshMachine.mem[v] = <<"initially", v>>
    BY NamesApart DEF FreshMachine, Initially
  <1> QED
    BY <1>1, <1>2 DEF FreshMachine, FreshReference

LEMMA NextBlockFaithful == ASSUME EffectInv, NextBlock, blk' <= Len(program') PROVE Resting'
  <1>1. /\ fault = "none" /\ stage = "next" /\ freed /\ idx' = 1
        /\ machine' = FreshMachine /\ reference' = FreshReference
        /\ UNCHANGED <<program, stage, requests, got, fault, tables>>
    BY DEF NextBlock
  <1>2. Inv /\ Inv'
    BY StepInv DEF EffectInv, Next
  <1>3. requests = <<>> /\ Used = {} /\ \A v \in Names : ~InRegister(v)
    BY <1>1, <1>2 DEF Inv, Quota, GlobalsHaveHome
  <1>4. TypeOK' /\ stage' = "next" /\ requests' = <<>> /\ fault' = "none"
    BY <1>1, <1>2, <1>3 DEF Inv
  <1>5. Used' = {} /\ \A v \in Names : ~InRegister(v)'
    BY <1>1, <1>3 DEF Used, InRegister, tables
  <1>6. \A v \in Scalars : machine'.mem[v] = reference'.env[v]
    BY <1>1, FreshStart, NamesApart
  <1>7. Defined' = {}
    BY <1>1 DEF Defined, DefinedBefore
  <1>8. PlacesInPlace' /\ SameEffects' /\ FlagsUntouched' /\ CopiesIntact'
    BY <1>1, FreshStart DEF PlacesInPlace, SameEffects, FlagsUntouched, CopiesIntact
  <1> QED
    BY <1>4, <1>5, <1>6, <1>7, <1>8 DEF Resting

(* The first block starts with empty tables. *)
LEMMA EffectInit == Init => EffectInv
  <1> SUFFICES ASSUME Init PROVE EffectInv
    OBVIOUS
  <1>1. Inv /\ TableInv
    BY InitInv, TableInit
  <1>2. StackMeansFault
    BY DEF Init, StackMeansFault
  <1>3. ASSUME GoodBlock PROVE Resting
    <2>1. TypeOK /\ blk <= Len(program) /\ stage = "next" /\ requests = <<>> /\ fault = "none"
      BY <1>1, <1>3 DEF Init, Inv, GoodBlock
    <2>2. Used = {} /\ \A v \in Names : ~InRegister(v)
      BY LocationsApart DEF Init, Used, InRegister
    <2>3. \A v \in Scalars : machine.mem[v] = reference.env[v]
      BY FreshStart, NamesApart DEF Init
    <2>4. Defined = {}
      BY DEF Init, Defined, DefinedBefore
    <2>5. PlacesInPlace /\ SameEffects /\ FlagsUntouched /\ CopiesIntact
      BY FreshStart DEF Init, PlacesInPlace, SameEffects, FlagsUntouched, CopiesIntact
    <2> QED
      BY <2>1, <2>2, <2>3, <2>4, <2>5 DEF Resting
  <1>4. Faithful
    BY <1>3, RestingFaithful DEF Faithful
  <1> QED
    BY <1>1, <1>2, <1>4 DEF EffectInv

-----------------------------------------------------------------------------
(* Every step preserves the invariant *)

(* Only getRegister sends a name to the stack, and only NextBlock leaves a block. *)
LEMMA StackGrows ==
  ASSUME [Next]_vars
  PROVE  /\ stack \subseteq stack' /\ program' = program
         /\ (NextBlock /\ blk' = blk + 1) \/ blk' = blk
         /\ GetRegister \/ stack' = stack
  <1>1. CASE GetRegister
    <2>1. stack' = stack \/ \E reg : stack' = OnStack(reg)
      BY <1>1 DEF GetRegister, AlreadyInRegister, ReuseRegister, TakeUnused, Spill, tables
    <2>2. program' = program /\ blk' = blk
      BY <1>1 DEF GetRegister, AlreadyInRegister, ReuseRegister, TakeUnused, Spill, position
    <2> QED
      BY <1>1, <2>1, <2>2 DEF OnStack
  <1>2. CASE Emit
    <2>1. stack' = stack
      BY <1>2 DEF Emit, EmitDeclaration, EmitCopy, EmitArithmetic, EmitConditional, EmitArrayIndex, EmitWrite, EmitCall,
         EmitUntracked, EmitVectorLoad, EmitVectorStore, EmitVector, EmitVectorAssign, Holds, tables
    <2>2. Emitted
      BY <1>2 DEF Emit, EmitDeclaration, EmitCopy, EmitArithmetic, EmitConditional, EmitArrayIndex, EmitWrite, EmitCall,
         EmitUntracked, EmitVectorLoad, EmitVectorStore, EmitVector, EmitVectorAssign
    <2> QED
      BY <2>1, <2>2 DEF Emitted
  <1>3. CASE Fetch \/ FreeRegisters \/ Finish \/ Fail
    BY <1>3 DEF Fetch, FreeRegisters, Finish, Fail, LookupFails, NullRegister, NothingToSpill, SecondOperandMissing,
       VectorSourceFails, InvalidInstruction, position, tables
  <1>4. CASE NextBlock
    BY <1>4 DEF NextBlock, tables
  <1>5. CASE UNCHANGED vars
    BY <1>5 DEF vars, position, tables
  <1> QED
    BY <1>1, <1>2, <1>3, <1>4, <1>5 DEF Next

(* A block that is good has been good so far. *)
LEMMA GoodBefore ==
  ASSUME [Next]_vars, ~NextBlock, GoodBlock'
  PROVE  GoodBlock
  <1>1. stack \subseteq stack' /\ program' = program /\ blk' = blk
    BY StackGrows
  <1>2. Block' = Block
    BY <1>1 DEF Block
  <1> QED
    BY <1>1, <1>2 DEF GoodBlock, NothingOnStack

LEMMA Stuttering == ASSUME Faithful, UNCHANGED vars PROVE Faithful'
  <1>1. /\ program' = program /\ blk' = blk /\ idx' = idx /\ stage' = stage /\ requests' = requests /\ got' = got
        /\ fault' = fault /\ regTable' = regTable /\ addressTable' = addressTable /\ globals' = globals
        /\ stack' = stack /\ machine' = machine /\ reference' = reference
    BY DEF vars, position, tables
  <1>2. Block' = Block
    BY <1>1 DEF Block
  <1>3. Inst' = Inst
    BY <1>1, <1>2 DEF Inst
  <1> SUFFICES ASSUME GoodBlock'
               PROVE  fault' = "none" /\ StateFaithful' /\ NewRequests' /\ AnswersRight'
    BY DEF Faithful
  <1>4. GoodBlock
    BY <1>1, <1>2 DEF GoodBlock, NothingOnStack
  <1>5. fault = "none" /\ StateFaithful /\ NewRequests /\ AnswersRight
    BY <1>4 DEF Faithful
  <1>6. /\ Pending' = Pending /\ Later' = Later /\ Defined' = Defined /\ Used' = Used
        /\ \A v : /\ RegOf(v)' = RegOf(v) /\ Value(v)' = Value(v) /\ (InRegister(v)' <=> InRegister(v))
                  /\ Meaning(v)' = Meaning(v) /\ (IsUpdated(v)' <=> IsUpdated(v))
    BY <1>1, <1>2 DEF Pending, Later, Defined, Used, RegOf, Value, InRegister, Meaning, IsUpdated
  <1>7. \A v : /\ (Wanted(v)' <=> Wanted(v)) /\ (Kept(v)' <=> Kept(v)) /\ (Loaded(v)' <=> Loaded(v))
    BY <1>1, <1>3, <1>6 DEF Wanted, Kept, Loaded
  <1>8. \A v : Held(v)' <=> Held(v)
    BY <1>6, <1>7 DEF Held
  <1>9. OnlyMentionedLocated' /\ LocatedAreDeclared' /\ ScalarsRight'
    BY <1>1, <1>2, <1>3, <1>5, <1>6, <1>8 DEF StateFaithful, OnlyMentionedLocated, LocatedAreDeclared, ScalarsRight
  <1>10. ValuesKept' /\ ArraysAddressed' /\ Unshared'
    BY <1>1, <1>5, <1>6, <1>7, <1>8 DEF StateFaithful, ValuesKept, ArraysAddressed, Unshared
  <1>11. PlacesInPlace' /\ SameEffects' /\ FlagsUntouched' /\ CopiesIntact' /\ LiteralsReady'
    BY <1>1, <1>2, <1>3, <1>5, <1>7
    DEF StateFaithful, PlacesInPlace, SameEffects, FlagsUntouched, CopiesIntact, LiteralsReady
  <1>12. RegistersCounted'
    <2>1. OwnersRight' <=> OwnersRight
      BY <1>1, <1>6, <1>8 DEF OwnersRight
    <2>2. Claimed' = Claimed
      BY <1>1, <1>2, <1>6 DEF Claimed
    <2> QED
      BY <1>2, <1>5, <1>6, <2>1, <2>2 DEF StateFaithful, RegistersCounted
  <1>13. NewRequests'
    BY <1>1, <1>2, <1>5, <1>6 DEF NewRequests
  <1>14. AnswersRight'
    <2>1. ThirdRequest' = ThirdRequest /\ \A v : Located(v)' <=> Located(v)
      BY <1>1, <1>3 DEF ThirdRequest, Located
    <2> QED
      BY <1>1, <1>3, <1>5, <1>6, <1>7, <2>1
      DEF AnswersRight, FirstOperandAnswered, IndexAnswered, CopyAnswered, VectorAnswered, VectorAssignAnswered, Answered
  <1> QED
    BY <1>1, <1>5, <1>9, <1>10, <1>11, <1>12, <1>13, <1>14 DEF StateFaithful

LEMMA FaithfulStep == ASSUME EffectInv, [Next]_vars PROVE Faithful'
  <1> SUFFICES ASSUME GoodBlock' PROVE Faithful'
    BY DEF Faithful
  <1>1. Resting' => Faithful'
    BY RestingFaithful, PTL
  <1>2. CASE NextBlock
    BY <1>1, <1>2, NextBlockFaithful DEF GoodBlock
  <1>3. CASE ~NextBlock
    <2>1. GoodBlock
      BY <1>3, GoodBefore
    <2>2. ~Finish
      BY <2>1, BlockTyped DEF Finish, GoodBlock, EffectInv, Inv
    <2>3. CASE UNCHANGED vars
      BY <2>3, Stuttering DEF EffectInv
    <2> QED
      BY <1>1, <1>3, <2>1, <2>2, <2>3, FetchFaithful, GetRegisterFaithful, EmitFaithful, NeverFails,
         FreeRegistersFaithful DEF Next
  <1> QED
    BY <1>2, <1>3

(* Temporaries and constants go to the stack from blocks that are not disciplined only. *)
LEMMA StackMeansFaultStep == ASSUME EffectInv, [Next]_vars PROVE StackMeansFault'
  <1>1. stack \subseteq stack' /\ program' = program /\ (blk' = blk \/ blk' = blk + 1) /\ (GetRegister \/ stack' = stack)
    BY StackGrows
  <1>2. TypeOK /\ blk \in Nat \ {0} /\ StackMeansFault
    BY DEF EffectInv, Inv, TypeOK
  <1>3. 1 .. blk \subseteq 1 .. blk'
    BY <1>1, <1>2
  <1> SUFFICES ASSUME stack' \intersect (Temps \union Consts) # {}
               PROVE  \E k \in 1 .. blk' : k <= Len(program) /\ ~(WellFormed(program, k) /\ Disciplined(program[k]))
    BY <1>1 DEF StackMeansFault
  <1>4. CASE stack \intersect (Temps \union Consts) # {}
    BY <1>2, <1>3, <1>4 DEF StackMeansFault
  <1>5. CASE stack \intersect (Temps \union Consts) = {}
    <2>1. GetRegister /\ stack' # stack
      BY <1>1, <1>5
    <2>2. ~GoodBlock
      BY <2>1, GetRegisterFaithful
    <2>3. blk <= Len(program)
      BY <2>1, GetRegisterEffect DEF EffectInv, Inv, Quota
    <2>4. NothingOnStack
      BY <1>5 DEF NothingOnStack
    <2>5. ~(WellFormed(program, blk) /\ Disciplined(program[blk]))
      BY <2>2, <2>3, <2>4 DEF GoodBlock, Block
    <2>6. blk \in 1 .. blk'
      BY <1>1, <1>2
    <2> QED
      BY <2>3, <2>5, <2>6
  <1> QED
    BY <1>4, <1>5

LEMMA EffectStep == ASSUME EffectInv, [Next]_vars PROVE EffectInv'
  BY StepInv, TableStep, StackMeansFaultStep, FaithfulStep DEF EffectInv

LEMMA EffectInvariance == Spec => []EffectInv
  <1>1. EffectInv /\ [Next]_vars => EffectInv'
    BY EffectStep
  <1> QED
    BY <1>1, EffectInit, PTL DEF Spec

-----------------------------------------------------------------------------
(***************************************************************************)
(* What generateFrom3AC, the register table and freeRegisters are for: at  *)
(* the end of a good block every scalar is in memory with the value the    *)
(* three-address code gives it, and the stores, the output and the flags a *)
(* jump will test are those of the three-address code, whatever registers  *)
(* were handed out, reused and stored on the way.                          *)
(***************************************************************************)
THEOREM EffectCorrect == Spec => []EffectIsCorrect
  <1>1. EffectInv => EffectIsCorrect
    <2> SUFFICES ASSUME EffectInv, freed, GoodBlock, idx > Len(Block)
                 PROVE  /\ \A v \in Scalars : machine.mem[v] = reference.env[v]
                        /\ machine.heap = reference.heap
                        /\ machine.output = reference.output
                        /\ TransfersControl(Block[Len(Block)]) => machine.flags = reference.flags
      BY DEF EffectIsCorrect
    <2>1. StateFaithful /\ GlobalsHaveHome
      BY DEF EffectInv, Inv, Faithful
    <2>2. \A v \in Scalars : machine.mem[v] = reference.env[v]
      BY <2>1, NamesApart DEF GlobalsHaveHome, StateFaithful, ScalarsRight
    <2> QED
      BY <2>1, <2>2 DEF StateFaithful, SameEffects
  <1> QED
    BY <1>1, EffectInvariance, PTL

(***************************************************************************)
(* No assertion of the generator fails and getRegister never returns a     *)
(* null register before a block that is not well formed and disciplined.   *)
(***************************************************************************)
THEOREM CodeGenerated == Spec => []DisciplinedCodeIsGenerated
  <1>1. EffectInv => DisciplinedCodeIsGenerated
    <2> SUFFICES ASSUME EffectInv, fault # "none",
                        \A k \in 1 .. blk : WellFormed(program, k) /\ Disciplined(program[k])
                 PROVE  FALSE
      BY DEF DisciplinedCodeIsGenerated
    <2>1. blk <= Len(program) /\ blk \in 1 .. blk
      <3>1. blk <= Len(program)
        BY DEF EffectInv, TableInv, FaultInBlock
      <3>2. blk \in Nat \ {0}
        BY DEF EffectInv, Inv, TypeOK
      <3> QED
        BY <3>1, <3>2
    <2>2. NothingOnStack
      BY DEF EffectInv, StackMeansFault, NothingOnStack
    <2>3. GoodBlock
      BY <2>1, <2>2 DEF GoodBlock, Block
    <2> QED
      BY <2>3 DEF EffectInv, Faithful
  <1> QED
    BY <1>1, EffectInvariance, PTL
=============================================================================
