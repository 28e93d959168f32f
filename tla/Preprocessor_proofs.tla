------------------------ MODULE Preprocessor_proofs ------------------------
(***************************************************************************)
(* The preprocessor keeps every converted jump next to its comparison, for *)
(* every program past.cpp can generate and whatever its length.  The       *)
(* invariant speaks of all of the code, rewritten and not yet rewritten:   *)
(* only the jumps the window has not passed may still wait for theirs.     *)
(***************************************************************************)
EXTENDS Preprocessor, SequenceTheorems, TLAPS

(* A converted jump has its comparison before it, and that leaves flags. *)
JumpsFollow(code) ==
  \A k \in 1 .. Len(code) :
    code[k].op \in ConditionalJumps \ {"JMP_ZERO"} =>
      /\ k > 1 /\ IsComparison(code[k - 1]) /\ ~HasResult(code[k - 1])
      /\ code[k].op = JumpFor[code[k - 1].op]

(* A comparison that leaves flags has a jump after it. *)
FlagsAreTested(code) ==
  \A k \in 1 .. Len(code) :
    IsComparison(code[k]) /\ ~HasResult(code[k]) =>
      k < Len(code) /\ code[k + 1].op \in ConditionalJumps

(* Before n, no jump on a comparison is left to convert. *)
ConvertedBefore(code, n) ==
  \A k \in 1 .. Len(code) :
    k < n /\ code[k].op = "JMP_ZERO" => k = 1 \/ ~IsComparison(code[k - 1])

IInv ==
  /\ TypeOK
  /\ JumpsFollow(instructions) /\ FlagsAreTested(instructions)
  /\ ConvertedBefore(instructions, at)
  /\ phase # "preprocessing" => at > Len(instructions)

(* What the shape of an instruction says of it. *)
LEMMA Shapes ==
  ASSUME NEW i \in Instruction, NoName \notin Names
  PROVE  /\ DOMAIN i = {"op", "result", "arg1", "arg2"}
         /\ i = [op |-> i.op, result |-> i.result, arg1 |-> i.arg1, arg2 |-> i.arg2]
         /\ i.op \in {"ASSIGN", "ARRAY_INDEX"} => i.result \in Names
         /\ IsBinaryOperation(i) =>
              \A z \in Names : [i EXCEPT !.result = z] \in Instruction
         /\ IsComparison(i) => [i EXCEPT !.result = NoName] \in Instruction
         /\ i.op = "JMP_ZERO" => \A j \in ConditionalJumps : [i EXCEPT !.op = j] \in Instruction
<1> USE DEF Instruction, Generable, Shape
<1>1. i.op \in {"ASSIGN", "ARRAY_INDEX"} => i.result \in Names
  BY DEF Arithmetic, Comparisons, ConditionalJumps
<1>2. IsBinaryOperation(i) => \A z \in Names : [i EXCEPT !.result = z] \in Instruction
  BY DEF IsBinaryOperation, ValueOperations, HasResult, Arithmetic, Comparisons, ConditionalJumps
<1>3. IsComparison(i) => [i EXCEPT !.result = NoName] \in Instruction
  BY DEF IsComparison, Arithmetic, Comparisons, ConditionalJumps
<1>4. i.op = "JMP_ZERO" => \A j \in ConditionalJumps : [i EXCEPT !.op = j] \in Instruction
  BY DEF Arithmetic, Comparisons, ConditionalJumps
<1>5. /\ DOMAIN i = {"op", "result", "arg1", "arg2"}
      /\ i = [op |-> i.op, result |-> i.result, arg1 |-> i.arg1, arg2 |-> i.arg2]
  OBVIOUS
<1> QED BY <1>1, <1>2, <1>3, <1>4, <1>5

(* What is left when an element of a sequence is removed. *)
LEMMA Removed ==
  ASSUME NEW S, NEW s \in Seq(S), NEW i \in 1 .. Len(s)
  PROVE  /\ RemoveAt(s, i) \in Seq(S)
         /\ Len(RemoveAt(s, i)) = Len(s) - 1
         /\ \A k \in 1 .. Len(s) - 1 : RemoveAt(s, i)[k] = IF k < i THEN s[k] ELSE s[k + 1]
<1> DEFINE low == SubSeq(s, 1, i - 1)
           high == SubSeq(s, i + 1, Len(s))
<1>1. /\ low \in Seq(S) /\ Len(low) = i - 1
      /\ \A k \in 1 .. i - 1 : low[k] = s[k]
  OBVIOUS
<1>2. /\ high \in Seq(S) /\ Len(high) = Len(s) - i
      /\ \A k \in 1 .. Len(s) - i : high[k] = s[i + k]
  OBVIOUS
<1>3. RemoveAt(s, i) = low \o high
  BY DEF RemoveAt
<1> HIDE DEF low, high
<1>4. /\ low \o high \in Seq(S) /\ Len(low \o high) = Len(low) + Len(high)
      /\ \A k \in 1 .. Len(low) + Len(high) :
           (low \o high)[k] = IF k <= Len(low) THEN low[k] ELSE high[k - Len(low)]
  BY <1>1, <1>2, ConcatProperties, ZenonT(30)
<1>5. Len(low) + Len(high) = Len(s) - 1
  BY <1>1, <1>2
<1>6. ASSUME NEW k \in 1 .. Len(s) - 1
      PROVE  (low \o high)[k] = IF k < i THEN s[k] ELSE s[k + 1]
  <2>1. CASE k < i
    BY <1>1, <1>4, <1>5, <2>1
  <2>2. CASE k >= i
    <3>1. (low \o high)[k] = high[k - (i - 1)] /\ k - (i - 1) \in 1 .. Len(s) - i
      BY <1>1, <1>4, <1>5, <2>2
    <3> QED BY <1>2, <2>2, <3>1
  <2>3. k < i \/ k >= i
    OBVIOUS
  <2> QED BY <2>1, <2>2, <2>3
<1> QED BY <1>3, <1>4, <1>5, <1>6

(* The conversion of the jump at k, element by element. *)
LEMMA ConvertedOne ==
  ASSUME NEW code \in Seq(Instruction), NEW k \in 2 .. Len(code) + 1, NoName \notin Names
  PROVE  /\ Converted(code, k) \in Seq(Instruction)
         /\ Len(Converted(code, k)) = Len(code)
         /\ \A j \in 1 .. Len(code) : j # k => Converted(code, k)[j].op = code[j].op
         /\ \A j \in 1 .. Len(code) : j # k - 1 => Converted(code, k)[j].result = code[j].result
         /\ IF k <= Len(code) /\ IsComparison(code[k - 1]) /\ code[k].op = "JMP_ZERO"
            THEN /\ ~HasResult(Converted(code, k)[k - 1])
                 /\ Converted(code, k)[k].op = JumpFor[code[k - 1].op]
            ELSE Converted(code, k) = code
<1>1. CASE k <= Len(code) /\ IsComparison(code[k - 1]) /\ code[k].op = "JMP_ZERO"
  <2> DEFINE c == [code[k - 1] EXCEPT !.result = NoName]
             j == [code[k] EXCEPT !.op = JumpFor[code[k - 1].op]]
             cleared == [code EXCEPT ![k - 1] = c]
  <2>1. k - 1 \in 1 .. Len(code) /\ k \in 1 .. Len(code) /\ k # k - 1
    BY <1>1
  <2>2. code[k - 1] \in Instruction /\ code[k] \in Instruction
    BY <2>1
  <2>3. JumpFor[code[k - 1].op] \in ConditionalJumps
    BY <1>1 DEF IsComparison, Comparisons, JumpFor, ConditionalJumps
  <2>4. /\ c \in Instruction /\ c.op = code[k - 1].op /\ c.result = NoName
    <3> DEFINE before == code[k - 1]
    <3>1. before \in Instruction /\ IsComparison(before)
      BY <1>1, <2>2
    <3>2. c = [before EXCEPT !.result = NoName]
      OBVIOUS
    <3> HIDE DEF before, c
    <3>3. /\ c \in Instruction /\ c.op = before.op /\ c.result = NoName
      BY <3>1, <3>2, Shapes
    <3> QED BY <3>3 DEF before
  <2>5. /\ j \in Instruction /\ j.op = JumpFor[code[k - 1].op] /\ j.result = code[k].result
    BY <1>1, <2>2, <2>3, Shapes
  <2>6. Converted(code, k) = [cleared EXCEPT ![k] = j]
    BY <1>1, <2>1 DEF Converted
  <2> HIDE DEF c, j
  <2>7. /\ cleared \in Seq(Instruction) /\ Len(cleared) = Len(code)
        /\ \A i \in 1 .. Len(code) : cleared[i] = IF i = k - 1 THEN c ELSE code[i]
    BY <2>1, <2>4, ExceptSeq
  <2> HIDE DEF cleared
  <2>8. /\ Converted(code, k) \in Seq(Instruction) /\ Len(Converted(code, k)) = Len(code)
        /\ \A i \in 1 .. Len(code) : Converted(code, k)[i] = IF i = k THEN j ELSE cleared[i]
    BY <2>1, <2>5, <2>6, <2>7, ExceptSeq
  <2> QED BY <1>1, <2>1, <2>4, <2>5, <2>7, <2>8 DEF HasResult
<1>2. CASE ~(k <= Len(code) /\ IsComparison(code[k - 1]) /\ code[k].op = "JMP_ZERO")
  <2>1. Converted(code, k) = code
    BY <1>2 DEF Converted
  <2> QED BY <1>2, <2>1
<1> QED BY <1>1, <1>2

LEMMA Jumping ==
  ASSUME NEW i, IsComparison(i)
  PROVE  /\ JumpFor[i.op] \in ConditionalJumps \ {"JMP_ZERO"}
         /\ i.op \notin ConditionalJumps /\ i.op # "JMP_ZERO"
         /\ \A j : j.op = i.op => IsComparison(j)
BY DEF IsComparison, Comparisons, JumpFor, ConditionalJumps

(* Converting the jump of the window keeps the invariant, and moves it on. *)
LEMMA ConversionKeeps ==
  ASSUME NEW code \in Seq(Instruction), NEW k \in 2 .. Len(code) + 1, NoName \notin Names,
         JumpsFollow(code), FlagsAreTested(code), ConvertedBefore(code, k)
  PROVE  /\ JumpsFollow(Converted(code, k)) /\ FlagsAreTested(Converted(code, k))
         /\ ConvertedBefore(Converted(code, k), k + 1)
<1> DEFINE new == Converted(code, k)
<1>1. CASE k <= Len(code) /\ IsComparison(code[k - 1]) /\ code[k].op = "JMP_ZERO"
  <2>1. /\ Len(new) = Len(code) /\ new \in Seq(Instruction)
        /\ \A j \in 1 .. Len(code) : j # k => new[j].op = code[j].op
        /\ \A j \in 1 .. Len(code) : j # k - 1 => new[j].result = code[j].result
        /\ ~HasResult(new[k - 1]) /\ new[k].op = JumpFor[code[k - 1].op]
    BY <1>1, ConvertedOne
  <2>2. /\ k \in 1 .. Len(code) /\ k - 1 \in 1 .. Len(code) /\ k # k - 1 /\ k > 1
    BY <1>1
  <2>3. /\ new[k].op \in ConditionalJumps \ {"JMP_ZERO"} /\ ~IsComparison(new[k])
        /\ code[k - 1].op \notin ConditionalJumps /\ ~IsComparison(code[k])
    BY <1>1, <2>1, Jumping DEF IsComparison, Comparisons, ConditionalJumps
  <2> HIDE DEF new
  <2>4. JumpsFollow(new)
    <3> SUFFICES ASSUME NEW j \in 1 .. Len(code), new[j].op \in ConditionalJumps \ {"JMP_ZERO"}
                 PROVE  /\ j > 1 /\ IsComparison(new[j - 1]) /\ ~HasResult(new[j - 1])
                        /\ new[j].op = JumpFor[new[j - 1].op]
      BY <2>1 DEF JumpsFollow
    <3>1. CASE j = k
      BY <1>1, <2>1, <2>2, <3>1 DEF IsComparison
    <3>2. CASE j # k
      <4>1. /\ j > 1 /\ IsComparison(code[j - 1]) /\ ~HasResult(code[j - 1])
            /\ code[j].op = JumpFor[code[j - 1].op]
        BY <2>1, <3>2 DEF JumpsFollow
      <4>2. j - 1 # k /\ j - 1 # k - 1 /\ j - 1 \in 1 .. Len(code)
        BY <2>3, <3>2, <4>1
      <4> QED BY <2>1, <3>2, <4>1, <4>2 DEF IsComparison, HasResult
    <3> QED BY <3>1, <3>2
  <2>5. FlagsAreTested(new)
    <3> SUFFICES ASSUME NEW j \in 1 .. Len(code), IsComparison(new[j]), ~HasResult(new[j])
                 PROVE  j < Len(code) /\ new[j + 1].op \in ConditionalJumps
      BY <2>1 DEF FlagsAreTested
    <3>1. CASE j = k - 1
      BY <2>2, <2>3, <3>1
    <3>2. CASE j # k - 1
      <4>1. j # k
        BY <2>3
      <4>2. j < Len(code) /\ code[j + 1].op \in ConditionalJumps
        BY <2>1, <3>2, <4>1 DEF FlagsAreTested, IsComparison, HasResult
      <4> QED BY <2>1, <3>2, <4>1, <4>2
    <3> QED BY <3>1, <3>2
  <2>6. ConvertedBefore(new, k + 1)
    <3> SUFFICES ASSUME NEW j \in 1 .. Len(code), j < k + 1, new[j].op = "JMP_ZERO", j # 1
                 PROVE  ~IsComparison(new[j - 1])
      BY <2>1 DEF ConvertedBefore
    <3>1. j # k /\ j < k
      BY <2>3
    <3> QED BY <2>1, <3>1 DEF ConvertedBefore, IsComparison
  <2> QED BY <2>4, <2>5, <2>6 DEF new
<1>2. CASE ~(k <= Len(code) /\ IsComparison(code[k - 1]) /\ code[k].op = "JMP_ZERO")
  <2>1. new = code
    BY <1>2, ConvertedOne
  <2>2. ConvertedBefore(code, k + 1)
    BY <1>2 DEF ConvertedBefore
  <2> QED BY <2>1, <2>2
<1> QED BY <1>1, <1>2

(* The erasure of the assignment at k, element by element. *)
LEMMA Erased ==
  ASSUME NEW code \in Seq(Instruction), NEW k \in 2 .. Len(code), NoName \notin Names,
         IsBinaryOperation(code[k - 1]), code[k].op = "ASSIGN"
  PROVE  LET new == RemoveAt([code EXCEPT ![k - 1].result = code[k].result], k)
         IN  /\ new \in Seq(Instruction) /\ Len(new) = Len(code) - 1
             /\ \A j \in 1 .. Len(code) - 1 : j < k - 1 => new[j] = code[j]
             /\ \A j \in 1 .. Len(code) - 1 : j >= k => new[j] = code[j + 1]
             /\ new[k - 1].op = code[k - 1].op /\ HasResult(new[k - 1])
<1> DEFINE i == [code[k - 1] EXCEPT !.result = code[k].result]
           named == [code EXCEPT ![k - 1] = i]
           new == RemoveAt(named, k)
<1>1. k - 1 \in 1 .. Len(code) /\ k \in 1 .. Len(code) /\ k > 1 /\ k \in Int /\ Len(code) \in Nat
  OBVIOUS
<1>2. /\ i \in Instruction /\ i.op = code[k - 1].op /\ HasResult(i)
  <2>1. code[k - 1] \in Instruction /\ code[k] \in Instruction
    BY <1>1
  <2>2. code[k].result \in Names
    BY <2>1, Shapes
  <2>3. DOMAIN code[k - 1] = {"op", "result", "arg1", "arg2"}
    BY <2>1, Shapes
  <2> QED BY <2>1, <2>2, <2>3, Shapes DEF HasResult
<1> HIDE DEF i
<1>3. /\ named \in Seq(Instruction) /\ Len(named) = Len(code)
      /\ \A j \in 1 .. Len(code) : named[j] = IF j = k - 1 THEN i ELSE code[j]
  BY <1>1, <1>2, ExceptSeq
<1> HIDE DEF named
<1>4. /\ new \in Seq(Instruction) /\ Len(new) = Len(code) - 1
      /\ \A j \in 1 .. Len(code) - 1 : new[j] = IF j < k THEN named[j] ELSE named[j + 1]
  BY <1>1, <1>3, Removed
<1> HIDE DEF new
<1>5. ASSUME NEW j \in 1 .. Len(code) - 1, j < k - 1
      PROVE  new[j] = code[j]
  BY <1>1, <1>3, <1>4, <1>5
<1>6. ASSUME NEW j \in 1 .. Len(code) - 1, j >= k
      PROVE  new[j] = code[j + 1]
  <2>1. j + 1 \in 1 .. Len(code) /\ j + 1 # k - 1 /\ ~(j < k)
    BY <1>1, <1>6
  <2> QED BY <1>3, <1>4, <2>1
<1>7. new[k - 1] = i
  BY <1>1, <1>3, <1>4
<1> QED BY <1>2, <1>4, <1>5, <1>6, <1>7 DEF i, named, new

(* Erasing the assignment of a temporary keeps it, where the window stays. *)
LEMMA ErasureKeeps ==
  ASSUME NEW code \in Seq(Instruction), NEW k \in 2 .. Len(code), NoName \notin Names,
         IsBinaryOperation(code[k - 1]), code[k].op = "ASSIGN",
         JumpsFollow(code), FlagsAreTested(code), ConvertedBefore(code, k),
         NEW new \in Seq(Instruction), Len(new) = Len(code) - 1,
         \A j \in 1 .. Len(code) - 1 : j < k - 1 => new[j] = code[j],
         \A j \in 1 .. Len(code) - 1 : j >= k => new[j] = code[j + 1],
         new[k - 1].op = code[k - 1].op, HasResult(new[k - 1])
  PROVE  JumpsFollow(new) /\ FlagsAreTested(new) /\ ConvertedBefore(new, k)
<1>1. k - 1 \in 1 .. Len(code) /\ k \in 1 .. Len(code) /\ k > 1 /\ k \in Int /\ Len(code) \in Nat
  OBVIOUS
<1>8. ~IsComparison(code[k]) /\ code[k].op \notin ConditionalJumps
  BY DEF IsComparison, Comparisons, ConditionalJumps
<1>9. code[k - 1].op \notin ConditionalJumps
  BY DEF IsBinaryOperation, ValueOperations, Arithmetic, Comparisons, ConditionalJumps
<1>10. JumpsFollow(new)
  <2> SUFFICES ASSUME NEW j \in 1 .. Len(code) - 1, new[j].op \in ConditionalJumps \ {"JMP_ZERO"}
               PROVE  /\ j > 1 /\ IsComparison(new[j - 1]) /\ ~HasResult(new[j - 1])
                      /\ new[j].op = JumpFor[new[j - 1].op]
    BY DEF JumpsFollow
  <2>1. CASE j < k - 1
    <3>1. j \in 1 .. Len(code) /\ new[j] = code[j]
      BY <1>1, <2>1
    <3>2. /\ j > 1 /\ IsComparison(code[j - 1]) /\ ~HasResult(code[j - 1])
          /\ code[j].op = JumpFor[code[j - 1].op]
      BY <3>1 DEF JumpsFollow
    <3>3. new[j - 1] = code[j - 1]
      BY <1>1, <2>1, <3>2
    <3> QED BY <3>1, <3>2, <3>3
  <2>2. CASE j = k - 1
    BY <1>1, <1>9, <2>2
  <2>3. CASE j >= k
    <3>1. j + 1 \in 1 .. Len(code) /\ new[j] = code[j + 1]
      BY <1>1, <2>3
    <3>2. /\ IsComparison(code[j]) /\ ~HasResult(code[j])
          /\ code[j + 1].op = JumpFor[code[j].op]
      BY <3>1 DEF JumpsFollow
    <3>3. j # k
      BY <1>8, <3>2
    <3>4. j > 1 /\ j - 1 \in 1 .. Len(code) - 1 /\ j - 1 >= k /\ (j - 1) + 1 = j
      BY <1>1, <2>3, <3>3
    <3>5. new[j - 1] = code[j]
      BY <3>4
    <3> QED BY <3>1, <3>2, <3>4, <3>5
  <2> QED BY <2>1, <2>2, <2>3
<1>11. FlagsAreTested(new)
  <2> SUFFICES ASSUME NEW j \in 1 .. Len(code) - 1, IsComparison(new[j]), ~HasResult(new[j])
               PROVE  j < Len(code) - 1 /\ new[j + 1].op \in ConditionalJumps
    BY DEF FlagsAreTested
  <2>1. CASE j < k - 1
    <3>1. /\ new[j] = code[j] /\ j \in 1 .. Len(code) - 1
          /\ code[j + 1].op \in ConditionalJumps
      BY <1>1, <2>1 DEF FlagsAreTested
    <3>2. j + 1 < k - 1 /\ j + 1 \in 1 .. Len(code) - 1
      BY <1>1, <1>9, <2>1, <3>1
    <3>3. new[j + 1] = code[j + 1]
      BY <3>2
    <3> QED BY <1>1, <3>1, <3>2, <3>3
  <2>2. CASE j = k - 1
    BY <1>1, <2>2
  <2>3. CASE j >= k
    <3>1. j + 1 < Len(code) /\ code[j + 2].op \in ConditionalJumps
      <4>1. j + 1 \in 1 .. Len(code) /\ new[j] = code[j + 1] /\ j + 1 + 1 = j + 2
        BY <1>1, <2>3
      <4> QED BY <4>1 DEF FlagsAreTested
    <3>2. j + 1 \in 1 .. Len(code) - 1 /\ j + 1 >= k /\ j + 1 + 1 = j + 2
      BY <2>3, <3>1
    <3>3. new[j + 1] = code[j + 2]
      BY <1>1, <3>2
    <3> QED BY <3>1, <3>2, <3>3
  <2> QED BY <2>1, <2>2, <2>3
<1>12. ConvertedBefore(new, k)
  <2> SUFFICES ASSUME NEW j \in 1 .. Len(code) - 1, j < k, new[j].op = "JMP_ZERO", j # 1
               PROVE  ~IsComparison(new[j - 1])
    BY DEF ConvertedBefore
  <2>1. j # k - 1
    BY <1>1, <1>9 DEF ConditionalJumps
  <2>2. j - 1 < k - 1 /\ j - 1 \in 1 .. Len(code) - 1 /\ j \in 1 .. Len(code) /\ j < k - 1
    BY <1>1, <2>1
  <2>3. new[j] = code[j] /\ new[j - 1] = code[j - 1]
    BY <2>2
  <2> QED BY <2>2, <2>3 DEF ConvertedBefore
<1> QED BY <1>10, <1>11, <1>12

-----------------------------------------------------------------------------
(* The invariant holds of the code past.cpp generates. *)
LEMMA InitInv == Init => IInv
<1> SUFFICES ASSUME Init PROVE IInv
  OBVIOUS
<1>1. instructions \in Seq(Generable) /\ at = 2 /\ isArray = {} /\ phase = "preprocessing"
  BY ProgramsAssumption DEF Init, Idle
<1>2. instructions \in Seq(Instruction) /\ Len(instructions) \in Nat
  BY <1>1 DEF Instruction
<1>3. \A k \in 1 .. Len(instructions) :
        /\ instructions[k].op \in ConditionalJumps => instructions[k].op = "JMP_ZERO"
        /\ IsComparison(instructions[k]) => HasResult(instructions[k])
  <2> SUFFICES ASSUME NEW i \in Generable
               PROVE  /\ i.op \in ConditionalJumps => i.op = "JMP_ZERO"
                      /\ IsComparison(i) => HasResult(i)
    <3>1. \A k \in 1 .. Len(instructions) : instructions[k] \in Generable
      BY <1>1
    <3> QED BY <3>1
  <2> QED BY NamesAssumption DEF Generable, Shape, Arithmetic, Comparisons, ConditionalJumps, IsComparison, HasResult
<1>4. ConvertedBefore(instructions, at)
  BY <1>1, <1>2 DEF ConvertedBefore
<1>5. JumpsFollow(instructions) /\ FlagsAreTested(instructions)
  BY <1>3 DEF JumpsFollow, FlagsAreTested
<1>6. TypeOK
  BY <1>1, <1>2 DEF TypeOK
<1> QED BY <1>1, <1>4, <1>5, <1>6 DEF IInv

(* Every step of the window keeps it. *)
LEMMA NextInv == IInv /\ [Next]_vars => IInv'
<1> SUFFICES ASSUME IInv, [Next]_vars PROVE IInv'
  OBVIOUS
<1>1. /\ NoName \notin Names /\ instructions \in Seq(Instruction) /\ Len(instructions) \in Nat
      /\ JumpsFollow(instructions) /\ FlagsAreTested(instructions) /\ ConvertedBefore(instructions, at)
      /\ isArray \subseteq Names
      /\ at \in 2 .. Len(instructions) + 1 \union {2} /\ at \in Int
  BY NamesAssumption DEF IInv, TypeOK
<1>2. CASE Rewrite
  <2> DEFINE new == RemoveAt([instructions EXCEPT ![at - 1].result = Second.result], at)
  <2>1. /\ phase = "preprocessing" /\ at \in 2 .. Len(instructions)
    BY <1>1, <1>2 DEF Rewrite, InWindow, IInv, TypeOK
  <2>2. IsBinaryOperation(instructions[at - 1]) /\ instructions[at].op = "ASSIGN"
    BY <1>2 DEF Rewrite, IsRedundant, First, Second
  <2>3. /\ new \in Seq(Instruction) /\ Len(new) = Len(instructions) - 1
        /\ JumpsFollow(new) /\ FlagsAreTested(new) /\ ConvertedBefore(new, at)
    <3> HIDE DEF new
    <3>1. /\ new \in Seq(Instruction) /\ Len(new) = Len(instructions) - 1
          /\ \A j \in 1 .. Len(instructions) - 1 : j < at - 1 => new[j] = instructions[j]
          /\ \A j \in 1 .. Len(instructions) - 1 : j >= at => new[j] = instructions[j + 1]
          /\ new[at - 1].op = instructions[at - 1].op /\ HasResult(new[at - 1])
      BY <1>1, <2>1, <2>2, Erased DEF new, Second
    <3> QED BY <1>1, <2>1, <2>2, <3>1, ErasureKeeps
  <2>4. /\ instructions' = Converted(new, at) /\ at' = at /\ phase' = phase
    BY <1>2 DEF Rewrite
  <2> HIDE DEF new
  <2>5. at \in 2 .. Len(new) + 1
    BY <1>1, <2>1, <2>3
  <2>6. /\ JumpsFollow(instructions') /\ FlagsAreTested(instructions')
        /\ ConvertedBefore(instructions', at + 1)
    BY <1>1, <2>3, <2>4, <2>5, ConversionKeeps
  <2>7. instructions' \in Seq(Instruction) /\ Len(instructions') = Len(new)
    BY <1>1, <2>3, <2>4, <2>5, ConvertedOne
  <2>8. ConvertedBefore(instructions, at)'
    BY <1>1, <2>1, <2>4, <2>6, <2>7 DEF ConvertedBefore
  <2>10. Second.op = "ARRAY_INDEX" => Second.result \in Names
    <3>1. instructions[at] \in Instruction
      BY <1>1, <2>1
    <3> QED BY <1>1, <3>1, Shapes DEF Second
  <2>9. isArray' \subseteq Names
    BY <1>1, <1>2, <2>1, <2>10 DEF Rewrite, Arrays, Second
  <2>11. at' \in 2 .. Len(instructions') + 1
    BY <2>4, <2>5, <2>7
  <2>12. TypeOK'
    BY <1>1, <2>4, <2>7, <2>9, <2>11 DEF TypeOK
  <2> QED BY <2>1, <2>4, <2>6, <2>8, <2>12 DEF IInv
<1>3. CASE Advance
  <2>1. /\ phase = "preprocessing" /\ at \in 2 .. Len(instructions)
    BY <1>1, <1>3 DEF Advance, InWindow, IInv, TypeOK
  <2>2. instructions' = Converted(instructions, at) /\ at' = at + 1 /\ phase' = phase
    BY <1>3 DEF Advance
  <2>3. at \in 2 .. Len(instructions) + 1
    BY <1>1, <2>1
  <2>4. /\ JumpsFollow(instructions') /\ FlagsAreTested(instructions')
        /\ ConvertedBefore(instructions', at')
    BY <1>1, <2>2, <2>3, ConversionKeeps
  <2>5. instructions' \in Seq(Instruction) /\ Len(instructions') = Len(instructions)
    BY <1>1, <2>2, <2>3, ConvertedOne
  <2>10. Second.op = "ARRAY_INDEX" => Second.result \in Names
    <3>1. instructions[at] \in Instruction
      BY <1>1, <2>1
    <3> QED BY <1>1, <3>1, Shapes DEF Second
  <2>6. isArray' \subseteq Names
    BY <1>1, <1>3, <2>1, <2>10 DEF Advance, Arrays, Second
  <2>7. at' \in 2 .. Len(instructions') + 1
    BY <1>1, <2>1, <2>2, <2>5
  <2>8. TypeOK'
    BY <1>1, <2>2, <2>5, <2>6, <2>7 DEF TypeOK
  <2> QED BY <2>1, <2>2, <2>4, <2>8 DEF IInv
<1>4. CASE Finish
  <2>1. /\ phase = "preprocessing" /\ at > Len(instructions) /\ phase' = "blocking"
        /\ UNCHANGED <<instructions, at, isArray>>
    BY <1>4 DEF Finish
  <2>2. TypeOK' /\ (phase # "preprocessing" => at > Len(instructions))'
    BY <1>1, <2>1 DEF TypeOK
  <2>3. (JumpsFollow(instructions) /\ FlagsAreTested(instructions) /\ ConvertedBefore(instructions, at))'
    BY <1>1, <2>1 DEF JumpsFollow, FlagsAreTested, ConvertedBefore
  <2> QED BY <2>2, <2>3 DEF IInv
<1>5. CASE UNCHANGED vars
  BY <1>5 DEF vars, IInv, TypeOK, JumpsFollow, FlagsAreTested, ConvertedBefore
<1> QED BY <1>2, <1>3, <1>4, <1>5 DEF Next

(* The code stays code, and the window stays in it or just past its end. *)
THEOREM TypeCorrect == Spec => []TypeOK
<1>1. IInv => TypeOK
  BY DEF IInv
<1> QED BY <1>1, InitInv, NextInv, PTL DEF Spec

(* A jump that tests flags finds those of its comparison, in all code past.cpp makes. *)
THEOREM ConversionIsLocal == Spec => []JumpsTestTheirComparison
<1>1. IInv => JumpsTestTheirComparison
  <2> SUFFICES ASSUME IInv, phase # "preprocessing", NEW k \in 1 .. Len(instructions)
               PROVE  /\ instructions[k].op \in ConditionalJumps \ {"JMP_ZERO"} =>
                           k > 1 /\ IsComparison(instructions[k - 1]) /\ ~HasResult(instructions[k - 1])
                      /\ instructions[k].op = "JMP_ZERO" => k = 1 \/ ~IsComparison(instructions[k - 1])
                      /\ IsComparison(instructions[k]) /\ ~HasResult(instructions[k]) =>
                           k < Len(instructions) /\ instructions[k + 1].op \in ConditionalJumps
    BY DEF JumpsTestTheirComparison
  <2>1. /\ JumpsFollow(instructions) /\ FlagsAreTested(instructions)
        /\ ConvertedBefore(instructions, at) /\ at > Len(instructions)
    BY DEF IInv
  <2>2. at \in Int /\ Len(instructions) \in Nat
    BY DEF IInv, TypeOK
  <2>3. k < at
    BY <2>1, <2>2
  <2>4. instructions[k].op = "JMP_ZERO" => k = 1 \/ ~IsComparison(instructions[k - 1])
    BY <2>1, <2>3 DEF ConvertedBefore
  <2> QED BY <2>1, <2>4 DEF JumpsFollow, FlagsAreTested
<1> QED BY <1>1, InitInv, NextInv, PTL DEF Spec
=============================================================================
