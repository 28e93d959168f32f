--------------------------- MODULE Blocker_proofs ---------------------------
(***************************************************************************)
(* For all code the blocker is given: the blocks are the code, control     *)
(* enters a block at its first instruction and leaves it at its last, and  *)
(* the edges are where control goes.                                       *)
(***************************************************************************)
EXTENDS Blocker, FiniteSetTheorems, Induction, TLAPS

Instructions == Shape(STRING, STRING, STRING, STRING)
Parts == Seq(Seq(Instructions) \ {<<>>})

-----------------------------------------------------------------------------
(* Where the blocks start. *)
IsStarts(f, parts) ==
  /\ f \in [1 .. Len(parts) -> Nat]
  /\ Len(parts) > 0 => f[1] = 0
  /\ \A b \in 2 .. Len(parts) : f[b] = f[b - 1] + Len(parts[b - 1])

LEMMA PartsType ==
  ASSUME NEW parts \in Parts
  PROVE  /\ Len(parts) \in Nat
         /\ \A b \in 1 .. Len(parts) : 
              parts[b] \in Seq(Instructions) /\ parts[b] # <<>> /\ Len(parts[b]) \in Nat \ {0}
BY DEF Parts

LEMMA StartsAre ==
  ASSUME NEW parts \in Parts
  PROVE  IsStarts(Starts(parts), parts)
<1> DEFINE Size(b) == IF b \in 1 .. Len(parts) THEN Len(parts[b]) ELSE 0
           G == [p \in Nat \X Nat |-> p[2] + Size(p[1])]
           D(f) == [b \in 1 .. Len(parts) |-> IF b = 1 THEN 0 ELSE f[b - 1] + Len(parts[b - 1])]
           starts == CHOOSE f : f = D(f)
<1>1. Len(parts) \in Nat /\ \A b \in Nat : Size(b) \in Nat
  BY PartsType
<1>2. \E h : Iterates(h, Nat, 0, G)
  <2>1. G \in [Nat \X Nat -> Nat]
    <3> HIDE DEF Size
    <3>1. ASSUME NEW p \in Nat \X Nat PROVE p[2] + Size(p[1]) \in Nat
      <4>1. p[1] \in Nat /\ p[2] \in Nat
        OBVIOUS
      <4>2. Size(p[1]) \in Nat
        BY <1>1, <4>1
      <4> QED BY <4>1, <4>2
    <3> QED BY <3>1
  <2>2. 0 \in Nat
    OBVIOUS
  <2> HIDE DEF G
  <2> QED BY <2>1, <2>2, Recursion
<1>3. PICK h : Iterates(h, Nat, 0, G)
  BY <1>2
<1>4. h \in [Nat -> Nat] /\ h[0] = 0 /\ \A n \in Nat \ {0} : h[n] = h[n - 1] + Size(n)
  <2>1. h \in [Nat -> Nat] /\ h[0] = 0 /\ \A n \in Nat \ {0} : h[n] = G[<<n, h[n - 1]>>]
    <3> HIDE DEF G
    <3> QED BY <1>3 DEF Iterates
  <2>2. ASSUME NEW n \in Nat \ {0} PROVE h[n] = h[n - 1] + Size(n)
    <3>1. n - 1 \in Nat
      OBVIOUS
    <3>2. h[n - 1] \in Nat
      BY <2>1, <3>1
    <3>3. <<n, h[n - 1]>> \in Nat \X Nat
      BY <3>2
    <3> HIDE DEF Size
    <3> QED BY <2>1, <3>3
  <2> QED BY <2>1, <2>2
<1> DEFINE r == [b \in 1 .. Len(parts) |-> h[b - 1]]
<1>5. r = D(r)
  <2>1. ASSUME NEW b \in 1 .. Len(parts) PROVE h[b - 1] = IF b = 1 THEN 0 ELSE r[b - 1] + Len(parts[b - 1])
    <3>1. CASE b = 1
      BY <1>4, <3>1
    <3>2. CASE b # 1
      <4>1. b - 1 \in 1 .. Len(parts) /\ b - 1 \in Nat \ {0}
        BY <1>1, <3>2
      <4>2. h[b - 1] = h[(b - 1) - 1] + Size(b - 1) /\ r[b - 1] = h[(b - 1) - 1]
        <5> HIDE DEF Size
        <5> QED BY <1>4, <4>1
      <4> QED BY <3>2, <4>1, <4>2
    <3> QED BY <3>1, <3>2
  <2> QED BY <2>1
<1>6. starts = D(starts)
  <2> HIDE DEF D, r
  <2> QED BY <1>5
<1>7. Starts(parts) = starts
  BY DEF Starts
<1>8. IsStarts(starts, parts)
  <2> HIDE DEF starts
  <2>1. /\ DOMAIN starts = 1 .. Len(parts)
        /\ Len(parts) > 0 => starts[1] = 0
        /\ \A b \in 2 .. Len(parts) : starts[b] = starts[b - 1] + Len(parts[b - 1])
    BY <1>1, <1>6
  <2> DEFINE T == {n \in Nat : n + 1 \in 1 .. Len(parts) => starts[n + 1] \in Nat}
  <2>2. 0 \in T
    BY <2>1
  <2>3. ASSUME NEW n \in Nat, n \in T PROVE n + 1 \in T
    <3>1. SUFFICES ASSUME n + 2 \in 1 .. Len(parts) PROVE starts[n + 2] \in Nat
      OBVIOUS
    <3>2. n + 2 \in 2 .. Len(parts) /\ n + 1 \in 1 .. Len(parts) /\ (n + 2) - 1 = n + 1
      BY <1>1, <3>1
    <3>3. Len(parts[n + 1]) \in Nat /\ starts[n + 1] \in Nat
      BY <2>3, <3>2, PartsType
    <3> QED BY <2>1, <3>2, <3>3
  <2>4. \A n \in Nat : n \in T
    <3> HIDE DEF T
    <3> QED BY <2>2, <2>3, Induct
  <2>5. ASSUME NEW b \in 1 .. Len(parts) PROVE starts[b] \in Nat
    <3>1. b - 1 \in Nat /\ (b - 1) + 1 = b
      BY <1>1
    <3> QED BY <2>4, <3>1
  <2>6. starts \in [1 .. Len(parts) -> Nat]
    BY <1>6, <2>5
  <2> QED BY <2>1, <2>6 DEF IsStarts
<1> QED BY <1>7, <1>8

(* Blocks that begin alike start at the same places. *)
LEMMA SameStarts ==
  ASSUME NEW p \in Parts, NEW q \in Parts, Len(p) <= Len(q),
         \A b \in 1 .. Len(p) - 1 : Len(q[b]) = Len(p[b])
  PROVE  \A b \in 1 .. Len(p) : Starts(q)[b] = Starts(p)[b]
<1>1. IsStarts(Starts(p), p) /\ IsStarts(Starts(q), q) /\ Len(p) \in Nat /\ Len(q) \in Nat
  BY StartsAre, PartsType
<1> DEFINE T == {n \in Nat : n + 1 \in 1 .. Len(p) => Starts(q)[n + 1] = Starts(p)[n + 1]}
<1>2. 0 \in T
  BY <1>1 DEF IsStarts
<1>3. ASSUME NEW n \in Nat, n \in T PROVE n + 1 \in T
  <2>1. SUFFICES ASSUME n + 2 \in 1 .. Len(p) PROVE Starts(q)[n + 2] = Starts(p)[n + 2]
    OBVIOUS
  <2>2. /\ n + 2 \in 2 .. Len(p) /\ n + 2 \in 2 .. Len(q) /\ n + 1 \in 1 .. Len(p) - 1
        /\ n + 1 \in 1 .. Len(p) /\ (n + 2) - 1 = n + 1
    BY <1>1, <2>1
  <2>3. Starts(q)[n + 1] = Starts(p)[n + 1] /\ Len(q[n + 1]) = Len(p[n + 1])
    BY <1>3, <2>2
  <2> QED BY <1>1, <2>2, <2>3 DEF IsStarts
<1>4. \A n \in Nat : n \in T
  <2> HIDE DEF T
  <2> QED BY <1>2, <1>3, Induct
<1>5. ASSUME NEW b \in 1 .. Len(p) PROVE Starts(q)[b] = Starts(p)[b]
  <2>1. b - 1 \in Nat /\ (b - 1) + 1 = b
    BY <1>1
  <2> QED BY <1>4, <2>1
<1> QED BY <1>5

-----------------------------------------------------------------------------
(* The jumps of a basic block: one at its end, or none. *)
LEMMA TargetsOfBasic ==
  ASSUME NEW block \in Seq(Instructions), block # <<>>, NEW location,
         \A i \in 1 .. Len(block) : TransfersControl(block[i]) => i = Len(block)
  PROVE  Targets(block, location) =
           IF TransfersControl(block[Len(block)]) THEN <<location[block[Len(block)].arg1]>> ELSE <<>>
<1> DEFINE last == block[Len(block)]
           IsJump(n) == n \in 1 .. Len(block) /\ TransfersControl(block[n])
           V == {location[block[n].arg1] : n \in 1 .. Len(block)}
           G == [p \in Nat \X Seq(V) |-> IF IsJump(p[1]) THEN Append(p[2], location[block[p[1]].arg1]) ELSE p[2]]
           D(f) == [n \in 0 .. Len(block) |->
                      IF n = 0 THEN <<>>
                      ELSE IF TransfersControl(block[n]) THEN Append(f[n - 1], location[block[n].arg1]) ELSE f[n - 1]]
           upto == CHOOSE f : f = D(f)
<1>1. Len(block) \in Nat \ {0} /\ <<>> \in Seq(V)
  OBVIOUS
<1>2. \E h : Iterates(h, Seq(V), <<>>, G)
  <2>1. G \in [Nat \X Seq(V) -> Seq(V)]
    <3>1. ASSUME NEW p \in Nat \X Seq(V)
          PROVE  (IF IsJump(p[1]) THEN Append(p[2], location[block[p[1]].arg1]) ELSE p[2]) \in Seq(V)
      <4>1. p[2] \in Seq(V)
        OBVIOUS
      <4>2. IsJump(p[1]) => location[block[p[1]].arg1] \in V
        OBVIOUS
      <4> HIDE DEF IsJump, V
      <4> QED BY <4>1, <4>2
    <3> HIDE DEF IsJump, V
    <3> QED BY <3>1
  <2> HIDE DEF G, V
  <2> QED BY <1>1, <2>1, Recursion
<1>3. PICK h : Iterates(h, Seq(V), <<>>, G)
  BY <1>2
<1>4. /\ h[0] = <<>>
      /\ \A n \in Nat \ {0} : h[n] = IF IsJump(n) THEN Append(h[n - 1], location[block[n].arg1]) ELSE h[n - 1]
  <2>1. h \in [Nat -> Seq(V)] /\ h[0] = <<>> /\ \A n \in Nat \ {0} : h[n] = G[<<n, h[n - 1]>>]
    <3> HIDE DEF G, V
    <3> QED BY <1>3 DEF Iterates
  <2>2. ASSUME NEW n \in Nat \ {0}
        PROVE  h[n] = IF IsJump(n) THEN Append(h[n - 1], location[block[n].arg1]) ELSE h[n - 1]
    <3> HIDE DEF V, IsJump
    <3>1. n - 1 \in Nat
      OBVIOUS
    <3>2. h[n - 1] \in Seq(V)
      BY <2>1, <3>1
    <3>3. <<n, h[n - 1]>> \in Nat \X Seq(V)
      BY <3>2
    <3> QED BY <2>1, <3>3
  <2> QED BY <2>1, <2>2
<1> DEFINE r == [n \in 0 .. Len(block) |-> h[n]]
<1>5. r = D(r)
  <2>1. ASSUME NEW n \in 0 .. Len(block)
        PROVE  h[n] = IF n = 0 THEN <<>>
                      ELSE IF TransfersControl(block[n]) THEN Append(r[n - 1], location[block[n].arg1]) ELSE r[n - 1]
    <3>1. CASE n = 0
      BY <1>4, <3>1
    <3>2. CASE n # 0
      <4>1. n \in Nat \ {0} /\ n \in 1 .. Len(block) /\ n - 1 \in 0 .. Len(block)
        BY <1>1, <3>2
      <4>2. r[n - 1] = h[n - 1]
        BY <4>1
      <4>3. IsJump(n) <=> TransfersControl(block[n])
        BY <4>1
      <4> HIDE DEF IsJump, r
      <4> QED BY <1>4, <3>2, <4>1, <4>2, <4>3
    <3> QED BY <3>1, <3>2
  <2> QED BY <2>1
<1>6. upto = D(upto)
  <2> HIDE DEF D, r
  <2> QED BY <1>5
<1>7. Targets(block, location) = upto[Len(block)]
  BY DEF Targets
<1> HIDE DEF upto
<1>8. /\ upto[0] = <<>>
      /\ \A n \in 1 .. Len(block) :
           upto[n] = IF TransfersControl(block[n]) THEN Append(upto[n - 1], location[block[n].arg1]) ELSE upto[n - 1]
  BY <1>1, <1>6
<1>9. \A n \in Nat : n < Len(block) => upto[n] = <<>>
  <2> DEFINE T == {n \in Nat : n < Len(block) => upto[n] = <<>>}
  <2>1. 0 \in T
    BY <1>8
  <2>2. ASSUME NEW n \in Nat, n \in T PROVE n + 1 \in T
    <3>1. SUFFICES ASSUME n + 1 < Len(block) PROVE upto[n + 1] = <<>>
      OBVIOUS
    <3>2. n + 1 \in 1 .. Len(block) /\ (n + 1) - 1 = n /\ n < Len(block) /\ n + 1 # Len(block)
      BY <1>1, <3>1
    <3>3. ~TransfersControl(block[n + 1]) /\ upto[n] = <<>>
      BY <2>2, <3>2
    <3> QED BY <1>8, <3>2, <3>3
  <2>3. \A n \in Nat : n \in T
    <3> HIDE DEF T
    <3> QED BY <2>1, <2>2, Induct
  <2> QED BY <2>3
<1>10. Len(block) - 1 \in Nat /\ Len(block) - 1 < Len(block) /\ Len(block) \in 1 .. Len(block)
  BY <1>1
<1>11. upto[Len(block) - 1] = <<>>
  BY <1>9, <1>10
<1>12. upto[Len(block)] = IF TransfersControl(last) THEN Append(<<>>, location[last.arg1]) ELSE <<>>
  BY <1>8, <1>10, <1>11
<1>13. Append(<<>>, location[last.arg1]) = <<location[last.arg1]>>
  OBVIOUS
<1> QED BY <1>7, <1>12, <1>13

-----------------------------------------------------------------------------
(* Counting and collecting what is in a sequence. *)
LEMMA TimesInAppend ==
  ASSUME NEW S, NEW s \in Seq(S), NEW x \in S, NEW y
  PROVE  Times(s, y) \in Nat /\ Times(Append(s, x), y) = Times(s, y) + (IF x = y THEN 1 ELSE 0)
<1> DEFINE At(q) == {k \in 1 .. Len(q) : q[k] = y}
           t == Append(s, x)
<1>1. IsFiniteSet(At(s)) /\ Cardinality(At(s)) \in Nat
  <2>1. IsFiniteSet(1 .. Len(s)) /\ At(s) \in SUBSET (1 .. Len(s))
    BY FS_Interval
  <2>2. IsFiniteSet(At(s))
    BY <2>1, FS_Subset
  <2> HIDE DEF At
  <2> QED BY <2>2, FS_CardinalityType
<1>2. /\ Len(s) \in Nat /\ Len(t) = Len(s) + 1 /\ t[Len(s) + 1] = x
      /\ \A k \in 1 .. Len(s) : t[k] = s[k]
  OBVIOUS
<1>3. At(t) = At(s) \union (IF x = y THEN {Len(s) + 1} ELSE {}) /\ Len(s) + 1 \notin At(s)
  <2> HIDE DEF t
  <2>1. ASSUME NEW k PROVE k \in 1 .. Len(t) <=> k \in 1 .. Len(s) \/ k = Len(s) + 1
    BY <1>2
  <2> QED BY <1>2, <2>1
<1>4. Cardinality(At(t)) = Cardinality(At(s)) + (IF x = y THEN 1 ELSE 0)
  <2> HIDE DEF At, t
  <2>1. CASE x = y
    BY <1>1, <1>3, <2>1, FS_AddElement
  <2>2. CASE x # y
    BY <1>1, <1>3, <2>2
  <2> QED BY <2>1, <2>2
<1> QED BY <1>1, <1>4 DEF Times

LEMMA TimesInEmpty == \A x : Times(<<>>, x) = 0
<1>1. \A x : {k \in 1 .. Len(<<>>) : <<>>[k] = x} = {}
  OBVIOUS
<1> QED BY <1>1, FS_EmptySet DEF Times

LEMMA TimesInOne == \A x, y : Times(<<x>>, y) = IF x = y THEN 1 ELSE 0
<1>1. ASSUME NEW x, NEW y PROVE Times(<<x>>, y) = IF x = y THEN 1 ELSE 0
  <2>1. {k \in 1 .. Len(<<x>>) : <<x>>[k] = y} = IF x = y THEN {1} ELSE {}
    OBVIOUS
  <2>2. Cardinality({1}) = 1 /\ Cardinality({}) = 0
    BY FS_Singleton, FS_EmptySet
  <2> QED BY <2>1, <2>2 DEF Times
<1> QED BY <1>1

Values(s) == {s[k] : k \in 1 .. Len(s)}

LEMMA ValuesOfAppend ==
  ASSUME NEW S, NEW s \in Seq(S), NEW x \in S
  PROVE  Values(Append(s, x)) = Values(s) \union {x}
<1> DEFINE t == Append(s, x)
<1>1. /\ Len(s) \in Nat /\ Len(t) = Len(s) + 1 /\ t[Len(s) + 1] = x
      /\ \A k \in 1 .. Len(s) : t[k] = s[k]
  OBVIOUS
<1> HIDE DEF t
<1>2. \A k : k \in 1 .. Len(t) <=> k \in 1 .. Len(s) \/ k = Len(s) + 1
  BY <1>1
<1>3. Values(t) = Values(s) \union {x}
  BY <1>1, <1>2 DEF Values
<1> QED BY <1>3 DEF t

-----------------------------------------------------------------------------
(* Cutting.  What control leaves by, and what it enters by. *)
Leaves(i) == TransfersControl(i) \/ i.op = "EXIT_PROC"
Leads(i) == i.op \in {"LABEL", "ENTER_PROC", "EXIT_PROC"}

CutTypeInv ==
  /\ instructions \in Code
  /\ phase \in {"blocking", "connecting", "analyzing"}
  /\ scanned \in 0 .. Len(instructions)
  /\ blocks \in Parts
  /\ followsJump \in BOOLEAN
  /\ scanned = 0 <=> Len(blocks) = 0
  /\ scanned = 0 => ~followsJump
  /\ phase # "blocking" => scanned = Len(instructions)
  /\ scanned > 0 => (followsJump <=> Leaves(instructions[scanned]))

(* The blocks come one after the other, and every instruction is in one. *)
Ordered ==
  \A b, c \in 1 .. Len(blocks) : b < c => Starts(blocks)[b] + Len(blocks[b]) <= Starts(blocks)[c]

Covered ==
  \A k \in 1 .. scanned :
    \E b \in 1 .. Len(blocks) : \E i \in 1 .. Len(blocks[b]) : k = Starts(blocks)[b] + i

LabelInv ==
  \A l \in DOMAIN labelBlock :
    /\ labelBlock[l] \in 1 .. Len(blocks)
    /\ blocks[labelBlock[l]][1].op = "LABEL" /\ blocks[labelBlock[l]][1].arg1 = l

CutInv == CutTypeInv /\ BlocksAreBasic /\ Ordered /\ Covered /\ LabelInv

LEMMA CodeType ==
  ASSUME CutTypeInv
  PROVE  /\ instructions \in Seq(Instructions) /\ Len(instructions) \in Nat \ {0}
         /\ \A k \in 1 .. Len(instructions) : instructions[k] \in Instructions
         /\ ~Leaves(instructions[1])
         /\ \A j, k \in 1 .. Len(instructions) :
              instructions[j].op = "LABEL" /\ instructions[k].op = "LABEL"
                /\ instructions[j].arg1 = instructions[k].arg1 => j = k
         /\ \A k \in 1 .. Len(instructions) :
              /\ instructions[k].op = "ENTER_PROC" =>
                   \E e \in k + 1 .. Len(instructions) :
                     instructions[e].op = "EXIT_PROC" /\ \A j \in k + 1 .. e - 1 : instructions[j].op \notin Marks
              /\ instructions[k].op = "EXIT_PROC" =>
                   \E e \in 1 .. k - 1 :
                     instructions[e].op = "ENTER_PROC" /\ \A j \in e + 1 .. k - 1 : instructions[j].op \notin Marks
<1>1. instructions \in Seq(Instructions) /\ instructions # <<>>
  BY CodeAssumption DEF CutTypeInv, Cuttable, Instructions
<1>2. Len(instructions) \in Nat \ {0} /\ \A k \in 1 .. Len(instructions) : instructions[k] \in Instructions
  BY <1>1
<1>3. ~Leaves(instructions[1])
  BY CodeAssumption DEF CutTypeInv, Cuttable, Leaves, TransfersControl
<1> QED BY <1>1, <1>2, <1>3, CodeAssumption DEF CutTypeInv, Cuttable

(* A block is begun. *)
LEMMA NewBlock ==
  ASSUME CutInv, scanned < Len(instructions), NEW i \in Instructions, i = instructions[scanned + 1],
         instructions' = instructions, scanned' = scanned + 1, blocks' = Append(blocks, <<i>>),
         scanned > 0 => followsJump \/ Leads(i)
  PROVE  /\ blocks' \in Parts /\ Len(blocks') = Len(blocks) + 1
         /\ \A b \in 1 .. Len(blocks) : blocks'[b] = blocks[b]
         /\ blocks'[Len(blocks')] = <<i>>
         /\ BlocksAreBasic' /\ Ordered' /\ Covered'
<1> DEFINE N == Len(blocks)
           p == Starts(blocks)
           q == Starts(blocks')
<1>1. /\ scanned \in Nat /\ scanned + 1 \in 1 .. Len(instructions) /\ blocks \in Parts /\ N \in Nat
      /\ \A b \in 1 .. N : blocks[b] # <<>> /\ Len(blocks[b]) \in Nat \ {0}
  BY CodeType, PartsType DEF CutInv, CutTypeInv
<1>2. /\ blocks' \in Parts /\ Len(blocks') = N + 1 /\ blocks'[N + 1] = <<i>>
      /\ \A b \in 1 .. N : blocks'[b] = blocks[b]
  <2>1. <<i>> \in Seq(Instructions) \ {<<>>}
    OBVIOUS
  <2> QED BY <1>1, <2>1 DEF Parts
<1>3. Len(<<i>>) = 1 /\ <<i>>[1] = i /\ \A k \in 1 .. Len(<<i>>) : k = 1
  OBVIOUS
<1>4. IsStarts(p, blocks) /\ IsStarts(q, blocks')
  BY <1>1, <1>2, StartsAre
<1>5. \A b \in 1 .. N : q[b] = p[b] /\ p[b] \in Nat
  <2>1. N <= Len(blocks') /\ \A b \in 1 .. N - 1 : b \in 1 .. N
    BY <1>1, <1>2
  <2>2. \A b \in 1 .. N : q[b] = p[b]
    BY <1>1, <1>2, <2>1, SameStarts
  <2> HIDE DEF p, q
  <2> QED BY <1>4, <2>2 DEF IsStarts
<1> HIDE DEF p, q
<1>6. q[N + 1] = scanned
  <2>1. CASE N = 0
    BY <1>1, <1>2, <1>4, <2>1 DEF IsStarts, CutInv, CutTypeInv
  <2>2. CASE N # 0
    <3>1. N + 1 \in 2 .. Len(blocks') /\ (N + 1) - 1 = N /\ N \in 1 .. N
      BY <1>1, <1>2, <2>2
    <3>2. q[N + 1] = q[N] + Len(blocks'[N])
      BY <1>4, <3>1 DEF IsStarts
    <3>3. p[N] + Len(blocks[N]) = scanned
      BY <1>1, <2>2 DEF CutInv, CutTypeInv, BlocksAreBasic, p
    <3> QED BY <1>2, <1>5, <3>1, <3>2, <3>3
  <2> QED BY <2>1, <2>2
<1>7. \A b : b \in 1 .. Len(blocks') <=> b \in 1 .. N \/ b = N + 1
  BY <1>1, <1>2
<1>8. \A b \in 1 .. N : p[b] + Len(blocks[b]) <= scanned
  <2>1. ASSUME NEW b \in 1 .. N PROVE p[b] + Len(blocks[b]) <= scanned
    <3>1. p[N] + Len(blocks[N]) = scanned /\ N \in 1 .. N
      BY <1>1 DEF CutInv, CutTypeInv, BlocksAreBasic, p
    <3>2. CASE b = N
      BY <1>1, <3>1, <3>2
    <3>3. CASE b # N
      <4>1. b < N
        BY <1>1, <3>3
      <4>2. p[b] + Len(blocks[b]) <= p[N]
        BY <3>1, <4>1 DEF CutInv, Ordered, p
      <4>3. p[N] \in Nat /\ p[b] \in Nat /\ Len(blocks[b]) \in Nat /\ Len(blocks[N]) \in Nat
        BY <1>1, <1>5, <3>1
      <4>4. p[N] <= scanned
        BY <3>1, <4>3
      <4> QED BY <1>1, <4>2, <4>3, <4>4
    <3> QED BY <3>2, <3>3
  <2> QED BY <2>1
<1>9. BlocksAreBasic'
  <2>1. q[Len(blocks')] + Len(blocks'[Len(blocks')]) = scanned'
    BY <1>1, <1>2, <1>3, <1>6
  <2>2. ASSUME NEW b \in 1 .. Len(blocks'), NEW k \in 1 .. Len(blocks'[b])
        PROVE  /\ blocks'[b][k] = instructions'[q[b] + k]
               /\ blocks'[b][k].op \in {"LABEL", "ENTER_PROC", "EXIT_PROC"} => k = 1
               /\ TransfersControl(blocks'[b][k]) \/ blocks'[b][k].op = "EXIT_PROC" => k = Len(blocks'[b])
    <3>1. CASE b \in 1 .. N
      <4>1. scanned > 0
        BY <1>1, <3>1 DEF CutInv, CutTypeInv
      <4>2. /\ blocks[b][k] = instructions[p[b] + k]
            /\ blocks[b][k].op \in {"LABEL", "ENTER_PROC", "EXIT_PROC"} => k = 1
            /\ TransfersControl(blocks[b][k]) \/ blocks[b][k].op = "EXIT_PROC" => k = Len(blocks[b])
        BY <1>2, <2>2, <3>1, <4>1 DEF CutInv, BlocksAreBasic, p
      <4> QED BY <1>2, <1>5, <3>1, <4>2
    <3>2. CASE b = N + 1
      BY <1>1, <1>2, <1>3, <1>6, <2>2, <3>2
    <3> QED BY <1>7, <3>1, <3>2
  <2> QED BY <2>1, <2>2 DEF BlocksAreBasic, q
<1>10. Ordered'
  <2>1. ASSUME NEW b \in 1 .. Len(blocks'), NEW c \in 1 .. Len(blocks'), b < c
        PROVE  q[b] + Len(blocks'[b]) <= q[c]
    <3>1. b \in 1 .. N
      BY <1>1, <1>2, <2>1
    <3>2. CASE c \in 1 .. N
      <4>1. p[b] + Len(blocks[b]) <= p[c]
        BY <2>1, <3>1, <3>2 DEF CutInv, Ordered, p
      <4> QED BY <1>2, <1>5, <3>1, <3>2, <4>1
    <3>3. CASE c = N + 1
      BY <1>2, <1>5, <1>6, <1>8, <3>1, <3>3
    <3> QED BY <1>7, <3>2, <3>3
  <2> QED BY <2>1 DEF Ordered, q
<1>11. Covered'
  <2>1. ASSUME NEW k \in 1 .. scanned'
        PROVE  \E b \in 1 .. Len(blocks') : \E j \in 1 .. Len(blocks'[b]) : k = q[b] + j
    <3>1. CASE k \in 1 .. scanned
      <4>0. PICK b \in 1 .. N : \E j \in 1 .. Len(blocks[b]) : k = p[b] + j
        BY <3>1 DEF CutInv, Covered, p
      <4>1. PICK j \in 1 .. Len(blocks[b]) : k = p[b] + j
        BY <4>0
      <4>2. b \in 1 .. Len(blocks') /\ j \in 1 .. Len(blocks'[b])
        BY <1>2, <1>7, <4>0, <4>1
      <4>3. k = q[b] + j
        BY <1>5, <4>0, <4>1
      <4> QED BY <4>2, <4>3
    <3>2. CASE k = scanned + 1
      <4>1. 1 \in 1 .. Len(blocks'[N + 1]) /\ N + 1 \in 1 .. Len(blocks') /\ k = q[N + 1] + 1
        BY <1>1, <1>2, <1>3, <1>6, <3>2
      <4> QED BY <4>1
    <3>3. k \in 1 .. scanned \/ k = scanned + 1
      BY <1>1
    <3> QED BY <3>1, <3>2, <3>3
  <2> QED BY <2>1 DEF Covered, q
<1> QED BY <1>2, <1>9, <1>10, <1>11

(* The last block goes on. *)
Lengthened(parts, i, longer) ==
  /\ longer \in Parts /\ Len(longer) = Len(parts)
  /\ longer[Len(parts)] = Append(parts[Len(parts)], i)
  /\ \A b \in 1 .. Len(parts) : b # Len(parts) => longer[b] = parts[b]

LEMMA LastLengthened ==
  ASSUME NEW parts \in Parts, Len(parts) > 0, NEW i \in Instructions
  PROVE  Lengthened(parts, i, [parts EXCEPT ![Len(parts)] = Append(@, i)])
<1> DEFINE last == parts[Len(parts)]
           longer == [parts EXCEPT ![Len(parts)] = Append(@, i)]
<1>1. Len(parts) \in Nat /\ Len(parts) \in 1 .. Len(parts) /\ last \in Seq(Instructions)
  BY PartsType
<1>2. Append(last, i) \in Seq(Instructions) \ {<<>>}
  BY <1>1
<1>3. parts \in Seq(Seq(Instructions) \ {<<>>})
  BY DEF Parts
<1>4. longer = [parts EXCEPT ![Len(parts)] = Append(last, i)]
  BY <1>1, <1>3
<1> HIDE DEF last
<1>5. longer \in Seq(Seq(Instructions) \ {<<>>}) /\ Len(longer) = Len(parts)
  BY <1>1, <1>2, <1>3, <1>4
<1>6. longer[Len(parts)] = Append(last, i) /\ \A b \in 1 .. Len(parts) : b # Len(parts) => longer[b] = parts[b]
  BY <1>1, <1>3, <1>4
<1> QED BY <1>5, <1>6 DEF Lengthened, Parts, last

LEMMA LongerBlock ==
  ASSUME CutInv, scanned < Len(instructions), scanned > 0, NEW i \in Instructions, i = instructions[scanned + 1],
         instructions' = instructions, scanned' = scanned + 1,
         Lengthened(blocks, i, blocks'), ~followsJump, ~Leads(i)
  PROVE  /\ \A b \in 1 .. Len(blocks) : blocks'[b][1] = blocks[b][1]
         /\ BlocksAreBasic' /\ Ordered' /\ Covered'
<1> DEFINE N == Len(blocks)
           p == Starts(blocks)
           q == Starts(blocks')
           last == blocks[N]
<1>1. /\ scanned \in Nat /\ scanned + 1 \in 1 .. Len(instructions) /\ blocks \in Parts /\ N \in Nat \ {0}
      /\ \A b \in 1 .. N : blocks[b] \in Seq(Instructions) /\ blocks[b] # <<>> /\ Len(blocks[b]) \in Nat \ {0}
      /\ N \in 1 .. N /\ N = Len(blocks) /\ last = blocks[N]
  BY CodeType, PartsType DEF CutInv, CutTypeInv
<1>2. /\ Append(last, i) \in Seq(Instructions) \ {<<>>} /\ Len(Append(last, i)) = Len(last) + 1
      /\ Append(last, i)[Len(last) + 1] = i
      /\ \A k \in 1 .. Len(last) : Append(last, i)[k] = last[k]
  <2>1. last \in Seq(Instructions)
    BY <1>1
  <2> HIDE DEF last
  <2>2. Append(last, i) \in Seq(Instructions) /\ Len(Append(last, i)) = Len(last) + 1 /\ Len(last) \in Nat
    BY <2>1
  <2>3. Append(last, i)[Len(last) + 1] = i /\ \A k \in 1 .. Len(last) : Append(last, i)[k] = last[k]
    BY <2>1
  <2>4. Append(last, i) # <<>>
    BY <2>2
  <2> QED BY <2>2, <2>3, <2>4
<1>3. /\ blocks' \in Parts /\ Len(blocks') = N /\ blocks'[N] = Append(last, i)
      /\ \A b \in 1 .. N : b # N => blocks'[b] = blocks[b]
  BY DEF Lengthened
<1>4. IsStarts(p, blocks) /\ IsStarts(q, blocks')
  BY <1>1, <1>3, StartsAre
<1>5. \A b \in 1 .. N : q[b] = p[b] /\ p[b] \in Nat
  <2>1. N <= Len(blocks') /\ \A b \in 1 .. N - 1 : b \in 1 .. N /\ b # N
    BY <1>1, <1>3
  <2>2. \A b \in 1 .. N : q[b] = p[b]
    BY <1>1, <1>3, <2>1, SameStarts
  <2> HIDE DEF p, q
  <2> QED BY <1>4, <2>2 DEF IsStarts
<1> HIDE DEF p, q, N, last
<1>6. p[N] + Len(last) = scanned /\ p[N] \in Nat /\ q[N] = p[N] /\ Len(last) \in Nat
  BY <1>1, <1>5 DEF CutInv, BlocksAreBasic, p
<1>7. q[N] + (Len(last) + 1) = scanned + 1
  BY <1>6
<1>8. \A b \in 1 .. N, k \in Nat :
        k \in 1 .. Len(blocks'[b]) <=> k \in 1 .. Len(blocks[b]) \/ (b = N /\ k = Len(last) + 1)
  <2>1. ASSUME NEW b \in 1 .. N, NEW k \in Nat
        PROVE  k \in 1 .. Len(blocks'[b]) <=> k \in 1 .. Len(blocks[b]) \/ (b = N /\ k = Len(last) + 1)
    <3>1. CASE b = N
      BY <1>1, <1>2, <1>3, <3>1
    <3>2. CASE b # N
      BY <1>3, <3>2
    <3> QED BY <3>1, <3>2
  <2> QED BY <2>1
<1>9. \A b \in 1 .. N : \A k \in 1 .. Len(blocks[b]) : blocks'[b][k] = blocks[b][k]
  <2>1. ASSUME NEW b \in 1 .. N, NEW k \in 1 .. Len(blocks[b]) PROVE blocks'[b][k] = blocks[b][k]
    <3>1. CASE b = N
      BY <1>1, <1>2, <1>3, <3>1
    <3>2. CASE b # N
      BY <1>3, <3>2
    <3> QED BY <3>1, <3>2
  <2> QED BY <2>1
<1>10. BlocksAreBasic'
  <2>1. q[Len(blocks')] + Len(blocks'[Len(blocks')]) = scanned'
    BY <1>1, <1>2, <1>3, <1>5, <1>6
  <2>2. ASSUME NEW b \in 1 .. Len(blocks'), NEW k \in 1 .. Len(blocks'[b])
        PROVE  /\ blocks'[b][k] = instructions'[q[b] + k]
               /\ blocks'[b][k].op \in {"LABEL", "ENTER_PROC", "EXIT_PROC"} => k = 1
               /\ TransfersControl(blocks'[b][k]) \/ blocks'[b][k].op = "EXIT_PROC" => k = Len(blocks'[b])
    <3>1. k \in Nat /\ b \in 1 .. N
      BY <1>3
    <3>2. CASE k \in 1 .. Len(blocks[b])
      <4>1. /\ blocks[b][k] = instructions[p[b] + k]
            /\ blocks[b][k].op \in {"LABEL", "ENTER_PROC", "EXIT_PROC"} => k = 1
            /\ TransfersControl(blocks[b][k]) \/ blocks[b][k].op = "EXIT_PROC" => k = Len(blocks[b])
        BY <1>1, <3>1, <3>2 DEF CutInv, BlocksAreBasic, p
      <4>2. blocks'[b][k] = blocks[b][k]
        BY <1>9, <3>1, <3>2
      <4>3. CASE b # N
        BY <1>3, <1>5, <3>1, <4>1, <4>2, <4>3
      <4>4. CASE b = N
        <5>1. ~Leaves(blocks[b][k])
          <6>1. CASE k = Len(last)
            <7>1. blocks[b][k] = instructions[scanned]
              BY <1>1, <1>6, <4>1, <4>4, <6>1
            <7> QED BY <7>1 DEF CutInv, CutTypeInv
          <6>2. CASE k # Len(last)
            BY <1>1, <4>1, <4>4, <6>2 DEF Leaves
          <6> QED BY <6>1, <6>2
        <5> QED BY <1>5, <3>1, <4>1, <4>2, <5>1 DEF Leaves
      <4> QED BY <4>3, <4>4
    <3>3. CASE b = N /\ k = Len(last) + 1
      <4>1. q[b] + k = scanned + 1
        BY <1>7, <3>3
      <4>2. blocks'[b][k] = i /\ k = Len(blocks'[b])
        BY <1>2, <1>3, <3>3
      <4> QED BY <4>1, <4>2 DEF Leads
    <3> QED BY <1>8, <3>1, <3>2, <3>3
  <2> QED BY <2>1, <2>2 DEF BlocksAreBasic, q
<1>11. Ordered'
  <2>1. ASSUME NEW b \in 1 .. Len(blocks'), NEW c \in 1 .. Len(blocks'), b < c
        PROVE  q[b] + Len(blocks'[b]) <= q[c]
    <3>1. b \in 1 .. N /\ c \in 1 .. N /\ b # N
      BY <1>1, <1>3, <2>1
    <3>2. p[b] + Len(blocks[b]) <= p[c]
      BY <1>1, <2>1, <3>1 DEF CutInv, Ordered, p
    <3> QED BY <1>3, <1>5, <3>1, <3>2
  <2> QED BY <2>1 DEF Ordered, q
<1>12. Covered'
  <2>1. ASSUME NEW k \in 1 .. scanned'
        PROVE  \E b \in 1 .. Len(blocks') : \E j \in 1 .. Len(blocks'[b]) : k = q[b] + j
    <3>1. CASE k \in 1 .. scanned
      <4>0. PICK b \in 1 .. N : \E j \in 1 .. Len(blocks[b]) : k = p[b] + j
        BY <1>1, <3>1 DEF CutInv, Covered, p
      <4>1. PICK j \in 1 .. Len(blocks[b]) : k = p[b] + j
        BY <4>0
      <4>2. j \in 1 .. Len(blocks'[b]) /\ b \in 1 .. Len(blocks')
        BY <1>1, <1>3, <1>8, <4>1
      <4> QED BY <1>5, <4>1, <4>2
    <3>2. CASE k = scanned + 1
      <4>1. Len(last) + 1 \in 1 .. Len(blocks'[N]) /\ N \in 1 .. Len(blocks')
        BY <1>1, <1>3, <1>6, <1>8
      <4> QED BY <1>7, <3>2, <4>1
    <3>3. k \in 1 .. scanned \/ k = scanned + 1
      BY <1>1
    <3> QED BY <3>1, <3>2, <3>3
  <2> QED BY <2>1 DEF Covered, q
<1>13. \A b \in 1 .. N : blocks'[b][1] = blocks[b][1]
  <2>1. \A b \in 1 .. N : 1 \in 1 .. Len(blocks[b])
    BY <1>1
  <2> QED BY <1>9, <2>1
<1> QED BY <1>10, <1>11, <1>12, <1>13 DEF N

LEMMA CutInit == Init => CutInv
<1> SUFFICES ASSUME Init PROVE CutInv
  OBVIOUS
<1>1. instructions \in Seq(Instructions) /\ phase = "blocking" /\ scanned = 0 /\ blocks = <<>> /\ followsJump = FALSE
  BY CodeAssumption DEF Init, Idle, Cuttable, Instructions
<1>2. blocks \in Parts /\ Len(blocks) = 0
  BY <1>1 DEF Parts
<1>3. CutTypeInv
  <2>1. Len(instructions) \in Nat
    BY <1>1
  <2>2. instructions \in Code /\ scanned \in 0 .. Len(instructions) /\ followsJump \in BOOLEAN /\ ~(scanned > 0)
    <3>1. instructions \in Code
      BY DEF Init
    <3>2. 0 \in 0 .. Len(instructions) /\ ~(0 > 0)
      BY <2>1
    <3> QED BY <1>1, <3>1, <3>2
  <2> QED BY <1>1, <1>2, <2>2 DEF CutTypeInv
<1>4. BlocksAreBasic /\ Ordered /\ Covered /\ LabelInv
  BY <1>1, <1>2 DEF BlocksAreBasic, Ordered, Covered, LabelInv, Init, Idle
<1> QED BY <1>3, <1>4 DEF CutInv

LEMMA FirstStep ==
  ASSUME CutInv, InsertFirst
  PROVE  CutInv'
<1> DEFINE i == Instruction
<1>1. /\ phase = "blocking" /\ phase' = phase /\ scanned = 0 /\ scanned' = scanned + 1 /\ Len(blocks) = 0
      /\ instructions' = instructions /\ followsJump' = followsJump /\ labelBlock' = labelBlock
  BY DEF InsertFirst, CutInv, CutTypeInv
<1>2. i \in Instructions /\ i = instructions[scanned + 1] /\ scanned < Len(instructions) /\ ~Leaves(i)
  BY <1>1, CodeType DEF Instruction, CutInv
<1>3. blocks = <<>>
  BY <1>1, PartsType DEF CutInv, CutTypeInv, Parts
<1>4. blocks' = Append(blocks, <<i>>)
  BY <1>3 DEF InsertFirst
<1>5. /\ blocks' \in Parts /\ Len(blocks') = Len(blocks) + 1
      /\ BlocksAreBasic' /\ Ordered' /\ Covered'
  BY <1>1, <1>2, <1>4, NewBlock
<1>6. ~followsJump
  BY DEF CutInv, CutTypeInv, InsertFirst
<1>7. LabelInv'
  BY <1>1 DEF LabelInv, CutInv
<1> QED BY <1>1, <1>2, <1>5, <1>6, <1>7 DEF CutInv, CutTypeInv

LEMMA NextStep ==
  ASSUME CutInv, Insert
  PROVE  CutInv'
<1> DEFINE i == Instruction
<1>1. /\ phase = "blocking" /\ phase' = phase /\ scanned > 0 /\ scanned' = scanned + 1
      /\ instructions' = instructions /\ scanned < Len(instructions)
      /\ followsJump' = Leaves(i)
  BY DEF Insert, Leaves
<1>2. /\ i = instructions[scanned + 1] /\ scanned \in Nat /\ Len(instructions) \in Nat
      /\ i \in Instructions /\ blocks \in Parts /\ Len(blocks) \in Nat \ {0}
  BY <1>1, CodeType, PartsType DEF Instruction, CutInv, CutTypeInv
<1> HIDE DEF i
<1>3. /\ blocks' \in Parts /\ Len(blocks') \in Nat \ {0} /\ Len(blocks) <= Len(blocks')
      /\ BlocksAreBasic' /\ Ordered' /\ Covered'
      /\ \A b \in 1 .. Len(blocks) : blocks'[b][1] = blocks[b][1]
      /\ i.op = "LABEL" => blocks'[Len(blocks')][1] = i
  <2>1. CASE IsLeader(i)
    <3>1. blocks' = Append(blocks, <<i>>)
      BY <2>1 DEF Insert, i
    <3>2. followsJump \/ Leads(i)
      BY <2>1 DEF IsLeader, Leads
    <3>3. /\ blocks' \in Parts /\ Len(blocks') = Len(blocks) + 1
          /\ \A b \in 1 .. Len(blocks) : blocks'[b] = blocks[b]
          /\ blocks'[Len(blocks')] = <<i>>
          /\ BlocksAreBasic' /\ Ordered' /\ Covered'
      BY <1>1, <1>2, <3>1, <3>2, NewBlock
    <3> QED BY <1>2, <3>3
  <2>2. CASE ~IsLeader(i)
    <3>1. blocks' = [blocks EXCEPT ![Len(blocks)] = Append(@, i)]
      BY <2>2 DEF Insert, i
    <3>2. ~followsJump /\ ~Leads(i)
      BY <2>2 DEF IsLeader, Leads
    <3>3. Lengthened(blocks, i, blocks')
      <4>1. Lengthened(blocks, i, [blocks EXCEPT ![Len(blocks)] = Append(@, i)])
        BY <1>2, LastLengthened
      <4> QED BY <3>1, <4>1
    <3>4. BlocksAreBasic' /\ Ordered' /\ Covered' /\ \A b \in 1 .. Len(blocks) : blocks'[b][1] = blocks[b][1]
      BY <1>1, <1>2, <3>2, <3>3, LongerBlock
    <3>5. blocks' \in Parts /\ Len(blocks') = Len(blocks)
      BY <3>3 DEF Lengthened
    <3> QED BY <1>2, <3>2, <3>4, <3>5 DEF Leads
  <2> QED BY <2>1, <2>2
<1>4. LabelInv'
  <2>1. ASSUME NEW l \in DOMAIN labelBlock'
        PROVE  /\ labelBlock'[l] \in 1 .. Len(blocks')
               /\ blocks'[labelBlock'[l]][1].op = "LABEL" /\ blocks'[labelBlock'[l]][1].arg1 = l
    <3> DEFINE new == i.op = "LABEL" /\ i.arg1 \notin DOMAIN labelBlock
    <3>1. labelBlock' = IF new
                        THEN [m \in DOMAIN labelBlock \union {i.arg1} |->
                                IF m = i.arg1 THEN Len(blocks') ELSE labelBlock[m]]
                        ELSE labelBlock
      BY DEF Insert, i
    <3>2. CASE new /\ l = i.arg1
      BY <1>2, <1>3, <3>1, <3>2
    <3>3. CASE ~(new /\ l = i.arg1)
      <4>1. l \in DOMAIN labelBlock /\ labelBlock'[l] = labelBlock[l]
        BY <2>1, <3>1, <3>3
      <4>2. labelBlock[l] \in 1 .. Len(blocks) /\ blocks[labelBlock[l]][1].op = "LABEL" /\ blocks[labelBlock[l]][1].arg1 = l
        BY <4>1 DEF CutInv, LabelInv
      <4> QED BY <1>2, <1>3, <4>1, <4>2
    <3> QED BY <3>2, <3>3
  <2> QED BY <2>1 DEF LabelInv
<1>5. CutTypeInv'
  <2>1. /\ scanned' \in 0 .. Len(instructions') /\ scanned' # 0 /\ Len(blocks') # 0
        /\ instructions'[scanned'] = i
    BY <1>1, <1>2, <1>3
  <2>2. followsJump' \in BOOLEAN
    BY <1>1 DEF Leaves, TransfersControl
  <2>3. instructions' \in Code /\ phase' = "blocking"
    BY <1>1 DEF CutInv, CutTypeInv
  <2> QED BY <1>1, <1>3, <2>1, <2>2, <2>3 DEF CutTypeInv
<1> QED BY <1>3, <1>4, <1>5 DEF CutInv

(* What is cut stays cut. *)
LEMMA CutKept ==
  ASSUME CutInv, UNCHANGED <<instructions, blocking>>,
         phase' \in {"blocking", "connecting", "analyzing"},
         phase' # "blocking" => scanned = Len(instructions)
  PROVE  CutInv'
BY DEF CutInv, CutTypeInv, BlocksAreBasic, Ordered, Covered, LabelInv, blocking

LEMMA CutStep ==
  ASSUME CutInv, [Next]_vars
  PROVE  CutInv'
<1>1. CASE InsertFirst
  BY <1>1, FirstStep
<1>2. CASE Insert
  BY <1>2, NextStep
<1>3. CASE ~InsertFirst /\ ~Insert
  <2>1. UNCHANGED <<instructions, blocking>>
    BY <1>3 DEF Next, Connect, EnterProcedure, ExitProcedure, Neighbor, UnknownLabel, NullPrevious, Finish, vars
  <2>2. phase' = phase \/ Connect \/ Finish
    BY <1>3 DEF Next, EnterProcedure, ExitProcedure, Neighbor, UnknownLabel, NullPrevious, vars
  <2>3. /\ phase' \in {"blocking", "connecting", "analyzing"}
        /\ phase' # "blocking" => scanned = Len(instructions)
    BY <2>2 DEF Connect, Finish, CutInv, CutTypeInv
  <2> QED BY <2>1, <2>3, CutKept
<1> QED BY <1>1, <1>2, <1>3

LEMMA Cut == Spec => []CutInv
<1>1. CutInv /\ [Next]_vars => CutInv'
  BY CutStep
<1> QED BY CutInit, <1>1, PTL DEF Spec

(* The blocks are the code, entered at the first and left at the last instruction. *)
THEOREM BasicBlocks == Spec => []BlocksAreBasic
<1>1. CutInv => BlocksAreBasic
  BY DEF CutInv
<1> QED BY <1>1, Cut, PTL

-----------------------------------------------------------------------------
(* The blocks of all the code: what is known of instructions, of blocks. *)
Entry(b) == blocks[b][1].op = "ENTER_PROC"
Exit(b) == blocks[b][1].op = "EXIT_PROC"

AllCut == CutInv /\ scanned = Len(instructions)

LEMMA BlocksType ==
  ASSUME AllCut
  PROVE  /\ blocks \in Parts /\ Len(blocks) \in Nat \ {0}
         /\ \A b \in 1 .. Len(blocks) :
              /\ blocks[b] \in Seq(Instructions) /\ blocks[b] # <<>> /\ Len(blocks[b]) \in Nat \ {0}
              /\ \A i \in 1 .. Len(blocks[b]) : TransfersControl(blocks[b][i]) => i = Len(blocks[b])
<1>1. scanned > 0 /\ Len(blocks) # 0 /\ blocks \in Parts
  BY CodeType DEF AllCut, CutInv, CutTypeInv
<1> QED BY <1>1, PartsType DEF AllCut, CutInv, BlocksAreBasic

LEMMA Heads ==
  ASSUME AllCut, NEW b \in 1 .. Len(blocks)
  PROVE  /\ Has(b, "ENTER_PROC") <=> Entry(b)
         /\ Has(b, "EXIT_PROC") <=> Exit(b)
         /\ Ends(b).op = "EXIT_PROC" <=> Exit(b)
         /\ b = 1 => ~Exit(b)
<1>1. /\ Len(blocks[b]) \in Nat \ {0} /\ 1 \in 1 .. Len(blocks[b]) /\ Len(blocks[b]) \in 1 .. Len(blocks[b])
      /\ scanned > 0
  BY BlocksType, CodeType DEF AllCut, CutInv, CutTypeInv
<1>2. \A i \in 1 .. Len(blocks[b]) :
        /\ blocks[b][i] = instructions[Starts(blocks)[b] + i]
        /\ blocks[b][i].op \in {"LABEL", "ENTER_PROC", "EXIT_PROC"} => i = 1
        /\ blocks[b][i].op = "EXIT_PROC" => i = Len(blocks[b])
  BY <1>1 DEF AllCut, CutInv, BlocksAreBasic
<1>3. Has(b, "ENTER_PROC") <=> Entry(b)
  BY <1>1, <1>2 DEF Has, Entry
<1>4. Has(b, "EXIT_PROC") <=> Exit(b)
  BY <1>1, <1>2 DEF Has, Exit
<1>5. Ends(b).op = "EXIT_PROC" <=> Exit(b)
  BY <1>1, <1>2 DEF Ends, Exit
<1>6. b = 1 => ~Exit(b)
  <2>1. SUFFICES ASSUME b = 1 PROVE ~Exit(b)
    OBVIOUS
  <2>2. IsStarts(Starts(blocks), blocks)
    BY StartsAre, BlocksType
  <2>3. Starts(blocks)[b] + 1 = 1
    BY <2>1, <2>2 DEF IsStarts
  <2>4. blocks[b][1] = instructions[1]
    BY <1>1, <1>2, <2>3
  <2> QED BY <2>4, CodeType DEF AllCut, CutInv, Exit, Leaves
<1> QED BY <1>3, <1>4, <1>5, <1>6

(* Where the marks of the code are. *)
At(b) == Starts(blocks)[b] + 1

LEMMA Marked ==
  ASSUME AllCut
  PROVE  /\ \A b \in 1 .. Len(blocks) : At(b) \in 1 .. Len(instructions) /\ instructions[At(b)] = blocks[b][1]
         /\ \A b, c \in 1 .. Len(blocks) : b < c <=> At(b) < At(c)
         /\ \A k \in 1 .. Len(instructions) : Leads(instructions[k]) => \E b \in 1 .. Len(blocks) : k = At(b)
<1> DEFINE p == Starts(blocks)
<1>1. /\ Len(blocks) \in Nat \ {0} /\ Len(instructions) \in Nat \ {0} /\ scanned > 0 /\ scanned = Len(instructions)
      /\ \A b \in 1 .. Len(blocks) : Len(blocks[b]) \in Nat \ {0}
  BY BlocksType, CodeType DEF AllCut, CutInv, CutTypeInv
<1>2. \A b \in 1 .. Len(blocks) : p[b] \in Nat
  BY StartsAre, BlocksType DEF IsStarts
<1>3. /\ p[Len(blocks)] + Len(blocks[Len(blocks)]) = scanned
      /\ \A b \in 1 .. Len(blocks) : \A i \in 1 .. Len(blocks[b]) :
           blocks[b][i] = instructions[p[b] + i] /\ (Leads(blocks[b][i]) => i = 1)
  BY <1>1 DEF AllCut, CutInv, BlocksAreBasic, Leads
<1>4. \A b, c \in 1 .. Len(blocks) : b < c => p[b] + Len(blocks[b]) <= p[c]
  BY DEF AllCut, CutInv, Ordered
<1>5. \A k \in 1 .. scanned : \E b \in 1 .. Len(blocks) : \E i \in 1 .. Len(blocks[b]) : k = p[b] + i
  BY DEF AllCut, CutInv, Covered
<1> HIDE DEF p
<1>6. \A b \in 1 .. Len(blocks) : At(b) = p[b] + 1
  BY DEF At, p
<1>7. \A b, c \in 1 .. Len(blocks) : b < c => p[b] < p[c]
  BY <1>1, <1>2, <1>4
<1>8. ASSUME NEW b \in 1 .. Len(blocks), NEW c \in 1 .. Len(blocks) PROVE b < c <=> At(b) < At(c)
  <2>1. b < c => At(b) < At(c)
    BY <1>2, <1>6, <1>7
  <2>2. c < b => At(c) < At(b)
    BY <1>2, <1>6, <1>7
  <2>3. b = c \/ b < c \/ c < b
    BY <1>1
  <2> QED BY <1>2, <1>6, <2>1, <2>2, <2>3
<1>9. ASSUME NEW b \in 1 .. Len(blocks) PROVE At(b) \in 1 .. Len(instructions) /\ instructions[At(b)] = blocks[b][1]
  <2>1. 1 \in 1 .. Len(blocks[b]) /\ Len(blocks) \in 1 .. Len(blocks)
    BY <1>1
  <2>2. p[b] <= p[Len(blocks)]
    <3>1. b = Len(blocks) \/ b < Len(blocks)
      BY <1>1
    <3> QED BY <1>2, <1>7, <2>1, <3>1
  <2>3. p[b] + 1 <= scanned
    BY <1>1, <1>2, <1>3, <2>1, <2>2
  <2>4. At(b) = p[b] + 1 /\ p[b] \in Nat /\ blocks[b][1] = instructions[p[b] + 1]
    BY <1>2, <1>3, <1>6, <2>1
  <2> QED BY <1>1, <2>3, <2>4
<1>10. ASSUME NEW k \in 1 .. Len(instructions), Leads(instructions[k])
       PROVE  \E b \in 1 .. Len(blocks) : k = At(b)
  <2>0. PICK b \in 1 .. Len(blocks) : \E i \in 1 .. Len(blocks[b]) : k = p[b] + i
    BY <1>1, <1>5
  <2>1. PICK i \in 1 .. Len(blocks[b]) : k = p[b] + i
    BY <2>0
  <2>2. i = 1
    BY <1>3, <1>10, <2>1
  <2> QED BY <1>6, <2>1, <2>2
<1> QED BY <1>8, <1>9, <1>10

(* A procedure that is entered is left, one that is left was entered. *)
LEMMA Bracketed ==
  ASSUME AllCut
  PROVE  \A b \in 1 .. Len(blocks) :
           /\ Entry(b) => \E e \in b + 1 .. Len(blocks) : Exit(e) /\ \A c \in b + 1 .. e - 1 : ~Entry(c) /\ ~Exit(c)
           /\ Exit(b) => \E e \in 1 .. b - 1 : Entry(e) /\ \A c \in e + 1 .. b - 1 : ~Entry(c) /\ ~Exit(c)
<1> DEFINE N == Len(blocks)
<1>1. N \in Nat \ {0} /\ Len(instructions) \in Nat
  BY BlocksType, CodeType DEF AllCut, CutInv
<1>2. /\ \A b \in 1 .. N : At(b) \in 1 .. Len(instructions) /\ instructions[At(b)] = blocks[b][1]
      /\ \A b, c \in 1 .. N : b < c <=> At(b) < At(c)
      /\ \A k \in 1 .. Len(instructions) : Leads(instructions[k]) => \E b \in 1 .. N : k = At(b)
  BY Marked
<1>3. \A b \in 1 .. N : instructions[At(b)].op \notin Marks => ~Entry(b) /\ ~Exit(b)
  BY <1>2 DEF Entry, Exit, Marks
<1> HIDE DEF N
<1>4. ASSUME NEW b \in 1 .. N, Entry(b)
      PROVE  \E e \in b + 1 .. N : Exit(e) /\ \A c \in b + 1 .. e - 1 : ~Entry(c) /\ ~Exit(c)
  <2>1. instructions[At(b)].op = "ENTER_PROC" /\ At(b) \in 1 .. Len(instructions)
    BY <1>2, <1>4 DEF Entry
  <2>2. PICK k \in At(b) + 1 .. Len(instructions) :
          instructions[k].op = "EXIT_PROC" /\ \A j \in At(b) + 1 .. k - 1 : instructions[j].op \notin Marks
    BY <2>1, CodeType DEF AllCut, CutInv
  <2>3. k \in 1 .. Len(instructions) /\ Leads(instructions[k]) /\ At(b) < k
    BY <1>1, <2>1, <2>2 DEF Leads
  <2>4. PICK e \in 1 .. N : k = At(e)
    BY <1>2, <2>3
  <2>5. b < e /\ Exit(e) /\ e \in b + 1 .. N
    BY <1>1, <1>2, <2>2, <2>3, <2>4 DEF Exit
  <2>6. ASSUME NEW c \in b + 1 .. e - 1 PROVE ~Entry(c) /\ ~Exit(c)
    <3>1. c \in 1 .. N /\ b < c /\ c < e
      BY <1>1
    <3>2. At(b) < At(c) /\ At(c) < At(e) /\ At(c) \in 1 .. Len(instructions)
      BY <1>2, <3>1
    <3>3. At(c) \in At(b) + 1 .. k - 1
      BY <1>1, <2>1, <2>3, <2>4, <3>2
    <3> QED BY <1>3, <2>2, <3>1, <3>3
  <2> QED BY <2>5, <2>6
<1>5. ASSUME NEW b \in 1 .. N, Exit(b)
      PROVE  \E e \in 1 .. b - 1 : Entry(e) /\ \A c \in e + 1 .. b - 1 : ~Entry(c) /\ ~Exit(c)
  <2>1. instructions[At(b)].op = "EXIT_PROC" /\ At(b) \in 1 .. Len(instructions)
    BY <1>2, <1>5 DEF Exit
  <2>2. PICK k \in 1 .. At(b) - 1 :
          instructions[k].op = "ENTER_PROC" /\ \A j \in k + 1 .. At(b) - 1 : instructions[j].op \notin Marks
    BY <2>1, CodeType DEF AllCut, CutInv
  <2>3. k \in 1 .. Len(instructions) /\ Leads(instructions[k]) /\ k < At(b)
    BY <1>1, <2>1, <2>2 DEF Leads
  <2>4. PICK e \in 1 .. N : k = At(e)
    BY <1>2, <2>3
  <2>5. e < b /\ Entry(e) /\ e \in 1 .. b - 1
    BY <1>1, <1>2, <2>2, <2>3, <2>4 DEF Entry
  <2>6. ASSUME NEW c \in e + 1 .. b - 1 PROVE ~Entry(c) /\ ~Exit(c)
    <3>1. c \in 1 .. N /\ e < c /\ c < b
      BY <1>1
    <3>2. At(e) < At(c) /\ At(c) < At(b) /\ At(c) \in 1 .. Len(instructions)
      BY <1>2, <3>1
    <3>3. At(c) \in k + 1 .. At(b) - 1
      BY <1>1, <2>1, <2>3, <2>4, <3>2
    <3> QED BY <1>3, <2>2, <3>1, <3>3
  <2> QED BY <2>5, <2>6
<1> QED BY <1>4, <1>5 DEF N

(* The table of the labels names the block of a label, the only one. *)
LEMMA LabelsAre ==
  ASSUME AllCut, NEW l \in DOMAIN labelBlock
  PROVE  labelBlock[l] \in 1 .. Len(blocks) /\ LabelOf(l) = labelBlock[l]
<1> DEFINE b == labelBlock[l]
           IsOf(c) == blocks[c][1].op = "LABEL" /\ blocks[c][1].arg1 = l
<1>1. b \in 1 .. Len(blocks) /\ IsOf(b)
  BY DEF AllCut, CutInv, LabelInv
<1>2. ASSUME NEW c \in 1 .. Len(blocks), IsOf(c) PROVE c = b
  <2>1. /\ At(b) \in 1 .. Len(instructions) /\ instructions[At(b)] = blocks[b][1]
        /\ At(c) \in 1 .. Len(instructions) /\ instructions[At(c)] = blocks[c][1]
    BY <1>1, Marked
  <2>2. At(b) = At(c)
    BY <1>1, <1>2, <2>1, CodeType DEF AllCut, CutInv
  <2>3. ~(b < c) /\ ~(c < b)
    BY <1>1, <2>1, <2>2, CodeType, Marked DEF AllCut, CutInv
  <2> QED BY <1>1, <2>3, BlocksType
<1> HIDE DEF b
<1>3. LabelOf(l) = CHOOSE c \in 1 .. Len(blocks) : IsOf(c)
  BY DEF LabelOf
<1>4. (CHOOSE c \in 1 .. Len(blocks) : IsOf(c)) = b
  <2> HIDE DEF IsOf
  <2> QED BY <1>1, <1>2
<1> QED BY <1>1, <1>3, <1>4 DEF b

-----------------------------------------------------------------------------
(***************************************************************************)
(* What is outside of the procedures, from block to block.  A block is     *)
(* inside when the block before it is in a procedure and not its end.      *)
(***************************************************************************)
Inside(c) == ~Outside(c - 1) /\ ~Exit(c - 1)

LEMMA Outsides ==
  ASSUME AllCut, NEW b \in 1 .. Len(blocks)
  PROVE  Outside(b) <=> \A c \in 1 .. b : Entry(c) => \E d \in 1 .. b - 1 : Exit(d) /\ d > c
<1>1. \A c \in 1 .. b : c \in 1 .. Len(blocks)
  BY BlocksType
<1>2. \A c \in 1 .. b - 1 : c \in 1 .. Len(blocks)
  BY BlocksType
<1>3. \A c \in 1 .. Len(blocks) : (Has(c, "ENTER_PROC") <=> Entry(c)) /\ (Has(c, "EXIT_PROC") <=> Exit(c))
  BY Heads
<1> QED BY <1>1, <1>2, <1>3 DEF Outside

LEMMA NotBoth == \A b : ~(Entry(b) /\ Exit(b))
BY DEF Entry, Exit

LEMMA OutsideSteps ==
  ASSUME AllCut, NEW b \in 1 .. Len(blocks)
  PROVE  /\ Entry(b) \/ Exit(b) => ~Outside(b)
         /\ ~Outside(b) /\ ~Exit(b) => b < Len(blocks)
         /\ b = 1 /\ ~Entry(b) => Outside(b)
         /\ b > 1 => /\ Entry(b) => ~Inside(b)
                     /\ Exit(b) => Inside(b)
                     /\ ~Entry(b) /\ ~Exit(b) => (Outside(b) <=> ~Inside(b))
<1> DEFINE N == Len(blocks)
<1>1. N \in Nat \ {0} /\ N = Len(blocks) /\ b \in 1 .. N
  BY BlocksType
<1>2. /\ \A c \in 1 .. N : Entry(c) => \E e \in c + 1 .. N : Exit(e) /\ \A d \in c + 1 .. e - 1 : ~Entry(d) /\ ~Exit(d)
      /\ \A c \in 1 .. N : Exit(c) => \E e \in 1 .. c - 1 : Entry(e) /\ \A d \in e + 1 .. c - 1 : ~Entry(d) /\ ~Exit(d)
  BY Bracketed
<1>3. \A c \in 1 .. N : Outside(c) <=> \A k \in 1 .. c : Entry(k) => \E d \in 1 .. c - 1 : Exit(d) /\ d > k
  BY Outsides
<1> HIDE DEF N
<1>4. Entry(b) => ~Outside(b)
  BY <1>1, <1>3
<1>5. Exit(b) => ~Outside(b)
  <2>1. SUFFICES ASSUME Exit(b) PROVE ~Outside(b)
    OBVIOUS
  <2>2. PICK e \in 1 .. b - 1 : Entry(e) /\ \A d \in e + 1 .. b - 1 : ~Exit(d)
    BY <1>1, <1>2, <2>1
  <2>3. e \in 1 .. b /\ \A d \in 1 .. b - 1 : d > e => d \in e + 1 .. b - 1
    BY <1>1
  <2> QED BY <1>1, <1>3, <2>2, <2>3
<1>6. ASSUME ~Outside(b), ~Exit(b) PROVE b < N
  <2>1. PICK e \in 1 .. b : Entry(e) /\ \A d \in 1 .. b - 1 : Exit(d) => ~(d > e)
    BY <1>1, <1>3, <1>6
  <2>2. PICK f \in e + 1 .. N : Exit(f)
    BY <1>1, <1>2, <2>1
  <2>3. f # b /\ ~(f \in 1 .. b - 1)
    BY <1>1, <1>6, <2>1, <2>2
  <2> QED BY <1>1, <2>2, <2>3
<1>7. b = 1 /\ ~Entry(b) => Outside(b)
  BY <1>1, <1>3
<1>8. ASSUME b > 1, Entry(b) PROVE ~Inside(b)
  <2>1. SUFFICES ASSUME ~Outside(b - 1), ~Exit(b - 1) PROVE FALSE
    BY DEF Inside
  <2>2. b - 1 \in 1 .. N
    BY <1>1, <1>8
  <2>3. PICK e \in 1 .. b - 1 : Entry(e) /\ \A d \in 1 .. (b - 1) - 1 : Exit(d) => ~(d > e)
    BY <1>3, <2>1, <2>2
  <2>4. e \in 1 .. N
    BY <1>1
  <2>5. PICK f \in e + 1 .. N : Exit(f) /\ \A d \in e + 1 .. f - 1 : ~Entry(d)
    BY <1>2, <2>3, <2>4
  <2>6. f # b /\ f # b - 1 /\ ~(f \in 1 .. (b - 1) - 1)
    BY <1>1, <1>8, <2>1, <2>3, <2>5, NotBoth
  <2>7. b \in e + 1 .. f - 1
    BY <1>1, <2>2, <2>5, <2>6
  <2> QED BY <1>8, <2>5, <2>7
<1>9. ASSUME b > 1, Exit(b) PROVE Inside(b)
  <2>1. PICK e \in 1 .. b - 1 : Entry(e) /\ \A d \in e + 1 .. b - 1 : ~Entry(d) /\ ~Exit(d)
    BY <1>1, <1>2, <1>9
  <2>2. b - 1 \in 1 .. N /\ (b - 1 = e \/ b - 1 \in e + 1 .. b - 1)
    BY <1>1, <1>9
  <2>3. ~Exit(b - 1)
    BY <2>1, <2>2, NotBoth
  <2>4. \A d \in 1 .. (b - 1) - 1 : d > e => d \in e + 1 .. b - 1
    BY <1>1
  <2>5. ~Outside(b - 1)
    BY <1>1, <1>3, <2>1, <2>2, <2>4
  <2> QED BY <2>3, <2>5 DEF Inside
<1>10. ASSUME b > 1, ~Entry(b), ~Exit(b) PROVE Outside(b) <=> ~Inside(b)
  <2>1. b - 1 \in 1 .. N /\ (\A d \in 1 .. b - 1 : d = b - 1 \/ d \in 1 .. (b - 1) - 1)
    BY <1>1, <1>10
  <2>2. \A k \in 1 .. b : k = b \/ k \in 1 .. b - 1
    BY <1>1
  <2>3. Outside(b - 1) => Outside(b)
    <3>1. \A d \in 1 .. (b - 1) - 1 : d \in 1 .. b - 1
      BY <1>1
    <3> QED BY <1>1, <1>3, <1>10, <2>1, <2>2, <3>1
  <2>4. Exit(b - 1) => Outside(b)
    <3>1. \A k \in 1 .. b - 1 : Entry(k) /\ Exit(b - 1) => b - 1 > k
      BY <1>1, NotBoth
    <3>2. b - 1 \in 1 .. b - 1
      BY <2>1
    <3> QED BY <1>1, <1>3, <1>10, <2>2, <3>1, <3>2
  <2>5. Outside(b) /\ ~Exit(b - 1) => Outside(b - 1)
    <3>1. \A k \in 1 .. b - 1 : k \in 1 .. b
      BY <1>1
    <3> QED BY <1>1, <1>3, <2>1, <3>1
  <2> QED BY <2>3, <2>4, <2>5 DEF Inside
<1> QED BY <1>4, <1>5, <1>6, <1>7, <1>8, <1>9, <1>10 DEF N

-----------------------------------------------------------------------------
(***************************************************************************)
(* What the blocker remembers: inside of a procedure, the block before is  *)
(* the previous one and the last block outside is saved; outside, the last *)
(* block outside is the previous one.                                      *)
(***************************************************************************)
LastOutside(p, c) ==
  /\ p \in 0 .. c - 1
  /\ p # NoBlock => Outside(p)
  /\ \A d \in p + 1 .. c - 1 : ~Outside(d)

Remembers(c) ==
  IF Inside(c) THEN previous = c - 1 /\ LastOutside(saved, c) ELSE LastOutside(previous, c)

LEMMA RemembersFirst ==
  ASSUME AllCut, previous = 1, saved = NoBlock
  PROVE  Remembers(2)
<1>1. 1 \in 1 .. Len(blocks) /\ 2 - 1 = 1
  BY BlocksType
<1>2. ~Exit(1)
  BY <1>1, Heads
<1>3. CASE Inside(2)
  <2>1. ~Outside(1)
    BY <1>1, <1>3 DEF Inside
  <2>2. \A d \in saved + 1 .. 2 - 1 : d = 1
    BY DEF NoBlock
  <2> QED BY <1>3, <2>1, <2>2 DEF Remembers, LastOutside, NoBlock
<1>4. CASE ~Inside(2)
  <2>1. Outside(1)
    BY <1>1, <1>2, <1>4 DEF Inside
  <2>2. \A d \in previous + 1 .. 2 - 1 : FALSE
    OBVIOUS
  <2> QED BY <1>4, <2>1, <2>2 DEF Remembers, LastOutside
<1> QED BY <1>3, <1>4

(* Where control falls to a block from, of the blocks before it. *)
LEMMA FallsFrom ==
  ASSUME AllCut, NEW c \in 2 .. Len(blocks), Remembers(c), NEW b \in 1 .. c - 1
  PROVE  c \in Onwards(b) <=> ~Entry(c) /\ b = previous /\ ~EndsWithUnconditionalJump(b)
<1>1. Len(blocks) \in Nat /\ c \in 1 .. Len(blocks) /\ b \in 1 .. Len(blocks) /\ c - 1 \in 1 .. Len(blocks) /\ c > 1
  BY BlocksType
<1>2. /\ Entry(c) \/ Exit(c) => ~Outside(c)
      /\ Entry(c) => ~Inside(c)
      /\ Exit(c) => Inside(c)
      /\ ~Entry(c) /\ ~Exit(c) => (Outside(c) <=> ~Inside(c))
      /\ Exit(b) => ~Outside(b)
  BY <1>1, OutsideSteps
<1>3. c \in Onwards(b) <=> ~EndsWithUnconditionalJump(b) /\ ~Exit(b) /\ c \in FallsTo(b)
  <2>1. Ends(b).op = "EXIT_PROC" <=> Exit(b)
    BY <1>1, Heads
  <2> QED BY <2>1 DEF Onwards, EndsWithUnconditionalJump, Ends
<1>4. c \in FallsTo(b) <=> IF Outside(b) THEN Outside(c) /\ \A d \in b + 1 .. c - 1 : ~Outside(d) ELSE c = b + 1
  BY <1>1 DEF FallsTo
<1>5. c = b + 1 <=> b = c - 1
  BY <1>1
<1>6. CASE Inside(c)
  <2>1. previous = c - 1 /\ ~Outside(c - 1) /\ ~Exit(c - 1) /\ ~Outside(c) /\ ~Entry(c)
    BY <1>2, <1>6 DEF Remembers, Inside
  <2>2. CASE Outside(b)
    BY <1>3, <1>4, <2>1, <2>2
  <2>3. CASE ~Outside(b)
    BY <1>3, <1>4, <1>5, <2>1, <2>3
  <2> QED BY <2>2, <2>3
<1>7. CASE ~Inside(c) /\ Entry(c)
  <2>1. ~Outside(c)
    BY <1>2, <1>7
  <2>2. CASE Outside(b)
    BY <1>3, <1>4, <1>7, <2>1, <2>2
  <2>3. CASE ~Outside(b)
    <3>1. b = c - 1 => Exit(b)
      BY <1>7, <2>3 DEF Inside
    <3> QED BY <1>3, <1>4, <1>5, <1>7, <2>3, <3>1
  <2> QED BY <2>2, <2>3
<1>8. CASE ~Inside(c) /\ ~Entry(c)
  <2>1. Outside(c)
    BY <1>2, <1>8
  <2>2. /\ previous \in 0 .. c - 1 /\ (previous # 0 => Outside(previous))
        /\ \A d \in previous + 1 .. c - 1 : ~Outside(d)
    BY <1>8 DEF Remembers, LastOutside, NoBlock
  <2>3. CASE Outside(b)
    <3>1. (\A d \in b + 1 .. c - 1 : ~Outside(d)) <=> b = previous
      <4>1. CASE b = previous
        BY <2>2, <4>1
      <4>2. CASE b < previous
        BY <1>1, <2>2, <4>2
      <4>3. CASE previous < b
        BY <1>1, <2>2, <2>3, <4>3
      <4> QED BY <1>1, <2>2, <4>1, <4>2, <4>3
    <3> QED BY <1>2, <1>3, <1>4, <1>8, <2>1, <2>3, <3>1
  <2>4. CASE ~Outside(b)
    <3>1. b = c - 1 => Exit(b)
      BY <1>8, <2>4 DEF Inside
    <3>2. b # previous
      BY <1>1, <2>2, <2>4
    <3> QED BY <1>3, <1>4, <1>5, <2>4, <3>1, <3>2
  <2> QED BY <2>3, <2>4
<1> QED BY <1>6, <1>7, <1>8

(* Control goes on to blocks behind, and there is always one. *)
LEMMA OnwardsIsBehind ==
  ASSUME AllCut, NEW b \in 1 .. Len(blocks)
  PROVE  Onwards(b) \subseteq b + 1 .. Len(blocks)
<1>1. Ends(b).op = "EXIT_PROC" <=> Exit(b)
  BY Heads
<1>2. ~Outside(b) /\ ~Exit(b) => b < Len(blocks)
  BY OutsideSteps
<1>3. b \in Nat /\ Len(blocks) \in Nat
  BY BlocksType
<1>4. CASE Outside(b)
  BY <1>4 DEF Onwards, FallsTo
<1>5. CASE ~Outside(b) /\ ~Exit(b)
  BY <1>2, <1>3, <1>5 DEF Onwards, FallsTo
<1>6. CASE Exit(b)
  BY <1>1, <1>6 DEF Onwards
<1> QED BY <1>4, <1>5, <1>6

(* What is remembered of the next block. *)
LEMMA RemembersNext ==
  ASSUME AllCut, NEW c \in 2 .. Len(blocks), Remembers(c), UNCHANGED <<instructions, blocking>>,
         \/ Entry(c) /\ saved' = previous /\ previous' = c
         \/ ~Entry(c) /\ Exit(c) /\ previous' = saved
         \/ ~Entry(c) /\ ~Exit(c) /\ previous' = c /\ saved' = saved
  PROVE  Remembers(c + 1)'
<1> DEFINE Last(p, n) == p \in 0 .. n - 1 /\ (p # 0 => Outside(p)) /\ \A d \in p + 1 .. n - 1 : ~Outside(d)
<1>1. c \in 1 .. Len(blocks) /\ c > 1 /\ (c + 1) - 1 = c /\ c \in Nat
  BY BlocksType
<1>2. /\ Entry(c) \/ Exit(c) => ~Outside(c)
      /\ Entry(c) => ~Inside(c)
      /\ Exit(c) => Inside(c)
      /\ ~Entry(c) /\ ~Exit(c) => (Outside(c) <=> ~Inside(c))
  BY <1>1, OutsideSteps
<1>3. blocks' = blocks
  BY DEF blocking
<1>4. Inside(c + 1) <=> ~Outside(c) /\ ~Exit(c)
  BY <1>1 DEF Inside
<1>5. IF Inside(c) THEN previous = c - 1 /\ Last(saved, c) ELSE Last(previous, c)
  BY DEF Remembers, LastOutside, NoBlock
<1>6. \A p : Last(p, c) /\ ~Outside(c) => Last(p, c + 1)
  <2>1. ASSUME NEW p, Last(p, c), ~Outside(c) PROVE Last(p, c + 1)
    <3>1. p \in 0 .. (c + 1) - 1 /\ \A d \in p + 1 .. (c + 1) - 1 : d = c \/ d \in p + 1 .. c - 1
      BY <1>1, <2>1
    <3> QED BY <2>1, <3>1
  <2> HIDE DEF Last
  <2> QED BY <2>1
<1>7. Outside(c) => Last(c, c + 1)
  <2>1. c \in 0 .. (c + 1) - 1 /\ \A d \in c + 1 .. (c + 1) - 1 : FALSE
    BY <1>1
  <2> QED BY <2>1
<1> HIDE DEF Last
<1>8. IF Inside(c + 1) THEN previous' = (c + 1) - 1 /\ Last(saved', c + 1) ELSE Last(previous', c + 1)
  <2>1. CASE Entry(c)
    BY <1>1, <1>2, <1>4, <1>5, <1>6, <2>1, NotBoth
  <2>2. CASE ~Entry(c) /\ Exit(c)
    BY <1>1, <1>2, <1>4, <1>5, <1>6, <2>2
  <2>3. CASE ~Entry(c) /\ ~Exit(c)
    BY <1>1, <1>2, <1>4, <1>5, <1>6, <1>7, <2>3
  <2> QED BY <2>1, <2>2, <2>3
<1> QED BY <1>3, <1>8 DEF Remembers, LastOutside, NoBlock, Inside, Outside, Exit, Has, Last

-----------------------------------------------------------------------------
(* The edges, as far as the blocks are connected. *)
Edged ==
  LET N == Len(blocks)
  IN  /\ successors \in [1 .. N -> Seq(1 .. N)] /\ predecessors \in [1 .. N -> Seq(1 .. N)]
      /\ \A b \in 1 .. N :
           Values(successors[b]) =
             {c \in Onwards(b) : c < current} \union (IF b = 1 \/ b >= current THEN {} ELSE Jumped(b))
      /\ \A b, c \in 1 .. N : Times(successors[b], c) = Times(predecessors[c], b)

ConnectInv ==
  /\ AllCut
  /\ current \in 2 .. Len(blocks) + 1
  /\ Remembers(current)
  /\ Edged

(* A sequence with one more block, if it is one. *)
More(s, x) == IF x = NoBlock THEN s ELSE Append(s, x)

LEMMA MoreIs ==
  ASSUME NEW N \in Nat, NEW s \in Seq(1 .. N), NEW x \in 0 .. N
  PROVE  /\ More(s, x) \in Seq(1 .. N)
         /\ Values(More(s, x)) = Values(s) \union (IF x = NoBlock THEN {} ELSE {x})
         /\ \A y : Times(More(s, x), y) = Times(s, y) + (IF x # NoBlock /\ x = y THEN 1 ELSE 0) /\ Times(s, y) \in Nat
<1>1. CASE x # NoBlock
  <2>1. More(s, x) = Append(s, x) /\ x \in 1 .. N
    BY <1>1 DEF More, NoBlock
  <2>2. Append(s, x) \in Seq(1 .. N)
    BY <2>1
  <2>3. Values(Append(s, x)) = Values(s) \union {x}
    BY <2>1, ValuesOfAppend
  <2>4. \A y : Times(s, y) \in Nat /\ Times(Append(s, x), y) = Times(s, y) + (IF x = y THEN 1 ELSE 0)
    BY <2>1, TimesInAppend
  <2> QED BY <1>1, <2>1, <2>2, <2>3, <2>4
<1>2. CASE x = NoBlock
  <2>1. More(s, x) = s
    BY <1>2 DEF More
  <2>2. \A y : Times(s, y) \in Nat
    <3>1. ASSUME NEW y PROVE Times(s, y) \in Nat
      <4>1. {k \in 1 .. Len(s) : s[k] = y} \in SUBSET (1 .. Len(s)) /\ IsFiniteSet(1 .. Len(s))
        BY FS_Interval
      <4>2. IsFiniteSet({k \in 1 .. Len(s) : s[k] = y})
        BY <4>1, FS_Subset
      <4> QED BY <4>2, FS_CardinalityType DEF Times
    <3> QED BY <3>1
  <2> QED BY <1>2, <2>1, <2>2
<1> QED BY <1>1, <1>2

LEMMA MoreTwice ==
  ASSUME NEW N \in Nat, NEW s \in Seq(1 .. N), NEW x \in 0 .. N, NEW y \in 0 .. N
  PROVE  /\ More(More(s, x), y) \in Seq(1 .. N)
         /\ Values(More(More(s, x), y)) =
              Values(s) \union (IF x = NoBlock THEN {} ELSE {x}) \union (IF y = NoBlock THEN {} ELSE {y})
         /\ \A z : /\ Times(s, z) \in Nat
                   /\ Times(More(More(s, x), y), z) =
                        Times(s, z) + (IF x # NoBlock /\ x = z THEN 1 ELSE 0) + (IF y # NoBlock /\ y = z THEN 1 ELSE 0)
<1> DEFINE t == More(s, x)
<1>1. /\ t \in Seq(1 .. N)
      /\ Values(t) = Values(s) \union (IF x = NoBlock THEN {} ELSE {x})
      /\ \A z : Times(t, z) = Times(s, z) + (IF x # NoBlock /\ x = z THEN 1 ELSE 0) /\ Times(s, z) \in Nat
  BY MoreIs
<1> HIDE DEF t
<1>2. /\ More(t, y) \in Seq(1 .. N)
      /\ Values(More(t, y)) = Values(t) \union (IF y = NoBlock THEN {} ELSE {y})
      /\ \A z : Times(More(t, y), z) = Times(t, z) + (IF y # NoBlock /\ y = z THEN 1 ELSE 0)
  <2>2. t \in Seq(1 .. N)
    BY <1>1
  <2> QED BY <2>2, MoreIs
<1>3. /\ More(t, y) \in Seq(1 .. N)
      /\ Values(More(t, y)) =
           Values(s) \union (IF x = NoBlock THEN {} ELSE {x}) \union (IF y = NoBlock THEN {} ELSE {y})
      /\ \A z : /\ Times(s, z) \in Nat
                /\ Times(More(t, y), z) =
                     Times(s, z) + (IF x # NoBlock /\ x = z THEN 1 ELSE 0) + (IF y # NoBlock /\ y = z THEN 1 ELSE 0)
  BY <1>1, <1>2
<1> QED BY <1>3 DEF t

(* One block is connected: to "from", if any, and to "to", if any. *)
Connects(c, from, to) ==
  /\ successors' = [b \in 1 .. Len(blocks) |->
                      More(More(successors[b], IF b = from THEN c ELSE NoBlock), IF b = c THEN to ELSE NoBlock)]
  /\ predecessors' = [b \in 1 .. Len(blocks) |->
                        More(More(predecessors[b], IF b = c THEN from ELSE NoBlock), IF b = to THEN c ELSE NoBlock)]

(* The block before falls through, unless a procedure is entered. *)
FallsInto(c, from) ==
  from = IF ~Entry(c) /\ ~EndsWithUnconditionalJump(previous) THEN previous ELSE NoBlock
JumpsTo(c, to) == Jumped(c) = IF to = NoBlock THEN {} ELSE {to}

LEMMA EdgesConnect ==
  ASSUME AllCut, current \in 2 .. Len(blocks), Edged, LabelsKnown(current), Edges(~Entry(current)),
         previous \in 0 .. Len(blocks), Entry(current) \/ previous # NoBlock
  PROVE  \E from, to \in 0 .. Len(blocks) :
           Connects(current, from, to) /\ FallsInto(current, from) /\ JumpsTo(current, to)
<1> DEFINE N == Len(blocks)
           c == current
           last == blocks[c][Len(blocks[c])]
           targets == JumpTargets(c)
           from == IF ~Entry(c) /\ ~EndsWithUnconditionalJump(previous) THEN previous ELSE NoBlock
           before == IF ~Entry(c) /\ ~EndsWithUnconditionalJump(previous) THEN <<previous>> ELSE <<>>
           to == IF TransfersControl(last) THEN labelBlock[last.arg1] ELSE NoBlock
<1>1. /\ N \in Nat /\ c \in 1 .. N /\ blocks[c] \in Seq(Instructions) /\ blocks[c] # <<>>
      /\ Len(blocks[c]) \in 1 .. Len(blocks[c])
      /\ \A i \in 1 .. Len(blocks[c]) : TransfersControl(blocks[c][i]) => i = Len(blocks[c])
  BY BlocksType
<1>2. targets = IF TransfersControl(last) THEN <<labelBlock[last.arg1]>> ELSE <<>>
  BY <1>1, TargetsOfBasic DEF JumpTargets
<1>3. TransfersControl(last) => labelBlock[last.arg1] \in 1 .. N /\ LabelOf(last.arg1) = labelBlock[last.arg1]
  BY <1>1, LabelsAre DEF LabelsKnown
<1>4. to \in 0 .. N /\ (to = NoBlock <=> ~TransfersControl(last)) /\ Jumped(c) = IF to = NoBlock THEN {} ELSE {to}
  <2>1. Jumped(c) = IF TransfersControl(last) THEN {LabelOf(last.arg1)} ELSE {}
    BY DEF Jumped, Ends
  <2> HIDE DEF last, N
  <2>2. CASE TransfersControl(last)
    <3>1. to = labelBlock[last.arg1] /\ to \in 1 .. N /\ LabelOf(last.arg1) = to
      BY <1>3, <2>2
    <3>2. to # NoBlock /\ to \in 0 .. N
      BY <1>1, <3>1 DEF NoBlock
    <3> HIDE DEF to
    <3> QED BY <2>1, <2>2, <3>1, <3>2
  <2>3. CASE ~TransfersControl(last)
    <3>1. to = NoBlock /\ to \in 0 .. N
      BY <1>1, <2>3 DEF NoBlock
    <3> HIDE DEF to
    <3> QED BY <2>1, <2>3, <3>1
  <2> QED BY <2>2, <2>3
<1>5. from \in 0 .. N /\ from = (IF before = <<>> THEN NoBlock ELSE previous) /\ (before = <<>> <=> from = NoBlock)
  BY <1>1 DEF NoBlock
<1>6. \A b \in 1 .. N : <<b>> = before <=> b = from
  BY <1>1 DEF NoBlock
<1>7. targets = IF to = NoBlock THEN <<>> ELSE <<to>>
  BY <1>2, <1>4
<1>8. before = IF from = NoBlock THEN <<>> ELSE <<from>>
  BY <1>5
<1>9. /\ successors' = [b \in DOMAIN successors |->
           (IF <<b>> = before THEN Append(successors[b], c) ELSE successors[b])
             \o (IF b = c THEN targets ELSE <<>>)]
      /\ predecessors' = [b \in DOMAIN predecessors |->
           (IF b = c THEN predecessors[b] \o before ELSE predecessors[b])
             \o [k \in 1 .. Times(targets, b) |-> c]]
  BY DEF Edges
<1>10. /\ successors \in [1 .. N -> Seq(1 .. N)] /\ predecessors \in [1 .. N -> Seq(1 .. N)]
  BY DEF Edged
<1> HIDE DEF from, to, before, targets, c, N
<1>11. \A S, x : \A s \in Seq(S) : s \o <<>> = s /\ s \o <<x>> = Append(s, x)
  OBVIOUS
<1>exists. c # NoBlock
  BY <1>1 DEF NoBlock
<1>12. ASSUME NEW b \in 1 .. N
       PROVE  (IF <<b>> = before THEN Append(successors[b], c) ELSE successors[b])
                \o (IF b = c THEN targets ELSE <<>>)
                = More(More(successors[b], IF b = from THEN c ELSE NoBlock), IF b = c THEN to ELSE NoBlock)
  <2>1. successors[b] \in Seq(1 .. N)
    BY <1>10
  <2>2. More(successors[b], IF b = from THEN c ELSE NoBlock) \in Seq(1 .. N)
    <3>1. (IF b = from THEN c ELSE NoBlock) \in 0 .. N
      BY <1>1 DEF NoBlock
    <3> QED BY <1>1, <2>1, <3>1, MoreIs
  <2> QED BY <1>6, <1>7, <1>11, <1>exists, <2>1, <2>2 DEF More
<1>13. ASSUME NEW b \in 1 .. N
       PROVE  (IF b = c THEN predecessors[b] \o before ELSE predecessors[b]) \o [k \in 1 .. Times(targets, b) |-> c]
                = More(More(predecessors[b], IF b = c THEN from ELSE NoBlock), IF b = to THEN c ELSE NoBlock)
  <2>1. predecessors[b] \in Seq(1 .. N)
    BY <1>10
  <2>2. (IF b = c THEN predecessors[b] \o before ELSE predecessors[b])
          = More(predecessors[b], IF b = c THEN from ELSE NoBlock)
    BY <1>8, <1>11, <2>1 DEF More
  <2>3. More(predecessors[b], IF b = c THEN from ELSE NoBlock) \in Seq(1 .. N)
    <3>1. (IF b = c THEN from ELSE NoBlock) \in 0 .. N
      BY <1>1, <1>5 DEF NoBlock
    <3> QED BY <1>1, <2>1, <3>1, MoreIs
  <2>4. Times(targets, b) = IF b = to THEN 1 ELSE 0
    <3>1. CASE to = NoBlock
      <4>1. b # to
        BY <1>1, <3>1 DEF NoBlock
      <4> QED BY <1>7, <3>1, <4>1, TimesInEmpty
    <3>2. CASE to # NoBlock
      BY <1>7, <3>2, TimesInOne
    <3> QED BY <3>1, <3>2
  <2>5. [k \in 1 .. Times(targets, b) |-> c] = IF b = to THEN <<c>> ELSE <<>>
    BY <2>4
  <2> QED BY <1>11, <1>exists, <2>2, <2>3, <2>5 DEF More
<1>14. DOMAIN successors = 1 .. N /\ DOMAIN predecessors = 1 .. N
  BY <1>10
<1>15. successors' = [b \in 1 .. N |->
                        More(More(successors[b], IF b = from THEN c ELSE NoBlock), IF b = c THEN to ELSE NoBlock)]
  BY <1>9, <1>12, <1>14
<1>16. predecessors' = [b \in 1 .. N |->
                          More(More(predecessors[b], IF b = c THEN from ELSE NoBlock), IF b = to THEN c ELSE NoBlock)]
  BY <1>9, <1>13, <1>14
<1>17. Connects(current, from, to)
  BY <1>15, <1>16 DEF Connects, c, N
<1> QED BY <1>4, <1>5, <1>17 DEF c, N, from, FallsInto, JumpsTo

(* Where control goes is a matter of the blocks. *)
LEMMA FlowKept ==
  ASSUME blocks' = blocks
  PROVE  \A b : Outside(b)' = Outside(b) /\ Onwards(b)' = Onwards(b) /\ Jumped(b)' = Jumped(b)
<1>1. \A b : Has(b, "ENTER_PROC")' = Has(b, "ENTER_PROC") /\ Has(b, "EXIT_PROC")' = Has(b, "EXIT_PROC")
  BY DEF Has
<1>2. \A b : Outside(b)' = Outside(b)
  BY <1>1 DEF Outside
<1>3. \A b : FallsTo(b)' = FallsTo(b)
  BY <1>2 DEF FallsTo
<1>4. \A b : Ends(b)' = Ends(b)
  BY DEF Ends
<1>5. \A b : Onwards(b)' = Onwards(b)
  BY <1>3, <1>4 DEF Onwards
<1>6. \A l : LabelOf(l)' = LabelOf(l)
  BY DEF LabelOf
<1>7. \A b : Jumped(b)' = Jumped(b)
  BY <1>4, <1>6 DEF Jumped
<1> QED BY <1>2, <1>5, <1>7

LEMMA EdgedNext ==
  ASSUME ConnectInv, current <= Len(blocks), UNCHANGED <<instructions, blocking>>, current' = current + 1,
         NEW from \in 0 .. Len(blocks), NEW to \in 0 .. Len(blocks), Connects(current, from, to),
         FallsInto(current, from), JumpsTo(current, to)
  PROVE  Edged'
<1> DEFINE N == Len(blocks)
           c == current
           R(b, n) == {d \in Onwards(b) : d < n} \union (IF b = 1 \/ b >= n THEN {} ELSE Jumped(b))
<1>1. /\ AllCut /\ Edged /\ Remembers(c) /\ N \in Nat /\ c \in 2 .. N /\ c \in 1 .. N /\ blocks' = blocks
      /\ c \in Nat /\ c' = c + 1
  BY BlocksType DEF ConnectInv, blocking
<1>2. /\ successors \in [1 .. N -> Seq(1 .. N)] /\ predecessors \in [1 .. N -> Seq(1 .. N)]
      /\ \A b \in 1 .. N : Values(successors[b]) = R(b, c)
      /\ \A b, d \in 1 .. N : Times(successors[b], d) = Times(predecessors[d], b)
  BY <1>1 DEF Edged
<1>3. from \in 0 .. c - 1 /\ \A b \in 1 .. c - 1 : c \in Onwards(b) <=> b = from
  <2>1. previous \in 0 .. c - 1
    BY <1>1 DEF Remembers, LastOutside
  <2>2. from \in 0 .. c - 1
    BY <1>1, <2>1 DEF FallsInto, NoBlock
  <2>3. ASSUME NEW b \in 1 .. c - 1 PROVE c \in Onwards(b) <=> b = from
    <3>1. c \in Onwards(b) <=> ~Entry(c) /\ b = previous /\ ~EndsWithUnconditionalJump(b)
      BY <1>1, FallsFrom
    <3>2. b # 0
      BY <1>1
    <3> QED BY <3>1, <3>2 DEF FallsInto, NoBlock
  <2> QED BY <2>2, <2>3
<1>behind. from \in Nat /\ from < c /\ c > 1
  <2>1. from \in 0 .. c - 1
    BY <1>3
  <2>2. c \in Nat
    BY <1>1
  <2>3. c \in 2 .. N
    BY <1>1
  <2> HIDE DEF c, N
  <2>4. c > 1
    BY <2>3
  <2>5. from \in Nat
    BY <2>1
  <2>6. from < c
    BY <2>1, <2>2
  <2> QED BY <2>4, <2>5, <2>6
<1>4. \A b \in 1 .. N : \A d \in Onwards(b) : d \in b + 1 .. N
  BY <1>1, OnwardsIsBehind
<1> HIDE DEF c, N, R
<1>5. /\ successors' = [b \in 1 .. N |-> More(More(successors[b], IF b = from THEN c ELSE NoBlock),
                                                IF b = c THEN to ELSE NoBlock)]
      /\ predecessors' = [b \in 1 .. N |-> More(More(predecessors[b], IF b = c THEN from ELSE NoBlock),
                                                  IF b = to THEN c ELSE NoBlock)]
  BY DEF Connects, c, N
<1>6. (from # NoBlock => from \in 1 .. N) /\ (to # NoBlock => to \in 1 .. N)
  BY <1>1 DEF NoBlock, N
<1>exists. c # NoBlock
  BY <1>1 DEF NoBlock, N
<1>7. ASSUME NEW b \in 1 .. N
      PROVE  /\ successors'[b] \in Seq(1 .. N)
             /\ Values(successors'[b]) =
                  Values(successors[b]) \union (IF b = from THEN {c} ELSE {})
                    \union (IF b = c /\ to # NoBlock THEN {to} ELSE {})
             /\ \A d : /\ Times(successors[b], d) \in Nat
                       /\ Times(successors'[b], d) =
                            Times(successors[b], d) + (IF b = from /\ c = d THEN 1 ELSE 0)
                              + (IF (b = c /\ to # NoBlock) /\ to = d THEN 1 ELSE 0)
  <2> DEFINE s == successors[b]
             x == IF b = from THEN c ELSE NoBlock
             y == IF b = c THEN to ELSE NoBlock
  <2>1. s \in Seq(1 .. N) /\ successors'[b] = More(More(s, x), y)
    BY <1>2, <1>5
  <2>2. x \in 0 .. N /\ y \in 0 .. N /\ N \in Nat
    BY <1>1, <1>6 DEF NoBlock, N
  <2>3. (b = from => x = c /\ x # NoBlock) /\ (b # from => x = NoBlock) /\ (b = c => y = to) /\ (b # c => y = NoBlock)
    BY <1>exists
  <2> HIDE DEF s, x, y
  <2>4. /\ More(More(s, x), y) \in Seq(1 .. N)
        /\ Values(More(More(s, x), y)) =
             Values(s) \union (IF x = NoBlock THEN {} ELSE {x}) \union (IF y = NoBlock THEN {} ELSE {y})
        /\ \A z : /\ Times(s, z) \in Nat
                  /\ Times(More(More(s, x), y), z) =
                       Times(s, z) + (IF x # NoBlock /\ x = z THEN 1 ELSE 0) + (IF y # NoBlock /\ y = z THEN 1 ELSE 0)
    <3>1. s \in Seq(1 .. N)
      BY <2>1
    <3> QED BY <2>2, <3>1, MoreTwice
  <2>5. Values(successors'[b]) =
          Values(s) \union (IF b = from THEN {c} ELSE {}) \union (IF b = c /\ to # NoBlock THEN {to} ELSE {})
    BY <2>1, <2>3, <2>4
  <2>6. \A d : /\ Times(s, d) \in Nat
              /\ Times(successors'[b], d) =
                   Times(s, d) + (IF b = from /\ c = d THEN 1 ELSE 0) + (IF (b = c /\ to # NoBlock) /\ to = d THEN 1 ELSE 0)
    BY <2>1, <2>3, <2>4
  <2> QED BY <2>1, <2>4, <2>5, <2>6 DEF s
<1>8. ASSUME NEW b \in 1 .. N
      PROVE  /\ predecessors'[b] \in Seq(1 .. N)
             /\ \A d : /\ Times(predecessors[b], d) \in Nat
                       /\ Times(predecessors'[b], d) =
                            Times(predecessors[b], d) + (IF (b = c /\ from # NoBlock) /\ from = d THEN 1 ELSE 0)
                              + (IF b = to /\ c = d THEN 1 ELSE 0)
  <2> DEFINE s == predecessors[b]
             x == IF b = c THEN from ELSE NoBlock
             y == IF b = to THEN c ELSE NoBlock
  <2>1. s \in Seq(1 .. N) /\ predecessors'[b] = More(More(s, x), y)
    BY <1>2, <1>5
  <2>2. x \in 0 .. N /\ y \in 0 .. N /\ N \in Nat
    BY <1>1, <1>6 DEF NoBlock, N
  <2>3. (b = to => y = c /\ y # NoBlock) /\ (b # to => y = NoBlock) /\ (b = c => x = from) /\ (b # c => x = NoBlock)
    BY <1>exists
  <2> HIDE DEF s, x, y
  <2>4. /\ More(More(s, x), y) \in Seq(1 .. N)
        /\ \A z : /\ Times(s, z) \in Nat
                  /\ Times(More(More(s, x), y), z) =
                       Times(s, z) + (IF x # NoBlock /\ x = z THEN 1 ELSE 0) + (IF y # NoBlock /\ y = z THEN 1 ELSE 0)
    <3>1. s \in Seq(1 .. N)
      BY <2>1
    <3> QED BY <2>2, <3>1, MoreTwice
  <2>5. \A d : /\ Times(s, d) \in Nat
              /\ Times(predecessors'[b], d) =
                   Times(s, d) + (IF (b = c /\ from # NoBlock) /\ from = d THEN 1 ELSE 0) + (IF b = to /\ c = d THEN 1 ELSE 0)
    BY <2>1, <2>3, <2>4
  <2> QED BY <2>1, <2>4, <2>5 DEF s
<1>9. successors' \in [1 .. N -> Seq(1 .. N)] /\ predecessors' \in [1 .. N -> Seq(1 .. N)]
  <2>1. \A b \in 1 .. N : successors'[b] \in Seq(1 .. N) /\ predecessors'[b] \in Seq(1 .. N)
    BY <1>7, <1>8
  <2>2. successors' = [b \in 1 .. N |-> successors'[b]] /\ predecessors' = [b \in 1 .. N |-> predecessors'[b]]
    BY <1>5
  <2> QED BY <2>1, <2>2
<1>10. ASSUME NEW b \in 1 .. N PROVE Values(successors'[b]) = R(b, c + 1)
  <2>1. Values(successors'[b]) =
          R(b, c) \union (IF b = from THEN {c} ELSE {}) \union (IF b = c /\ to # NoBlock THEN {to} ELSE {})
    BY <1>2, <1>7 DEF R
  <2>2. b \in Nat /\ N \in Nat /\ c \in Nat
    BY <1>1
  <2>3. \A d \in Onwards(b) : d \in Nat /\ d > b
    BY <1>4, <2>2
  <2>4. CASE b < c
    <3>1. c \in Onwards(b) <=> b = from
      BY <1>1, <1>3, <2>4
    <3>2. {d \in Onwards(b) : d < c + 1} = {d \in Onwards(b) : d < c} \union (IF b = from THEN {c} ELSE {})
      BY <2>2, <2>3, <3>1
    <3>3. ~(b >= c) /\ ~(b >= c + 1) /\ b # c
      BY <2>2, <2>4
    <3> QED BY <2>1, <3>2, <3>3 DEF R
  <2>5. CASE b = c
    <3>1. {d \in Onwards(b) : d < c + 1} = {} /\ {d \in Onwards(b) : d < c} = {}
      BY <2>2, <2>3, <2>5
    <3>2. b >= c /\ ~(b >= c + 1) /\ b # 1 /\ b # from
      BY <1>behind, <2>2, <2>5
    <3>3. Jumped(b) = IF to = NoBlock THEN {} ELSE {to}
      BY <2>5 DEF JumpsTo, c
    <3> QED BY <2>1, <2>5, <3>1, <3>2, <3>3 DEF R
  <2>6. CASE b > c
    <3>1. {d \in Onwards(b) : d < c + 1} = {} /\ {d \in Onwards(b) : d < c} = {}
      BY <2>2, <2>3, <2>6
    <3>2. b >= c /\ b >= c + 1 /\ b # from /\ b # c
      BY <1>behind, <2>2, <2>6
    <3> QED BY <2>1, <3>1, <3>2 DEF R
  <2> QED BY <2>2, <2>4, <2>5, <2>6
<1>11. ASSUME NEW b \in 1 .. N, NEW d \in 1 .. N PROVE Times(successors'[b], d) = Times(predecessors'[d], b)
  <2>1. /\ Times(successors[b], d) \in Nat
        /\ Times(successors'[b], d) =
             Times(successors[b], d) + (IF b = from /\ c = d THEN 1 ELSE 0)
               + (IF (b = c /\ to # NoBlock) /\ to = d THEN 1 ELSE 0)
    BY <1>7
  <2>2. Times(predecessors'[d], b) =
          Times(predecessors[d], b) + (IF (d = c /\ from # NoBlock) /\ from = b THEN 1 ELSE 0)
            + (IF d = to /\ c = b THEN 1 ELSE 0)
    BY <1>8
  <2>3. b # NoBlock /\ d # NoBlock
    BY <1>1 DEF NoBlock, N
  <2>4. (b = from /\ c = d <=> (d = c /\ from # NoBlock) /\ from = b) /\ ((b = c /\ to # NoBlock) /\ to = d <=> d = to /\ c = b)
    BY <2>3
  <2>5. Times(successors[b], d) = Times(predecessors[d], b)
    BY <1>2
  <2> QED BY <2>1, <2>2, <2>4, <2>5
<1>12. current' = c + 1 /\ Len(blocks') = N
  BY <1>1 DEF c, N
<1>13. \A b \in 1 .. N :
         R(b, c + 1) = {d \in Onwards(b)' : d < current'} \union (IF b = 1 \/ b >= current' THEN {} ELSE Jumped(b)')
  <2>1. \A b : Onwards(b)' = Onwards(b) /\ Jumped(b)' = Jumped(b)
    BY <1>1, FlowKept
  <2> QED BY <1>12, <2>1 DEF R
<1> QED BY <1>9, <1>10, <1>11, <1>12, <1>13 DEF Edged

-----------------------------------------------------------------------------
(* Connecting: the beginning and the step from one block to the next. *)
LEMMA ConnectBegins ==
  ASSUME CutInv, Connect, current = 2, previous = 1, saved = NoBlock
  PROVE  ConnectInv'
<1> DEFINE N == Len(blocks)
<1>1. /\ instructions' = instructions /\ scanned' = scanned /\ blocks' = blocks /\ current' = 2 /\ previous' = previous
      /\ saved' = saved /\ UNCHANGED <<instructions, blocking>> /\ scanned = Len(instructions) /\ phase' = "connecting"
  BY DEF Connect, blocking
<1>2. AllCut
  BY <1>1 DEF AllCut
<1>3. AllCut'
  <2>1. CutInv'
    BY <1>1, CutKept
  <2> QED BY <1>1, <2>1 DEF AllCut
<1>4. N \in Nat \ {0} /\ current' \in 2 .. Len(blocks') + 1
  BY <1>1, <1>2, BlocksType
<1>5. Remembers(current)'
  <2>1. Remembers(2)
    BY <1>2, RemembersFirst
  <2>2. \A b : Outside(b)' = Outside(b) /\ Exit(b)' = Exit(b)
    BY <1>1, FlowKept DEF Exit
  <2> QED BY <1>1, <2>1, <2>2 DEF Remembers, Inside, LastOutside
<1>6. Edged'
  <2>1. successors' = [b \in 1 .. N |-> <<>>] /\ predecessors' = [b \in 1 .. N |-> <<>>]
    BY DEF Connect
  <2>2. <<>> \in Seq(1 .. N) /\ Values(<<>>) = {} /\ \A c : Times(<<>>, c) = 0
    BY TimesInEmpty DEF Values
  <2>3. \A b : Onwards(b)' = Onwards(b) /\ Jumped(b)' = Jumped(b)
    BY <1>1, FlowKept
  <2>4. ASSUME NEW b \in 1 .. N PROVE {c \in Onwards(b) : c < 2} = {} /\ (b = 1 \/ b >= 2)
    <3>1. \A c \in Onwards(b) : c \in b + 1 .. N
      BY <1>2, OnwardsIsBehind
    <3>2. b \in Nat /\ b >= 1
      BY <1>4
    <3>3. \A c \in Onwards(b) : ~(c < 2)
      BY <1>4, <3>1, <3>2
    <3> QED BY <3>2, <3>3
  <2>5. successors' \in [1 .. N -> Seq(1 .. N)] /\ predecessors' \in [1 .. N -> Seq(1 .. N)]
    BY <2>1, <2>2
  <2>6. ASSUME NEW b \in 1 .. N
        PROVE  Values(successors'[b]) = {c \in Onwards(b) : c < 2} \union (IF b = 1 \/ b >= 2 THEN {} ELSE Jumped(b))
    BY <2>1, <2>2, <2>4
  <2>7. \A b, c \in 1 .. N : Times(successors'[b], c) = Times(predecessors'[c], b)
    BY <2>1, <2>2
  <2> QED BY <1>1, <2>3, <2>5, <2>6, <2>7 DEF Edged
<1> QED BY <1>3, <1>4, <1>5, <1>6 DEF ConnectInv

LEMMA ConnectStep ==
  ASSUME ConnectInv, phase # "blocking", EnterProcedure \/ ExitProcedure \/ Neighbor
  PROVE  ConnectInv'
<1>1. PICK c \in 2 .. Len(blocks) + 1 : c = current
  BY DEF ConnectInv
<1>2. /\ AllCut /\ Edged /\ Remembers(c) /\ c <= Len(blocks) /\ Len(blocks) \in Nat
  BY <1>1, BlocksType DEF ConnectInv, EnterProcedure, ExitProcedure, Neighbor, Connecting
<1>3. c \in 2 .. Len(blocks) /\ c \in 1 .. Len(blocks)
  BY <1>2
<1>4. (Has(c, "ENTER_PROC") <=> Entry(c)) /\ (Has(c, "EXIT_PROC") <=> Exit(c))
  BY <1>2, <1>3, Heads
<1>5. /\ UNCHANGED <<instructions, blocking>> /\ phase' = phase /\ LabelsKnown(current) /\ current' = c + 1
      /\ Edges(~Entry(c)) /\ (Entry(c) \/ previous # NoBlock)
      /\ \/ Entry(c) /\ saved' = previous /\ previous' = c
         \/ ~Entry(c) /\ Exit(c) /\ previous' = saved
         \/ ~Entry(c) /\ ~Exit(c) /\ previous' = c /\ saved' = saved
  <2>1. CASE EnterProcedure
    <3>1. Entry(c) /\ Edges(FALSE) /\ (~Entry(c)) = FALSE
      BY <1>1, <1>4, <2>1 DEF EnterProcedure
    <3>2. Edges(~Entry(c))
      BY <3>1
    <3> QED BY <1>1, <2>1, <3>1, <3>2 DEF EnterProcedure, Edges
  <2>2. CASE ExitProcedure
    <3>1. ~Entry(c) /\ Exit(c) /\ Edges(TRUE) /\ (~Entry(c)) = TRUE
      BY <1>1, <1>4, <2>2 DEF ExitProcedure
    <3>2. Edges(~Entry(c))
      BY <3>1
    <3> QED BY <1>1, <2>2, <3>1, <3>2 DEF ExitProcedure, Edges
  <2>3. CASE Neighbor
    <3>1. ~Entry(c) /\ ~Exit(c) /\ Edges(TRUE) /\ (~Entry(c)) = TRUE
      BY <1>1, <1>4, <2>3 DEF Neighbor
    <3>2. Edges(~Entry(c))
      BY <3>1
    <3> QED BY <1>1, <2>3, <3>1, <3>2 DEF Neighbor, Edges
  <2> QED BY <2>1, <2>2, <2>3
<1>6. previous \in 0 .. Len(blocks)
  BY <1>2, <1>3 DEF Remembers, LastOutside
<1>7. \E from, to \in 0 .. Len(blocks) : Connects(current, from, to) /\ FallsInto(current, from) /\ JumpsTo(current, to)
  BY <1>1, <1>2, <1>3, <1>5, <1>6, EdgesConnect
<1>8. Edged'
  <2>1. PICK from \in 0 .. Len(blocks) : \E to \in 0 .. Len(blocks) :
          Connects(current, from, to) /\ FallsInto(current, from) /\ JumpsTo(current, to)
    BY <1>7
  <2>2. PICK to \in 0 .. Len(blocks) : Connects(current, from, to) /\ FallsInto(current, from) /\ JumpsTo(current, to)
    BY <2>1
  <2>3. current <= Len(blocks) /\ current' = current + 1
    BY <1>1, <1>2, <1>5
  <2> QED BY <1>5, <2>2, <2>3, EdgedNext
<1>9. Remembers(c + 1)'
  BY <1>2, <1>3, <1>5, RemembersNext
<1>10. AllCut'
  <2>1. CutInv'
    BY <1>2, <1>5, CutKept DEF AllCut, CutInv, CutTypeInv
  <2> QED BY <1>2, <1>5, <2>1 DEF AllCut, blocking
<1>11. current' \in 2 .. Len(blocks') + 1
  <2>1. blocks' = blocks
    BY <1>5 DEF blocking
  <2> QED BY <1>2, <1>3, <1>5, <2>1
<1>12. Remembers(current)'
  BY <1>5, <1>9 DEF Remembers, Inside, LastOutside
<1> QED BY <1>8, <1>10, <1>11, <1>12 DEF ConnectInv

-----------------------------------------------------------------------------
(* The inductive invariant. *)
IInv ==
  /\ CutInv
  /\ phase = "blocking" => /\ current = 2 /\ previous = 1 /\ saved = NoBlock /\ fault = "none"
                           /\ successors = <<>> /\ predecessors = <<>>
  /\ phase # "blocking" => ConnectInv
  /\ phase = "analyzing" => current > Len(blocks)
  /\ saved \in Nat /\ fault \in {"none", "unknown label", "null block"}

LEMMA PreviousType ==
  ASSUME ConnectInv
  PROVE  current \in Nat /\ previous \in Nat
<1>1. Len(blocks) \in Nat /\ current \in 2 .. Len(blocks) + 1 /\ Remembers(current)
  BY BlocksType DEF ConnectInv
<1>2. current \in Nat /\ current >= 2
  BY <1>1
<1>3. previous = current - 1 \/ previous \in 0 .. current - 1
  BY <1>1 DEF Remembers, LastOutside
<1> QED BY <1>2, <1>3

LEMMA InvInit == Init => IInv
<1>1. Init => CutInv
  BY CutInit
<1> QED BY <1>1 DEF Init, Idle, IInv, NoBlock

LEMMA InvStep ==
  ASSUME IInv, [Next]_vars
  PROVE  IInv'
<1>1. CutInv'
  BY CutStep DEF IInv
<1>2. CASE phase = "blocking" /\ phase' = "blocking"
  <2>1. CASE InsertFirst \/ Insert
    BY <1>1, <1>2, <2>1 DEF IInv, InsertFirst, Insert, connecting
  <2>2. CASE UNCHANGED vars
    BY <1>1, <1>2, <2>2 DEF IInv, vars, connecting
  <2> QED BY <1>2, <2>1, <2>2
          DEF Next, Connect, EnterProcedure, ExitProcedure, Neighbor, UnknownLabel, NullPrevious, Finish, Connecting
<1>3. CASE phase = "blocking" /\ phase' # "blocking"
  <2>1. Connect
    BY <1>3 DEF Next, InsertFirst, Insert, EnterProcedure, ExitProcedure, Neighbor, UnknownLabel, NullPrevious, Finish,
                Connecting, vars
  <2>2. ConnectInv'
    BY <1>3, <2>1, ConnectBegins DEF IInv
  <2> QED BY <1>1, <1>3, <2>1, <2>2 DEF IInv, Connect
<1>4. CASE phase # "blocking"
  <2>1. CASE EnterProcedure \/ ExitProcedure \/ Neighbor
    <3>1. ConnectInv'
      BY <1>4, <2>1, ConnectStep DEF IInv
    <3>2. phase = "connecting" /\ phase' = phase /\ fault' = fault
      BY <2>1 DEF EnterProcedure, ExitProcedure, Neighbor, Connecting
    <3>3. saved' \in Nat
      <4>1. previous \in Nat
        BY <1>4, PreviousType DEF IInv
      <4>2. saved \in Nat
        BY DEF IInv
      <4>3. saved' = previous \/ saved' = 0 \/ saved' = saved
        BY <2>1 DEF EnterProcedure, ExitProcedure, Neighbor, NoBlock
      <4> QED BY <4>1, <4>2, <4>3
    <3> QED BY <1>1, <3>1, <3>2, <3>3 DEF IInv
  <2>2. CASE UnknownLabel \/ NullPrevious \/ Finish \/ UNCHANGED vars
    <3>1. /\ UNCHANGED <<instructions, blocking, connecting>> /\ phase' \in {phase, "analyzing"} /\ phase' # "blocking"
          /\ phase' = "analyzing" => phase = "analyzing" \/ current > Len(blocks)
          /\ fault' \in {"none", "unknown label", "null block"}
      BY <1>4, <2>2 DEF UnknownLabel, NullPrevious, Finish, vars, Connecting, IInv
    <3>2. ConnectInv'
      <4>1. UNCHANGED <<instructions, scanned, blocks, current, previous, saved, successors, predecessors>>
        BY <3>1 DEF blocking, connecting
      <4>2. \A b : Outside(b)' = Outside(b) /\ Onwards(b)' = Onwards(b) /\ Jumped(b)' = Jumped(b) /\ Exit(b)' = Exit(b)
        BY <4>1, FlowKept DEF Exit
      <4>3. Remembers(current)' /\ Edged'
        BY <1>4, <4>1, <4>2 DEF IInv, ConnectInv, Remembers, Inside, LastOutside, Edged
      <4> QED BY <1>1, <1>4, <4>1, <4>3 DEF IInv, ConnectInv, AllCut
    <3> QED BY <1>1, <3>1, <3>2 DEF IInv, blocking, connecting
  <2> QED BY <1>4, <2>1, <2>2 DEF Next, InsertFirst, Insert, Connect
<1> QED BY <1>2, <1>3, <1>4

LEMMA Inv == Spec => []IInv
<1>1. IInv /\ [Next]_vars => IInv'
  BY InvStep
<1> QED BY InvInit, <1>1, PTL DEF Spec

(* The tables and the edges are of blocks that were made, whatever the code. *)
THEOREM TypeCorrect == Spec => []TypeOK
<1>1. IInv => TypeOK
  <2> SUFFICES ASSUME IInv PROVE TypeOK
    OBVIOUS
  <2>1. /\ scanned \in 0 .. Len(instructions) /\ followsJump \in BOOLEAN
        /\ \A b \in 1 .. Len(blocks) : Len(blocks[b]) > 0
        /\ \A l \in DOMAIN labelBlock : labelBlock[l] \in 1 .. Len(blocks)
    <3>1. CutTypeInv /\ LabelInv
      BY DEF IInv, CutInv
    <3>2. blocks \in Parts
      BY <3>1 DEF CutTypeInv
    <3>3. \A b \in 1 .. Len(blocks) : Len(blocks[b]) > 0
      BY <3>2, PartsType
    <3> QED BY <3>1, <3>3 DEF CutTypeInv, LabelInv
  <2>2. saved \in Nat /\ fault \in {"none", "unknown label", "null block"}
    BY DEF IInv
  <2>3. /\ current \in Nat /\ previous \in Nat
        /\ \A b \in DOMAIN successors : \A k \in DOMAIN successors[b] : successors[b][k] \in 1 .. Len(blocks)
        /\ \A b \in DOMAIN predecessors : \A k \in DOMAIN predecessors[b] : predecessors[b][k] \in 1 .. Len(blocks)
    <3>1. CASE phase = "blocking"
      BY <3>1 DEF IInv
    <3>2. CASE phase # "blocking"
      <4>1. ConnectInv /\ AllCut /\ Edged /\ Len(blocks) \in Nat
        BY <3>2, BlocksType DEF IInv, ConnectInv
      <4>2. current \in Nat /\ previous \in Nat
        BY <4>1, PreviousType
      <4>3. /\ successors \in [1 .. Len(blocks) -> Seq(1 .. Len(blocks))]
            /\ predecessors \in [1 .. Len(blocks) -> Seq(1 .. Len(blocks))]
        BY <4>1 DEF Edged
      <4>4. \A s \in Seq(1 .. Len(blocks)) : \A k \in DOMAIN s : s[k] \in 1 .. Len(blocks)
        OBVIOUS
      <4> QED BY <4>2, <4>3, <4>4
    <3> QED BY <3>1, <3>2
  <2> QED BY <2>1, <2>2, <2>3 DEF TypeOK
<1> QED BY <1>1, Inv, PTL

(***************************************************************************)
(* Once connected, the edges of every block behind the first are where     *)
(* control goes; those of the first are among them, with the fall through. *)
(* They are the same in both directions.                                   *)
(***************************************************************************)
THEOREM EdgesFollowControl == Spec => []EdgesBehindTheFirst
<1>1. IInv => EdgesBehindTheFirst
  <2> SUFFICES ASSUME IInv, Connected PROVE
        \A b \in 1 .. Len(blocks) :
          /\ Onwards(b) \subseteq Successors(b)
          /\ \A c \in Successors(b) \ Onwards(b) : c \in Jumped(b)
          /\ b # 1 => Jumped(b) \subseteq Successors(b)
          /\ \A c \in 1 .. Len(blocks) : Times(successors[b], c) = Times(predecessors[c], b)
    BY DEF EdgesBehindTheFirst
  <2>1. phase = "analyzing"
    BY DEF IInv, CutInv, CutTypeInv, Connected
  <2>2. AllCut /\ Edged /\ Len(blocks) \in Nat /\ current = Len(blocks) + 1
    <3>1. ConnectInv /\ current > Len(blocks)
      BY <2>1 DEF IInv
    <3>2. AllCut /\ Edged /\ current \in 2 .. Len(blocks) + 1
      BY <3>1 DEF ConnectInv
    <3>3. Len(blocks) \in Nat
      BY <3>2, BlocksType
    <3> QED BY <3>1, <3>2, <3>3
  <2>3. ASSUME NEW b \in 1 .. Len(blocks)
        PROVE  Successors(b) = Onwards(b) \union (IF b = 1 THEN {} ELSE Jumped(b))
    <3>1. Values(successors[b]) =
            {c \in Onwards(b) : c < current} \union (IF b = 1 \/ b >= current THEN {} ELSE Jumped(b))
      BY <2>2 DEF Edged
    <3>2. \A c \in Onwards(b) : c \in b + 1 .. Len(blocks)
      BY <2>2, OnwardsIsBehind
    <3>3. {c \in Onwards(b) : c < current} = Onwards(b) /\ ~(b >= current)
      BY <2>2, <3>2
    <3> QED BY <3>1, <3>3 DEF Successors, Values
  <2> QED BY <2>2, <2>3 DEF Edged
<1> QED BY <1>1, Inv, PTL
=============================================================================
