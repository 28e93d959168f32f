---------------------------- MODULE Parser_proofs ----------------------------
(***************************************************************************)
(* The parser enters and leaves scopes in pairs, for every text: whatever  *)
(* is still to do takes the stack of scopes to the global scope alone, and *)
(* never below it.  That is the invariant (Work); every function adds to   *)
(* what is to do items that keep the number of scopes (Neutral), or a pair *)
(* around such items.                                                      *)
(***************************************************************************)
EXTENDS Parser, SequenceTheorems, TLAPS

(* How an item of todo changes the number of open scopes. *)
Effect(item) == IF item[1] = "enterNewScope" THEN 1 ELSE IF item[1] = "exitOldScope" THEN -1 ELSE 0

IsSequence(s) == \E S : s \in Seq(S)

(* Items that change no scope, without items of their own, ... *)
Plain(item) ==
  /\ item[1] \notin {"enterNewScope", "exitOldScope", "if", "while"}
  /\ item[1] = "operatorTail" => item[3] \in {"parseExpressionTail", "parseTermTail"}

AllPlain(items) == IsSequence(items) /\ \A i \in 1 .. Len(items) : Plain(items[i])

(* ... with plain items of their own, ... *)
Shallow(item) == Plain(item) \/ (item[1] \in {"if", "while"} /\ AllPlain(item[3]))

AllShallow(items) == IsSequence(items) /\ \A i \in 1 .. Len(items) : Shallow(items[i])

(* ... and with choices and loops among those of a choice. *)
Neutral(item) == Shallow(item) \/ (item[1] = "if" /\ AllShallow(item[3]))

AllNeutral(items) == IsSequence(items) /\ \A i \in 1 .. Len(items) : Neutral(items[i])

(* An item is neutral, or enters or leaves a scope. *)
Known(item) == Neutral(item) \/ item[1] \in {"enterNewScope", "exitOldScope"}
AllKnown(items) == IsSequence(items) /\ \A i \in 1 .. Len(items) : Known(items[i])

(* The numbers of open scopes before and after each item. *)
Depths(items, d) ==
  /\ d \in [0 .. Len(items) -> Nat]
  /\ \A i \in 1 .. Len(items) : d[i] = d[i - 1] + Effect(items[i]) /\ d[i] >= 1

Work(items, n) ==
  /\ AllKnown(items)
  /\ \E d : Depths(items, d) /\ d[0] = n /\ d[Len(items)] = 1

-----------------------------------------------------------------------------
(* What is to do after the first item is done. *)
LEMMA Rest ==
  ASSUME NEW s, IsSequence(s), s # <<>>
  PROVE  /\ IsSequence(Tail(s)) /\ Len(Tail(s)) = Len(s) - 1 /\ Len(s) \in Nat \ {0}
         /\ Head(s) = s[1]
         /\ \A i \in 1 .. Len(s) - 1 : Tail(s)[i] = s[i + 1]
<1>1. PICK S : s \in Seq(S)
  BY DEF IsSequence
<1>2. Tail(s) \in Seq(S)
  BY <1>1
<1> QED BY <1>1, <1>2 DEF IsSequence

LEMMA Joined ==
  ASSUME NEW s, NEW t, IsSequence(s), IsSequence(t)
  PROVE  /\ IsSequence(s \o t) /\ Len(s \o t) = Len(s) + Len(t) /\ Len(s) \in Nat /\ Len(t) \in Nat
         /\ \A i \in 1 .. Len(s) : (s \o t)[i] = s[i]
         /\ \A i \in 1 .. Len(t) : (s \o t)[Len(s) + i] = t[i]
<1>1. PICK S : s \in Seq(S)
  BY DEF IsSequence
<1>2. PICK T : t \in Seq(T)
  BY DEF IsSequence
<1>3. s \in Seq(S \union T) /\ t \in Seq(S \union T)
  BY <1>1, <1>2
<1> HIDE <1>1, <1>2
<1>4. s \o t \in Seq(S \union T)
  BY <1>3
<1> QED BY <1>3, <1>4 DEF IsSequence

(* Doing the first item, and getting items to do that keep the scopes from *)
(* falling and leave them as they were.                                    *)
LEMMA MoreWork ==
  ASSUME NEW s, NEW n \in Nat, Work(s, n), s # <<>>,
         NEW items, AllKnown(items),
         NEW e, Depths(items, e), e[0] = n + Effect(s[1]), e[Len(items)] = n + Effect(s[1])
  PROVE  Work(items \o Tail(s), n + Effect(s[1]))
<1>1. PICK d : Depths(s, d) /\ d[0] = n /\ d[Len(s)] = 1
  BY DEF Work
<1>2. IsSequence(s) /\ IsSequence(items)
  BY DEF Work, AllKnown
<1> DEFINE t == Tail(s)
           new == items \o t
           m == Len(items)
           f == [i \in 0 .. Len(new) |-> IF i <= m THEN e[i] ELSE d[i - m + 1]]
<1>3. /\ IsSequence(t) /\ Len(t) = Len(s) - 1 /\ Len(s) \in Nat \ {0}
      /\ \A i \in 1 .. Len(s) - 1 : t[i] = s[i + 1]
  BY <1>2, Rest
<1>4. /\ IsSequence(new) /\ Len(new) = m + Len(t) /\ m \in Nat
      /\ \A i \in 1 .. m : new[i] = items[i]
      /\ \A i \in 1 .. Len(t) : new[m + i] = t[i]
  BY <1>2, <1>3, Joined
<1> HIDE DEF t, new, m
<1>5. \A i \in 1 .. Len(new) : i <= m \/ (i - m \in 1 .. Len(t) /\ new[i] = s[i - m + 1])
  <2> SUFFICES ASSUME NEW i \in 1 .. Len(new), i > m PROVE i - m \in 1 .. Len(t) /\ new[i] = s[i - m + 1]
    BY <1>4
  <2>1. i - m \in 1 .. Len(t)
    BY <1>3, <1>4
  <2>2. new[m + (i - m)] = t[i - m] /\ m + (i - m) = i
    BY <1>4, <2>1
  <2> QED BY <1>3, <2>1, <2>2
<1>6. AllKnown(new)
  <2>1. \A i \in 1 .. Len(new) : i > m => i - m + 1 \in 1 .. Len(s)
    BY <1>3, <1>4, <1>5
  <2>2. \A i \in 1 .. Len(items) : Known(items[i])
    BY DEF AllKnown
  <2>3. \A i \in 1 .. Len(s) : Known(s[i])
    BY DEF Work, AllKnown
  <2>4. \A i \in 1 .. Len(new) : Known(new[i])
    <3> SUFFICES ASSUME NEW i \in 1 .. Len(new) PROVE Known(new[i])
      OBVIOUS
    <3>1. CASE i <= m
      <4>1. i \in 1 .. Len(items) /\ new[i] = items[i]
        BY <1>4, <3>1 DEF m
      <4> QED BY <2>2, <4>1
    <3>2. CASE i > m
      <4>1. i - m + 1 \in 1 .. Len(s) /\ new[i] = s[i - m + 1]
        BY <1>4, <1>5, <2>1, <3>2
      <4> QED BY <2>3, <4>1
    <3> QED BY <1>4, <3>1, <3>2
  <2> QED BY <1>4, <2>4 DEF AllKnown
<1>7. d[1] = n + Effect(s[1]) /\ d[1] >= 1
  BY <1>1, <1>3 DEF Depths
<1>8. /\ e \in [0 .. m -> Nat] /\ e[0] = d[1] /\ e[m] = d[1]
      /\ \A i \in 1 .. m : e[i] = e[i - 1] + Effect(items[i]) /\ e[i] >= 1
  BY <1>7 DEF Depths, m
<1>9. Depths(new, f)
  <2>1. ASSUME NEW i \in 0 .. Len(new) PROVE f[i] \in Nat
    <3>1. CASE i <= m
      BY <1>4, <1>8, <3>1
    <3>2. CASE i > m
      <4>1. i - m + 1 \in 0 .. Len(s)
        BY <1>3, <1>4, <3>2
      <4>2. f[i] = d[i - m + 1] /\ d \in [0 .. Len(s) -> Nat]
        BY <1>1, <1>4, <3>2 DEF Depths
      <4> HIDE DEF f
      <4> QED BY <4>1, <4>2
    <3> QED BY <1>4, <3>1, <3>2
  <2>2. ASSUME NEW i \in 1 .. Len(new) PROVE f[i] = f[i - 1] + Effect(new[i]) /\ f[i] >= 1
    <3>1. CASE i <= m
      <4>1. f[i] = e[i] /\ f[i - 1] = e[i - 1] /\ new[i] = items[i] /\ i \in 1 .. m
        BY <1>3, <1>4, <3>1
      <4> QED BY <1>8, <4>1
    <3>2. CASE i > m
      <4>1. i - m \in 1 .. Len(t) /\ new[i] = s[i - m + 1] /\ i - m + 1 \in 1 .. Len(s)
        BY <1>3, <1>4, <1>5, <3>2
      <4>2. f[i] = d[i - m + 1]
        BY <1>4, <3>2
      <4>3. f[i - 1] = d[i - m]
        <5>1. CASE i - 1 = m
          <6>1. f[i - 1] = e[m] /\ i - m = 1
            BY <1>3, <1>4, <5>1
          <6> QED BY <1>8, <6>1
        <5>2. CASE i - 1 > m
          BY <1>3, <1>4, <5>2
        <5> QED BY <1>4, <3>2, <5>1, <5>2
      <4>4. d[i - m + 1] = d[i - m] + Effect(s[i - m + 1]) /\ d[i - m + 1] >= 1
        <5>1. \A j \in 1 .. Len(s) : d[j] = d[j - 1] + Effect(s[j]) /\ d[j] >= 1
          BY <1>1 DEF Depths
        <5>2. (i - m + 1) - 1 = i - m
          BY <1>4
        <5> QED BY <4>1, <5>1, <5>2
      <4> QED BY <4>1, <4>2, <4>3, <4>4
    <3> QED BY <1>4, <3>1, <3>2
  <2> QED BY <2>1, <2>2 DEF Depths
<1>10. f[0] = n + Effect(s[1]) /\ f[Len(new)] = 1
  <2>1. f[0] = d[1]
    BY <1>3, <1>4, <1>8
  <2>2. CASE Len(t) = 0
    BY <1>1, <1>3, <1>4, <1>8, <2>2
  <2>3. CASE Len(t) # 0
    <3>1. Len(new) > m /\ Len(new) - m + 1 = Len(s)
      BY <1>3, <1>4, <2>3
    <3> QED BY <1>1, <1>3, <1>4, <3>1
  <2> QED BY <1>7, <2>1, <2>2, <2>3
<1>11. Work(new, n + Effect(s[1]))
  BY <1>6, <1>9, <1>10 DEF Work
<1> QED BY <1>11 DEF new, t

-----------------------------------------------------------------------------
(* Neutral items keep the scopes. *)
LEMMA NeutralEffect ==
  ASSUME NEW item, Neutral(item) PROVE Effect(item) = 0 /\ Known(item)
BY DEF Neutral, Shallow, Plain, Effect, Known

LEMMA NeutralWork ==
  ASSUME NEW s, NEW n \in Nat, n >= 1, Work(s, n), s # <<>>, Effect(s[1]) = 0,
         NEW items, AllNeutral(items)
  PROVE  Work(items \o Tail(s), n)
<1> DEFINE e == [i \in 0 .. Len(items) |-> n]
<1>1. \A i \in 1 .. Len(items) : Effect(items[i]) = 0 /\ Known(items[i])
  BY NeutralEffect DEF AllNeutral
<1>2. Len(items) \in Nat /\ IsSequence(items)
  <2>1. PICK S : items \in Seq(S)
    BY DEF AllNeutral, IsSequence
  <2> QED BY <2>1 DEF IsSequence
<1>3. AllKnown(items) /\ Depths(items, e) /\ e[0] = n /\ e[Len(items)] = n
  BY <1>1, <1>2 DEF AllKnown, Depths
<1> HIDE DEF e
<1>4. n + Effect(s[1]) = n
  OBVIOUS
<1> QED BY <1>3, <1>4, MoreWork

(* The function that is called returns. *)
LEMMA Nothing == AllNeutral(<<>>) /\ Len(<<>>) = 0
<1>1. <<>> \in Seq({})
  OBVIOUS
<1>2. IsSequence(<<>>)
  BY <1>1, Zenon DEF IsSequence
<1> QED BY <1>2 DEF AllNeutral

LEMMA LessWork ==
  ASSUME NEW s, NEW n \in Nat, Work(s, n), s # <<>>
  PROVE  /\ n + Effect(s[1]) \in Nat \ {0}
         /\ Work(<<>> \o Tail(s), n + Effect(s[1]))
<1>1. PICK d : Depths(s, d) /\ d[0] = n
  BY DEF Work
<1>2. Len(s) \in Nat \ {0}
  BY Rest DEF Work, AllKnown
<1>3. 1 \in 1 .. Len(s) /\ 1 \in 0 .. Len(s) /\ 1 - 1 = 0
  BY <1>2
<1>4. n + Effect(s[1]) \in Nat \ {0}
  BY <1>1, <1>3 DEF Depths
<1> DEFINE e == [i \in 0 .. 0 |-> n + Effect(s[1])]
<1>5. AllKnown(<<>>) /\ Depths(<<>>, e) /\ e[0] = n + Effect(s[1])
  BY <1>4, Nothing DEF AllKnown, AllNeutral, Depths
<1> HIDE DEF e
<1> QED BY <1>4, <1>5, Nothing, MoreWork

(* A scope that is entered, and left by an item further on. *)
Scoped(items) ==
  /\ IsSequence(items) /\ Len(items) > 1 /\ items[1] = Do("enterNewScope")
  /\ \E p \in 2 .. Len(items) :
       /\ items[p] = Do("exitOldScope")
       /\ \A i \in 2 .. Len(items) : i # p => Neutral(items[i])

LEMMA ScopedWork ==
  ASSUME NEW s, NEW n \in Nat, n >= 1, Work(s, n), s # <<>>, Effect(s[1]) = 0,
         NEW items, Scoped(items)
  PROVE  Work(items \o Tail(s), n)
<1>1. PICK p \in 2 .. Len(items) :
        /\ items[p] = Do("exitOldScope")
        /\ \A i \in 2 .. Len(items) : i # p => Neutral(items[i])
  BY DEF Scoped
<1>2. Len(items) \in Nat /\ IsSequence(items)
  <2>1. PICK S : items \in Seq(S)
    BY DEF Scoped, IsSequence
  <2> QED BY <2>1 DEF IsSequence
<1> DEFINE e == [i \in 0 .. Len(items) |-> IF 0 < i /\ i < p THEN n + 1 ELSE n]
<1>3. /\ Effect(items[1]) = 1 /\ Known(items[1]) /\ Effect(items[p]) = -1 /\ Known(items[p])
  BY <1>1 DEF Scoped, Effect, Do, Known
<1>4. \A i \in 2 .. Len(items) : i # p => Effect(items[i]) = 0 /\ Known(items[i])
  BY <1>1, NeutralEffect
<1>5. \A i \in 1 .. Len(items) : Known(items[i])
  BY <1>2, <1>3, <1>4
<1>6. ASSUME NEW i \in 1 .. Len(items) PROVE e[i] = e[i - 1] + Effect(items[i]) /\ e[i] >= 1
  <2>1. CASE i = 1
    BY <1>1, <1>2, <1>3, <2>1
  <2>2. CASE i = p
    BY <1>1, <1>2, <1>3, <2>2
  <2>3. CASE i # 1 /\ i # p
    <3>1. Effect(items[i]) = 0
      BY <1>2, <1>4, <2>3
    <3> QED BY <1>1, <1>2, <2>3, <3>1
  <2> QED BY <2>1, <2>2, <2>3
<1>7. e \in [0 .. Len(items) -> Nat] /\ e[0] = n /\ e[Len(items)] = n
  BY <1>1, <1>2
<1>8. AllKnown(items)
  BY <1>2, <1>5 DEF AllKnown
<1> HIDE DEF e
<1>9. Depths(items, e)
  BY <1>6, <1>7 DEF Depths
<1>10. n + Effect(s[1]) = n
  OBVIOUS
<1> QED BY <1>7, <1>8, <1>9, <1>10, MoreWork

-----------------------------------------------------------------------------
(* The items functions are made of. *)
LEMMA ItemKinds ==
  /\ \A f : f \notin {"enterNewScope", "exitOldScope", "if", "while", "operatorTail"} => Plain(Do(f))
  /\ \A types : Plain(Match(types))
  /\ \A type : Plain(Take(type))
  /\ \A kind, name, token : Plain(Construct(kind, name, token))
  /\ \A kind, token : Plain(ConstructUnary(kind, token))
  /\ \A token : Plain(ConstructList(token))
  /\ \A token : Plain(<<"parseComparison", token>>)
  /\ \A type, f : f \in {"parseExpressionTail", "parseTermTail"} => Plain(OperatorTail(type, f))
  /\ \A types, items : AllPlain(items) => Shallow(If(types, items)) /\ Shallow(While(types, items))
  /\ \A types, items : AllShallow(items) => Neutral(If(types, items))
  /\ \A item : Plain(item) => Shallow(item)
  /\ \A item : Shallow(item) => Neutral(item)
<1>1. \A f : f \notin {"enterNewScope", "exitOldScope", "if", "while", "operatorTail"} => Plain(Do(f))
  BY DEF Do, Plain
<1>2. /\ \A types : Plain(Match(types))
      /\ \A type : Plain(Take(type))
      /\ \A kind, name, token : Plain(Construct(kind, name, token))
      /\ \A kind, token : Plain(ConstructUnary(kind, token))
      /\ \A token : Plain(ConstructList(token))
      /\ \A token : Plain(<<"parseComparison", token>>)
  BY DEF Match, Take, Construct, ConstructUnary, ConstructList, Plain
<1>3. \A type, f : f \in {"parseExpressionTail", "parseTermTail"} => Plain(OperatorTail(type, f))
  BY DEF OperatorTail, Plain
<1>4. \A types, items : AllPlain(items) => Shallow(If(types, items)) /\ Shallow(While(types, items))
  BY DEF If, While, Shallow
<1>5. \A types, items : AllShallow(items) => Neutral(If(types, items))
  BY DEF If, Neutral
<1>6. \A item : Plain(item) => Shallow(item)
  BY DEF Shallow
<1>7. \A item : Shallow(item) => Neutral(item)
  BY DEF Neutral
<1> QED BY <1>1, <1>2, <1>3, <1>4, <1>5, <1>6, <1>7

LEMMA One ==
  ASSUME NEW a
  PROVE  /\ Plain(a) => AllPlain(<<a>>)
         /\ Neutral(a) => AllNeutral(<<a>>)
<1>1. <<a>> \in Seq({a})
  OBVIOUS
<1>2. IsSequence(<<a>>)
  BY <1>1, Zenon DEF IsSequence
<1> QED BY <1>2 DEF AllPlain, AllNeutral

LEMMA Two ==
  ASSUME NEW a, NEW b, Neutral(a), Neutral(b)
  PROVE  AllNeutral(<<a, b>>)
<1>1. <<a, b>> \in Seq({a, b})
  OBVIOUS
<1>2. IsSequence(<<a, b>>)
  BY <1>1, Zenon DEF IsSequence
<1> QED BY <1>2 DEF AllNeutral

LEMMA Three ==
  ASSUME NEW a, NEW b, NEW c
  PROVE  /\ Plain(a) /\ Plain(b) /\ Plain(c) => AllPlain(<<a, b, c>>)
         /\ Neutral(a) /\ Neutral(b) /\ Neutral(c) => AllNeutral(<<a, b, c>>)
<1>1. <<a, b, c>> \in Seq({a, b, c})
  OBVIOUS
<1>2. IsSequence(<<a, b, c>>)
  BY <1>1, Zenon DEF IsSequence
<1> QED BY <1>2 DEF AllPlain, AllNeutral

LEMMA Four ==
  ASSUME NEW a, NEW b, NEW c, NEW d
  PROVE  /\ Plain(a) /\ Plain(b) /\ Plain(c) /\ Plain(d) => AllPlain(<<a, b, c, d>>)
         /\ Neutral(a) /\ Neutral(b) /\ Neutral(c) /\ Neutral(d) => AllNeutral(<<a, b, c, d>>)
<1>1. <<a, b, c, d>> \in Seq({a, b, c, d})
  OBVIOUS
<1>2. IsSequence(<<a, b, c, d>>)
  BY <1>1, Zenon DEF IsSequence
<1> QED BY <1>2 DEF AllPlain, AllNeutral

LEMMA FivePlain ==
  ASSUME NEW a, NEW b, NEW c, NEW d, NEW e, Plain(a), Plain(b), Plain(c), Plain(d), Plain(e)
  PROVE  AllPlain(<<a, b, c, d, e>>)
<1>1. <<a, b, c, d, e>> \in Seq({a, b, c, d, e})
  OBVIOUS
<1>2. IsSequence(<<a, b, c, d, e>>)
  BY <1>1, Zenon DEF IsSequence
<1> QED BY <1>2 DEF AllPlain

LEMMA Five ==
  ASSUME NEW a, NEW b, NEW c, NEW d, NEW e
  PROVE  /\ Shallow(a) /\ Shallow(b) /\ Shallow(c) /\ Shallow(d) /\ Shallow(e) => AllShallow(<<a, b, c, d, e>>)
         /\ Neutral(a) /\ Neutral(b) /\ Neutral(c) /\ Neutral(d) /\ Neutral(e) => AllNeutral(<<a, b, c, d, e>>)
<1>1. <<a, b, c, d, e>> \in Seq({a, b, c, d, e})
  OBVIOUS
<1>2. IsSequence(<<a, b, c, d, e>>)
  BY <1>1, Zenon DEF IsSequence
<1> QED BY <1>2 DEF AllShallow, AllNeutral

LEMMA Six ==
  ASSUME NEW a, NEW b, NEW c, NEW d, NEW e, NEW f,
         Neutral(a), Neutral(b), Neutral(c), Neutral(d), Neutral(e), Neutral(f)
  PROVE  AllNeutral(<<a, b, c, d, e, f>>)
<1>1. <<a, b, c, d, e, f>> \in Seq({a, b, c, d, e, f})
  OBVIOUS
<1>2. IsSequence(<<a, b, c, d, e, f>>)
  BY <1>1, Zenon DEF IsSequence
<1> QED BY <1>2 DEF AllNeutral

LEMMA NeutralJoin ==
  ASSUME NEW s, NEW t
  PROVE  /\ AllNeutral(s) /\ AllNeutral(t) => AllNeutral(s \o t)
         /\ AllPlain(s) /\ AllPlain(t) => AllPlain(s \o t)
<1> SUFFICES ASSUME IsSequence(s), IsSequence(t)
             PROVE  /\ AllNeutral(s) /\ AllNeutral(t) => AllNeutral(s \o t)
                    /\ AllPlain(s) /\ AllPlain(t) => AllPlain(s \o t)
  BY DEF AllNeutral, AllPlain
<1>1. /\ IsSequence(s \o t) /\ Len(s \o t) = Len(s) + Len(t) /\ Len(s) \in Nat /\ Len(t) \in Nat
      /\ \A i \in 1 .. Len(s) : (s \o t)[i] = s[i]
      /\ \A i \in 1 .. Len(t) : (s \o t)[Len(s) + i] = t[i]
  BY Joined
<1>2. \A i \in 1 .. Len(s \o t) : i \in 1 .. Len(s) \/ (i - Len(s) \in 1 .. Len(t) /\ (s \o t)[i] = t[i - Len(s)])
  <2> SUFFICES ASSUME NEW i \in 1 .. Len(s \o t), i > Len(s)
               PROVE  i - Len(s) \in 1 .. Len(t) /\ (s \o t)[i] = t[i - Len(s)]
    BY <1>1
  <2>1. i - Len(s) \in 1 .. Len(t) /\ Len(s) + (i - Len(s)) = i
    BY <1>1
  <2> QED BY <1>1, <2>1
<1>3. AllNeutral(s) /\ AllNeutral(t) => AllNeutral(s \o t)
  BY <1>1, <1>2 DEF AllNeutral
<1>4. AllPlain(s) /\ AllPlain(t) => AllPlain(s \o t)
  BY <1>1, <1>2 DEF AllPlain
<1> QED BY <1>3, <1>4

(* Append is joining with one item. *)
LEMMA Appended ==
  ASSUME NEW s, NEW item, AllNeutral(s), Neutral(item) PROVE AllNeutral(Append(s, item))
<1>1. PICK S : s \in Seq(S)
  BY DEF AllNeutral, IsSequence
<1>2. Append(s, item) \in Seq(S \union {item})
  BY <1>1
<1>3. \A i \in 1 .. Len(Append(s, item)) : Neutral(Append(s, item)[i])
  BY <1>1 DEF AllNeutral
<1> QED BY <1>2, <1>3 DEF AllNeutral, IsSequence

-----------------------------------------------------------------------------
(* The invariant. *)
EntryTypes == {"ST_VARIABLE", "ST_LITERAL", "ST_FUNCTION"}

IsTable(table) == table = [enclosingScope |-> table.enclosingScope, symbolTable |-> table.symbolTable]

(* A table is made inside an older one, and binds names to entries. *)
GoodTables(ts) ==
  /\ IsSequence(ts) /\ Len(ts) > 0
  /\ \A t \in 1 .. Len(ts) :
       /\ IsTable(ts[t])
       /\ ts[t].enclosingScope \in 0 .. t - 1
       /\ \A name \in DOMAIN ts[t].symbolTable : ts[t].symbolTable[name].entry_type \in EntryTypes

(* The open scopes lie inside one another. *)
GoodScopes(open, ts) ==
  /\ open # <<>> /\ open \in Seq(1 .. Len(ts))
  /\ open[1] = 1 /\ ts[1].enclosingScope = NoTable
  /\ \A i \in 2 .. Len(open) : ts[open[i]].enclosingScope = open[i - 1]

Tokens ==
  /\ tokens # <<>> /\ tokens \in Seq(Token)
  /\ current_token \in 0 .. Len(tokens)

Phases ==
  /\ phase \in {"parsing", "parsed", "rejected", "died"}
  /\ phase = "parsing" => Work(todo, Len(scopes))
  /\ phase = "parsed" => Len(scopes) = 1
  /\ phase = "died" => Head(todo) # Do("exitOldScope")

IInv == Tokens /\ GoodTables(tables) /\ GoodScopes(scopes, tables) /\ Phases

(* The scope on top of the stack is a table. *)
LEMMA TopScope ==
  ASSUME NEW ts, NEW open, GoodTables(ts), GoodScopes(open, ts)
  PROVE  /\ Len(open) \in Nat \ {0} /\ Len(ts) \in Nat \ {0}
         /\ Last(open) \in 1 .. Len(ts)
<1>1. Len(ts) \in Nat
  BY DEF GoodTables, IsSequence
<1>2. open \in Seq(1 .. Len(ts)) /\ open # <<>>
  BY DEF GoodScopes
<1>3. Len(open) \in Nat \ {0}
  BY <1>2
<1> QED BY <1>1, <1>2, <1>3 DEF GoodTables, Last

(* Binding a name makes a good table of a good one. *)
LEMMA GoodInsert ==
  ASSUME NEW ts, NEW open, GoodTables(ts), GoodScopes(open, ts),
         NEW name, NEW entry, entry.entry_type \in EntryTypes
  PROVE  GoodTables(insert(ts, Last(open), name, entry)) /\ GoodScopes(open, insert(ts, Last(open), name, entry))
<1> DEFINE top == Last(open)
           changed == [ts[top] EXCEPT !.symbolTable = Bound(@, name, entry)]
           new == [ts EXCEPT ![top] = changed]
<1>1. top \in 1 .. Len(ts) /\ Len(ts) \in Nat \ {0}
  BY TopScope
<1>2. PICK S : ts \in Seq(S)
  BY DEF GoodTables, IsSequence
<1>3. IsTable(ts[top])
  BY <1>1 DEF GoodTables
<1>4. /\ changed.enclosingScope = ts[top].enclosingScope
      /\ changed.symbolTable = Bound(ts[top].symbolTable, name, entry)
      /\ IsTable(changed)
  BY <1>3 DEF IsTable
<1>5. \A n \in DOMAIN changed.symbolTable : changed.symbolTable[n].entry_type \in EntryTypes
  <2>1. \A n \in DOMAIN ts[top].symbolTable : ts[top].symbolTable[n].entry_type \in EntryTypes
    BY <1>1 DEF GoodTables
  <2> QED BY <1>4, <2>1 DEF Bound
<1>6. insert(ts, Last(open), name, entry) = new
  BY DEF insert
<1> HIDE DEF changed, top
<1>7. /\ new \in Seq(S \union {changed}) /\ Len(new) = Len(ts)
      /\ new[top] = changed
      /\ \A t \in 1 .. Len(ts) : t # top => new[t] = ts[t]
  BY <1>1, <1>2
<1> HIDE DEF new
<1>8. IsSequence(new)
  BY <1>7, Zenon DEF IsSequence
<1>9. \A t \in 1 .. Len(ts) : new[t].enclosingScope = ts[t].enclosingScope
  BY <1>4, <1>7 DEF top
<1>10. GoodTables(new)
  <2> SUFFICES ASSUME NEW t \in 1 .. Len(new)
               PROVE  /\ IsTable(new[t])
                      /\ new[t].enclosingScope \in 0 .. t - 1
                      /\ \A n \in DOMAIN new[t].symbolTable : new[t].symbolTable[n].entry_type \in EntryTypes
    BY <1>1, <1>7, <1>8 DEF GoodTables
  <2>1. CASE t = top
    <3>1. new[t].enclosingScope \in 0 .. t - 1
      BY <1>7, <1>9 DEF GoodTables
    <3> QED BY <1>4, <1>5, <1>7, <2>1, <3>1
  <2>2. CASE t # top
    BY <1>7, <2>2 DEF GoodTables
  <2> QED BY <2>1, <2>2
<1>11. GoodScopes(open, new)
  <2>1. \A i \in 2 .. Len(open) : open[i] \in 1 .. Len(ts)
    BY DEF GoodScopes
  <2>2. open # <<>> /\ open \in Seq(1 .. Len(new)) /\ open[1] = 1
    BY <1>7 DEF GoodScopes
  <2>3. new[1].enclosingScope = NoTable
    BY <1>1, <1>9 DEF GoodScopes
  <2>4. \A i \in 2 .. Len(open) : new[open[i]].enclosingScope = open[i - 1]
    BY <1>9, <2>1 DEF GoodScopes
  <2> QED BY <2>2, <2>3, <2>4 DEF GoodScopes
<1> QED BY <1>6, <1>10, <1>11

-----------------------------------------------------------------------------
(* What a step does.  It stops the compiler, not at the end of a scope, ... *)
Stops ==
  /\ phase' \in {"rejected", "died"}
  /\ UNCHANGED <<tokens, current_token, todo, values, tables, scopes>>
  /\ phase' = "died" => Head(todo) # Do("exitOldScope")

ReadsOn == current_token' = current_token \/ current_token' = Following

(* ... or goes on with these items, and may bind a name on the way. *)
KeepsScopes ==
  /\ scopes' = scopes
  /\ \/ tables' = tables
     \/ \E name, entry : entry.entry_type \in EntryTypes /\ inserts(name, entry)

GoesOn(items) ==
  /\ phase = "parsing" /\ todo # <<>> /\ Effect(Head(todo)) = 0
  /\ phase' = phase /\ tokens' = tokens /\ ReadsOn
  /\ KeepsScopes
  /\ Runs(items)

LEMMA StopStep ==
  ASSUME IInv, Stops PROVE IInv'
BY DEF IInv, Stops, Tokens, GoodTables, GoodScopes, Phases, IsSequence, IsTable

LEMMA ReadStep ==
  ASSUME Tokens, tokens' = tokens, ReadsOn PROVE Tokens'
<1>1. Len(tokens) \in Nat \ {0} /\ current_token \in 0 .. Len(tokens)
  BY DEF Tokens
<1>2. current_token' \in 0 .. Len(tokens)
  BY <1>1 DEF ReadsOn, Following
<1> QED BY <1>2 DEF Tokens

LEMMA ScopesStep ==
  ASSUME GoodTables(tables), GoodScopes(scopes, tables), KeepsScopes
  PROVE  GoodTables(tables') /\ GoodScopes(scopes', tables')
<1>1. CASE tables' = tables
  BY <1>1 DEF KeepsScopes
<1>2. ASSUME NEW name, NEW entry, entry.entry_type \in EntryTypes, inserts(name, entry)
      PROVE  GoodTables(tables') /\ GoodScopes(scopes', tables')
  <2>1. tables' = insert(tables, Last(scopes), name, entry)
    BY <1>2 DEF inserts, currentScope
  <2>2. GoodTables(insert(tables, Last(scopes), name, entry))
        /\ GoodScopes(scopes, insert(tables, Last(scopes), name, entry))
    BY <1>2, GoodInsert
  <2>3. scopes' = scopes
    BY DEF KeepsScopes
  <2> QED BY <2>1, <2>2, <2>3
<1> QED BY <1>1, <1>2 DEF KeepsScopes

LEMMA WorkAhead ==
  ASSUME IInv, phase = "parsing", todo # <<>>
  PROVE  /\ Work(todo, Len(scopes)) /\ Head(todo) = todo[1] /\ Known(todo[1])
         /\ Len(scopes) \in Nat \ {0}
<1>1. Work(todo, Len(scopes)) /\ GoodTables(tables) /\ GoodScopes(scopes, tables)
  BY DEF IInv, Phases
<1>2. IsSequence(todo) /\ \A i \in 1 .. Len(todo) : Known(todo[i])
  BY <1>1 DEF Work, AllKnown
<1>3. Head(todo) = todo[1] /\ Len(todo) \in Nat \ {0}
  BY <1>2, Rest
<1>4. Known(todo[1])
  BY <1>2, <1>3
<1>5. Len(scopes) \in Nat \ {0}
  BY <1>1, TopScope
<1> QED BY <1>1, <1>3, <1>4, <1>5

LEMMA GoStep ==
  ASSUME IInv, NEW items, GoesOn(items), AllNeutral(items) \/ Scoped(items)
  PROVE  IInv'
<1>1. Work(todo, Len(scopes)) /\ Effect(todo[1]) = 0 /\ todo # <<>> /\ Len(scopes) \in Nat \ {0}
  BY WorkAhead DEF GoesOn
<1>2. Work(items \o Tail(todo), Len(scopes))
  BY <1>1, NeutralWork, ScopedWork
<1>3. todo' = items \o Tail(todo) /\ scopes' = scopes /\ phase' = "parsing"
  BY DEF GoesOn, Runs, KeepsScopes
<1>4. Work(todo', Len(scopes'))
  BY <1>2, <1>3
<1>5. Work(todo, Len(scopes))'
  BY <1>4 DEF Work, AllKnown, IsSequence, Known, Neutral, Shallow, AllShallow, Plain, AllPlain, Depths, Effect
<1>6. Tokens'
  BY ReadStep DEF IInv, GoesOn
<1>7. GoodTables(tables') /\ GoodScopes(scopes', tables')
  BY ScopesStep DEF IInv, GoesOn
<1>8. GoodTables(tables)' /\ GoodScopes(scopes, tables)'
  BY <1>7 DEF GoodTables, GoodScopes, IsSequence, IsTable
<1> QED BY <1>3, <1>5, <1>6, <1>8 DEF IInv, Phases

-----------------------------------------------------------------------------
(* What the functions add to what is to do. *)
LEMMA NeutralItems ==
  /\ \A f : f \notin {"enterNewScope", "exitOldScope", "if", "while", "operatorTail"} => Neutral(Do(f))
  /\ \A types : Neutral(Match(types))
  /\ \A type : Neutral(Take(type))
  /\ \A kind, name, token : Neutral(Construct(kind, name, token))
  /\ \A kind, token : Neutral(ConstructUnary(kind, token))
  /\ \A token : Neutral(ConstructList(token))
  /\ \A token : Neutral(<<"parseComparison", token>>)
  /\ \A type, f : f \in {"parseExpressionTail", "parseTermTail"} => Neutral(OperatorTail(type, f))
  /\ \A types, items : AllPlain(items) => Neutral(If(types, items)) /\ Neutral(While(types, items))
  /\ \A types, items : AllShallow(items) => Neutral(If(types, items))
BY ItemKinds

LEMMA DeclarationItems ==
  /\ AllNeutral(Declarations)
  /\ AllNeutral(Body)
  /\ Neutral(While("PROCEDURE_KEYWORD", <<Do("parseProcedure")>>))
  /\ AllPlain(Constant) /\ AllNeutral(Constant)
  /\ AllPlain(Variable) /\ AllNeutral(Variable)
  /\ AllPlain(Argument) /\ AllNeutral(Argument)
<1>1. \A f : f \in {"parseConstDeclarations", "parseVarDeclarations", "parseProcedure"} => AllPlain(<<Do(f)>>)
  BY ItemKinds, One
<1>2. AllNeutral(Declarations)
  BY <1>1, NeutralItems, Two DEF Declarations
<1>3. AllNeutral(Body)
  BY NeutralItems, Three DEF Body
<1>4. Neutral(While("PROCEDURE_KEYWORD", <<Do("parseProcedure")>>))
  BY <1>1, NeutralItems
<1>5. AllPlain(Constant) /\ AllNeutral(Constant)
  BY ItemKinds, NeutralItems, FivePlain, Five DEF Constant
<1>6. AllPlain(Variable) /\ AllNeutral(Variable)
  BY ItemKinds, NeutralItems, Three DEF Variable
<1>7. AllPlain(Argument) /\ AllNeutral(Argument)
  BY ItemKinds, NeutralItems, Three DEF Argument
<1> QED BY <1>2, <1>3, <1>4, <1>5, <1>6, <1>7

(* A scope of its own is for a procedure ... *)
ProcedureItems ==
  <<Do("enterNewScope"), Match({"PROCEDURE_KEYWORD"}), Take("IDENTIFIER"), Do("noPrototype"),
    If({"LEFT_PAREN"}, <<Match({"LEFT_PAREN"}), Do("parseArguments"), Match({"RIGHT_PAREN"})>>),
    If({"INT_TYPE_KEYWORD", "FLOAT_TYPE_KEYWORD"}, <<Do("parseType"), Take("IDENTIFIER"), Do("declareReturn")>>),
    Match({"SEMICOLON"}), Do("parseBlock"), Match({"SEMICOLON"}),
    Do("exitOldScope"), Do("declareProcedure")>>

LEMMA ProcedureScoped == Scoped(ProcedureItems)
<1>1. IsSequence(ProcedureItems) /\ Len(ProcedureItems) = 11
  <2>1. PICK S : ProcedureItems \in Seq(S)
    <3> DEFINE S == {ProcedureItems[i] : i \in 1 .. 11}
    <3>1. ProcedureItems \in Seq(S)
      BY DEF ProcedureItems
    <3> QED BY <3>1, Zenon
  <2>2. Len(ProcedureItems) = 11
    BY DEF ProcedureItems
  <2> QED BY <2>1, <2>2, Zenon DEF IsSequence
<1>2. AllPlain(<<Match({"LEFT_PAREN"}), Do("parseArguments"), Match({"RIGHT_PAREN"})>>)
  BY ItemKinds, Three
<1>3. AllPlain(<<Do("parseType"), Take("IDENTIFIER"), Do("declareReturn")>>)
  BY ItemKinds, Three
<1>4. /\ Neutral(ProcedureItems[2]) /\ Neutral(ProcedureItems[3]) /\ Neutral(ProcedureItems[4])
      /\ Neutral(ProcedureItems[7]) /\ Neutral(ProcedureItems[8]) /\ Neutral(ProcedureItems[9])
      /\ Neutral(ProcedureItems[11])
  BY NeutralItems DEF ProcedureItems
<1>5. Neutral(ProcedureItems[5]) /\ Neutral(ProcedureItems[6])
  BY <1>2, <1>3, NeutralItems DEF ProcedureItems
<1>6. ProcedureItems[1] = Do("enterNewScope") /\ ProcedureItems[10] = Do("exitOldScope")
  BY DEF ProcedureItems
<1>7. \A i \in 2 .. 11 : i # 10 => Neutral(ProcedureItems[i])
  BY <1>4, <1>5
<1> QED BY <1>1, <1>6, <1>7 DEF Scoped

(* ... and for what is between begin and end. *)
LEMMA SequenceScoped == Scoped(Sequence)
<1>1. IsSequence(Sequence) /\ Len(Sequence) = 9
  <2>1. PICK S : Sequence \in Seq(S)
    <3> DEFINE S == {Sequence[i] : i \in 1 .. 9}
    <3>1. Sequence \in Seq(S)
      BY DEF Sequence
    <3> QED BY <3>1, Zenon
  <2>2. Len(Sequence) = 9
    BY DEF Sequence
  <2> QED BY <2>1, <2>2, Zenon DEF IsSequence
<1>2. AllPlain(<<Match({"SEMICOLON"}), Do("parseStatement"), Do("addStatement")>>)
  BY ItemKinds, Three
<1>3. /\ Neutral(Sequence[2]) /\ Neutral(Sequence[3]) /\ Neutral(Sequence[4]) /\ Neutral(Sequence[5])
      /\ Neutral(Sequence[7]) /\ Neutral(Sequence[8])
  BY NeutralItems DEF Sequence
<1>4. Neutral(Sequence[6])
  BY <1>2, NeutralItems DEF Sequence
<1>5. Sequence[1] = Do("enterNewScope") /\ Sequence[9] = Do("exitOldScope")
  BY DEF Sequence
<1>6. \A i \in 2 .. 9 : i # 9 => Neutral(Sequence[i])
  BY <1>3, <1>4
<1> QED BY <1>1, <1>5, <1>6 DEF Scoped

LEMMA StatementItems ==
  /\ AllNeutral(Assignment) /\ AllNeutral(Writing) /\ AllNeutral(Reading) /\ AllNeutral(CallOf)
  /\ \A keyword, afterwards, kind : AllNeutral(Conditional(keyword, afterwards, kind))
<1>1. AllNeutral(Assignment)
  BY NeutralItems, Four DEF Assignment, Expression
<1>2. AllNeutral(Writing) /\ AllNeutral(Reading)
  BY NeutralItems, Three DEF Writing, Reading, Expression
<1>3. AllNeutral(CallOf)
  <2> DEFINE More == While("COMMA", <<Match({"COMMA"}), Expression, Do("addChild")>>)
             Given == <<Match({"LEFT_PAREN"}), Expression, Do("addChild"), More, Match({"RIGHT_PAREN"})>>
  <2>1. AllPlain(<<Match({"COMMA"}), Expression, Do("addChild")>>)
    BY ItemKinds, Three DEF Expression
  <2>2. Shallow(More)
    BY <2>1, ItemKinds
  <2> HIDE DEF More
  <2>3. Shallow(Match({"LEFT_PAREN"})) /\ Shallow(Expression) /\ Shallow(Do("addChild")) /\ Shallow(Match({"RIGHT_PAREN"}))
    BY ItemKinds DEF Expression
  <2>4. AllShallow(Given)
    BY <2>2, <2>3, Five
  <2> HIDE DEF Given
  <2>5. AllNeutral(<<Match({"CALL_KEYWORD"}), Take("IDENTIFIER"), Do("noArguments"), If({"LEFT_PAREN"}, Given), Do("constructCall")>>)
    BY <2>4, NeutralItems, Five
  <2> QED BY <2>5 DEF Given, More, CallOf
<1>4. ASSUME NEW keyword, NEW afterwards, NEW kind PROVE AllNeutral(Conditional(keyword, afterwards, kind))
  BY NeutralItems, Six DEF Conditional
<1> QED BY <1>1, <1>2, <1>3, <1>4

-----------------------------------------------------------------------------
(* Each function does one of the two. *)
GoesOnFairly == \E items : GoesOn(items) /\ (AllNeutral(items) \/ Scoped(items))

LEMMA CallEffect ==
  ASSUME NEW f, Calls(f), f \notin {"enterNewScope", "exitOldScope"}
  PROVE  /\ phase = "parsing" /\ todo # <<>>
         /\ Effect(Head(todo)) = 0 /\ Head(todo) # Do("exitOldScope")
BY DEF Calls, Effect, Do

LEMMA Mismatch ==
  ASSUME raiseMismatchError PROVE Stops
BY DEF raiseMismatchError, Stops

(* Going on with neutral items, and no name bound. *)
LEMMA Continues ==
  ASSUME NEW f, Calls(f), f \notin {"enterNewScope", "exitOldScope"},
         NEW items, AllNeutral(items) \/ Scoped(items), Runs(items),
         KeepsTables, ReadsOn
  PROVE  GoesOnFairly
<1>1. GoesOn(items)
  BY CallEffect DEF GoesOn, KeepsScopes, KeepsTables
<1> QED BY <1>1 DEF GoesOnFairly

(* Returning, with a name bound. *)
LEMMA Binds ==
  ASSUME NEW f, Calls(f), f \notin {"enterNewScope", "exitOldScope"},
         NEW name, NEW entry, entry.entry_type \in EntryTypes, inserts(name, entry), Runs(<<>>),
         UNCHANGED <<phase, tokens, scopes>>, ReadsOn
  PROVE  GoesOnFairly
<1>1. KeepsScopes
  BY DEF KeepsScopes
<1>2. GoesOn(<<>>)
  BY <1>1, CallEffect DEF GoesOn
<1> QED BY <1>2, Nothing DEF GoesOnFairly

LEMMA Entries ==
  /\ \A type, isConstant, value, token : VariableEntry(type, isConstant, value, token).entry_type \in EntryTypes
  /\ \A type, value, token : LiteralEntry(type, value, token).entry_type \in EntryTypes
  /\ \A argumentTypes, returnType : FunctionEntry(argumentTypes, returnType).entry_type \in EntryTypes
  /\ \A type, token : Changeable(type, token).entry_type \in EntryTypes
BY DEF VariableEntry, LiteralEntry, FunctionEntry, Changeable, EntryTypes

(* The functions that only put trees together, or take a token. *)
LEMMA ReturnSteps ==
  ASSUME \/ tryMatchTerminal \/ takeToken \/ constructTree \/ constructUnaryTree \/ constructListTree
         \/ addChild \/ addStatement \/ expectBody \/ noPrototype \/ noArguments \/ constructCall \/ constructElement
  PROVE  Stops \/ GoesOnFairly
<1>1. CASE raiseMismatchError
  BY <1>1, Mismatch
<1>2. ASSUME NEW f, Calls(f), f \notin {"enterNewScope", "exitOldScope"}, Runs(<<>>), KeepsTables, ReadsOn
      PROVE  GoesOnFairly
  BY <1>2, Nothing, Continues
<1>3. CASE tryMatchTerminal
  BY <1>1, <1>2, <1>3 DEF tryMatchTerminal, ReadsOn, getNextToken, KeepsTables, KeepsAll
<1>4. CASE takeToken
  BY <1>1, <1>2, <1>4 DEF takeToken, ReadsOn, getNextToken, KeepsTables, KeepsAll
<1>5. CASE constructTree
  BY <1>1, <1>2, <1>5 DEF constructTree, ReadsOn, getNextToken, KeepsTables, KeepsAll
<1>6. CASE constructUnaryTree
  BY <1>1, <1>2, <1>6 DEF constructUnaryTree, ReadsOn, getNextToken, KeepsTables, KeepsAll
<1>7. CASE constructListTree
  BY <1>1, <1>2, <1>7 DEF constructListTree, ReadsOn, getNextToken, KeepsTables, KeepsAll
<1>8. CASE addChild
  BY <1>1, <1>2, <1>8 DEF addChild, ReadsOn, getNextToken, KeepsTables, KeepsAll
<1>9. CASE addStatement
  BY <1>1, <1>2, <1>9 DEF addStatement, ReadsOn, getNextToken, KeepsTables, KeepsAll
<1>10. CASE expectBody
  BY <1>1, <1>2, <1>10 DEF expectBody, ReadsOn, getNextToken, KeepsTables, KeepsAll
<1>11. CASE noPrototype
  BY <1>1, <1>2, <1>11 DEF noPrototype, ReadsOn, getNextToken, KeepsTables, KeepsAll
<1>12. CASE noArguments
  BY <1>1, <1>2, <1>12 DEF noArguments, ReadsOn, getNextToken, KeepsTables, KeepsAll
<1>13. CASE constructCall
  BY <1>1, <1>2, <1>13 DEF constructCall, ReadsOn, getNextToken, KeepsTables, KeepsAll
<1>14. CASE constructElement
  BY <1>1, <1>2, <1>14 DEF constructElement, ReadsOn, getNextToken, KeepsTables, KeepsAll
<1> QED BY <1>3, <1>4, <1>5, <1>6, <1>7, <1>8, <1>9, <1>10, <1>11, <1>12, <1>13, <1>14

(* The functions whose items are those of the item that is done. *)
LEMMA ChoiceSteps ==
  ASSUME IInv, IfNext \/ WhileNext \/ operatorTail
  PROVE  GoesOnFairly
<1>1. \A items : AllPlain(items) \/ AllShallow(items) => AllNeutral(items)
  BY ItemKinds DEF AllPlain, AllShallow, AllNeutral
<1>2. phase = "parsing" /\ todo # <<>>
  BY DEF IfNext, WhileNext, operatorTail, Calls
<1>3. Known(Head(todo))
  BY <1>2, WorkAhead
<1>4. CASE IfNext
  <2>1. Calls("if") /\ KeepsTables /\ ReadsOn
    BY <1>4 DEF IfNext, KeepsAll, ReadsOn
  <2>2. AllNeutral(Head(todo)[3])
    BY <1>1, <1>3, <2>1 DEF Calls, Known, Neutral, Shallow, Plain
  <2>3. AllNeutral(IF Peek \in Head(todo)[2] THEN Head(todo)[3] ELSE <<>>)
    BY <2>2, Nothing
  <2> QED BY <1>4, <2>1, <2>3, Continues DEF IfNext
<1>5. CASE WhileNext
  <2>1. Calls("while") /\ KeepsTables /\ ReadsOn
    BY <1>5 DEF WhileNext, KeepsAll, ReadsOn
  <2>2. AllNeutral(Head(todo)[3]) /\ Neutral(Head(todo))
    BY <1>1, <1>3, <2>1 DEF Calls, Known, Neutral, Shallow, Plain
  <2>3. AllNeutral(IF Peek = Head(todo)[2] THEN Append(Head(todo)[3], Head(todo)) ELSE <<>>)
    BY <2>2, Appended, Nothing
  <2> QED BY <1>5, <2>1, <2>3, Continues DEF WhileNext
<1>6. CASE operatorTail
  <2>1. Calls("operatorTail") /\ KeepsTables /\ ReadsOn
    BY <1>6 DEF operatorTail, KeepsAll, ReadsOn
  <2>2. Head(todo)[3] \in {"parseExpressionTail", "parseTermTail"}
    BY <1>3, <2>1 DEF Calls, Known, Neutral, Shallow, Plain
  <2>3. Neutral(Do(Head(todo)[3])) /\ Neutral(Construct("binary", OperationOf[peekNextToken.lexeme], Following))
    BY <2>2, NeutralItems
  <2>4. AllNeutral(IF Peek = Head(todo)[2]
                   THEN <<Do(Head(todo)[3]), Construct("binary", OperationOf[peekNextToken.lexeme], Following)>>
                   ELSE <<>>)
    BY <2>3, Two, Nothing
  <2> QED BY <1>6, <2>1, <2>4, Continues DEF operatorTail
<1> QED BY <1>4, <1>5, <1>6

(* The functions that bind a name. *)
LEMMA BindingSteps ==
  ASSUME \/ declareConstant \/ declareVariable \/ declareArgument \/ declareReturn \/ declareProcedure \/ parseLiteral
  PROVE  Stops \/ GoesOnFairly
<1>1. CASE raiseMismatchError
  BY <1>1, Mismatch
<1>2. CASE declareConstant
  BY <1>1, <1>2, Binds, Entries DEF declareConstant, ReadsOn
<1>3. CASE declareVariable
  BY <1>1, <1>3, Binds, Entries DEF declareVariable, ReadsOn
<1>4. CASE declareArgument
  BY <1>1, <1>4, Binds, Entries DEF declareArgument, ReadsOn
<1>5. CASE declareReturn
  BY <1>1, <1>5, Binds, Entries DEF declareReturn, ReadsOn
<1>6. CASE declareProcedure
  BY <1>1, <1>6, Binds, Entries DEF declareProcedure, ReadsOn
<1>7. CASE parseLiteral
  BY <1>1, <1>7, Binds, Entries DEF parseLiteral, ReadsOn, getNextToken
<1> QED BY <1>2, <1>3, <1>4, <1>5, <1>6, <1>7

(* The functions that call others. *)
LEMMA BlockSteps ==
  ASSUME \/ parseProgram \/ parseRootBlock \/ parseBlock
         \/ parseConstDeclarations \/ parseConstDeclarationList
         \/ parseVarDeclarations \/ parseVarDeclarationList
         \/ parseProcedure \/ parseArguments
  PROVE  GoesOnFairly
<1>1. CASE parseProgram
  <2>1. AllNeutral(<<Do("parseRootBlock"), Match({"PERIOD"})>>)
    BY NeutralItems, Two
  <2> QED BY <1>1, <2>1, Continues DEF parseProgram, KeepsAll, ReadsOn
<1>2. CASE parseRootBlock
  <2>1. AllNeutral(Declarations \o <<While("PROCEDURE_KEYWORD", <<Do("parseProcedure")>>)>> \o Body)
    BY DeclarationItems, One, NeutralJoin
  <2> QED BY <1>2, <2>1, Continues DEF parseRootBlock, ReadsOn
<1>3. CASE parseBlock
  <2>1. AllNeutral(Declarations \o Body)
    BY DeclarationItems, NeutralJoin
  <2> QED BY <1>3, <2>1, Continues DEF parseBlock, ReadsOn
<1>4. CASE parseConstDeclarations
  <2>1. AllPlain(<<Do("parseConstDeclarationList")>>) /\ AllNeutral(<<Match({"CONST_KEYWORD"})>>)
    BY ItemKinds, NeutralItems, One
  <2>2. AllNeutral(<<While("COMMA", <<Do("parseConstDeclarationList")>>), Match({"SEMICOLON"})>>)
    BY <2>1, NeutralItems, Two
  <2>3. AllNeutral(<<Match({"CONST_KEYWORD"})>> \o Constant
                     \o <<While("COMMA", <<Do("parseConstDeclarationList")>>), Match({"SEMICOLON"})>>)
    BY <2>1, <2>2, DeclarationItems, NeutralJoin
  <2> QED BY <1>4, <2>3, Continues DEF parseConstDeclarations, KeepsAll, ReadsOn
<1>5. CASE parseConstDeclarationList
  <2>1. AllNeutral(<<Match({"COMMA"})>>)
    BY NeutralItems, One
  <2>2. AllNeutral(<<Match({"COMMA"})>> \o Constant)
    BY <2>1, DeclarationItems, NeutralJoin
  <2> QED BY <1>5, <2>2, Continues DEF parseConstDeclarationList, KeepsAll, ReadsOn
<1>6. CASE parseVarDeclarations
  <2>1. AllPlain(<<Do("parseVarDeclarationList")>>) /\ AllNeutral(<<Match({"VAR_KEYWORD"})>>)
    BY ItemKinds, NeutralItems, One
  <2>2. AllNeutral(<<While("COMMA", <<Do("parseVarDeclarationList")>>), Match({"SEMICOLON"})>>)
    BY <2>1, NeutralItems, Two
  <2>3. AllNeutral(<<Match({"VAR_KEYWORD"})>> \o Variable
                     \o <<While("COMMA", <<Do("parseVarDeclarationList")>>), Match({"SEMICOLON"})>>)
    BY <2>1, <2>2, DeclarationItems, NeutralJoin
  <2> QED BY <1>6, <2>3, Continues DEF parseVarDeclarations, KeepsAll, ReadsOn
<1>7. CASE parseVarDeclarationList
  <2>1. AllNeutral(<<Match({"COMMA"})>>)
    BY NeutralItems, One
  <2>2. AllNeutral(<<Match({"COMMA"})>> \o Variable)
    BY <2>1, DeclarationItems, NeutralJoin
  <2> QED BY <1>7, <2>2, Continues DEF parseVarDeclarationList, KeepsAll, ReadsOn
<1>8. CASE parseProcedure
  <2>1. Runs(ProcedureItems)
    BY <1>8 DEF parseProcedure, ProcedureItems
  <2> QED BY <1>8, <2>1, ProcedureScoped, Continues DEF parseProcedure, KeepsAll, ReadsOn
<1>9. CASE parseArguments
  <2>1. AllPlain(<<Match({"COMMA"})>>)
    BY ItemKinds, One
  <2>2. AllPlain(<<Match({"COMMA"})>> \o Argument)
    BY <2>1, DeclarationItems, NeutralJoin
  <2>3. AllNeutral(Append(Argument, While("COMMA", <<Match({"COMMA"})>> \o Argument)))
    BY <2>2, DeclarationItems, NeutralItems, Appended
  <2> QED BY <1>9, <2>3, Continues DEF parseArguments, KeepsAll, ReadsOn
<1> QED BY <1>1, <1>2, <1>3, <1>4, <1>5, <1>6, <1>7, <1>8, <1>9

LEMMA StatementSteps ==
  ASSUME parseStatement \/ parseCondition \/ parseComparison
  PROVE  Stops \/ GoesOnFairly
<1>1. CASE parseStatement
  <2>1. \A items : Runs(items) /\ (AllNeutral(items) \/ Scoped(items)) /\ KeepsTables /\ UNCHANGED current_token
                    => GoesOnFairly
    BY <1>1, Continues DEF parseStatement, ReadsOn
  <2> QED BY <1>1, <2>1, StatementItems, SequenceScoped, Nothing DEF parseStatement, KeepsAll
<1>2. CASE parseCondition
  <2>1. /\ AllNeutral(<<Match({"ODD_OP"}), Expression, ConstructUnary("odd", Following)>>)
        /\ AllNeutral(<<Expression, <<"parseComparison", Following>>>>)
    BY NeutralItems, Two, Three DEF Expression
  <2> QED BY <1>2, <2>1, Continues DEF parseCondition, KeepsAll, ReadsOn
<1>3. CASE parseComparison
  <2>1. AllNeutral(<<Expression, Construct("binary", OperationOf[peekNextToken.lexeme], Head(todo)[2])>>)
    BY NeutralItems, Two DEF Expression
  <2> QED BY <1>3, <2>1, Continues, Mismatch DEF parseComparison, getNextToken, ReadsOn
<1> QED BY <1>1, <1>2, <1>3

LEMMA ExpressionSteps ==
  ASSUME \/ parseExpression \/ parseExpressionTail \/ parseTerm \/ parseTermTail
         \/ parseFactor \/ parseNumber \/ parseVariable
  PROVE  Stops \/ GoesOnFairly
<1>1. AllPlain(<<Match({"ADD_OP"})>>)
  BY ItemKinds, One
<1>2. CASE parseExpression
  <2>1. AllNeutral(<<If({"ADD_OP"}, <<Match({"ADD_OP"})>>), Do("parseTerm"), OperatorTail("ADD_OP", "parseExpressionTail")>>)
    BY <1>1, NeutralItems, Three
  <2> QED BY <1>2, <2>1, Continues DEF parseExpression, KeepsAll, ReadsOn
<1>3. CASE parseExpressionTail
  <2>1. AllNeutral(<<Match({"ADD_OP"}), Do("parseTerm"), OperatorTail("ADD_OP", "parseExpressionTail")>>)
    BY NeutralItems, Three
  <2> QED BY <1>3, <2>1, Continues DEF parseExpressionTail, KeepsAll, ReadsOn
<1>4. CASE parseTerm
  <2>1. AllNeutral(<<Do("parseFactor"), OperatorTail("MUL_OP", "parseTermTail")>>)
    BY NeutralItems, Two
  <2> QED BY <1>4, <2>1, Continues DEF parseTerm, KeepsAll, ReadsOn
<1>5. CASE parseTermTail
  <2>1. AllNeutral(<<Match({"MUL_OP"}), Do("parseFactor"), OperatorTail("MUL_OP", "parseTermTail")>>)
    BY NeutralItems, Three
  <2> QED BY <1>5, <2>1, Continues DEF parseTermTail, KeepsAll, ReadsOn
<1>6. CASE parseFactor
  <2>1. /\ AllNeutral(<<Do("parseVariable")>>) /\ AllNeutral(<<Do("parseNumber")>>)
        /\ AllNeutral(<<Match({"LEFT_PAREN"}), Expression, Match({"RIGHT_PAREN"})>>)
    BY NeutralItems, One, Three DEF Expression
  <2> QED BY <1>6, <2>1, Continues, Mismatch DEF parseFactor, KeepsAll, ReadsOn
<1>7. CASE parseNumber
  <2>1. AllNeutral(<<If({"ADD_OP"}, <<Match({"ADD_OP"})>>), Do("parseLiteral")>>)
    BY <1>1, NeutralItems, Two
  <2> QED BY <1>7, <2>1, Continues DEF parseNumber, KeepsAll, ReadsOn
<1>8. CASE parseVariable
  <2> DEFINE index == <<Match({"LEFT_SQUARE_BRACKET"}), Expression, Match({"RIGHT_SQUARE_BRACKET"}), Do("constructElement")>>
             entry == lookup(tables, currentScope, peekNextToken.lexeme)
  <2>1. AllPlain(index)
    BY ItemKinds, Four DEF Expression
  <2>2. AllNeutral(<<If({"LEFT_SQUARE_BRACKET"}, index)>>)
    BY <2>1, NeutralItems, One
  <2> HIDE DEF index, entry
  <2>3. \/ /\ KeepsTables /\ getNextToken
           /\ Runs(<<If({"LEFT_SQUARE_BRACKET"}, index)>>)
        \/ /\ phase' = "died"
           /\ UNCHANGED <<tokens, current_token, todo, values, tables, scopes>>
        \/ raiseMismatchError
    BY <1>8 DEF parseVariable, index
  <2>4. Calls("parseVariable")
    BY <1>8 DEF parseVariable
  <2> QED BY <2>2, <2>3, <2>4, Continues, CallEffect, Mismatch DEF getNextToken, ReadsOn, Stops
<1> QED BY <1>2, <1>3, <1>4, <1>5, <1>6, <1>7, <1>8

LEMMA TypeSteps ==
  ASSUME parseType \/ arraySize
  PROVE  Stops \/ GoesOnFairly
<1>1. CASE parseType
  <2> DEFINE size == <<Match({"LEFT_SQUARE_BRACKET"}), Do("arraySize"), Match({"RIGHT_SQUARE_BRACKET"})>>
  <2>1. AllPlain(size)
    BY ItemKinds, Three
  <2>2. AllNeutral(<<If({"LEFT_SQUARE_BRACKET"}, size)>>)
    BY <2>1, NeutralItems, One
  <2> QED BY <1>1, <2>2, Continues, Mismatch DEF parseType, getNextToken, ReadsOn
<1>2. CASE arraySize
  <2>1. Calls("arraySize")
    BY <1>2 DEF arraySize
  <2>2. ASSUME NEW size, SizedBy(size) PROVE GoesOnFairly
    BY <2>1, <2>2, Nothing, Continues DEF SizedBy, getNextToken, ReadsOn
  <2> QED BY <1>2, <2>2, Mismatch DEF arraySize
<1> QED BY <1>1, <1>2

-----------------------------------------------------------------------------
(* Entering and leaving a scope, and the end. *)
LEMMA Longer ==
  ASSUME NEW S, NEW s \in Seq(S), NEW e \in S
  PROVE  /\ Append(s, e) \in Seq(S) /\ Append(s, e) # <<>> /\ Len(Append(s, e)) = Len(s) + 1
         /\ \A i \in 1 .. Len(s) : Append(s, e)[i] = s[i]
         /\ Append(s, e)[Len(s) + 1] = e
OBVIOUS

LEMMA Shorter ==
  ASSUME NEW S, NEW s \in Seq(S), s # <<>>
  PROVE  /\ Front(s) \in Seq(S) /\ Len(Front(s)) = Len(s) - 1
         /\ \A i \in 1 .. Len(s) - 1 : Front(s)[i] = s[i]
<1> DEFINE front == SubSeq(s, 1, Len(s) - 1)
           n == Len(s)
<1>1. n \in Nat \ {0}
  OBVIOUS
<1>2. \A i \in 1 .. n - 1 : s[i] \in S
  BY <1>1
<1>3. /\ front \in Seq(S)
      /\ Len(front) = IF 1 <= n - 1 THEN (n - 1) - 1 + 1 ELSE 0
      /\ \A i \in 1 .. (n - 1) - 1 + 1 : front[i] = s[1 + i - 1]
  BY <1>1, <1>2, SubSeqProperties
<1> HIDE DEF front, n
<1>4. Len(front) = n - 1
  BY <1>1, <1>3
<1>5. ASSUME NEW i \in 1 .. n - 1 PROVE front[i] = s[i]
  <2>1. i \in 1 .. (n - 1) - 1 + 1 /\ 1 + i - 1 = i
    BY <1>1
  <2> QED BY <1>3, <2>1
<1>6. Front(s) = front
  BY DEF Front, front
<1> QED BY <1>3, <1>4, <1>5, <1>6 DEF n

LEMMA EnterStep ==
  ASSUME IInv, enterNewScope PROVE IInv'
<1>1. phase = "parsing" /\ todo # <<>> /\ Head(todo)[1] = "enterNewScope"
  BY DEF enterNewScope, Calls
<1>2. GoodTables(tables) /\ GoodScopes(scopes, tables) /\ Tokens
  BY DEF IInv
<1>3. /\ Work(todo, Len(scopes)) /\ Effect(todo[1]) = 1 /\ Len(scopes) \in Nat \ {0}
  BY <1>1, WorkAhead DEF Effect
<1> DEFINE top == Last(scopes)
           table == NewTable(top)
           new == Append(tables, table)
           open == Append(scopes, Len(tables) + 1)
<1>4. top \in 1 .. Len(tables) /\ Len(tables) \in Nat \ {0}
  BY <1>2, TopScope
<1>5. PICK S : tables \in Seq(S)
  BY <1>2 DEF GoodTables, IsSequence
<1>6. /\ IsTable(table) /\ table.enclosingScope = top /\ DOMAIN table.symbolTable = {}
  BY DEF NewTable, IsTable
<1> HIDE DEF table, top
<1>7. /\ new \in Seq(S \union {table}) /\ Len(new) = Len(tables) + 1
      /\ \A t \in 1 .. Len(tables) : new[t] = tables[t]
      /\ new[Len(tables) + 1] = table
  BY <1>4, <1>5
<1>8. /\ tables' = new /\ scopes' = open /\ todo' = <<>> \o Tail(todo)
      /\ UNCHANGED <<phase, tokens, current_token>>
  BY <1>7 DEF enterNewScope, Runs, table, top, currentScope
<1> HIDE DEF new
<1>9. IsSequence(new)
  BY <1>7, Zenon DEF IsSequence
<1>10. GoodTables(new)
  <2> SUFFICES ASSUME NEW t \in 1 .. Len(new)
               PROVE  /\ IsTable(new[t])
                      /\ new[t].enclosingScope \in 0 .. t - 1
                      /\ \A n \in DOMAIN new[t].symbolTable : new[t].symbolTable[n].entry_type \in EntryTypes
    BY <1>4, <1>7, <1>9 DEF GoodTables
  <2>1. CASE t \in 1 .. Len(tables)
    BY <1>2, <1>7, <2>1 DEF GoodTables
  <2>2. CASE t = Len(tables) + 1
    <3>1. top \in 0 .. t - 1
      BY <1>4, <2>2
    <3> QED BY <1>6, <1>7, <2>2, <3>1
  <2> QED BY <1>4, <1>7, <2>1, <2>2
<1>11. GoodScopes(open, new)
  <2>1. scopes \in Seq(1 .. Len(tables)) /\ scopes \in Seq(1 .. Len(new)) /\ Len(tables) + 1 \in 1 .. Len(new)
    BY <1>2, <1>4, <1>7 DEF GoodScopes
  <2>2. /\ open \in Seq(1 .. Len(new)) /\ open # <<>> /\ Len(open) = Len(scopes) + 1
        /\ \A i \in 1 .. Len(scopes) : open[i] = scopes[i]
        /\ open[Len(scopes) + 1] = Len(tables) + 1
    BY <2>1, Longer
  <2> HIDE DEF open
  <2>3. open[1] = 1 /\ new[1].enclosingScope = NoTable
    <3>1. open[1] = scopes[1] /\ new[1] = tables[1]
      BY <1>3, <1>4, <1>7, <2>2
    <3> QED BY <1>2, <3>1 DEF GoodScopes
  <2>4. ASSUME NEW i \in 2 .. Len(open) PROVE new[open[i]].enclosingScope = open[i - 1]
    <3>1. CASE i \in 2 .. Len(scopes)
      <4>1. scopes[i] \in 1 .. Len(tables)
        BY <2>1, <3>1
      <4>2. new[scopes[i]] = tables[scopes[i]]
        BY <1>7, <4>1
      <4>3. open[i] = scopes[i] /\ open[i - 1] = scopes[i - 1]
        BY <1>3, <2>2, <3>1
      <4>4. tables[scopes[i]].enclosingScope = scopes[i - 1]
        BY <1>2, <3>1 DEF GoodScopes
      <4> QED BY <4>2, <4>3, <4>4
    <3>2. CASE i = Len(scopes) + 1
      <4>1. open[i - 1] = scopes[Len(scopes)]
        BY <1>3, <2>2, <3>2
      <4> QED BY <1>6, <1>7, <2>2, <3>2, <4>1 DEF top, Last
    <3> QED BY <1>3, <2>2, <3>1, <3>2
  <2> QED BY <2>2, <2>3, <2>4 DEF GoodScopes
<1>12. Len(open) = Len(scopes) + 1
  BY <1>2 DEF GoodScopes
<1>13. Work(todo', Len(scopes'))
  BY <1>1, <1>3, <1>8, <1>12, LessWork
<1>14. Work(todo, Len(scopes))'
  BY <1>13 DEF Work, AllKnown, IsSequence, Known, Neutral, Shallow, AllShallow, Plain, AllPlain, Depths, Effect
<1>15. GoodTables(tables)' /\ GoodScopes(scopes, tables)'
  BY <1>8, <1>10, <1>11 DEF GoodTables, GoodScopes, IsSequence, IsTable
<1>16. Tokens'
  BY <1>2, <1>8 DEF Tokens
<1> QED BY <1>1, <1>8, <1>14, <1>15, <1>16 DEF IInv, Phases

LEMMA ExitStep ==
  ASSUME IInv, exitOldScope PROVE IInv'
<1>1. phase = "parsing" /\ todo # <<>> /\ Head(todo)[1] = "exitOldScope"
  BY DEF exitOldScope, Calls
<1>2. GoodTables(tables) /\ GoodScopes(scopes, tables) /\ Tokens
  BY DEF IInv
<1>3. /\ Work(todo, Len(scopes)) /\ Effect(todo[1]) = -1 /\ Len(scopes) \in Nat \ {0}
  BY <1>1, WorkAhead DEF Effect
<1>4. Len(scopes) - 1 \in Nat \ {0} /\ Work(<<>> \o Tail(todo), Len(scopes) - 1)
  <2>1. Len(scopes) + Effect(todo[1]) = Len(scopes) - 1
    BY <1>3
  <2>2. /\ Len(scopes) + Effect(todo[1]) \in Nat \ {0}
        /\ Work(<<>> \o Tail(todo), Len(scopes) + Effect(todo[1]))
    BY <1>1, <1>3, LessWork
  <2> QED BY <2>1, <2>2
<1> DEFINE open == Front(scopes)
<1>5. /\ scopes' = open /\ todo' = <<>> \o Tail(todo)
      /\ UNCHANGED <<phase, tokens, current_token, tables>>
  BY <1>3, <1>4 DEF exitOldScope, Runs
<1>6. /\ open \in Seq(1 .. Len(tables)) /\ Len(open) = Len(scopes) - 1
      /\ \A i \in 1 .. Len(scopes) - 1 : open[i] = scopes[i]
  BY <1>2, Shorter DEF GoodScopes
<1> HIDE DEF open
<1>7. GoodScopes(open, tables)
  <2>1. open # <<>> /\ open[1] = 1
    BY <1>2, <1>4, <1>6 DEF GoodScopes
  <2>2. ASSUME NEW i \in 2 .. Len(open) PROVE tables[open[i]].enclosingScope = open[i - 1]
    <3>1. Len(scopes) \in Nat /\ Len(open) = Len(scopes) - 1
      BY <1>3, <1>6
    <3>2. i \in 1 .. Len(scopes) - 1 /\ i - 1 \in 1 .. Len(scopes) - 1 /\ i \in 2 .. Len(scopes)
      BY <3>1
    <3>3. open[i] = scopes[i] /\ open[i - 1] = scopes[i - 1]
      BY <1>6, <3>2
    <3> QED BY <1>2, <3>2, <3>3 DEF GoodScopes
  <2> QED BY <1>2, <1>6, <2>1, <2>2 DEF GoodScopes
<1>8. Work(todo', Len(scopes'))
  BY <1>4, <1>5, <1>6
<1>9. Work(todo, Len(scopes))'
  BY <1>8 DEF Work, AllKnown, IsSequence, Known, Neutral, Shallow, AllShallow, Plain, AllPlain, Depths, Effect
<1>10. GoodTables(tables)' /\ GoodScopes(scopes, tables)'
  BY <1>2, <1>5, <1>7 DEF GoodTables, GoodScopes, IsSequence, IsTable
<1>11. Tokens'
  BY <1>2, <1>5 DEF Tokens
<1> QED BY <1>1, <1>5, <1>9, <1>10, <1>11 DEF IInv, Phases

LEMMA FinishStep ==
  ASSUME IInv, Finish PROVE IInv'
<1>1. Work(<<>>, Len(scopes))
  BY DEF IInv, Phases, Finish
<1>2. Len(scopes) = 1
  BY <1>1, Nothing DEF Work
<1> QED BY <1>2 DEF Finish, IInv, Tokens, GoodTables, GoodScopes, Phases, IsSequence, IsTable

-----------------------------------------------------------------------------
LEMMA InitInv == Init => IInv
<1> SUFFICES ASSUME Init PROVE IInv
  OBVIOUS
<1>1. Tokens
  BY StreamsAssumption DEF Init, Tokens
<1>2. GoodTables(tables)
  <2>1. tables \in Seq({NewTable(NoTable)}) /\ Len(tables) = 1 /\ tables[1] = NewTable(NoTable)
    BY DEF Init
  <2>2. IsSequence(tables)
    BY <2>1, Zenon DEF IsSequence
  <2> QED BY <2>1, <2>2 DEF GoodTables, IsTable, NewTable, NoTable
<1>3. GoodScopes(scopes, tables)
  BY DEF Init, GoodScopes, NewTable
<1>4. Work(todo, Len(scopes))
  <2>1. AllNeutral(todo) /\ Len(todo) = 1 /\ Len(scopes) = 1
    BY NeutralItems, One DEF Init
  <2>2. AllKnown(todo) /\ Effect(todo[1]) = 0
    BY <2>1, NeutralEffect DEF AllNeutral, AllKnown
  <2> DEFINE d == [i \in 0 .. 1 |-> 1]
  <2>3. Depths(todo, d) /\ d[0] = 1 /\ d[1] = 1
    BY <2>1, <2>2 DEF Depths
  <2> HIDE DEF d
  <2> QED BY <2>1, <2>2, <2>3 DEF Work
<1> QED BY <1>1, <1>2, <1>3, <1>4 DEF Init, IInv, Phases

LEMMA InvStep == IInv /\ [Next]_vars => IInv'
<1> SUFFICES ASSUME IInv, [Next]_vars PROVE IInv'
  OBVIOUS
<1>1. CASE Stops \/ GoesOnFairly
  BY <1>1, StopStep, GoStep DEF GoesOnFairly
<1>2. CASE Shared
  BY <1>1, <1>2, ReturnSteps, ChoiceSteps, EnterStep, ExitStep DEF Shared
<1>3. CASE Blocks
  BY <1>1, <1>3, ReturnSteps, BindingSteps, BlockSteps, TypeSteps DEF Blocks
<1>4. CASE Statements
  BY <1>1, <1>4, ReturnSteps, BindingSteps, ChoiceSteps, StatementSteps, ExpressionSteps DEF Statements
<1>5. CASE Finish
  BY <1>5, FinishStep
<1>6. CASE UNCHANGED vars
  <2>1. UNCHANGED <<phase, tokens, current_token, todo, tables, scopes>>
    BY <1>6 DEF vars
  <2>2. Tokens'
    BY <2>1 DEF IInv, Tokens
  <2>3. GoodTables(tables)' /\ GoodScopes(scopes, tables)'
    BY <2>1 DEF IInv, GoodTables, GoodScopes, IsSequence, IsTable
  <2>4. Work(todo, Len(scopes))' <=> Work(todo, Len(scopes))
    BY <2>1 DEF Work, AllKnown, IsSequence, Known, Neutral, Shallow, AllShallow, Plain, AllPlain, Depths, Effect
  <2> QED BY <2>1, <2>2, <2>3, <2>4 DEF IInv, Phases
<1> QED BY <1>2, <1>3, <1>4, <1>5, <1>6 DEF Next

LEMMA Invariant == Spec => []IInv
<1> QED BY InitInv, InvStep, PTL DEF Spec

(***************************************************************************)
(* The parser never passes the last token, and every table it makes (in    *)
(* enterNewScope, parser.cpp:1051) lies inside one made earlier, whatever  *)
(* the text.                                                               *)
(***************************************************************************)
THEOREM TypeCorrect == Spec => []TypeOK
<1>1. ASSUME IInv PROVE TypeOK
  <2>1. Len(tables) \in Nat \ {0}
    BY <1>1, TopScope DEF IInv
  <2> QED BY <1>1, <2>1 DEF IInv, Tokens, GoodTables, GoodScopes, Phases, EntryTypes, TypeOK
<1> QED BY Invariant, <1>1, PTL

(***************************************************************************)
(* The open scopes lie inside one another and every one that is entered is *)
(* left (parser.cpp:1051, 1057), whatever procedures and begins a text     *)
(* nests, and to any depth: the assertion of exitOldScope holds on every   *)
(* way through the parser, also on those that end with an error.           *)
(***************************************************************************)
THEOREM ScopesNested == Spec => []ScopesAreNested
<1>1. IInv => ScopesAreNested
  BY DEF IInv, GoodScopes, Phases, ScopesAreNested
<1> QED BY Invariant, <1>1, PTL
=============================================================================
