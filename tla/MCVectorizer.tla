---------------------------- MODULE MCVectorizer ----------------------------
(***************************************************************************)
(* Loops for the vectorizer: bodies that are made for it and bodies that   *)
(* are not, one or two after the other, in an if, in a loop, in a          *)
(* procedure; counted up, down, by two, or twice, by a name that is long.  *)
(***************************************************************************)
EXTENDS Vectorizer

MaxNames == 24

MCTempName == [k \in 0 .. MaxNames |-> "$t" \o ToString(k)]
MCLabelName == [k \in 0 .. MaxNames |-> "$Lno" \o ToString(k)]
MCProcLabel == [p \in {"p"} |-> "$Lp"]
MCValueOf == [l \in {"0", "1", "2", "4"} |-> CASE l = "0" -> 0 [] l = "1" -> 1 [] l = "2" -> 2 [] l = "4" -> 4]
MCTempNames == {MCTempName[k] : k \in 0 .. MaxNames}
MCNames == MCTempNames \union DOMAIN MCValueOf \union {"i", "n", "x", "a", "b", "c", "longNameOfACounter"}
MCLongNames == {"longNameOfACounter"}
MCLabels == {MCLabelName[k] : k \in 0 .. MaxNames} \union {"$Lp", "p"}

MCEnvs == {[i |-> 0, longNameOfACounter |-> 0, n |-> n, x |-> 3] : n \in {3, 4, 8}}

i == Variable("i")
n == Variable("n")
x == Variable("x")
Plus(l, r) == Binary("ADD", l, r)
one == Number("1")

Start == Assign(i, Number("0"))
Up == Assign(i, Plus(i, one))
Loop(bound, statements) == While(Binary("LESS_THAN", i, bound), List(statements))

(* Elements that differ, so that it shows which are used. *)
Fill == <<Assign(Element("a", one), Number("4")), Assign(Element("b", Number("2")), x)>>

Maps ==
  {Assign(Element("c", i), Plus(Element("a", i), Element("b", i))),
   Assign(Element("b", i), Binary("SUB", Element("b", i), x)),
   Assign(Element("a", i), Binary("SUB", Number("2"), Element("a", i))),
   Assign(Element("c", i), x)}
Fills == {Assign(Element("a", i), i), Assign(Element("b", i), Plus(x, i))}

(* Bodies the vectorizer takes without being made for them, or dies of. *)
Others ==
  {Assign(Element("c", i), Element("a", i)),
   Assign(Element("c", i), Binary("MULT", Element("a", i), x)),
   Assign(Element("a", Plus(i, one)), Element("a", i)),
   Assign(Element("c", n), Element("b", i)),
   Assign(Element("c", Element("b", i)), Element("a", i)),
   Assign(Element("c", one), Element("b", i)),
   Assign(x, Plus(x, Element("a", i))),
   Write(Element("a", i)), ReadInto(x), Assign(Element("c", i), x)}

Bodies ==
  {<<s, Up>> : s \in Maps \union Fills \union Others}
    \union {<<s, t, Up>> : s, t \in Maps}
    \union {<<s, t, Up>> : s \in Fills, t \in Fills \union Maps}
    \union {<<s, Assign(x, Plus(x, one)), Up>> : s \in Maps}
    \union {<<Up, s>> : s \in Maps} \union {<<s, Up, Up>> : s \in Maps}
    \union {<<s, Assign(i, Plus(i, Number("2")))>> : s \in Maps}
    \union {<<s, Assign(i, Plus(i, x)), Up>> : s \in Maps}
    \union {<<s, If(Binary("LESS_THAN", i, x), Assign(x, i)), Up>> : s \in Maps}
    \union {<<s, Call("p"), Up>> : s \in Maps}
    \union {<<Up>>}

Down == {<<Assign(i, n), While(Binary("GREATER_THAN", i, Number("0")), List(<<s, Assign(i, Binary("SUB", i, one))>>))>> : s \in Maps}
Some == {<<Start, Loop(bound, <<s, Up>>)>> : bound \in {n, Number("4")}, s \in Maps \union {Assign(Element("a", i), i)}}

(* The iterator has a name the strip may read after it was freed. *)
j == Variable("longNameOfACounter")
Long ==
  {<<Assign(j, Number("0")), While(Binary("LESS_THAN", j, n), List(<<Assign(Element("c", j), x), Assign(j, Plus(j, one))>>))>>}

Nested ==
  {<<Assign(x, Number("0")), While(Binary("LESS_THAN", x, Number("2")), List(s \o <<Assign(x, Plus(x, one))>>))>> : s \in Some}
    \union {<<If(Binary("LESS_THAN", x, n), List(s))>> : s \in Some}

Globals == <<Declare("i"), Declare("n"), Declare("x"), Declare("longNameOfACounter"), Declare("a"), Declare("b"), Declare("c")>>
Program(main) == List(Globals \o <<List(Fill \o main)>>)
WithProcedure(body, main) == List(Globals \o <<Procedure("p", body), List(Fill \o main)>>)

HasCall(b) == Call("p") \in ToSet(b)

MCTrees ==
  {Program(<<Start, Loop(n, b)>>) : b \in {c \in Bodies : ~HasCall(c)}}
    \union {WithProcedure(Assign(x, one), <<Start, Loop(n, b)>>) : b \in {c \in Bodies : HasCall(c)}}
    \union {Program(s) : s \in UNION {Down, Long, Nested}}
    \union {Program(s \o t) : s, t \in Some}
    \union {WithProcedure(List(s), t \o <<Call("p")>>) : s, t \in Some}
=============================================================================
