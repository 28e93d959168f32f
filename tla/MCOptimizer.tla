---------------------------- MODULE MCOptimizer ----------------------------
(***************************************************************************)
(* Programs for the optimizer: conditions and assignments with and without *)
(* array elements and temporaries, three statements in every order, ifs    *)
(* and loops nested two deep, empty bodies, none to two procedures, calls  *)
(* with an argument, with and without a declaration first.                 *)
(***************************************************************************)
EXTENDS Optimizer

MaxNames == 20

MCTempName == [n \in 0 .. MaxNames |-> "$t" \o ToString(n)]
MCLabelName == [n \in 0 .. MaxNames |-> "$Lno" \o ToString(n)]
MCProcLabel == [p \in {"p", "q"} |-> "$L" \o p]
MCValueOf == [l \in {"0", "1", "3"} |-> CASE l = "0" -> 0 [] l = "1" -> 1 [] l = "3" -> 3]
MCTempNames == {MCTempName[n] : n \in 0 .. MaxNames}
MCNames == MCTempNames \union DOMAIN MCValueOf \union {"x", "y", "a"}
MCLabels ==
  {MCLabelName[n] : n \in 0 .. MaxNames} \union {MCProcLabel[p] : p \in DOMAIN MCProcLabel} \union DOMAIN MCProcLabel

MCEnvs == {[x |-> x, y |-> y] : x \in {0, 2}, y \in {1, 3}}

x == Variable("x")
y == Variable("y")
ax == Element("a", x)

StrictConditions == {Binary("LESS_THAN", x, y), Binary("GREATER_THAN", Binary("ADD", ax, x), Number("1"))}
OtherConditions ==
  {Binary("EQUALS", x, y), Binary("NOT_EQUALS", ax, x), Binary("LE_THAN", x, Number("3")),
   Binary("GE_THAN", x, Binary("SUB", y, x))}

(* Statements that change what the conditions ask. *)
Up == Assign(x, Binary("ADD", x, Number("1")))
Simple ==
  {Up, Assign(y, ax), Assign(ax, Binary("MULT", x, y)), Assign(ax, Element("a", y)),
   ReadInto(y), ReadInto(ax), Write(Binary("SUB", ax, y)), List(<<>>)}

Bodies(simple) == {List(<<s, Up>>) : s \in simple} \union {List(<<>>)}

Nests(conditions, bodies) ==
  {If(c, b) : c \in conditions, b \in bodies} \union {While(c, b) : c \in conditions, b \in bodies}

(* Two statements of two kinds next to one another and inside one another. *)
Flat == Nests(StrictConditions, Bodies(Simple))
Other == Nests(OtherConditions, Bodies({Up, Assign(y, ax)}))
Less == Binary("LESS_THAN", x, Number("3"))
Small == Nests({Less}, {List(<<Assign(ax, Binary("ADD", ax, y)), Up>>), List(<<>>)})
Deep ==
  {If(Less, b) : b \in Small} \union {While(Less, List(<<b, Up>>)) : b \in Small}
    \union {List(<<b, c>>) : b, c \in Small}

Deeper == Nests({Less}, {List(<<b, Up>>) : b \in Deep})
Pairs ==
  LET flat == Nests({Binary("GREATER_THAN", y, x)}, Bodies({Assign(y, ax), Assign(ax, Binary("MULT", x, y)), ReadInto(y)}))
  IN  {List(<<b, c>>) : b, c \in flat}

(* What the window of the preprocessor may meet, one behind the other. *)
Plain ==
  {Write(x), Assign(x, Number("1")), Up, Assign(y, ax), Assign(ax, x), Assign(ax, Binary("ADD", x, Number("1"))),
   Assign(ax, Element("a", y)), ReadInto(ax)}
Tested ==
  {If(Binary(op, left, y), List(<<>>)) : op \in {"EQUALS", "LESS_THAN", "GE_THAN"}, left \in {x, ax}}
    \union {While(Less, Up)}
Triples == {List(<<r, s, t>>) : r, s, t \in Plain \union Tested}

(* Odd, and a call with an argument. *)
Rest ==
  {If(Odd(value), Up) : value \in {x, ax, Binary("ADD", ax, x)}}
    \union {List(<<CallWith("p", <<value>>), If(c, Up)>>) : value \in {x, ax, Binary("ADD", ax, x)}, c \in StrictConditions}

(* The main statement is one begin ... end. *)
Main(statements) == {List(<<s>>) : s \in statements}

Globals == <<Declare("x"), Declare("y"), Declare("a")>>
P(body) == Procedure("p", body)
Q(body) == Procedure("q", body)

(* Without a variable in scope there are only literals to compute with. *)
Bare ==
  LET one == Number("1")
      three == Number("3")
      writes == {Write(one), Write(Binary("ADD", one, three))}
      nests == Nests({Binary("LESS_THAN", three, one), Binary("GREATER_THAN", three, Binary("ADD", one, one))}, writes)
  IN  writes \union nests \union {List(<<s, t>>) : s, t \in nests \union writes}

MCTrees ==
  LET mains == Main(Flat \union Other \union Deep \union Deeper \union Pairs \union Simple \union Triples)
      callers == Main({Call("p"), While(Less, List(<<Call("p"), Up>>)), List(<<Up, Call("p"), Write(x)>>)})
  IN  {List(Globals \o <<m>>) : m \in mains}
        \union {List(Globals \o <<P(b), m>>) : b \in Small \union Deep \union Flat \union Other \union {Up}, m \in callers}
        \union {List(Globals \o <<P(Up), Q(b), m>>) : b \in Small, m \in callers}
        \union {List(Globals \o <<P(Up), m>>) : m \in Main(Rest)}
        \union {List(<<P(List(<<Declare("x"), ReadInto(Variable("x")), Up>>)), m>>) : m \in Main({Call("p"), List(<<>>)})}
        \union {List(<<m>>) : m \in Main(Bare)}

MCPrograms == {Generated(t) : t \in MCTrees}
=============================================================================
