------------------------------- MODULE Filter -------------------------------
(* The output filter of tcptrace (filter.c, with the reductions of the       *)
(* grammar in flex_bison/filt_parser.c): -f'b_segs>10 AND NOT c_mss=0' is    *)
(* parsed once into a tree, before any packet is read, and trace_done walks  *)
(* the tree once for every connection.                                       *)
(* A variable stands for two values, the client's and the server's.  c_x and *)
(* s_x name one of them; x, e_x and b_x become a LIST of two nodes, lists    *)
(* multiply through arithmetic, and the first relational or boolean operator *)
(* above them folds the list with ORs (x, e_x) or ANDs (b_x).                *)
(* An expression is what the grammar reduces: the scanner and the LALR       *)
(* tables, which turn characters into it, are generated code.                *)
EXTENDS Integers, Sequences, FiniteSets, SequencesExt, TLC

CONSTANTS
  Expressions,  \* the filters a user asks for
  Connections,  \* the connections of a capture, in the order of ttp[]: [variable -> [side -> value]]
  Types,        \* [variable -> type], the table of filter_vars.h
  Width         \* bits of a u_llong

VARIABLES
  expr,     \* the argument of -f
  root,     \* filter_root: << >> before the parse, <<a node>> after it ("exit" if the program stopped)
  verdicts  \* what PassesFilter said of the connections so far

filterVars == <<expr, root, verdicts>>

Sides == {"c", "s"}
Arithmetic == {"+", "-", "*", "/", "%", "&", "|"}
Boolean == {"AND", "OR"}
Words == 2 ^ Width
\* arithmetic of the two 64-bit types
Wrap(type, n) == LET w == n % Words IN IF type = "LLONG" /\ w >= Words \div 2 THEN w - Words ELSE w
\* the bits of a number, those of its complement if it is negative; and back
Bits(n) == {i \in 0..Width - 1 : ((n % Words) \div 2 ^ i) % 2 = 1}
NumberOf(bits) == MapThenSumSet(LAMBDA i : 2 ^ i, bits)
Magnitude(n) == IF n < 0 THEN -n ELSE n
Quotient(l, r) == LET q == Magnitude(l) \div Magnitude(r) IN IF (l < 0) = (r < 0) THEN q ELSE -q

-----------------------------------------------------------------------------
(* Making filter trees.  A list of nodes is a sequence in the order of       *)
(* next_var; << >> stands for exit(-1), which prints why and stops.           *)

Node(op, type, args) == [op |-> op, type |-> type, args |-> args, conjunction |-> FALSE]

\* LookupVar: the types of the table become the two 64-bit ones, or stay
Promoted(type) == CASE type \in {"INT", "LONG"} -> "LLONG" [] type \in {"UCHAR", "USHORT", "ULONG", "ULLONG", "UFUNC"} -> "ULLONG" [] OTHER -> type
LookupVar(name, side) == Node("variable", Promoted(Types[name]), <<name, side>>)

\* as if only the client's node were marked
MakeVarNodeHalf(prefix, name) ==
  CASE prefix \in Sides -> <<LookupVar(name, prefix)>>
    [] prefix = "b"     -> <<[LookupVar(name, "c") EXCEPT !.conjunction = TRUE], LookupVar(name, "s")>>
    [] OTHER            -> <<LookupVar(name, "c"), LookupVar(name, "s")>>

MakeVarNode(prefix, name) ==
  CASE prefix \in Sides -> <<LookupVar(name, prefix)>>
    [] prefix = "b"     -> [i \in 1..2 |-> [LookupVar(name, <<"c", "s">>[i]) EXCEPT !.conjunction = TRUE]]
    [] OTHER            -> <<LookupVar(name, "c"), LookupVar(name, "s")>>

\* one node for every member, each put in front of the last; the type is the operand's
MakeUnaryNode(op, list) ==
  IF op = "NOT" /\ list[1].type # "BOOL" THEN << >>
  ELSE Reverse([i \in DOMAIN list |-> Node(op, list[i].type, <<list[i]>>)])

MustBeType(type, node) ==
  IF node.type = type THEN node ELSE MakeUnaryNode("SIGNED", <<node>>)[1]

Numbers(l, r) == {l.type, r.type} \subseteq {"LLONG", "ULLONG"}
Fits(op, l, r) ==
  CASE op \in Boolean    -> l.type = "BOOL" /\ r.type = "BOOL"
    [] op \in Arithmetic -> Numbers(l, r)
    [] OTHER             -> Numbers(l, r) \/ (l.type = r.type /\ l.type \in {"IPADDR", "STRING"})
\* when the operands' types differ, the unsigned one is marked SIGNED
MakeOneBinaryNode(op, l, r) ==
  LET mixed == l.type # r.type
      L == IF mixed THEN MustBeType("LLONG", l) ELSE l
      R == IF mixed THEN MustBeType("LLONG", r) ELSE r
  IN [Node(op, IF op \in Arithmetic THEN L.type ELSE "BOOL", <<L, R>>)
        EXCEPT !.conjunction = l.conjunction \/ r.conjunction]

MakeDisjunction(l, r) == Node("OR", "BOOL", <<l, r>>)
MakeConjunction(l, r) == Node("AND", "BOOL", <<l, r>>)

\* every member of the left list with every member of the right one
MakeBinaryNode(op, left, right) ==
  LET n == Len(right)
      pairs == [i \in 1..Len(left) * n |-> <<left[((i - 1) \div n) + 1], right[((i - 1) % n) + 1]>>]
      made == [i \in DOMAIN pairs |-> MakeOneBinaryNode(op, pairs[i][1], pairs[i][2])]
      Hook(tree, node) == IF node.conjunction THEN MakeConjunction(tree, node) ELSE MakeDisjunction(tree, node)
  IN IF \E i \in DOMAIN pairs : ~Fits(op, pairs[i][1], pairs[i][2]) THEN << >>
     ELSE IF op \in Arithmetic THEN Reverse(made)
     ELSE <<FoldLeft(Hook, made[1], Tail(made))>>
\* the reductions of the grammar, from the leaves up
RECURSIVE Reduce(_)
Reduce(e) ==
  CASE e.kind = "var"   -> MakeVarNode(e.prefix, e.name)
    [] e.kind = "const" -> <<Node("constant", e.type, <<e.value>>)>>
    [] e.kind = "not"   -> LET arg == Reduce(e.arg) IN IF arg = << >> THEN << >> ELSE MakeUnaryNode("NOT", arg)
    [] e.kind = "op"    -> LET l == Reduce(e.left)
                               r == Reduce(e.right)
                           IN IF l = << >> \/ r = << >> THEN << >> ELSE MakeBinaryNode(e.op, l, r)

-----------------------------------------------------------------------------
(* Evaluating them.  A result is <<value>>, or << >> for exit(-1).            *)

Compare(op, d) ==
  CASE op = "=" -> d = 0 [] op = "!=" -> d # 0 [] op = ">" -> d > 0
    [] op = ">=" -> d >= 0 [] op = "<" -> d < 0 [] op = "<=" -> d <= 0

Calculate(op, type, l, r) ==
  Wrap(type, CASE op = "+" -> l + r [] op = "-" -> l - r [] op = "*" -> l * r
               [] op = "/" -> Quotient(l, r) [] op = "%" -> l - (r * Quotient(l, r))
               [] op = "&" -> NumberOf(Bits(l) \cap Bits(r)) [] op = "|" -> NumberOf(Bits(l) \cup Bits(r)))
\* a zero divisor is a SIGFPE
EvalMathop(op, type, l, r) ==
  IF op \in {"/", "%"} /\ r = 0 THEN << >> ELSE <<Calculate(op, type, l, r)>>

\* numbers and strings; a string is its rank under strcmp
EvalRelop(op, l, r) == <<Compare(op, l - r)>>
\* addresses of two families never compare, not even with !=
EvalRelopIpaddr(op, l, r) == <<l[1] = r[1] /\ Compare(op, l[2] - r[2])>>

\* a variable of type BOOL is true when its byte is TRUE, that is 1
EvalVariable(node, conn) ==
  LET value == conn[node.args[1]][node.args[2]] IN IF node.type = "BOOL" THEN value = 1 ELSE value

\* both operands are evaluated, always: a program that stops in either one stops
RECURSIVE EvalFilter(_, _)
EvalFilter(node, conn) ==
  CASE node.op = "variable" -> <<EvalVariable(node, conn)>>
    [] node.op = "constant" -> node.args
    [] node.op = "SIGNED"   -> << >>   \* no case of the switch handles it
    [] node.op = "NOT"      -> [i \in DOMAIN EvalFilter(node.args[1], conn) |-> ~EvalFilter(node.args[1], conn)[i]]
    [] OTHER ->
       LET left == EvalFilter(node.args[1], conn)
           right == EvalFilter(node.args[2], conn)
           l == left[1]
           r == right[1]
           type == node.args[1].type
       IN IF << >> \in {left, right} THEN << >>
          ELSE CASE node.op = "AND"            -> <<l /\ r>>
                 [] node.op = "OR"             -> <<l \/ r>>
                 [] node.op \in Arithmetic     -> EvalMathop(node.op, type, l, r)
                 [] type = "IPADDR"            -> EvalRelopIpaddr(node.op, l, r)
                 [] OTHER                      -> EvalRelop(node.op, l, r)

-----------------------------------------------------------------------------
(* The program: main parses the argument, trace_done asks for every pair.    *)

FilterInit ==
  /\ expr \in Expressions
  /\ root = << >>
  /\ verdicts = << >>

\* InstallFilter takes the first node of what is left, which must be boolean
ParseFilter ==
  /\ root = << >>
  /\ LET made == Reduce(expr)
     IN root' = IF made = << >> \/ made[1].type # "BOOL" THEN <<Node("exit", "BOOL", << >>)>> ELSE <<made[1]>>
  /\ UNCHANGED <<expr, verdicts>>

\* one connection of trace_done's loop: into the file of those that pass, or ignored
PassesFilter ==
  /\ root # << >> /\ root[1].op # "exit"
  /\ Len(verdicts) < Len(Connections)
  /\ << >> \notin Range(verdicts)
  /\ verdicts' = Append(verdicts, EvalFilter(root[1], Connections[Len(verdicts) + 1]))
  /\ UNCHANGED <<expr, root>>

FilterNext == ParseFilter \/ PassesFilter
FilterSpec == FilterInit /\ [][FilterNext]_filterVars

-----------------------------------------------------------------------------
(* What the help of tcptrace promises, stated without trees: a variable      *)
(* without c_ or s_ "effectively becomes c_VAR OR s_VAR", with b_ "c_VAR AND  *)
(* s_VAR": a relation holds for some, or for every, choice of sides.          *)

TwoSided(e) == e.kind = "var" /\ e.prefix \notin Sides
RECURSIVE Leaves(_, _)
\* the places of the two-sided variables in an expression
Leaves(e, at) ==
  CASE e.kind = "op" -> Leaves(e.left, Append(at, 1)) \cup Leaves(e.right, Append(at, 2))
    [] e.kind = "not" -> Leaves(e.arg, Append(at, 1))
    [] OTHER -> IF TwoSided(e) THEN {at} ELSE {}
RECURSIVE Quantifiers(_)
Quantifiers(e) ==
  CASE e.kind = "op" -> Quantifiers(e.left) \cup Quantifiers(e.right)
    [] e.kind = "not" -> Quantifiers(e.arg)
    [] OTHER -> IF TwoSided(e) THEN {e.prefix} ELSE {}
RECURSIVE TypeOf(_)
TypeOf(e) ==
  CASE e.kind = "var" -> Promoted(Types[e.name])
    [] e.kind = "const" -> e.type
    [] e.kind = "not" -> "BOOL"
    [] e.kind = "op" -> IF e.op \in Arithmetic THEN TypeOf(e.left) ELSE "BOOL"
RECURSIVE Number(_, _, _, _)
Number(e, conn, at, sideOf) ==
  CASE e.kind = "const" -> e.value
    [] e.kind = "var" -> conn[e.name][IF TwoSided(e) THEN sideOf[at] ELSE e.prefix]
    [] e.kind = "op" -> LET l == Number(e.left, conn, Append(at, 1), sideOf)
                            r == Number(e.right, conn, Append(at, 2), sideOf)
                        IN Calculate(e.op, TypeOf(e), l, r)
Relation(e, conn, sideOf) ==
  LET l == Number(e.left, conn, <<1>>, sideOf)
      r == Number(e.right, conn, <<2>>, sideOf)
  IN IF TypeOf(e.left) = "IPADDR" THEN l[1] = r[1] /\ Compare(e.op, l[2] - r[2]) ELSE Compare(e.op, l - r)
RECURSIVE Meaning(_, _)
Meaning(e, conn) ==
  CASE e.kind = "not" -> ~Meaning(e.arg, conn)
    [] e.kind = "op" /\ e.op = "AND" -> Meaning(e.left, conn) /\ Meaning(e.right, conn)
    [] e.kind = "op" /\ e.op = "OR" -> Meaning(e.left, conn) \/ Meaning(e.right, conn)
    [] e.kind = "op" -> LET choices == [Leaves(e, << >>) -> Sides]
                        IN IF "b" \in Quantifiers(e) THEN \A c \in choices : Relation(e, conn, c)
                                                  ELSE \E c \in choices : Relation(e, conn, c)
    [] e.kind = "var" -> CASE e.prefix = "b" -> \A s \in Sides : conn[e.name][s] = 1
                           [] e.prefix = "e" -> \E s \in Sides : conn[e.name][s] = 1
                           [] OTHER -> conn[e.name][e.prefix] = 1

RECURSIVE SubExpressions(_)
SubExpressions(e) ==
  {e} \cup CASE e.kind = "op" -> SubExpressions(e.left) \cup SubExpressions(e.right)
             [] e.kind = "not" -> SubExpressions(e.arg)
             [] OTHER -> {}
\* the program refuses the filter when it parses it
IllTyped(e) ==
  \/ TypeOf(e) # "BOOL"
  \/ \E f \in SubExpressions(e) :
       \/ f.kind = "not" /\ TypeOf(f.arg) # "BOOL"
       \/ f.kind = "op" /\ LET l == [type |-> TypeOf(f.left)]  r == [type |-> TypeOf(f.right)] IN ~Fits(f.op, l, r)
\* a signed operand meets an unsigned one: the tree has a node EvalFilter does not know
MixesSigns(e) ==
  \E f \in SubExpressions(e) : f.kind = "op" /\ {TypeOf(f.left), TypeOf(f.right)} = {"LLONG", "ULLONG"}
\* both sides of a boolean variable reach the root or a NOT, where only one counts, or
\* "both" of one and "either" of another are folded by one operator
LosesASide(e) ==
  \/ TwoSided(e)
  \/ \E f \in SubExpressions(e) :
       \/ f.kind = "not" /\ TwoSided(f.arg)
       \/ f.kind = "op" /\ f.op \in Boolean /\ TwoSided(f.left) /\ TwoSided(f.right) /\ f.left.prefix # f.right.prefix
Divides(e) == \E f \in SubExpressions(e) : f.kind = "op" /\ f.op \in {"/", "%"}

(* Every connection is kept or ignored by what its filter means: a two-sided *)
(* variable that occurs in a sum, a product or twice in one comparison is     *)
(* still read as "some side" or "both sides" of every occurrence.  A filter   *)
(* that is not boolean all through is refused before the first packet; one    *)
(* that mixes a signed with an unsigned operand passes the parse and stops    *)
(* the program in trace_done, after the whole capture was read                *)
(* (filter.c:1596); a division is by zero for whole captures' worth of        *)
(* connections, and then stops it too.                                        *)
FilterIsItsMeaning ==
  /\ root # << >> => (root[1].op = "exit" <=> IllTyped(expr))
  /\ \A i \in DOMAIN verdicts :
       /\ MixesSigns(expr) => verdicts[i] = << >>
       /\ (~MixesSigns(expr) /\ ~LosesASide(expr) /\ verdicts[i] # << >>) => verdicts[i] = <<Meaning(expr, Connections[i])>>
       /\ (verdicts[i] = << >> /\ ~MixesSigns(expr)) => Divides(expr)
=============================================================================
