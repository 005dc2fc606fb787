-------------------------- MODULE MCCompiledFunction --------------------------
(***************************************************************************)
(* Small methods, over the parameters of one signature, and their inputs.  *)
(***************************************************************************)
EXTENDS CompiledFunction

V(op, type, name, n) ==
    <<[node |-> "ExprValue", op |-> op, nargs |-> 0,
       val |-> [type |-> type, name |-> name, n |-> n]]>>
Op(node, op, nargs, type) ==
    <<[node |-> node, op |-> op, nargs |-> nargs, val |-> [type |-> type, name |-> "", n |-> 0]]>>

\* Variables and literals.
x == V("Local", "int", "x", 0)
y == V("Local", "int", "y", 0)
b == V("Local", "byte", "b", 0)
c == V("Local", "char", "c", 0)
t == V("Local", "short", "t", 0)
z == V("Local", "boolean", "z", 0)
w == V("Local", "boolean", "w", 0)
a == V("Local", "int[]", "a", 0)
d == V("Local", "byte[]", "d", 0)
o == V("Local", "Object", "o", 0)
i == V("Local", "int", "i", 0)
s == V("StaticField", "int", "s", 0)
Lit(n) == V("Literal", "int", "", n)
True == V("Literal", "boolean", "", 1)
null == V("Literal", "null", "", 0)
Text == V("Literal", "String", "", 0)
T(type) == V("Type", type, "", 0)

\* Operations.
Bin(op, type, l, r) == l \o r \o Op("BinaryOp", op, 2, type)
Set(l, r) == Bin("=", Last(l).val.type, l, r)
Ar(op, l, r) == Bin(op, "int", l, r)
Is(op, l, r) == Bin(op, "boolean", l, r)
Un(op, type, e) == e \o Op("UnaryOp", op, 1, type)
As(type, e) == T(type) \o e \o Op("Cast", "cast", 2, type)
Plus(l, r) == Ar("+", l, r)
Count == V("StaticMethod", "int", "count", 0) \o Op("MethodInvocation", "call", 1, "int")
Call2(l, r) == V("StaticMethod", "int", "two", 0) \o l \o r \o Op("MethodInvocation", "call", 3, "int")
Of(obj, l) == obj \o V("Method", "byte", "of", 0) \o Op("MemberAccess", ".", 2, "byte")
              \o l \o Op("MethodInvocation", "call", 2, "byte")
Nothing1 == V("StaticMethod", "void", "skip", 0) \o Op("MethodInvocation", "call", 1, "void")
Abstract == o \o V("AbstractMethod", "int", "none", 0) \o Op("MemberAccess", ".", 2, "int")
            \o Op("MethodInvocation", "call", 1, "int")
Length(e) == e \o V("Field", "int", "length", 0) \o Op("MemberAccess", ".", 2, "int")
At(e, k) == e \o k \o Op("ArrayAccess", "[]", 2, ElementType[Last(e).val.type])
NewOf(type, n) == T(type) \o n \o Op("ArrayInstanceCreation", "new", 2, type)
NewObject(arg) == T("Object") \o arg \o Op("ClassInstanceCreation", "new", 2, "Object")
InstanceOf(e, type) == Bin("instanceof", "boolean", e, T(type))

\* Statements.
NoVar == [name |-> "", type |-> "void"]
Skip == Statement("Null", <<>>, <<>>, NoVar)
Do(e) == Statement("Expr", e, <<>>, NoVar)
Give(e) == Statement("Return", e, <<>>, NoVar)
Block(ss) == Statement("Block", <<>>, ss, NoVar)
If(e, s1, s2) == Statement("If", e, <<s1, s2>>, NoVar)
While(e, s1) == Statement("While", e, <<s1>>, NoVar)
For(s0, e, s1, s2) == Statement("For", e, <<s0, s1, s2>>, NoVar)
DeclI(e) == Statement("Decl", e, <<>>, [name |-> "i", type |-> "int"])

Param(name, type) == [name |-> name, type |-> type]
Signature == <<Param("x", "int"), Param("y", "int"), Param("b", "byte"), Param("c", "char"),
               Param("t", "short"), Param("z", "boolean"), Param("w", "boolean"),
               Param("a", "int[]"), Param("d", "byte[]"), Param("o", "Object")>>
Method(returns, body) ==
    [params |-> Signature, locals |-> <<Param("i", "int")>>, returns |-> returns, body |-> body]
Returning(e) == Method(Last(e).val.type, Block(<<Give(e)>>))

----------------------------------------------------------------------------
(* The methods *)

Operands == {x, Set(x, y), b, c, Count, s}
ArithmeticBodies ==
    {Returning(Ar(op, l, r)) : op \in {"+", "/"}, l \in Operands, r \in Operands \cup {Lit(3)}}
    \cup {Returning(Ar(op, l, y)) : op \in {"-", "*", "%", "&", "|"}, l \in {x, b, c}}

ComparisonBodies ==
    {Returning(Is(op, v[1], v[2])) : op \in {"<", ">=", "==", "!="},
       v \in {<<x, Set(x, y)>>, <<c, As("char", t)>>, <<b, x>>, <<Set(y, x), s>>}}
    \cup {Returning(Is(op, v[1], v[2])) : op \in {"==", "!="},
            v \in {<<a, null>>, <<z, w>>, <<o, a>>, <<Set(z, w), z>>}}
    \cup {Returning(Is(op, x, y)) : op \in {"<=", ">"}}

Conversions ==
    {Returning(e) : e \in
       {As("int", As("byte", x)), As("int", As("char", t)), As("int", As("short", c)),
        As("char", b), As("int", As("char", b)), As("short", x), As("boolean", z),
        As("byte", Plus(x, c)), Un("-", "int", x), Un("-", "int", Set(x, y)), Un("+", "int", b),
        As("int", Un("+", "int", b)), Un("-", "int", b), Un("-", "int", Un("+", "int", c)),
        Un("!", "boolean", z), Un("!", "boolean", Is("<", x, y)), As("String", Text),
        Bin("+", "String", Text, Text), Is("&", z, w), Is("|", z, w), Set(x, b), Set(t, t),
        InstanceOf(o, "Object"), InstanceOf(Text, "Object"), Abstract}}

ShortCircuitBodies ==
    {Returning(Is(op, l, r)) : op \in {"&&", "||"}, l \in {z, Is("<", x, y), Set(z, w)},
       r \in {w, Set(z, w), Is("==", Count, x), Is("&&", w, z), Is("<", At(a, Lit(0)), y)}}

CallBodies ==
    {Returning(e) : e \in
       {Call2(x, y), Call2(x, Set(x, y)), Call2(Count, Count), Call2(b, x), Plus(Call2(x, x), s),
        Of(o, a), Of(Set(o, a), a), Of(o, null), Of(NewObject(x), a), Plus(Of(o, a), Of(a, o))}}
    \cup {Method("void", Block(<<Do(e)>>)) : e \in
            {Count, Nothing1, NewObject(Count), Set(s, Count), Set(o, Text), Set(x, Plus(x, Set(x, y)))}}

ArrayBodies ==
    {Returning(e) : e \in
       {At(a, x), At(a, b), At(d, b), At(d, t), At(d, c), Length(a), Length(NewOf("int[]", x)),
        Length(NewOf("byte[]", b)), Length(NewOf("boolean[]", Lit(2))), At(NewOf("int[]", Lit(2)), x),
        At(NewOf("boolean[]", Lit(2)), x), Set(At(a, x), y), Set(At(a, x), Set(x, y)),
        Set(At(a, x), Count), Set(At(d, x), b), Set(At(d, x), y), Plus(At(a, Set(x, Lit(0))), x),
        Plus(At(a, Lit(0)), Set(At(a, Lit(0)), y)), Set(At(a, Lit(0)), At(d, Count)),
        Plus(At(Set(a, NewOf("int[]", y)), Lit(0)), Length(a)),
        Set(At(NewOf("boolean[]", Lit(1)), Lit(0)), z)}}

X1 == Do(Set(x, Plus(x, Lit(1))))
Some ==
    {X1, If(z, Give(x), Skip), If(z, X1, Do(Set(x, y))), While(Is("<", x, y), X1),
     For(DeclI(Lit(0)), Is("<", i, Lit(2)), Do(Set(x, Plus(x, i))), Do(Set(i, Plus(i, Lit(1))))),
     If(Is("&&", z, w), Give(y), X1), Do(Count), Do(Set(s, Ar("*", x, x)))}
Two(s1, s2) == Method("int", Block(<<s1, s2, Give(x)>>))

StatementBodies ==
    {Two(s1, s2) : s1 \in Some, s2 \in Some}
    \cup {Method("int", Block(<<If(z, s1, s2), Give(y)>>)) : s1 \in Some, s2 \in Some}
    \cup {Method("int", Block(<<While(Is("<", x, y), Block(<<s1, X1>>)), Give(x)>>)) : s1 \in Some}

Odd ==
    {Method("int", body) : body \in
       {Block(<<While(True, If(z, Give(x), X1))>>),
        Block(<<For(Skip, <<>>, If(Is("==", x, y), Give(x), X1), Skip)>>),
        For(Skip, <<>>, Skip, Skip),
        Block(<<While(z, Skip)>>),
        Block(<<If(z, Give(x), Give(y))>>),
        Block(<<If(z, If(w, Give(x), Give(y)), Give(Lit(0)))>>),
        Block(<<Give(x), While(z, X1)>>),
        Block(<<For(Skip, <<>>, X1, Skip), If(z, Give(x), Skip)>>),
        Block(<<For(Skip, z, Give(x), X1), Give(y)>>),
        Block(<<For(Skip, z, Give(x), Do(Set(z, Is("&&", z, w)))), Give(y)>>),
        Block(<<DeclI(<<>>), Do(Set(i, x)), Give(i)>>),
        Block(<<While(Is("<", x, y), While(Is("<", x, Lit(2)), X1)), Give(x)>>)}}
    \cup {Method("void", body) : body \in
            {Skip, Block(<<>>), Give(<<>>), If(z, Give(<<>>), Do(Count)),
             While(z, Do(Set(z, w))), Block(<<If(z, Do(Count), Give(<<>>)), Do(Set(s, x))>>)}}

MCBodies == ArithmeticBodies \cup ComparisonBodies \cup Conversions \cup ShortCircuitBodies
            \cup CallBodies \cup ArrayBodies \cup StatementBodies \cup Odd

----------------------------------------------------------------------------
(* The inputs: the variables a method mentions vary *)

RECURSIVE Names(_)
Names(stmt) ==
    {stmt.e[k].val.name : k \in DOMAIN stmt.e} \cup UNION {Names(stmt.s[k]) : k \in DOMAIN stmt.s}

Range1(p, names) ==
    CASE p.name \notin names -> {0}
      [] p.name = "x" -> {-1, 0, 1}
      [] p.name = "y" -> {-8, 2}
      [] p.name = "b" -> {-1, 1}
      [] p.name = "c" -> {2, 7}
      [] p.name = "t" -> {-3, 1}
      [] p.name = "d" -> {0, 2}
      [] OTHER -> {0, 1}

MCInputs(m) ==
    LET names == Names(m.body)
        Extended(fs, p) == {Append(f, n) : f \in fs, n \in Range1(p, names)}
        values == FoldLeft(Extended, {<<>>}, Signature)
    IN {[args |-> [k \in DOMAIN Signature |-> Value(Signature[k].type, f[k])],
         statics |-> [calls |-> Value("int", 0), s |-> Value("int", 3)],
         arrays |-> <<[type |-> "int", elems |-> <<5, -2>>],
                      [type |-> "byte", elems |-> <<1, -1, 0, -2>>]>>] : f \in values}

MCMethods ==
    [count |-> [params |-> <<>>, returns |-> "i32"],
     two   |-> [params |-> <<"i32", "i32">>, returns |-> "i32"],
     of    |-> [params |-> <<"ptr", "ptr">>, returns |-> "i8"],
     skip  |-> [params |-> <<>>, returns |-> "void"]]
=============================================================================
