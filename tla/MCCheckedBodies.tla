-------------------------- MODULE MCCheckedBodies --------------------------
(***************************************************************************)
(* A small program and the bodies compiled in it, one family for each kind *)
(* of expression. D and H in package a extend C of package p; G of p       *)
(* extends A of a; K inherits l() from L by way of I and of M. *)
(***************************************************************************)
EXTENDS CheckedBodies

T(base)   == [base |-> base, dims |-> 0]
Arr(base) == [base |-> base, dims |-> 1]
Void == T("void")

D(kind, name, class, mods, ty, params, scope) ==
    [kind |-> kind, name |-> name, class |-> class, modifiers |-> mods, type |-> ty,
     params |-> params, scope |-> scope]
NoD == D("none", "", "", {}, Void, <<>>, <<>>)
Cls(c) == D("class", c, c, {}, T(c), <<>>, <<>>)
Pkg(p) == D("package", p, "", {}, Void, <<>>, <<>>)

Field(c, k, name, mods, ty) == D("field", name, c, mods, ty, <<>>, <<c>> \o [i \in 1..k |-> i])
Method(c, name, mods, ty, params) == D("method", name, c, mods, ty, params, <<>>)
Ctor(c, mods, params) == D("ctor", c, c, mods, Void, params, <<>>)
Pub == {"public"}

Class(pkg, mods, supers, fields, methods) ==
    [kind |-> "class", package |-> pkg, modifiers |-> mods, supers |-> supers, fields |-> fields, methods |-> methods]
Iface(pkg, supers, methods) == [Class(pkg, {}, supers, <<>>, methods) EXCEPT !.kind = "interface"]

DFields == <<Field("D", 1, "d1", Pub, T("int")), Field("D", 2, "d2", Pub, T("int")),
             Field("D", 3, "s1", {"public", "static"}, T("int")), Field("D", 4, "s2", {"public", "static"}, T("int")),
             Field("D", 5, "x", Pub, T("A"))>>

MCDeclared ==
    LET Abs(c, name) == Method(c, name, {"public", "abstract"}, Void, <<>>) IN
    [c \in {"Object", "String", "Cloneable", "Serializable", "A", "B", "C", "D", "F", "G", "H", "I", "K", "L", "M"} |->
       CASE c = "Object" -> Class("java.lang", {}, {}, <<>>,
              <<Ctor(c, Pub, <<>>), Method(c, "equals", Pub, T("boolean"), <<T("Object")>>)>>)
         [] c = "String" -> Class("java.lang", {"final"}, {"Object"}, <<>>,
              <<Ctor(c, Pub, <<>>), Method(c, "length", Pub, T("int"), <<>>)>>)
         [] c \in {"Cloneable", "Serializable"} -> Iface("java.lang", {}, <<>>)
         [] c = "A" -> Class("a", {}, {"Object"},
              <<Field(c, 1, "i", Pub, T("int")), Field(c, 2, "s", {"public", "static"}, T("int")),
                Field(c, 3, "pa", {"protected"}, T("int"))>>,
              <<Ctor(c, Pub, <<>>), Ctor(c, Pub, <<T("int")>>),
                Method(c, "g", Pub, Void, <<>>), Method(c, "m", Pub, T("int"), <<T("A")>>),
                Method(c, "m", Pub, T("boolean"), <<T("Object")>>), Method(c, "sm", {"public", "static"}, T("int"), <<>>)>>)
         [] c = "B" -> Class("a", {}, {"A", "I"}, <<Field(c, 1, "fin", {"public", "final"}, T("int")), Field(c, 2, "i", Pub, T("A"))>>,
              <<Ctor(c, Pub, <<>>), Method(c, "f", Pub, Void, <<>>), Method(c, "l", Pub, Void, <<>>),
                Method(c, "m", Pub, T("A"), <<T("I")>>)>>)
         [] c = "C" -> Class("p", {}, {"Object"},
              <<Field(c, 1, "pi", {"protected"}, T("int")), Field(c, 2, "ps", {"protected", "static"}, T("int"))>>,
              <<Ctor(c, Pub, <<>>), Ctor(c, {"protected"}, <<T("int")>>), Ctor(c, Pub, <<T("A")>>),
                Method(c, "pm", {"protected"}, Void, <<>>)>>)
         [] c = "D" -> Class("a", {}, {"C"}, DFields,
              <<Ctor(c, Pub, <<>>), Method(c, "v", Pub, Void, <<>>), Method(c, "n", Pub, T("int"), <<T("int")>>),
                Method(c, "st", {"public", "static"}, T("int"), <<>>)>>)
         [] c = "F" -> Class("a", {"final"}, {"Object"}, <<>>, <<Ctor(c, Pub, <<>>)>>)
         [] c = "G" -> Class("p", {}, {"A"}, <<>>, <<Ctor(c, Pub, <<>>)>>)
         [] c = "H" -> Class("a", {}, {"C"}, <<>>, <<Ctor(c, Pub, <<>>)>>)
         [] c = "L" -> Iface("a", {}, <<Abs(c, "l")>>)
         [] c = "I" -> Iface("a", {"L"}, <<Abs(c, "f")>>)
         [] c = "M" -> Iface("a", {"L"}, <<Abs(c, "f")>>)
         [] c = "K" -> Class("a", {"abstract"}, {"Object", "I", "M"}, <<>>, <<Ctor(c, Pub, <<>>)>>)]

MCPackages ==
    LET In(p) == {c \in DOMAIN MCDeclared : MCDeclared[c].package = p} IN
    [p \in {"a", "p", "java", "java.lang"} |->
       IF p = "java" THEN [n \in {"lang"} |-> Pkg("java.lang")] ELSE [n \in In(p) |-> Cls(n)]]

\* Q is imported on demand from two packages.
MCImports ==
    LET Meant(n) == IF n \in DOMAIN MCDeclared THEN Cls(n) ELSE IF n = "Q" THEN NoD ELSE Pkg(n) IN
    [u \in {"D", "K"} |-> [n \in DOMAIN MCDeclared \cup {"a", "p", "java", "Q"} |-> Meant(n)]]

----------------------------------------------------------------------------
Tree(k, name, ty, op, args) == [k |-> k, name |-> name, ty |-> ty, op |-> op, args |-> args]
Lit(ty)   == Tree("Literal", "", T(ty), "", <<>>)
This      == Tree("This", "", Void, "", <<>>)
Id(name)  == Tree("Identifier", name, Void, "", <<>>)
Ty(t)     == Tree("Type", "", t, "", <<>>)
Un(op, e) == Tree("Unary", "", Void, op, <<e>>)
Bin(op, l, r) == Tree("Binary", "", Void, op, <<l, r>>)
Dot(q, name)  == Tree("FieldAccess", name, Void, "", <<q>>)
Call(name, args) == Tree("MethodInvocation", name, Void, "simple", args)
On(q, name, args) == Tree("MethodInvocation", name, Void, "qualified", <<q>> \o args)
New(c, args)  == Tree("ClassInstanceCreation", "", T(c), "", args)
NewArr(t, n)  == Tree("ArrayCreation", "", t, "", <<n>>)
At(a, i)      == Tree("ArrayAccess", "", Void, "", <<a, i>>)
Cast(t, e)    == Tree("Cast", "", t, "", <<e>>)
Paren(e)      == Tree("Paren", "", Void, "", <<e>>)

Var(name, ty, n) == [name |-> name, ty |-> ty, n |-> n]
NoVar == Var("", Void, 0)
Stmt(k, e, s, d) == [k |-> k, e |-> e, s |-> s, d |-> d]
X(id, tree) == <<[id |-> id, tree |-> tree]>>
Do(e)      == Stmt("Expr", X(1, e), <<>>, NoVar)
If1(e)     == Stmt("If", X(1, e), <<Stmt("Null", <<>>, <<>>, NoVar)>>, NoVar)
Ret(e)     == Stmt("Return", X(1, e), <<>>, NoVar)
Block(s)   == Stmt("Block", <<>>, s, NoVar)
Null       == Stmt("Null", <<>>, <<>>, NoVar)

Params == <<Var("o", T("Object"), 1), Var("n", T("int"), 2), Var("y", T("byte"), 3), Var("z", T("boolean"), 4),
            Var("s", T("String"), 5), Var("a", T("A"), 6), Var("b", T("B"), 7), Var("i", T("I"), 8),
            Var("f", T("F"), 9), Var("ns", Arr("int"), 10), Var("as", Arr("A"), 11), Var("c", T("C"), 12),
            Var("d", T("D"), 13), Var("g", T("G"), 14), Var("k", T("K"), 15), Var("e", T("Cloneable"), 16), Var("h", T("H"), 17)>>
Let(ty, e) == Stmt("Decl", X(1, e), <<>>, Var("t", ty, Len(Params) + 1))

InMethod(unit, static, ret, stmt) ==
    [unit |-> unit, static |-> static, ret |-> ret, params |-> Params, body |-> Block(<<stmt>>),
     field |-> NoD, init |-> [id |-> 0, tree |-> This]]
In(stmt) == InMethod("D", FALSE, Void, stmt)
InBoth(stmt) == {InMethod("D", s, Void, stmt) : s \in BOOLEAN}

VoidCall == On(This, "v", <<>>)
Atoms == {Id(Params[i].name) : i \in 1..16} \cup {Lit("int"), Lit("string"), Lit("null"), VoidCall}
Few == {Id(n) : n \in {"o", "n", "y", "z", "s", "a", "ns"}} \cup {Lit("string"), Lit("null"), VoidCall}
Types == {T(c) : c \in {"int", "byte", "boolean", "Object", "String", "A", "B", "I", "F", "Cloneable"}} \cup {Arr("int"), Arr("A"), Arr("B")}
RefTypes == {t \in Types : t.dims = 1 \/ t.base \notin {"int", "byte", "boolean"}}

Binaries ==
    {In(If1(Bin("Equal", l, r))) : l \in Atoms, r \in Atoms}
      \cup {In(If1(Bin(op, l, r))) : op \in {"And", "BitwiseXor", "LessThan"}, l \in Few, r \in Few}
      \cup {In(Let(t, Bin("Add", l, r))) : t \in {T("int"), T("String")}, l \in Few, r \in Few}
      \cup {In(Let(T("int"), Bin("Multiply", l, r))) : l \in Few, r \in Few}
Unaries == {In(If1(Un("Not", e))) : e \in Atoms} \cup {In(Let(T("int"), Un("Minus", e))) : e \in Atoms}
Conversions ==
    {In(Let(t, Cast(t, e))) : t \in Types, e \in Atoms} \cup {In(Let(t, Paren(e))) : t \in Types, e \in Atoms}
      \cup {In(If1(Bin("InstanceOf", e, Ty(t)))) : t \in RefTypes, e \in Atoms}
      \cup {In(Do(Bin("Assignment", Id(Params[i].name), e))) : i \in DOMAIN Params, e \in Few}
      \cup {InMethod("D", FALSE, t, Ret(e)) : t \in {T("int"), T("A"), Void}, e \in Few}
      \cup {InMethod("D", FALSE, t, Stmt("Return", <<>>, <<>>, NoVar)) : t \in {T("int"), Void}}

Names == {"d1", "s1", "pi", "ps", "a", "b", "g", "c", "d", "h", "n", "s", "ns", "A", "C", "p", "java", "Q", "L", "none"}
Selected == {"i", "s", "pa", "pi", "ps", "d1", "s1", "fin", "length", "C", "lang", "none"}
Paths ==
    UNION {InBoth(Let(T("int"), e)) :
             e \in {Id(n) : n \in Names} \cup {Dot(Dot(Id("p"), "C"), m) : m \in Selected}
                     \cup {Dot(q, m) : q \in {This, Lit("string"), Lit("int"), Paren(Id("a")), VoidCall, New("A", <<>>), Dot(Id("b"), "i"),
                                             Ty(Arr("int"))}, m \in {"i", "d1", "pi", "s1", "length"}}}
      \cup {In(Let(T("int"), Dot(Id(n), m))) : n \in Names, m \in Selected}
      \cup {In(Do(Bin("Assignment", e, Lit("int")))) :
              e \in {Dot(Id("b"), "fin"), Dot(Id("ns"), "length"), Dot(Id("a"), "i"), At(Id("ns"), Id("n")), Id("d1"), Dot(Id("A"), "s"), At(Id("as"), Lit("int"))}}

Receivers == {This, Lit("string"), Dot(Id("p"), "C"), New("B", <<>>)} \cup {Id(n) : n \in {"a", "b", "i", "k", "s", "ns", "c", "d", "g", "n", "A", "D", "p", "Q"}}
Args == {<<>>, <<Id("a")>>, <<Id("b")>>, <<Id("o")>>, <<Lit("null")>>, <<Lit("int")>>, <<Id("y")>>, <<VoidCall>>, <<Id("i")>>, <<Id("none")>>}
Calls ==
    {In(Do(On(q, m, args))) : q \in Receivers, m \in {"m", "equals"}, args \in Args}
      \cup {In(Do(On(q, m, args))) : q \in Receivers, m \in {"g", "sm", "f", "l", "pm", "none"}, args \in {<<>>, <<Id("a")>>}}
      \cup {In(Do(Call(m, args))) : m \in {"n", "equals"}, args \in Args}
      \cup UNION {InBoth(Do(Call(m, args))) : m \in {"v", "n", "st", "pm", "none"}, args \in {<<>>, <<Id("n")>>}}
      \cup {In(Do(Call("n", <<Call("n", <<e>>)>>))) : e \in Few}
      \cup {InMethod("K", s, Void, Do(Call(m, <<>>))) : s \in BOOLEAN, m \in {"f", "l"}}
Creations ==
    {In(Do(New(c, args))) : c \in {"A", "B", "C", "D", "F", "I", "K", "String"}, args \in Args}
      \cup {In(Let(t, NewArr(t, e))) : t \in {Arr("int"), Arr("A")}, e \in Atoms}
      \cup {In(Let(T("int"), At(q, e))) : q \in {Id("ns"), Id("as"), Id("o"), NewArr(Arr("int"), Lit("int")), VoidCall}, e \in Few}
      \cup {In(Let(Arr("int"), Ty(Arr("int")))), In(Do(Call("n", <<Ty(Arr("int"))>>)))}

InField(k, e) ==
    [unit |-> "D", static |-> "static" \in DFields[k].modifiers, ret |-> Void, params |-> <<>>, body |-> Null,
     field |-> DFields[k], init |-> [id |-> 1, tree |-> e]]
Initializers ==
    {InField(k, e) : k \in 1..5,
       e \in {Id(n) : n \in {"d1", "d2", "s1", "s2", "pi", "ps", "x"}} \cup {Dot(This, "d2"), Dot(This, "pi"), VoidCall, This, Lit("null")}
               \cup {Bin("Assignment", Id(n), Lit("int")) : n \in {"d1", "d2", "s2"}} \cup {Bin("Add", Id("d1"), Id("d2")), Dot(Id("x"), "i")}
               \cup {Call("n", <<Lit("int")>>), Call("st", <<>>), On(Id("D"), "st", <<>>), On(This, "n", <<Lit("int")>>)}}

----------------------------------------------------------------------------
\* Two declarations of one or two names, and a use, in every position that
\* blocks, loops and branches give them.
Local(id, name, n, e) == Stmt("Decl", X(id, e), <<>>, Var(name, T("int"), n))
Use(id, name) == Stmt("Expr", X(id, Bin("Assignment", Id(name), Lit("int"))), <<>>, NoVar)
While(id, s) == Stmt("While", X(id, Id("z")), <<s>>, NoVar)
IfElse(id, e, s, u) == Stmt("If", X(id, e), <<s, u>>, NoVar)
For(id, s, e, u, b) == Stmt("For", X(id, e), <<s, u, b>>, NoVar)

Shape(w, id, s) == CASE w = "block" -> Block(<<s>>)
                     [] w = "while" -> While(id, Block(<<s>>))
                     [] w = "if" -> IfElse(id, Id("z"), Block(<<s>>), Null)
                     [] w = "plain" -> s
Wraps == {"block", "while", "if", "plain"}

Less(name) == Bin("LessThan", Id(name), Lit("int"))
ScopeBodies ==
    {Block(<<Shape(w, 5, Local(1, m, 2, Lit("int"))), Shape(v, 6, Local(2, n, 3, Id(u))), Use(3, use)>>) :
        w \in Wraps, v \in Wraps, m \in {"t"}, n \in {"t", "u"}, u \in {"t", "u", "z", "d1"}, use \in {"t", "u", "d1"}}
      \cup {Block(<<Shape(w, 5, Local(1, "d1", 2, Lit("int"))), Use(2, "d1")>>) : w \in Wraps}
      \cup {Block(<<For(1, Local(2, "t", 2, Id(m)), Less(c), Use(3, u), Shape(w, 5, Local(4, n, 3, Id("t")))), Use(6, v)>>) :
              m \in {"t", "d1"}, c \in {"t", "u"}, u \in {"t", "u"}, w \in {"block", "while"}, n \in {"t", "u"}, v \in {"t", "d1"}}
      \cup {Block(<<IfElse(1, Less("d1"), Block(<<Local(2, "t", 2, Lit("int"))>>), Block(<<Local(3, n, 3, Id(m))>>))>>) :
              n \in {"t", "z"}, m \in {"t", "d1"}}
Scopes ==
    {[unit |-> "D", static |-> FALSE, ret |-> Void, params |-> ps, body |-> b, field |-> NoD, init |-> [id |-> 0, tree |-> This]] :
        ps \in {<<Var("z", T("boolean"), 1)>>}, b \in ScopeBodies}
      \cup {[In(Null) EXCEPT !.params = <<Var("z", T("int"), 1), Var("z", T("int"), 2)>>]}

MCBodies == Binaries \cup Unaries \cup Conversions \cup Paths \cup Calls \cup Creations \cup Initializers \cup Scopes
=============================================================================
