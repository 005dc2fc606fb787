--------------------------- MODULE MCLinkedProgram ---------------------------
(***************************************************************************)
(* Small programs: units in two packages, with and without java.lang, that *)
(* extend, import, override, implement and shadow each other.              *)
(***************************************************************************)
EXTENDS LinkedProgram

MCClasses    == {ObjectName}
MCInterfaces == {<<"java", "io", "Serializable">>}

JL == JavaLang
Method0(name, ms, ret) == [name |-> name, modifiers |-> ms, returnTy |-> ret, params |-> <<>>,
                           ctor |-> FALSE, body |-> {"abstract", "native"} \cap ms = {}]
Ctor(name, params) == [name |-> name, modifiers |-> {"public"}, returnTy |-> Void, params |-> params,
                       ctor |-> TRUE, body |-> TRUE]
FieldOf(name, ms, type) == [name |-> name, modifiers |-> ms, type |-> type]

Class(name, ms, super, ifs, fs, mthds) ==
    [kind |-> "class", name |-> name, modifiers |-> ms, super |-> super, interfaces |-> ifs,
     fields |-> fs, methods |-> mthds \o <<Ctor(name, <<>>)>>]
Iface(name, exts, mthds) ==
    [kind |-> "interface", name |-> name, modifiers |-> {"public"}, super |-> <<>>, interfaces |-> exts,
     fields |-> <<>>, methods |-> mthds]
Unit(pkg, imps, body) == [package |-> pkg, imports |-> imps, body |-> body]
On(p) == [type |-> p, onDemand |-> TRUE]
Single1(p) == [type |-> p, onDemand |-> FALSE]

\* The library: Object with two methods, one of them final, and Serializable.
Jdk == << Unit(JL, <<>>, Class("Object", {"public"}, <<>>, <<>>, <<>>,
               <<Method0("m", {"public"}, Int32), Method0("k", {"public", "final"}, Int32)>>)),
          Unit(<<"java", "io">>, <<>>, Iface("Serializable", <<>>, <<>>)) >>

----------------------------------------------------------------------------
(* Names: two declarations and a unit that imports and names them. *)
NameFamily ==
    {<<Unit(p1, <<>>, Class(n1, {"public"}, <<>>, <<>>, <<>>, <<>>)),
       Unit(p2, <<>>, Class(n2, {"public"}, <<>>, <<>>, <<>>, <<>>)),
       Unit(p3, imp, Class("A", {"public"}, <<>>, <<>>, <<FieldOf("f", {"public"}, t)>>, <<>>))>> \o Jdk :
        p1 \in {<<>>, <<"p">>, <<"p", "B">>}, n1 \in {"B", "Object", "p"},
        p2 \in {<<"q">>, <<"p">>}, n2 \in {"B", "A"},
        p3 \in {<<>>, <<"q">>},
        imp \in {<<>>, <<On(<<"p">>)>>, <<On(<<"p">>), On(<<"q">>)>>, <<Single1(<<"p", "B">>)>>,
                 <<Single1(<<"q", "A">>), Single1(<<"p", "B">>)>>, <<Single1(<<"p", "B">>), Single1(<<"q", "B">>)>>},
        t \in {<<"B">>, <<"p", "B">>, <<"Object">>, <<"p">>}}

----------------------------------------------------------------------------
(* Shapes of the hierarchy. *)
Shape(n) ==
    {Class(n, ms, s, i, <<>>, <<>>) : ms \in {{"public"}, {"public", "final"}},
        s \in {<<>>} \cup {<<<<x>>>> : x \in {"A", "B", "C"}}, i \in {<<>>, <<<<"B">>>>, <<<<"B">>, <<"C">>>>}}
    \cup {Iface(n, e, <<>>) : e \in {<<>>, <<<<"A">>>>, <<<<"B">>>>, <<<<"C">>>>, <<<<"B">>, <<"C">>>>}}
SmallShape(n) ==
    {Class(n, {"public"}, s, i, <<>>, <<>>) : s \in {<<>>} \cup {<<<<x>>>> : x \in {"A", "B"}}, i \in {<<>>, <<<<"A">>>>}}
    \cup {Iface(n, e, <<>>) : e \in {<<>>, <<<<"A">>>>, <<<<"C">>>>}}

ShapeFamily == {<<Unit(<<>>, <<>>, a), Unit(<<>>, <<>>, b), Unit(<<>>, <<>>, c)>> \o Jdk :
                  a \in Shape("A"), b \in SmallShape("B"), c \in SmallShape("C")}

----------------------------------------------------------------------------
(* Replacement of methods: C below B and I, which are below A or Object. *)
Option == {<<>>} \cup
          {<<Method0("m", ms, r)>> : ms \in {{"public"}, {"public", "abstract"}, {"public", "static"}, {"protected"}},
                                    r \in {Int32}}
          \cup {<<Method0("n", {"public", "abstract"}, Void)>>}
COption == {<<Method0("m", {"public"}, Int32)>>, <<Method0("m", {"public"}, Void)>>,
            <<Method0("n", {"public"}, Void), Method0("m", {"protected"}, Int32)>>, <<>>,
            <<Method0("n", {"public", "static"}, Void)>>}
IOption == {<<>>, <<Method0("n", {"public", "abstract"}, Void)>>, <<Method0("m", {"public", "abstract"}, Int32)>>,
            <<Method0("n", {"public", "abstract"}, Int32)>>}

MethodFamily ==
    {<<Unit(<<>>, <<>>, Class("B", {"public"} \cup ab, <<<<"A">>>>, <<<<"I">>>>, <<>>, b)),
       Unit(<<>>, <<>>, Class("A", {"public", "abstract"}, <<>>, <<>>, <<>>, a)),
       Unit(<<>>, <<>>, Iface("I", ext, i))>> \o Jdk :
        ab \in {{}, {"abstract"}}, a \in Option \cup COption, b \in COption, i \in IOption,
        ext \in {<<>>, <<<<"java", "io", "Serializable">>>>}}

----------------------------------------------------------------------------
(* Modifiers of a single method, and layout. *)
ModifierFamily ==
    {<<Unit(<<>>, <<>>, Class("A", {"public", "abstract"}, <<>>, <<>>, <<>>,
        <<[name |-> "f", modifiers |-> ms, returnTy |-> r, params |-> ps, ctor |-> FALSE, body |-> b]>>))>> \o Jdk :
        ms \in SUBSET {"public", "protected", "abstract", "static", "final", "native"},
        r \in {Void, Int32, <<"A">>}, ps \in {<<>>, <<Int32>>, <<<<"A">>>>}, b \in BOOLEAN}

InOrder(o, u, v) == IF o THEN <<u, v>> ELSE <<v, u>>

LayoutFamily ==
    {InOrder(o, Unit(<<>>, <<>>, Class("B", {"public"}, <<<<"A">>>>, <<<<"I">>>>, fb, b)),
                Unit(<<>>, <<>>, Class("A", {"public"}, <<>>, <<>>, fa, a))) \o
     <<Unit(<<>>, <<>>, Iface("I", <<>>, <<Method0("g", {"public", "abstract"}, Void)>>))>> \o Jdk :
        o \in BOOLEAN, fa \in {<<>>, <<FieldOf("x", {"public", "static"}, Int32)>>, <<FieldOf("x", {"public"}, Int32)>>},
        fb \in {<<>>, <<FieldOf("y", {"public"}, Int32), FieldOf("z", {"public"}, <<"A">>)>>},
        a \in {<<>>, <<Method0("g", {"public"}, Void)>>, <<Method0("g", {"public"}, Void), Method0("h", {"public", "static"}, Void)>>},
        b \in {<<>>, <<Method0("g", {"public"}, Void)>>,
               <<Method0("g", {"public"}, Void), [Method0("g", {"public"}, Void) EXCEPT !.params = <<<<"A">>>>]>>}}

\* The library is not given: the cache of java.lang fails.
NoLibrary == <<Unit(<<>>, <<>>, Class("A", {"public"}, <<>>, <<>>, <<>>, <<>>))>>

MCPrograms == {NoLibrary} \cup NameFamily \cup ShapeFamily \cup MethodFamily \cup ModifierFamily \cup LayoutFamily
=============================================================================
