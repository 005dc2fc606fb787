------------------------------ MODULE JavaBodies ------------------------------
(***************************************************************************)
(* What the body of a static method does by the Java Language              *)
(* Specification (14, 15): the reference the emitted code is compared      *)
(* with. It is evaluated as a tree, over values of Java types; nothing is  *)
(* taken from the code generator but the widths.                           *)
(*                                                                         *)
(* The code generator departs from the language. A departure that has a    *)
(* meaning of its own is a member of D, the set the evaluation is          *)
(* parameterised by; where it emits code without one (an implicit widening *)
(* that is left out, a missing check for null, zero or a negative size,    *)
(* strings and objects, which are null, arrays of boolean, which have no   *)
(* room), the run is undefined.                                            *)
(*                                                                         *)
(* A value is <<"value", type, n>>, n being 0 for null and the number of   *)
(* the array otherwise; a variable is <<"local", type, name>>,             *)
(* <<"static", type, name>> or <<"elem", type, <<array, index>>>>. A run   *)
(* is a record of                                                          *)
(*   locals, statics   the values of the variables                         *)
(*   arrays            the arrays [type, elems] in the order of creation   *)
(*   log               the calls of other methods                          *)
(*   fuel              the iterations left before the run counts as endless*)
(*   outcome, value    as in TIRMachine                                    *)
(***************************************************************************)
EXTENDS CodeGen, TIRMachine

Departures ==
    { "late loads",           \* a variable is read when the operator needs it
      "both operands",        \* of && and ||, always
      "reversed arguments",   \* passed to a method
      "no instanceof",        \* never true
      "unsigned index",       \* of type byte or short, widened without sign
      "early checks",         \* of a[i] = e, before e is evaluated
      "same width",           \* a cast between char and short does nothing
      "signed char" }         \* char is compared with a sign

----------------------------------------------------------------------------
(* Values *)

Running(s) == s.outcome = "running"

Value(type, n) == <<"value", type, n>>
IsReference(type) == emitType(type) = "ptr"

\* n narrowed to the type.
Narrowed(n, type) ==
    IF type \notin NumericTypes \cup {"boolean"} THEN n
    ELSE IF type \in {"char", "boolean"} THEN Pattern(emitType(type), n)
    ELSE Signed(emitType(type), Pattern(emitType(type), n))

Read(s, v) ==
    CASE v[1] = "local"  -> With(Value(v[2], s.locals[v[3]]), s)
      [] v[1] = "static" -> With(Value(v[2], s.statics[v[3]]), s)
      [] v[1] = "elem" ->
           IF v[2] = "boolean" THEN With(v, Undefined(s))
           ELSE With(Value(v[2], s.arrays[v[3][1]].elems[v[3][2] + 1]), s)
      [] v[1] = "object" -> With(v, Undefined(s))
      [] OTHER -> With(v, s)

ReadAll(s, vs) ==
    FoldLeft(LAMBDA done, v : Collected(done, Read(done.state, v)),
             [values |-> <<>>, state |-> s], vs)

\* No code is emitted for an implicit conversion.
Fit(s, v, type) ==
    IF emitType(v[2]) = emitType(type) THEN With(Value(type, Narrowed(v[3], type)), s)
    ELSE With(v, Undefined(s))

Write(s, place, v) ==
    CASE place[1] = "local"  -> [s EXCEPT !.locals[place[3]] = v[3]]
      [] place[1] = "static" -> [s EXCEPT !.statics[place[3]] = v[3]]
      [] place[2] = "boolean" -> Undefined(s)
      [] OTHER -> [s EXCEPT !.arrays[place[3][1]].elems[place[3][2] + 1] = v[3]]

----------------------------------------------------------------------------
(* Expressions: trees of nodes *)

Leaf(s, n) == With([n |-> n, kids |-> <<>>], s)
Node(s, n, args) ==
    With([n |-> n, kids |-> IF n.node \in {"MethodInvocation", "ClassInstanceCreation"}
                            THEN <<Head(args)>> \o Reverse(Tail(args)) ELSE args], s)
Trees == INSTANCE ExprEvaluator WITH MapValue <- Leaf, EvalOp <- Node
Tree(list) == Trees!EvaluateList({}, list).value

Operand(n) ==
    CASE n.op = "Literal" /\ n.val.type = "String" -> <<"object", "String", 0>>
      [] n.op = "Literal"     -> Value(n.val.type, n.val.n)
      [] n.op = "Local"       -> <<"local", n.val.type, n.val.name>>
      [] n.op = "StaticField" -> <<"static", n.val.type, n.val.name>>
      [] n.op = "StaticMethod" -> <<"method", n.val.name, <<>>>>
      [] OTHER -> <<"name", n.val.type, n.val.name>>

InBounds(s, place) ==
    place[3][1] # 0 /\ place[3][2] \in 0..(Len(s.arrays[place[3][1]].elems) - 1)
Check(s, place) ==
    IF place[1] = "elem" /\ ~InBounds(s, place) THEN Stop(s, "thrown") ELSE s

Arithmetic(s, op, a, b) ==
    CASE op \in {"/", "%"} /\ b = 0 -> With(Value("int", 0), Undefined(s))
      [] op = "/" -> With(Value("int", Narrowed(Truncated(a, b), "int")), s)
      [] op = "%" -> With(Value("int", a - b * Truncated(a, b)), s)
      [] op \in {"&", "|"} ->
           With(Value("int", Narrowed(Computed(getBinOp[op], Pattern("i32", a), Pattern("i32", b)),
                                      "int")), s)
      [] OTHER -> With(Value("int", Narrowed(Computed(getBinOp[op], a, b), "int")), s)

Ordinal(D, v) ==
    IF "signed char" \in D /\ v[2] = "char" THEN Narrowed(v[3], "short") ELSE v[3]
Truth(b) == Value("boolean", IF b THEN 1 ELSE 0)

Comparison(D, s, op, l, r) ==
    LET a == Ordinal(D, l)
        b == Ordinal(D, r)
    IN IF emitType(l[2]) # emitType(r[2]) THEN With(l, Undefined(s))
       ELSE With(Truth(CASE op = "==" -> a = b
                         [] op = "!=" -> a # b
                         [] OTHER -> Holds(getPredicate[op], a, b)), s)

\* A method of an object, or the length of an array.
Member(s, n, obj, field) ==
    IF obj[3] = 0 THEN With(obj, Undefined(s))
    ELSE IF field[3] = "length" THEN With(Value("int", Len(s.arrays[obj[3]].elems)), s)
    ELSE With(<<"method", field[3], <<obj>>>>, s)

Bare(v) == <<emitType(v[2]), IF IsReference(v[2]) THEN v[3] ELSE Pattern(emitType(v[2]), v[3])>>

Invoke(D, s, n, method, args) ==
    LET f == Methods[method[2]]
        order == IF "reversed arguments" \in D THEN Reverse(args) ELSE args
        all == method[3] \o order
        passed == [k \in DOMAIN all |-> Bare(all[k])]
        count == Narrowed(s.statics["calls"] + 1, "int")
    IN IF [k \in DOMAIN passed |-> passed[k][1]] # f.params THEN With(method, Undefined(s))
       ELSE With(Value(n.val.type, Narrowed(count, n.val.type)),
                 [s EXCEPT !.statics["calls"] = count,
                           !.log = Append(@, <<method[2], passed>>)])

NewArrayOf(s, n, size) ==
    LET bytes == size * SizeInBytes[emitType(ElementType[n.val.type])]
    IN IF size < 0 \/ bytes # Pattern("i32", bytes) THEN With(Value("int", 0), Undefined(s))
       ELSE With(Value(n.val.type, Len(s.arrays) + 1),
                 [s EXCEPT !.arrays = Append(@, [type |-> ElementType[n.val.type],
                                                 elems |-> [k \in 1..size |-> 0]])])

Element(D, n, array, index) ==
    <<"elem", n.val.type,
      <<array[3], IF "unsigned index" \in D THEN Pattern(emitType(index[2]), index[3])
                  ELSE index[3]>>>>

CastTo(D, s, n, v) ==
    LET Converted(r) == With(Value(n.val.type, Narrowed(r.value[3], n.val.type)), r.state)
    IN IF n.val.type = "boolean" THEN With(v, s)
       ELSE IF "same width" \in D /\ emitType(v[2]) = emitType(n.val.type) THEN With(v, s)
       ELSE Converted(Read(s, v))

\* o: the operands that were read.
Operate(D, o, n) ==
    LET v == o.values
        s == o.state
    IN CASE ~Running(s) -> With(Value("int", 0), s)
         [] n.node = "BinaryOp" /\ n.op \in {"&&", "||"} ->
              With(Truth(IF n.op = "&&" THEN v[1][3] = 1 /\ v[2][3] = 1
                         ELSE v[1][3] = 1 \/ v[2][3] = 1), s)
         [] n.node = "BinaryOp" /\ n.op \in DOMAIN getPredicate ->
              Comparison(D, s, n.op, v[1], v[2])
         [] n.node = "BinaryOp" -> Arithmetic(s, n.op, v[1][3], v[2][3])
         [] n.node = "UnaryOp" ->
              With(IF n.op = "!" THEN Truth(v[1][3] = 0)
                   ELSE Value("int", Narrowed(-v[1][3], "int")), s)
         [] n.node = "MemberAccess" -> Member(s, n, v[1], v[2])
         [] n.node = "MethodInvocation" -> Invoke(D, s, n, v[1], Tail(v))
         [] n.node = "ArrayInstanceCreation" -> NewArrayOf(s, n, v[2][3])
         [] OTHER -> With(Element(D, n, v[1], v[2]), s)

\* o: the operands, which some operations do not read or return as they are.
Apply(D, o, n) ==
    LET v == o.values
        s == o.state
    IN CASE ~Running(s) -> With(Value("int", 0), s)
         [] n.node = "Cast" -> CastTo(D, s, n, v[2])
         [] n.node = "ClassInstanceCreation" -> With(<<"object", n.val.type, 0>>, s)
         [] n.op = "instanceof" ->
              IF "no instanceof" \in D THEN With(Truth(FALSE), s)
              ELSE With(Truth(Read(s, v[1]).value[3] # 0), Read(s, v[1]).state)
         [] n.node = "UnaryOp" /\ n.op = "+" -> With(v[1], Read(s, v[1]).state)
         [] OTHER -> Operate(D, ReadAll(s, v), n)

RECURSIVE Eval(_, _, _)

ReadNow(D, r) == IF "late loads" \in D THEN r ELSE Read(r.state, r.value)
Evaluated(D, s, t) == ReadNow(D, Eval(D, s, t))

EvalAll(D, s, kids) ==
    FoldLeft(LAMBDA done, t : Collected(done, Evaluated(D, done.state, t)),
             [values |-> <<>>, state |-> s], kids)

IsElement(t) == t.n.node = "ArrayAccess"
Target(D, s, t) ==
    IF IsElement(t) THEN Apply(D, EvalAll(D, s, t.kids), t.n) ELSE Eval(D, s, t)

Assigned(place, v) ==
    LET Written(fit) == IF Running(fit.state) THEN Write(fit.state, place, fit.value)
                        ELSE fit.state
    IN IF Running(v.state) THEN Written(Fit(v.state, v.value, place[2])) ELSE v.state

Assign(D, s, t) ==
    LET Early(target) == IF "early checks" \in D THEN Check(target.state, target.value)
                         ELSE target.state
        Late(target, s1, v) ==
          With(target, IF Running(s1) THEN Assigned(target, Read(s1, v)) ELSE s1)
        Checked(target, rhs) ==
          IF Running(rhs.state) THEN Late(target, Check(rhs.state, target), rhs.value) ELSE rhs
        To(target) == IF Running(target.state)
                      THEN Checked(target.value, Evaluated(D, Early(target), t.kids[2]))
                      ELSE target
    IN To(Target(D, s, t.kids[1]))

ShortCircuits(D, s, t) ==
    LET Right(l) == IF ~Running(l.state) \/ l.value = Truth(t.n.op = "||") THEN l
                    ELSE Evaluated(D, l.state, t.kids[2])
    IN Right(Evaluated(D, s, t.kids[1]))

Eval(D, s, t) ==
    CASE ~Running(s) -> With(Value("int", 0), s)
      [] t.kids = <<>> -> With(Operand(t.n), s)
      [] t.n.op = "=" -> Assign(D, s, t)
      [] t.n.op \in {"&&", "||"} /\ "both operands" \notin D -> ShortCircuits(D, s, t)
      [] IsElement(t) ->
           LET Checked(r) == With(r.value, IF Running(r.state) THEN Check(r.state, r.value)
                                           ELSE r.state)
           IN Checked(Target(D, s, t))
      [] OTHER -> Apply(D, EvalAll(D, s, t.kids), t.n)

----------------------------------------------------------------------------
(* Statements *)

\* The value of the expression of a statement.
ValueOfList(D, s, list) ==
    LET Loaded(r) == IF Running(r.state) THEN Read(r.state, r.value) ELSE r
    IN Loaded(Eval(D, s, Tree(list)))

RECURSIVE Run(_, _, _, _)

Iterate(D, s, stmt, returns) ==
    LET Parts == IF stmt.k = "For" THEN Tail(stmt.s) ELSE stmt.s
        Body(u) == FoldLeft(LAMBDA w, st : Run(D, w, st, returns), u, Parts)
        Again(u) == Run(D, u, [stmt EXCEPT !.k = "While", !.s = Parts], returns)
        From(c) == CASE ~Running(c.state) \/ c.value[3] = 0 -> c.state
                     [] s.fuel = 0 -> Stop(c.state, "endless")
                     [] OTHER -> Again(Body([c.state EXCEPT !.fuel = @ - 1]))
    IN From(IF stmt.e = <<>> THEN With(Truth(TRUE), s) ELSE ValueOfList(D, s, stmt.e))

ReturnFrom(s, returns) ==
    IF returns = "void" THEN Stop(s, "returned") ELSE Undefined(s)
ReturnValue(r, returns) ==
    LET Fitted(fit) == IF Running(fit.state)
                       THEN [Stop(fit.state, "returned") EXCEPT !.value = Bare(fit.value)]
                       ELSE fit.state
    IN IF Running(r.state) THEN Fitted(Fit(r.state, r.value, returns)) ELSE r.state

Run(D, s, stmt, returns) ==
    CASE ~Running(s) -> s
      [] stmt.k = "Block" -> FoldLeft(LAMBDA u, st : Run(D, u, st, returns), s, stmt.s)
      [] stmt.k = "Expr" -> Eval(D, s, Tree(stmt.e)).state
      [] stmt.k = "Decl" /\ stmt.e # <<>> ->
           Assigned(<<"local", stmt.var.type, stmt.var.name>>, ValueOfList(D, s, stmt.e))
      [] stmt.k = "If" ->
           LET Chosen(c) == IF ~Running(c.state) THEN c.state
                             ELSE Run(D, c.state, stmt.s[2 - c.value[3]], returns)
           IN Chosen(ValueOfList(D, s, stmt.e))
      [] stmt.k = "For" -> Iterate(D, Run(D, s, stmt.s[1], returns), stmt, returns)
      [] stmt.k = "While" -> Iterate(D, s, stmt, returns)
      [] stmt.k = "Return" ->
           IF stmt.e = <<>> THEN ReturnFrom(s, returns)
           ELSE ReturnValue(ValueOfList(D, s, stmt.e), returns)
      [] OTHER -> s
=============================================================================
