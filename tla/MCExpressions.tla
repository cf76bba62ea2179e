--------------------------- MODULE MCExpressions ---------------------------
(***************************************************************************)
(* Instance of Expressions and Autodiff: every operator over columns of    *)
(* every type, with constants on either side, and the combinations that    *)
(* the rewrites look for; derivatives of lambdas over one or two tables    *)
(* with numbers and arrays as columns.                                     *)
(***************************************************************************)
EXTENDS Autodiff

E(kind, args) == [e |-> kind, args |-> args]
Col(c) == E("column", <<>>) @@ [name |-> c]
Lit(k, n, p, s, text) == E("lit", <<>>) @@ [k |-> k, n |-> n, p |-> p, s |-> s, text |-> text]
Num(n) == Lit("int", n, 0, 0, <<>>)
Dec(n, p, s) == Lit("decimal", n, p, s, <<>>)
Text(t) == Lit("text", 0, 0, 0, t)
NullLit == Lit("null", 0, 0, 0, <<>>)
Date(n) == Lit("date", n, 0, 0, <<>>)
Days(n) == Lit("days", n, 0, 0, <<>>)
MonthsLit(n) == Lit("months", n, 0, 0, <<>>)
Bin(o, x, y) == E("bin", <<x, y>>) @@ [name |-> o]
Fn(f, args) == E("func", args) @@ [name |-> f]
CastTo(x, ty) == E("cast", <<x>>) @@ [ty |-> ty]
Case(args) == E("case", args) @@ [name |-> "searched"]
CaseOf(args) == E("case", args) @@ [name |-> "compare"]
And(x, y) == E("and", <<x, y>>)
Or(x, y) == E("or", <<x, y>>)
Not(x) == E("not", <<x>>)

a == Col("a")
b == Col("b")
d == Col("d")
f == Col("f")
s == Col("s")
c == Col("c")
t == Col("t")

MCColumnTypes ==
    LET of(ty, nullable) == [ty |-> ty, nullable |-> nullable]
    IN  [a |-> of(I32, TRUE), b |-> of(I64, FALSE), d |-> of(DecimalType(3, 1), TRUE),
         f |-> of(F64, TRUE), s |-> of(StringType, TRUE), c |-> of(CharType(2), FALSE),
         t |-> of(DateType, TRUE),
         x |-> of(F64, FALSE), y |-> of(F64, FALSE), i |-> of(I32, FALSE), k |-> of(F64, FALSE),
         e |-> of(DecimalType(3, 1), FALSE), m |-> of(ArrayType, FALSE), n |-> of(ArrayType, FALSE),
         u |-> of(ArrayType, FALSE), w |-> of(ArrayType, FALSE)]

\* Texts: A is 'a', B is 'b'.
A == 97
B == 98
MCRows ==
    LET some(values) == {[v |-> v] : v \in values}
        none == {Null}
        base == [a |-> [v |-> 2], b |-> [v |-> 3], d |-> [v |-> 16], f |-> [v |-> <<1, 2>>],
                 s |-> [v |-> <<A, B>>], c |-> [v |-> <<A, B>>], t |-> [v |-> 30]]
    IN  {[base EXCEPT !.a = x, !.b = y, !.d = z] :
            x \in none \cup some({-1, 0, 2, 5}), y \in some({0, 3}), z \in none \cup some({-24, 0, 37})}
        \cup {[base EXCEPT !.s = x, !.c = y] :
                 x \in none \cup some({<<>>, <<B>>, <<A, B>>, <<A, B, A>>, <<A, A, B, A, B>>}),
                 y \in some({<<A, B>>, <<B, A>>})}
        \cup {[base EXCEPT !.t = x, !.f = y] :
                 x \in none \cup some({0, 58, 790}), y \in none \cup some({<<-1, 2>>, <<3, 1>>})}

Comparisons == {"=", "<>", "<", ">", "<=", ">="}
NumberPairs == {<<a, b>>, <<b, a>>, <<a, Num(2)>>, <<d, a>>, <<d, Dec(25, 2, 1)>>, <<a, Dec(205, 3, 2)>>,
                <<f, a>>, <<d, f>>, <<Num(1), NullLit>>, <<a, NullLit>>}
\* Divisors of decimals have few digits, so that the quotient stays small.
DivisionPairs == {<<a, b>>, <<b, a>>, <<a, Num(2)>>, <<d, Dec(25, 2, 1)>>,
                  <<d, CastTo(Num(3), DecimalType(2, 0))>>, <<f, Num(2)>>}
TextPairs == {<<s, Text(<<A, B>>)>>, <<c, Text(<<A, B>>)>>, <<c, s>>, <<s, c>>, <<c, Text(<<B, A, B>>)>>}
Patterns == {<<Percent>>, <<A, Percent>>, <<Percent, B>>, <<A, Percent, B>>, <<A, B, Percent, A, B>>,
             <<Percent, A, B, Percent>>, <<Percent, A, Percent, B, Percent>>, <<A, Percent, Percent, A>>}

ArithmeticQueries ==
    {Bin(o, x[1], x[2]) : o \in {"+", "-", "*"}, x \in NumberPairs}
    \cup {Bin("/", x[1], x[2]) : x \in DivisionPairs}
    \cup {Bin("%", x, y) : x \in {a, b}, y \in {a, b, Num(2)}}
    \cup {E("neg", <<x>>) : x \in {a, d, f}}
    \cup {Bin("^", a, Num(3)), Bin("^", Num(2), b), Bin("*", Bin("+", Num(1), Num(2)), d),
          Bin("+", a, Bin("-", Dec(75, 2, 1), Dec(125, 3, 2))), Bin("+", Bin("+", Num(1), Num(2)), f),
          Fn("abs", <<a>>), Fn("abs", <<d>>), Fn("round", <<d, Num(0)>>), Fn("round", <<a, Num(1)>>),
          Fn("abs", <<Bin("/", a, b)>>)}
CompareQueries ==
    {Bin(o, x[1], x[2]) : o \in Comparisons, x \in NumberPairs \cup TextPairs}
    \cup {Bin(o, t, Date(58)) : o \in Comparisons}
    \cup {E("in", <<a, Num(2), Dec(50, 2, 1)>>), E("in", <<s, Text(<<B>>), Text(<<A, B>>)>>),
          Not(E("in", <<d, Num(0), b>>))}
    \cup {E(k, <<x, Num(0), Dec(37, 2, 1)>>) : k \in {"between", "notbetween"}, x \in {a, d, f}}
LogicalQueries ==
    LET p == {Bin(">", a, Num(0)), Bin("<", d, Num(2)), Bin("=", b, Num(0))}
        bound(o, n) == Bin(o, a, Num(n))
    IN  {And(x, y) : x \in p, y \in p} \cup {Or(x, y) : x \in p, y \in p}
        \cup {Not(And(x, y)) : x \in p, y \in p}
        \cup {And(bound(o1, 0), bound(o2, 2)) : o1 \in {">", ">="}, o2 \in {"<", "<=", "<>"}}
        \cup {And(And(bound(">", -1), x), And(bound(">=", 0), Bin(">", Num(5), a))) : x \in p}
        \cup {Or(And(x, y), And(x, z)) : x \in p, y \in p, z \in {bound("<>", 2)}}
        \cup {Or(And(x, And(y, bound(">", 0))), And(bound("<", 5), x)) : x \in p, y \in p}
        \cup {E(k, <<x>>) : k \in {"isnull", "notnull"}, x \in {a, b, Bin("+", a, d)}}
TextQueries ==
    {Bin(o, x, Text(p)) : o \in {"~~", "!~~"}, x \in {s, c}, p \in Patterns}
    \cup {Bin("~~", s, Bin("||", c, Text(p))) : p \in {<<Percent>>, <<Underscore, Percent, B>>}}
    \cup {Bin("||", x, y) : x \in {s, a}, y \in {c, s, b}}
    \cup {Fn("upper", <<s>>), Fn("substring", <<s, Num(1), Num(2)>>),
          CastTo(CastTo(a, StringType), I64), Bin("=", CastTo(b, StringType), Text(<<51>>))}
DateQueries ==
    {Bin(o, x, y) : o \in {"+", "-"}, x \in {t, Date(425)}, y \in {Days(3)}}
    \cup {Bin("+", t, MonthsLit(2)), Bin("-", Date(425), MonthsLit(1))}
    \cup {Fn("date_part", <<Text(part), t>>) : part \in {YearText, MonthText, DayText}}
BranchQueries ==
    LET isZero == Bin("=", b, Num(0))
        quotient == Bin("/", a, b)
    IN  {Case(<<isZero, Num(0), quotient>>), Case(<<isZero, NullLit, Bin(">", d, a), d>>),
         Case(<<Bin(">", a, Num(0)), Num(1), Bin("<", a, Num(0)), Dec(25, 2, 1), NullLit>>),
         Case(<<Bin(">", quotient, Num(0)), s, c>>),
         CaseOf(<<a, Num(2), Text(<<A>>), b, s, c>>), CaseOf(<<d, Num(0), a, Dec(37, 2, 1), b>>),
         E("coalesce", <<a, d, Num(1)>>), E("coalesce", <<a, quotient>>), E("coalesce", <<b, quotient>>),
         E("coalesce", <<s, c>>), Bin("/", b, a), And(Bin("<>", b, Num(0)), Bin(">", quotient, Num(1))),
         CastTo(a, F64), CastTo(a, DecimalType(5, 2)), CastTo(Num(2), DecimalType(3, 1)), CastTo(d, DecimalType(5, 2))}
    \cup {E("values", <<Num(1), Dec(25, 2, 1), NullLit>>) @@ [n |-> i] : i \in 1..3}
    \cup {Bin("+", E("values", <<Num(7), Dec(125, 3, 2)>>) @@ [n |-> 1], d)}

MCQueries == ArithmeticQueries \cup CompareQueries \cup LogicalQueries \cup TextQueries
             \cup DateQueries \cup BranchQueries
MCPayloads == {0, 1}

\* Lambdas over the tables p (numbers, one of them a whole one: the exponent
\* k), q (more numbers) and z (arrays of 2 x 2 and of 1 x 1 elements).
MCTables ==
    LET some(v) == [v |-> v]
        whole(rows) == [i \in 1..2 |-> [j \in 1..2 |-> <<rows[i][j], 1>>]]
        one(v) == << <<v>> >>
    IN  [p |-> {[x |-> some(v), k |-> some(w)] : v \in {<<-1, 1>>, <<1, 2>>, <<2, 1>>}, w \in {<<1, 1>>, <<3, 1>>}},
         q |-> {[y |-> some(v), i |-> some(w), e |-> some(15)] : v \in {<<3, 1>>, <<-1, 2>>}, w \in {0, 2}},
         z |-> {[m |-> some(whole(<<<<1, 2>>, <<-1, 3>>>>)), n |-> some(whole(<<<<0, 1>>, <<2, 1>>>>)),
                 u |-> some(one(<<3, 1>>)), w |-> some(one(<<-1, 2>>))],
                [m |-> some(whole(<<<<2, -1>>, <<1, 1>>>>)), n |-> some(whole(<<<<1, 0>>, <<3, 2>>>>)),
                 u |-> some(one(<<1, 2>>)), w |-> some(one(<<2, 1>>))]}]
Of(table, column) == E("column", <<>>) @@ [table |-> table, name |-> column]
Modes == {"derivatebackwards", "derivateforwards", "umbra.derivation"}

ScalarBodies ==
    LET x == Of("p", "x")
        y == Of("q", "y")
        i == Of("q", "i")
        e == Of("q", "e")
        k == Of("p", "k")
        operands == {x, y, i, e, Num(2), Dec(25, 2, 1)}
        functions == {"sqrt", "exp", "log", "sin", "cos", "sig"}
    IN  {Bin(o, v, w) : o \in {"+", "-", "*"}, v \in operands, w \in operands}
        \cup {Bin("/", v, w) : v \in {x, y, Num(2)}, w \in {x, y, Num(2)}}
        \cup {Bin("^", x, Num(2)), Bin("^", i, Num(3)), Bin("^", Bin("*", x, x), k)}
        \cup {Fn(g, <<v>>) : g \in functions, v \in {x, Bin("*", x, y), Bin("+", x, e)}}
        \cup {E("neg", <<v>>) : v \in {x, i, Bin("*", x, x)}}
        \cup {Bin(o, Bin(o2, x, y), Bin(o3, y, x)) : o \in {"+", "-", "*", "/"}, o2 \in {"-", "*"}, o3 \in {"*", "/"}}
        \cup {Bin("*", Fn("exp", <<Bin("*", x, y)>>), Bin("^", Fn("sin", <<x>>), Num(2))),
              Bin("/", Of("", "x"), Bin("+", Fn("exp", <<Of("", "x")>>), y)),
              Bin("-", Bin("^", Bin("-", y, Bin("+", Bin("*", x, i), e)), Num(2)), Bin("*", x, x))}
ArrayBodies ==
    LET m == Of("z", "m")
        n == Of("z", "n")
    IN  {Bin(o, v, w) : o \in {"+", "-"}, v \in {m, Num(2)}, w \in {m, n}}
        \cup {Bin("*", Num(2), m), Bin("*", m, Dec(25, 2, 1)), Bin("^", m, Num(2)),
              Fn("sig", <<m>>), Fn("sig", <<Bin("-", m, n)>>), Bin("^", Fn("sig", <<Bin("+", m, m)>>), Num(2)),
              Fn("sig", <<Fn("transpose", <<m>>)>>), Bin("+", Fn("sig", <<m>>), Bin("*", Num(3), m))}
\* Products of arrays are derived rightly by one mode only, see the README.
BackwardBodies ==
    LET m == Of("z", "m")
        n == Of("z", "n")
        u == Of("z", "u")
        w == Of("z", "w")
    IN  {E("neg", <<m>>), Bin("*", m, n), Bin("+", Bin("*", m, n), m), Bin("-", n, Bin("*", m, m)),
         Fn("sig", <<Bin("*", u, w)>>), Fn("sig", <<Bin("**", u, w)>>), Bin("*", Bin("*", u, w), u)}
ForwardBodies ==
    LET m == Of("z", "m")
        n == Of("z", "n")
        u == Of("z", "u")
        w == Of("z", "w")
    IN  {Bin("**", m, n), Bin("**", m, m), Fn("sig", <<Bin("**", n, m)>>), Bin("-", Bin("**", m, n), n),
         Bin("*", u, w), Bin("*", Bin("*", u, w), u)}

MCLambdas ==
    LET call(mode, params, body) == [mode |-> mode, params |-> params, body |-> body]
    IN  {call(mode, <<"p", "q">>, body) : mode \in {"derivatebackwards", "derivateforwards"}, body \in ScalarBodies}
        \cup {call(mode, <<"z">>, body) : mode \in Modes, body \in ArrayBodies}
        \cup {call("derivatebackwards", <<"z">>, body) : body \in BackwardBodies}
        \cup {call("derivateforwards", <<"z">>, body) : body \in ForwardBodies}
=============================================================================
