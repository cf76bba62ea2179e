------------------------------ MODULE MCArrays ------------------------------
(***************************************************************************)
(* Array operations on small arrays: one to three levels, ragged arrays,   *)
(* NULLs, empty structures, headers, and texts that are refused.  The bits *)
(* of the longest arrays fill a byte, or all but one, two or three bits of *)
(* it, and of one operand a byte and a bit.                                *)
(***************************************************************************)
EXTENDS ArrayValues

MCSigmoid(x) == IF x > 0 THEN 1 ELSE 0
MCTextBits == <<FALSE, TRUE, TRUE, FALSE, FALSE, TRUE, FALSE, FALSE>>

K(trees) == <<"kids", trees>>
I(n) == <<"leaf", <<"int", n>>>>
D(n) == <<"leaf", <<"double", n>>>>
W(w) == <<"leaf", <<"word", w>>>>
N == <<"leaf", NULL>>
Text(header, body, type) == [header |-> header, body |-> body, type |-> type]

MCLong ==
    {Text(<<>>, K(<<N, I(1), I(2), I(1), N>>), "string"),
     Text(<<>>, K(<<K(<<I(1), I(2), N>>), K(<<I(1), N, I(2)>>)>>), "int"),
     Text(<<>>, K(<<N, I(1), I(2), I(1), I(2), I(1), N>>), "string"),
     Text(<<>>, K(<<I(1), N, I(2), I(1), I(2), I(1), I(2), N>>), "int")}

MCTexts ==
    MCLong
        \union
    {Text(<<>>, K(<<I(1), N, I(2)>>), type) : type \in {"int", "double", "string"}}
        \union
    {Text(<<>>, K(<<K(<<I(2), I(1)>>), K(<<I(-1), I(2)>>)>>), type) : type \in {"int", "double"}}
        \union
    {Text(<<>>, K(<<D(3), I(1)>>), "double"),
     Text(<<>>, K(<<D(3), W("a")>>), "string"),
     Text(<<>>, K(<<K(<<W("a")>>), K(<<N, W("b")>>)>>), "string"),
     Text(<<>>, K(<<K(<<I(1)>>), K(<<>>), K(<<N, I(2)>>)>>), "int"),
     Text(<<>>, K(<<K(<<K(<<I(1), I(2)>>), K(<<I(3)>>)>>), K(<<K(<<N>>)>>)>>), "int"),
     Text(<<>>, K(<<K(<<K(<<I(1)>>), K(<<I(2)>>)>>), K(<<K(<<I(3)>>), K(<<I(4)>>)>>)>>), "int"),
     Text(<<>>, K(<<K(<<>>), K(<<I(1)>>)>>), "int"),
     Text(<<<<0, 1>>>>, K(<<I(1), I(2)>>), "int"),
     Text(<<<<2, 3>>, <<0, 2>>>>, K(<<K(<<I(1)>>), K(<<I(2), N>>)>>), "int"),
     Text(<<<<0, 1>>, <<1, 2>>>>, K(<<K(<<I(1), I(2)>>), K(<<I(3), I(4)>>)>>), "double"),
     \* refused: elements on two levels, too many for the header, a header of no level, bad elements
     Text(<<>>, K(<<I(1), K(<<I(2)>>)>>), "int"),
     Text(<<>>, K(<<K(<<I(1)>>), I(2)>>), "int"),
     Text(<<<<1, 1>>>>, K(<<I(1), I(2)>>), "int"),
     Text(<<<<1, 1>>, <<1, 2>>>>, K(<<K(<<I(1)>>), K(<<I(2)>>)>>), "int"),
     Text(<<<<2, 1>>>>, K(<<I(1)>>), "int"),
     Text(<<>>, K(<<W("a")>>), "int")}

S(type, x) == <<"scalar", type, x>>
A(items) == <<"array", items>>
MCConstructors ==
    {<<S("int", 1), <<"null">>, S("int", 2)>>,
     <<S("int", 1), S("double", 3), S("int", 2)>>,
     <<S("int", 1), S("string", <<"word", "a">>)>>,
     <<S("string", <<"word", "a">>), <<"null">>, S("int", 1)>>,
     <<S("double", 1), S("string", <<"word", "a">>)>>,
     <<A(<<S("int", 1)>>)>>,
     <<A(<<S("int", 1), S("int", 2)>>), A(<<<<"null">>>>), A(<<S("double", 3)>>)>>,
     <<A(<<S("double", 1)>>), A(<<S("int", 3)>>)>>,
     <<A(<<A(<<S("int", 1)>>), A(<<S("int", 2)>>)>>), A(<<A(<<S("int", 3)>>)>>)>>}

B(body) == <<"block", fromString(<<>>, Tokens(body), "int")>>
MCGroups ==
    {<<"int", <<>>>>,
     <<"int", <<S("int", 1), S("int", 2), S("int", 1)>>>>,
     <<"double", <<S("int", 1), S("double", 3)>>>>,
     <<"string", <<S("string", <<"word", "a">>), S("string", <<"word", "b">>)>>>>,
     <<"int", <<B(K(<<I(1)>>)), B(K(<<I(2), N>>)), B(K(<<I(3)>>))>>>>}

MCOperands ==
    {Text(<<>>, K(<<I(3)>>), type) : type \in {"int", "string"}}
        \union
    {Text(<<>>, K(<<I(1), N>>), "int"),
     Text(<<>>, K(<<>>), "int"),
     Text(<<>>, K(<<N, I(1), N>>), "string"),
     Text(<<>>, K(<<I(1), N, I(2), I(1), I(2), I(1), I(2), N, N>>), "int"),
     Text(<<>>, K(<<I(1), D(-1)>>), "double"),
     Text(<<>>, K(<<K(<<I(1), I(2)>>), K(<<I(-2), I(1)>>)>>), "int"),
     Text(<<>>, K(<<K(<<I(1), I(2)>>), K(<<I(-2), I(1)>>)>>), "double")}

MCScalars == {<<"int", 2>>, <<"double", 3>>, <<"string", <<"word", "c">>>>}
MCChains ==
    {<<<<NULL, i>>>> : i \in 0..3} \union {<<<<NULL, i>>, <<NULL, j>>>> : i, j \in 1..2}
        \union
    {<<<<1, 1>>>>, <<<<2, 3>>>>, <<<<2, 1>>>>, <<<<0, 1>>>>,
     <<<<1, 2>>, <<2, 2>>>>, <<<<NULL, 2>>, <<1, 1>>>>, <<<<1, 2>>, <<0, 0>>>>, <<<<1, 3>>, <<1, 2>>, <<1, 1>>>>}

=============================================================================
