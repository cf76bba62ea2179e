---------------------------- MODULE Expressions ----------------------------
(***************************************************************************)
(* The path of a scalar SQL expression from its parse tree to the value    *)
(* that the generated code computes for a row: its translation to the DB   *)
(* dialect (lib/frontend/SQL/Parser.cpp), constant folding and             *)
(* canonicalization (lib/DB/DBOps.cpp), the elimination of NULLs           *)
(* (lib/DB/Transforms/EliminateNulls.cpp), the choice of runtime functions *)
(* (OptimizeRuntimeFunctions.cpp) and the lowering of every operation      *)
(* (lib/Conversion/DBToStd/LowerToStd.cpp), which is modelled by what the  *)
(* lowered code computes.  One step of the specification is one pass.      *)
(*                                                                         *)
(* A value of the DB dialect is the tree of operations that defines it:    *)
(* common subexpressions are eliminated before the canonicalizer runs, so  *)
(* two values are the same exactly when their trees are equal.             *)
(***************************************************************************)
EXTENDS Scalars

CONSTANTS
    Queries,       \* the parse trees of the expressions
    ColumnTypes,   \* for each column: its base type and whether it is nullable
    Rows,          \* the rows: for each column a machine value or Null
    Payloads       \* what an undefined payload may hold

VARIABLES query, op, phase, row, value

vars == <<query, op, phase, row, value>>

Null == [k |-> "null"]

(***************************************************************************)
(* Operations.  An attribute is a number n / d, a text or a name.          *)
(***************************************************************************)
NoAttr == [n |-> 0, d |-> 1, text |-> <<>>, name |-> ""]
Op(name, ty, nullable, args, attr) ==
    [op |-> name, ty |-> ty, nullable |-> nullable, args |-> args, attr |-> attr]
AnyNullable(args) == \E i \in DOMAIN args : args[i].nullable

ConstantOp(ty, attr) == Op("constant", ty, FALSE, <<>>, attr)
NullOp(ty) == Op("null", ty, TRUE, <<>>, NoAttr)
CastOp(v, ty, nullable) == Op("cast", ty, nullable, <<v>>, NoAttr)
AsNullableOp(v) == Op("as_nullable", v.ty, TRUE, <<v>>, NoAttr)
AsNullableIf(v, null) == Op("as_nullable", v.ty, TRUE, <<v, null>>, NoAttr)
IsNullOp(v) == Op("isnull", I1, FALSE, <<v>>, NoAttr)
NullableGetVal(v) == Op("getval", v.ty, FALSE, <<v>>, NoAttr)
LogicalOp(name, args, attr) == Op(name, I1, AnyNullable(args), args, attr)
NotOp(v) == LogicalOp("not", <<v>>, NoAttr)
CmpOp(pred, args) == LogicalOp("cmp", args, [NoAttr EXCEPT !.name = pred])
BetweenOp(args, lowerInclusive, upperInclusive) ==
    LogicalOp("between", args, [NoAttr EXCEPT !.n = IF lowerInclusive THEN 1 ELSE 0,
                                              !.d = IF upperInclusive THEN 1 ELSE 0])
DeriveTruth(v) == Op("truth", I1, FALSE, <<v>>, NoAttr)
IfOp(cond, then, else) == Op("if", then.ty, then.nullable, <<cond, then, else>>, NoAttr)
RuntimeCall(fn, ty, nullable, args) == Op("call", ty, nullable, args, [NoAttr EXCEPT !.name = fn])
ArithmeticOp(name, args) ==
    Op(name, CASE name \in {"add", "sub"} -> inferReturnType(args[1].ty, args[2].ty)
               [] name = "mul" -> inferMulReturnType(args[1].ty, args[2].ty)
               [] name = "div" -> inferDivReturnType(args[1].ty, args[2].ty)
               [] name = "mod" -> inferRemReturnType(args[1].ty, args[2].ty),
       AnyNullable(args), args, NoAttr)

castValueToType(v, ty, targetNullable) ==
    LET nullable == targetNullable \/ v.nullable
    IN  CASE v.ty = ty /\ v.nullable = nullable -> v
          [] v.op = "constant" /\ ~nullable -> [v EXCEPT !.ty = ty]
          [] v.op = "null" -> [v EXCEPT !.ty = ty]
          [] v.ty = ty /\ v.nullable # nullable -> AsNullableOp(v)
          [] v.ty # ty /\ nullable /\ ~v.nullable /\ v.op # "null" ->
                 AsNullableOp(CastOp(v, ty, FALSE))
          [] OTHER -> CastOp(v, ty, nullable)

getCommonTypeOfAll(values) ==
    FoldLeft(LAMBDA ty, v : getCommonBaseType(ty, v.ty), values[1].ty, values)
castAll(values, ty) == [i \in DOMAIN values |-> castValueToType(values[i], ty, FALSE)]
toCommonBaseTypes(values) == castAll(values, getCommonTypeOfAll(values))
\* Decimals keep their scales when they are multiplied or divided.
toCommonNumber(values) ==
    LET any(kind) == \E i \in DOMAIN values : values[i].ty.k = kind
    IN  IF any("decimal") /\ ~any("float")
        THEN [i \in DOMAIN values |->
                 IF values[i].ty.k = "decimal" THEN values[i]
                 ELSE castValueToType(values[i], DecimalType(19, 0), FALSE)]
        ELSE toCommonBaseTypes(values)

(***************************************************************************)
(* Arithmetic with arrays: a scalar is cast to the array's element type,   *)
(* and the runtime is told when it is the left operand of - or /.          *)
(***************************************************************************)
Float(n, d) == ConstantOp(F64, [NoAttr EXCEPT !.n = n, !.d = d, !.name = "number"])
ArrayFunction == ("add" :> "ArrayAdd") @@ ("sub" :> "ArraySub") @@ ("mul" :> "ArrayMul") @@ ("div" :> "ArrayDiv")
ScalarFunction == ("add" :> "ArrayScalarAddF64") @@ ("sub" :> "ArrayScalarSubF64")
                  @@ ("mul" :> "ArrayScalarMulF64") @@ ("div" :> "ArrayScalarDivF64")
translateArrayArithmetic(opType, left, right) ==
    LET nullable == left.nullable \/ right.nullable
        scalarIsLeft == left.ty # ArrayType
        array == IF scalarIsLeft THEN right ELSE left
        scalar == IF scalarIsLeft THEN left ELSE right
        flag == ConstantOp(I1, [NoAttr EXCEPT !.n = IF scalarIsLeft THEN 1 ELSE 0])
    IN  IF left.ty = ArrayType /\ right.ty = ArrayType
        THEN RuntimeCall(ArrayFunction[opType], ArrayType, nullable, <<left, right>>)
        ELSE RuntimeCall(ScalarFunction[opType], ArrayType, nullable,
                         <<array, CastOp(scalar, F64, scalar.nullable)>>
                         \o (IF opType \in {"sub", "div"} THEN <<flag>> ELSE <<>>))
IsArray(v) == v.ty = ArrayType

(***************************************************************************)
(* Translation of parse trees.                                             *)
(***************************************************************************)
stringToExpressionType ==
    ("+" :> "add") @@ ("-" :> "sub") @@ ("*" :> "mul") @@ ("/" :> "div") @@ ("%" :> "mod")
    @@ ("^" :> "power") @@ ("**" :> "mmul") @@ ("||" :> "concat") @@ ("~~" :> "like") @@ ("!~~" :> "notlike")
    @@ ("=" :> "eq") @@ ("<>" :> "neq") @@ ("<" :> "lt") @@ (">" :> "gt")
    @@ ("<=" :> "lte") @@ (">=" :> "gte")
ComparePredicates == {"eq", "neq", "lt", "gt", "lte", "gte"}

\* A decimal's digits are the ones written; short texts are chars.
translateConst(lit) ==
    LET number == [NoAttr EXCEPT !.n = lit.n, !.d = PowerOfTen[lit.s], !.name = "number"]
        text == [NoAttr EXCEPT !.text = lit.text, !.name = "text"]
    IN  CASE lit.k = "int" -> ConstantOp(I32, number)
          [] lit.k = "decimal" -> ConstantOp(DecimalType(lit.p, lit.s), number)
          [] lit.k = "text" -> ConstantOp(IF Len(lit.text) \in 1..8 THEN CharType(Len(lit.text))
                                          ELSE StringType, text)
          [] lit.k = "null" -> NullOp(NoneType)
          [] lit.k = "date" -> ConstantOp(DateType, number)
          [] lit.k = "days" -> ConstantOp(IntervalType(Daytime), number)
          [] lit.k = "months" -> ConstantOp(IntervalType(Months), number)

\* A number is negated by multiplying it with the float -1.0 and casting back.
translateUnaryMinus(v) ==
    IF IsArray(v) THEN RuntimeCall("ArrayScalarMulF64", ArrayType, v.nullable, <<v, Float(-1, 1)>>)
    ELSE castValueToType(ArithmeticOp("mul", toCommonBaseTypes(<<Float(-1, 1), v>>)), v.ty, v.nullable)

\* Whole numbers have a power of their own, arrays are multiplied repeatedly.
translatePower(left, right, common) ==
    LET float(v) == IF v.ty = F64 THEN v ELSE CastOp(v, F64, v.nullable)
    IN  CASE IsArray(left) -> FoldLeft(LAMBDA acc, i : translateArrayArithmetic("mul", acc, left),
                                       left, [i \in 1..(right.attr.n - 1) |-> i])
          [] ~IsArray(left) /\ common[1].ty.k = "int" ->
                 RuntimeCall("PowerInt", left.ty, left.nullable, <<left, right>>)
          [] OTHER -> RuntimeCall("PowerFloat", F64, common[1].nullable, <<float(common[1]), float(common[2])>>)

translateComparison(opType, common) ==
    LET like == RuntimeCall("Like", I1, AnyNullable(common), common)
    IN  CASE opType \in ComparePredicates -> CmpOp(opType, common)
          [] opType = "like" -> like
          [] opType = "notlike" -> NotOp(like)

translateBinaryExpression(opType, left, right) ==
    LET args == <<left, right>>
        common == toCommonBaseTypes(args)
        dateBy(fn) == RuntimeCall(fn, left.ty, left.nullable, args)
        string(v) == castValueToType(v, StringType, FALSE)
    IN  IF opType \in DOMAIN ArrayFunction /\ (IsArray(left) \/ IsArray(right))
        THEN translateArrayArithmetic(opType, left, right)
        ELSE
        CASE opType = "mmul" -> RuntimeCall("ArrayMMul", ArrayType, AnyNullable(args), args)
          [] opType \in {"add", "sub"} /\ left.ty.k = "date" /\ right.ty.k = "interval" ->
                 dateBy(IF opType = "add" THEN "DateAdd" ELSE "DateSubtract")
          [] opType \in {"add", "sub"} /\ left.ty.k # "date" -> ArithmeticOp(opType, common)
          [] opType \in {"mul", "div", "mod"} -> ArithmeticOp(opType, toCommonNumber(args))
          [] opType = "power" -> translatePower(left, right, common)
          [] opType \in ComparePredicates \cup {"like", "notlike"} -> translateComparison(opType, common)
          [] opType = "concat" ->
                 RuntimeCall("Concatenate", StringType, AnyNullable(args),
                             <<string(left), string(right)>>)

MathFunctions ==
    ("log" :> "Log") @@ ("sqrt" :> "Sqrt") @@ ("exp" :> "Exp") @@ ("sin" :> "Sin") @@ ("cos" :> "Cos")
FloatOfDecimal(v) == IF v.ty.k = "decimal" THEN CastOp(v, F64, v.nullable) ELSE v
translateMathFunction(fn, v) ==
    LET val == FloatOfDecimal(v)
    IN  RuntimeCall(MathFunctions[fn], val.ty, val.nullable, <<val>>)
\* The sigmoid function: 1 / (1 + exp(-x)) for a number.
OneByOnePlus(v) == ArithmeticOp("div", <<Float(1, 1), ArithmeticOp("add", <<Float(1, 1), v>>)>>)
ExpOf(v) == RuntimeCall("Exp", v.ty, v.nullable, <<v>>)
translateSigmoid(v) ==
    IF IsArray(v) THEN RuntimeCall("ArraySigmoid", v.ty, v.nullable, <<v>>)
    ELSE OneByOnePlus(ExpOf(ArithmeticOp("mul", toCommonBaseTypes(<<Float(-1, 1), FloatOfDecimal(v)>>))))
translateFuncCallExpression(fn, args) ==
    LET call(name) == RuntimeCall(name, args[1].ty, args[1].nullable, args)
    IN  CASE fn \in DOMAIN MathFunctions -> translateMathFunction(fn, args[1])
          [] fn = "sig" -> translateSigmoid(args[1])
          [] fn = "transpose" -> call("ArrayTranspose")
          [] fn = "abs" -> call(IF args[1].ty.k = "decimal" THEN "AbsDecimal" ELSE "AbsInt")
          [] fn = "round" -> call(IF args[1].ty.k = "int" THEN "RoundInt" ELSE "RoundDecimal")
          [] fn = "upper" -> call("ToUpper")
          [] fn = "substring" -> call("Substring")
          [] fn = "date_part" -> RuntimeCall("ExtractFromDate", I64, AnyNullable(args), args)

\* IN and BETWEEN bring all their operands to one type.
translateIn(val, values) == LogicalOp("oneof", toCommonBaseTypes(<<val>> \o values), NoAttr)
translateBetween(val, lower, upper, negated) ==
    LET between == BetweenOp(toCommonBaseTypes(<<val, lower, upper>>), TRUE, TRUE)
    IN  IF negated THEN NotOp(between) ELSE between

\* CASE: the conditions are tried in order; without an ELSE it ends in NULL.
RECURSIVE translateWhenCaseExpression(_, _, _)
translateWhenCaseExpression(compare, whens, default) ==
    IF whens = <<>> THEN default
    ELSE LET when == Head(whens)
             else == translateWhenCaseExpression(compare, Tail(whens), default)
             cond == IF compare = <<>> THEN when[1]
                     ELSE CmpOp("eq", toCommonBaseTypes(<<when[1]>> \o compare))
             ty == getCommonBaseType(when[2].ty, else.ty)
             nullable == when[2].nullable \/ else.nullable
         IN  IfOp(DeriveTruth(cond), castValueToType(when[2], ty, nullable),
                  castValueToType(else, ty, nullable))

\* COALESCE: the first value that is not NULL, NULL behind the last one.
RECURSIVE translateCoalesceExpression(_)
translateCoalesceExpression(values) ==
    IF values = <<>> THEN NullOp(NoneType)
    ELSE LET v == Head(values)
             else == translateCoalesceExpression(Tail(values))
             ty == getCommonBaseType(v.ty, else.ty)
             isNull == IF v.nullable THEN IsNullOp(v) ELSE ConstantOp(I1, NoAttr)
         IN  IfOp(NotOp(isNull), castValueToType(v, ty, TRUE), castValueToType(else, ty, TRUE))

\* VALUES: a column has the common type of its rows, each of which is a
\* constant of that type.
ConstantOfType(c, ty, nullable) ==
    IF c.op = "null" THEN NullOp(ty)
    ELSE IF nullable THEN AsNullableOp(ConstantOp(ty, c.attr)) ELSE ConstantOp(ty, c.attr)
ConstantsOfType(constants, ty) ==
    [i \in DOMAIN constants |-> ConstantOfType(constants[i], ty, AnyNullable(constants))]
ConstantsOfCommonType(constants) == ConstantsOfType(constants, getCommonTypeOfAll(constants))
translateConstRelation(literals) ==
    ConstantsOfCommonType([i \in DOMAIN literals |-> translateConst(literals[i])])

RECURSIVE translateExpression(_)
translateExpression(e) ==
    LET args == [i \in DOMAIN e.args |-> translateExpression(e.args[i])]
        rest == Tail(args)
    IN  CASE e.e = "lit" -> translateConst(e)
          [] e.e = "column" -> Op("column", ColumnTypes[e.name].ty, ColumnTypes[e.name].nullable,
                                  <<>>, [NoAttr EXCEPT !.name = e.name])
          [] e.e = "bin" -> translateBinaryExpression(stringToExpressionType[e.name], args[1], args[2])
          [] e.e = "neg" -> translateUnaryMinus(args[1])
          [] e.e = "cast" -> IF args[1].op = "constant" THEN [args[1] EXCEPT !.ty = e.ty]
                             ELSE castValueToType(args[1], e.ty, FALSE)
          [] e.e = "in" -> translateIn(args[1], rest)
          [] e.e \in {"between", "notbetween"} ->
                 translateBetween(args[1], args[2], args[3], e.e = "notbetween")
          [] e.e \in {"and", "or"} -> LogicalOp(e.e, args, NoAttr)
          [] e.e = "not" -> NotOp(args[1])
          [] e.e \in {"isnull", "notnull"} ->
                 IF args[1].nullable
                 THEN IF e.e = "isnull" THEN IsNullOp(args[1]) ELSE NotOp(IsNullOp(args[1]))
                 ELSE ConstantOp(I1, [NoAttr EXCEPT !.n = IF e.e = "notnull" THEN 1 ELSE 0])
          [] e.e = "func" -> translateFuncCallExpression(e.name, args)
          [] e.e = "case" ->
                 \* arguments: the WHENs and THENs in turn, then the ELSE if any;
                 \* with name "compare" the compared value comes first
                 LET compare == IF e.name = "compare" THEN <<args[1]>> ELSE <<>>
                     list == IF e.name = "compare" THEN rest ELSE args
                     whens == [i \in 1..(Len(list) \div 2) |-> <<list[2 * i - 1], list[2 * i]>>]
                     default == IF Len(list) % 2 = 1 THEN Last(list) ELSE NullOp(NoneType)
                 IN  translateWhenCaseExpression(compare, whens, default)
          [] e.e = "coalesce" -> translateCoalesceExpression(args)
          [] e.e = "values" -> translateConstRelation(e.args)[e.n]

(***************************************************************************)
(* Constant folding (ConstantOp::fold, AddOp::fold, SubOp::fold,           *)
(* CastOp::fold, dateAddFoldFn, dateSubtractFoldFn): the machine value of  *)
(* a constant is what its attribute is parsed to; a folded operation is    *)
(* materialized as a constant again.                                       *)
(***************************************************************************)
parse(ty, attr) ==
    CASE ty = I1 -> attr.n = 1
      [] ty.k \in {"string", "char"} -> attr.text
      [] ty.k = "decimal" -> Quotient(attr.n * PowerOfTen[ty.s], attr.d)
      [] ty.k = "float" -> Fraction(attr.n, attr.d)
      [] OTHER -> Quotient(attr.n, attr.d)
materializeConstant(ty, v) ==
    ConstantOp(ty, [NoAttr EXCEPT !.name = "number",
                    !.n = IF ty.k = "float" THEN v[1] ELSE v,
                    !.d = CASE ty.k = "float" -> v[2]
                            [] ty.k = "decimal" -> PowerOfTen[ty.s]
                            [] OTHER -> 1])

Constants(args) == \A i \in DOMAIN args : args[i].op = "constant"
fold(o) ==
    LET v(i) == parse(o.args[i].ty, o.args[i].attr)
        from == o.args[1].ty
        integers == \A i \in DOMAIN o.args : o.args[i].ty.k \in {"int", "decimal"}
        months == o.args[2].ty = IntervalType(Months)
    IN  CASE o.op = "constant" /\ (o.ty.k \in {"decimal", "float"} \/ o.ty \in {I32, I64}) ->
                 materializeConstant(o.ty, parse(o.ty, o.attr))
          [] o.op \in {"add", "sub"} /\ Constants(o.args) /\ integers
                 /\ (from = o.args[2].ty \/ from.k = "decimal") ->
                 materializeConstant(o.ty, IF o.op = "add" THEN v(1) + v(2) ELSE v(1) - v(2))
          [] o.op = "cast" /\ Constants(o.args) /\ from.k = "int" /\ o.ty.k \in {"float", "decimal"} ->
                 materializeConstant(o.ty, IF o.ty.k = "float" THEN Fraction(v(1), 1)
                                           ELSE v(1) * getDecimalScaleMultiplier(o.ty.s))
          [] o.op = "cast" /\ Constants(o.args) /\ from.k = "float" /\ o.ty.k = "int" ->
                 materializeConstant(o.ty, Quotient(v(1)[1], v(1)[2]))
          [] o.op = "call" /\ o.attr.name \in {"DateAdd", "DateSubtract"} /\ Constants(o.args) ->
                 LET n == IF o.attr.name = "DateAdd" THEN v(2) ELSE -v(2)
                 IN  materializeConstant(o.ty, IF months THEN addMonths(v(1), n) ELSE v(1) + n)
          [] OTHER -> o

(***************************************************************************)
(* Canonicalization of conjunctions: nested ones are flattened, equal      *)
(* operands occur once, and the last lower and the last upper bound of a   *)
(* value become one BETWEEN if both are constants.                         *)
(***************************************************************************)
RECURSIVE Conjuncts(_)
Conjuncts(o) ==
    IF o.op = "and" THEN FoldLeft(LAMBDA acc, v : acc \o Conjuncts(v), <<>>, o.args) ELSE <<o>>

BoundsAbove(cmp, v) == \/ cmp.attr.name \in {"lt", "lte"} /\ cmp.args[1] = v
                       \/ cmp.attr.name \in {"gt", "gte"} /\ cmp.args[1] # v /\ cmp.args[2] = v
BoundsBelow(cmp, v) == \/ cmp.attr.name \in {"gt", "gte"} /\ cmp.args[1] = v
                       \/ cmp.attr.name \in {"lt", "lte"} /\ cmp.args[1] # v /\ cmp.args[2] = v
Inclusive(cmp) == cmp.attr.name \in {"lte", "gte"}
BoundOf(cmp, v) == IF cmp.args[1] = v THEN cmp.args[2] ELSE cmp.args[1]

\* Mutant: the BETWEEN includes its upper bound whatever the comparison was.
BetweenOfInclusive(v, lower, upper) ==
    BetweenOp(<<v, BoundOf(lower, v), BoundOf(upper, v)>>, Inclusive(lower), TRUE)
BetweenOf(v, lower, upper) ==
    BetweenOp(<<v, BoundOf(lower, v), BoundOf(upper, v)>>, Inclusive(lower), Inclusive(upper))

ComparisonsOf(leaves) == SelectSeq(leaves, LAMBDA v : v.op = "cmp")
UpperBounds(cmps, v) == SelectSeq(cmps, LAMBDA cmp : BoundsAbove(cmp, v))
LowerBounds(cmps, v) == SelectSeq(cmps, LAMBDA cmp : BoundsBelow(cmp, v))
EndsInConstant(bounds, v) == bounds # <<>> /\ BoundOf(Last(bounds), v).op = "constant"
Ranged(cmps) ==
    {v \in UNION {ToSet(cmp.args) : cmp \in ToSet(cmps)} :
        /\ v.op # "constant"
        /\ EndsInConstant(UpperBounds(cmps, v), v)
        /\ EndsInConstant(LowerBounds(cmps, v), v)}
WithBetweens(leaves, ranges) ==
    (ToSet(leaves) \ UNION {{r.lower, r.upper} : r \in ranges})
    \cup {BetweenOf(r.v, r.lower, r.upper) : r \in ranges}
Conjunction(o, operands) ==
    CASE Cardinality(operands) = 1 -> CHOOSE v \in operands : TRUE
      [] Cardinality(operands) \notin {1, Len(o.args)} -> LogicalOp("and", SetToSeq(operands), NoAttr)
      [] OTHER -> o
ConjunctionOf(o, leaves, cmps) ==
    Conjunction(o, WithBetweens(leaves,
        {[v |-> v, lower |-> Last(LowerBounds(cmps, v)), upper |-> Last(UpperBounds(cmps, v))] :
            v \in Ranged(cmps)}))
AndOfLeaves(o, leaves) == ConjunctionOf(o, leaves, ComparisonsOf(leaves))
AndCanonicalize(o) == AndOfLeaves(o, Conjuncts(o))

\* A disjunction of conjunctions: what they have in common is moved out.
OrCanonicalize(o) ==
    LET conjunctions == \A i \in DOMAIN o.args : o.args[i].op = "and"
        common == {v \in UNION {ToSet(o.args[i].args) : i \in DOMAIN o.args} :
                      \A i \in DOMAIN o.args : v \in ToSet(o.args[i].args)}
        keep(and) == SelectSeq(and.args, LAMBDA v : v \notin common)
        kept == SelectSeq(o.args, LAMBDA and : keep(and) # <<>>)
        rest == [i \in DOMAIN kept |-> LogicalOp("and", keep(kept[i]), NoAttr)]
    IN  IF ~conjunctions \/ common = {} THEN o
        ELSE LogicalOp("and", SetToSeq(common) \o (IF Len(rest) > 1
                                                   THEN <<LogicalOp("or", rest, NoAttr)>>
                                                   ELSE rest), NoAttr)

Canonical(o) ==
    CASE o.op = "and" -> AndCanonicalize(o)
      [] o.op = "or" -> OrCanonicalize(o)
      [] OTHER -> o
\* Patterns are applied until nothing changes.
RECURSIVE canonicalize(_), UntilCanonical(_, _)
UntilCanonical(o, canonical) == IF canonical = o THEN o ELSE canonicalize(canonical)
CanonicalizeNode(o) == UntilCanonical(o, Canonical(o))
canonicalize(o) ==
    CanonicalizeNode(fold([o EXCEPT !.args = [i \in DOMAIN o.args |-> canonicalize(o.args[i])]]))

(***************************************************************************)
(* EliminateNulls: an operation that cannot handle NULLs works on the      *)
(* payloads of its operands.  It may do so even if an operand is NULL when *)
(* it stands any payload, else it is put under a test of the operands.     *)
(***************************************************************************)
needsNullWrap(o) ==
    o.op \in {"add", "sub", "mul", "div", "mod", "cmp", "between", "oneof", "not", "cast", "call"}
\* Mutant: divisions are said to stand any payload too.
supportsInvalidValuesDiv(o) == o.op \in {"add", "sub", "mul", "not", "cmp", "cast", "div"}
supportsInvalidValues(o) ==
    \/ o.op \in {"add", "sub", "mul", "not"}
    \/ o.op \in {"cmp", "cast"} /\ o.ty # StringType /\ o.args[1].ty # StringType
    \/ o.op = "call" /\ o.attr.name \in {"DateAdd", "DateSubtract", "AbsInt", "AbsDecimal"}

WrapWithNullCheck(o) ==
    LET nullables == SelectSeq(o.args, LAMBDA v : v.nullable)
        isAnyNull == FoldLeft(LAMBDA acc, v : Op("ori", I1, FALSE, <<acc, IsNullOp(v)>>, NoAttr),
                              IsNullOp(Head(nullables)), Tail(nullables))
        onValues == [o EXCEPT !.nullable = FALSE,
                              !.args = [i \in DOMAIN o.args |->
                                           IF o.args[i].nullable THEN NullableGetVal(o.args[i])
                                           ELSE o.args[i]]]
    IN  CASE ~(o.nullable /\ needsNullWrap(o) /\ nullables # <<>>) -> o
          [] supportsInvalidValues(o) -> AsNullableIf(onValues, isAnyNull)
          [] OTHER -> IfOp(isAnyNull, NullOp(o.ty), AsNullableOp(onValues))

\* A condition holds when it is not NULL and true.
EliminateDeriveTruth(v) ==
    IF v.nullable
    THEN Op("andi", I1, FALSE, <<Op("not", I1, FALSE, <<IsNullOp(v)>>, NoAttr), NullableGetVal(v)>>, NoAttr)
    ELSE v

RECURSIVE eliminateNulls(_)
eliminateNulls(o) ==
    LET args == [i \in DOMAIN o.args |-> eliminateNulls(o.args[i])]
    IN  IF o.op = "truth" THEN EliminateDeriveTruth(args[1])
        ELSE WrapWithNullCheck([o EXCEPT !.args = args])

(***************************************************************************)
(* OptimizeRuntimeFunctions: LIKE with a constant pattern is compiled, and *)
(* the part of a date that is extracted is chosen by its constant name.    *)
(***************************************************************************)
YearText == <<121, 101, 97, 114>>
MonthText == <<109, 111, 110, 116, 104>>
DayText == <<100, 97, 121>>
DateParts == (YearText :> "ExtractYearFromDate") @@ (MonthText :> "ExtractMonthFromDate")
             @@ (DayText :> "ExtractDayFromDate")
RECURSIVE optimizeRuntimeFunctions(_)
optimizeRuntimeFunctions(o) ==
    LET args == [i \in DOMAIN o.args |-> optimizeRuntimeFunctions(o.args[i])]
        text(i) == args[i].op = "constant" /\ args[i].ty.k \in {"string", "char"}
    IN  CASE o.op = "call" /\ o.attr.name = "Like" /\ text(2) ->
                 RuntimeCall("ConstLike", o.ty, o.nullable, args)
          [] o.op = "call" /\ o.attr.name = "ExtractFromDate" /\ text(1) ->
                 RuntimeCall(DateParts[args[1].attr.text], o.ty, o.nullable, Tail(args))
          [] OTHER -> [o EXCEPT !.args = args]

(***************************************************************************)
(* What the lowered code computes for a row.  A result is a payload, a     *)
(* NULL flag and whether a division by zero was executed on the way.  The  *)
(* payload of a NULL is undefined: it may hold anything of its type.       *)
(***************************************************************************)
Undef(ty, p) ==
    CASE ty = I1 -> p = 1
      [] ty.k = "float" -> <<p, 1>>
      [] ty.k \in {"string", "char"} -> [i \in 1..p |-> 97]
      [] ty.k = "date" -> 400 + p
      [] OTHER -> p

Result(v, nul, trap) == [v |-> v, nul |-> nul, trap |-> trap]

StringCmpOpLowering(pred, a, b) ==
    CASE pred = "eq" -> a = b
      [] pred = "neq" -> a # b
      [] pred = "lt" -> compareLt(a, b)
      [] pred = "gt" -> compareLt(b, a)
      [] pred = "lte" -> ~compareLt(b, a)
      [] pred = "gte" -> ~compareLt(a, b)
CmpOpLowering(pred, ty, a, b) ==
    LET lt(x, y) == IF ty.k = "float" THEN x[1] * y[2] < y[1] * x[2] ELSE x < y
    IN  CASE pred = "eq" -> a = b
          [] pred = "neq" -> a # b
          [] pred = "lt" -> lt(a, b)
          [] pred = "gt" -> lt(b, a)
          [] pred = "lte" -> ~lt(b, a)
          [] pred = "gte" -> ~lt(a, b)
Compare(pred, ty, a, b) ==
    IF ty.k \in {"string", "char"} THEN StringCmpOpLowering(pred, a, b)
    ELSE CmpOpLowering(pred, ty, a, b)

BetweenLowering(o, v) ==
    /\ Compare(IF o.attr.n = 1 THEN "gte" ELSE "gt", o.args[1].ty, v[1], v[2])
    /\ Compare(IF o.attr.d = 1 THEN "lte" ELSE "lt", o.args[1].ty, v[1], v[3])
OneOfLowering(o, v) == \E i \in 2..Len(v) : Compare("eq", o.args[1].ty, v[1], v[i])

DecimalOpScaled(o) == PowerOfTen[o.ty.s + o.args[2].ty.s - o.args[1].ty.s]
DecimalMul(o, a, b) ==
    Quotient(a * b, PowerOfTen[o.args[1].ty.s + o.args[2].ty.s - o.ty.s])
DecimalBinOp(o, a, b) == IF o.op = "add" THEN a + b ELSE a - b
BinOp(o, a, b) ==
    IF o.ty.k = "float"
    THEN FloatArithmetic(o.op, a, b)
    ELSE CASE o.op = "add" -> a + b
           [] o.op = "sub" -> a - b
           [] o.op = "mul" -> a * b
           [] o.op = "div" -> Quotient(a, b)
           [] o.op = "mod" -> Remainder(a, b)
Arithmetic(o, a, b) ==
    CASE o.ty.k # "decimal" -> BinOp(o, a, b)
      [] o.ty.k = "decimal" /\ o.op \in {"add", "sub"} -> DecimalBinOp(o, a, b)
      [] o.ty.k = "decimal" /\ o.op = "mul" -> DecimalMul(o, a, b)
      [] o.ty.k = "decimal" /\ o.op = "div" -> Quotient(a * DecimalOpScaled(o), b)
      [] o.ty.k = "decimal" /\ o.op = "mod" -> Remainder(a * DecimalOpScaled(o), b)

StringCast(from, to, v) ==
    CASE from.k \in {"char", "string"} /\ to.k = "string" -> v
      [] from.k = "string" /\ to.k = "int" -> toInt(v)
      [] from.k = "int" /\ to.k = "string" -> fromInt(v)
Cast(from, to, v) ==
    CASE from = to -> v
      [] from # to /\ "string" \in {from.k, to.k} -> StringCast(from, to, v)
      [] from.k = "int" /\ to.k = "int" -> v
      [] from.k = "int" /\ to.k = "float" -> <<v, 1>>
      [] from.k = "int" /\ to.k = "decimal" -> v * getDecimalScaleMultiplier(to.s)
      [] from.k = "float" /\ to.k = "float" -> v
      [] from.k = "float" /\ to.k = "int" -> Quotient(v[1], v[2])
      [] from.k = "float" /\ to.k = "decimal" -> Quotient(v[1] * PowerOfTen[to.s], v[2])
      [] from.k = "decimal" /\ to.k = "float" -> Fraction(v, PowerOfTen[from.s])
      [] from.k = "decimal" /\ to.k = "int" -> Quotient(v, PowerOfTen[from.s])
      [] from.k = "decimal" /\ to.k = "decimal" ->
             IF from.s < to.s THEN v * PowerOfTen[to.s - from.s]
             ELSE Quotient(v, PowerOfTen[from.s - to.s])

ArrayFunctions == Range(ArrayFunction) \cup Range(ScalarFunction)
                  \cup {"ArrayMMul", "ArrayTranspose", "ArraySigmoid", "ArrayFillDouble"}
ArrayCall(name, v) ==
    LET scalar(opType) == IF Len(v) = 3 /\ v[Len(v)] THEN elementwise(opType, arrayFill(v[2], v[1]), v[1])
                          ELSE elementwise(opType, v[1], arrayFill(v[2], v[1]))
    IN  CASE name = "ArrayAdd" -> elementwise("add", v[1], v[2])
          [] name = "ArraySub" -> elementwise("sub", v[1], v[2])
          [] name = "ArrayMul" -> elementwise("mul", v[1], v[2])
          [] name = "ArrayDiv" -> elementwise("div", v[1], v[2])
          [] name = "ArrayScalarAddF64" -> scalar("add")
          [] name = "ArrayScalarSubF64" -> scalar("sub")
          [] name = "ArrayScalarMulF64" -> scalar("mul")
          [] name = "ArrayScalarDivF64" -> scalar("div")
          [] name = "ArrayMMul" -> matrixMul(v[1], v[2])
          [] name = "ArrayTranspose" -> arrayTranspose(v[1])
          [] name = "ArraySigmoid" -> arraySigmoid(v[1])
          [] name = "ArrayFillDouble" -> arrayFill(v[1], v[2])
Call(o, v) ==
    LET months == o.args[2].ty = IntervalType(Months)
        name == o.attr.name
    IN  CASE name = "Like" -> iterativeLike(v[1], v[2])
          [] name = "ConstLike" -> constLike(v[1], v[2])
          [] name = "Concatenate" -> concat(v[1], v[2])
          [] name = "ToUpper" -> toUpper(v[1])
          [] name = "Substring" -> substr(v[1], v[2], v[3])
          [] name \in {"AbsInt", "AbsDecimal"} -> IF v[1] < 0 THEN 0 - v[1] ELSE v[1]
          [] name = "RoundInt" -> v[1]
          [] name = "RoundDecimal" -> roundDecimal(v[1], v[2], o.args[1].ty.s)
          [] name = "PowerInt" -> powInt(v[1], v[2])
          [] name = "PowerFloat" -> powFloat(v[1], v[2][1])
          [] name \in Range(MathFunctions) -> FloatFunction(name, v[1])
          [] name \in ArrayFunctions -> ArrayCall(name, v)
          [] name = "DateAdd" -> IF months THEN addMonths(v[1], v[2]) ELSE v[1] + v[2]
          [] name = "DateSubtract" -> IF months THEN addMonths(v[1], -v[2]) ELSE v[1] - v[2]
          [] name = "ExtractYearFromDate" -> extractYear(v[1])
          [] name = "ExtractMonthFromDate" -> extractMonth(v[1])
          [] name = "ExtractDayFromDate" -> extractDay(v[1])

AndOpLowering(args) ==
    LET result == \A i \in DOMAIN args : args[i].nul \/ args[i].v
    IN  Result(result, result /\ \E i \in DOMAIN args : args[i].nul, FALSE)
OrOpLowering(args) ==
    LET result == \E i \in DOMAIN args : ~args[i].nul /\ args[i].v
    IN  Result(result, ~result /\ \E i \in DOMAIN args : args[i].nul, FALSE)

NullOpLowering(ty, p) == Result(Undef(ty, p), TRUE, FALSE)
AsNullableOpLowering(v) == Result(v[1], Len(v) = 2 /\ v[Len(v)], FALSE)
\* A column of a table is read with its validity bit.
AtLowering(ty, cell, p) == IF cell = Null THEN NullOpLowering(ty, p) ELSE Result(cell.v, FALSE, FALSE)

RECURSIVE Exec(_, _, _)
Exec(o, r, p) ==
    IF o.op = "if"
    THEN LET cond == Exec(o.args[1], r, p)
             then == Exec(o.args[2], r, p)
             else == Exec(o.args[3], r, p)
         IN  IF cond.v THEN [then EXCEPT !.trap = @ \/ cond.trap]
             ELSE [else EXCEPT !.trap = @ \/ cond.trap]
    ELSE
    LET args == [i \in DOMAIN o.args |-> Exec(o.args[i], r, p)]
        trap == \E i \in DOMAIN args : args[i].trap
        v == [i \in DOMAIN args |-> args[i].v]
        byZero == o.op \in {"div", "mod"} /\ o.ty.k # "float" /\ v[2] = 0
        plain(x) == Result(x, FALSE, trap)
    IN  CASE o.op = "constant" -> plain(parse(o.ty, o.attr))
          [] o.op = "null" -> NullOpLowering(o.ty, p)
          [] o.op = "column" -> AtLowering(o.ty, r[o.attr.name], p)
          [] o.op = "isnull" -> plain(args[1].nul)
          [] o.op = "getval" -> plain(v[1])
          [] o.op = "as_nullable" -> [AsNullableOpLowering(v) EXCEPT !.trap = trap]
          [] o.op = "not" -> plain(~v[1])
          [] o.op = "andi" -> plain(v[1] /\ v[2])
          [] o.op = "ori" -> plain(v[1] \/ v[2])
          [] o.op = "and" -> [AndOpLowering(args) EXCEPT !.trap = trap]
          [] o.op = "or" -> [OrOpLowering(args) EXCEPT !.trap = trap]
          [] o.op = "cmp" -> plain(Compare(o.attr.name, o.args[1].ty, v[1], v[2]))
          [] o.op = "between" -> plain(BetweenLowering(o, v))
          [] o.op = "oneof" -> plain(OneOfLowering(o, v))
          [] o.op \in {"add", "sub", "mul", "div", "mod"} ->
                 Result(IF byZero THEN 0 ELSE Arithmetic(o, v[1], v[2]), FALSE, trap \/ byZero)
          [] o.op = "cast" -> plain(IF o.args[1].ty = NoneType THEN Undef(o.ty, p)
                                    ELSE Cast(o.args[1].ty, o.ty, v[1]))
          [] o.op = "call" -> plain(Call(o, v))

(***************************************************************************)
(* The passes in the order of the pipeline, then the execution of a row.   *)
(***************************************************************************)
Init ==
    /\ query \in Queries
    /\ op = NullOp(NoneType)
    /\ phase = "parsed"
    /\ row = <<>>
    /\ value = Result(0, TRUE, FALSE)

Pass(from, to, result) ==
    /\ phase = from
    /\ phase' = to
    /\ op' = result
    /\ UNCHANGED <<query, row, value>>

Translate == Pass("parsed", "translated", translateExpression(query))
Canonicalize == Pass("translated", "canonical", canonicalize(op))
EliminateNulls == Pass("canonical", "without nulls", eliminateNulls(op))
OptimizeRuntimeFunctions == Pass("without nulls", "compiled", optimizeRuntimeFunctions(op))
Execute(r, p) ==
    /\ phase = "compiled"
    /\ phase' = "executed"
    /\ row' = r
    /\ value' = Exec(op, r, p)
    /\ UNCHANGED <<query, op>>

Next ==
    \/ Translate
    \/ Canonicalize
    \/ EliminateNulls
    \/ OptimizeRuntimeFunctions
    \/ \E r \in Rows, p \in Payloads : Execute(r, p)

Spec == Init /\ [][Next]_vars

(***************************************************************************)
(* The meaning of an expression in SQL: three-valued logic over exact      *)
(* numbers.  A division by zero is an error; AND and OR may evaluate all   *)
(* their operands, CASE and COALESCE only those they need.                 *)
(***************************************************************************)
Error == [k |-> "error"]
Truth(b) == [k |-> "bool", v |-> b]
Number(n, d, int) == [k |-> "num", v |-> Fraction(n, d), int |-> int]
SqlValue(ty, v) ==
    CASE ty = I1 -> Truth(v)
      [] ty.k = "int" /\ ty # I1 -> Number(v, 1, TRUE)
      [] ty.k = "decimal" -> Number(v, PowerOfTen[ty.s], FALSE)
      [] ty.k = "float" -> Number(v[1], v[2], FALSE)
      [] ty.k = "date" -> [k |-> "date", v |-> v]
      [] ty.k \in {"string", "char"} -> [k |-> "text", v |-> v]
SqlLiteral(lit) ==
    CASE lit.k \in {"int", "decimal"} -> Number(lit.n, PowerOfTen[lit.s], lit.k = "int")
      [] lit.k = "text" -> [k |-> "text", v |-> lit.text]
      [] lit.k = "null" -> Null
      [] OTHER -> [k |-> lit.k, v |-> lit.n]

TextLess(s, t) ==
    \E i \in 0..Len(s) : /\ startsWith(t, SubSeq(s, 1, i))
                         /\ i < Len(t)
                         /\ i = Len(s) \/ s[i + 1] < t[i + 1]
SqlLess(x, y) == CASE x.k = "num" -> x.v[1] * y.v[2] < y.v[1] * x.v[2]
                   [] x.k = "text" -> TextLess(x.v, y.v)
                   [] OTHER -> x.v < y.v
SqlCompare(pred, x, y) ==
    CASE pred = "=" -> x.v = y.v
      [] pred = "<>" -> x.v # y.v
      [] pred = "<" -> SqlLess(x, y)
      [] pred = ">" -> SqlLess(y, x)
      [] pred = "<=" -> ~SqlLess(y, x)
      [] pred = ">=" -> ~SqlLess(x, y)

RECURSIVE SqlLike(_, _)
SqlLike(s, p) ==
    CASE p = <<>> -> s = <<>>
      [] p # <<>> /\ p[1] = Percent -> \E i \in 0..Len(s) : SqlLike(SubSeq(s, i + 1, Len(s)), Tail(p))
      [] OTHER -> s # <<>> /\ p[1] \in {Underscore, s[1]} /\ SqlLike(Tail(s), Tail(p))

SqlArithmetic(name, x, y) ==
    LET a == x.v
        b == y.v
        int == x.int /\ y.int
    IN  CASE name = "+" -> Number(a[1] * b[2] + b[1] * a[2], a[2] * b[2], int)
          [] name = "-" -> Number(a[1] * b[2] - b[1] * a[2], a[2] * b[2], int)
          [] name = "*" -> Number(a[1] * b[1], a[2] * b[2], int)
          [] name \in {"/", "%"} /\ b[1] = 0 -> Error
          [] name = "/" /\ b[1] # 0 -> IF int THEN Number(Quotient(a[1], b[1]), 1, TRUE)
                                       ELSE Number(a[1] * b[2], a[2] * b[1], FALSE)
          [] name = "%" /\ b[1] # 0 -> Number(Remainder(a[1], b[1]), 1, int)
          [] name = "^" -> Number(FoldLeft(LAMBDA acc, i : acc * a[1], 1, [i \in 1..b[1] |-> i]), 1, int)

SqlDate(name, date, by) ==
    LET n == IF name = "+" THEN by.v ELSE -by.v
    IN  [k |-> "date", v |-> IF by.k = "days" THEN date.v + n ELSE addMonths(date.v, n)]

SqlBinary(name, x, y) ==
    CASE x.k = "date" /\ y.k \in {"days", "months"} -> SqlDate(name, x, y)
      [] name \in {"=", "<>", "<", ">", "<=", ">="} -> Truth(SqlCompare(name, x, y))
      [] name \in {"~~", "!~~"} -> Truth(SqlLike(x.v, y.v) = (name = "~~"))
      [] name = "||" -> [k |-> "text", v |-> (IF x.k = "num" THEN fromInt(x.v[1]) ELSE x.v)
                                             \o (IF y.k = "num" THEN fromInt(y.v[1]) ELSE y.v)]
      [] OTHER -> SqlArithmetic(name, x, y)

SqlFunction(fn, x, args) ==
    LET k == PowerOfTen[args[2].v[1]]
    IN  CASE fn = "abs" -> [x EXCEPT !.v = <<Abs(@[1]), @[2]>>]
          [] fn = "round" -> Number((2 * x.v[1] * k + x.v[2]) \div (2 * x.v[2]), k, x.int)
          [] fn = "upper" -> [x EXCEPT !.v = [i \in DOMAIN @ |-> IF @[i] >= 97 THEN @[i] - 32 ELSE @[i]]]
          [] fn = "substring" -> [x EXCEPT !.v = SubSeq(@, args[2].v[1], Min({Len(@), args[3].v[1]}))]
          [] fn = "date_part" ->
                 Number(CASE x.v = YearText -> extractYear(args[2].v)
                          [] x.v = MonthText -> extractMonth(args[2].v)
                          [] x.v = DayText -> extractDay(args[2].v), 1, TRUE)

SqlCast(ty, x) ==
    CASE ty.k = "string" /\ x.k = "num" -> [k |-> "text", v |-> fromInt(x.v[1])]
      [] ty.k = "int" /\ x.k = "text" -> Number(toInt(x.v), 1, TRUE)
      [] x.k = "num" /\ ty.k # "string" -> [x EXCEPT !.int = ty.k = "int"]
      [] OTHER -> x

\* Connectives: undecided when no operand decides and one is unknown.
SqlAll(args) ==
    CASE \E i \in DOMAIN args : args[i] = Truth(FALSE) -> Truth(FALSE)
      [] \A i \in DOMAIN args : args[i] = Truth(TRUE) -> Truth(TRUE)
      [] OTHER -> Null
SqlNot(x) == IF x = Null THEN Null ELSE Truth(~x.v)
SqlAny(args) == SqlNot(SqlAll([i \in DOMAIN args |-> SqlNot(args[i])]))

RECURSIVE Sql(_, _), SqlCase(_, _, _), SqlCoalesce(_, _)
Sql(e, r) ==
    LET args == [i \in DOMAIN e.args |-> Sql(e.args[i], r)]
        anyNull == \E i \in DOMAIN args : args[i] = Null
        cmp(name, i, j) == IF Null \in {args[i], args[j]} THEN Null
                           ELSE Truth(SqlCompare(name, args[i], args[j]))
        between == SqlAll(<<cmp(">=", 1, 2), cmp("<=", 1, 3)>>)
    IN  CASE e.e = "lit" -> SqlLiteral(e)
          [] e.e = "column" -> IF r[e.name] = Null THEN Null
                               ELSE SqlValue(ColumnTypes[e.name].ty, r[e.name].v)
          [] e.e = "values" -> SqlLiteral(e.args[e.n])
          [] e.e = "case" -> IF e.name = "compare" THEN SqlCase(<<e.args[1]>>, Tail(e.args), r)
                             ELSE SqlCase(<<>>, e.args, r)
          [] e.e = "coalesce" -> SqlCoalesce(e.args, r)
          [] OTHER ->
                 CASE \E i \in DOMAIN args : args[i] = Error -> Error
                   [] e.e = "and" -> SqlAll(args)
                   [] e.e = "or" -> SqlAny(args)
                   [] e.e = "not" -> SqlNot(args[1])
                   [] e.e = "isnull" -> Truth(anyNull)
                   [] e.e = "notnull" -> Truth(~anyNull)
                   [] e.e = "in" -> SqlAny([i \in 1..(Len(args) - 1) |-> cmp("=", 1, i + 1)])
                   [] e.e = "between" -> between
                   [] e.e = "notbetween" -> SqlNot(between)
                   [] e.e \in {"bin", "neg", "func", "cast"} /\ anyNull -> Null
                   [] e.e = "bin" -> SqlBinary(e.name, args[1], args[2])
                   [] e.e = "neg" -> [args[1] EXCEPT !.v = <<-@[1], @[2]>>]
                   [] e.e = "func" -> SqlFunction(e.name, args[1], args)
                   [] e.e = "cast" -> SqlCast(e.ty, args[1])
SqlCase(compare, list, r) ==
    LET when == Sql(Head(list), r)
        subject == Sql(Head(compare), r)
        holds == IF compare = <<>> THEN when = Truth(TRUE)
                 ELSE Null \notin {when, subject} /\ SqlCompare("=", when, subject)
    IN  CASE list = <<>> -> Null
          [] Len(list) = 1 -> when
          [] OTHER -> CASE when = Error -> Error
                        [] holds -> Sql(list[2], r)
                        [] OTHER -> SqlCase(compare, Tail(Tail(list)), r)
SqlCoalesce(list, r) ==
    IF list = <<>> THEN Null
    ELSE LET first == Sql(Head(list), r)
         IN  IF first = Null THEN SqlCoalesce(Tail(list), r) ELSE first

(***************************************************************************)
(* Properties.                                                             *)
(***************************************************************************)
\* Whether a machine value of type ty stands for the SQL value x; a decimal
\* keeps the digits of its scale.
StandsFor(ty, v, x) ==
    CASE ty.k = "decimal" -> v = Quotient(x.v[1] * PowerOfTen[ty.s], x.v[2])
      [] ty.k = "float" -> v = x.v
      [] ty.k = "int" /\ ty # I1 -> <<v, 1>> = x.v
      [] OTHER -> v = x.v

\* The compiled code computes the value that SQL defines: the types chosen by
\* the front end, folding, the rewriting of conjunctions and disjunctions, the
\* handling of NULLs and the compiled LIKE change neither the value nor
\* whether it is NULL, whatever the payload of a NULL holds.
CompiledIsSql ==
    (phase = "executed" /\ ~value.trap) =>
        LET x == Sql(query, row)
        IN  x # Error => /\ value.nul = (x = Null)
                         /\ x # Null => StandsFor(op.ty, value.v, x)

\* The compiled code executes an integer or decimal division by zero exactly
\* where SQL divides by zero: neither the undefined payload of a NULL divisor
\* nor a branch of CASE or COALESCE that is not taken is divided by.
TrapsAsSql == phase = "executed" => (value.trap <=> Sql(query, row) = Error)
=============================================================================
