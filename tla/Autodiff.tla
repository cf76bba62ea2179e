------------------------------ MODULE Autodiff ------------------------------
(***************************************************************************)
(* The table functions derivatebackwards, umbra.derivation and             *)
(* derivateforwards of the SQL front end (lib/frontend/SQL/Parser.cpp):    *)
(* the partial derivatives of a lambda expression by every column that it  *)
(* mentions, in reverse mode (a seed is passed down the expression and     *)
(* added up at the columns) or in forward mode (one pass for each column). *)
(* Each derivative is a value of the DB dialect that goes through the      *)
(* passes of Expressions and is computed for every row.                    *)
(*                                                                         *)
(* A column of a lambda is the pair of the table name that qualifies it,   *)
(* "" if none does, and its own name.                                      *)
(***************************************************************************)
EXTENDS Expressions

CONSTANTS
    Lambdas,   \* calls of the functions: a mode, the lambda's tables and its body
    Tables     \* for each table the set of its rows

VARIABLE derivatives   \* for each derived column its name, operations and value

autodiffVars == <<vars, derivatives>>

\* Operations on scalars; the operands are brought to one type.
Scalar(opType, left, right) == ArithmeticOp(opType, toCommonBaseTypes(<<left, right>>))
ToFloat(v) == IF v.ty = F64 THEN v ELSE CastOp(v, F64, v.nullable)
FloatCall(fn, args) == RuntimeCall(fn, args[1].ty, args[1].nullable, args)
Transpose(v) == RuntimeCall("ArrayTranspose", ArrayType, v.nullable, <<v>>)
MMul(left, right) == RuntimeCall("ArrayMMul", ArrayType, left.nullable \/ right.nullable, <<left, right>>)
\* Operations on scalars or arrays, a scalar with an array included.
Either(opType, left, right) ==
    IF IsArray(left) \/ IsArray(right) THEN translateArrayArithmetic(opType, left, right)
    ELSE Scalar(opType, left, right)
\* The same, with a decimal cast to a float before it meets an array.
EitherOfFloats(opType, left, right) ==
    IF IsArray(left) \/ IsArray(right)
    THEN translateArrayArithmetic(opType, FloatOfDecimal(left), FloatOfDecimal(right))
    ELSE Scalar(opType, left, right)

checkIfZero(v) == v.op = "constant" /\ v.ty = F64 /\ v.attr.n = 0

(***************************************************************************)
(* The derivative of a function, as a factor of the chain rule.            *)
(***************************************************************************)
OuterDerivative(name, x, val) ==
    CASE name = "sqrt" -> Scalar("mul", Float(1, 2), Scalar("div", Float(1, 1), val))
      [] name = "exp" -> val
      [] name = "log" -> Scalar("div", Float(1, 1), x)
      [] name = "sin" -> FloatCall("Cos", <<FloatOfDecimal(x)>>)
      [] name = "cos" -> Scalar("mul", Float(-1, 1), FloatCall("Sin", <<FloatOfDecimal(x)>>))
      [] name = "sig" -> Either("mul", val, Either("sub", Float(1, 1), val))

\* ... times the seed, or the derivative, of the argument.
ChainRule(name, x, val, partial) ==
    IF name = "transpose" THEN Transpose(partial) ELSE Either("mul", partial, OuterDerivative(name, x, val))

\* The derivative of x ^ y by x: y * x ^ (y - 1), for arrays y * (x ^ y / x).
PowerFloat(common) == FloatCall("PowerFloat", <<ToFloat(common[1]), ToFloat(common[2])>>)
OneLess(v) == Scalar("sub", ToFloat(v), Float(1, 1))
PowerOneLess(common) == FloatCall("PowerFloat", <<ToFloat(common[1]), OneLess(common[2])>>)
PowerByBase(base, exponent, power) ==
    IF IsArray(base)
    THEN translateArrayArithmetic("mul", translateArrayArithmetic("div", power, base), ToFloat(exponent))
    ELSE Scalar("mul", exponent, PowerOneLess(toCommonBaseTypes(<<base, exponent>>)))
\* ... and by y: x ^ y * log(x).
PowerByExponent(power, base) == Scalar("mul", power, FloatCall("Log", <<ToFloat(base)>>))

(***************************************************************************)
(* Reverse mode.                                                           *)
(***************************************************************************)
NameOf(node) == <<node.table, node.name>>
Entry(name, o) == [name |-> name, op |-> o, v |-> Result(0, TRUE, FALSE)]

\* A new column of an array type gets an array of its shape.
SeedArray(column, seed) ==
    IF IsArray(column) /\ ~IsArray(seed)
    THEN RuntimeCall("ArrayFillDouble", ArrayType, column.nullable \/ seed.nullable, <<seed, column>>)
    ELSE seed
\* Mutant: every column gets only the seed of its last occurrence.
AddSeedReplaced(name, column, partList, seed) ==
    Append(SelectSeq(partList, LAMBDA entry : entry.name # name), Entry(name, SeedArray(column, seed)))
\* A column that was met before gets the seed added to its derivative.
AddSeed(name, column, partList, seed) ==
    IF \E i \in DOMAIN partList : partList[i].name = name
    THEN [i \in DOMAIN partList |->
             IF partList[i].name = name THEN [partList[i] EXCEPT !.op = Either("add", seed, @)]
             ELSE partList[i]]
    ELSE Append(partList, Entry(name, SeedArray(column, seed)))

\* The seed of one factor of a product: the other one times the seed.
SeedOfLeftFactor(seed, right) ==
    IF IsArray(seed) /\ IsArray(right) THEN MMul(seed, Transpose(right))
    ELSE IF IsArray(seed) \/ IsArray(right) THEN EitherOfFloats("mul", right, seed)
    ELSE Scalar("mul", seed, right)
SeedOfRightFactor(seed, left) ==
    IF IsArray(seed) /\ IsArray(left) THEN MMul(left, Transpose(seed))
    ELSE IF IsArray(seed) \/ IsArray(left) THEN EitherOfFloats("mul", left, seed)
    ELSE Scalar("mul", seed, left)

\* The derivative of x / y by y.
QuotientByDivisor(left, right) ==
    Scalar("mul", Float(-1, 1), Scalar("div", left, Scalar("mul", right, right)))

\* The seeds of the operands, given the operands' values and the operation's;
\* the exponent of an array is a number and gets none.
SeedsOfOperands(name, left, right, val, seed) ==
    CASE name = "+" -> <<seed, seed>>
      [] name = "-" -> <<seed, Either("mul", seed, Float(-1, 1))>>
      [] name = "*" -> <<SeedOfLeftFactor(seed, right), SeedOfRightFactor(seed, left)>>
      [] name = "**" -> IF IsArray(seed)
                        THEN <<MMul(seed, Transpose(right)), MMul(Transpose(seed), left)>>
                        ELSE <<Scalar("mul", left, seed), Scalar("mul", right, seed)>>
      [] name = "/" -> <<Scalar("mul", seed, Scalar("div", Float(1, 1), right)),
                         Scalar("mul", seed, QuotientByDivisor(left, right))>>
      [] name = "^" -> <<Either("mul", seed, PowerByBase(left, right, val))>>
                       \o (IF IsArray(left) THEN <<>>
                           ELSE <<Scalar("mul", seed, PowerByExponent(
                                      PowerFloat(toCommonBaseTypes(<<left, right>>)), left))>>)

RECURSIVE calculatePartialDerivatesBackwards(_, _, _)
OperandsBackwards(operands, seeds, partList) ==
    FoldLeft(LAMBDA acc, i : calculatePartialDerivatesBackwards(operands[i], acc, seeds[i]),
             partList, [i \in DOMAIN seeds |-> i])
BackwardsStep(node, left, right, val, partList, seed) ==
    CASE node.e = "lit" -> partList
      [] node.e = "column" -> AddSeed(NameOf(node), val, partList, seed)
      [] node.e = "neg" -> calculatePartialDerivatesBackwards(node.args[1], partList,
                               Either("mul", seed, Float(-1, 1)))
      [] node.e = "func" -> calculatePartialDerivatesBackwards(node.args[1], partList,
                                ChainRule(node.name, left, val, seed))
      [] node.e = "bin" -> OperandsBackwards(node.args,
                               SeedsOfOperands(node.name, left, right, val, seed), partList)
calculatePartialDerivatesBackwards(node, partList, seed) ==
    BackwardsStep(node, translateExpression(node.args[1]), translateExpression(node.args[2]),
                  translateExpression(node), partList, seed)

(***************************************************************************)
(* Forward mode.                                                           *)
(***************************************************************************)
RECURSIVE getLambdaVariables(_, _)
getLambdaVariables(node, variables) ==
    IF node.e = "column"
    THEN IF \E i \in DOMAIN variables : NameOf(variables[i]) = NameOf(node) THEN variables
         ELSE Append(variables, node)
    ELSE FoldLeft(LAMBDA acc, arg : getLambdaVariables(arg, acc), variables, node.args)

\* One term of the product rule: a factor times the derivative of the other
\* one.  For arrays the product is taken to be the one of matrices.
LeftTimes(leftValue, rightPartial) ==
    CASE IsArray(leftValue) /\ IsArray(rightPartial) -> MMul(rightPartial, Transpose(leftValue))
      [] IsArray(leftValue) /\ checkIfZero(rightPartial) -> rightPartial
      [] IsArray(rightPartial) /\ checkIfZero(leftValue) -> leftValue
      [] OTHER -> EitherOfFloats("mul", leftValue, rightPartial)
RightTimes(rightValue, leftPartial) ==
    CASE IsArray(rightValue) /\ IsArray(leftPartial) -> MMul(Transpose(leftPartial), rightValue)
      [] IsArray(rightValue) /\ checkIfZero(leftPartial) -> leftPartial
      [] IsArray(leftPartial) /\ checkIfZero(rightValue) -> rightValue
      [] OTHER -> EitherOfFloats("mul", rightValue, leftPartial)
MatrixTerm(left, right) ==
    CASE IsArray(left) /\ IsArray(right) -> MMul(left, right)
      [] checkIfZero(left) -> left
      [] checkIfZero(right) -> right
      [] OTHER -> translateArrayArithmetic("mul", left, right)

MatrixSum(term1, term2) ==
    CASE checkIfZero(term1) -> term2
      [] checkIfZero(term2) -> term1
      [] OTHER -> translateArrayArithmetic("add", term1, term2)
Negative(partial) ==
    IF IsArray(partial) THEN translateArrayArithmetic("sub", Float(-1, 1), partial)
    ELSE castValueToType(Scalar("mul", Float(-1, 1), partial), partial.ty, partial.nullable)
\* The derivative of a column by itself.
OnesLike(column) ==
    IF IsArray(column)
    THEN translateArrayArithmetic("add", translateArrayArithmetic("mul", column, Float(0, 1)), Float(1, 1))
    ELSE Float(1, 1)
\* The rules for the operators: dl and dr are the operands' derivatives.
PartialOfOperator(name, left, right, val, dl, dr) ==
    CASE name = "+" -> Either("add", dl, dr)
      [] name = "-" -> Either("sub", dl, dr)
      [] name = "*" -> Either("add", LeftTimes(left, dr), RightTimes(right, dl))
      [] name = "**" -> IF IsArray(left) /\ IsArray(right)
                        THEN MatrixSum(MatrixTerm(dl, right), MatrixTerm(left, dr))
                        ELSE Scalar("add", Scalar("mul", left, dr), Scalar("mul", right, dl))
      [] name = "/" -> Scalar("div", Scalar("sub", Scalar("mul", dl, right), Scalar("mul", left, dr)),
                                     Scalar("mul", right, right))
      [] name = "^" /\ (IsArray(left) \/ checkIfZero(dr)) -> Either("mul", dl, PowerByBase(left, right, val))
      [] name = "^" /\ ~(IsArray(left) \/ checkIfZero(dr)) ->
             Scalar("add", Either("mul", dl, PowerByBase(left, right, val)),
                           Scalar("mul", dr, PowerByExponent(val, left)))

ForwardsStep(node, var, left, right, val, dl, dr) ==
    CASE node.e = "lit" -> Float(0, 1)
      [] node.e = "column" -> IF NameOf(node) = NameOf(var) THEN OnesLike(val) ELSE Float(0, 1)
      [] node.e = "neg" -> Negative(dl)
      [] node.e = "bin" -> PartialOfOperator(node.name, left, right, val, dl, dr)
      [] node.e = "func" -> ChainRule(node.name, left, val, dl)
RECURSIVE calculatePartialDerivatesForwards(_, _)
calculatePartialDerivatesForwards(node, var) ==
    ForwardsStep(node, var, translateExpression(node.args[1]), translateExpression(node.args[2]),
                 translateExpression(node), calculatePartialDerivatesForwards(node.args[1], var),
                 calculatePartialDerivatesForwards(node.args[2], var))

(***************************************************************************)
(* The derivative by t.x is the column d_x of the result.                  *)
(***************************************************************************)
Derived == "d_"
Renamed(entry) == IF entry.name[1] = "" THEN entry ELSE [entry EXCEPT !.name[1] = Derived]
RenameAll(partials) == [i \in DOMAIN partials |-> Renamed(partials[i])]
PartialsByEach(body, variables) ==
    [i \in DOMAIN variables |->
        Entry(NameOf(variables[i]), calculatePartialDerivatesForwards(body, variables[i]))]
deriveLambda(body, backwardMode) ==
    RenameAll(IF backwardMode THEN calculatePartialDerivatesBackwards(body, <<>>, Float(1, 1))
              ELSE PartialsByEach(body, getLambdaVariables(body, <<>>)))

\* The lambda ranges over the cross product of its tables.
concatenateRangeVars(params) ==
    FoldLeft(LAMBDA acc, t : {r @@ s : r \in acc, s \in Tables[t]}, {<<>>}, params)

InitAutodiff ==
    /\ \/ Init
       \/ /\ query \in Lambdas
          /\ op = NullOp(NoneType)
          /\ phase = "called"
          /\ row = <<>>
          /\ value = Result(0, TRUE, FALSE)
    /\ derivatives = <<>>

translateTableFunction ==
    /\ phase = "called"
    /\ phase' = "derived"
    /\ derivatives' = deriveLambda(query.body, query.mode # "derivateforwards")
    /\ UNCHANGED <<query, op, row, value>>

CompileDerivatives ==
    /\ phase = "derived"
    /\ phase' = "derivatives compiled"
    /\ derivatives' = [i \in DOMAIN derivatives |->
           [derivatives[i] EXCEPT !.op = optimizeRuntimeFunctions(eliminateNulls(canonicalize(@)))]]
    /\ UNCHANGED <<query, op, row, value>>

EvaluateDerivatives(r, p) ==
    /\ phase = "derivatives compiled"
    /\ phase' = "derivatives evaluated"
    /\ row' = r
    /\ derivatives' = [i \in DOMAIN derivatives |->
           [derivatives[i] EXCEPT !.v = Exec(derivatives[i].op, r, p)]]
    /\ UNCHANGED <<query, op, value>>

NextAutodiff ==
    \/ Next /\ UNCHANGED derivatives
    \/ translateTableFunction
    \/ CompileDerivatives
    \/ /\ phase = "derivatives compiled"
       /\ \E r \in concatenateRangeVars(query.params), p \in Payloads : EvaluateDerivatives(r, p)

AutodiffSpec == InitAutodiff /\ [][NextAutodiff]_autodiffVars

(***************************************************************************)
(* The derivative itself: the body is evaluated in numbers x + e * d with  *)
(* e * e = 0 (dual numbers <<x, d>>), the columns being moved into a       *)
(* direction; what is multiplied by e in the result is the derivative into *)
(* that direction.  A value is a matrix of dual numbers, 1 x 1 for scalars *)
(* that are not mixed with arrays.                                         *)
(***************************************************************************)
Zero == <<0, 1>>
DualArithmetic(name, x, y) ==
    LET F(o, a, b) == FloatArithmetic(o, a, b)
        quotient == F("div", x[1], y[1])
    IN  CASE name \in {"add", "sub"} -> <<F(name, x[1], y[1]), F(name, x[2], y[2])>>
          [] name = "mul" -> <<F("mul", x[1], y[1]), F("add", F("mul", x[1], y[2]), F("mul", x[2], y[1]))>>
          [] name = "div" -> <<quotient, F("div", F("sub", x[2], F("mul", quotient, y[2])), y[1])>>
\* x ^ y is the product of y factors x, and exp(y * log(x)) when y may move.
RECURSIVE DualPower(_, _)
DualPower(x, y) ==
    LET F(o, a, b) == FloatArithmetic(o, a, b)
        v == powFloat(x[1], y[1][1])
    IN  CASE y[2] = Zero /\ y[1][1] = 0 -> <<<<1, 1>>, Zero>>
          [] y[2] = Zero /\ y[1][1] > 0 ->
                 DualArithmetic("mul", x, DualPower(x, <<<<y[1][1] - 1, 1>>, Zero>>))
          [] OTHER -> <<v, F("mul", v, F("add", F("mul", y[2], FloatFunction("Log", x[1])),
                                                F("div", F("mul", y[1], x[2]), x[1])))>>
DualFunction(name, x) ==
    LET F(o, a, b) == FloatArithmetic(o, a, b)
        fn(g) == FloatFunction(g, x[1])
        v == CASE name = "sig" -> sigmoid(x[1])
               [] OTHER -> fn(MathFunctions[name])
        slope == CASE name = "exp" -> v
                   [] name = "log" -> F("div", <<1, 1>>, x[1])
                   [] name = "sqrt" -> F("div", <<1, 2>>, v)
                   [] name = "sin" -> fn("Cos")
                   [] name = "cos" -> F("sub", Zero, fn("Sin"))
                   [] name = "sig" -> F("mul", v, F("sub", <<1, 1>>, v))
    IN  <<v, F("mul", slope, x[2])>>

RealOf(ty, v) == CASE ty.k = "float" -> v
                   [] ty.k = "int" -> <<v, 1>>
                   [] ty.k = "decimal" -> Fraction(v, PowerOfTen[ty.s])
RECURSIVE Dual(_, _, _)
Dual(node, r, direction) ==
    LET x == Dual(node.args[1], r, direction)
        y == Dual(node.args[2], r, direction)
        size == IF Len(x) > Len(y) THEN x ELSE y
        at(m, i, j) == IF Len(m) = 1 THEN m[1][1] ELSE m[i][j]
        cells(Cell(_, _)) == [i \in DOMAIN size |-> [j \in DOMAIN size[i] |-> Cell(at(x, i, j), at(y, i, j))]]
        ty == ColumnTypes[node.name].ty
        v == IF ty = ArrayType THEN r[node.name].v ELSE << <<RealOf(ty, r[node.name].v)>> >>
        product(i, j) == FoldLeft(LAMBDA acc, k : DualArithmetic("add", acc,
                                      DualArithmetic("mul", x[i][k], y[k][j])),
                                  <<Zero, Zero>>, [k \in DOMAIN y |-> k])
    IN  CASE node.e = "lit" -> << << <<Fraction(node.n, PowerOfTen[node.s]), Zero>> >> >>
          [] node.e = "column" ->
                 [i \in DOMAIN v |-> [j \in DOMAIN v[i] |-> <<v[i][j], direction[NameOf(node), i, j]>>]]
          [] node.e = "neg" ->
                 [i \in DOMAIN x |-> [j \in DOMAIN x[i] |-> DualArithmetic("sub", <<Zero, Zero>>, x[i][j])]]
          [] node.e = "bin" /\ node.name = "**" ->
                 [i \in DOMAIN x |-> [j \in DOMAIN y[1] |-> product(i, j)]]
          [] node.e = "bin" /\ node.name = "^" -> cells(DualPower)
          [] node.e = "bin" /\ node.name \notin {"**", "^"} ->
                 cells(LAMBDA a, b : DualArithmetic(stringToExpressionType[node.name], a, b))
          [] node.e = "func" /\ node.name = "transpose" -> arrayTranspose(x)
          [] node.e = "func" /\ node.name # "transpose" ->
                 [i \in DOMAIN x |-> [j \in DOMAIN x[i] |-> DualFunction(node.name, x[i][j])]]

\* What the derivative by a column is expected to be, as a matrix.  Reverse
\* mode: for each element of the column, how the sum of the result changes
\* with it.  Forward mode: how the result changes when all elements of the
\* column do.
Positions == (1..2) \X (1..2)
Into(column, moved, variables) ==
    [key \in {<<NameOf(c), p[1], p[2]>> : c \in variables, p \in Positions} |->
        IF key[1] = NameOf(column) /\ <<key[2], key[3]>> \in moved THEN <<1, 1>> ELSE Zero]
DualParts(m) == [i \in DOMAIN m |-> [j \in DOMAIN m[i] |-> m[i][j][2]]]
Change(body, column, moved, r) ==
    DualParts(Dual(body, r, Into(column, moved, Range(getLambdaVariables(body, <<>>)))))
Total(m) == FoldLeft(LAMBDA acc, x : FloatArithmetic("add", acc, x), Zero, FlattenSeq(m))
Shape(column, r) == IF ColumnTypes[column.name].ty = ArrayType THEN r[column.name].v ELSE << <<Zero>> >>
Gradient(body, column, r, shape) ==
    [i \in DOMAIN shape |-> [j \in DOMAIN shape[i] |-> Total(Change(body, column, {<<i, j>>}, r))]]
Expected(body, backwardMode, column, r) ==
    IF backwardMode THEN Gradient(body, column, r, Shape(column, r)) ELSE Change(body, column, Positions, r)

\* The result has a column for each column of the lambda, named after it, and
\* in every row it holds the derivative of the lambda by that column: in
\* reverse mode all seeds that reach a column were added up, in forward mode
\* the rules for sums, products, quotients, powers and functions were combined
\* rightly, and the compiled operations compute the same
\* (calculatePartialDerivatesBackwards, calculatePartialDerivatesForwards,
\* deriveLambda).
DerivativesRight ==
    phase = "derivatives evaluated" =>
        \A column \in Range(getLambdaVariables(query.body, <<>>)) :
            \E i \in DOMAIN derivatives :
                LET d == derivatives[i]
                    matrix == IF d.op.ty = ArrayType THEN d.v.v ELSE << <<d.v.v>> >>
                    backwards == query.mode # "derivateforwards"
                IN  /\ d.name = <<IF column.table = "" THEN "" ELSE Derived, column.name>>
                    /\ \A j \in DOMAIN derivatives : derivatives[j].name = d.name => j = i
                    /\ ~d.v.nul
                    /\ matrix = Expected(query.body, backwards, column, row)

=============================================================================
