------------------------------ MODULE Scalars ------------------------------
(***************************************************************************)
(* The scalar types of the DB dialect, the rules by which the SQL front    *)
(* end brings operands to a common type (include/frontend/SQL/Parser.h,    *)
(* lib/frontend/SQL/Parser.cpp), the result types of decimal arithmetic    *)
(* (lib/DB/DBOps.cpp) and the functions of the scalar runtime              *)
(* (lib/runtime/StringRuntime.cpp, DecimalRuntime.cpp, IntegerRuntime.cpp, *)
(* DateRuntime.cpp, lib/DB/RuntimeFunctions/RuntimeFunctions.cpp).         *)
(*                                                                         *)
(* A type is a record of its kind and two parameters: the width of an      *)
(* integer or a float, precision and scale of a decimal, the bytes of a    *)
(* char, the unit of an interval.  The machine value of an integer or a    *)
(* decimal is an integer (a decimal times 10^scale), of a float an exact   *)
(* reduced fraction <<n, d>>, of an i1 a Boolean, of a string or a char a  *)
(* sequence of character codes, of a date its day since 1970-01-01.  An    *)
(* array has two dimensions and doubles as elements: a sequence of rows    *)
(* (module Arrays has the blocks and the other shapes).                    *)
(* Values stay small: neither integer overflow nor the rounding of floats  *)
(* is part of the model.                                                   *)
(***************************************************************************)
EXTENDS Integers, Sequences, FiniteSetsExt, SequencesExt

Ty(k, p, s) == [k |-> k, p |-> p, s |-> s]
I1 == Ty("int", 1, 0)
I32 == Ty("int", 32, 0)
I64 == Ty("int", 64, 0)
F64 == Ty("float", 64, 0)
StringType == Ty("string", 0, 0)
CharType(n) == Ty("char", n, 0)
NoneType == Ty("none", 0, 0)
DateType == Ty("date", 0, 0)
DecimalType(p, s) == Ty("decimal", p, s)
IntervalType(unit) == Ty("interval", unit, 0)
ArrayType == Ty("array", 64, 0)
Daytime == 0
Months == 1

(***************************************************************************)
(* Exact fractions, the values of floats.                                  *)
(***************************************************************************)
Gcd[a \in Nat, b \in Nat] == IF b = 0 THEN a ELSE Gcd[b, a % b]
Abs(n) == IF n < 0 THEN -n ELSE n
Fraction(n, d) == LET g == Gcd[Abs(n), Abs(d)]
                      sign == IF d < 0 THEN -1 ELSE 1
                  IN  <<sign * (n \div g), sign * (d \div g)>>
FloatArithmetic(name, a, b) ==
    CASE name = "add" -> Fraction(a[1] * b[2] + b[1] * a[2], a[2] * b[2])
      [] name = "sub" -> Fraction(a[1] * b[2] - b[1] * a[2], a[2] * b[2])
      [] name = "mul" -> Fraction(a[1] * b[1], a[2] * b[2])
      [] name = "div" -> Fraction(a[1] * b[2], a[2] * b[1])
\* C's division of integers truncates towards zero, TLA+'s rounds down.
Quotient(a, b) == IF (a < 0) = (b < 0) THEN Abs(a) \div Abs(b) ELSE -(Abs(a) \div Abs(b))
Remainder(a, b) == a - b * Quotient(a, b)
PowerOfTen[s \in Nat] == IF s = 0 THEN 1 ELSE 10 * PowerOfTen[s - 1]
getDecimalScaleMultiplier(s) == PowerOfTen[s]

(***************************************************************************)
(* Type inference of the front end.                                        *)
(***************************************************************************)
Wider(kind, left, right) ==
    IF right.k = kind /\ (left.k # kind \/ right.p > left.p) THEN right ELSE left
getHigherFloatType(left, right) == Wider("float", left, right)
getHigherIntType(left, right) == Wider("int", left, right)
getHigherDecimalType(left, right) ==
    CASE left.k # "decimal" -> right
      [] right.k # "decimal" -> left
      [] OTHER -> LET hidig == Max({left.p - left.s, right.p - right.s})
                      maxs == Max({left.s, right.s})
                  IN  DecimalType(hidig + maxs, maxs)
getHigherDateType(left, right) == IF left.k = "date" THEN left ELSE right

getCommonBaseType(left, right) ==
    LET present(kind) == kind \in {left.k, right.k}
    IN  CASE present("date") -> getHigherDateType(left, right)
          [] present("string") -> StringType
          [] present("char") -> IF left = right THEN left ELSE StringType
          [] present("float") -> getHigherFloatType(left, right)
          [] present("decimal") -> getHigherDecimalType(left, right)
          [] present("int") -> getHigherIntType(left, right)
          [] OTHER -> left

(***************************************************************************)
(* Result types of decimal arithmetic; other types keep the left operand's.*)
(***************************************************************************)
getAdaptedDecimalTypeAfterMulDiv(precision, scale) ==
    LET beforeComma == precision - scale
    IN  IF beforeComma > 32
        THEN DecimalType(38, Min({scale, 6}))
        ELSE DecimalType(Min({precision, 38}), Min({scale, 38 - beforeComma}))

inferReturnType(a, b) ==
    IF a.k # "decimal" THEN a
    ELSE LET maxs == Max({a.s, b.s})
         IN  DecimalType(Max({a.p - a.s, b.p - b.s}) + maxs, maxs)
inferMulReturnType(a, b) ==
    IF a.k # "decimal" THEN a ELSE getAdaptedDecimalTypeAfterMulDiv(a.p + b.p, a.s + b.s)
inferDivReturnType(a, b) ==
    IF a.k # "decimal" THEN a
    ELSE LET s == Max({6, a.s + b.p})
         IN  getAdaptedDecimalTypeAfterMulDiv(a.p - a.s + b.s + s, s)
inferRemReturnType(a, b) ==
    IF a.k # "decimal" THEN a
    ELSE LET maxs == Max({a.s, b.s})
         IN  DecimalType(Min({a.p - a.s, b.p - b.s}) + maxs, maxs)

(***************************************************************************)
(* Strings.                                                                *)
(***************************************************************************)
Percent == 37
Dot == 46
Backslash == 92
Underscore == 95

RECURSIVE compareLt(_, _)
compareLt(s, t) ==
    /\ t # <<>>
    /\ \/ s = <<>>
       \/ s[1] < t[1]
       \/ s[1] = t[1] /\ compareLt(Tail(s), Tail(t))

startsWith(s, t) == Len(t) <= Len(s) /\ SubSeq(s, 1, Len(t)) = t
endsWith(s, t) == Len(t) <= Len(s) /\ SubSeq(s, Len(s) - Len(t) + 1, Len(s)) = t
concat(s, t) == s \o t
\* The third argument is the last position, not a length.
substr(s, from, to) == SubSeq(s, from, Min({Len(s), to}))
toUpper(s) == [i \in DOMAIN s |-> IF s[i] \in 97..122 THEN s[i] - 32 ELSE s[i]]

\* fromInt writes a number in decimal digits, toInt reads it back.
Minus == 45
RECURSIVE fromInt(_)
fromInt(n) ==
    CASE n < 0 -> <<Minus>> \o fromInt(-n)
      [] n \in 0..9 -> <<48 + n>>
      [] OTHER -> Append(fromInt(n \div 10), 48 + (n % 10))
toInt(s) ==
    LET digits(t) == FoldLeft(LAMBDA n, c : 10 * n + (c - 48), 0, t)
    IN  IF startsWith(s, <<Minus>>) THEN -digits(Tail(s)) ELSE digits(s)

\* iterativeLike: the pattern is walked together with the string; after a
\* '%' the rest of the pattern is tried at every position of the string.
RECURSIVE iterativeLike(_, _), likeAfterPercent(_, _)
iterativeLike(s, p) ==
    CASE s = <<>> \/ p = <<>> -> s = <<>> /\ \A i \in DOMAIN p : p[i] = Percent
      [] p[1] = Backslash -> Len(p) > 1 /\ p[2] = s[1] /\ iterativeLike(Tail(s), Tail(Tail(p)))
      [] p[1] = Percent -> likeAfterPercent(s, Tail(p))
      [] OTHER -> p[1] \in {Underscore, s[1]} /\ iterativeLike(Tail(s), Tail(p))
likeAfterPercent(s, p) ==
    CASE p = <<>> -> TRUE
      [] p[1] = Percent -> likeAfterPercent(s, Tail(p))
      [] p[1] = Underscore -> s # <<>> /\ likeAfterPercent(Tail(s), Tail(p))
      [] OTHER -> LET q == IF p[1] = Backslash THEN Tail(p) ELSE p
                  IN  q # <<>> /\ \E i \in DOMAIN s : iterativeLike(SubSeq(s, i, Len(s)), q)

\* Positions of a string are counted from 0 as the code does; no match ends
\* at a position above every length.
InvalidPos == 1000
NoMatchYet == -1

findMatch(s, needle, start) ==
    LET found == {i \in start..(Len(s) - Len(needle)) : SubSeq(s, i + 1, i + Len(needle)) = needle}
    IN  IF start >= InvalidPos \/ found = {} THEN InvalidPos ELSE Min(found) + Len(needle)

matchPart(lastMatchEnd, pattern, s) ==
    CASE pattern = <<>> -> IF lastMatchEnd = NoMatchYet THEN 0 ELSE lastMatchEnd
      [] pattern # <<>> /\ lastMatchEnd # NoMatchYet -> findMatch(s, pattern, lastMatchEnd)
      [] OTHER -> IF startsWith(s, pattern) THEN Len(pattern) ELSE InvalidPos

\* What is left of the pattern behind its last wildcard ends the string; with
\* a '%' before it, it starts behind the match of the part before.
reaches(s, flexible, n) == IF flexible THEN n <= Len(s) ELSE n = Len(s)
lastPart(s, state) ==
    /\ endsWith(s, state.current)
    /\ state.last # NoMatchYet => reaches(s, state.flexible, state.last + Len(state.current))

\* constLikeImpl: a constant pattern is split at its '%' and '.' when the
\* query is compiled; each part is searched behind the one before it.
constLike(s, p) ==
    LET step(state, c) ==
            CASE state.escaped -> [state EXCEPT !.current = Append(@, c), !.escaped = FALSE]
              [] c = Backslash -> [state EXCEPT !.escaped = TRUE]
              [] c = Dot -> [state EXCEPT !.last = 1 + matchPart(@, state.current, s),
                                          !.current = <<>>]
              [] c = Percent -> [state EXCEPT !.last = matchPart(@, state.current, s),
                                              !.current = <<>>, !.flexible = TRUE]
              [] OTHER -> [state EXCEPT !.current = Append(@, c)]
        end == FoldLeft(step, [current |-> <<>>, last |-> NoMatchYet, flexible |-> FALSE,
                               escaped |-> FALSE], p)
    IN  IF end.current = <<>> THEN reaches(s, end.flexible, end.last) ELSE lastPart(s, end)

(***************************************************************************)
(* Numbers.                                                                *)
(***************************************************************************)
\* DecimalRuntime::round: a tie is rounded towards zero.
roundDecimal(value, digits, scale) ==
    LET shift == PowerOfTen[scale - digits]
        away == IF Abs(Remainder(value, shift)) > shift \div 2 THEN 1 ELSE 0
    IN  IF digits >= scale THEN value
        ELSE (Quotient(value, shift) + (IF value > 0 THEN away ELSE -away)) * shift

\* IntegerRuntime::pow, by squaring.
RECURSIVE powInt(_, _)
powInt(base, exp) ==
    CASE base = 0 -> 0
      [] base # 0 /\ exp = 0 -> 1
      [] base # 0 /\ exp < 0 -> powInt(Quotient(1, base), -exp)
      [] OTHER -> (IF exp % 2 = 1 THEN base ELSE 1)
                  * (IF exp \div 2 = 0 THEN 1 ELSE powInt(base * base, exp \div 2))

\* std::pow for whole exponents.
RECURSIVE powFloat(_, _)
powFloat(base, n) ==
    CASE n = 0 -> <<1, 1>>
      [] n > 0 -> FloatArithmetic("mul", base, powFloat(base, n - 1))
      [] n < 0 -> FloatArithmetic("div", <<1, 1>>, powFloat(base, -n))
\* The transcendental functions have no fractions as values.  Nothing that is
\* stated of them depends on the values, so they stand for any functions.
FloatFunction(name, x) ==
    CASE name = "Log" -> <<((x[1] + 2 * x[2]) % 5) - 1, 1>>
      [] name = "Exp" -> <<((x[1] + x[2]) % 3) + 1, 1>>
      [] name = "Sqrt" -> <<((2 * x[1] + x[2]) % 3) + 1, 1>>
      [] name = "Sin" -> <<((x[1] + x[2]) % 4) - 1, 1>>
      [] name = "Cos" -> <<((x[1] + 3 * x[2]) % 5) - 2, 1>>

(***************************************************************************)
(* Arrays.                                                                 *)
(***************************************************************************)
elementwise(name, a, b) ==
    [i \in DOMAIN a |-> [j \in DOMAIN a[i] |-> FloatArithmetic(name, a[i][j], b[i][j])]]
arrayFill(x, a) == [i \in DOMAIN a |-> [j \in DOMAIN a[i] |-> x]]
matrixMul(a, b) ==
    LET cell(i, j) == FoldLeft(LAMBDA acc, k : FloatArithmetic("add", acc,
                                   FloatArithmetic("mul", a[i][k], b[k][j])),
                               <<0, 1>>, [k \in DOMAIN b |-> k])
    IN  [i \in DOMAIN a |-> [j \in DOMAIN b[1] |-> cell(i, j)]]
arrayTranspose(a) == [i \in DOMAIN a[1] |-> [j \in DOMAIN a |-> a[j][i]]]
sigmoid(x) ==
    FloatArithmetic("div", <<1, 1>>, FloatArithmetic("add", <<1, 1>>, FloatFunction("Exp", <<-x[1], x[2]>>)))
arraySigmoid(a) == [i \in DOMAIN a |-> [j \in DOMAIN a[i] |-> sigmoid(a[i][j])]]

(***************************************************************************)
(* Dates.  Months are counted from January 1970; the day of a month that   *)
(* does not have it runs into the next month.                              *)
(***************************************************************************)
MonthLength(k) ==
    LET month == k % 12
        leap == (k \div 12) % 4 = 2
    IN  CASE month = 1 -> IF leap THEN 29 ELSE 28
          [] month \in {3, 5, 8, 10} -> 30
          [] OTHER -> 31
LastMonth == 60
MonthStart[k \in 0..LastMonth] == IF k = 0 THEN 0 ELSE MonthStart[k - 1] + MonthLength(k - 1)
MonthOf(date) == Max({k \in 0..(LastMonth - 1) : MonthStart[k] <= date})
extractYear(date) == 1970 + MonthOf(date) \div 12
extractMonth(date) == (MonthOf(date) % 12) + 1
extractDay(date) == date - MonthStart[MonthOf(date)] + 1
addMonths(date, n) == MonthStart[MonthOf(date) + n] + extractDay(date) - 1
=============================================================================
