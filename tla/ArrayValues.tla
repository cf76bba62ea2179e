----------------------------- MODULE ArrayValues -----------------------------
(***************************************************************************)
(* Sequences of array operations.  A block made from a text, by ARRAY[...] *)
(* or empty is changed by one operation of ArrayRuntime.cpp after the      *)
(* other; value is the nested array it should stand for, changed by the    *)
(* same operations as Array.h documents them.                              *)
(*                                                                         *)
(* Left out are the inputs on which the code does not do what Array.h says *)
(* (see README.md): slices of arrays with one level, elements in front of  *)
(* NULLs, appends that misplace what follows a full byte of bits           *)
(* (NullKept, AppendKept), arithmetic and transposition of arrays with     *)
(* NULLs, empty structures or different shapes other than in a division,   *)
(* lower bounds below the first index, strings in getHighestPosition.      *)
(***************************************************************************)
EXTENDS Arrays

CONSTANTS
    Texts,          \* [header, body, type] to parse
    Constructors,   \* the items of ARRAY[...]
    Groups,         \* the type of an array_agg and its arguments
    Operands,       \* texts of the second arrays of operations
    Scalars,        \* <<type, value>>
    Chains,         \* the indices of a[..][..]
    MaxElements,    \* elements of an array
    MaxSteps        \* operations on an array

VARIABLES
    array,          \* the block, or what else an operation returned
    value,          \* what it should stand for
    steps

vars == <<array, value, steps>>

-----------------------------------------------------------------------------
(* Nested values: the type, the first index of every level and a tree.  A tree is <<"kids", trees>>
   or <<"leaf", element>>. *)

RECURSIVE TreeOf(_, _, _)
TreeOf(a, d, i) ==
    <<"kids", [k \in 1..WidthsOf(a, d)[i] |->
                 LET p == Before(a, d, i) + k
                 IN  IF d < Dimensions(a) THEN TreeOf(a, d + 1, p) ELSE <<"leaf", IF isNull(a, p) THEN NULL ELSE Element(a, p)>>]>>
ValueOf(a) == [type |-> a.type, starts |-> a.indices, tree |-> TreeOf(a, 1, 1)]

Value(type, starts, tree) == [type |-> type, starts |-> starts, tree |-> tree]
Levels(v) == Len(v.starts)
Kids(trees) == <<"kids", trees>>
RECURSIVE Leaves(_)
Leaves(t) == IF t[1] = "leaf" THEN <<t[2]>> ELSE FoldLeft(LAMBDA s, k : s \o Leaves(k), <<>>, t[2])
RECURSIVE Structures(_)
\* The widths of all structures.
Structures(t) == IF t[1] = "leaf" THEN {} ELSE UNION {Structures(t[2][i]) : i \in DOMAIN t[2]} \union {Len(t[2])}
RECURSIVE HasLevel(_, _)
HasLevel(t, level) == t[1] = "kids" /\ (level = 1 \/ \E i \in DOMAIN t[2] : HasLevel(t[2][i], level - 1))

RECURSIVE AtLast(_, _, _)
\* The trees added to the last structure of a level.
AtLast(t, level, trees) ==
    IF level = 1 THEN Kids(t[2] \o trees)
    ELSE LET i == CHOOSE i \in DOMAIN t[2] : HasLevel(t[2][i], level - 1) /\ \A j \in DOMAIN t[2] : j > i => ~HasLevel(t[2][j], level - 1)
         IN  Kids([t[2] EXCEPT ![i] = AtLast(@, level - 1, trees)])
RECURSIVE AtFirst(_, _, _)
AtFirst(t, level, trees) ==
    IF level = 1 THEN Kids(trees \o t[2])
    ELSE LET i == CHOOSE i \in DOMAIN t[2] : HasLevel(t[2][i], level - 1) /\ \A j \in 1..(i - 1) : ~HasLevel(t[2][j], level - 1)
         IN  Kids([t[2] EXCEPT ![i] = AtFirst(@, level - 1, trees)])

RECURSIVE SliceTree(_, _, _, _, _)
SliceTree(t, level, first, lower, upper) ==
    IF level = 1 THEN Kids(SubSeq(t[2], IF lower > first THEN lower - first + 1 ELSE 1, IF upper - first + 1 < Len(t[2]) THEN upper - first + 1 ELSE Len(t[2])))
    ELSE Kids([i \in DOMAIN t[2] |-> SliceTree(t[2][i], level - 1, first, lower, upper)])

RECURSIVE MapLeaves(_, _)
\* The leaves replaced by those of a sequence.
MapLeaves(t, leaves) ==
    IF t[1] = "leaf" THEN <<"leaf", leaves[1]>>
    ELSE LET skip[i \in 1..Len(t[2])] == IF i = 1 THEN 0 ELSE skip[i - 1] + Len(Leaves(t[2][i - 1]))
         IN  Kids([i \in DOMAIN t[2] |-> MapLeaves(t[2][i], SubSeq(leaves, skip[i] + 1, Len(leaves)))])
WithLeaves(v, type, leaves) == Value(type, v.starts, MapLeaves(v.tree, leaves))

RECURSIVE Filled(_, _)
Filled(lengths, leaf) == IF lengths = <<>> THEN <<"leaf", leaf>> ELSE Kids([i \in 1..lengths[1] |-> Filled(Tail(lengths), leaf)])

Plain(v) == NULL \notin ToSet(Leaves(v.tree)) /\ 0 \notin Structures(v.tree)
RECURSIVE Shape(_)
Shape(t) == IF t[1] = "leaf" THEN <<>> ELSE [i \in DOMAIN t[2] |-> Shape(t[2][i])]
RECURSIVE Rectangular(_)
Rectangular(t) ==
    t[1] = "kids" => \A i, j \in DOMAIN t[2] : Shape(t[2][i]) = Shape(t[2][j]) /\ Rectangular(t[2][i])

-----------------------------------------------------------------------------

RECURSIVE LeafDepths(_, _)
LeafDepths(t, d) == IF t[1] = "leaf" THEN {d} ELSE UNION {LeafDepths(t[2][i], d + 1) : i \in DOMAIN t[2]}
RECURSIVE Depth(_)
Depth(t) == IF t[1] = "leaf" THEN 0 ELSE 1 + Max({Depth(t[2][i]) : i \in DOMAIN t[2]} \union {0})
RECURSIVE Fits(_, _)
Fits(t, header) ==
    t[1] = "kids" => /\ Len(t[2]) <= header[1][2] - header[1][1] + 1
                     /\ \A i \in DOMAIN t[2] : Fits(t[2][i], Tail(header))

\* What a text stands for: all elements on one level, the lowest, within the bounds of the header.
ParsedValue(text) ==
    LET t == text.body
        texts == Leaves(t)
        ok == /\ \A d \in LeafDepths(t, 0) : d = Depth(t)
              /\ text.header # <<>> => HeaderOK(text.header) /\ Depth(t) = Len(text.header) /\ Fits(t, text.header)
              /\ \A i \in DOMAIN texts : texts[i] # NULL => Castable("string", text.type, texts[i])
        starts == IF text.header = <<>> THEN Ones(Depth(t)) ELSE [d \in DOMAIN text.header |-> text.header[d][1]]
    IN  IF ~ok THEN Error
        ELSE Value(text.type, starts, MapLeaves(t, [i \in DOMAIN texts |-> IF texts[i] = NULL THEN NULL ELSE castElement("string", text.type, texts[i])]))

RECURSIVE ItemLeaves(_)
ItemLeaves(items) == FoldLeft(LAMBDA s, it : s \o (IF it[1] = "array" THEN ItemLeaves(it[2]) ELSE <<it>>), <<>>, items)
RECURSIVE ItemTree(_)
ItemTree(items) == Kids([i \in DOMAIN items |-> IF items[i][1] = "array" THEN ItemTree(items[i][2]) ELSE <<"leaf", NULL>>])
\* What ARRAY[...] stands for: the first type that is not an integer is that of all elements.
ConstructedValue(items) ==
    LET leaves == ItemLeaves(items)
        others == {i \in DOMAIN leaves : leaves[i][1] = "scalar" /\ leaves[i][2] # "int"}
        type == IF others = {} THEN "int" ELSE leaves[CHOOSE i \in others : \A j \in others : i <= j][2]
    IN  IF \E i \in DOMAIN leaves : leaves[i][1] = "scalar" /\ ~Castable(leaves[i][2], type, leaves[i][3]) THEN Error
        ELSE Value(type, Ones(Depth(ItemTree(items))),
                   MapLeaves(ItemTree(items), [i \in DOMAIN leaves |-> IF leaves[i][1] = "null" THEN NULL ELSE castElement(leaves[i][2], type, leaves[i][3])]))

ArrayAgg(type, args) == FoldLeft(LAMBDA st, arg : ArrayAggAggregate(type, st, arg), ArrayAggDefault(type), args)
\* The rows of a group as one array.
GroupValue(type, args) ==
    LET Leaf(arg) == <<"leaf", castElement(arg[2], type, arg[3])>>
        trees == [i \in DOMAIN args |-> IF args[i][1] = "scalar" THEN Leaf(args[i]) ELSE TreeOf(args[i][2], 1, 1)]
    IN  Value(type, Ones(Depth(Kids(trees))), Kids(trees))

Parsed(text) == fromString(text.header, Tokens(text.body), text.type)

Init ==
    /\ steps = 0
    /\ \/ \E text \in Texts : array = Parsed(text) /\ value = ParsedValue(text)
       \/ \E items \in Constructors : array = translateArrayExpression(items) /\ value = ConstructedValue(items)
       \/ \E g \in Groups : array = ArrayAgg(g[1], g[2]) /\ value = GroupValue(g[1], g[2])
       \/ \E g \in Groups : \E n \in 1..(Len(g[2]) - 1) :
              /\ array = ArrayAggCombine(ArrayAgg(g[1], SubSeq(g[2], 1, n)), ArrayAgg(g[1], SubSeq(g[2], n + 1, Len(g[2]))))
              /\ value = GroupValue(g[1], g[2])
       \/ \E type \in {"int", "double", "string"} : array = createEmptyArray(type) /\ value = Value(type, <<1>>, Kids(<<>>))

\* One operation returns a new block.
Operation(new, newValue) ==
    /\ array.kind = "array"
    /\ value # Error
    /\ steps < MaxSteps
    /\ array' = new
    /\ value' = newValue
    /\ steps' = steps + 1

Room(n) == Count(array) + n <= MaxElements
\* What an append misplaces: the bit of a NULL that starts a byte, texts behind a full last byte, and,
\* as the bits of an element, the first character of the texts they end at.
FullBytes(n) == n # 0 /\ n % 8 = 0
NullKept == ~FullBytes(Count(array))
TextsKept(n) == array.type = "string" => ~FullBytes(n)
AppendKept(b) == isEmpty(array) \/ TextsKept(Count(array) + Count(b))
IsArray == array.kind = "array" /\ value # Error

AppendElement ==
    \E x \in Scalars :
        /\ IsArray /\ Room(1) /\ TextsKept(Count(array)) /\ HasLevel(value.tree, Levels(value))
        /\ Operation(appendScalar(array, x[1], x[2], FALSE),
                     IF value.type = x[1] THEN [value EXCEPT !.tree = AtLast(@, Levels(value), <<<<"leaf", x[2]>>>>)] ELSE Error)

AppendElementFront ==
    \E x \in Scalars :
        /\ IsArray /\ Room(1) /\ TextsKept(Count(array)) /\ HasLevel(value.tree, Levels(value)) /\ NULL \notin ToSet(Leaves(value.tree))
        /\ Operation(appendScalar(array, x[1], x[2], TRUE),
                     IF value.type = x[1] THEN [value EXCEPT !.tree = AtFirst(@, Levels(value), <<<<"leaf", x[2]>>>>)] ELSE Error)

AppendNull ==
    /\ IsArray /\ Room(1) /\ NullKept /\ HasLevel(value.tree, Levels(value))
    /\ Operation(appendNull(array), [value EXCEPT !.tree = AtLast(@, Levels(value), <<<<"leaf", NULL>>>>)])

\* The value of one array appended to another.
AppendedValue(v, w) ==
    CASE v.type # w.type \/ Levels(w) > Levels(v) -> Error
      [] v.type = w.type /\ Levels(w) = Levels(v) -> [v EXCEPT !.tree = Kids(@[2] \o w.tree[2])]
      [] OTHER -> [v EXCEPT !.tree = AtLast(@, Levels(v) - Levels(w), <<w.tree>>)]

AppendArray ==
    \E text \in Operands :
        LET b == Parsed(text)
        IN  /\ IsArray /\ Room(Count(b)) /\ AppendKept(b)
            /\ Operation(append(array, b), AppendedValue(value, ParsedValue(text)))

Aggregate ==
    \E text \in Operands :
        LET b == Parsed(text)
            w == ParsedValue(text)
            Nested(trees) == Value(value.type, <<1>> \o value.starts, Kids(trees))
        IN  /\ IsArray /\ Room(Count(b)) /\ AppendKept(b)
            /\ Operation(agg(array, b),
                         CASE value.type # w.type \/ Levels(w) > Levels(value) -> Error
                           [] value.type = w.type /\ Levels(w) = Levels(value) /\ Leaves(value.tree) = <<>> -> Nested(<<Kids(value.tree[2] \o w.tree[2])>>)
                           [] value.type = w.type /\ Levels(w) = Levels(value) /\ Leaves(value.tree) # <<>> -> Nested(<<value.tree, w.tree>>)
                           [] OTHER -> AppendedValue(value, w))

Increment == IsArray /\ Operation(increment(array), Value(value.type, <<1>> \o value.starts, Kids(<<value.tree>>)))

\* What one level of a slice leaves, and what a subscript finds.
SlicedValue(v, lower, upper, d) ==
    LET t == SliceTree(v.tree, d, v.starts[d], lower, upper)
    IN  CASE lower > upper -> Error
          [] lower <= upper /\ (d > Levels(v) \/ Leaves(t) = <<>>) -> Value(v.type, <<1>>, Kids(<<>>))
          [] OTHER -> Value(v.type, [v.starts EXCEPT ![d] = lower], t)
SubscriptValue(v, position) ==
    LET i == position - v.starts[1] + 1
        t == v.tree[2][i]
    IN  CASE i \notin DOMAIN v.tree[2] -> NullText
          [] i \in DOMAIN v.tree[2] /\ t[1] = "leaf" -> IF t[2] = NULL THEN NullText ELSE [kind |-> "element", type |-> v.type, value |-> t[2]]
          [] OTHER -> IF Leaves(t) = <<>> THEN Value(v.type, Ones(Depth(t)), t) ELSE Value(v.type, Tail(v.starts), t)
IsValue(v) == "tree" \in DOMAIN v

Indirection ==
    \E indices \in Chains :
        LET sliced == \E i \in DOMAIN indices : indices[i][1] # NULL
            Lower(i) == IF indices[i][1] = NULL THEN 1 ELSE indices[i][1]
            Index(v, i) ==
                CASE v = Error -> v
                  [] v # Error /\ sliced -> SlicedValue(v, Lower(i), indices[i][2], i)
                  [] OTHER -> IF IsValue(v) THEN SubscriptValue(v, indices[i][2]) ELSE NullText
        IN  /\ IsArray
            /\ sliced => /\ Dimensions(array) > 1
                         /\ \A d \in DOMAIN indices : d <= Levels(value) => Lower(d) >= value.starts[d]
            /\ Operation(translateIndirectionExpression(array, indices), FoldLeft(Index, value, [i \in DOMAIN indices |-> i]))

\* The result of a subscript as a number or a string.
ToScalar ==
    \E type \in {"int", "double", "string"} :
        /\ array.kind \in {"array", "element"}
        /\ value # Error
        /\ steps < MaxSteps
        /\ array' = toScalar(array, type)
        /\ value' = IF IsValue(value) \/ ~Castable(value.type, type, value.value) THEN Error
                    ELSE [kind |-> "scalar", value |-> castElement(value.type, type, value.value)]
        /\ steps' = steps + 1

Transpose ==
    /\ IsArray
    /\ value.type \in Numeric => Plain(value) /\ Rectangular(value.tree)
    /\ LET t == value.tree[2]
           columns == [c \in DOMAIN t[1][2] |-> Kids([r \in DOMAIN t |-> t[r][2][c]])]
       IN  Operation(transpose(array),
                     CASE value.type \notin Numeric -> Error
                       [] value.type \in Numeric /\ Levels(value) = 1 -> Value(value.type, <<1>> \o value.starts, Kids(<<value.tree>>))
                       [] OTHER -> Value(value.type, <<value.starts[2], value.starts[1]>> \o SubSeq(value.starts, 3, Levels(value)), Kids(columns)))

Fill ==
    \E x \in Scalars \union {<<"int", NULL>>} :
        LET lengths == SelectSeq(Leaves(value.tree), LAMBDA y : y # NULL)
        IN  /\ IsArray
            /\ value.type = "int" => (\A i \in DOMAIN lengths : lengths[i] \in 1..2) /\ Len(lengths) <= 3
            /\ Operation(fill(x[2], x[1], array),
                         IF lengths = <<>> \/ value.type # "int" THEN Error ELSE Value(x[1], Ones(Len(lengths)), Filled(lengths, x[2])))

\* Division checks its arguments; the other operations rely on equal shapes without NULLs.
Arithmetic ==
    \E op \in {"add", "sub", "mul", "div"}, text \in Operands :
        LET b == Parsed(text)
            w == ParsedValue(text)
            fit == Plain(value) /\ Plain(w) /\ Shape(value.tree) = Shape(w.tree)
            x == Leaves(value.tree)
            y == Leaves(w.tree)
        IN  /\ IsArray
            /\ value.type = w.type /\ value.type \in Numeric => fit \/ (op = "div" /\ Levels(value) = Levels(w))
            /\ Operation(arithmetic(op, array, b),
                         IF value.type \notin Numeric \/ value.type # w.type \/ ~fit THEN Error
                         ELSE WithLeaves(value, value.type, [i \in DOMAIN x |-> Operator(op, value.type, x[i], y[i])]))

ScalarArithmetic ==
    \E op \in {"add", "sub", "mul", "div"}, x \in {s \in Scalars : s[1] # "string"}, isLeft \in BOOLEAN :
        LET leaves == Leaves(value.tree)
            Result(y) == IF y = NULL THEN NULL ELSE IF isLeft THEN Operator(op, x[1], x[2], y) ELSE Operator(op, x[1], y, x[2])
        IN  /\ IsArray
            /\ op \in {"add", "mul"} => isLeft
            /\ isLeft /\ op = "div" /\ value.type = x[1] => 0 \notin ToSet(leaves)
            /\ Operation(scalarArithmetic(op, array, x[1], x[2], isLeft),
                         IF value.type # x[1] THEN Error ELSE WithLeaves(value, x[1], [i \in DOMAIN leaves |-> Result(leaves[i])]))

Activate ==
    LET leaves == Leaves(value.tree)
    IN  /\ IsArray
        /\ Operation(sigmoid(array), IF value.type \notin Numeric THEN Error
                                     ELSE WithLeaves(value, value.type, [i \in DOMAIN leaves |-> IF leaves[i] = NULL THEN NULL ELSE Sigmoid(leaves[i])]))

\* The rows of a matrix, a one-level array being a column.
Rows(v) == IF Levels(v) = 1 THEN [r \in DOMAIN v.tree[2] |-> <<v.tree[2][r][2]>>]
           ELSE [r \in DOMAIN v.tree[2] |-> [c \in DOMAIN v.tree[2][r][2] |-> v.tree[2][r][2][c][2]]]
MatrixMul ==
    \E text \in Operands :
        LET w == ParsedValue(text)
            a == Rows(value)
            b == Rows(w)
            fit == Levels(value) <= 2 /\ Levels(w) <= 2 /\ Len(a[1]) = Len(b)
            Cell(r, c) == Total([k \in DOMAIN b |-> Operator("mul", "double", a[r][k], b[k][c])])
        IN  /\ IsArray
            /\ value.type = "double" /\ w.type = "double" => Plain(value) /\ Plain(w) /\ Rectangular(value.tree) /\ Rectangular(w.tree)
            /\ Operation(matrixMul(array, Parsed(text)),
                         IF value.type # "double" \/ w.type # "double" \/ ~fit THEN Error
                         ELSE Value("double", <<1, 1>>, Kids([r \in DOMAIN a |-> Kids([c \in DOMAIN b[1] |-> <<"leaf", Cell(r, c)>>])])))

\* The sum of two array values in an aggregation; NULL is the empty string.
SumUp ==
    \E text \in Operands \union {NullText} :
        LET b == IF text = NullText THEN NullText ELSE Parsed(text)
            w == IF text = NullText THEN value ELSE ParsedValue(text)
            x == Leaves(value.tree)
            y == Leaves(w.tree)
        IN  /\ IsArray
            /\ w.type = value.type
            /\ value.type \in Numeric /\ x # <<>> /\ y # <<>> => Plain(value) /\ Plain(w) /\ Shape(value.tree) = Shape(w.tree)
            /\ Operation(sum(array, b),
                         CASE text = NullText \/ (x # <<>> /\ y = <<>>) -> value
                           [] text # NullText /\ x = <<>> -> w
                           [] text # NullText /\ x # <<>> /\ y # <<>> /\ value.type \notin Numeric -> Error
                           [] OTHER -> WithLeaves(value, value.type, [i \in DOMAIN x |-> x[i] + y[i]]))

Cast ==
    \E type \in {"int", "double", "string"} :
        LET leaves == Leaves(value.tree)
        IN  /\ IsArray
            /\ Operation(cast(array, type),
                         IF \E i \in DOMAIN leaves : leaves[i] # NULL /\ ~Castable(value.type, type, leaves[i]) THEN Error
                         ELSE WithLeaves(value, type, [i \in DOMAIN leaves |-> IF leaves[i] = NULL THEN NULL ELSE castElement(value.type, type, leaves[i])]))

HighestPosition ==
    LET leaves == Leaves(value.tree)
        present == {i \in DOMAIN leaves : leaves[i] # NULL}
        highest == {i \in present : \A j \in present : leaves[j] <= leaves[i]}
    IN  /\ IsArray
        /\ value.type \in Numeric
        /\ Operation([kind |-> "scalar", value |-> getHighestPosition(array)],
                     [kind |-> "scalar", value |-> IF present = {} THEN 0 ELSE Min(highest) - 1])

Next ==
    \/ AppendElement \/ AppendElementFront \/ AppendNull \/ AppendArray \/ Aggregate \/ Increment
    \/ Indirection \/ ToScalar \/ Transpose \/ Fill
    \/ Arithmetic \/ ScalarArithmetic \/ Activate \/ MatrixMul \/ SumUp
    \/ Cast \/ HighestPosition

Spec == Init /\ [][Next]_vars

-----------------------------------------------------------------------------
(* Properties *)

\* The widths of every level count the structures of the next one, the last ones the elements; the
\* elements and the bits agree, and no bit is set behind the last element.
WellFormed(a) ==
    /\ Len(a.map) = Dimensions(a) /\ a.map[1] = 1 /\ Len(a.widths) = Total(a.map)
    /\ \A d \in 1..(Dimensions(a) - 1) : Total(WidthsOf(a, d)) = a.map[d + 1]
    /\ Len(a.nulls) = NullBits(Count(a))
    /\ Len(a.elements) = Cardinality({p \in 1..Count(a) : ~a.nulls[p]})
    /\ \A p \in DOMAIN a.nulls : a.nulls[p] => p <= Count(a)

\* After any sequence of operations the flat block is one that later operations can read, and it
\* stands for the nested array the operations are documented to return; an operation fails exactly
\* when it is documented to.
ArrayIsValue ==
    CASE array.kind = "element" -> value.kind = "element" /\ array.value = castElement(value.type, "string", value.value)
      [] array.kind \in {"error", "null", "scalar"} -> array = value
      [] OTHER -> value # Error /\ WellFormed(array) /\ ValueOf(array) = value

\* Printing loses nothing but the type: the text of an array parses to the same array.
PrintParses ==
    array.kind = "array" /\ WellFormed(array) =>
        LET text == print(array)
        IN  fromString(text.header, Tokens(text.body), array.type) = array

=============================================================================
