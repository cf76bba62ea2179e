------------------------------- MODULE Arrays -------------------------------
(***************************************************************************)
(* The array values of src/include/runtime/Array.h and src/lib/runtime/    *)
(* Array: nested, possibly ragged arrays of numbers or strings with NULLs, *)
(* in one flat block of memory.  A block holds the widths of all           *)
(* structures level by level, the elements that are not NULL, and a bit    *)
(* for every element.  Every operation copies parts of one or two blocks   *)
(* into a new one.                                                         *)
(*                                                                         *)
(* The operations are checked against the nested value a block stands for. *)
(* INTEGER32 stands for INTEGER64 too and DOUBLE for the three floating    *)
(* point types; a double is given by the number of its halves.  A string   *)
(* is the text of an integer, of a double, or a word.                      *)
(***************************************************************************)
EXTENDS Integers, Sequences, FiniteSets, SequencesExt

CONSTANTS
    NULL,
    StaleWord,      \* what stands in memory after a vector of one entry
    TextBits,       \* the bits of the first character of a text
    Sigmoid(_)      \* the activation function

Total(s) == FoldLeft(LAMBDA a, x : a + x, 0, s)
Ones(n) == [i \in 1..n |-> 1]
Trunc(x, y) == IF (x >= 0) = (y > 0) THEN (IF x >= 0 THEN x ELSE -x) \div (IF y > 0 THEN y ELSE -y)
               ELSE -((IF x >= 0 THEN x ELSE -x) \div (IF y > 0 THEN y ELSE -y))

Numeric == {"int", "double"}
Error == [kind |-> "error"]
NullText == [kind |-> "null"]                           \* the empty string: NULL
Elem(x) == [kind |-> "element", value |-> x]
ShiftedText == <<"word", "shifted">>                    \* a text read one byte before it starts

-----------------------------------------------------------------------------
(* The block *)

\* Byte boundaries of the bits, with which a block is written (getNullBytes).
NullBytes(n) == (n + 7) \div 8
NullBits(n) == 8 * NullBytes(n)
Padded(bits) == bits \o [i \in 1..(NullBits(Len(bits)) - Len(bits)) |-> FALSE]

\* The fields that initArray finds in a block; its size is the number of its elements.
Block(type, indices, map, widths, elements, nulls) ==
    [kind |-> "array", type |-> type, indices |-> indices, map |-> map, widths |-> widths,
     elements |-> elements, nulls |-> nulls]

createEmptyArray(type) == Block(type, <<1>>, <<1>>, <<0>>, <<>>, <<>>)

Dimensions(a) == Len(a.indices)
getFirstWidth(a, d) == Total(SubSeq(a.map, 1, d - 1))
WidthsOf(a, d) == SubSeq(a.widths, getFirstWidth(a, d) + 1, getFirstWidth(a, d) + a.map[d])
\* getSize(true): the elements with the NULLs.
Count(a) == Total(WidthsOf(a, Dimensions(a)))

\* getOffset and getChildWidth: the elements, or structures of the next level, before those of the
\* i-th structure of level d.
Before(a, d, i) == Total(SubSeq(WidthsOf(a, d), 1, i - 1))

isNull(a, p) == a.nulls[p]
countNulls(a, p) == Cardinality({q \in 1..(p - 1) : isNull(a, q)})
getElementPosition(a, p) == p - countNulls(a, p)
Element(a, p) == a.elements[getElementPosition(a, p)]

hasNullValue(a) == \E p \in 1..Count(a) : isNull(a, p)
hasEmptyValue(a) == \E i \in DOMAIN a.widths : a.widths[i] = 0
isEmpty(a) == Count(a) = 0
equalWidths(a, b) == \A i \in DOMAIN a.widths : a.widths[i] = b.widths[i]
isSymmetric(a) == \A d \in 1..Dimensions(a) : \A i \in DOMAIN WidthsOf(a, d) : WidthsOf(a, d)[i] = WidthsOf(a, d)[1]

\* The bits that are copied for n elements out of a block: the byte after its own is the first of
\* its texts, or the zero at its end.
ReadNulls(a, n) ==
    LET beyond == IF a.type = "string" /\ a.elements # <<>> THEN TextBits ELSE [i \in 1..8 |-> FALSE]
    IN  SubSeq(a.nulls \o beyond, 1, NullBits(n))

-----------------------------------------------------------------------------
(* Conversions *)

\* castAndCopyElement between numbers.
castNumber(from, to, x) == IF from = to THEN x ELSE IF to = "double" THEN 2 * x ELSE Trunc(x, 2)
\* castAndCopyElement of a text: stoi, stod.
fromText(to, text) == castNumber(text[1], to, text[2])
\* toString.
toText(from, x) == <<from, x>>

castElement(from, to, x) ==
    CASE from = "string" /\ to = "string" -> x
      [] from = "string" /\ to # "string" -> fromText(to, x)
      [] from # "string" /\ to = "string" -> toText(from, x)
      [] OTHER -> castNumber(from, to, x)

Castable(from, to, x) == from = "string" /\ to # "string" => x[1] # "word"

\* cast, castToNumeric, castToString.
cast(a, type) ==
    IF \E i \in DOMAIN a.elements : ~Castable(a.type, type, a.elements[i]) THEN Error
    ELSE [a EXCEPT !.type = type, !.elements = [i \in DOMAIN a.elements |-> castElement(a.type, type, a.elements[i])]]

RECURSIVE printArray(_, _, _)
\* The text of a structure: a tree whose leaves are texts or NULL.
printArray(a, d, i) ==
    <<"kids", [k \in 1..WidthsOf(a, d)[i] |->
                 LET p == Before(a, d, i) + k
                 IN  IF d < Dimensions(a) THEN printArray(a, d + 1, p)
                     ELSE <<"leaf", IF isNull(a, p) THEN NULL ELSE castElement(a.type, "string", Element(a, p))>>]>>

\* Mutant: only the first level decides whether there is a header.
printHeaderOfFirst(a) ==
    IF a.indices[1] = 1 THEN <<>>
    ELSE [d \in 1..Dimensions(a) |-> <<a.indices[d], a.indices[d] + Max(ToSet(WidthsOf(a, d)) \union {0}) - 1>>]

\* printHeader: the bounds of the levels, unless all start at 1.
printHeader(a) ==
    IF \A d \in 1..Dimensions(a) : a.indices[d] = 1 THEN <<>>
    ELSE [d \in 1..Dimensions(a) |-> LET widest == Max(ToSet(WidthsOf(a, d)) \union {0})
                                     IN  <<a.indices[d], a.indices[d] + widest - 1>>]

print(a) == [header |-> printHeader(a), body |-> printArray(a, 1, 1)]

-----------------------------------------------------------------------------
(* Parsing (ArrayParsing.cpp), of the tokens of a text *)

RECURSIVE Tokens(_)
\* A text as a sequence of braces, commas, nulls and elements.
Tokens(tree) ==
    CASE tree[1] = "leaf" -> <<IF tree[2] = NULL THEN <<"null">> ELSE <<"element", tree[2]>>>>
      [] OTHER -> FoldLeft(LAMBDA s, i : s \o (IF i = 1 THEN <<>> ELSE <<<<"comma">>>>) \o Tokens(tree[2][i]),
                           <<<<"open">>>>, [i \in DOMAIN tree[2] |-> i]) \o <<<<"close">>>>

OutOfBounds(st, lengths, width) == lengths # <<>> /\ width > lengths[st.position]

EnterStructure(st, lengths) ==
    LET at == Total(SubSeq(st.map, 1, IF st.position + 1 < Len(st.map) THEN st.position + 1 ELSE Len(st.map)))
        counted == IF st.widths = <<>> THEN <<>> ELSE [st.widths EXCEPT ![st.index] = @ + 1]
        d == st.position + 1
    IN  IF \/ st.last # 0 /\ st.last < d
           \/ st.widths # <<>> /\ OutOfBounds(st, lengths, counted[st.index])
        THEN [st EXCEPT !.failed = TRUE]
        ELSE [st EXCEPT !.widths = InsertAt(counted, at + 1, 0), !.index = at + 1, !.position = d,
                        !.map = IF d > Len(@) THEN Append(@, 1) ELSE [@ EXCEPT ![d] = @ + 1],
                        !.indices = IF d > Len(@) THEN Append(@, 1) ELSE @,
                        !.offset = Len(st.nulls)]

LeaveStructure(st, lengths) ==
    LET width == IF st.last = st.position THEN Len(st.nulls) - st.offset ELSE st.widths[st.index]
        above == Total(SubSeq(st.map, 1, st.position - 1))
    IN  IF st.last = st.position /\ OutOfBounds(st, lengths, width) THEN [st EXCEPT !.failed = TRUE]
        ELSE [st EXCEPT !.widths[st.index] = width, !.position = @ - 1, !.index = IF above = 0 THEN @ ELSE above]

\* The byte of a NULL or of an element that is not NULL.
AddElement(st, token) ==
    IF \/ token[1] = "element" /\ st.position = 0
       \/ st.last # 0 /\ st.last # st.position
    THEN [st EXCEPT !.failed = TRUE]
    ELSE [st EXCEPT !.last = st.position, !.nulls = Append(@, token[1] = "null"),
                    !.elements = IF token[1] = "null" THEN @ ELSE Append(@, token[2])]

\* parseHeader: the start of every level and its length.
HeaderOK(header) == \A d \in DOMAIN header : header[d][1] <= header[d][2]
Lengths(header) == [d \in DOMAIN header |-> header[d][2] - header[d][1] + 1]

fromString(header, tokens, type) ==
    LET start == [failed |-> ~HeaderOK(header) \/ tokens = <<>>, position |-> 0, last |-> Len(header), index |-> 0, offset |-> 0,
                  indices |-> [d \in DOMAIN header |-> header[d][1]], map |-> <<>>, widths |-> <<>>, elements |-> <<>>, nulls |-> <<>>]
        Read(st, i) ==
            CASE st.failed -> st
              [] ~st.failed /\ tokens[i][1] = "open" -> EnterStructure(st, Lengths(header))
              [] ~st.failed /\ tokens[i][1] = "close" -> LeaveStructure(st, Lengths(header))
              [] ~st.failed /\ tokens[i][1] = "comma" ->
                    [st EXCEPT !.failed = i < Len(tokens) /\ tokens[i + 1][1] \in {"comma", "close"}]
              [] OTHER -> AddElement(st, tokens[i])
        end == FoldLeft(Read, start, [i \in DOMAIN tokens |-> i])
    IN  IF end.failed \/ \E i \in DOMAIN end.elements : ~Castable("string", type, end.elements[i]) THEN Error
        ELSE Block(type, end.indices, end.map, end.widths,
                   [i \in DOMAIN end.elements |-> castElement("string", type, end.elements[i])], Padded(end.nulls))

-----------------------------------------------------------------------------
(* Appending (ArrayAppend.cpp) *)

\* A buffer of bits for n elements, and the byte that is written next.
NewBuffer(n) == [bits |-> [k \in 1..NullBits(n) |-> FALSE], at |-> 0]

\* Mutant: the byte changes with every eighth bit that is read, not with every eighth that is written.
copyNullsAsRead(buffer, nulls, size, position) ==
    LET Target(i) == 8 * (buffer.at + (i - 1) \div 8) + ((position + i - 1) % 8) + 1
        set == {Target(i) : i \in {j \in 1..size : nulls[j]}}
    IN  IF position = 0 THEN [bits |-> [k \in DOMAIN buffer.bits |-> IF k <= NullBits(size) THEN nulls[k] ELSE FALSE], at |-> NullBytes(size)]
        ELSE [bits |-> [k \in DOMAIN buffer.bits |-> buffer.bits[k] \/ k \in set], at |-> buffer.at + ((position % 8) + size) \div 8 + 1]

\* copyNulls: whole bytes to position 0, else bit by bit behind those there; the buffer is left at
\* the byte behind the one of the next bit, even if that bit starts a byte.
copyNulls(buffer, nulls, size, position) ==
    LET Target(i) == 8 * (buffer.at + ((position % 8) + i - 1) \div 8) + ((position + i - 1) % 8) + 1
        set == {Target(i) : i \in {j \in 1..size : nulls[j]}}
    IN  IF position = 0 THEN [bits |-> [k \in DOMAIN buffer.bits |-> IF k <= NullBits(size) THEN nulls[k] ELSE FALSE], at |-> NullBytes(size)]
        ELSE [bits |-> [k \in DOMAIN buffer.bits |-> buffer.bits[k] \/ k \in set], at |-> buffer.at + ((position % 8) + size) \div 8 + 1]

\* copyStrings to a byte: texts are read from behind the bits of n elements.
Copied(type, elements, at, n) ==
    IF type = "string" /\ at # NullBytes(n) THEN [i \in DOMAIN elements |-> ShiftedText] ELSE elements

\* appendElement: to the last structure of the last level.
appendElement(a, x) ==
    [a EXCEPT !.widths[Len(a.widths)] = @ + 1, !.elements = Append(@, x), !.nulls = ReadNulls(a, Count(a) + 1)]

\* appendElementFront: to the first one.
appendElementFront(a, x) ==
    [a EXCEPT !.widths[getFirstWidth(a, Dimensions(a)) + 1] = @ + 1, !.elements = <<x>> \o @, !.nulls = ReadNulls(a, Count(a) + 1)]

\* append and appendFront of a value: only of the type of the elements.
appendScalar(a, type, x, isFront) ==
    IF a.type # type THEN Error ELSE IF isFront THEN appendElementFront(a, x) ELSE appendElement(a, x)

\* append(): the bit of a NULL is set in the last byte written; after a full byte that is the one
\* behind the bits, and lost.
appendNull(a) ==
    LET n == Count(a)
        bits == IF n = 0 THEN Padded(<<FALSE>>) ELSE ReadNulls(a, n + 1)
        written == IF n = 0 THEN 0 ELSE NullBytes(n + 1)
        at == IF n % 8 # 0 THEN written - 1 ELSE written
    IN  [a EXCEPT !.widths[Len(a.widths)] = @ + 1,
                  !.nulls = [k \in DOMAIN bits |-> bits[k] \/ k = 8 * at + (n % 8) + 1],
                  !.elements = Copied(a.type, @, at + 1, n + 1)]

\* append(Array): as the last structures of one level, or as one more of the level above it.
append(a, b) ==
    LET l == Dimensions(a)
        r == Dimensions(b)
        Level(d) ==
            CASE l = r /\ d = 1 -> <<WidthsOf(a, 1)[1] + WidthsOf(b, 1)[1]>>
              [] l > r /\ d = l - r -> [WidthsOf(a, d) EXCEPT ![a.map[d]] = @ + 1]
              [] l > r /\ d < l - r -> WidthsOf(a, d)
              [] OTHER -> WidthsOf(a, d) \o WidthsOf(b, d - (l - r))
        widths == [d \in 1..l |-> Level(d)]
        n == Count(a)
        total == n + Count(b)
        left == copyNulls(NewBuffer(total), a.nulls, n, 0)
        behind == IF n % 8 # 0 THEN [left EXCEPT !.at = @ - 1] ELSE left
        both == copyNulls(behind, b.nulls, Count(b), n)
    IN  IF a.type # b.type \/ l < r THEN Error
        ELSE Block(a.type, a.indices, [d \in 1..l |-> Len(widths[d])], FlattenSeq(widths),
                   Copied(a.type, a.elements \o b.elements, both.at, total), both.bits)

\* increment: the array becomes the only entry of a new level.
increment(a) == [a EXCEPT !.indices = <<1>> \o @, !.map = <<1>> \o @, !.widths = <<1>> \o @]

-----------------------------------------------------------------------------
(* Slices and subscripts (ArraySlice.cpp, ArraySubscript.cpp) *)

RECURSIVE getArraySlice(_, _, _, _, _, _, _)
\* st collects the widths below the first level, how many there are of each level, and the positions
\* of the elements that remain.
getArraySlice(a, st, lower, upper, sliced, d, i) ==
    LET first == Before(a, d, i)
        kept == SelectSeq([k \in 1..WidthsOf(a, d)[i] |-> k],
                          LAMBDA k : d = sliced => a.indices[d] + k - 1 \in lower..upper)
        base == Total(SubSeq(st.sizes, 1, d + 1))
        Child(acc, n) ==
            LET entered == [acc EXCEPT !.sizes[d + 1] = @ + 1, !.widths = InsertAt(@, base + n, 0)]
                left == getArraySlice(a, entered, lower, upper, sliced, d + 1, first + kept[n])
            IN  [left EXCEPT !.widths[base + n] = IF d + 1 = Dimensions(a) THEN Len(left.elements) - Len(entered.elements)
                                                  ELSE left.sizes[d + 2] - entered.sizes[d + 2]]
    IN  IF d = Dimensions(a) THEN [st EXCEPT !.elements = @ \o [n \in DOMAIN kept |-> first + kept[n]]]
        ELSE FoldLeft(Child, st, [n \in DOMAIN kept |-> n])

NothingSliced(a) == [widths |-> <<>>, sizes |-> [d \in 1..Dimensions(a) |-> 0], elements |-> <<>>]
\* The elements at some positions, and their bits.
Elements(a, ps) == LET present == SelectSeq(ps, LAMBDA p : ~isNull(a, p)) IN [i \in DOMAIN present |-> Element(a, present[i])]
Nulls(a, ps) == Padded([i \in DOMAIN ps |-> isNull(a, ps[i])])

slice(a, lower, upper, d) ==
    LET st == getArraySlice(a, NothingSliced(a), lower, upper, d, 1, 1)
        first == IF Dimensions(a) = 1 THEN StaleWord ELSE st.sizes[2]
    IN  CASE lower > upper -> Error
          [] lower <= upper /\ (d > Dimensions(a) \/ st.elements = <<>>) -> createEmptyArray(a.type)
          [] OTHER -> Block(a.type, [a.indices EXCEPT ![d] = lower], [st.sizes EXCEPT ![1] = 1], <<first>> \o st.widths,
                            Elements(a, st.elements), Nulls(a, st.elements))

\* operator[]: the empty string for what does not exist or is NULL, an element as text, or an array
\* of the levels that are left.
subscript(a, position) ==
    LET st == getArraySlice(a, NothingSliced(a), position, position, 1, 1, 1)
        sizes == SelectSeq(Tail(st.sizes), LAMBDA n : n # 0)
        levels == Len(sizes)
        p == st.elements[1]
    IN  CASE st.elements = <<>> /\ st.widths = <<>> -> NullText
          [] Dimensions(a) = 1 /\ st.elements # <<>> -> IF isNull(a, p) THEN NullText ELSE Elem(castElement(a.type, "string", Element(a, p)))
          [] OTHER -> Block(a.type, IF st.elements = <<>> THEN Ones(levels) ELSE SubSeq(a.indices, 2, levels + 1),
                            SubSeq(Tail(st.sizes), 1, levels), st.widths, Elements(a, st.elements), Nulls(a, st.elements))

-----------------------------------------------------------------------------
(* Transposition, generated arrays, arithmetic *)

\* The first two levels are exchanged; an array of one level becomes the only row of a matrix.
transpose(a) ==
    LET cols == a.widths[2]
        inner == IF Dimensions(a) = 2 THEN 1
                 ELSE LET size[d \in 2..Dimensions(a)] == IF d = 2 THEN 1 ELSE WidthsOf(a, d)[1] * size[d - 1] IN size[Dimensions(a)]
        rows == IF cols * inner = 0 THEN 0 ELSE (Count(a) + cols * inner - 1) \div (cols * inner)
        \* the positions of one column, row by row
        Column(c) == FlattenSeq([r \in 1..rows |-> [k \in 1..inner |-> (r - 1) * cols * inner + (c - 1) * inner + k]])
        order == FlattenSeq([c \in 1..cols |-> Column(c)])
        present == SelectSeq(order, LAMBDA p : ~isNull(a, p))
    IN  CASE a.type \notin Numeric -> Error
          [] a.type \in Numeric /\ Dimensions(a) = 1 -> Block(a.type, <<a.map[1], a.indices[1]>>, <<a.map[1], 1>>, <<1, a.widths[1]>>, a.elements, a.nulls)
          [] a.type \in Numeric /\ Dimensions(a) > 1
             /\ ((\E i \in DOMAIN order : order[i] > Count(a)) \/ (\E i \in DOMAIN present : present[i] > Len(a.elements))) -> Error
          [] OTHER -> Block(a.type, <<a.indices[2], a.indices[1]>> \o SubSeq(a.indices, 3, Dimensions(a)), [a.map EXCEPT ![2] = cols],
                            <<cols>> \o [c \in 1..cols |-> a.widths[1]] \o SubSeq(a.widths, a.map[2] + 2, Len(a.widths)),
                            [i \in DOMAIN present |-> a.elements[present[i]]], Nulls(a, order))

\* generate: the widths that a list of lengths asks for, each element the same value or NULL.
generate(value, type, structure) ==
    LET lengths == structure.elements
        upTo[i \in 0..Len(lengths)] == IF i = 0 THEN 1 ELSE upTo[i - 1] * lengths[i]
        copies == upTo[Len(lengths)]
        widths == FlattenSeq([d \in DOMAIN lengths |-> [k \in 1..upTo[d - 1] |-> lengths[d]]])
        map == [d \in DOMAIN lengths |-> upTo[d - 1]]
    IN  Block(type, Ones(Len(lengths)), map, widths, IF value = NULL THEN <<>> ELSE [i \in 1..copies |-> value],
              Padded([i \in 1..copies |-> value = NULL]))

\* fill, the type of NULLs being INTEGER32.
fill(value, type, structure) ==
    IF structure.elements = <<>> \/ structure.type # "int" THEN Error
    ELSE generate(value, IF value = NULL THEN "int" ELSE type, structure)

\* ArrayArithmetic.h, of integers and of halves.
Operator(op, type, x, y) ==
    CASE op = "add" -> x + y
      [] op = "sub" -> x - y
      [] op = "mul" -> IF type = "int" THEN x * y ELSE Trunc(x * y, 2)
      [] OTHER -> IF type = "int" THEN Trunc(x, y) ELSE Trunc(2 * x, y)

\* The bits are those of as many elements as are not NULL.
executeBinaryOperation(op, a, b) ==
    [a EXCEPT !.elements = [i \in DOMAIN a.elements |-> Operator(op, a.type, a.elements[i], b.elements[i])],
              !.nulls = SubSeq(@, 1, NullBits(Len(a.elements)))]
arithmetic(op, a, b) ==
    IF \/ a.type \notin Numeric \/ a.type # b.type
       \/ op = "div" /\ (hasNullValue(a) \/ hasNullValue(b) \/ hasEmptyValue(a) \/ hasEmptyValue(b) \/ ~equalWidths(a, b))
    THEN Error
    ELSE executeBinaryOperation(op, a, b)

executeScalarOperation(op, a, type, x, isLeft) ==
    [a EXCEPT !.elements = [i \in DOMAIN a.elements |-> IF isLeft THEN Operator(op, type, x, a.elements[i]) ELSE Operator(op, type, a.elements[i], x)]]

scalarArithmetic(op, a, type, x, isLeft) ==
    IF a.type # type THEN Error ELSE executeScalarOperation(op, a, type, x, isLeft)

executeActivationFunction(a) == [a EXCEPT !.elements = [i \in DOMAIN @ |-> Sigmoid(@[i])]]
sigmoid(a) == IF a.type \notin Numeric THEN Error ELSE executeActivationFunction(a)

\* A one-level array is a column.
matrixMul(a, b) ==
    LET rowsA == a.widths[1]
        colsA == IF Dimensions(a) = 1 THEN 1 ELSE a.widths[2]
        colsB == IF Dimensions(b) = 1 THEN 1 ELSE b.widths[2]
        Cell(r, c) == Total([k \in 1..colsA |-> Operator("mul", a.type, a.elements[(r - 1) * colsA + k], b.elements[(k - 1) * colsB + c])])
    IN  IF a.type # "double" \/ b.type # "double" \/ Dimensions(a) > 2 \/ Dimensions(b) > 2 \/ colsA # b.widths[1] THEN Error
        ELSE Block(a.type, <<1, 1>>, <<1, rowsA>>, <<rowsA>> \o [r \in 1..rowsA |-> colsB],
                   FlattenSeq([r \in 1..rowsA |-> [c \in 1..colsB |-> Cell(r, c)]]), Padded([i \in 1..(rowsA * colsB) |-> FALSE]))

\* The position, from 0, of the first of the largest elements; 0 without one.
getHighestPosition(a) ==
    LET present == {p \in 1..Count(a) : ~isNull(a, p)}
    IN  IF a.elements = <<>> THEN 0
        ELSE (CHOOSE p \in present : \A q \in present : /\ Element(a, q) <= Element(a, p)
                                                        /\ q < p => Element(a, q) < Element(a, p)) - 1

-----------------------------------------------------------------------------
(* ArrayRuntime.cpp, and the array constructor of the SQL parser *)

\* sum: NULL and arrays without elements are neutral.
sum(a, b) ==
    CASE a = NullText -> b
      [] a # NullText /\ b = NullText -> a
      [] a # NullText /\ b # NullText /\ isEmpty(a) -> b
      [] a # NullText /\ b # NullText /\ ~isEmpty(a) /\ isEmpty(b) -> a
      [] OTHER -> arithmetic("add", a, b)

\* agg: the state and one more array.
agg(a, b) ==
    CASE Dimensions(b) > Dimensions(a) -> Error
      [] Dimensions(b) = Dimensions(a) /\ isEmpty(a) -> LET both == append(a, b) IN IF both = Error THEN Error ELSE increment(both)
      [] Dimensions(b) = Dimensions(a) /\ ~isEmpty(a) -> append(increment(a), b)
      [] OTHER -> append(a, b)

\* array_agg over a column that is not nullable: <<"scalar", type, value>> or <<"block", array>>.
\* (The states of a nullable one are those of module AggregateFunctions.)
ArrayAggDefault(type) == createEmptyArray(type)
ArrayAggAggregate(type, state, arg) ==
    IF arg[1] = "block" THEN agg(state, cast(arg[2], type))
    ELSE append(state, cast(appendElement(createEmptyArray(arg[2]), arg[3]), type))
\* The states of two threads for one group.
ArrayAggCombine(left, right) == append(left, right)

\* toInt32, toDouble, toString of what a subscript returned.
toScalar(text, type) ==
    IF text.kind = "array" \/ ~Castable("string", type, text.value) THEN Error
    ELSE [kind |-> "scalar", value |-> castElement("string", type, text.value)]

\* a[..][..]: subscripts, or slices of one level after the other when one of the indices is a slice.
\* An index is <<lower or NULL, upper>>.
translateIndirectionExpression(a, indices) ==
    LET sliced == \E i \in DOMAIN indices : indices[i][1] # NULL
        Index(r, i) ==
            CASE r = Error -> r
              [] r # Error /\ sliced -> slice(r, IF indices[i][1] = NULL THEN 1 ELSE indices[i][1], indices[i][2], i)
              [] OTHER -> IF r.kind = "array" THEN subscript(r, indices[i][2]) ELSE NullText
    IN  FoldLeft(Index, a, [i \in DOMAIN indices |-> i])

\* The lowering of db.constructor: one more item <<"null">>, <<"scalar", type, value>> or
\* <<"block", array>>, cast to the type of the array.
ConstructorOp(a, item, changeLeft) ==
    CASE item[1] = "null" -> appendNull(a)
      [] item[1] = "scalar" -> IF Castable(item[2], a.type, item[3]) THEN appendElement(a, castElement(item[2], a.type, item[3])) ELSE Error
      [] OTHER -> LET right == cast(item[2], a.type)
                  IN  IF right = Error THEN Error ELSE append(IF changeLeft THEN increment(a) ELSE a, right)

RECURSIVE translateArrayExpression(_)
\* ARRAY[...] of NULLs, scalars and <<"array", items>>: the first type other than an integer is that
\* of the array.
translateArrayExpression(items) ==
    LET Typed(r, type) == IF r.type = "int" THEN cast(r, type) ELSE r
        AddArray(r, v, i) ==
            CASE i = 1 -> IF Len(items) = 1 THEN increment(v) ELSE v
              [] OTHER -> ConstructorOp(Typed(r, v.type), <<"block", v>>, i = 2)
        Add(r, i) ==
            CASE r = Error -> Error
              [] r # Error /\ items[i][1] = "null" -> ConstructorOp(r, items[i], FALSE)
              [] r # Error /\ items[i][1] = "scalar" -> ConstructorOp(Typed(r, items[i][2]), items[i], FALSE)
              [] OTHER -> LET v == translateArrayExpression(items[i][2]) IN IF v = Error THEN Error ELSE AddArray(r, v, i)
    IN  FoldLeft(Add, createEmptyArray("int"), [i \in DOMAIN items |-> i])

=============================================================================
