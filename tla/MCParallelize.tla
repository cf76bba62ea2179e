--------------------------- MODULE MCParallelize ---------------------------
(* The blocks that the translation of queries produces, over a few rows.   *)
EXTENDS Parallelize

o(kind, s, mem) == [op |-> kind, st |-> s, mem |-> mem, combine |-> FALSE, bump |-> {}]
reduce(s, mem, bump, c) == [op |-> "reduce", st |-> s, mem |-> mem, combine |-> c, bump |-> bump]
pipe(src, rows, ops) == [kind |-> "pipe", source |-> src, rows |-> rows, ops |-> ops]
st(type, vals, num) == [type |-> type, vals |-> vals, num |-> num, init |-> << >>]
def(states) == [s \in DOMAIN states |-> [of |-> s] @@ states[s]]

res == [kind |-> "result", st |-> "R"]
output(s, mem) == <<pipe(s, << >>, <<o("gather", s, mem \cup {"key"}), o("materialize", "R", {})>>), res>>
R == st("ResultTable", {}, {})
view == [of |-> "B"] @@ st("HashIndexedView", {"flag"}, {})

\* UNION: both sides insert into one hash map; a and b are the sources of the sides.
union(a, b) ==
    [states |-> def([M |-> st("HashMap", {}, {}), R |-> R]),
     block |-> <<pipe(a, <<1, 2>>, <<o("lookupOrInsert", "M", {})>>),
                 pipe(b, <<2, 3>>, <<o("lookupOrInsert", "M", {})>>)>> \o output("M", {})]

\* EXCEPT and INTERSECT: a counter per side in one hash map.
counting(a, b) ==
    [states |-> def([M |-> st("HashMap", {"l", "r"}, {"l", "r"}), R |-> R]),
     block |-> <<pipe(a, <<1, 2>>, <<o("lookupOrInsert", "M", {}), reduce("M", {"l", "r"}, {"l"}, TRUE)>>),
                 pipe(b, <<2, 2>>, <<o("lookupOrInsert", "M", {}), reduce("M", {"l", "r"}, {"r"}, TRUE)>>)>>
               \o output("M", {"l", "r"})]

\* GROUP BY, and an aggregation without keys.
groupBy ==
    [states |-> def([M |-> st("HashMap", {"a", "b"}, {"b"}), R |-> R]),
     block |-> <<pipe("table", <<1, 2, 1>>, <<o("lookupOrInsert", "M", {}), reduce("M", {"a", "b"}, {"a", "b"}, TRUE)>>)>>
               \o output("M", {"a", "b"})]
scalar ==
    [states |-> def([S |-> [st("SimpleState", {"a", "b"}, {}) EXCEPT !.init = <<[key |-> 0, vals |-> [a |-> 0, b |-> 0]]>>],
                     R |-> R]),
     block |-> <<pipe("table", <<1, 2, 1>>, <<o("lookup", "S", {}), reduce("S", {"a", "b"}, {"a", "b"}, TRUE)>>)>>
               \o output("S", {"a", "b"})]

\* A hash join: the build side src fills B, the probe side looks up the view over it.
join(src) ==
    [states |-> def([B |-> st("Buffer", {"flag"}, {}), R |-> R]) @@ [V |-> view],
     block |-> <<pipe(src, <<1, 2>>, <<o("materialize", "B", {"flag"})>>),
                 [kind |-> "view", st |-> "V"],
                 pipe("table", <<2, 2, 3>>, <<o("lookup", "V", {}), o("materialize", "R", {})>>), res>>]

\* A reversed semi join: the probe side sets a flag in the build side's rows.
semi ==
    [states |-> def([B |-> st("Buffer", {"flag"}, {}), R |-> R]) @@ [V |-> view],
     block |-> <<pipe("table", <<1, 2>>, <<o("materialize", "B", {"flag"})>>),
                 [kind |-> "view", st |-> "V"],
                 pipe("table", <<2, 2>>, <<o("lookup", "V", {}), o("scatter", "V", {"flag"})>>)>> \o output("B", {"flag"})]

\* A build side in a hash multi-map: the insert keeps its pipeline sequential.
multimap ==
    [states |-> def([H |-> st("HashMultiMap", {}, {}), R |-> R]),
     block |-> <<pipe("table", <<1, 2>>, <<o("insert", "H", {})>>),
                 pipe("table", <<2, 3>>, <<o("lookup", "H", {}), o("materialize", "R", {})>>), res>>]

\* An update through references into an array: one float, or two members.
array(mem) ==
    [states |-> def([A |-> [st("Array", mem, mem) EXCEPT !.init = <<[key |-> 1, vals |-> Zeros(mem)]>>], R |-> R]),
     block |-> <<pipe("table", <<1, 1>>, <<o("offsetRef", "A", {}), reduce("A", mem, mem, FALSE)>>)>> \o output("A", mem)]

\* A group join: the left side creates the groups, the right side aggregates into
\* them; inner marks the groups that have a match, num tells integer aggregates.
groupJoin(inner, aggs, num) ==
    LET vals == aggs \cup (IF inner THEN {"marker"} ELSE {}) IN
    [states |-> def([M |-> st("HashMap", vals, num), R |-> R]),
     block |-> <<pipe("table", <<1, 2>>, <<o("lookupOrInsert", "M", {}), o("scatter", "M", {})>>),
                 pipe("table", <<2, 2>>, <<o("lookup", "M", {})>>
                         \o (IF inner THEN <<o("scatter", "M", {"marker"})>> ELSE << >>)
                         \o <<reduce("M", aggs, aggs, TRUE)>>)>> \o output("M", vals)]

\* count(*) over a UNION of two sequential sides: no member of the map is gathered.
countUnion ==
    [states |-> def([M |-> st("HashMap", {}, {}), R |-> R,
                     S |-> [st("SimpleState", {"n"}, {"n"}) EXCEPT !.init = <<[key |-> 0, vals |-> [n |-> 0]]>>]]),
     block |-> <<pipe("sequential", <<1, 2>>, <<o("lookupOrInsert", "M", {})>>),
                 pipe("sequential", <<2, 3>>, <<o("lookupOrInsert", "M", {})>>),
                 pipe("M", << >>, <<o("lookup", "S", {}), reduce("S", {"n"}, {"n"}, TRUE)>>)>> \o output("S", {"n"})]

MCPrograms ==
    {union("table", "table"), union("table", "sequential"), union("sequential", "sequential"),
     counting("table", "table"), groupBy, scalar, join("table"), join("sequential"), semi, multimap,
     array({"x"}), array({"x", "y"}), groupJoin(FALSE, {"a"}, {"a"}), groupJoin(FALSE, {"a", "b"}, {})}

\* Further blocks that MCPrograms leaves out because ResultMatchesSequential fails
\* on the first and the third and ReadersAfterWriters on the second (see the README).
MCSequentialLeft == {union("sequential", "table")}

MCCountUnion == {countUnion}

MCInnerGroupJoin == {groupJoin(TRUE, {"a"}, {"a"})}
=============================================================================
