---------------------------- MODULE StoreQueries -----------------------------
(***************************************************************************)
(* What Search and ListNamespaces return, in the memory, SQLite, PostgreSQL*)
(* and Redis stores, over the items that one client puts and deletes.      *)
(*                                                                         *)
(* The memory and Redis stores evaluate the filter on every item.  The SQL *)
(* stores push the namespace prefix and the equalities of the filter into  *)
(* the query and evaluate the whole filter again on what the database      *)
(* returns.  A value keeps its Go type (nil, int, float, bool, word, obj)  *)
(* and a small whole number; an object has one field.  A search that meets *)
(* an incomparable value or evaluates an unsupported operator fails, and   *)
(* whether it does may depend on the order in which Go ranges over the     *)
(* filter.                                                                 *)
(***************************************************************************)
EXTENDS Naturals, Sequences, FiniteSets, SequencesExt, Ordering

CONSTANTS
    Slots,        \* <<namespace, key>> of the items; labels and keys are numbers
    ItemValues,   \* JSON objects: functions from Fields
    Fields,
    Filters,      \* functions from a set of fields to conditions
    Paths,        \* namespace prefixes of a search
    Sizes,        \* offsets, limits and depths that are asked for
    DefaultLimit,     \* of a search without one (10 in the code)
    DefaultNamespaces \* of a listing without one (100 in the code)

\* A namespace is a sequence of labels; a value has a Go type and a number, or is an
\* object; a condition compares a field, or the field of a nested object.
Scalars == [t : {"nil", "int", "float", "bool", "word"}, n : Nat]
FieldValues == Scalars \cup [t : {"obj"}, field : Scalars]
Comparisons == [op : {"is", "eq", "ne", "gt", "unsupported"}, arg : FieldValues]
FieldConditions == Comparisons \cup [op : {"nested"}, inner : Comparisons]
ASSUME QueryAssumption ==
    /\ Slots \subseteq Seq(Nat) \X Nat
    /\ ItemValues \subseteq [Fields -> FieldValues]
    /\ \A filter \in Filters : DOMAIN filter \subseteq Fields
                              /\ \A f \in DOMAIN filter : filter[f] \in FieldConditions
    /\ Paths \subseteq Seq(Nat) /\ Sizes \subseteq Nat
    /\ DefaultLimit \in Nat \ {0} /\ DefaultNamespaces \in Nat \ {0}

VARIABLE slots    \* the items as they were put: a function from a subset of Slots

QueryInit == slots = <<>>

PutItem(s, v) == slots' = [x \in DOMAIN slots \cup {s} |-> IF x = s THEN v ELSE slots[x]]
DeleteItem(s) == slots' = [x \in DOMAIN slots \ {s} |-> slots[x]]

QueryNext == \E s \in Slots : DeleteItem(s) \/ \E v \in ItemValues : PutItem(s, v)
QuerySpec == QueryInit /\ [][QueryNext]_slots

-----------------------------------------------------------------------------
(***************************************************************************)
(* What a store gives back for a value.  The memory store copies it; the   *)
(* others write JSON, in which a whole float looks like an integer.        *)
(***************************************************************************)
Nil == [t |-> "nil", n |-> 0]

NormalizeNumber(x) == IF x.t = "float" THEN [x EXCEPT !.t = "int"] ELSE x
NormalizeNumbers(x) == IF x.t = "obj" THEN [x EXCEPT !.field = NormalizeNumber(@)]
                       ELSE NormalizeNumber(x)

CloneValue(v) == v
SqliteDecodeValue(v) == [f \in Fields |-> NormalizeNumbers(v[f])]
PostgresDecodeValue(v) == [f \in Fields |-> NormalizeNumbers(v[f])]
RedisDecodeValue(v) == [f \in Fields |-> NormalizeNumbers(v[f])]

-----------------------------------------------------------------------------
(***************************************************************************)
(* The filter evaluator, of which each store has a copy.                   *)
(***************************************************************************)
\* numeric: numbers; a string only if it parses, which "word" does not.
Numeric(x) == x.t \in {"int", "float"}

\* applyOperator and the plain equality, which compares Go types too.
ApplyOperator(actual, cond) ==
    CASE cond.op \in {"is", "eq"} -> IF actual = cond.arg THEN "yes" ELSE "no"
      [] cond.op = "ne" -> IF actual # cond.arg THEN "yes" ELSE "no"
      [] cond.op = "gt" -> IF ~Numeric(actual) \/ ~Numeric(cond.arg) THEN "error"
                           ELSE IF actual.n > cond.arg.n THEN "yes" ELSE "no"
      [] cond.op = "unsupported" -> "error"

\* compareValues: a nested filter compares the field of a nested object.
CompareValues(actual, cond) ==
    IF cond.op # "nested" THEN ApplyOperator(actual, cond)
    ELSE IF actual.t # "obj" THEN "no"
    ELSE ApplyOperator(actual.field, cond.inner)

\* matchesFilter stops at the first condition that is not met, in the order
\* of a Go map: the outcomes it may have.
MatchesFilter(v, filter) ==
    LET outcomes == {CompareValues(v[f], filter[f]) : f \in DOMAIN filter}
    IN  IF outcomes \subseteq {"yes"} THEN {"yes"} ELSE outcomes \ {"yes"}

HasPrefix(ns, prefix) == IsPrefix(prefix, ns)

\* namespaceString: labels joined by a character below all others, so that the end
\* of a namespace counts as its smallest label.
LabelAt(ns, i) == IF i <= Len(ns) THEN ns[i] + 1 ELSE 0
Precedes(a, b) ==
    \E i \in 1 .. Len(b) : /\ LabelAt(a, i) < LabelAt(b, i)
                           /\ \A j \in 1 .. i - 1 : LabelAt(a, j) = LabelAt(b, j)
ItemPrecedes(x, y) == Precedes(x[1], y[1]) \/ (x[1] = y[1] /\ x[2] < y[2])
SortedItems(S) == InOrder(S, {p \in S \X S : ItemPrecedes(p[1], p[2])})
SortedNamespaces(S) == InOrder(S, {p \in S \X S : Precedes(p[1], p[2])})

Smaller(x, y) == IF x < y THEN x ELSE y
Page(s, offset, limit, default) ==
    LET first == Smaller(offset, Len(s))
    IN  SubSeq(s, first + 1, Smaller(first + (IF limit = 0 THEN default ELSE limit), Len(s)))

\* A search over candidates, given the outcomes of matching each: the page of
\* those that match, and whether it must or may fail.
Evaluate(matches, q) ==
    LET scope == {s \in DOMAIN matches : HasPrefix(s[1], q.prefix)}
    IN  [found |-> Page(SortedItems({s \in scope : "yes" \in matches[s]}), q.offset, q.limit, DefaultLimit),
         fails |-> \E s \in scope : matches[s] = {"error"},
         mayFail |-> \E s \in scope : "error" \in matches[s]]

\* matchesFilter of each store, on the value that the store holds.
MemoryMatches(v, filter) == MatchesFilter(CloneValue(v), filter)
SqliteMatches(v, filter) == MatchesFilter(SqliteDecodeValue(v), filter)
PostgresMatches(v, filter) == MatchesFilter(PostgresDecodeValue(v), filter)
RedisMatches(v, filter) == MatchesFilter(RedisDecodeValue(v), filter)

-----------------------------------------------------------------------------
(***************************************************************************)
(* Search of each store.                                                   *)
(***************************************************************************)
MemorySearch(q) == Evaluate([s \in DOMAIN slots |-> MemoryMatches(slots[s], q.filter)], q)
RedisSearch(q) == Evaluate([s \in DOMAIN slots |-> RedisMatches(slots[s], q.filter)], q)

\* json_extract and a bound argument: SQLite has no Booleans, only 0 and 1.
SqliteEqual(x, y) == x = y \/ ({x.t, y.t} \subseteq {"int", "float", "bool"} /\ x.n = y.n)
JsonbEqual(x, y) == NormalizeNumber(x) = NormalizeNumber(y)

\* A path through something that is no object extracts NULL.
Extract(v, f, cond) ==
    IF cond.op # "nested" THEN v[f] ELSE IF v[f].t = "obj" THEN v[f].field ELSE Nil
Innermost(cond) == IF cond.op = "nested" THEN cond.inner ELSE cond

\* Mutant: $ne is pushed down as well.
PushEverything(v, filter) ==
    \A f \in DOMAIN filter :
        LET cond == Innermost(filter[f])
            actual == Extract(v, f, filter[f])
        IN  CASE cond.op \in {"is", "eq"} /\ cond.arg.t # "obj" -> SqliteEqual(actual, cond.arg)
              [] cond.op = "ne" /\ cond.arg.t # "obj" -> ~SqliteEqual(actual, cond.arg)
              [] OTHER -> TRUE

\* compileSafeFilter: equalities with scalars, and nothing else.
CompileSafeFilter(v, filter) ==
    \A f \in DOMAIN filter :
        LET cond == Innermost(filter[f])
        IN  cond.op \in {"is", "eq"} /\ cond.arg.t # "obj"
            => SqliteEqual(Extract(v, f, filter[f]), cond.arg)
CompilePGSafeFilter(v, filter) ==
    \A f \in DOMAIN filter :
        LET cond == Innermost(filter[f])
        IN  cond.op \in {"is", "eq"} /\ cond.arg.t # "obj"
            => JsonbEqual(Extract(v, f, filter[f]), cond.arg)

\* buildSearchQuery: the rows that the query selects.
SqliteRows(q) ==
    {s \in DOMAIN slots : HasPrefix(s[1], q.prefix) /\ CompileSafeFilter(slots[s], q.filter)}
PostgresRows(q) ==
    {s \in DOMAIN slots : HasPrefix(s[1], q.prefix) /\ CompilePGSafeFilter(slots[s], q.filter)}

\* The compilers refuse an operator that they do not know before any row is read.
Unsupported(filter) == \E f \in DOMAIN filter : Innermost(filter[f]).op = "unsupported"
Refused == [found |-> <<>>, fails |-> TRUE, mayFail |-> TRUE]

\* searchTx: evaluate the filter again on the rows.
SqliteSearch(q) ==
    IF Unsupported(q.filter) THEN Refused
    ELSE Evaluate([s \in SqliteRows(q) |-> SqliteMatches(slots[s], q.filter)], q)
PostgresSearch(q) ==
    IF Unsupported(q.filter) THEN Refused
    ELSE Evaluate([s \in PostgresRows(q) |-> PostgresMatches(slots[s], q.filter)], q)

-----------------------------------------------------------------------------
(***************************************************************************)
(* ListNamespaces.                                                         *)
(***************************************************************************)
Star == 0  \* the label "*"
MatchNamespace(ns, cond) ==
    LET start == IF cond.type = "prefix" THEN 0 ELSE Len(ns) - Len(cond.path)
    IN  /\ Len(cond.path) <= Len(ns)
        /\ \A i \in 1 .. Len(cond.path) : cond.path[i] \in {Star, ns[start + i]}

Truncate(ns, depth) == IF depth > 0 /\ Len(ns) > depth THEN SubSeq(ns, 1, depth) ELSE ns

ItemNamespaces == {s[1] : s \in DOMAIN slots}
Listing(namespaces, o) ==
    LET matching == {ns \in namespaces : MatchNamespace(ns, o.cond)}
    IN  Page(SortedNamespaces({Truncate(ns, o.depth) : ns \in matching}), o.offset, o.limit,
             DefaultNamespaces)
MemoryListNamespaces(o) == Listing(ItemNamespaces, o)
SqliteListNamespaces(o) == Listing(ItemNamespaces, o)
PostgresListNamespaces(o) == Listing(ItemNamespaces, o)
RedisListNamespaces(o) == Listing(ItemNamespaces, o)

-----------------------------------------------------------------------------
Queries == [prefix : Paths, filter : Filters, offset : Sizes, limit : Sizes]
Conditions == [type : {"prefix", "suffix"}, path : Paths \cup {<<Star>>}]
Listings == [cond : Conditions, depth : Sizes, offset : Sizes, limit : Sizes]

\* The search found the page of the slots that satisfy the filter, in order.
FindsExactly(search, given, q) ==
    LET members == {s \in DOMAIN slots :
                       /\ IsPrefix(q.prefix, s[1])
                       /\ \A f \in DOMAIN q.filter : CompareValues(given[s][f], q.filter[f]) = "yes"}
        Before(s) == {x \in members : ItemPrecedes(x, s)}
        size == IF q.limit = 0 THEN DefaultLimit ELSE q.limit
    IN  /\ {search.found[i] : i \in DOMAIN search.found} =
             {s \in members : Cardinality(Before(s)) \in q.offset .. q.offset + size - 1}
        /\ \A i \in DOMAIN search.found : Cardinality(Before(search.found[i])) = q.offset + i - 1

\* Whatever part of the filter a store pushes into the database, a search that
\* does not fail returns the page of exactly the items whose value, as this store
\* gives it back, satisfies the filter, and none fails where evaluating every item
\* could not (searchTx: "so type/error behavior remains identical across Store
\* implementations"), except that the SQL stores refuse an unsupported operator even
\* where no item reaches it.  A namespace is listed once, in order, exactly when an item
\* lies in it or below it.  An empty store finds nothing in any case.
QueriesExact ==
    slots # <<>> =>
      /\ \A q \in Queries :
           /\ FindsExactly(MemorySearch(q), [s \in DOMAIN slots |-> CloneValue(slots[s])], q)
           /\ FindsExactly(SqliteSearch(q), [s \in DOMAIN slots |-> SqliteDecodeValue(slots[s])], q)
           /\ FindsExactly(PostgresSearch(q), [s \in DOMAIN slots |-> PostgresDecodeValue(slots[s])], q)
           /\ FindsExactly(RedisSearch(q), [s \in DOMAIN slots |-> RedisDecodeValue(slots[s])], q)
           /\ RedisSearch(q).mayFail => MemorySearch(q).mayFail
           /\ \A other \in {SqliteSearch(q), PostgresSearch(q)} :
                other.mayFail \/ other.fails => MemorySearch(q).mayFail \/ Unsupported(q.filter)
      /\ \A o \in Listings :
           \A listed \in {MemoryListNamespaces(o), SqliteListNamespaces(o), PostgresListNamespaces(o),
               RedisListNamespaces(o)} :
           /\ \A i, j \in DOMAIN listed : i < j => Precedes(listed[i], listed[j])
           /\ \A i \in DOMAIN listed : \E s \in DOMAIN slots : IsPrefix(listed[i], s[1])
           /\ o = [cond |-> [type |-> "prefix", path |-> <<>>], depth |-> 0, offset |-> 0, limit |-> 0]
                => \A s \in DOMAIN slots : Len(listed) < DefaultNamespaces
                    => \E i \in DOMAIN listed : listed[i] = s[1]
=============================================================================
