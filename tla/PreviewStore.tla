----------------------------- MODULE PreviewStore -----------------------------
(***************************************************************************)
(* The in-memory store of the preview: collections of records, changed by  *)
(* inserts, updates, deletes and transactions, and the evaluation of       *)
(* queries on it (eval_preview_query_with_functions without a backend      *)
(* runtime).  "posts" refer to "users" by their field k, which may be      *)
(* null; n is a field to filter and to order by.  A mutation on its own is *)
(* a transaction of one operation here: both apply it in the same way.     *)
(* Rows are inserted without an id, so each gets one that is a string, and *)
(* references to it are strings; n is a number.                            *)
(***************************************************************************)
EXTENDS Integers, SequencesExt

CONSTANTS
    Null,
    Numbers,      \* numbers in the field n
    MaxPosts,     \* bound: rows of "posts"
    MaxUsers      \* bound: rows of "users"

(* AxValue: a string of digits and a number are different values.          *)
Values == [type : {"String", "Number"}, digits : Nat]
String(d) == [type |-> "String", digits |-> d]
Number(d) == [type |-> "Number", digits |-> d]

(* Ids and values of n have texts of at most two digits, see Text.         *)
ASSUME RowAssumption ==
    Null \notin Values /\ Numbers \subseteq 1..99 /\ MaxPosts \in 0..99 /\ MaxUsers \in 0..99

VARIABLE store

Collections == {"posts", "users"}
Bound(c) == IF c = "posts" THEN MaxPosts ELSE MaxUsers
References(c) == IF c = "posts" THEN {Null} \cup {String(i) : i \in 1..MaxUsers} ELSE {Null}

Filters ==
    [field : {"id"}, op : {"eq"}, value : {String(i) : i \in 1..MaxPosts} \cup {Number(1)}]
        \cup [field : {"n"}, op : {"eq", "ne"}, value : {Number(d) : d \in Numbers}]
        \cup [field : {"k"}, op : {"isNull", "isNotNull"}, value : {Null}]

StoreInit == store = [c \in Collections |-> <<>>]

-----------------------------------------------------------------------------
(* preview_record_matches: null is a value like others for eq and ne.      *)
Compare(value, op, expected) ==
    CASE op = "eq"        -> value = expected
      [] op = "ne"        -> value # expected
      [] op = "isNull"    -> value = Null
      [] op = "isNotNull" -> value # Null

Matches(row, filter) == Compare(row[filter.field], filter.op, filter.value)

(* The sequence of the indices in s, by a strict order on them.            *)
Ranked(s, Before(_, _)) ==
    [r \in 1..Cardinality(s) |->
        CHOOSE i \in s : Cardinality({j \in s : Before(j, i)}) = r - 1]

(* The rows at the indices in s, in their order (retain, filter_map).      *)
Chosen(rows, s) == LET at == Ranked(s, <) IN [r \in DOMAIN at |-> rows[at[r]]]

(* assign_preview_id: the number of rows and one, as a string, whatever    *)
(* ids are in use.                                                         *)
WithId(rows, fields) ==
    [id |-> String(Len(rows) + 1), k |-> fields.k, n |-> Number(fields.n)]

Apply(s, o) ==
    CASE o.op = "insert" -> [s EXCEPT ![o.on] = Append(@, WithId(@, o))]
      [] o.op = "update" -> [s EXCEPT ![o.on] =
             [i \in DOMAIN @ |-> IF Matches(@[i], o.filter) THEN [@[i] EXCEPT !.n = Number(o.n)] ELSE @[i]]]
      [] o.op = "delete" -> [s EXCEPT ![o.on] =
             Chosen(@, {i \in DOMAIN @ : ~Matches(@[i], o.filter)})]

Operations ==
    (UNION {[op : {"insert"}, on : {c}, k : References(c), n : Numbers] : c \in Collections})
        \cup [op : {"update"}, on : Collections, n : Numbers, filter : Filters]
        \cup [op : {"delete"}, on : Collections, filter : Filters]

(* execute_preview_transaction: a clone of the store takes the operations  *)
(* one after the other and then replaces it.                               *)
Transaction(operations) ==
    LET pending[n \in 0..Len(operations)] ==
            IF n = 0 THEN store ELSE Apply(pending[n - 1], operations[n])
        after == pending[Len(operations)]
    IN  /\ \A c \in Collections : Len(after[c]) <= Bound(c)
        /\ store' = after

StoreNext ==
    \/ \E o \in Operations : Transaction(<<o>>)
    \/ \E k \in References("posts"), n \in Numbers : Transaction(
           <<[op |-> "insert", on |-> "users", k |-> Null, n |-> n],
             [op |-> "insert", on |-> "posts", k |-> k, n |-> n]>>)

StoreSpec == StoreInit /\ [][StoreNext]_store

-----------------------------------------------------------------------------
(* A query on "posts": joined with "users" by k = id or not, filters and   *)
(* orders on the fields of either, an offset and a limit.                  *)
FieldsOf(join) ==
    [of : IF join THEN {"posts", "users"} ELSE {"posts"}, field : {"n"}]
        \cup {[of |-> "posts", field |-> "id"]}

FiltersOf(join) ==
    {<<>>} \cup {<<[at |-> f, op |-> op, value |-> Number(1)]>> :
                    f \in {g \in FieldsOf(join) : g.field = "n"}, op \in {"eq", "ne"}}

OrdersOf(join) ==
    {<<>>} \cup {o \in {<<[at |-> f, desc |-> d], [at |-> g, desc |-> ~d]>> :
                             f, g \in FieldsOf(join), d \in BOOLEAN} :
                     o[1].at.field = "n" /\ o[1].at # o[2].at}

Windows == {[offset |-> 0, limit |-> 2], [offset |-> 1, limit |-> MaxPosts]}

Queries == UNION {[join : {j}, filters : FiltersOf(j), orders : OrdersOf(j), window : Windows] :
                     j \in BOOLEAN}

(* A row is a post with the user it is joined with.                        *)
Value(row, at) == row[at.of][at.field]

(* AxValue::as_string, as the place of a text of at most two digits among  *)
(* the texts: "" of null, "1", "10", ..., "19", "2", "20".                 *)
Text(value) ==
    IF value = Null THEN 0
    ELSE IF value.digits < 10 THEN 11 * value.digits
    ELSE value.digits + value.digits \div 10 + 1

Rows == [i \in DOMAIN store["posts"] |-> [posts |-> store["posts"][i], users |-> Null]]

(* The first user that has the id; a null reference matches none.          *)
Join(rows) ==
    LET users == store["users"]
        found(row) == {u \in DOMAIN users : row.posts.k # Null /\ users[u].id = row.posts.k}
        first(row) == CHOOSE u \in found(row) : \A v \in found(row) : u <= v
        kept == Chosen(rows, {i \in DOMAIN rows : found(rows[i]) # {}})
    IN  [i \in DOMAIN kept |-> [kept[i] EXCEPT !.users = users[first(kept[i])]]]

Filter(rows, f) ==
    Chosen(rows, {i \in DOMAIN rows : Compare(Value(rows[i], f.at), f.op, f.value)})

FilterAll(rows, filters) ==
    LET after[n \in 0..Len(filters)] ==
            IF n = 0 THEN rows ELSE Filter(after[n - 1], filters[n])
    IN  after[Len(filters)]

(* [T]::sort_by is stable. *)
Sort(rows, o) ==
    LET text(i) == Text(Value(rows[i], o.at))
        before(i, j) == \/ IF o.desc THEN text(i) > text(j) ELSE text(i) < text(j)
                        \/ text(i) = text(j) /\ i < j
        order == Ranked(DOMAIN rows, before)
    IN  [r \in DOMAIN rows |-> rows[order[r]]]

(* Wrong: the orders are applied from the first to the last. *)
SortForward(rows, orders) ==
    LET upto[n \in 0..Len(orders)] ==
            IF n = 0 THEN rows ELSE Sort(upto[n - 1], orders[n])
    IN  upto[Len(orders)]

(* query.orders.iter().rev(): from the last to the first.                  *)
SortAll(rows, orders) ==
    LET from[n \in 1..Len(orders) + 1] ==
            IF n > Len(orders) THEN rows ELSE Sort(from[n + 1], orders[n])
    IN  from[1]

Cut(rows, q) ==
    LET end == q.window.offset + q.window.limit
    IN  SubSeq(rows, q.window.offset + 1, IF end < Len(rows) THEN end ELSE Len(rows))

Evaluate(q) ==
    LET joined == IF q.join THEN Join(Rows) ELSE Rows
        sorted == SortAll(FilterAll(joined, q.filters), q.orders)
        cut == Cut(sorted, q)
    IN  [i \in DOMAIN cut |-> cut[i].posts]

-----------------------------------------------------------------------------
(* What the query says, in the sense of the SQL that the adapters make of  *)
(* it: the posts that have a user, if joined, and meet all filters, in the *)
(* lexicographic order of the orders (numbers as numbers, strings as       *)
(* texts), from the offset as many as the limit.                           *)
WithUser(i) == {u \in ToSet(store["users"]) : u.id = store["posts"][i].k}

RowOf(join, i) ==
    [posts |-> store["posts"][i], users |-> IF join THEN CHOOSE u \in WithUser(i) : TRUE ELSE Null]

Asked(q) ==
    {i \in DOMAIN store["posts"] :
        /\ q.join => WithUser(i) # {}
        /\ \A f \in ToSet(q.filters) : Compare(Value(RowOf(q.join, i), f.at), f.op, f.value)}

Place(value) == IF value.type = "Number" THEN value.digits ELSE Text(value)

Key(row, o) == IF o.desc THEN -Place(Value(row, o.at)) ELSE Place(Value(row, o.at))

KeyAt(q, i, n) == Key(RowOf(q.join, i), q.orders[n])

Precedes(q, i, j) ==
    LET differ == {n \in DOMAIN q.orders : KeyAt(q, i, n) # KeyAt(q, j, n)}
        first == CHOOSE n \in differ : \A m \in differ : n <= m
    IN  IF differ = {} THEN i < j ELSE KeyAt(q, i, first) < KeyAt(q, j, first)

Ordered(q) == LET precedes(i, j) == Precedes(q, i, j) IN Ranked(Asked(q), precedes)

Meaning(q) ==
    LET order == Ordered(q)
        end == q.window.offset + q.window.limit
        last == IF end < Len(order) THEN end ELSE Len(order)
    IN  [r \in 1..(IF last > q.window.offset THEN last - q.window.offset ELSE 0) |->
            store["posts"][order[r + q.window.offset]]]

IdsDiffer(c) ==
    \A i, j \in DOMAIN store[c] : store[c][i].id = store[c][j].id => i = j

(* The texts of the numbers in the field n are in the order of the numbers.*)
TextsInOrder(c) ==
    \A i, j \in DOMAIN store[c] :
        store[c][i].n.digits < store[c][j].n.digits => Text(store[c][i].n) < Text(store[c][j].n)

OrdersLikeTexts(q) == \A o \in ToSet(q.orders) : o.at.field = "n" => TextsInOrder(o.at.of)

(* In every store the operations can make, the preview answers a query     *)
(* with the rows, in the order, that the query means: the stable sorts in  *)
(* reverse are the lexicographic order, the first match of a join is the   *)
(* match, and offset and limit cut the ordered rows.  The ids of the users *)
(* must differ, which an insert after a delete can undo, and the numbers   *)
(* that the query orders by must be in order as texts too (10 comes before *)
(* 9 in the preview, which compares the texts).                            *)
QueriesAnswerAsMeant ==
    \A q \in Queries :
        (q.join => IdsDiffer("users")) /\ OrdersLikeTexts(q) => Evaluate(q) = Meaning(q)
==============================================================================
