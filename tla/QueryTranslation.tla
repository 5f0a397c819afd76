---------------------------- MODULE QueryTranslation ---------------------------
(***************************************************************************)
(* A query on records in three places: QueryEngine.match (db/query.py),    *)
(* and the WHERE clauses that _sqlite_translate.py and                     *)
(* _postgres_translate.py make of it, read with SQL's three truth values.  *)
(* Records change by apply_update.  A query is a sequence of clauses, all  *)
(* of which must hold; a clause is a logical operator with sub-queries, or *)
(* a field with a sequence of conditions.                                  *)
(***************************************************************************)
EXTENDS Integers, Sequences, SequencesExt, FiniteSets

CONSTANTS Fields,
          Values,           \* [type |-> "null" | "bool" | "int" | "str", val |-> an integer]
          Queries, Updates,
          MaxInt            \* bound: integers that $inc reaches

VARIABLES doc,              \* the record: a function from some fields to values
          query

vars == <<doc, query>>

Null == [type |-> "null", val |-> 0]
Docs == UNION {[F -> Values] : F \in SUBSET Fields}

Assumptions == Null \in Values /\ \A v \in Values : v.type \in {"null", "bool", "int", "str"}

TypeOK == /\ DOMAIN doc \subseteq Fields /\ DOMAIN query \subseteq 1..2
          /\ \A f \in DOMAIN doc : doc[f] \in Values \/ doc[f].type = "int"

Has(d, f) == f \in DOMAIN d
get_field_value(d, f) == IF Has(d, f) THEN d[f] ELSE Null

(* Python's equality and order: True is 1, and a comparison of a string    *)
(* with a number raises.                                                   *)
Kind(v) == IF v.type = "bool" THEN "int" ELSE v.type
Same(v, w) == Kind(v) = Kind(w) /\ v.val = w.val
Compares(op, v, w) ==
    CASE op = "$gt" -> v.val > w.val [] op = "$gte" -> v.val >= w.val
      [] op = "$lt" -> v.val < w.val [] op = "$lte" -> v.val <= w.val
Orders == {"$gt", "$gte", "$lt", "$lte"}

RECURSIVE _match_value(_, _), match(_, _)
_match_value(v, conds) ==
    \A k \in DOMAIN conds :
        LET op == conds[k].op
            args == conds[k].args
        IN CASE op = "$eq" -> Same(v, args[1])
             [] op = "$ne" -> ~Same(v, args[1])
             [] op \in Orders -> v # Null /\ Compares(op, v, args[1])
             [] op = "$in" -> \E i \in DOMAIN args : Same(v, args[i])
             [] op = "$nin" -> \A i \in DOMAIN args : ~Same(v, args[i])
             [] op = "$exists" -> (args[1].val = 1) = (v # Null)
             [] op = "$mod" -> Kind(v) = "int" /\ v.val % args[1].val = args[2].val
             [] op = "$not" -> ~_match_value(v, conds[k].conds)

match(d, q) ==
    \A k \in DOMAIN q :
        LET c == q[k]
        IN CASE c.key = "$and" -> \A i \in DOMAIN c.subs : match(d, c.subs[i])
             [] c.key = "$or" -> \E i \in DOMAIN c.subs : match(d, c.subs[i])
             [] c.key = "$nor" -> \A i \in DOMAIN c.subs : ~match(d, c.subs[i])
             [] c.key = "$not" -> ~match(d, c.subs[1])
             [] OTHER -> _match_value(get_field_value(d, c.key), c.conds)

(* Filters of nodes by properties (core/entities/node.py) know some        *)
(* operators and pass the others by.                                       *)
_match_criteria(v, conds) ==
    \A k \in DOMAIN conds :
        LET op == conds[k].op
            args == conds[k].args
        IN CASE op = "$eq" -> Same(v, args[1])
             [] op = "$ne" -> ~Same(v, args[1])
             [] op \in Orders -> Kind(v) = Kind(args[1]) /\ v # Null /\ Compares(op, v, args[1])
             [] op = "$in" -> \E i \in DOMAIN args : Same(v, args[i])
             [] op = "$nin" -> \A i \in DOMAIN args : ~Same(v, args[i])
             [] op = "$exists" -> args[1].val = 1
             [] OTHER -> TRUE
-----------------------------------------------------------------------------
(* SQL: "T", "F" or "N" for NULL.                                          *)
Sql(b) == IF b THEN "T" ELSE "F"
SqlNot(x) == CASE x = "T" -> "F" [] x = "F" -> "T" [] OTHER -> "N"
SqlAnd(xs) == IF "F" \in xs THEN "F" ELSE IF "N" \in xs THEN "N" ELSE "T"
SqlOr(xs) == IF "T" \in xs THEN "T" ELSE IF "N" \in xs THEN "N" ELSE "F"

(* SQLite: json_extract gives NULL for a null and for no value at all, and *)
(* numbers for booleans, as parameters do.                                 *)
SqliteCompare(v, op, w) ==              \* a number sorts before a string
    IF v = Null \/ w = Null THEN "N"
    ELSE IF op = "$eq" THEN Sql(Same(v, w))
    ELSE IF Kind(v) = Kind(w) THEN Sql(Compares(op, v, w))
    ELSE Sql((Kind(v) = "int") = (op \in {"$lt", "$lte"}))

NinBare(v, any) == SqlNot(any)          \* mutant of NotAmong: no IS NULL before it
NotAmong(v, any) == IF v = Null THEN "T" ELSE SqlNot(any)

SqliteField(v, conds) ==
    SqlAnd({LET op == conds[k].op
                args == conds[k].args
                any == SqlOr({SqliteCompare(v, "$eq", args[i]) : i \in DOMAIN args})
            IN IF op \in {"$eq", "$ne"} /\ args[1] = Null THEN Sql((op = "$eq") = (v = Null)) ELSE
               CASE op \in Orders \cup {"$eq"} -> SqliteCompare(v, op, args[1])
                 [] op = "$ne" -> NotAmong(v, any)
                 [] op = "$in" -> any
                 [] op = "$nin" -> IF args = << >> THEN "T" ELSE NotAmong(v, any)
                 [] op = "$exists" -> Sql((args[1].val = 1) = (v # Null))
            : k \in DOMAIN conds})

RECURSIVE sqlite_where(_, _)
sqlite_where(d, q) ==
    SqlAnd({LET c == q[k]
                parts == {sqlite_where(d, c.subs[i]) : i \in DOMAIN c.subs}
            IN CASE c.key = "$and" -> SqlAnd(parts)
                 [] c.key = "$or" -> SqlOr(parts)
                 [] OTHER -> SqliteField(get_field_value(d, c.key), c.conds)
            : k \in DOMAIN q})

(* What a translator leaves to match.  An empty sub-query is left out: its *)
(* clause would be empty parentheses.                                      *)
NullOrdered(cond) == cond.op \in Orders /\ cond.args[1] = Null

RECURSIVE SqliteTranslates(_)
SqliteTranslates(q) ==
    \A k \in DOMAIN q :
        \/ q[k].key \in {"$and", "$or"} /\ q[k].subs # << >>
           /\ \A i \in DOMAIN q[k].subs : SqliteTranslates(q[k].subs[i])
        \/ q[k].key \in Fields /\ q[k].conds # << >>
           /\ \A j \in DOMAIN q[k].conds :
                q[k].conds[j].op \notin {"$mod", "$not"} /\ ~NullOrdered(q[k].conds[j])
-----------------------------------------------------------------------------
(* PostgreSQL: a null is the JSON null, whose text is NULL.  Numbers are   *)
(* compared as numbers, booleans as JSON, strings as text; lists of more   *)
(* than one type by the text of the JSON.                                  *)
Text(d, f) == IF ~Has(d, f) \/ d[f] = Null THEN Null ELSE d[f]
PgEq(d, f, w) ==
    IF w.type = "bool" THEN IF ~Has(d, f) THEN "N" ELSE Sql(d[f] = w)
    ELSE IF Text(d, f) = Null THEN "N" ELSE Sql(d[f] = w)
PgOrder(d, f, op, w) == IF Text(d, f) = Null THEN "N" ELSE Sql(Compares(op, d[f], w))

OneType(args) == \E t \in {"int", "str"} : \A i \in DOMAIN args : args[i].type = t
PgAny(d, f, args) ==
    IF OneType(args) THEN SqlOr({PgEq(d, f, args[i]) : i \in DOMAIN args})
    ELSE IF ~Has(d, f) THEN "N" ELSE Sql(\E i \in DOMAIN args : d[f] = args[i])
PgNotAmong(d, f, any) == IF ~Has(d, f) THEN "T" ELSE SqlNot(any)

RECURSIVE PgField(_, _, _)
PgField(d, f, conds) ==
    SqlAnd({LET op == conds[k].op
                args == conds[k].args
            IN IF op \in {"$eq", "$ne"} /\ args[1] = Null THEN Sql((op = "$eq") = ~Has(d, f)) ELSE
               CASE op = "$eq" -> PgEq(d, f, args[1])
                 [] op \in Orders -> PgOrder(d, f, op, args[1])
                 [] op = "$ne" -> PgNotAmong(d, f, PgEq(d, f, args[1]))
                 [] op = "$in" -> IF args = << >> THEN "F" ELSE PgAny(d, f, args)
                 [] op = "$nin" -> IF args = << >> THEN "T" ELSE PgNotAmong(d, f, PgAny(d, f, args))
                 [] op = "$exists" -> Sql((args[1].val = 1) = Has(d, f))
                 [] op = "$mod" -> IF Text(d, f) = Null THEN "N"
                                   ELSE Sql(d[f].val % args[1].val = args[2].val)
                 [] op = "$not" -> SqlNot(PgField(d, f, conds[k].conds))
            : k \in DOMAIN conds})

RECURSIVE pg_where(_, _)
pg_where(d, q) ==
    SqlAnd({LET c == q[k]
                parts == {pg_where(d, c.subs[i]) : i \in DOMAIN c.subs}
            IN CASE c.key = "$and" -> SqlAnd(parts)
                 [] c.key = "$or" -> SqlOr(parts)
                 [] c.key \in {"$nor", "$not"} -> SqlNot(SqlOr(parts))
                 [] OTHER -> PgField(d, c.key, c.conds)
            : k \in DOMAIN q})

RECURSIVE PgFieldTranslates(_), PgTranslates(_)
PgFieldTranslates(conds) ==
    /\ conds # << >>
    /\ \A j \in DOMAIN conds :
        /\ ~NullOrdered(conds[j])
        /\ conds[j].op \in Orders => conds[j].args[1].type # "bool"
        /\ conds[j].op = "$not" => PgFieldTranslates(conds[j].conds)
PgTranslates(q) ==
    \A k \in DOMAIN q :
        IF q[k].key \in Fields THEN PgFieldTranslates(q[k].conds)
        ELSE q[k].subs # << >> /\ \A i \in DOMAIN q[k].subs : PgTranslates(q[k].subs[i])
-----------------------------------------------------------------------------
(* apply_update, of one operator on one field; $setOnInsert only when the  *)
(* record is new.                                                          *)
set_field_value(d, f, v) == [g \in DOMAIN d \cup {f} |-> IF g = f THEN v ELSE d[g]]
unset_field_value(d, f) == [g \in DOMAIN d \ {f} |-> d[g]]

Add(v, n) == [type |-> "int", val |-> IF v = Null \/ v.type = "null" THEN n ELSE v.val + n]
apply_update(d, u, inserting) ==
    CASE u.op = "$set" \/ (u.op = "$setOnInsert" /\ inserting) -> set_field_value(d, u.field, u.val)
      [] u.op = "$unset" -> unset_field_value(d, u.field)
      [] u.op = "$inc" -> set_field_value(d, u.field, Add(get_field_value(d, u.field), u.val.val))
      [] OTHER -> d

Numeric(d, u) == LET v == get_field_value(d, u.field) IN
                 v = Null \/ (Kind(v) = "int" /\ v.val + u.val.val <= MaxInt)

Init == doc = [f \in {} |-> Null] /\ query \in Queries

Update(u, inserting) ==
    /\ u.op = "$inc" => Numeric(doc, u)
    /\ doc' = apply_update(doc, u, inserting) /\ UNCHANGED query

Next == \E u \in Updates, inserting \in BOOLEAN : Update(u, inserting)
Spec == Init /\ [][Next]_vars
-----------------------------------------------------------------------------
(* Conditions of a query on a field, those under a negation included.      *)
RECURSIVE Under(_), CondsOf(_), Negated(_)
Under(conds) == UNION {{conds[k]} \cup Under(conds[k].conds) : k \in DOMAIN conds}
CondsOf(q) == UNION {{<<q[k].key, c>> : c \in Under(q[k].conds)}
                     \cup UNION {CondsOf(q[k].subs[i]) : i \in DOMAIN q[k].subs} : k \in DOMAIN q}
Negated(q) == \E k \in DOMAIN q : \/ q[k].key \in {"$nor", "$not"}
                                  \/ \E c \in Under(q[k].conds) : c.op = "$not"
                                  \/ \E i \in DOMAIN q[k].subs : Negated(q[k].subs[i])

(* match raises when an order compares a number with a string; PostgreSQL  *)
(* raises when it reads a string as a number.                              *)
Raises(d, q) == \E fc \in CondsOf(q) : LET v == get_field_value(d, fc[1]) IN
    fc[2].op \in Orders /\ v # Null /\ Kind(v) # Kind(fc[2].args[1])
Casts(d, q) == \E fc \in CondsOf(q), i \in 1..2 :
    i \in DOMAIN fc[2].args /\ fc[2].op # "$exists" /\ Has(d, fc[1])
        /\ d[fc[1]].type \notin {"null", fc[2].args[i].type} /\ fc[2].args[i] # Null
NullInList(q) == \E fc \in CondsOf(q) :
    fc[2].op \in {"$in", "$nin"} /\ \E i \in DOMAIN fc[2].args : fc[2].args[i] = Null

\* SQLite selects the records that match does, for every query it is given
\* whose lists hold no null (_sqlite_translate.py:157, 187).
SqliteAgrees ==
    SqliteTranslates(query) /\ ~NullInList(query) /\ ~Raises(doc, query) =>
        (sqlite_where(doc, query) = "T") = match(doc, query)

\* PostgreSQL does too, for records with no null, of values of the types of
\* the query, as long as no field under a negation is missing
\* (_postgres_translate.py:250, 308, 342).
PgAgrees ==
    /\ PgTranslates(query) /\ ~Raises(doc, query) /\ ~Casts(doc, query)
    /\ \A f \in DOMAIN doc : doc[f] # Null
    /\ ~NullInList(query)
    /\ Negated(query) => \A fc \in CondsOf(query) : Has(doc, fc[1])
    => (pg_where(doc, query) = "T") = match(doc, query)

\* A filter of nodes by a property passes those that match does, for the operators
\* both know (core/entities/node.py:931).
CriteriaAgree == \A k \in DOMAIN query :
    /\ query[k].key \in Fields /\ ~Raises(doc, query)
    /\ \A c \in DOMAIN query[k].conds : query[k].conds[c].op \notin {"$exists", "$mod", "$not"}
    => LET v == get_field_value(doc, query[k].key)
       IN _match_criteria(v, query[k].conds) = _match_value(v, query[k].conds)

\* "Should treat NULL as 'not in the list'" and "as 'not equal' per QueryEngine
\* semantics" (tests/db/test_postgres_translate.py:59, 80).
PgNullNotEqual ==
    \A k \in DOMAIN query : query[k].key \in DOMAIN doc /\ doc[query[k].key] = Null
        /\ query[k].conds # << >> /\ query[k].conds[1].op = "$ne" /\ Len(query) = 1
        /\ Len(query[k].conds) = 1 /\ PgTranslates(query)
        => (pg_where(doc, query) = "T") = match(doc, query)
=============================================================================
