-------------------------- MODULE MCFilterPipeline --------------------------
(***************************************************************************)
(* Small worlds for FilterPipeline.  A day has 32 micros; the integer      *)
(* widths are scaled so that the overflow checks of the code are reached.  *)
(***************************************************************************)
EXTENDS FilterPipeline

MCMinusShift == -20
MCToLower == [i |-> "i", I |-> "i", j |-> "j", l |-> "l", s |-> "s", b |-> "b", d |-> "d", t |-> "t", z |-> "z",
              f |-> "f", none |-> "none"]

Col(id, name, type) == [field_id |-> id, name |-> name, type |-> type]
Columns == <<Col(1, "i", "int"), Col(2, "l", "long"), Col(3, "s", "string"), Col(4, "b", "boolean"),
             Col(5, "d", "date"), Col(6, "t", "timestamp"), Col(7, "z", "timestamptz"), Col(8, "f", "double")>>
ColumnOf == [name \in {"i", "l", "s", "b", "d", "t", "z", "f"} |->
               CHOOSE c \in ToSet(Columns) : c.name = name]
Var(name) == Variable(IceToValue[ColumnOf[name].type], name)

(* Parts whose rows have values in one column only.                        *)
PartOf(name, values, spec, counted) ==
  [partition_spec_id |-> spec, counted |-> counted, columns |-> <<ColumnOf[name]>>,
   rows |-> [r \in DOMAIN values |-> (name :> values[r])]]

World(query, buildable, spec, parts) ==
  [query |-> query, buildable |-> buildable, columns |-> Columns, specs |-> spec, parts |-> parts]
Unpartitioned == (0 :> << >>)
ByColumn(id, transform) == (0 :> <<[source_id |-> id, transform |-> transform]>>)

Cmp(id, l, r) == Function(id, "bool", <<TypeOf(l), TypeOf(r)>>, <<l, r>>)
Not(n) == Logical("kNot", <<n>>)
And(l, r) == Logical("kAnd", <<l, r>>)
Or(l, r) == Logical("kOr", <<l, r>>)
IsNullOf(n) == Function("kIsNull", "bool", <<TypeOf(n)>>, <<n>>)

-----------------------------------------------------------------------------
(* A column of each type against constants around its values.              *)
Samples == [i |-> <<-3, 0, 7>>, l |-> <<-3000, 0, 2500>>, s |-> <<<<1>>, <<1, 0>>, <<2>>>>,
            b |-> <<FALSE, TRUE, TRUE>>, d |-> <<-400, 0, 31>>, t |-> <<-40, 0, 65>>,
            z |-> <<-40, 0, 65>>, f |-> <<-3, 0, 7>>]

Shape(k, name, id, c) ==
  LET v == Var(name)
      const == Const(TypeOf(v), c)
  IN  CASE k = 1 -> Cmp(id, v, const)
        [] k = 2 -> Cmp(id, const, v)
        [] k = 3 -> Not(Cmp(id, v, const))
        [] k = 4 -> Or(IsNullOf(v), Cmp(id, v, const))
        [] k = 5 -> And(Cmp(id, v, const), Cmp("kNotEqual", v, Const(TypeOf(v), Samples[name][2])))
        [] k = 6 -> And(Cmp(id, v, const), Variable("bool", "none"))

Compared ==
  [key \in (DOMAIN Samples) \X Comparisons \X (1..3) \X (1..6) \X BOOLEAN |->
     LET name == key[1]
         flag == key[5]
     IN  World(Shape(key[4], name, key[2], Samples[name][key[3]]), TRUE,
               IF flag THEN ByColumn(ColumnOf[name].field_id, "identity") ELSE Unpartitioned,
               <<PartOf(name, <<Samples[name][1], Samples[name][2]>>, 0, flag),
                 PartOf(name, <<Samples[name][3], None>>, 0, flag)>>)]

(* Temporal columns against constants of their own and of other temporal   *)
(* types, partitioned by a unit of time.                                   *)
Instants == [date |-> <<-1, 0, 59>>, timestamp |-> <<-33, 31, 64>>, timestamptz |-> <<-33, 20, 84>>]
RowInstants == [d |-> <<-1, 0, 59>>, t |-> <<-33, 31, 64>>, z |-> <<-33, 20, 84>>]

Partitioned ==
  [key \in (DOMAIN RowInstants) \X {"year", "month", "day", "hour", "identity"}
             \X {"kLessThan", "kGreaterThanOrEqualTo", "kEqual"} \X (DOMAIN Instants) \X (1..3) |->
     LET name == key[1]
     IN  World(Cmp(key[3], Var(name), Const(key[4], Instants[key[4]][key[5]])), TRUE,
               ByColumn(ColumnOf[name].field_id, key[2]),
               <<PartOf(name, <<RowInstants[name][1], None>>, 0, TRUE),
                 PartOf(name, <<RowInstants[name][2], RowInstants[name][3]>>, 0, TRUE)>>)]

(* Far dates, partition values at the limits, specs that cannot be used.   *)
ExtremeQueries == <<Cmp("kLessThan", Var("d"), Const("timestamp", 40)),
                    Cmp("kGreaterThan", Var("d"), Const("date", 5)),
                    And(Cmp("kEqual", Var("i"), Const("int4", 1)), Cmp("kGreaterThan", Var("d"), Const("date", 5)))>>
ExtremeSpecs == <<ByColumn(5, "year"), ByColumn(5, "hour"), ByColumn(5, "day"), ByColumn(5, "month"),
                  ByColumn(9, "day"), ByColumn(5, "bucket"), ByColumn(6, "day"),
                  (1 :> <<[source_id |-> 5, transform |-> "day"]>>),
                  (0 :> <<[source_id |-> 5, transform |-> "day"], [source_id |-> 5, transform |-> "year"]>>)>>
Extreme ==
  [key \in (DOMAIN ExtremeQueries) \X (DOMAIN ExtremeSpecs) \X {2000, 1990, 1200, 900, 10, -1500} |->
     World(ExtremeQueries[key[1]], TRUE, ExtremeSpecs[key[2]],
           <<PartOf("d", <<key[3]>>, 0, TRUE), PartOf("d", <<None>>, 0, TRUE)>>)]

(* IN and NOT IN, and the comparisons they are made of when they hold NULL;*)
(* Gandiva refuses a conjunction of one.                                   *)
Arrays == <<<<"i", "int4", <<-3>>>>, <<"i", "int4", <<-3, 7>>>>, <<"i", "int4", <<7, None>>>>,
            <<"i", "int4", <<None, -3>>>>, <<"i", "int8", <<-3, 7>>>>, <<"i", "int8", <<2500>>>>,
            <<"l", "int2", <<0, 7>>>>, <<"s", "string", <<<<1>>, <<2>>>>>>, <<"s", "string", <<<<2>>, None>>>>,
            <<"t", "timestamp", <<-40, 65>>>>, <<"d", "date", <<31>>>>>>
AnyOf ==
  [key \in {"kEqual", "kNotEqual", "kLessThan"} \X BOOLEAN \X (DOMAIN Arrays) |->
     LET a == Arrays[key[3]]
     IN  World(ScalarOverArray(key[1], "bool", <<a[2], a[2]>>, key[2], Var(a[1]), a[2], a[3]), Len(a[3]) > 1,
               Unpartitioned,
               <<PartOf(a[1], <<Samples[a[1]][1], None>>, 0, TRUE), PartOf(a[1], <<Samples[a[1]][3]>>, 0, TRUE)>>)]

(* Arithmetic up to and past the limits of a type.                         *)
Arithmetics ==
  [key \in WithChecks \X {2000, -2001, 7} \X {-1, 0, 2} |->
     World(Cmp("kGreaterThan", Function(key[1], "int4", <<"int4", "int4">>, <<Var("i"), Const("int4", key[3])>>),
               Const("int4", 0)),
           TRUE, Unpartitioned, <<PartOf("i", <<key[2], None, 3>>, 0, TRUE), PartOf("i", <<4>>, 0, TRUE)>>)]
Intervals ==
  [m \in 0..1 |->
     World(Or(Cmp("kEqual", Var("t"), Const("timestamp", 5)),
              Cmp("kLessThan", Function("kAddWithChecks", "timestamp", <<"timestamp", "interval">>,
                                        <<Var("t"), Const("interval", [months |-> m, micros |-> 70])>>),
                               Const("timestamp", 100))),
           m = 0, Unpartitioned, <<PartOf("t", <<5, 20000000, None>>, 0, TRUE), PartOf("t", <<29, 31>>, 0, TRUE)>>)]

-----------------------------------------------------------------------------
(* Units of time, over instants around the ends of years, quarters, months,*)
(* weeks, days and hours.                                                  *)
BoundaryDays == {SysDays(y, 1, 1) : y \in {1901, 1970, 1971, 1972, 1973, 1974, 1977, 2000, 2001, 2011}}
                  \union {SysDays(1972, m, 1) : m \in {3, 4, 7, 10, 12}} \union {SysDays(2020, 12, 31)}
BoundaryInstants == {d * 32 + k : d \in BoundaryDays, k \in {-97, -33, -1, 0, 1, 17}}
RECURSIVE Listed(_)
Listed(S) == IF S = {} THEN << >> ELSE LET x == Min(S) IN <<x>> \o Listed(S \ {x})
BoundaryParts == <<PartOf("t", Listed(BoundaryInstants), 0, TRUE)>>

UnitOfTime(id, ret, u) ==
  Function(id, ret, <<"string", "timestamp">>, <<Const("string", <<u>>), Var("t")>>)
Truncated ==
  [key \in (1..12) \X (0..3) |->
     World(IF key[2] = 0 THEN Cmp("kEqual", UnitOfTime("kDateTrunc", "timestamp", key[1]), Var("t"))
           ELSE Cmp("kLessThan", UnitOfTime("kDateTrunc", "timestamp", key[1]),
                    Const("timestamp", <<0, SysDays(1972, 2, 29), SysDays(2001, 1, 1)>>[key[2]] * 32)),
           TRUE, Unpartitioned, BoundaryParts)]
Extracted ==
  [key \in {<<1, 2>>, <<1, 3>>, <<2, 20>>, <<2, 21>>, <<3, 197>>, <<3, 200>>, <<4, 1972>>, <<5, 2>>, <<5, 4>>,
            <<6, 3>>, <<6, 12>>, <<7, 1>>, <<7, 2>>, <<7, 52>>, <<7, 53>>, <<8, 2>>, <<8, 31>>, <<9, 1>>,
            <<10, 1>>, <<11, 4>>, <<13, 7>>} |->
     World(Cmp("kGreaterThanOrEqualTo", UnitOfTime("kExtractTimestamp", "float8", key[1]), Const("float8", key[2])),
           TRUE, Unpartitioned, BoundaryParts)]

(* Casts between the temporal types, from 1970 on.                         *)
CastOf(id, ret, name) == Function(id, ret, <<TypeOf(Var(name))>>, <<Var(name)>>)
Casting == <<
  World(Cmp("kEqual", CastOf("kCastDate", "date", "t"), Const("date", 1)), TRUE, Unpartitioned,
        <<PartOf("t", <<20, 52, None, 84, 63>>, 0, TRUE)>>),
  World(Cmp("kEqual", CastOf("kCastDate", "date", "z"), Const("date", 1)), TRUE, Unpartitioned,
        <<PartOf("z", <<20, 52, None, 84, 63>>, 0, TRUE)>>),
  World(Cmp("kLessThan", CastOf("kCastTimestamp", "timestamp", "z"), Const("timestamp", 32)), TRUE, Unpartitioned,
        <<PartOf("z", <<-5, 32, 51, 52, None>>, 0, FALSE)>>),
  World(Cmp("kEqual", CastOf("kCastTimestamptz", "timestamptz", "t"), Const("timestamptz", 32)), TRUE,
        Unpartitioned, <<PartOf("t", <<12, 32, 52, None>>, 0, FALSE)>>),
  World(Cmp("kLessThan", Function("kDateDiff", "int4", <<"date", "date">>, <<Var("d"), Const("date", 4)>>),
            Const("int4", 0)), TRUE, Unpartitioned, <<PartOf("d", <<3, 4, -7, None>>, 0, FALSE)>>),
  World(IsNullOf(Var("z")), TRUE, Unpartitioned, <<PartOf("z", <<3, None>>, 0, FALSE), PartOf("z", <<3>>, 0, TRUE)>>)>>

-----------------------------------------------------------------------------
(* Filters that the row filter refuses, and what text can and cannot carry.*)
PartsOfI == <<PartOf("i", <<1, 2>>, 0, TRUE), PartOf("i", <<5>>, 0, FALSE)>>
Like(pattern) == Function("kLike", "bool", <<"string", "string">>, <<Var("s"), pattern>>)
RefusedQueries == <<
  Cmp("kEqual", Variable("time", "i"), Const("time", 5)),
  Cmp("kLessThan", Var("t"), Function("kCastTimestamp", "timestamp", <<"date">>, <<Var("d")>>)),
  Like(Const("string", <<92, 1>>)), Like(Var("s")), Like(Const("string", None)),
  Cmp("kEqual", UnitOfTime("kDateTrunc", "timestamp", 13), Var("t")),
  Cmp("kEqual", Const("interval", None), Const("int8", 1)),
  Cmp("kEqual", Const("numeric", <<65>>), Const("numeric", <<49>>)),
  IfThenElse(Const("bool", TRUE), Var("i"), Var("l")), Var("i"), Logical("kAnd", << >>),
  Or(Cmp("kEqual", Const("numeric", <<65, 0>>), Const("numeric", None)), IsNullOf(Var("i"))),
  Or(Cmp("kEqual", Const("interval", [months |-> 2, micros |-> 2500]), Const("int8", 1)), IsNullOf(Var("i")))>>
Refused == [k \in DOMAIN RefusedQueries |-> World(RefusedQueries[k], FALSE, Unpartitioned, PartsOfI)]

TextQueries == <<
  Cmp("kEqual", Var("s"), Const("string", <<3, 0, 4>>)), Cmp("kEqual", Var("f"), Const("float8", NaN)),
  Cmp("kEqual", Var("l"), Const("int8", 2500)), Cmp("kEqual", Var("i"), Const("int2", -101)),
  IfThenElse(Cmp("kLessThan", Var("i"), Const("int4", 2)), Const("bool", TRUE), Const("bool", FALSE)),
  ScalarOverArray("kEqual", "bool", <<"float8", "float8">>, TRUE, Var("f"), "float8", <<2, None>>),
  Const("bool", TRUE), Const("bool", FALSE), Const("bool", None)>>
Texts ==
  [key \in (DOMAIN TextQueries) \X BOOLEAN |->
     World(IF key[2] THEN Or(TextQueries[key[1]], Cmp("kGreaterThan", Var("i"), Const("int4", 1)))
           ELSE TextQueries[key[1]], TRUE, Unpartitioned, PartsOfI)]
NoFilter == <<World(None, TRUE, Unpartitioned, PartsOfI)>>

(* Batches with different schemas share one compiled filter.               *)
EvolvedParts == <<
  PartOf("i", <<5, None, 1>>, 0, TRUE),
  [partition_spec_id |-> 0, counted |-> TRUE, columns |-> <<Col(2, "l", "long"), Col(1, "I", "int")>>,
   rows |-> <<[l |-> 5, I |-> 1], [l |-> 1, I |-> None]>>],
  [partition_spec_id |-> 0, counted |-> TRUE, columns |-> <<Col(1, "i", "int"), Col(2, "l", "long")>>,
   rows |-> <<[l |-> 1, i |-> 5], [l |-> None, i |-> 2]>>]>>
EvolvedQueries == <<
  Cmp("kGreaterThan", Var("i"), Const("int4", 1)), Cmp("kEqual", Var("i"), Var("l")),
  Cmp("kNotEqual", Variable("int4", "I"), Const("int8", 1)),
  Or(IsNullOf(Var("l")), Cmp("kLessThan", Var("l"), Var("i"))), Cmp("kLessThan", Var("i"), Const("int2", 5)),
  Cmp("kEqual", Var("i"), Const("time", None))>>
Evolved == [k \in DOMAIN EvolvedQueries |-> World(EvolvedQueries[k], k # 6, Unpartitioned, EvolvedParts)]

(* A nested column of one leaf (a list) or two (a struct or a map), first, *)
(* between the others and last.                                            *)
NestedColumns == <<Col(1, "i", "int"), Col(2, "l", "long"), Col(9, "n", "nested")>>
Orders == {o \in [1..3 -> 1..3] : \A k \in 1..3 : \E j \in 1..3 : o[j] = k}
NestedPart(order, leaves, rows) ==
  [partition_spec_id |-> 0, counted |-> TRUE, columns |-> [k \in 1..3 |-> NestedColumns[order[k]]],
   leaves |-> leaves, rows |-> rows]
NestedLeaves == <<<<[type |-> "int", cells |-> <<40, 50>>]>>,
                  <<[type |-> "int", cells |-> <<40, 50>>], [type |-> "int", cells |-> <<60, None>>]>>,
                  <<[type |-> "string", cells |-> <<<<1>>>>], [type |-> "long", cells |-> <<None>>]>>>>
Nested ==
  [key \in {1, 2, 4, 5} \X Orders \X (1..3) |->
     [World(EvolvedQueries[key[1]], TRUE, Unpartitioned,
            <<NestedPart(key[2], NestedLeaves[key[3]], <<[i |-> 5, l |-> 7], [i |-> None, l |-> 1]>>),
              NestedPart(key[2], NestedLeaves[key[3]], <<[i |-> 1, l |-> None], [i |-> 0, l |-> 0]>>)>>)
        EXCEPT !.columns = NestedColumns]]

MCWorlds == <<Compared, Partitioned, Extreme, AnyOf, Arithmetics, Intervals, Truncated, Extracted, Casting,
              Refused, Texts, NoFilter, Evolved, Nested>>
=============================================================================
