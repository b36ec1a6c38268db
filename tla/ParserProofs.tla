---------------------------- MODULE ParserProofs ----------------------------
(***************************************************************************)
(* Proofs about the parsers of both protocols: whatever car, whatever      *)
(* combination of the encodings BluelinkApi knows, and whatever is missing *)
(* from the answer, fetchStatus yields exactly the facts that were told.   *)
(***************************************************************************)
EXTENDS BluelinkApi, TLAPS

-----------------------------------------------------------------------------
(* Lookups.                                                                *)

\* A lookup depends on what the document has at its path, and on nothing else.
LEMMA SamePath ==
  ASSUME NEW doc, NEW part, NEW path, getPath(doc, path) = getPath(part, path)
  PROVE  /\ getFloat(doc, path) = getFloat(part, path)
         /\ getInt(doc, path) = getInt(part, path)
         /\ getString(doc, path) = getString(part, path)
         /\ getBool(doc, path) = getBool(part, path)
         /\ getList(doc, path) = getList(part, path)
BY DEF getFloat, getInt, getString, getBool, getList

\* What there is at a path of a document of one field, and of two documents in one.
LEMMA PathOfField ==
  ASSUME NEW path, NEW q, NEW v
  PROVE  getPath(Field(path, v), q) = IF q = path THEN {v} ELSE Nil
BY DEF getPath, Field

LEMMA PathOfBoth ==
  ASSUME NEW d, NEW e, NEW q
  PROVE  getPath(Both(d, e), q) = IF q \in DOMAIN d THEN getPath(d, q) ELSE getPath(e, q)
BY DEF getPath, Both

LEMMA PathOfEmpty ==
  ASSUME NEW q
  PROVE  getPath(Empty, q) = Nil
BY DEF getPath, Empty

LEMMA FieldDomain ==
  ASSUME NEW path, NEW v
  PROVE  DOMAIN Field(path, v) = {path}
BY DEF Field

LEMMA EmptyDomain == DOMAIN Empty = {}
BY DEF Empty

\* What the lookups make of it.
LEMMA ReadNothing ==
  ASSUME NEW doc, NEW path, getPath(doc, path) = Nil
  PROVE  /\ getFloat(doc, path) = Nil /\ getInt(doc, path) = Nil
         /\ getString(doc, path) = Nil /\ getBool(doc, path) = Nil /\ getList(doc, path) = Nil
BY DEF getFloat, getInt, getString, getBool, getList, Nil

LEMMA ReadNum ==
  ASSUME NEW doc, NEW path, NEW n, getPath(doc, path) = {Num(n)}
  PROVE  getFloat(doc, path) = {n} /\ getInt(doc, path) = {n}
<1>1. asFloat(Num(n)) = {n}
  BY DEF asFloat, Num
<1> QED
  BY <1>1 DEF getFloat, getInt

LEMMA ReadBool ==
  ASSUME NEW doc, NEW path, NEW b \in BOOLEAN, getPath(doc, path) = {Bool(b)}
  PROVE  /\ getInt(doc, path) = {IF b THEN 1 ELSE 0}
         /\ getBool(doc, path) = {b}
<1>1. asFloat(Bool(b)) = {IF b THEN 1 ELSE 0}
  BY DEF asFloat, Bool
<1>2. Bool(b)[1] = "bool" /\ Bool(b)[2] = b
  BY DEF Bool
<1> QED
  BY <1>1, <1>2 DEF getFloat, getInt, getBool

LEMMA ReadStr ==
  ASSUME NEW doc, NEW path, NEW s, getPath(doc, path) = {Str(s)}
  PROVE  getString(doc, path) = {s} /\ getFloat(doc, path) = Nil
<1>1. asFloat(Str(s)) = Nil
  BY DEF asFloat, Str
<1>2. Str(s)[1] = "str" /\ Str(s)[2] = s
  BY DEF Str
<1> QED
  BY <1>1, <1>2 DEF getFloat, getString, Nil

LEMMA ReadList ==
  ASSUME NEW doc, NEW path, NEW l, getPath(doc, path) = {List(l)}
  PROVE  getList(doc, path) = {l}
<1>1. List(l)[1] = "list" /\ List(l)[2] = l
  BY DEF List
<1> QED
  BY <1>1 DEF getList

\* The lookups in a document of one field: a number,
LEMMA FieldNum ==
  ASSUME NEW path, NEW n
  PROVE  getFloat(Field(path, Num(n)), path) = {n} /\ getInt(Field(path, Num(n)), path) = {n}
<1>1. getPath(Field(path, Num(n)), path) = {Num(n)}
  BY PathOfField
<1> QED
  BY <1>1, ReadNum

\* a boolean,
LEMMA FieldBool ==
  ASSUME NEW path, NEW b \in BOOLEAN
  PROVE  /\ getInt(Field(path, Bool(b)), path) = {IF b THEN 1 ELSE 0}
         /\ getBool(Field(path, Bool(b)), path) = {b}
<1>1. getPath(Field(path, Bool(b)), path) = {Bool(b)}
  BY PathOfField
<1> QED
  BY <1>1, ReadBool

\* a text,
LEMMA FieldStr ==
  ASSUME NEW path, NEW t
  PROVE  getString(Field(path, Str(t)), path) = {t} /\ getFloat(Field(path, Str(t)), path) = Nil
<1>1. getPath(Field(path, Str(t)), path) = {Str(t)}
  BY PathOfField
<1> QED
  BY <1>1, ReadStr

\* a list,
LEMMA FieldList ==
  ASSUME NEW path, NEW l
  PROVE  getList(Field(path, List(l)), path) = {l}
<1>1. getPath(Field(path, List(l)), path) = {List(l)}
  BY PathOfField
<1> QED
  BY <1>1, ReadList

\* or another field.
LEMMA FieldOther ==
  ASSUME NEW path, NEW v, NEW q, q # path
  PROVE  getFloat(Field(path, v), q) = Nil /\ getInt(Field(path, v), q) = Nil
<1>1. getPath(Field(path, v), q) = Nil
  BY PathOfField
<1> QED
  BY <1>1, ReadNothing

\* The lookups in a document of two fields.
LEMMA PairPath ==
  ASSUME NEW p, NEW q, p # q, NEW v, NEW w
  PROVE  /\ getPath(Both(Field(p, v), Field(q, w)), p) = {v}
         /\ getPath(Both(Field(p, v), Field(q, w)), q) = {w}
BY DEF getPath, Field, Both

\* The first is a number; the second is one.
LEMMA FirstNum ==
  ASSUME NEW p, NEW m, NEW e
  PROVE  getFloat(Both(Field(p, Num(m)), e), p) = {m}
<1>1. getPath(Both(Field(p, Num(m)), e), p) = {Num(m)}
  BY DEF getPath, Field, Both
<1> QED
  BY <1>1, ReadNum

LEMMA SecondNum ==
  ASSUME NEW p, NEW q, p # q, NEW v, NEW n
  PROVE  getInt(Both(Field(p, v), Field(q, Num(n))), q) = {n}
<1>1. getPath(Both(Field(p, v), Field(q, Num(n))), q) = {Num(n)}
  BY DEF getPath, Field, Both
<1> QED
  BY <1>1, ReadNum

\* A document without fields.
LEMMA EmptyReads ==
  ASSUME NEW path
  PROVE  /\ getFloat(Empty, path) = Nil /\ getInt(Empty, path) = Nil
         /\ getString(Empty, path) = Nil /\ getBool(Empty, path) = Nil /\ getList(Empty, path) = Nil
BY PathOfEmpty, ReadNothing

\* distanceUnit on the indexes that occur.
LEMMA DistanceUnits ==
  /\ distanceUnit({1}) = "km" /\ distanceUnit({2}) = "mi" /\ distanceUnit({3}) = "mi"
  /\ distanceUnit({0}) = "" /\ distanceUnit(Nil) = ""
<1>1. {2} # {1} /\ {3} # {1} /\ {0} # {1} /\ {0} # {2} /\ {0} # {3}
  <2>1. 2 \notin {1} /\ 3 \notin {1} /\ 0 \notin {1} /\ 0 \notin {2} /\ 0 \notin {3}
    OBVIOUS
  <2> QED
    BY <2>1
<1>2. Nil # {1} /\ Nil # {2} /\ Nil # {3}
  BY DEF Nil
<1> QED
  BY <1>1, <1>2 DEF distanceUnit

-----------------------------------------------------------------------------
(* Documents and their parts.                                              *)

\* A part of a document says of its group what is claimed to be told.
Says(group, part, told, vague) ==
  \/ part \in group.codes /\ group.tells \subseteq told /\ group.tells \intersect vague = {}
  \/ part \in group.blanks /\ group.tells \intersect told = {}
  \/ part \in group.vague /\ group.tells \subseteq told /\ group.tells \subseteq vague

\* Any document of a protocol: one part for each group, in any combination, and
\* nothing told that no group tells.
AllTells(groups) == UNION {groups[g].tells : g \in DOMAIN groups}
Composed(groups, parts, told, vague) ==
  /\ DOMAIN parts = DOMAIN groups
  /\ \A g \in DOMAIN groups : Says(groups[g], parts[g], told, vague)
  /\ told \subseteq AllTells(groups) /\ vague \subseteq told

\* Every group can be told, and no fact is told by two groups.
WellFormed(groups) ==
  /\ \A g \in DOMAIN groups : groups[g].codes # {}
  /\ \A g, h \in DOMAIN groups : g # h => groups[g].tells \intersect groups[h].tells = {}

\* The documents of the model are such documents: the usual one ...
LEMMA UsualComposed ==
  ASSUME NEW groups, WellFormed(groups)
  PROVE  Composed(groups, FirstCodes(groups), Usual(groups).told, Usual(groups).vague)
<1>1. DOMAIN FirstCodes(groups) = DOMAIN groups
      /\ \A g \in DOMAIN groups : FirstCodes(groups)[g] \in groups[g].codes
  BY DEF FirstCodes, WellFormed
<1>2. Usual(groups).told = AllTells(groups) /\ Usual(groups).vague = {}
  BY DEF Usual, AllTells
<1>3. \A g \in DOMAIN groups : groups[g].tells \subseteq AllTells(groups)
  BY DEF AllTells
<1> QED
  BY <1>1, <1>2, <1>3 DEF Composed, Says

\* ... and those in which one group departs from it.
LEMMA DocumentComposed ==
  ASSUME NEW groups, WellFormed(groups), NEW a \in Documents(groups)
  PROVE  \E parts : a.doc = Merged(parts) /\ Composed(groups, parts, a.told, a.vague)
<1> DEFINE u == Usual(groups)
           first == FirstCodes(groups)
<1>1. DOMAIN first = DOMAIN groups /\ \A g \in DOMAIN groups : first[g] \in groups[g].codes
  BY DEF FirstCodes, WellFormed
<1>2. u.told = AllTells(groups) /\ u.vague = {} /\ DOMAIN u = {"doc", "told", "vague"}
  BY DEF Usual, AllTells
<1>3. \A g \in DOMAIN groups : groups[g].tells \subseteq AllTells(groups)
  BY DEF AllTells
<1>4. PICK g \in DOMAIN groups :
        \/ \E d \in groups[g].codes : a = [u EXCEPT !.doc = Merged([first EXCEPT ![g] = d])]
        \/ \E d \in groups[g].blanks : a = [u EXCEPT !.doc = Merged([first EXCEPT ![g] = d]),
                                                     !.told = @ \ groups[g].tells]
        \/ \E d \in groups[g].vague : a = [u EXCEPT !.doc = Merged([first EXCEPT ![g] = d]),
                                                    !.vague = groups[g].tells]
  <2> DEFINE with(g, d) == Merged([first EXCEPT ![g] = d])
             told(g) == {[u EXCEPT !.doc = with(g, d)] : d \in groups[g].codes}
             blank(g) == {[u EXCEPT !.doc = with(g, d), !.told = @ \ groups[g].tells]
                          : d \in groups[g].blanks}
             vague(g) == {[u EXCEPT !.doc = with(g, d), !.vague = groups[g].tells]
                          : d \in groups[g].vague}
  <2>1. Documents(groups) = UNION {told(g) \union blank(g) \union vague(g) : g \in DOMAIN groups}
    BY DEF Documents
  <2> HIDE DEF told, blank, vague, u, first
  <2>2. PICK g \in DOMAIN groups : a \in told(g) \/ a \in blank(g) \/ a \in vague(g)
    BY <2>1
  <2>3. CASE a \in told(g)
    BY <2>3, Zenon DEF told
  <2>4. CASE a \in blank(g)
    BY <2>4, Zenon DEF blank
  <2>5. CASE a \in vague(g)
    BY <2>5, Zenon DEF vague
  <2> QED
    BY <2>2, <2>3, <2>4, <2>5
<1>5. \A d : /\ DOMAIN [first EXCEPT ![g] = d] = DOMAIN groups
             /\ \A h \in DOMAIN groups : [first EXCEPT ![g] = d][h] = IF h = g THEN d ELSE first[h]
  BY <1>1
<1>6. \A h \in DOMAIN groups : h # g => groups[h].tells \intersect groups[g].tells = {}
  BY DEF WellFormed
<1> HIDE DEF u, first
<1>7. CASE \E d \in groups[g].codes : a = [u EXCEPT !.doc = Merged([first EXCEPT ![g] = d])]
  <2>1. PICK d \in groups[g].codes : a = [u EXCEPT !.doc = Merged([first EXCEPT ![g] = d])]
    BY <1>7
  <2>2. a.doc = Merged([first EXCEPT ![g] = d]) /\ a.told = AllTells(groups) /\ a.vague = {}
    BY <1>2, <2>1
  <2>3. Composed(groups, [first EXCEPT ![g] = d], a.told, a.vague)
    BY <1>1, <1>3, <1>5, <2>2 DEF Composed, Says
  <2> QED
    BY <2>2, <2>3
<1>8. CASE \E d \in groups[g].blanks : a = [u EXCEPT !.doc = Merged([first EXCEPT ![g] = d]),
                                                     !.told = @ \ groups[g].tells]
  <2>1. PICK d \in groups[g].blanks : a = [u EXCEPT !.doc = Merged([first EXCEPT ![g] = d]),
                                                    !.told = @ \ groups[g].tells]
    BY <1>8
  <2>2. /\ a.doc = Merged([first EXCEPT ![g] = d])
        /\ a.told = AllTells(groups) \ groups[g].tells /\ a.vague = {}
    BY <1>2, <2>1
  <2>3. Composed(groups, [first EXCEPT ![g] = d], a.told, a.vague)
    BY <1>1, <1>3, <1>5, <1>6, <2>2 DEF Composed, Says
  <2> QED
    BY <2>2, <2>3
<1>9. CASE \E d \in groups[g].vague : a = [u EXCEPT !.doc = Merged([first EXCEPT ![g] = d]),
                                                    !.vague = groups[g].tells]
  <2>1. PICK d \in groups[g].vague : a = [u EXCEPT !.doc = Merged([first EXCEPT ![g] = d]),
                                                   !.vague = groups[g].tells]
    BY <1>9
  <2>2. /\ a.doc = Merged([first EXCEPT ![g] = d])
        /\ a.told = AllTells(groups) /\ a.vague = groups[g].tells
    BY <1>2, <2>1
  <2>3. Composed(groups, [first EXCEPT ![g] = d], a.told, a.vague)
    BY <1>1, <1>3, <1>5, <1>6, <2>2 DEF Composed, Says
  <2> QED
    BY <2>2, <2>3
<1> QED
  BY <1>4, <1>7, <1>8, <1>9

\* A path that only one group uses is read as that group's part has it.
LEMMA MergedPath ==
  ASSUME NEW parts, NEW g \in DOMAIN parts, NEW path,
         \A h \in DOMAIN parts : path \in DOMAIN parts[h] => h = g
  PROVE  getPath(Merged(parts), path) = getPath(parts[g], path)
<1>1. DOMAIN Merged(parts) = UNION {DOMAIN parts[h] : h \in DOMAIN parts}
  BY DEF Merged
<1>2. path \in DOMAIN Merged(parts) <=> path \in DOMAIN parts[g]
  BY <1>1
<1>3. ASSUME path \in DOMAIN parts[g] PROVE Merged(parts)[path] = parts[g][path]
  <2>1. (CHOOSE h \in DOMAIN parts : path \in DOMAIN parts[h]) = g
    BY <1>3
  <2> QED
    BY <1>1, <1>2, <1>3, <2>1 DEF Merged
<1> QED
  BY <1>2, <1>3 DEF getPath

\* A group of one path and one number.
LEMMA PlainRead ==
  ASSUME NEW path, NEW v, NEW key, NEW part, NEW told, NEW vague,
         Says(Plain(path, v, key), part, told, vague)
  PROVE  /\ getFloat(part, path) = IF key \in told THEN {v} ELSE Nil
         /\ DOMAIN part \subseteq {path}
<1> DEFINE group == Plain(path, v, key)
<1>1. /\ group.codes = {Field(path, Num(v))} /\ group.blanks = {Empty, Field(path, Str("-"))}
      /\ group.vague = {} /\ group.tells = {key}
  BY DEF Plain, Group
<1> HIDE DEF group
<1>2. \/ part = Field(path, Num(v)) /\ key \in told
      \/ part = Empty /\ key \notin told
      \/ part = Field(path, Str("-")) /\ key \notin told
  <2>1. Says(group, part, told, vague)
    BY DEF group
  <2> QED
    BY <1>1, <2>1 DEF Says
<1>6. DOMAIN part \subseteq {path}
  BY <1>2, FieldDomain, EmptyDomain
<1>3. CASE part = Field(path, Num(v)) /\ key \in told
  <2>1. getPath(part, path) = {Num(v)}
    BY <1>3, PathOfField
  <2> QED
    BY <1>3, <1>6, <2>1, ReadNum
<1>4. CASE part = Empty /\ key \notin told
  BY <1>4, <1>6, PathOfEmpty, ReadNothing
<1>5. CASE part = Field(path, Str("-")) /\ key \notin told
  <2>1. getPath(part, path) = {Str("-")}
    BY <1>5, PathOfField
  <2> QED
    BY <1>5, <1>6, <2>1, ReadStr
<1> QED
  BY <1>2, <1>3, <1>4, <1>5

\* A group without vague parts is told by a code or not at all.
LEMMA GroupSays ==
  ASSUME NEW codes, NEW blanks, NEW tells, NEW part, NEW told, NEW vague,
         Says(Group(codes, blanks, tells), part, told, vague)
  PROVE  \/ part \in codes /\ tells \subseteq told
         \/ part \in blanks /\ tells \intersect told = {}
<1> DEFINE group == Group(codes, blanks, tells)
<1>1. group.codes = codes /\ group.blanks = blanks /\ group.vague = {} /\ group.tells = tells
  BY DEF Group
<1> HIDE DEF group
<1>2. Says(group, part, told, vague)
  BY DEF group
<1> QED
  BY <1>1, <1>2 DEF Says

-----------------------------------------------------------------------------
(* CCS2, group by group.                                                   *)

\* The range and its unit; without a unit it is vague.
LEMMA RangeCCS2Read ==
  ASSUME NEW car, IsCar(car), NEW part, NEW told, NEW vague,
         Says(RangeCCS2(car), part, told, vague)
  PROVE  /\ getFloat(part, "DTE.Total") = IF "ev_range" \in told THEN {car.ev_range} ELSE Nil
         /\ "ev_range" \in told =>
              distanceUnit(getInt(part, "DTE.Unit")) = IF "ev_range" \in vague THEN "" ELSE car.unit
         /\ DOMAIN part \subseteq {"DTE.Total", "DTE.Unit"}
<1> DEFINE total == Field("DTE.Total", Num(car.ev_range))
           unit(n) == Field("DTE.Unit", Num(n))
           group == RangeCCS2(car)
<1>1. /\ group.codes = {Both(total, unit(i)) : i \in UnitIndexes(car.unit)}
      /\ group.blanks = {Empty, unit(1)}
      /\ group.vague = {total, Both(total, unit(0))}
      /\ group.tells = {"ev_range"}
  BY DEF RangeCCS2
<1>2. ASSUME NEW n
      PROVE  /\ getFloat(Both(total, unit(n)), "DTE.Total") = {car.ev_range}
             /\ getInt(Both(total, unit(n)), "DTE.Unit") = {n}
  <2> DEFINE p == "DTE.Total"
             q == "DTE.Unit"
  <2>1. p # q
    OBVIOUS
  <2> HIDE DEF p, q
  <2>2. /\ getFloat(Both(Field(p, Num(car.ev_range)), Field(q, Num(n))), p) = {car.ev_range}
        /\ getInt(Both(Field(p, Num(car.ev_range)), Field(q, Num(n))), q) = {n}
    BY <2>1, FirstNum, SecondNum
  <2> QED
    BY <2>2 DEF p, q
<1>3. /\ getFloat(total, "DTE.Total") = {car.ev_range} /\ getInt(total, "DTE.Unit") = Nil
      /\ getFloat(unit(1), "DTE.Total") = Nil
  BY FieldNum, FieldOther
<1>8. /\ DOMAIN total \subseteq {"DTE.Total", "DTE.Unit"}
      /\ \A n : /\ DOMAIN unit(n) \subseteq {"DTE.Total", "DTE.Unit"}
               /\ DOMAIN Both(total, unit(n)) \subseteq {"DTE.Total", "DTE.Unit"}
  BY DEF Both, Field
<1> HIDE DEF total, unit, group
<1>4. Says(group, part, told, vague)
  BY DEF group
<1>9. DOMAIN part \subseteq {"DTE.Total", "DTE.Unit"}
  <2>1. part \in group.codes \union group.blanks \union group.vague
    BY <1>4 DEF Says
  <2> QED
    BY <1>1, <1>8, <2>1, EmptyDomain
<1>5. CASE part \in group.codes /\ "ev_range" \in told /\ "ev_range" \notin vague
  <2>1. PICK n \in UnitIndexes(car.unit) : part = Both(total, unit(n))
    BY <1>1, <1>5
  <2>2. (n = 1 /\ car.unit = "km") \/ (n = 2 /\ car.unit = "mi") \/ (n = 3 /\ car.unit = "mi")
    BY DEF IsCar, UnitIndexes
  <2>3. distanceUnit({n}) = car.unit
    BY <2>2, DistanceUnits
  <2> QED
    BY <1>2, <1>5, <1>9, <2>1, <2>3
<1>6. CASE part \in group.blanks /\ "ev_range" \notin told
  BY <1>1, <1>3, <1>6, <1>9, EmptyReads
<1>7. CASE part \in group.vague /\ "ev_range" \in told /\ "ev_range" \in vague
  BY <1>1, <1>2, <1>3, <1>7, <1>9, DistanceUnits
<1> QED
  BY <1>1, <1>4, <1>5, <1>6, <1>7 DEF Says

\* The remaining time tells two facts.
LEMMA ChargeCCS2Read ==
  ASSUME NEW car, NEW part, NEW told, NEW vague, Says(ChargeCCS2(car), part, told, vague)
  PROVE  /\ getInt(part, "Charging.RemainTime") =
              IF "est_charge_time" \in told THEN {car.est_charge_time} ELSE Nil
         /\ "charging" \in told <=> "est_charge_time" \in told
         /\ DOMAIN part \subseteq {"Charging.RemainTime"}
<1>1. \/ /\ part \in {Field("Charging.RemainTime", Num(car.est_charge_time))}
         /\ {"charging", "est_charge_time"} \subseteq told
      \/ part \in {Empty} /\ {"charging", "est_charge_time"} \intersect told = {}
  BY GroupSays DEF ChargeCCS2
<1>2. DOMAIN part \subseteq {"Charging.RemainTime"}
  BY <1>1, FieldDomain, EmptyDomain
<1> QED
  BY <1>1, <1>2, FieldNum, EmptyReads

\* A flag is told by any number but zero.
LEMMA NonZeroOf ==
  /\ NonZero(Nil) = Nil
  /\ \A n : NonZero({n}) = {n # 0}
BY DEF NonZero, Nil

\* In particular by these.
LEMMA Flags == NonZero({0}) = {FALSE} /\ NonZero({1}) = {TRUE} /\ NonZero({2}) = {TRUE}
<1>1. (0 # 0) = FALSE /\ (1 # 0) = TRUE /\ (2 # 0) = TRUE
  OBVIOUS
<1> QED
  BY <1>1, NonZeroOf

\* The plug, told by a number or by a boolean.
LEMMA PlugCCS2Read ==
  ASSUME NEW car, IsCar(car), NEW part, NEW told, NEW vague,
         Says(PlugCCS2(car), part, told, vague)
  PROVE  /\ NonZero(getInt(part, "ConnectorFastening.State")) =
              IF "plugged_in" \in told THEN {car.plugged_in} ELSE Nil
         /\ DOMAIN part \subseteq {"ConnectorFastening.State"}
<1> DEFINE values == IF car.plugged_in THEN {Num(1), Num(2), Bool(TRUE)} ELSE {Num(0), Bool(FALSE)}
           field(v) == Field("ConnectorFastening.State", v)
           codes == {field(v) : v \in values}
<1>1. PlugCCS2(car) = Group(codes, {Empty}, {"plugged_in"})
  BY DEF PlugCCS2
<1> HIDE DEF codes
<1>2. (part \in codes /\ "plugged_in" \in told) \/ (part = Empty /\ "plugged_in" \notin told)
  <2>1. \/ part \in codes /\ {"plugged_in"} \subseteq told
        \/ part \in {Empty} /\ {"plugged_in"} \intersect told = {}
    BY <1>1, GroupSays
  <2> QED
    BY <2>1
<1>3. /\ getInt(field(Num(0)), "ConnectorFastening.State") = {0}
      /\ getInt(field(Num(1)), "ConnectorFastening.State") = {1}
      /\ getInt(field(Num(2)), "ConnectorFastening.State") = {2}
      /\ getInt(field(Bool(TRUE)), "ConnectorFastening.State") = {1}
      /\ getInt(field(Bool(FALSE)), "ConnectorFastening.State") = {0}
  BY FieldNum, FieldBool
<1>6. DOMAIN part \subseteq {"ConnectorFastening.State"}
  BY <1>2, FieldDomain, EmptyDomain DEF codes
<1>4. CASE part \in codes /\ "plugged_in" \in told
  <2>1. PICK v \in values : part = field(v)
    BY <1>4 DEF codes
  <2>2. \/ (v = Num(1) \/ v = Num(2) \/ v = Bool(TRUE)) /\ car.plugged_in = TRUE
        \/ (v = Num(0) \/ v = Bool(FALSE)) /\ car.plugged_in = FALSE
    BY DEF IsCar
  <2> HIDE DEF field
  <2>3. NonZero(getInt(part, "ConnectorFastening.State")) = {car.plugged_in}
    BY <1>3, <2>1, <2>2, Flags
  <2> QED
    BY <1>4, <1>6, <2>3
<1>5. CASE part = Empty /\ "plugged_in" \notin told
  BY <1>5, <1>6, EmptyReads, NonZeroOf
<1> QED
  BY <1>2, <1>4, <1>5

\* The charge port: a state of 3 is no news.
LEMMA PortCCS2Read ==
  ASSUME NEW car, IsCar(car), NEW part, NEW told, NEW vague,
         Says(PortCCS2(car), part, told, vague)
  PROVE  /\ {v = 1 : v \in getInt(part, "ChargingDoor.State") \intersect 0 .. 2} =
              IF "charge_port_door" \in told THEN {car.charge_port_door} ELSE Nil
         /\ DOMAIN part \subseteq {"ChargingDoor.State"}
<1> DEFINE numbers == IF car.charge_port_door THEN {1} ELSE {0, 2}
           field(n) == Field("ChargingDoor.State", Num(n))
           codes == {field(n) : n \in numbers}
           open(pointer) == {v = 1 : v \in pointer \intersect 0 .. 2}
<1>1. PortCCS2(car) = Group(codes, {Empty, field(3)}, {"charge_port_door"})
  BY DEF PortCCS2
<1>2. /\ getInt(field(3), "ChargingDoor.State") = {3}
      /\ \A n \in numbers : getInt(field(n), "ChargingDoor.State") = {n}
  BY FieldNum
<1>3. open({3}) = Nil /\ open(Nil) = Nil
  BY DEF Nil
<1>4. open({0}) = {FALSE} /\ open({1}) = {TRUE} /\ open({2}) = {FALSE}
  <2>1. {0} \intersect 0 .. 2 = {0} /\ {1} \intersect 0 .. 2 = {1} /\ {2} \intersect 0 .. 2 = {2}
    OBVIOUS
  <2>2. (0 = 1) = FALSE /\ (1 = 1) = TRUE /\ (2 = 1) = FALSE
    OBVIOUS
  <2>3. ASSUME NEW n, {n} \intersect 0 .. 2 = {n}
        PROVE  open({n}) = {n = 1}
    BY <2>3, Zenon
  <2>4. open({0}) = {0 = 1} /\ open({1}) = {1 = 1} /\ open({2}) = {2 = 1}
    BY <2>1, <2>3, Zenon
  <2> HIDE DEF open
  <2> QED
    BY <2>2, <2>4
<1> HIDE DEF codes, field
<1>5. \/ part \in codes /\ {"charge_port_door"} \subseteq told
      \/ part \in {Empty, field(3)} /\ {"charge_port_door"} \intersect told = {}
  BY <1>1, GroupSays
<1>8. DOMAIN part \subseteq {"ChargingDoor.State"}
  BY <1>5, FieldDomain, EmptyDomain DEF codes, field
<1>6. CASE part \in codes /\ {"charge_port_door"} \subseteq told
  <2>1. PICK n \in numbers : part = field(n)
    BY <1>6 DEF codes
  <2>2. (n = 1 /\ car.charge_port_door = TRUE) \/ (n \in {0, 2} /\ car.charge_port_door = FALSE)
    BY DEF IsCar
  <2> HIDE DEF open
  <2>3. open(getInt(part, "ChargingDoor.State")) = {car.charge_port_door}
    BY <1>2, <1>4, <2>1, <2>2
  <2> QED
    BY <1>6, <1>8, <2>3 DEF open
<1>7. CASE part \in {Empty, field(3)} /\ {"charge_port_door"} \intersect told = {}
  <2>1. getInt(part, "ChargingDoor.State") \in {Nil, {3}}
    BY <1>2, <1>7, EmptyReads
  <2>2. open(getInt(part, "ChargingDoor.State")) = Nil
    BY <1>3, <2>1
  <2> QED
    BY <1>7, <1>8, <2>2
<1> QED
  BY <1>5, <1>6, <1>7

\* The 12 V battery: only a reliable level between 0 and 100 counts.
LEMMA AuxCCS2Read ==
  ASSUME NEW car, IsCar(car), NEW part, NEW told, NEW vague,
         Says(AuxCCS2(car), part, told, vague)
  PROVE  /\ normalizeBatterySoC(getFloat(part, "Battery.Level"),
                                 getInt(part, "Battery.SensorReliability"))
              = IF "battery_12v" \in told THEN {car.battery_12v} ELSE Nil
         /\ DOMAIN part \subseteq {"Battery.Level", "Battery.SensorReliability"}
<1> DEFINE level(n) == Field("Battery.Level", Num(n))
           reliability(n) == Field("Battery.SensorReliability", Num(n))
           codes == {level(car.battery_12v), Both(level(car.battery_12v), reliability(0))}
           blanks == {Empty, Both(level(car.battery_12v), reliability(1)), level(255), level(-1)}
           soc(doc) == normalizeBatterySoC(getFloat(doc, "Battery.Level"),
                                           getInt(doc, "Battery.SensorReliability"))
<1>1. AuxCCS2(car) = Group(codes, blanks, {"battery_12v"})
  BY DEF AuxCCS2
<1>2. ASSUME NEW n
      PROVE  /\ getFloat(level(n), "Battery.Level") = {n}
             /\ getInt(level(n), "Battery.SensorReliability") = Nil
  BY FieldNum, FieldOther
<1>3. ASSUME NEW n, NEW r
      PROVE  /\ getFloat(Both(level(n), reliability(r)), "Battery.Level") = {n}
             /\ getInt(Both(level(n), reliability(r)), "Battery.SensorReliability") = {r}
  BY FirstNum, SecondNum
<1>4. Nil # {1} /\ {0} # {1}
  <2>1. 0 \notin {1} /\ 1 \in {1}
    OBVIOUS
  <2> QED
    BY <2>1 DEF Nil
<1> HIDE DEF level, reliability
<1>5. \A d \in codes : soc(d) = {car.battery_12v}
  <2>1. car.battery_12v \in 0 .. 100
    BY DEF IsCar
  <2>2. soc(level(car.battery_12v)) = {car.battery_12v}
    BY <1>2, <1>4, <2>1 DEF normalizeBatterySoC
  <2>3. soc(Both(level(car.battery_12v), reliability(0))) = {car.battery_12v}
    BY <1>3, <1>4, <2>1 DEF normalizeBatterySoC
  <2> QED
    BY <2>2, <2>3
<1>6. \A d \in blanks : soc(d) = Nil
  <2>1. soc(Empty) = Nil
    BY EmptyReads DEF normalizeBatterySoC, Nil
  <2>2. soc(level(255)) = Nil
    BY <1>2 DEF normalizeBatterySoC, Nil
  <2>3. soc(level(-1)) = Nil
    BY <1>2 DEF normalizeBatterySoC, Nil
  <2>4. soc(Both(level(car.battery_12v), reliability(1))) = Nil
    BY <1>3 DEF normalizeBatterySoC
  <2> QED
    BY <2>1, <2>2, <2>3, <2>4
<1> HIDE DEF codes, blanks, soc
<1>7. \/ part \in codes /\ {"battery_12v"} \subseteq told
      \/ part \in blanks /\ {"battery_12v"} \intersect told = {}
  BY <1>1, GroupSays
<1>8. soc(part) = IF "battery_12v" \in told THEN {car.battery_12v} ELSE Nil
  BY <1>5, <1>6, <1>7
<1>9. DOMAIN part \subseteq {"Battery.Level", "Battery.SensorReliability"}
  <2> DEFINE S == {"Battery.Level", "Battery.SensorReliability"}
  <2>1. ASSUME NEW n, NEW r
        PROVE  DOMAIN level(n) \subseteq S /\ DOMAIN Both(level(n), reliability(r)) \subseteq S
    BY DEF Both, Field, level, reliability
  <2> HIDE DEF S
  <2> QED
    BY <1>7, <2>1, EmptyDomain DEF codes, blanks, S
<1> QED
  BY <1>8, <1>9 DEF soc

\* temperatureC undoes the API's Fahrenheit, and takes every other unit for Celsius.
LEMMA Temperatures ==
  ASSUME NEW t \in Int
  PROVE  /\ temperatureC({t}, Nil) = {t} /\ temperatureC({t}, {0}) = {t}
         /\ \A f \in Fahrenheit(t) : temperatureC({f}, {1}) = {t}
         /\ \A u : temperatureC(Nil, u) = Nil
<1>1. Nil # {1} /\ {0} # {1}
  <2>1. 0 \notin {1} /\ 1 \in {1}
    OBVIOUS
  <2> QED
    BY <2>1 DEF Nil
<1>2. temperatureC({t}, Nil) = {t} /\ temperatureC({t}, {0}) = {t}
  BY <1>1 DEF temperatureC
<1>3. ASSUME NEW f \in Fahrenheit(t) PROVE temperatureC({f}, {1}) = {t}
  <2>1. ((f - 32) * 5) \div 9 = t
    BY DEF Fahrenheit
  <2> QED
    BY <2>1 DEF temperatureC
<1>4. \A u : temperatureC(Nil, u) = Nil
  BY DEF temperatureC, Nil
<1> QED
  BY <1>2, <1>3, <1>4

LEMMA FromFahrenheit ==
  ASSUME NEW t \in Int, NEW f \in Fahrenheit(t)
  PROVE  temperatureC({f}, {1}) = {t}
BY Temperatures

\* The temperature outside, in either unit, or in none for Celsius.
LEMMA OutsideCCS2Read ==
  ASSUME NEW car, IsCar(car), NEW part, NEW told, NEW vague,
         Says(OutsideCCS2(car), part, told, vague)
  PROVE  /\ temperatureC(getFloat(part, "OutsideTemperature.Value"), getInt(part, "OutsideTemperature.Unit"))
              = IF "outside_temp" \in told THEN {car.outside_temp} ELSE Nil
         /\ DOMAIN part \subseteq {"OutsideTemperature.Value", "OutsideTemperature.Unit"}
<1> DEFINE p == "OutsideTemperature.Value"
           q == "OutsideTemperature.Unit"
           t == car.outside_temp
           value(n) == Field(p, Num(n))
           unit(n) == Field(q, Num(n))
           codes == {value(t), Both(value(t), unit(0))}
                      \union {Both(value(f), unit(1)) : f \in Fahrenheit(t)}
           blanks == {Empty, unit(0)}
           read(doc) == temperatureC(getFloat(doc, p), getInt(doc, q))
<1>1. OutsideCCS2(car) = Group(codes, blanks, {"outside_temp"})
  BY DEF OutsideCCS2
<1>2. p # q /\ t \in Int
  BY DEF IsCar
<1> HIDE DEF p, q, t
<1>3. ASSUME NEW n
      PROVE  /\ getFloat(value(n), p) = {n} /\ getInt(value(n), q) = Nil
             /\ getFloat(unit(n), p) = Nil
  BY <1>2, FieldNum, FieldOther
<1>4. ASSUME NEW m, NEW n
      PROVE  /\ getFloat(Both(value(m), unit(n)), p) = {m}
             /\ getInt(Both(value(m), unit(n)), q) = {n}
  BY <1>2, FirstNum, SecondNum
<1> HIDE DEF value, unit
<1>5. \A d \in codes : read(d) = {t}
  <2>1. read(value(t)) = {t}
    BY <1>2, <1>3, Temperatures
  <2>2. read(Both(value(t), unit(0))) = {t}
    BY <1>2, <1>4, Temperatures
  <2>3. ASSUME NEW f \in Fahrenheit(t) PROVE read(Both(value(f), unit(1))) = {t}
    <3>1. /\ getFloat(Both(value(f), unit(1)), p) = {f}
          /\ getInt(Both(value(f), unit(1)), q) = {1}
      BY <1>4
    <3>2. temperatureC({f}, {1}) = {t}
      BY <1>2, FromFahrenheit
    <3> QED
      BY <3>1, <3>2
  <2> QED
    BY <2>1, <2>2, <2>3
<1>6. \A d \in blanks : read(d) = Nil
  <2>1. \A d \in blanks : getFloat(d, p) = Nil
    BY <1>3, EmptyReads
  <2> QED
    BY <1>2, <2>1, Temperatures
<1> HIDE DEF codes, blanks, read
<1>7. \/ part \in codes /\ {"outside_temp"} \subseteq told
      \/ part \in blanks /\ {"outside_temp"} \intersect told = {}
  BY <1>1, GroupSays
<1>8. read(part) = IF "outside_temp" \in told THEN {t} ELSE Nil
  BY <1>5, <1>6, <1>7
<1>9. DOMAIN part \subseteq {p, q}
  <2> DEFINE S == {p, q}
  <2>1. ASSUME NEW v, NEW n
        PROVE  /\ DOMAIN value(v) \subseteq S /\ DOMAIN unit(n) \subseteq S
               /\ DOMAIN Both(value(v), unit(n)) \subseteq S
    BY DEF Both, Field, value, unit
  <2> HIDE DEF S
  <2> QED
    BY <1>7, <2>1, EmptyDomain DEF codes, blanks, S
<1> QED
  BY <1>8, <1>9 DEF read, p, q, t

\* The temperature inside; "OFF" is none.
LEMMA InsideCCS2Read ==
  ASSUME NEW car, IsCar(car), NEW part, NEW told, NEW vague,
         Says(InsideCCS2(car), part, told, vague)
  PROVE  /\ temperatureC(getFloat(part, "Driver.Temperature.Value"), getInt(part, "Driver.Temperature.Unit"))
              = IF "inside_temp" \in told THEN {car.inside_temp} ELSE Nil
         /\ DOMAIN part \subseteq {"Driver.Temperature.Value", "Driver.Temperature.Unit"}
<1> DEFINE p == "Driver.Temperature.Value"
           q == "Driver.Temperature.Unit"
           t == car.inside_temp
           value(v) == Field(p, v)
           unit(n) == Field(q, Num(n))
           codes == {Both(value(Num(t)), unit(0))}
                      \union {Both(value(Num(f)), unit(1)) : f \in Fahrenheit(t)}
           blanks == {Empty, Both(value(Str("OFF")), unit(0))}
           read(doc) == temperatureC(getFloat(doc, p), getInt(doc, q))
<1>1. InsideCCS2(car) = Group(codes, blanks, {"inside_temp"})
  BY DEF InsideCCS2
<1>2. p # q /\ t \in Int
  BY DEF IsCar
<1> HIDE DEF p, q, t
<1>3. getFloat(Both(value(Str("OFF")), unit(0)), p) = Nil
  <2>1. getPath(Both(value(Str("OFF")), unit(0)), p) = {Str("OFF")}
    BY <1>2, PairPath
  <2> QED
    BY <2>1, ReadStr
<1>4. ASSUME NEW m, NEW n
      PROVE  /\ getFloat(Both(value(Num(m)), unit(n)), p) = {m}
             /\ getInt(Both(value(Num(m)), unit(n)), q) = {n}
  BY <1>2, FirstNum, SecondNum
<1> HIDE DEF value, unit
<1>5. \A d \in codes : read(d) = {t}
  <2>1. read(Both(value(Num(t)), unit(0))) = {t}
    BY <1>2, <1>4, Temperatures
  <2>2. ASSUME NEW f \in Fahrenheit(t) PROVE read(Both(value(Num(f)), unit(1))) = {t}
    <3>1. /\ getFloat(Both(value(Num(f)), unit(1)), p) = {f}
          /\ getInt(Both(value(Num(f)), unit(1)), q) = {1}
      BY <1>4
    <3>2. temperatureC({f}, {1}) = {t}
      BY <1>2, FromFahrenheit
    <3> QED
      BY <3>1, <3>2
  <2> QED
    BY <2>1, <2>2
<1>6. \A d \in blanks : read(d) = Nil
  <2>1. \A d \in blanks : getFloat(d, p) = Nil
    BY <1>3, EmptyReads
  <2> QED
    BY <1>2, <2>1, Temperatures
<1> HIDE DEF codes, blanks, read
<1>7. \/ part \in codes /\ {"inside_temp"} \subseteq told
      \/ part \in blanks /\ {"inside_temp"} \intersect told = {}
  BY <1>1, GroupSays
<1>8. read(part) = IF "inside_temp" \in told THEN {t} ELSE Nil
  BY <1>5, <1>6, <1>7
<1>9. DOMAIN part \subseteq {p, q}
  <2> DEFINE S == {p, q}
  <2>1. ASSUME NEW v, NEW n
        PROVE  /\ DOMAIN value(v) \subseteq S /\ DOMAIN unit(n) \subseteq S
               /\ DOMAIN Both(value(v), unit(n)) \subseteq S
    BY DEF Both, Field, value, unit
  <2> HIDE DEF S
  <2> QED
    BY <1>7, <2>1, EmptyDomain DEF codes, blanks, S
<1> QED
  BY <1>8, <1>9 DEF read, p, q, t

\* The lookups in a document of flags.
LEMMA FlagsRead ==
  ASSUME NEW paths, NEW low, NEW p
  PROVE  getInt(FlagsOf(paths, low), p) =
           IF p \in paths THEN {IF p \in low THEN 1 ELSE 0} ELSE Nil
<1>1. CASE p \in paths
  <2>1. getPath(FlagsOf(paths, low), p) = {Flag(p \in low)}
    BY <1>1 DEF getPath, FlagsOf
  <2>2. Flag(p \in low) = Num(IF p \in low THEN 1 ELSE 0)
    BY DEF Flag
  <2>3. getPath(FlagsOf(paths, low), p) = {Num(IF p \in low THEN 1 ELSE 0)}
    BY <2>1, <2>2
  <2> QED
    BY <1>1, <2>3, ReadNum
<1>2. CASE p \notin paths
  <2>1. getPath(FlagsOf(paths, low), p) = Nil
    BY <1>2 DEF getPath, FlagsOf
  <2> QED
    BY <1>2, <2>1, ReadNothing
<1> QED
  BY <1>1, <1>2

\* The doors: locked if every flag is there and none is set.
LEMMA DoorsCCS2Read ==
  ASSUME NEW car, IsCar(car), NEW part, NEW told, NEW vague,
         Says(DoorsCCS2(car), part, told, vague)
  PROVE  /\ allDoorsLocked(part) = IF "locked" \in told THEN {car.locked} ELSE Nil
         /\ DOMAIN part \subseteq LockPaths
<1> DEFINE codes == {FlagsOf(LockPaths, car.unlocked)}
           blanks == {FlagsOf(LockPaths \ {q}, car.unlocked) : q \in LockPaths}
<1>1. DoorsCCS2(car) = Group(codes, blanks, {"locked"})
  BY DEF DoorsCCS2
<1>2. allDoorsLocked(FlagsOf(LockPaths, car.unlocked)) = {car.locked}
  <2> DEFINE doc == FlagsOf(LockPaths, car.unlocked)
             locks == [p \in LockPaths |-> getInt(doc, p)]
  <2>1. \A p \in LockPaths : locks[p] = {IF p \in car.unlocked THEN 1 ELSE 0}
    BY FlagsRead
  <2>2. ~ \E p \in LockPaths : locks[p] = Nil
    BY <2>1 DEF Nil
  <2>3. \A p \in LockPaths : locks[p] = {0} <=> p \notin car.unlocked
    <3>1. {1} # {0}
      <4>1. 1 \notin {0} /\ 1 \in {1}
        OBVIOUS
      <4> QED
        BY <4>1
    <3> QED
      BY <2>1, <3>1
  <2>4. (\A p \in LockPaths : locks[p] = {0}) = car.locked
    <3>1. (\A p \in LockPaths : locks[p] = {0}) <=> car.unlocked = {}
      BY <2>3 DEF IsCar
    <3> QED
      BY <3>1 DEF IsCar
  <2>5. allDoorsLocked(doc) = {\A p \in LockPaths : locks[p] = {0}}
    BY <2>2 DEF allDoorsLocked
  <2> QED
    BY <2>4, <2>5
<1>3. ASSUME NEW q \in LockPaths
      PROVE  allDoorsLocked(FlagsOf(LockPaths \ {q}, car.unlocked)) = Nil
  <2>1. getInt(FlagsOf(LockPaths \ {q}, car.unlocked), q) = Nil
    BY FlagsRead
  <2> QED
    BY <2>1 DEF allDoorsLocked
<1>4. \A d \in codes : allDoorsLocked(d) = {car.locked}
  BY <1>2
<1>5. \A d \in blanks : allDoorsLocked(d) = Nil
  BY <1>3
<1> HIDE DEF codes, blanks
<1>6. \/ part \in codes /\ {"locked"} \subseteq told
      \/ part \in blanks /\ {"locked"} \intersect told = {}
  BY <1>1, GroupSays
<1>7. DOMAIN part \subseteq LockPaths
  BY <1>6 DEF codes, blanks, FlagsOf
<1> QED
  BY <1>4, <1>5, <1>6, <1>7

\* The tyres: low if a flag is set; a car may send the flags that are set and no other.
LEMMA TyresCCS2Read ==
  ASSUME NEW car, IsCar(car), NEW part, NEW told, NEW vague,
         Says(TyresCCS2(car), part, told, vague)
  PROVE  /\ AnyFlag(part, TirePaths) = IF "tire_warning" \in told THEN {car.tire_warning} ELSE Nil
         /\ DOMAIN part \subseteq TirePaths
<1> DEFINE low == car.lowTyres
           codes == {FlagsOf(TirePaths, low), FlagsOf(low, low)} \ {Empty}
           seen(doc) == UNION {getInt(doc, p) : p \in TirePaths}
<1>1. TyresCCS2(car) = Group(codes, {Empty}, {"tire_warning"})
  BY DEF TyresCCS2
<1>2. low \subseteq TirePaths /\ car.tire_warning = (low # {})
  BY DEF IsCar
<1> HIDE DEF low
<1>3. AnyFlag(FlagsOf(TirePaths, low), TirePaths) = {car.tire_warning}
  <2> DEFINE doc == FlagsOf(TirePaths, low)
  <2>1. \A p \in TirePaths : getInt(doc, p) = {IF p \in low THEN 1 ELSE 0}
    BY FlagsRead
  <2>2. seen(doc) # {}
    <3>1. "Tire.PressureLow" \in TirePaths
      BY DEF TirePaths
    <3> QED
      BY <2>1, <3>1
  <2>3. (\E v \in seen(doc) : v # 0) <=> low # {}
    BY <1>2, <2>1
  <2>4. AnyFlag(doc, TirePaths) = {\E v \in seen(doc) : v # 0}
    BY <2>2 DEF AnyFlag
  <2> QED
    BY <1>2, <2>3, <2>4
<1>4. ASSUME FlagsOf(low, low) # Empty
      PROVE  AnyFlag(FlagsOf(low, low), TirePaths) = {car.tire_warning}
  <2> DEFINE doc == FlagsOf(low, low)
  <2>1. low # {}
    BY <1>4 DEF FlagsOf, Empty
  <2>2. \A p \in low : getInt(doc, p) = {1}
    BY FlagsRead
  <2>3. \E v \in seen(doc) : v # 0
    BY <1>2, <2>1, <2>2
  <2>4. AnyFlag(doc, TirePaths) = {\E v \in seen(doc) : v # 0}
    BY <2>3 DEF AnyFlag
  <2> QED
    BY <1>2, <2>1, <2>3, <2>4
<1>5. AnyFlag(Empty, TirePaths) = Nil
  <2>1. seen(Empty) = {}
    BY EmptyReads DEF Nil
  <2> QED
    BY <2>1 DEF AnyFlag
<1>6. \A d \in codes : AnyFlag(d, TirePaths) = {car.tire_warning}
  BY <1>3, <1>4
<1> HIDE DEF codes
<1>7. \/ part \in codes /\ {"tire_warning"} \subseteq told
      \/ part \in {Empty} /\ {"tire_warning"} \intersect told = {}
  BY <1>1, GroupSays
<1>8. DOMAIN part \subseteq TirePaths
  BY <1>2, <1>7, EmptyDomain DEF codes, FlagsOf
<1> QED
  BY <1>5, <1>6, <1>7, <1>8

\* The date, in any layout parseCCS2Date knows.
LEMMA DateCCS2Read ==
  ASSUME NEW car, NEW part, NEW told, NEW vague, Says(DateCCS2(car), part, told, vague)
  PROVE  /\ parseCCS2Date(getString(part, "Date"))
              = IF "last_updated" \in told THEN {car.last_updated} ELSE Nil
         /\ DOMAIN part \subseteq {"Date"}
<1> DEFINE layouts == {"rfc3339", "compact", "spaced"}
           date(d) == Field("Date", Str(d))
           codes == {date(<<l, car.last_updated>>) : l \in layouts}
           read(doc) == parseCCS2Date(getString(doc, "Date"))
<1>1. DateCCS2(car) = Group(codes, {Empty, date(<<"other", 0>>)}, {"last_updated"})
  BY DEF DateCCS2
<1>2. ASSUME NEW d PROVE getString(date(d), "Date") = {d}
  BY FieldStr
<1>3. ASSUME NEW l \in layouts PROVE parseCCS2Date({<<l, car.last_updated>>}) = {car.last_updated}
  <2> DEFINE d == <<l, car.last_updated>>
  <2>1. d[1] \in layouts /\ d[2] = car.last_updated
    OBVIOUS
  <2> HIDE DEF d
  <2>2. parseCCS2Date({d}) = {d[2]}
    BY <2>1 DEF parseCCS2Date
  <2> QED
    BY <2>1, <2>2 DEF d
<1>4. parseCCS2Date({<<"other", 0>>}) = Nil /\ parseCCS2Date(Nil) = Nil
  BY DEF parseCCS2Date, Nil
<1> HIDE DEF date
<1>5. \A d \in codes : read(d) = {car.last_updated}
  <2>1. ASSUME NEW l \in layouts PROVE read(date(<<l, car.last_updated>>)) = {car.last_updated}
    BY <1>2, <1>3
  <2> HIDE DEF read, layouts
  <2> QED
    BY <2>1
<1>6. read(date(<<"other", 0>>)) = Nil /\ read(Empty) = Nil
  BY <1>2, <1>4, EmptyReads
<1> HIDE DEF codes, read
<1>7. \/ part \in codes /\ {"last_updated"} \subseteq told
      \/ part \in {Empty, date(<<"other", 0>>)} /\ {"last_updated"} \intersect told = {}
  BY <1>1, GroupSays
<1>8. read(part) = IF "last_updated" \in told THEN {car.last_updated} ELSE Nil
  BY <1>5, <1>6, <1>7
<1>9. DOMAIN part \subseteq {"Date"}
  BY <1>7, FieldDomain, EmptyDomain DEF codes, date
<1> QED
  BY <1>8, <1>9 DEF read

-----------------------------------------------------------------------------
(* CCS2, the whole document.                                               *)

\* The group a path belongs to.
HomeCCS2(p) ==
  CASE p = "BatteryRemain.Ratio" -> "soc"
    [] p = "SoH.Ratio" -> "soh"
    [] p = "EstimatedTime.Quick" -> "quick"
    [] p = "TargetSoC.Standard" -> "ac"
    [] p = "TargetSoC.Quick" -> "dc"
    [] p = "RealTimePower" -> "power"
    [] p = "Odometer" -> "odometer"
    [] p \in {"DTE.Total", "DTE.Unit"} -> "range"
    [] p \in {"Charging.RemainTime"} -> "charge"
    [] p \in {"ConnectorFastening.State"} -> "plug"
    [] p \in {"ChargingDoor.State"} -> "port"
    [] p \in {"Battery.Level", "Battery.SensorReliability"} -> "aux"
    [] p \in {"OutsideTemperature.Value", "OutsideTemperature.Unit"} -> "outside"
    [] p \in {"Driver.Temperature.Value", "Driver.Temperature.Unit"} -> "inside"
    [] p \in {"Date"} -> "date"
    [] p \in LockPaths -> "doors"
    [] p \in TirePaths -> "tyres"
    [] OTHER -> "none"

LEMMA HomesCCS2 ==
  /\ \A p \in LockPaths : HomeCCS2(p) = "doors"
  /\ \A p \in TirePaths : HomeCCS2(p) = "tyres"
  /\ HomeCCS2("BatteryRemain.Ratio") = "soc"
  /\ HomeCCS2("SoH.Ratio") = "soh"
  /\ HomeCCS2("EstimatedTime.Quick") = "quick"
  /\ HomeCCS2("TargetSoC.Standard") = "ac"
  /\ HomeCCS2("TargetSoC.Quick") = "dc"
  /\ HomeCCS2("RealTimePower") = "power"
  /\ HomeCCS2("Odometer") = "odometer"
  /\ HomeCCS2("DTE.Total") = "range" /\ HomeCCS2("DTE.Unit") = "range"
  /\ HomeCCS2("Charging.RemainTime") = "charge"
  /\ HomeCCS2("ConnectorFastening.State") = "plug"
  /\ HomeCCS2("ChargingDoor.State") = "port"
  /\ HomeCCS2("Battery.Level") = "aux" /\ HomeCCS2("Battery.SensorReliability") = "aux"
  /\ HomeCCS2("OutsideTemperature.Value") = "outside" /\ HomeCCS2("OutsideTemperature.Unit") = "outside"
  /\ HomeCCS2("Driver.Temperature.Value") = "inside" /\ HomeCCS2("Driver.Temperature.Unit") = "inside"
  /\ HomeCCS2("Date") = "date"
BY DEF HomeCCS2, LockPaths, TirePaths

\* What the parts of a CCS2 document say.
LEMMA CCS2Parts ==
  ASSUME NEW car, NEW parts, NEW told, NEW vague, Composed(CCS2Groups(car), parts, told, vague)
  PROVE  /\ DOMAIN parts = {"soc", "soh", "range", "charge", "quick", "plug", "port", "ac", "dc", "power", "aux", "odometer", "outside", "inside", "doors", "tyres", "date"}
         /\ Says(Plain("BatteryRemain.Ratio", car.ev_battery_percentage, "ev_battery_percentage"), parts.soc, told, vague)
         /\ Says(Plain("SoH.Ratio", car.ev_battery_soh, "ev_battery_soh"), parts.soh, told, vague)
         /\ Says(Plain("EstimatedTime.Quick", car.est_fast_charge_time, "est_fast_charge_time"), parts.quick, told, vague)
         /\ Says(Plain("TargetSoC.Standard", car.charge_limit_ac, "charge_limit_ac"), parts.ac, told, vague)
         /\ Says(Plain("TargetSoC.Quick", car.charge_limit_dc, "charge_limit_dc"), parts.dc, told, vague)
         /\ Says(Plain("RealTimePower", car.charging_power, "charging_power"), parts.power, told, vague)
         /\ Says(Plain("Odometer", car.odometer, "odometer"), parts.odometer, told, vague)
         /\ Says(RangeCCS2(car), parts.range, told, vague)
         /\ Says(ChargeCCS2(car), parts.charge, told, vague)
         /\ Says(PlugCCS2(car), parts.plug, told, vague)
         /\ Says(PortCCS2(car), parts.port, told, vague)
         /\ Says(AuxCCS2(car), parts.aux, told, vague)
         /\ Says(OutsideCCS2(car), parts.outside, told, vague)
         /\ Says(InsideCCS2(car), parts.inside, told, vague)
         /\ Says(DateCCS2(car), parts.date, told, vague)
         /\ Says(DoorsCCS2(car), parts.doors, told, vague)
         /\ Says(TyresCCS2(car), parts.tyres, told, vague)
<1> DEFINE groups == CCS2Groups(car)
<1>1. DOMAIN groups = {"soc", "soh", "range", "charge", "quick", "plug", "port", "ac", "dc", "power", "aux", "odometer", "outside", "inside", "doors", "tyres", "date"}
  BY DEF CCS2Groups
<1>2. /\ groups.soc = Plain("BatteryRemain.Ratio", car.ev_battery_percentage, "ev_battery_percentage")
      /\ groups.soh = Plain("SoH.Ratio", car.ev_battery_soh, "ev_battery_soh")
      /\ groups.quick = Plain("EstimatedTime.Quick", car.est_fast_charge_time, "est_fast_charge_time")
      /\ groups.ac = Plain("TargetSoC.Standard", car.charge_limit_ac, "charge_limit_ac")
      /\ groups.dc = Plain("TargetSoC.Quick", car.charge_limit_dc, "charge_limit_dc")
      /\ groups.power = Plain("RealTimePower", car.charging_power, "charging_power")
      /\ groups.odometer = Plain("Odometer", car.odometer, "odometer")
      /\ groups.range = RangeCCS2(car)
      /\ groups.charge = ChargeCCS2(car)
      /\ groups.plug = PlugCCS2(car)
      /\ groups.port = PortCCS2(car)
      /\ groups.aux = AuxCCS2(car)
      /\ groups.outside = OutsideCCS2(car)
      /\ groups.inside = InsideCCS2(car)
      /\ groups.date = DateCCS2(car)
      /\ groups.doors = DoorsCCS2(car)
      /\ groups.tyres = TyresCCS2(car)
  BY DEF CCS2Groups
<1> HIDE DEF groups
<1>3. DOMAIN parts = DOMAIN groups /\ \A g \in DOMAIN groups : Says(groups[g], parts[g], told, vague)
  BY DEF Composed, groups
<1> QED
  BY <1>1, <1>2, <1>3

\* Every path of a part belongs to the part's group.
LEMMA CCS2Homes ==
  ASSUME NEW car, IsCar(car), NEW parts, NEW told, NEW vague,
         Composed(CCS2Groups(car), parts, told, vague)
  PROVE  \A g \in DOMAIN parts : \A p \in DOMAIN parts[g] : HomeCCS2(p) = g
<1>1. /\ DOMAIN parts.soc \subseteq {"BatteryRemain.Ratio"}
      /\ DOMAIN parts.soh \subseteq {"SoH.Ratio"}
      /\ DOMAIN parts.quick \subseteq {"EstimatedTime.Quick"}
      /\ DOMAIN parts.ac \subseteq {"TargetSoC.Standard"}
      /\ DOMAIN parts.dc \subseteq {"TargetSoC.Quick"}
      /\ DOMAIN parts.power \subseteq {"RealTimePower"}
      /\ DOMAIN parts.odometer \subseteq {"Odometer"}
  BY CCS2Parts, PlainRead
<1>2. /\ DOMAIN parts.range \subseteq {"DTE.Total", "DTE.Unit"}
      /\ DOMAIN parts.charge \subseteq {"Charging.RemainTime"}
  <2>1. Says(RangeCCS2(car), parts.range, told, vague) /\ Says(ChargeCCS2(car), parts.charge, told, vague)
    BY CCS2Parts
  <2>2. DOMAIN parts.range \subseteq {"DTE.Total", "DTE.Unit"}
    BY <2>1, RangeCCS2Read
  <2>3. DOMAIN parts.charge \subseteq {"Charging.RemainTime"}
    BY <2>1, ChargeCCS2Read
  <2> QED
    BY <2>2, <2>3
<1>3. /\ DOMAIN parts.plug \subseteq {"ConnectorFastening.State"}
      /\ DOMAIN parts.port \subseteq {"ChargingDoor.State"}
      /\ DOMAIN parts.aux \subseteq {"Battery.Level", "Battery.SensorReliability"}
  BY CCS2Parts, PlugCCS2Read, PortCCS2Read, AuxCCS2Read
<1>4. /\ DOMAIN parts.outside \subseteq {"OutsideTemperature.Value", "OutsideTemperature.Unit"}
      /\ DOMAIN parts.inside \subseteq {"Driver.Temperature.Value", "Driver.Temperature.Unit"}
      /\ DOMAIN parts.date \subseteq {"Date"}
  BY CCS2Parts, OutsideCCS2Read, InsideCCS2Read, DateCCS2Read
<1>5. DOMAIN parts.doors \subseteq LockPaths /\ DOMAIN parts.tyres \subseteq TirePaths
  BY CCS2Parts, DoorsCCS2Read, TyresCCS2Read
<1>6. ASSUME NEW g \in DOMAIN parts, NEW p \in DOMAIN parts[g] PROVE HomeCCS2(p) = g
  <2>1. g \in {"soc", "soh", "range", "charge", "quick", "plug", "port", "ac", "dc", "power", "aux",
              "odometer", "outside", "inside", "doors", "tyres", "date"}
    BY CCS2Parts
  <2>2. CASE g \in {"soc", "soh", "quick", "ac", "dc", "power", "odometer"}
    BY <1>1, <2>2, HomesCCS2
  <2>3. CASE g \in {"range", "charge", "plug", "port", "aux"}
    BY <1>2, <1>3, <2>3, HomesCCS2
  <2>4. CASE g \in {"outside", "inside", "date"}
    BY <1>4, <2>4, HomesCCS2
  <2>5. CASE g \in {"doors", "tyres"}
    BY <1>5, <2>5, HomesCCS2
  <2> QED
    BY <2>1, <2>2, <2>3, <2>4, <2>5
<1> QED
  BY <1>6

\* A path is read as the part of its group has it.
LEMMA CCS2Path ==
  ASSUME NEW car, IsCar(car), NEW parts, NEW told, NEW vague,
         Composed(CCS2Groups(car), parts, told, vague),
         NEW path, HomeCCS2(path) \in DOMAIN parts
  PROVE  /\ getFloat(Merged(parts), path) = getFloat(parts[HomeCCS2(path)], path)
         /\ getInt(Merged(parts), path) = getInt(parts[HomeCCS2(path)], path)
         /\ getString(Merged(parts), path) = getString(parts[HomeCCS2(path)], path)
<1>1. getPath(Merged(parts), path) = getPath(parts[HomeCCS2(path)], path)
  BY CCS2Homes, MergedPath
<1> QED
  BY <1>1, SamePath

\* What a state has to say of a car of which told was told, vague without a unit.
Correct(st, car, told, vague) ==
  /\ \A key \in Entities \union Metrics : st[key] = IF key \in told THEN {car[key]} ELSE Nil
  /\ "ev_range" \in told => st.ev_range_unit = IF "ev_range" \in vague THEN "" ELSE car.unit
  /\ "odometer" \in told \ vague => st.odometer_unit = "km"

\* parseCCS2 reads of every CCS2 document, in any combination of its encodings and
\* with anything missing, exactly what it tells.
THEOREM CCS2Faithful ==
  ASSUME NEW car, IsCar(car), NEW parts, NEW told, NEW vague,
         Composed(CCS2Groups(car), parts, told, vague)
  PROVE  Correct(parseCCS2(Merged(parts)), car, told, vague)
<1> DEFINE doc == Merged(parts)
           st == parseCCS2(doc)
           value(key) == IF key \in told THEN {car[key]} ELSE Nil
<1>1. /\ getFloat(doc, "BatteryRemain.Ratio") = getFloat(parts.soc, "BatteryRemain.Ratio")
      /\ getFloat(doc, "SoH.Ratio") = getFloat(parts.soh, "SoH.Ratio")
      /\ getInt(doc, "EstimatedTime.Quick") = getInt(parts.quick, "EstimatedTime.Quick")
      /\ getFloat(doc, "TargetSoC.Standard") = getFloat(parts.ac, "TargetSoC.Standard")
      /\ getFloat(doc, "TargetSoC.Quick") = getFloat(parts.dc, "TargetSoC.Quick")
      /\ getFloat(doc, "RealTimePower") = getFloat(parts.power, "RealTimePower")
      /\ getFloat(doc, "Odometer") = getFloat(parts.odometer, "Odometer")
  BY CCS2Parts, CCS2Path, HomesCCS2
<1>2. /\ getFloat(doc, "DTE.Total") = getFloat(parts.range, "DTE.Total")
      /\ getInt(doc, "DTE.Unit") = getInt(parts.range, "DTE.Unit")
      /\ getInt(doc, "Charging.RemainTime") = getInt(parts.charge, "Charging.RemainTime")
      /\ getInt(doc, "ConnectorFastening.State") = getInt(parts.plug, "ConnectorFastening.State")
      /\ getInt(doc, "ChargingDoor.State") = getInt(parts.port, "ChargingDoor.State")
      /\ getFloat(doc, "Battery.Level") = getFloat(parts.aux, "Battery.Level")
      /\ getInt(doc, "Battery.SensorReliability") = getInt(parts.aux, "Battery.SensorReliability")
  BY CCS2Parts, CCS2Path, HomesCCS2
<1>3. /\ getFloat(doc, "OutsideTemperature.Value") = getFloat(parts.outside, "OutsideTemperature.Value")
      /\ getInt(doc, "OutsideTemperature.Unit") = getInt(parts.outside, "OutsideTemperature.Unit")
      /\ getFloat(doc, "Driver.Temperature.Value") = getFloat(parts.inside, "Driver.Temperature.Value")
      /\ getInt(doc, "Driver.Temperature.Unit") = getInt(parts.inside, "Driver.Temperature.Unit")
      /\ getString(doc, "Date") = getString(parts.date, "Date")
  BY CCS2Parts, CCS2Path, HomesCCS2
<1>4. allDoorsLocked(doc) = allDoorsLocked(parts.doors)
  <2>1. \A p \in LockPaths : getInt(doc, p) = getInt(parts.doors, p)
    BY CCS2Parts, CCS2Path, HomesCCS2
  <2> HIDE DEF doc
  <2> QED
    BY <2>1 DEF allDoorsLocked
<1>5. AnyFlag(doc, TirePaths) = AnyFlag(parts.tyres, TirePaths)
  <2>1. \A p \in TirePaths : getInt(doc, p) = getInt(parts.tyres, p)
    BY CCS2Parts, CCS2Path, HomesCCS2
  <2>2. {getInt(doc, p) : p \in TirePaths} = {getInt(parts.tyres, p) : p \in TirePaths}
    BY <2>1
  <2> HIDE DEF doc
  <2> QED
    BY <2>2 DEF AnyFlag
<1> HIDE DEF doc
<1>6. /\ st.ev_battery_percentage = value("ev_battery_percentage")
      /\ st.ev_battery_soh = value("ev_battery_soh")
      /\ st.charge_limit_ac = value("charge_limit_ac")
      /\ st.charge_limit_dc = value("charge_limit_dc")
      /\ st.charging_power = value("charging_power")
      /\ st.odometer = value("odometer")
  BY <1>1, CCS2Parts, PlainRead DEF parseCCS2
<1>7. st.est_fast_charge_time = value("est_fast_charge_time")
  BY <1>1, CCS2Parts, PlainRead DEF parseCCS2, getInt
<1>8. /\ st.ev_range = value("ev_range")
      /\ "ev_range" \in told => st.ev_range_unit = IF "ev_range" \in vague THEN "" ELSE car.unit
  <2>1. /\ getFloat(parts.range, "DTE.Total") = value("ev_range")
        /\ "ev_range" \in told =>
             distanceUnit(getInt(parts.range, "DTE.Unit")) = IF "ev_range" \in vague THEN "" ELSE car.unit
    BY CCS2Parts, RangeCCS2Read
  <2>2. /\ st.ev_range = getFloat(doc, "DTE.Total")
        /\ st.ev_range_unit = distanceUnit(getInt(doc, "DTE.Unit"))
    BY DEF parseCCS2
  <2> QED
    BY <1>2, <2>1, <2>2
<1>9. st.est_charge_time = value("est_charge_time")
  BY <1>2, CCS2Parts, ChargeCCS2Read DEF parseCCS2
<1>10. st.charging = value("charging")
  <2>1. st.charging = {m > 0 : m \in getInt(doc, "Charging.RemainTime")}
    BY DEF parseCCS2
  <2>2. /\ getInt(doc, "Charging.RemainTime") =
             IF "charging" \in told THEN {car.est_charge_time} ELSE Nil
    BY <1>2, CCS2Parts, ChargeCCS2Read
  <2>3. {m > 0 : m \in {car.est_charge_time}} = {car.est_charge_time > 0}
    BY Zenon
  <2>4. {m > 0 : m \in Nil} = Nil
    BY DEF Nil
  <2>5. car.charging = (car.est_charge_time > 0)
    BY DEF IsCar
  <2> QED
    BY <2>1, <2>2, <2>3, <2>4, <2>5
<1>11. st.plugged_in = value("plugged_in")
  BY <1>2, CCS2Parts, PlugCCS2Read DEF parseCCS2
<1>12. st.charge_port_door = value("charge_port_door")
  BY <1>2, CCS2Parts, PortCCS2Read DEF parseCCS2
<1>13. st.battery_12v = value("battery_12v")
  BY <1>2, CCS2Parts, AuxCCS2Read DEF parseCCS2
<1>14. st.outside_temp = value("outside_temp")
  BY <1>3, CCS2Parts, OutsideCCS2Read DEF parseCCS2
<1>15. st.inside_temp = value("inside_temp")
  BY <1>3, CCS2Parts, InsideCCS2Read DEF parseCCS2
<1>16. st.last_updated = value("last_updated")
  BY <1>3, CCS2Parts, DateCCS2Read DEF parseCCS2
<1>17. st.locked = value("locked")
  BY <1>4, CCS2Parts, DoorsCCS2Read, SMTT(30) DEF parseCCS2
<1>18. st.tire_warning = value("tire_warning")
  BY <1>5, CCS2Parts, TyresCCS2Read, ZenonT(60) DEF parseCCS2
<1>19. "odometer" \in told => st.odometer_unit = "km"
  <2>1. st.odometer_unit = IF st.odometer = Nil THEN "" ELSE "km"
    BY DEF parseCCS2
  <2> QED
    BY <1>6, <2>1 DEF Nil
<1> HIDE DEF st
<1>20. \A key \in Entities \union Metrics : st[key] = value(key)
  BY <1>6, <1>7, <1>8, <1>9, <1>10, <1>11, <1>12, <1>13, <1>14, <1>15, <1>16, <1>17, <1>18
     DEF Entities, Sensors, BinarySensors, Metrics
<1> QED
  BY <1>8, <1>19, <1>20 DEF Correct, st, doc

\* Every CCS2 group can be told, and no two tell the same.
LEMMA CCS2WellFormed ==
  ASSUME NEW car, IsCar(car)
  PROVE  WellFormed(CCS2Groups(car))
<1> DEFINE groups == CCS2Groups(car)
<1>1. DOMAIN groups = {"soc", "soh", "range", "charge", "quick", "plug", "port", "ac", "dc", "power", "aux", "odometer", "outside", "inside", "doors", "tyres", "date"}
  BY DEF CCS2Groups
<1>2. /\ groups.soc.tells = {"ev_battery_percentage"} /\ groups.soc.codes # {}
      /\ groups.soh.tells = {"ev_battery_soh"} /\ groups.soh.codes # {}
      /\ groups.quick.tells = {"est_fast_charge_time"} /\ groups.quick.codes # {}
      /\ groups.ac.tells = {"charge_limit_ac"} /\ groups.ac.codes # {}
      /\ groups.dc.tells = {"charge_limit_dc"} /\ groups.dc.codes # {}
      /\ groups.power.tells = {"charging_power"} /\ groups.power.codes # {}
      /\ groups.odometer.tells = {"odometer"} /\ groups.odometer.codes # {}
  BY DEF CCS2Groups, Plain, Group
<1>3. /\ groups.range.tells = {"ev_range"} /\ groups.range.codes # {}
      /\ groups.charge.tells = {"charging", "est_charge_time"} /\ groups.charge.codes # {}
      /\ groups.plug.tells = {"plugged_in"} /\ groups.plug.codes # {}
      /\ groups.port.tells = {"charge_port_door"} /\ groups.port.codes # {}
  BY DEF IsCar, UnitIndexes, CCS2Groups, Group, RangeCCS2, ChargeCCS2, PlugCCS2, PortCCS2
<1>4. /\ groups.aux.tells = {"battery_12v"} /\ groups.aux.codes # {}
      /\ groups.outside.tells = {"outside_temp"} /\ groups.outside.codes # {}
      /\ groups.inside.tells = {"inside_temp"} /\ groups.inside.codes # {}
  BY DEF IsCar, UnitIndexes, CCS2Groups, Group, AuxCCS2, OutsideCCS2, InsideCCS2
<1>5. /\ groups.doors.tells = {"locked"} /\ groups.doors.codes # {}
      /\ groups.date.tells = {"last_updated"} /\ groups.date.codes # {}
  BY DEF IsCar, UnitIndexes, CCS2Groups, Group, DoorsCCS2, DateCCS2
<1>6. groups.tyres.tells = {"tire_warning"} /\ groups.tyres.codes # {}
  <2>1. FlagsOf(TirePaths, car.lowTyres) # Empty
    BY EmptyDomain DEF FlagsOf, TirePaths
  <2>2. groups.tyres = TyresCCS2(car)
    BY DEF CCS2Groups
  <2> QED
    BY <2>1, <2>2 DEF TyresCCS2, Group
<1> HIDE DEF groups
<1>7. \A g \in DOMAIN groups : groups[g].codes # {}
  BY <1>1, <1>2, <1>3, <1>4, <1>5, <1>6
<1>8. ASSUME NEW g \in DOMAIN groups, NEW h \in DOMAIN groups, NEW key,
             key \in groups[g].tells, key \in groups[h].tells
      PROVE  g = h
  BY <1>1, <1>2, <1>3, <1>4, <1>5, <1>6, <1>8
<1> QED
  BY <1>7, <1>8 DEF WellFormed, groups

-----------------------------------------------------------------------------
(* CCS1, group by group.                                                   *)

\* The first entry of the distances.
FirstOf(pointer) == UNION {IF l = <<>> THEN Nil ELSE {Head(l)} : l \in pointer}

LEMMA FirstOfList ==
  /\ FirstOf(Nil) = Nil /\ FirstOf({<<>>}) = Nil
  /\ \A d : FirstOf({<<d>>}) = {d}
<1>1. \A d : <<d>> # <<>> /\ Head(<<d>>) = d
  OBVIOUS
<1> QED
  BY <1>1 DEF FirstOf, Nil

\* The range and its unit, from the first distance.
LEMMA RangeCCS1Read ==
  ASSUME NEW car, IsCar(car), NEW part, NEW told, NEW vague,
         Says(RangeCCS1(car), part, told, vague)
  PROVE  /\ UNION {getFloat(f, "totalAvailableRange.value") : f \in FirstOf(getList(part, "drvDistance"))}
              = IF "ev_range" \in told THEN {car.ev_range} ELSE Nil
         /\ "ev_range" \in told =>
              distanceUnit(UNION {getInt(f, "totalAvailableRange.unit")
                                  : f \in FirstOf(getList(part, "drvDistance"))})
                = IF "ev_range" \in vague THEN "" ELSE car.unit
         /\ DOMAIN part \subseteq {"drvDistance"}
<1> DEFINE p == "totalAvailableRange.value"
           q == "totalAvailableRange.unit"
           value == Field(p, Num(car.ev_range))
           unit(n) == Field(q, Num(n))
           dist(l) == Field("drvDistance", List(l))
           group == RangeCCS1(car)
           first(doc) == FirstOf(getList(doc, "drvDistance"))
           range(doc) == UNION {getFloat(f, p) : f \in first(doc)}
           index(doc) == UNION {getInt(f, q) : f \in first(doc)}
<1>1. /\ group.codes = {dist(<<Both(value, unit(i))>>) : i \in UnitIndexes(car.unit)}
      /\ group.blanks = {Empty, dist(<<>>), dist(<<unit(1)>>)}
      /\ group.vague = {dist(<<value>>), dist(<<Both(value, unit(0))>>)}
      /\ group.tells = {"ev_range"}
  BY DEF RangeCCS1
<1>2. p # q
  OBVIOUS
<1>3. \A l : getList(dist(l), "drvDistance") = {l} /\ DOMAIN dist(l) \subseteq {"drvDistance"}
  BY FieldList, FieldDomain
<1> HIDE DEF p, q, dist
<1>4. ASSUME NEW n
      PROVE  /\ getFloat(Both(value, unit(n)), p) = {car.ev_range}
             /\ getInt(Both(value, unit(n)), q) = {n}
  BY <1>2, FirstNum, SecondNum
<1>5. /\ getFloat(value, p) = {car.ev_range} /\ getInt(value, q) = Nil
      /\ getFloat(unit(1), p) = Nil
  BY <1>2, FieldNum, FieldOther
<1> HIDE DEF value, unit, group
<1>6. /\ first(Empty) = Nil /\ first(dist(<<>>)) = Nil
      /\ \A d : first(dist(<<d>>)) = {d}
  BY <1>3, EmptyReads, FirstOfList
<1> HIDE DEF first
<1>7. \A d : range(dist(<<d>>)) = getFloat(d, p) /\ index(dist(<<d>>)) = getInt(d, q)
  BY <1>6
<1>8. range(Empty) = Nil /\ range(dist(<<>>)) = Nil
  BY <1>6 DEF Nil
<1> HIDE DEF range, index
<1>9. Says(group, part, told, vague)
  BY DEF group
<1>10. DOMAIN part \subseteq {"drvDistance"}
  <2>1. part \in group.codes \union group.blanks \union group.vague
    BY <1>9 DEF Says
  <2> QED
    BY <1>1, <1>3, <2>1, EmptyDomain
<1>11. /\ range(part) = IF "ev_range" \in told THEN {car.ev_range} ELSE Nil
       /\ "ev_range" \in told =>
            distanceUnit(index(part)) = IF "ev_range" \in vague THEN "" ELSE car.unit
  <2>1. CASE part \in group.codes /\ "ev_range" \in told /\ "ev_range" \notin vague
    <3>1. PICK n \in UnitIndexes(car.unit) : part = dist(<<Both(value, unit(n))>>)
      BY <1>1, <2>1
    <3>2. (n = 1 /\ car.unit = "km") \/ (n = 2 /\ car.unit = "mi") \/ (n = 3 /\ car.unit = "mi")
      BY DEF IsCar, UnitIndexes
    <3>3. distanceUnit({n}) = car.unit
      BY <3>2, DistanceUnits
    <3> QED
      BY <1>4, <1>7, <2>1, <3>1, <3>3
  <2>2. CASE part \in group.blanks /\ "ev_range" \notin told
    BY <1>1, <1>5, <1>7, <1>8, <2>2
  <2>3. CASE part \in group.vague /\ "ev_range" \in told /\ "ev_range" \in vague
    <3>1. range(dist(<<value>>)) = {car.ev_range} /\ index(dist(<<value>>)) = Nil
      BY <1>5, <1>7
    <3>2. /\ range(dist(<<Both(value, unit(0))>>)) = {car.ev_range}
          /\ index(dist(<<Both(value, unit(0))>>)) = {0}
      BY <1>4, <1>7
    <3> QED
      BY <1>1, <2>3, <3>1, <3>2, DistanceUnits
  <2> QED
    BY <1>1, <1>9, <2>1, <2>2, <2>3 DEF Says
<1> QED
  BY <1>10, <1>11 DEF range, index, first, p, q

\* Charging is told by a boolean,
LEMMA ChargeCCS1Read ==
  ASSUME NEW car, IsCar(car), NEW part, NEW told, NEW vague,
         Says(ChargeCCS1(car), part, told, vague)
  PROVE  /\ getBool(part, "batteryCharge") = IF "charging" \in told THEN {car.charging} ELSE Nil
         /\ DOMAIN part \subseteq {"batteryCharge"}
<1>1. \/ part \in {Field("batteryCharge", Bool(car.charging))} /\ {"charging"} \subseteq told
      \/ part \in {Empty} /\ {"charging"} \intersect told = {}
  BY GroupSays DEF ChargeCCS1
<1>2. DOMAIN part \subseteq {"batteryCharge"}
  BY <1>1, FieldDomain, EmptyDomain
<1>3. car.charging \in BOOLEAN
  BY DEF IsCar
<1>4. getBool(Field("batteryCharge", Bool(car.charging)), "batteryCharge") = {car.charging}
  BY <1>3, FieldBool
<1> QED
  BY <1>1, <1>2, <1>4, EmptyReads

\* and so are the doors.
LEMMA DoorsCCS1Read ==
  ASSUME NEW car, IsCar(car), NEW part, NEW told, NEW vague,
         Says(DoorsCCS1(car), part, told, vague)
  PROVE  /\ getBool(part, "doorLock") = IF "locked" \in told THEN {car.locked} ELSE Nil
         /\ DOMAIN part \subseteq {"doorLock"}
<1>1. \/ part \in {Field("doorLock", Bool(car.locked))} /\ {"locked"} \subseteq told
      \/ part \in {Empty} /\ {"locked"} \intersect told = {}
  BY GroupSays DEF DoorsCCS1
<1>2. DOMAIN part \subseteq {"doorLock"}
  BY <1>1, FieldDomain, EmptyDomain
<1>3. car.locked \in BOOLEAN
  BY DEF IsCar
<1>4. getBool(Field("doorLock", Bool(car.locked)), "doorLock") = {car.locked}
  BY <1>3, FieldBool
<1> QED
  BY <1>1, <1>2, <1>4, EmptyReads

\* The plug is told by a number.
LEMMA PlugCCS1Read ==
  ASSUME NEW car, IsCar(car), NEW part, NEW told, NEW vague,
         Says(PlugCCS1(car), part, told, vague)
  PROVE  /\ NonZero(getInt(part, "batteryPlugin")) =
              IF "plugged_in" \in told THEN {car.plugged_in} ELSE Nil
         /\ DOMAIN part \subseteq {"batteryPlugin"}
<1> DEFINE numbers == IF car.plugged_in THEN {1, 2} ELSE {0}
           field(n) == Field("batteryPlugin", Num(n))
           codes == {field(n) : n \in numbers}
<1>1. PlugCCS1(car) = Group(codes, {Empty}, {"plugged_in"})
  BY DEF PlugCCS1
<1>2. \A n \in numbers : getInt(field(n), "batteryPlugin") = {n}
  BY FieldNum
<1> HIDE DEF codes, field
<1>3. \/ part \in codes /\ {"plugged_in"} \subseteq told
      \/ part \in {Empty} /\ {"plugged_in"} \intersect told = {}
  BY <1>1, GroupSays
<1>4. DOMAIN part \subseteq {"batteryPlugin"}
  BY <1>3, FieldDomain, EmptyDomain DEF codes, field
<1>5. CASE part \in codes /\ {"plugged_in"} \subseteq told
  <2>1. PICK n \in numbers : part = field(n)
    BY <1>5 DEF codes
  <2>2. (n \in {1, 2} /\ car.plugged_in = TRUE) \/ (n = 0 /\ car.plugged_in = FALSE)
    BY DEF IsCar
  <2>3. NonZero(getInt(part, "batteryPlugin")) = {car.plugged_in}
    BY <1>2, <2>1, <2>2, Flags
  <2> QED
    BY <1>4, <1>5, <2>3
<1>6. CASE part \in {Empty} /\ {"plugged_in"} \intersect told = {}
  BY <1>4, <1>6, EmptyReads, NonZeroOf
<1> QED
  BY <1>3, <1>5, <1>6

\* The 12 V battery.
LEMMA AuxCCS1Read ==
  ASSUME NEW car, IsCar(car), NEW part, NEW told, NEW vague,
         Says(AuxCCS1(car), part, told, vague)
  PROVE  /\ normalizeBatterySoC(getFloat(part, "batSoc"), Nil) =
              IF "battery_12v" \in told THEN {car.battery_12v} ELSE Nil
         /\ DOMAIN part \subseteq {"batSoc"}
<1> DEFINE field(n) == Field("batSoc", Num(n))
           soc(doc) == normalizeBatterySoC(getFloat(doc, "batSoc"), Nil)
<1>1. \A n : getFloat(field(n), "batSoc") = {n} /\ DOMAIN field(n) \subseteq {"batSoc"}
  BY FieldNum, FieldDomain
<1>2. AuxCCS1(car) = Group({field(car.battery_12v)}, {Empty, field(255)}, {"battery_12v"})
  BY DEF AuxCCS1
<1> HIDE DEF field
<1>3. \/ part \in {field(car.battery_12v)} /\ {"battery_12v"} \subseteq told
      \/ part \in {Empty, field(255)} /\ {"battery_12v"} \intersect told = {}
  BY <1>2, GroupSays
<1>4. Nil # {1}
  BY DEF Nil
<1>5. soc(field(car.battery_12v)) = {car.battery_12v}
  <2>1. car.battery_12v \in 0 .. 100
    BY DEF IsCar
  <2> QED
    BY <1>1, <1>4, <2>1 DEF normalizeBatterySoC
<1>6. soc(Empty) = Nil
  BY EmptyReads DEF normalizeBatterySoC, Nil
<1>7. soc(field(255)) = Nil
  BY <1>1 DEF normalizeBatterySoC, Nil
<1> HIDE DEF soc
<1>8. soc(part) = IF "battery_12v" \in told THEN {car.battery_12v} ELSE Nil
  BY <1>3, <1>5, <1>6, <1>7
<1>9. DOMAIN part \subseteq {"batSoc"}
  BY <1>1, <1>3, EmptyDomain
<1> QED
  BY <1>8, <1>9 DEF soc

\* An entry of targetSOClist.
LEMMA EntryRead ==
  ASSUME NEW level, NEW plug
  PROVE  /\ getFloat(Entry(level, plug), "targetSOClevel") = {level}
         /\ getInt(Entry(level, plug), "plugType") = {plug}
<1> DEFINE p == "targetSOClevel"
           q == "plugType"
<1>1. p # q
  OBVIOUS
<1>2. Entry(level, plug) = Both(Field(p, Num(level)), Field(q, Num(plug)))
  BY DEF Entry
<1> HIDE DEF p, q
<1>3. /\ getFloat(Entry(level, plug), p) = {level}
      /\ getInt(Entry(level, plug), q) = {plug}
  BY <1>1, <1>2, FirstNum, SecondNum
<1> QED
  BY <1>3 DEF p, q

\* The only entry for a plug type counts.
LEMMA OneHit ==
  ASSUME NEW list, NEW plug, NEW i \in DOMAIN list, i \in Int,
         getInt(list[i], "plugType") = {plug}, getFloat(list[i], "targetSOClevel") # Nil,
         \A j \in DOMAIN list : j # i => getInt(list[j], "plugType") # {plug}
  PROVE  TargetSoC(list, plug) = getFloat(list[i], "targetSOClevel")
<1> DEFINE hits == {j \in DOMAIN list : /\ getInt(list[j], "plugType") = {plug}
                                        /\ getFloat(list[j], "targetSOClevel") # Nil}
<1>1. hits = {i}
  OBVIOUS
<1>2. Max({i}) = i
  BY DEF Max
<1>3. TargetSoC(list, plug) =
        IF hits = {} THEN Nil ELSE getFloat(list[Max(hits)], "targetSOClevel")
  BY DEF TargetSoC
<1> HIDE DEF hits
<1> QED
  BY <1>1, <1>2, <1>3

\* The charge limits, in any order, with or without an entry that says nothing.
LEMMA LimitsCCS1Read ==
  ASSUME NEW car, NEW part, NEW told, NEW vague, Says(LimitsCCS1(car), part, told, vague)
  PROVE  /\ UNION {TargetSoC(l, 1) : l \in getList(part, "targetSOClist")} =
              IF "charge_limit_ac" \in told THEN {car.charge_limit_ac} ELSE Nil
         /\ UNION {TargetSoC(l, 0) : l \in getList(part, "targetSOClist")} =
              IF "charge_limit_dc" \in told THEN {car.charge_limit_dc} ELSE Nil
         /\ DOMAIN part \subseteq {"targetSOClist"}
<1> DEFINE ac == Entry(car.charge_limit_ac, 1)
           dc == Entry(car.charge_limit_dc, 0)
           half == Field("plugType", Num(0))
           lists == {<<dc, ac>>, <<ac, dc>>, <<Empty, dc, ac>>}
           field(l) == Field("targetSOClist", List(l))
           codes == {field(l) : l \in lists}
           blanks == {Empty, field(<<half>>)}
           tells == {"charge_limit_ac", "charge_limit_dc"}
<1>1. LimitsCCS1(car) = Group(codes, blanks, tells)
  BY DEF LimitsCCS1
<1>2. \A l : getList(field(l), "targetSOClist") = {l} /\ DOMAIN field(l) \subseteq {"targetSOClist"}
  BY FieldList, FieldDomain
<1>3. /\ getFloat(ac, "targetSOClevel") = {car.charge_limit_ac} /\ getInt(ac, "plugType") = {1}
      /\ getFloat(dc, "targetSOClevel") = {car.charge_limit_dc} /\ getInt(dc, "plugType") = {0}
      /\ getInt(Empty, "plugType") = Nil
  BY EntryRead, EmptyReads
<1>4. getFloat(half, "targetSOClevel") = Nil
  BY FieldOther
<1>5. {0} # {1} /\ Nil # {0} /\ Nil # {1} /\ {car.charge_limit_ac} # Nil /\ {car.charge_limit_dc} # Nil
  <2>1. 0 \notin {1} /\ 0 \in {0}
    OBVIOUS
  <2> QED
    BY <2>1 DEF Nil
<1> HIDE DEF ac, dc, half, field
<1>6. ASSUME NEW l \in lists
      PROVE  TargetSoC(l, 1) = {car.charge_limit_ac} /\ TargetSoC(l, 0) = {car.charge_limit_dc}
  <2>1. CASE l = <<dc, ac>>
    <3>1. DOMAIN l = {1, 2} /\ l[1] = dc /\ l[2] = ac
      BY <2>1
    <3>2. TargetSoC(l, 1) = getFloat(l[2], "targetSOClevel")
      BY <1>3, <1>5, <3>1, OneHit
    <3>3. TargetSoC(l, 0) = getFloat(l[1], "targetSOClevel")
      BY <1>3, <1>5, <3>1, OneHit
    <3> QED
      BY <1>3, <3>1, <3>2, <3>3
  <2>2. CASE l = <<ac, dc>>
    <3>1. DOMAIN l = {1, 2} /\ l[1] = ac /\ l[2] = dc
      BY <2>2
    <3>2. TargetSoC(l, 1) = getFloat(l[1], "targetSOClevel")
      BY <1>3, <1>5, <3>1, OneHit
    <3>3. TargetSoC(l, 0) = getFloat(l[2], "targetSOClevel")
      BY <1>3, <1>5, <3>1, OneHit
    <3> QED
      BY <1>3, <3>1, <3>2, <3>3
  <2>3. CASE l = <<Empty, dc, ac>>
    <3>1. DOMAIN l = {1, 2, 3} /\ l[1] = Empty /\ l[2] = dc /\ l[3] = ac
      BY <2>3
    <3>2. TargetSoC(l, 1) = getFloat(l[3], "targetSOClevel")
      BY <1>3, <1>5, <3>1, OneHit
    <3>3. TargetSoC(l, 0) = getFloat(l[2], "targetSOClevel")
      BY <1>3, <1>5, <3>1, OneHit
    <3> QED
      BY <1>3, <3>1, <3>2, <3>3
  <2> QED
    BY <2>1, <2>2, <2>3
<1>7. TargetSoC(<<half>>, 1) = Nil /\ TargetSoC(<<half>>, 0) = Nil
  BY <1>4 DEF TargetSoC
<1>8. \/ part \in codes /\ tells \subseteq told
      \/ part \in blanks /\ tells \intersect told = {}
  <2> HIDE DEF codes, blanks, tells
  <2> QED
    BY <1>1, GroupSays
<1>9. DOMAIN part \subseteq {"targetSOClist"}
  BY <1>2, <1>8, EmptyDomain
<1> DEFINE limit(doc, plug) == UNION {TargetSoC(l, plug) : l \in getList(doc, "targetSOClist")}
<1>10. CASE part \in codes /\ tells \subseteq told
  <2>1. PICK l \in lists : part = field(l)
    BY <1>10
  <2>2. getList(part, "targetSOClist") = {l}
    BY <1>2, <2>1
  <2>3. limit(part, 1) = TargetSoC(l, 1) /\ limit(part, 0) = TargetSoC(l, 0)
    BY <2>2
  <2> QED
    BY <1>6, <1>9, <1>10, <2>3
<1>11. CASE part \in blanks /\ tells \intersect told = {}
  <2>1. getList(part, "targetSOClist") \in {Nil, {<<half>>}}
    BY <1>2, <1>11, EmptyReads
  <2>2. limit(part, 1) = Nil /\ limit(part, 0) = Nil
    BY <1>7, <2>1 DEF Nil
  <2> QED
    BY <1>9, <1>11, <2>2
<1> QED
  BY <1>8, <1>10, <1>11

\* The tyres: the lamp for all of them, or each of its own.
LEMMA TyresCCS1Read ==
  ASSUME NEW car, IsCar(car), NEW part, NEW told, NEW vague,
         Says(TyresCCS1(car), part, told, vague)
  PROVE  /\ AnyFlag(part, LampPaths) = IF "tire_warning" \in told THEN {car.tire_warning} ELSE Nil
         /\ DOMAIN part \subseteq LampPaths
<1> DEFINE low == IF car.tire_warning THEN {"tirePressureLampRL"} ELSE {}
           all == Field("tirePressureLampAll", Flag(car.tire_warning))
           each == FlagsOf(LampPaths, low)
           seen(doc) == UNION {getInt(doc, p) : p \in LampPaths}
<1>1. TyresCCS1(car) = Group({all, each}, {Empty}, {"tire_warning"})
  BY DEF TyresCCS1
<1>2. "tirePressureLampAll" \in LampPaths /\ "tirePressureLampRL" \in LampPaths
  BY DEF LampPaths
<1>3. car.tire_warning \in BOOLEAN
  BY DEF IsCar
<1>4. AnyFlag(all, LampPaths) = {car.tire_warning}
  <2> DEFINE n == IF car.tire_warning THEN 1 ELSE 0
  <2>1. all = Field("tirePressureLampAll", Num(n))
    BY DEF Flag
  <2> HIDE DEF n, all
  <2>2. /\ getInt(all, "tirePressureLampAll") = {n}
        /\ \A p \in LampPaths : p # "tirePressureLampAll" => getInt(all, p) = Nil
    BY <2>1, FieldNum, FieldOther
  <2>3. seen(all) = {n}
    BY <1>2, <2>2 DEF Nil
  <2>4. AnyFlag(all, LampPaths) = {\E v \in {n} : v # 0}
    BY <2>3 DEF AnyFlag
  <2>5. (\E v \in {n} : v # 0) = car.tire_warning
    <3>1. (\E v \in {n} : v # 0) <=> car.tire_warning = TRUE
      BY <1>3 DEF n
    <3> QED
      BY <1>3, <3>1
  <2> QED
    BY <2>4, <2>5
<1>5. AnyFlag(each, LampPaths) = {car.tire_warning}
  <2>1. \A p \in LampPaths : getInt(each, p) = {IF p \in low THEN 1 ELSE 0}
    BY FlagsRead
  <2> HIDE DEF each
  <2>2. seen(each) # {}
    BY <1>2, <2>1
  <2>3. (\E v \in seen(each) : v # 0) = car.tire_warning
    <3>1. (\E v \in seen(each) : v # 0) <=> low # {}
      BY <1>2, <2>1
    <3>2. low # {} <=> car.tire_warning = TRUE
      BY <1>3
    <3> QED
      BY <1>3, <3>1, <3>2
  <2>4. AnyFlag(each, LampPaths) = {\E v \in seen(each) : v # 0}
    BY <2>2 DEF AnyFlag
  <2> QED
    BY <2>3, <2>4
<1>6. AnyFlag(Empty, LampPaths) = Nil
  <2>1. seen(Empty) = {}
    BY EmptyReads DEF Nil
  <2> QED
    BY <2>1 DEF AnyFlag
<1>7. DOMAIN all \subseteq LampPaths /\ DOMAIN each \subseteq LampPaths
  BY <1>2 DEF Field, FlagsOf
<1> HIDE DEF all, each
<1>8. \/ part \in {all, each} /\ {"tire_warning"} \subseteq told
      \/ part \in {Empty} /\ {"tire_warning"} \intersect told = {}
  BY <1>1, GroupSays
<1>9. DOMAIN part \subseteq LampPaths
  BY <1>7, <1>8, EmptyDomain
<1> QED
  BY <1>4, <1>5, <1>6, <1>8, <1>9

\* The date, in either layout parseBluelinkTime knows.
LEMMA DateCCS1Read ==
  ASSUME NEW car, NEW part, NEW told, NEW vague, Says(DateCCS1(car), part, told, vague)
  PROVE  /\ parseBluelinkTime(getString(part, "time"))
              = IF "last_updated" \in told THEN {car.last_updated} ELSE Nil
         /\ DOMAIN part \subseteq {"time"}
<1> DEFINE layouts == {"compact", "rfc3339"}
           date(d) == Field("time", Str(d))
           codes == {date(<<l, car.last_updated>>) : l \in layouts}
           read(doc) == parseBluelinkTime(getString(doc, "time"))
<1>1. DateCCS1(car) = Group(codes, {Empty, date(<<"other", 0>>)}, {"last_updated"})
  BY DEF DateCCS1
<1>2. ASSUME NEW d PROVE getString(date(d), "time") = {d}
  BY FieldStr
<1>3. ASSUME NEW l \in layouts PROVE parseBluelinkTime({<<l, car.last_updated>>}) = {car.last_updated}
  <2> DEFINE d == <<l, car.last_updated>>
  <2>1. d[1] \in layouts /\ d[2] = car.last_updated
    OBVIOUS
  <2> HIDE DEF d
  <2>2. parseBluelinkTime({d}) = {d[2]}
    BY <2>1 DEF parseBluelinkTime
  <2> QED
    BY <2>1, <2>2 DEF d
<1>4. parseBluelinkTime({<<"other", 0>>}) = Nil /\ parseBluelinkTime(Nil) = Nil
  BY DEF parseBluelinkTime, Nil
<1> HIDE DEF date
<1>5. \A d \in codes : read(d) = {car.last_updated}
  <2>1. ASSUME NEW l \in layouts PROVE read(date(<<l, car.last_updated>>)) = {car.last_updated}
    BY <1>2, <1>3
  <2> HIDE DEF read, layouts
  <2> QED
    BY <2>1
<1>6. read(date(<<"other", 0>>)) = Nil /\ read(Empty) = Nil
  BY <1>2, <1>4, EmptyReads
<1> HIDE DEF codes, read
<1>7. \/ part \in codes /\ {"last_updated"} \subseteq told
      \/ part \in {Empty, date(<<"other", 0>>)} /\ {"last_updated"} \intersect told = {}
  BY <1>1, GroupSays
<1>8. read(part) = IF "last_updated" \in told THEN {car.last_updated} ELSE Nil
  BY <1>5, <1>6, <1>7
<1>9. DOMAIN part \subseteq {"time"}
  BY <1>7, FieldDomain, EmptyDomain DEF codes, date
<1> QED
  BY <1>8, <1>9 DEF read

\* The odometer, and its own unit.
LEMMA OdometerRead ==
  ASSUME NEW car, NEW part, NEW told, NEW vague, Says(CCS1Odometer(car), part, told, vague)
  PROVE  /\ getFloat(part, "value") = IF "odometer" \in told THEN {car.odometer} ELSE Nil
         /\ "odometer" \in told \ vague => distanceUnit(getInt(part, "unit")) = "km"
<1> DEFINE p == "value"
           q == "unit"
           value == Field(p, Num(car.odometer))
           both == Both(value, Field(q, Num(1)))
           group == CCS1Odometer(car)
<1>1. /\ group.codes = {both} /\ group.blanks = {Empty} /\ group.vague = {value}
      /\ group.tells = {"odometer"}
  BY DEF CCS1Odometer
<1>2. p # q
  OBVIOUS
<1> HIDE DEF p, q
<1>3. /\ getFloat(both, p) = {car.odometer} /\ getInt(both, q) = {1}
      /\ getFloat(value, p) = {car.odometer}
  BY <1>2, FirstNum, SecondNum, FieldNum
<1> HIDE DEF value, both, group
<1>4. Says(group, part, told, vague)
  BY DEF group
<1>5. /\ getFloat(part, p) = IF "odometer" \in told THEN {car.odometer} ELSE Nil
      /\ "odometer" \in told \ vague => distanceUnit(getInt(part, q)) = "km"
  BY <1>1, <1>3, <1>4, EmptyReads, DistanceUnits DEF Says
<1> QED
  BY <1>5 DEF p, q

-----------------------------------------------------------------------------
(* CCS1, the whole document.                                               *)

HomeCCS1(p) ==
  CASE p = "batteryStatus" -> "soc"
    [] p = "atc.value" -> "time"
    [] p = "etc3.value" -> "quick"
    [] p = "drvDistance" -> "range"
    [] p = "batteryCharge" -> "charge"
    [] p = "batteryPlugin" -> "plug"
    [] p = "targetSOClist" -> "limits"
    [] p = "batSoc" -> "aux"
    [] p = "doorLock" -> "doors"
    [] p = "time" -> "date"
    [] p \in LampPaths -> "tyres"
    [] OTHER -> "none"

LEMMA HomesCCS1 ==
  /\ \A p \in LampPaths : HomeCCS1(p) = "tyres"
  /\ HomeCCS1("batteryStatus") = "soc"
  /\ HomeCCS1("atc.value") = "time"
  /\ HomeCCS1("etc3.value") = "quick"
  /\ HomeCCS1("drvDistance") = "range"
  /\ HomeCCS1("batteryCharge") = "charge"
  /\ HomeCCS1("batteryPlugin") = "plug"
  /\ HomeCCS1("targetSOClist") = "limits"
  /\ HomeCCS1("batSoc") = "aux"
  /\ HomeCCS1("doorLock") = "doors"
  /\ HomeCCS1("time") = "date"
BY DEF HomeCCS1, LampPaths

\* What the parts of a CCS1 document say.
LEMMA CCS1Parts ==
  ASSUME NEW car, NEW parts, NEW told, NEW vague, Composed(CCS1Groups(car), parts, told, vague)
  PROVE  /\ DOMAIN parts = {"soc", "range", "charge", "time", "quick", "plug", "limits", "aux", "doors", "tyres", "date"}
         /\ Says(Plain("batteryStatus", car.ev_battery_percentage, "ev_battery_percentage"), parts.soc, told, vague)
         /\ Says(Plain("atc.value", car.est_charge_time, "est_charge_time"), parts.time, told, vague)
         /\ Says(Plain("etc3.value", car.est_fast_charge_time, "est_fast_charge_time"), parts.quick, told, vague)
         /\ Says(RangeCCS1(car), parts.range, told, vague)
         /\ Says(ChargeCCS1(car), parts.charge, told, vague)
         /\ Says(PlugCCS1(car), parts.plug, told, vague)
         /\ Says(LimitsCCS1(car), parts.limits, told, vague)
         /\ Says(AuxCCS1(car), parts.aux, told, vague)
         /\ Says(DoorsCCS1(car), parts.doors, told, vague)
         /\ Says(DateCCS1(car), parts.date, told, vague)
         /\ Says(TyresCCS1(car), parts.tyres, told, vague)
<1> DEFINE groups == CCS1Groups(car)
<1>1. DOMAIN groups = {"soc", "range", "charge", "time", "quick", "plug", "limits", "aux", "doors", "tyres", "date"}
  BY DEF CCS1Groups
<1>2. /\ groups.soc = Plain("batteryStatus", car.ev_battery_percentage, "ev_battery_percentage")
      /\ groups.time = Plain("atc.value", car.est_charge_time, "est_charge_time")
      /\ groups.quick = Plain("etc3.value", car.est_fast_charge_time, "est_fast_charge_time")
      /\ groups.range = RangeCCS1(car)
      /\ groups.charge = ChargeCCS1(car)
      /\ groups.plug = PlugCCS1(car)
      /\ groups.limits = LimitsCCS1(car)
      /\ groups.aux = AuxCCS1(car)
      /\ groups.doors = DoorsCCS1(car)
      /\ groups.date = DateCCS1(car)
      /\ groups.tyres = TyresCCS1(car)
  BY DEF CCS1Groups
<1> HIDE DEF groups
<1>3. DOMAIN parts = DOMAIN groups /\ \A g \in DOMAIN groups : Says(groups[g], parts[g], told, vague)
  BY DEF Composed, groups
<1> QED
  BY <1>1, <1>2, <1>3

\* Every path of a part belongs to the part's group.
LEMMA CCS1Homes ==
  ASSUME NEW car, IsCar(car), NEW parts, NEW told, NEW vague,
         Composed(CCS1Groups(car), parts, told, vague)
  PROVE  \A g \in DOMAIN parts : \A p \in DOMAIN parts[g] : HomeCCS1(p) = g
<1>1. /\ DOMAIN parts.soc \subseteq {"batteryStatus"} /\ DOMAIN parts.time \subseteq {"atc.value"}
      /\ DOMAIN parts.quick \subseteq {"etc3.value"}
  BY CCS1Parts, PlainRead
<1>2. /\ DOMAIN parts.range \subseteq {"drvDistance"} /\ DOMAIN parts.charge \subseteq {"batteryCharge"}
      /\ DOMAIN parts.plug \subseteq {"batteryPlugin"}
  <2>1. DOMAIN parts.range \subseteq {"drvDistance"}
    <3>1. Says(RangeCCS1(car), parts.range, told, vague)
      BY CCS1Parts
    <3> QED
      BY <3>1, RangeCCS1Read
  <2> QED
    BY <2>1, CCS1Parts, ChargeCCS1Read, PlugCCS1Read
<1>3. /\ DOMAIN parts.limits \subseteq {"targetSOClist"} /\ DOMAIN parts.aux \subseteq {"batSoc"}
      /\ DOMAIN parts.doors \subseteq {"doorLock"}
  BY CCS1Parts, LimitsCCS1Read, AuxCCS1Read, DoorsCCS1Read
<1>4. DOMAIN parts.tyres \subseteq LampPaths /\ DOMAIN parts.date \subseteq {"time"}
  BY CCS1Parts, TyresCCS1Read, DateCCS1Read
<1>5. DOMAIN parts = {"soc", "range", "charge", "time", "quick", "plug", "limits", "aux", "doors", "tyres", "date"}
  BY CCS1Parts
<1> QED
  BY <1>1, <1>2, <1>3, <1>4, <1>5, HomesCCS1

\* A path is read as the part of its group has it.
LEMMA CCS1Path ==
  ASSUME NEW car, IsCar(car), NEW parts, NEW told, NEW vague,
         Composed(CCS1Groups(car), parts, told, vague),
         NEW path, HomeCCS1(path) \in DOMAIN parts
  PROVE  /\ getFloat(Merged(parts), path) = getFloat(parts[HomeCCS1(path)], path)
         /\ getInt(Merged(parts), path) = getInt(parts[HomeCCS1(path)], path)
         /\ getString(Merged(parts), path) = getString(parts[HomeCCS1(path)], path)
         /\ getBool(Merged(parts), path) = getBool(parts[HomeCCS1(path)], path)
         /\ getList(Merged(parts), path) = getList(parts[HomeCCS1(path)], path)
<1>1. getPath(Merged(parts), path) = getPath(parts[HomeCCS1(path)], path)
  BY CCS1Homes, MergedPath
<1> QED
  BY <1>1, SamePath

\* What the CCS1 groups tell; each can be told.
LEMMA CCS1Tells ==
  ASSUME NEW car, IsCar(car)
  PROVE  LET groups == CCS1Groups(car)
         IN  /\ DOMAIN groups = {"soc", "range", "charge", "time", "quick", "plug", "limits", "aux", "doors", "tyres", "date"}
             /\ groups.soc.tells = {"ev_battery_percentage"} /\ groups.soc.codes # {}
             /\ groups.time.tells = {"est_charge_time"} /\ groups.time.codes # {}
             /\ groups.quick.tells = {"est_fast_charge_time"} /\ groups.quick.codes # {}
             /\ groups.range.tells = {"ev_range"} /\ groups.range.codes # {}
             /\ groups.charge.tells = {"charging"} /\ groups.charge.codes # {}
             /\ groups.plug.tells = {"plugged_in"} /\ groups.plug.codes # {}
             /\ groups.limits.tells = {"charge_limit_ac", "charge_limit_dc"} /\ groups.limits.codes # {}
             /\ groups.aux.tells = {"battery_12v"} /\ groups.aux.codes # {}
             /\ groups.doors.tells = {"locked"} /\ groups.doors.codes # {}
             /\ groups.tyres.tells = {"tire_warning"} /\ groups.tyres.codes # {}
             /\ groups.date.tells = {"last_updated"} /\ groups.date.codes # {}
<1> DEFINE groups == CCS1Groups(car)
<1>1. DOMAIN groups = {"soc", "range", "charge", "time", "quick", "plug", "limits", "aux", "doors", "tyres", "date"}
  BY DEF CCS1Groups
<1>2. /\ groups.soc.tells = {"ev_battery_percentage"} /\ groups.soc.codes # {}
      /\ groups.time.tells = {"est_charge_time"} /\ groups.time.codes # {}
      /\ groups.quick.tells = {"est_fast_charge_time"} /\ groups.quick.codes # {}
  BY DEF IsCar, CCS1Groups, Group, Plain
<1>3. /\ groups.range.tells = {"ev_range"} /\ groups.range.codes # {}
      /\ groups.charge.tells = {"charging"} /\ groups.charge.codes # {}
      /\ groups.plug.tells = {"plugged_in"} /\ groups.plug.codes # {}
  BY DEF IsCar, CCS1Groups, Group, RangeCCS1, ChargeCCS1, PlugCCS1, UnitIndexes
<1>4. /\ groups.limits.tells = {"charge_limit_ac", "charge_limit_dc"} /\ groups.limits.codes # {}
      /\ groups.aux.tells = {"battery_12v"} /\ groups.aux.codes # {}
      /\ groups.doors.tells = {"locked"} /\ groups.doors.codes # {}
  BY DEF IsCar, CCS1Groups, Group, LimitsCCS1, AuxCCS1, DoorsCCS1
<1>5. /\ groups.tyres.tells = {"tire_warning"} /\ groups.tyres.codes # {}
      /\ groups.date.tells = {"last_updated"} /\ groups.date.codes # {}
  BY DEF IsCar, CCS1Groups, Group, TyresCCS1, DateCCS1
<1> QED
  BY <1>1, <1>2, <1>3, <1>4, <1>5

LEMMA CCS1AllTells ==
  ASSUME NEW car, IsCar(car)
  PROVE  AllTells(CCS1Groups(car)) =
           {"ev_battery_percentage", "est_charge_time", "est_fast_charge_time", "ev_range", "charging",
            "plugged_in", "charge_limit_ac", "charge_limit_dc", "battery_12v", "locked",
            "tire_warning", "last_updated"}
<1> DEFINE groups == CCS1Groups(car)
<1> HIDE DEF groups
<1>1. /\ DOMAIN groups = {"soc", "range", "charge", "time", "quick", "plug", "limits", "aux", "doors", "tyres", "date"}
      /\ groups.soc.tells = {"ev_battery_percentage"}
      /\ groups.time.tells = {"est_charge_time"}
      /\ groups.quick.tells = {"est_fast_charge_time"}
      /\ groups.range.tells = {"ev_range"}
      /\ groups.charge.tells = {"charging"}
      /\ groups.plug.tells = {"plugged_in"}
      /\ groups.limits.tells = {"charge_limit_ac", "charge_limit_dc"}
      /\ groups.aux.tells = {"battery_12v"}
      /\ groups.doors.tells = {"locked"}
      /\ groups.tyres.tells = {"tire_warning"}
      /\ groups.date.tells = {"last_updated"}
  BY CCS1Tells DEF groups
<1>2. AllTells(groups) =
        groups.soc.tells \union groups.time.tells \union groups.quick.tells \union groups.range.tells
          \union groups.charge.tells \union groups.plug.tells \union groups.limits.tells
          \union groups.aux.tells \union groups.doors.tells \union groups.tyres.tells
          \union groups.date.tells
  BY <1>1 DEF AllTells
<1>3. AllTells(groups) =
        {"ev_battery_percentage", "est_charge_time", "est_fast_charge_time", "ev_range", "charging",
         "plugged_in", "charge_limit_ac", "charge_limit_dc", "battery_12v", "locked",
         "tire_warning", "last_updated"}
  BY <1>1, <1>2
<1> QED
  BY <1>3 DEF groups

\* Every CCS1 group can be told, and no two tell the same; the odometer neither.
LEMMA CCS1WellFormed ==
  ASSUME NEW car, IsCar(car)
  PROVE  WellFormed(CCS1Groups(car)) /\ WellFormed([odo |-> CCS1Odometer(car)]) /\ WellFormed(Empty)
<1> DEFINE groups == CCS1Groups(car)
<1> HIDE DEF groups
<1>1. /\ DOMAIN groups = {"soc", "range", "charge", "time", "quick", "plug", "limits", "aux", "doors", "tyres", "date"}
      /\ groups.soc.tells = {"ev_battery_percentage"} /\ groups.soc.codes # {}
      /\ groups.time.tells = {"est_charge_time"} /\ groups.time.codes # {}
      /\ groups.quick.tells = {"est_fast_charge_time"} /\ groups.quick.codes # {}
      /\ groups.range.tells = {"ev_range"} /\ groups.range.codes # {}
      /\ groups.charge.tells = {"charging"} /\ groups.charge.codes # {}
      /\ groups.plug.tells = {"plugged_in"} /\ groups.plug.codes # {}
      /\ groups.limits.tells = {"charge_limit_ac", "charge_limit_dc"} /\ groups.limits.codes # {}
      /\ groups.aux.tells = {"battery_12v"} /\ groups.aux.codes # {}
      /\ groups.doors.tells = {"locked"} /\ groups.doors.codes # {}
      /\ groups.tyres.tells = {"tire_warning"} /\ groups.tyres.codes # {}
      /\ groups.date.tells = {"last_updated"} /\ groups.date.codes # {}
  BY CCS1Tells DEF groups
<1>2. \A g \in DOMAIN groups : groups[g].codes # {}
  BY <1>1
<1>3. ASSUME NEW g \in DOMAIN groups, NEW h \in DOMAIN groups, NEW key,
             key \in groups[g].tells, key \in groups[h].tells
      PROVE  g = h
  BY <1>1, <1>3
<1>4. WellFormed(groups)
  BY <1>2, <1>3 DEF WellFormed
<1>5. WellFormed([odo |-> CCS1Odometer(car)])
  BY DEF WellFormed, CCS1Odometer
<1>6. WellFormed(Empty)
  BY EmptyDomain DEF WellFormed
<1> QED
  BY <1>4, <1>5, <1>6 DEF groups

\* What parseCCS1 is given, and an odometer that tells of the car what it claims to.
InfoOf(parts, loc, odo) ==
  [vehicleStatus |-> {Merged(parts)}, vehicleLocation |-> loc, odometer |-> odo]
OdometerTells(odo, car, told, vague) ==
  /\ getFloat(odo, "value") = IF "odometer" \in told THEN {car.odometer} ELSE Nil
  /\ "odometer" \in told \ vague => distanceUnit(getInt(odo, "unit")) = "km"
  /\ told \subseteq {"odometer"} /\ vague \subseteq told

\* parseCCS1 reads of every CCS1 document, and of the odometer next to it, exactly
\* what they tell.
THEOREM CCS1Faithful ==
  ASSUME NEW car, IsCar(car), NEW parts, NEW told, NEW vague,
         Composed(CCS1Groups(car), parts, told, vague),
         NEW loc, NEW odo, NEW otold, NEW ovague, OdometerTells(odo, car, otold, ovague),
         NEW st \in parseCCS1(InfoOf(parts, loc, odo))
  PROVE  /\ Correct(st, car, told \union otold, vague \union ovague)
         /\ st.position = PositionCCS1(loc)
<1> DEFINE doc == Merged(parts)
           all == told \union otold
           value(key) == IF key \in all THEN {car[key]} ELSE Nil
           first == FirstOf(getList(doc, "drvDistance"))
           limit(plug) == UNION {TargetSoC(l, plug) : l \in getList(doc, "targetSOClist")}
<1>1. /\ getFloat(doc, "batteryStatus") = getFloat(parts.soc, "batteryStatus")
      /\ getInt(doc, "atc.value") = getInt(parts.time, "atc.value")
      /\ getInt(doc, "etc3.value") = getInt(parts.quick, "etc3.value")
      /\ getList(doc, "drvDistance") = getList(parts.range, "drvDistance")
      /\ getBool(doc, "batteryCharge") = getBool(parts.charge, "batteryCharge")
      /\ getInt(doc, "batteryPlugin") = getInt(parts.plug, "batteryPlugin")
      /\ getList(doc, "targetSOClist") = getList(parts.limits, "targetSOClist")
      /\ getFloat(doc, "batSoc") = getFloat(parts.aux, "batSoc")
      /\ getBool(doc, "doorLock") = getBool(parts.doors, "doorLock")
      /\ getString(doc, "time") = getString(parts.date, "time")
  BY CCS1Parts, CCS1Path, HomesCCS1
<1>2. AnyFlag(doc, LampPaths) = AnyFlag(parts.tyres, LampPaths)
  <2>1. \A p \in LampPaths : getInt(doc, p) = getInt(parts.tyres, p)
    BY CCS1Parts, CCS1Path, HomesCCS1
  <2>2. {getInt(doc, p) : p \in LampPaths} = {getInt(parts.tyres, p) : p \in LampPaths}
    BY <2>1
  <2> HIDE DEF doc
  <2> QED
    BY <2>2 DEF AnyFlag
<1> HIDE DEF doc
<1> DEFINE parsed ==
          [ev_battery_percentage |-> getFloat(doc, "batteryStatus"),
          ev_battery_soh |-> Nil,
          ev_range |-> UNION {getFloat(f, "totalAvailableRange.value") : f \in first},
          ev_range_unit |-> distanceUnit(UNION {getInt(f, "totalAvailableRange.unit") : f \in first}),
          charging |-> getBool(doc, "batteryCharge"),
          est_charge_time |-> getInt(doc, "atc.value"),
          est_fast_charge_time |-> getInt(doc, "etc3.value"),
          plugged_in |-> NonZero(getInt(doc, "batteryPlugin")),
          charge_port_door |-> Nil,
          charge_limit_ac |-> limit(1),
          charge_limit_dc |-> limit(0),
          charging_power |-> Nil,
          battery_12v |-> normalizeBatterySoC(getFloat(doc, "batSoc"), Nil),
          odometer |-> getFloat(odo, "value"),
          odometer_unit |-> distanceUnit(getInt(odo, "unit")),
          outside_temp |-> Nil,
          inside_temp |-> Nil,
          locked |-> getBool(doc, "doorLock"),
          tire_warning |-> AnyFlag(doc, LampPaths),
          position |-> PositionCCS1(loc),
          last_updated |-> parseBluelinkTime(getString(doc, "time"))]
<1>3. st = parsed
  <2>1. parseCCS1(InfoOf(parts, loc, odo)) = {parsed}
    BY DEF parseCCS1, FirstOf, InfoOf, doc
  <2> HIDE DEF parsed
  <2> QED
    BY <2>1
<1> HIDE DEF first, limit
<1>4. /\ st.ev_battery_percentage = getFloat(doc, "batteryStatus") /\ st.ev_battery_soh = Nil
      /\ st.ev_range = UNION {getFloat(f, "totalAvailableRange.value") : f \in first}
      /\ st.ev_range_unit = distanceUnit(UNION {getInt(f, "totalAvailableRange.unit") : f \in first})
      /\ st.charging = getBool(doc, "batteryCharge") /\ st.est_charge_time = getInt(doc, "atc.value")
      /\ st.est_fast_charge_time = getInt(doc, "etc3.value")
      /\ st.plugged_in = NonZero(getInt(doc, "batteryPlugin")) /\ st.charge_port_door = Nil
      /\ st.charge_limit_ac = limit(1) /\ st.charge_limit_dc = limit(0) /\ st.charging_power = Nil
      /\ st.battery_12v = normalizeBatterySoC(getFloat(doc, "batSoc"), Nil)
      /\ st.odometer = getFloat(odo, "value") /\ st.odometer_unit = distanceUnit(getInt(odo, "unit"))
      /\ st.outside_temp = Nil /\ st.inside_temp = Nil /\ st.locked = getBool(doc, "doorLock")
      /\ st.tire_warning = AnyFlag(doc, LampPaths) /\ st.position = PositionCCS1(loc)
      /\ st.last_updated = parseBluelinkTime(getString(doc, "time"))
  BY <1>3
<1>5. \A key : key # "odometer" => (key \in all <=> key \in told)
  BY DEF OdometerTells
<1>6. /\ "odometer" \notin told /\ "odometer" \notin vague
      /\ told \intersect {"ev_battery_soh", "charge_port_door", "charging_power", "outside_temp",
                          "inside_temp"} = {}
  BY CCS1AllTells DEF Composed
<1>8. /\ st.ev_battery_percentage = value("ev_battery_percentage")
      /\ st.est_charge_time = value("est_charge_time")
      /\ st.est_fast_charge_time = value("est_fast_charge_time")
  BY <1>1, <1>4, <1>5, CCS1Parts, PlainRead DEF getInt
<1>9. /\ st.ev_battery_soh = value("ev_battery_soh") /\ st.charge_port_door = value("charge_port_door")
      /\ st.charging_power = value("charging_power") /\ st.outside_temp = value("outside_temp")
      /\ st.inside_temp = value("inside_temp")
  BY <1>4, <1>5, <1>6
<1>10. /\ st.ev_range = value("ev_range")
       /\ "ev_range" \in all =>
            st.ev_range_unit = IF "ev_range" \in vague THEN "" ELSE car.unit
  <2>1. Says(RangeCCS1(car), parts.range, told, vague)
    BY CCS1Parts
  <2>2. first = FirstOf(getList(parts.range, "drvDistance"))
    BY <1>1 DEF first
  <2>3. /\ UNION {getFloat(f, "totalAvailableRange.value") : f \in first}
             = IF "ev_range" \in told THEN {car.ev_range} ELSE Nil
        /\ "ev_range" \in told =>
             distanceUnit(UNION {getInt(f, "totalAvailableRange.unit") : f \in first})
               = IF "ev_range" \in vague THEN "" ELSE car.unit
    BY <2>1, <2>2, RangeCCS1Read
  <2> QED
    BY <1>4, <1>5, <2>3
<1>11. st.charging = value("charging") /\ st.plugged_in = value("plugged_in")
  BY <1>1, <1>4, <1>5, CCS1Parts, ChargeCCS1Read, PlugCCS1Read
<1>12. st.charge_limit_ac = value("charge_limit_ac") /\ st.charge_limit_dc = value("charge_limit_dc")
  <2>1. Says(LimitsCCS1(car), parts.limits, told, vague)
    BY CCS1Parts
  <2>2. /\ limit(1) = IF "charge_limit_ac" \in told THEN {car.charge_limit_ac} ELSE Nil
        /\ limit(0) = IF "charge_limit_dc" \in told THEN {car.charge_limit_dc} ELSE Nil
    BY <1>1, <2>1, LimitsCCS1Read DEF limit
  <2> QED
    BY <1>4, <1>5, <2>2
<1>13. st.battery_12v = value("battery_12v") /\ st.locked = value("locked")
  BY <1>1, <1>4, <1>5, CCS1Parts, AuxCCS1Read, DoorsCCS1Read
<1>14. st.tire_warning = value("tire_warning") /\ st.last_updated = value("last_updated")
  <2>1. Says(TyresCCS1(car), parts.tyres, told, vague) /\ Says(DateCCS1(car), parts.date, told, vague)
    BY CCS1Parts
  <2>2. AnyFlag(parts.tyres, LampPaths) = IF "tire_warning" \in told THEN {car.tire_warning} ELSE Nil
    BY <2>1, TyresCCS1Read
  <2>3. parseBluelinkTime(getString(parts.date, "time")) =
          IF "last_updated" \in told THEN {car.last_updated} ELSE Nil
    BY <2>1, DateCCS1Read
  <2> QED
    BY <1>1, <1>2, <1>4, <1>5, <2>2, <2>3
<1>15. /\ st.odometer = value("odometer")
       /\ "odometer" \in all \ (vague \union ovague) => st.odometer_unit = "km"
  BY <1>4, <1>6 DEF OdometerTells
<1>16. \A key \in Entities \union Metrics : st[key] = value(key)
  BY <1>8, <1>9, <1>10, <1>11, <1>12, <1>13, <1>14, <1>15, ZenonT(60)
     DEF Entities, Sensors, BinarySensors, Metrics
<1>17. "ev_range" \in vague \union ovague <=> "ev_range" \in vague
  BY DEF OdometerTells
<1>18. Correct(st, car, all, vague \union ovague)
  <2> HIDE DEF all
  <2> QED
    BY <1>10, <1>15, <1>16, <1>17 DEF Correct
<1> QED
  BY <1>4, <1>18

-----------------------------------------------------------------------------
(* The position.                                                           *)

\* A position is where the answer placed the car, or none if it did not.
PlacedAt(position, place) ==
  IF place = {} THEN position.lat = Nil \/ position.lon = Nil
  ELSE position.lat # Nil /\ position.lon # Nil /\ place = {<<position.lat, position.lon>>}

\* The coordinates of the location answers.
LEMMA LocatedRead ==
  ASSUME NEW lat, NEW lon, NEW doc,
         doc = At(lat, lon) \/ doc = Both(At(lat, lon), Field("time", Str(<<"compact", 7>>)))
  PROVE  getFloat(doc, "lat") = {lat} /\ getFloat(doc, "lon") = {lon}
<1>1. getPath(At(lat, lon), "lat") = {Num(lat)} /\ getPath(At(lat, lon), "lon") = {Num(lon)}
  BY DEF At, getPath, Field, Both
<1>2. "lat" \in DOMAIN At(lat, lon) /\ "lon" \in DOMAIN At(lat, lon)
  BY DEF At, Field, Both
<1>3. getPath(doc, "lat") = {Num(lat)} /\ getPath(doc, "lon") = {Num(lon)}
  BY <1>1, <1>2, PathOfBoth
<1> QED
  BY <1>3, ReadNum

LEMMA HalfRead == getFloat(Field("lat", Num(515)), "lon") = Nil
BY FieldOther

\* parkLocation decodes a stamped position and refuses a coordinate of another type.
LEMMA StampedDecodes ==
  ASSUME NEW lat, NEW lon
  PROVE  Decodes(Both(At(lat, lon), Field("time", Str(<<"compact", 7>>))))
<1> DEFINE stamp == <<"compact", 7>>
           doc == Both(At(lat, lon), Field("time", Str(stamp)))
<1> HIDE DEF stamp
<1>1. getPath(At(lat, lon), "lat") = {Num(lat)} /\ getPath(At(lat, lon), "lon") = {Num(lon)}
  BY DEF At, getPath, Field, Both
<1>2. DOMAIN At(lat, lon) = {"lat", "lon"}
  BY DEF At, Field, Both
<1>3. getPath(doc, "lat") = {Num(lat)} /\ getPath(doc, "lon") = {Num(lon)}
  BY <1>1, <1>2, PathOfBoth
<1>4. getPath(doc, "time") = {Str(stamp)}
  BY <1>2, PathOfBoth, PathOfField
<1>5. Num(lat)[1] = "num" /\ Num(lon)[1] = "num" /\ Str(stamp)[1] = "str"
  BY DEF Num, Str
<1> HIDE DEF doc
<1>6. Decodes(doc)
  BY <1>3, <1>4, <1>5 DEF Decodes
<1> QED
  BY <1>6 DEF doc, stamp

LEMMA MistypedRefused == ~Decodes(Mistyped)
<1>1. getPath(Mistyped, "lat") = {Bool(TRUE)}
  <2>1. \A v, w : getPath(Both(Field("lat", v), Field("lon", w)), "lat") = {v}
    BY PairPath
  <2>2. getPath(Both(Field("lat", Bool(TRUE)), Field("lon", Num(0))), "lat") = {Bool(TRUE)}
    BY <2>1, Zenon
  <2> QED
    BY <2>2, Zenon DEF Mistyped
<1>2. Bool(TRUE)[1] # "num"
  BY DEF Bool
<1> QED
  BY <1>1, <1>2 DEF Decodes

\* The location document a cycle works with.
LocationOf(l) == IF l.doc = Nil THEN Empty ELSE CHOOSE p \in l.doc : TRUE

\* The location answer tells a position, or none that the protocol takes for one.
Fixed(l, lat, lon) ==
  /\ l.place = {<<{lat}, {lon}>>} /\ l.doc # Nil
  /\ getFloat(LocationOf(l), "lat") = {lat} /\ getFloat(LocationOf(l), "lon") = {lon}
  /\ Decodes(LocationOf(l))
Unfixed(ccs2, l) ==
  /\ l.place = {}
  /\ \/ l.doc = Nil
     \/ getFloat(LocationOf(l), "lat") = Nil \/ getFloat(LocationOf(l), "lon") = Nil
     \/ IF ccs2 THEN ~Decodes(LocationOf(l))
        ELSE getFloat(LocationOf(l), "lat") = {0} /\ getFloat(LocationOf(l), "lon") = {0}

LEMMA LocatedFixed ==
  ASSUME NEW l, NEW lat, NEW lon, l = Located(lat, lon)
  PROVE  Fixed(l, lat, lon)
<1> DEFINE stamped == Both(At(lat, lon), Field("time", Str(<<"compact", 7>>)))
           place == {<<{lat}, {lon}>>}
<1>1. l.place = place /\ l.doc = {stamped}
  BY DEF Located
<1>2. getFloat(stamped, "lat") = {lat} /\ getFloat(stamped, "lon") = {lon}
  BY LocatedRead
<1>3. Decodes(stamped)
  BY StampedDecodes
<1> HIDE DEF stamped, place
<1>4. (CHOOSE p \in {stamped} : TRUE) = stamped /\ {stamped} # Nil
  BY DEF Nil
<1>5. l.doc # Nil
  BY <1>1, <1>4
<1>6. LocationOf(l) = stamped
  BY <1>1, <1>4 DEF LocationOf
<1>7. l.place = {<<{lat}, {lon}>>}
  BY <1>1, Zenon DEF place
<1> QED
  BY <1>2, <1>3, <1>5, <1>6, <1>7, Zenon DEF Fixed

LEMMA NoPlaceUnfixed ==
  ASSUME NEW l, NEW d, l = NoPlace({d})
  PROVE  l.place = {} /\ LocationOf(l) = d
<1>1. l.place = {} /\ l.doc = {d}
  BY DEF NoPlace
<1>2. (CHOOSE p \in {d} : TRUE) = d /\ {d} # Nil
  BY DEF Nil
<1> QED
  BY <1>1, <1>2 DEF LocationOf

\* The cases of Locations.
LEMMA LocationCases ==
  ASSUME NEW ccs2 \in BOOLEAN, NEW l \in Locations(ccs2)
  PROVE  \/ \E lat, lon : Fixed(l, lat, lon) /\ (~ccs2 => lat # 0)
         \/ Unfixed(ccs2, l)
<1> DEFINE half == Field("lat", Num(515))
           origin == At(0, 0)
           west == -1
           home == Located(515, west)
           away == Located(520, 0)
           nowhere == Located(0, 0)
<1>1. \/ l = home \/ l = away \/ l = NoPlace(Nil) \/ l = NoPlace({Empty}) \/ l = NoPlace({half})
      \/ (ccs2 /\ (l = nowhere \/ l = NoPlace({Mistyped})))
      \/ (~ccs2 /\ l = NoPlace({origin}))
  BY DEF Locations
<1>3. 515 # 0 /\ 520 # 0
  OBVIOUS
<1>4. /\ l = home => Fixed(l, 515, west)
      /\ l = away => Fixed(l, 520, 0)
      /\ l = nowhere => Fixed(l, 0, 0)
  BY LocatedFixed, Zenon
<1>5. getFloat(half, "lon") = Nil /\ getFloat(Empty, "lat") = Nil
  BY HalfRead, EmptyReads
<1>6. getFloat(origin, "lat") = {0} /\ getFloat(origin, "lon") = {0}
  BY LocatedRead
<1> HIDE DEF half, origin, west, home, away, nowhere
<1>7. CASE l = home \/ l = away \/ (ccs2 /\ l = nowhere)
  <2>1. CASE l = home
    BY <1>3, <1>4, <2>1
  <2>2. CASE l = away
    BY <1>3, <1>4, <2>2
  <2>3. CASE ccs2 /\ l = nowhere
    BY <1>4, <2>3, Zenon
  <2> QED
    BY <1>7, <2>1, <2>2, <2>3
<1>8. CASE l = NoPlace(Nil)
  <2>1. l.place = {} /\ l.doc = Nil
    BY <1>8 DEF NoPlace
  <2> QED
    BY <2>1 DEF Unfixed
<1>9. CASE l = NoPlace({Empty}) \/ l = NoPlace({half})
  <2>1. l.place = {} /\ (LocationOf(l) = Empty \/ LocationOf(l) = half)
    BY <1>9, NoPlaceUnfixed
  <2> QED
    BY <1>5, <2>1 DEF Unfixed
<1>10. CASE ccs2 /\ l = NoPlace({Mistyped})
  <2>1. l.place = {} /\ LocationOf(l) = Mistyped
    BY <1>10, NoPlaceUnfixed
  <2> QED
    BY <1>10, <2>1, MistypedRefused DEF Unfixed
<1>11. CASE ~ccs2 /\ l = NoPlace({origin})
  <2>1. l.place = {} /\ LocationOf(l) = origin
    BY <1>11, NoPlaceUnfixed
  <2> QED
    BY <1>6, <1>11, <2>1 DEF Unfixed
<1> QED
  BY <1>1, <1>7, <1>8, <1>9, <1>10, <1>11, Zenon

\* A position with the coordinates the answer told is where it placed the car.
LEMMA FixedPlaced ==
  ASSUME NEW l, NEW lat, NEW lon, NEW pos, Fixed(l, lat, lon), pos.lat = {lat}, pos.lon = {lon}
  PROVE  PlacedAt(pos, l.place)
<1>1. {lat} # Nil /\ {lon} # Nil
  BY DEF Nil
<1>2. <<pos.lat, pos.lon>> = <<{lat}, {lon}>>
  OBVIOUS
<1>3. l.place = {<<{lat}, {lon}>>}
  BY Zenon DEF Fixed
<1>4. \A x : {x} # {}
  OBVIOUS
<1> QED
  BY <1>1, <1>2, <1>3, <1>4, Zenon DEF PlacedAt

\* Each protocol places the car where the location answer does: fetchStatusCCS2 ...
LEMMA ParkPlaced ==
  ASSUME NEW l \in Locations(TRUE)
  PROVE  /\ l.doc = Nil => PlacedAt(NoPosition, l.place)
         /\ l.doc # Nil => PlacedAt(parkLocation(LocationOf(l)), l.place)
<1> DEFINE loc == LocationOf(l)
           pos == parkLocation(loc)
<1>1. /\ Decodes(loc) => pos.lat = getFloat(loc, "lat") /\ pos.lon = getFloat(loc, "lon")
      /\ ~Decodes(loc) => pos = NoPosition
  BY DEF parkLocation
<1>2. NoPosition.lat = Nil /\ NoPosition.lon = Nil
  BY DEF NoPosition
<1> HIDE DEF pos
<1>3. (\E lat, lon : Fixed(l, lat, lon)) \/ Unfixed(TRUE, l)
  BY LocationCases
<1>4. CASE \E lat, lon : Fixed(l, lat, lon)
  <2>1. PICK lat, lon : Fixed(l, lat, lon)
    BY <1>4
  <2>2. l.doc # Nil /\ pos.lat = {lat} /\ pos.lon = {lon}
    BY <1>1, <2>1, Zenon DEF Fixed
  <2>3. PlacedAt(pos, l.place)
    BY <2>1, <2>2, FixedPlaced
  <2> QED
    BY <2>2, <2>3 DEF pos
<1>5. CASE Unfixed(TRUE, l)
  <2>1. /\ l.place = {}
        /\ l.doc = Nil \/ ~Decodes(loc) \/ getFloat(loc, "lat") = Nil \/ getFloat(loc, "lon") = Nil
    BY <1>5 DEF Unfixed
  <2>2. l.doc # Nil => pos.lat = Nil \/ pos.lon = Nil
    BY <1>1, <1>2, <2>1
  <2> QED
    BY <1>2, <2>1, <2>2 DEF PlacedAt, pos
<1> QED
  BY <1>3, <1>4, <1>5

\* ... and parseCCS1, which takes 0/0 for none.
LEMMA LocationPlaced ==
  ASSUME NEW l \in Locations(FALSE)
  PROVE  PlacedAt(PositionCCS1(LocationOf(l)), l.place)
<1> DEFINE loc == LocationOf(l)
           lat == getFloat(loc, "lat")
           lon == getFloat(loc, "lon")
           pos == PositionCCS1(loc)
<1>1. NoPosition.lat = Nil /\ NoPosition.lon = Nil
  BY DEF NoPosition
<1>2. IF lat = Nil \/ lon = Nil \/ (lat = {0} /\ lon = {0}) THEN pos = NoPosition
      ELSE pos.lat = lat /\ pos.lon = lon
  BY DEF PositionCCS1
<1>3. l.doc = Nil => lat = Nil
  BY EmptyReads DEF LocationOf
<1> HIDE DEF pos
<1>4. (\E a, b : Fixed(l, a, b) /\ a # 0) \/ Unfixed(FALSE, l)
  BY LocationCases
<1>5. CASE \E a, b : Fixed(l, a, b) /\ a # 0
  <2>1. PICK a, b : Fixed(l, a, b) /\ a # 0
    BY <1>5
  <2>2. lat = {a} /\ lon = {b}
    BY <2>1, Zenon DEF Fixed
  <2> HIDE DEF lat, lon
  <2>3. {a} # {0} /\ {a} # Nil /\ {b} # Nil
    BY <2>1, ZenonT(60) DEF Nil
  <2>4. pos.lat = {a} /\ pos.lon = {b}
    BY <1>2, <2>2, <2>3, Zenon
  <2>5. PlacedAt(pos, l.place)
    BY <2>1, <2>4, FixedPlaced
  <2> QED
    BY <2>5 DEF pos
<1>6. CASE Unfixed(FALSE, l)
  <2>1. l.place = {} /\ (l.doc = Nil \/ lat = Nil \/ lon = Nil \/ (lat = {0} /\ lon = {0}))
    BY <1>6 DEF Unfixed
  <2> HIDE DEF lat, lon
  <2>2. pos = NoPosition
    BY <1>2, <1>3, <2>1
  <2> QED
    BY <1>1, <2>1, <2>2 DEF PlacedAt, pos
<1> QED
  BY <1>4, <1>5, <1>6

-----------------------------------------------------------------------------
(* Any answer.                                                             *)

GroupsOf(ccs2, car) == IF ccs2 THEN CCS2Groups(car) ELSE CCS1Groups(car)
OdometerOf(ccs2, force, car) ==
  IF ~ccs2 /\ ~force THEN [odo |-> CCS1Odometer(car)] ELSE Empty

\* A document with what it tells is put together from parts of its groups.
Document(groups, d) ==
  \E parts : d.doc = Merged(parts) /\ Composed(groups, parts, d.told, d.vague)

LEMMA AnyDocument ==
  ASSUME NEW groups, WellFormed(groups), NEW d \in Documents(groups) \union {Usual(groups)}
  PROVE  Document(groups, d)
<1>1. CASE d \in Documents(groups)
  BY <1>1, DocumentComposed DEF Document
<1>2. CASE d = Usual(groups)
  <2>1. Usual(groups).doc = Merged(FirstCodes(groups))
    BY DEF Usual
  <2> QED
    BY <1>2, <2>1, UsualComposed DEF Document
<1> QED
  BY <1>1, <1>2

\* An answer is such a document, such an odometer and a location.
LEMMA AnswerParts ==
  ASSUME NEW ccs2 \in BOOLEAN, NEW force \in BOOLEAN, NEW car, IsCar(car),
         NEW api \in Answers(ccs2, force, car)
  PROVE  \E d, o, l : /\ api = Answer(~ccs2 /\ ~force, d, o, l)
                      /\ Document(GroupsOf(ccs2, car), d)
                      /\ Document(OdometerOf(ccs2, force, car), o)
                      /\ l \in Locations(ccs2)
<1> DEFINE groups == GroupsOf(ccs2, car)
           odo == OdometerOf(ccs2, force, car)
           cached == ~ccs2 /\ ~force
<1>1. WellFormed(groups) /\ WellFormed(odo)
  BY CCS1WellFormed, CCS2WellFormed DEF GroupsOf, OdometerOf
<1>2. Answers(ccs2, force, car) =
        {Answer(cached, d, Usual(odo), l) : d \in Documents(groups), l \in {Located(515, -1), NoPlace(Nil)}}
          \union {Answer(cached, Usual(groups), o, l)
                  : o \in Documents(odo) \union {Usual(odo)}, l \in Locations(ccs2)}
  BY DEF Answers, GroupsOf, OdometerOf
<1>3. {Located(515, -1), NoPlace(Nil)} \subseteq Locations(ccs2)
  BY DEF Locations
<1> HIDE DEF groups, odo, cached
<1>4. \E d \in Documents(groups) \union {Usual(groups)}, o \in Documents(odo) \union {Usual(odo)},
         l \in Locations(ccs2) : api = Answer(cached, d, o, l)
  BY <1>2, <1>3
<1>5. PICK d \in Documents(groups) \union {Usual(groups)}, o \in Documents(odo) \union {Usual(odo)},
           l \in Locations(ccs2) : api = Answer(cached, d, o, l)
  BY <1>4
<1>6. Document(groups, d) /\ Document(odo, o)
  BY <1>1, AnyDocument
<1> QED
  BY <1>5, <1>6 DEF groups, odo, cached

\* What is read next to a cached vehicleStatus.
LEMMA OdometerFaithful ==
  ASSUME NEW car, NEW o, Document([odo |-> CCS1Odometer(car)], o)
  PROVE  OdometerTells(o.doc, car, o.told, o.vague)
<1> DEFINE groups == [odo |-> CCS1Odometer(car)]
<1>1. PICK parts : o.doc = Merged(parts) /\ Composed(groups, parts, o.told, o.vague)
  BY DEF Document
<1>2. DOMAIN groups = {"odo"} /\ groups.odo = CCS1Odometer(car) /\ CCS1Odometer(car).tells = {"odometer"}
  BY DEF CCS1Odometer
<1> HIDE DEF groups
<1>3. DOMAIN parts = {"odo"} /\ Says(CCS1Odometer(car), parts.odo, o.told, o.vague)
  BY <1>1, <1>2 DEF Composed
<1>4. \A path : getPath(o.doc, path) = getPath(parts.odo, path)
  BY <1>1, <1>3, MergedPath
<1>5. getFloat(o.doc, "value") = getFloat(parts.odo, "value") /\ getInt(o.doc, "unit") = getInt(parts.odo, "unit")
  BY <1>4, SamePath
<1>6. o.told \subseteq {"odometer"} /\ o.vague \subseteq o.told
  BY <1>1, <1>2 DEF Composed, AllTells
<1> QED
  BY <1>3, <1>5, <1>6, OdometerRead DEF OdometerTells

\* No odometer tells nothing.
LEMMA NoOdometer ==
  ASSUME NEW o, Document(Empty, o)
  PROVE  o.told = {} /\ o.vague = {}
<1>1. AllTells(Empty) = {}
  BY EmptyDomain DEF AllTells
<1> QED
  BY <1>1 DEF Document, Composed

\* The position is no part of what Correct is about.
LEMMA CorrectMoved ==
  ASSUME NEW doc, NEW car, NEW told, NEW vague, NEW position,
         Correct(parseCCS2(doc), car, told, vague)
  PROVE  Correct([parseCCS2(doc) EXCEPT !.position = position], car, told, vague)
<1> DEFINE st == parseCCS2(doc)
           moved == [st EXCEPT !.position = position]
<1>1. Entities \union Metrics \union {"ev_range_unit", "odometer_unit"} \subseteq DOMAIN st \ {"position"}
  BY ZenonT(60) DEF parseCCS2, Entities, Sensors, BinarySensors, Metrics
<1> HIDE DEF st
<1>2. \A key \in DOMAIN st \ {"position"} : moved[key] = st[key]
  OBVIOUS
<1>3. moved.ev_range_unit = st.ev_range_unit /\ moved.odometer_unit = st.odometer_unit
  BY <1>1
<1> HIDE DEF moved
<1>4. Correct(st, car, told, vague)
  BY DEF st
<1>5. Correct(moved, car, told, vague)
  BY <1>1, <1>2, <1>3, <1>4 DEF Correct
<1> QED
  BY <1>5 DEF moved, st

\* Whatever the protocol, the endpoint and the answer: the state fetched says of the
\* car exactly what the answer told, and places it where the answer did.
THEOREM FetchFaithful ==
  ASSUME NEW ccs2 \in BOOLEAN, NEW force \in BOOLEAN, NEW car, IsCar(car),
         NEW api \in Answers(ccs2, force, car), NEW st \in fetchStatus(ccs2, force, api)
  PROVE  Correct(st, car, api.told, api.vague) /\ PlacedAt(st.position, api.place)
<1>1. PICK d, o, l : /\ api = Answer(~ccs2 /\ ~force, d, o, l)
                     /\ Document(GroupsOf(ccs2, car), d)
                     /\ Document(OdometerOf(ccs2, force, car), o)
                     /\ l \in Locations(ccs2)
  BY AnswerParts
<1>2. /\ api.status = {d.doc} /\ api.told = d.told \union o.told /\ api.vague = d.vague \union o.vague
      /\ api.place = l.place /\ api.odometer = o.doc
      /\ (ccs2 \/ force) => api.park = l.doc
      /\ ~(ccs2 \/ force) => api.location = LocationOf(l)
  BY <1>1 DEF Answer, LocationOf
<1>3. PICK parts : d.doc = Merged(parts) /\ Composed(GroupsOf(ccs2, car), parts, d.told, d.vague)
  BY <1>1 DEF Document
<1>4. CASE ccs2
  <2>1. o.told = {} /\ o.vague = {}
    BY <1>1, <1>4, NoOdometer DEF OdometerOf
  <2>2. Correct(parseCCS2(d.doc), car, api.told, api.vague)
    BY <1>2, <1>3, <1>4, <2>1, CCS2Faithful DEF GroupsOf
  <2>3. st = IF l.doc = Nil THEN parseCCS2(d.doc)
             ELSE [parseCCS2(d.doc) EXCEPT !.position = parkLocation(LocationOf(l))]
    BY <1>2, <1>4 DEF fetchStatus, fetchStatusCCS2, LocationOf
  <2>4. "position" \in DOMAIN parseCCS2(d.doc) /\ parseCCS2(d.doc).position = NoPosition
    BY DEF parseCCS2
  <2>5. st.position = IF l.doc = Nil THEN NoPosition ELSE parkLocation(LocationOf(l))
    BY <2>3, <2>4
  <2>6. PlacedAt(st.position, api.place)
    BY <1>1, <1>2, <1>4, <2>5, ParkPlaced
  <2>7. Correct(st, car, api.told, api.vague)
    BY <2>2, <2>3, CorrectMoved
  <2> QED
    BY <2>6, <2>7
<1>5. CASE ~ccs2 /\ force
  <2>1. o.told = {} /\ o.vague = {}
    BY <1>1, <1>5, NoOdometer DEF OdometerOf
  <2>2. st \in parseCCS1(InfoOf(parts, LocationOf(l), Empty))
    BY <1>2, <1>3, <1>5 DEF fetchStatus, forceStatusCCS1, LocationOf, InfoOf
  <2>3. Composed(CCS1Groups(car), parts, d.told, d.vague)
    BY <1>3, <1>5 DEF GroupsOf
  <2>4. /\ Correct(st, car, d.told \union o.told, d.vague \union o.vague)
        /\ st.position = PositionCCS1(LocationOf(l))
    <3>1. OdometerTells(Empty, car, o.told, o.vague)
      BY <2>1, EmptyReads DEF OdometerTells
    <3> QED
      BY <2>2, <2>3, <3>1, CCS1Faithful
  <2>5. PlacedAt(st.position, api.place)
    BY <1>1, <1>2, <1>5, <2>4, LocationPlaced
  <2> QED
    BY <1>2, <2>4, <2>5
<1>6. CASE ~ccs2 /\ ~force
  <2>1. st \in parseCCS1(InfoOf(parts, LocationOf(l), o.doc))
    BY <1>2, <1>3, <1>6 DEF fetchStatus, cachedStatusCCS1, InfoOf
  <2>2. Composed(CCS1Groups(car), parts, d.told, d.vague)
    BY <1>3, <1>6 DEF GroupsOf
  <2>3. Document([odo |-> CCS1Odometer(car)], o)
    BY <1>1, <1>6 DEF OdometerOf
  <2>4. /\ Correct(st, car, d.told \union o.told, d.vague \union o.vague)
        /\ st.position = PositionCCS1(LocationOf(l))
    BY <2>1, <2>2, <2>3, OdometerFaithful, CCS1Faithful
  <2>5. PlacedAt(st.position, api.place)
    BY <1>1, <1>2, <1>6, <2>4, LocationPlaced
  <2> QED
    BY <1>2, <2>4, <2>5
<1> QED
  BY <1>4, <1>5, <1>6
=============================================================================
