------------------------------ MODULE NodeValues -------------------------------
(***************************************************************************)
(* The nodes that work on values only: condition, filter, transform        *)
(* (Execution_Engine/src/nodes).  A value is a pair: <<"none", 0>>,        *)
(* <<"int", i>>, <<"list", sequence of values>> or <<"dict", function>>;   *)
(* a list holds no lists, and strings are left out, so no value is a key   *)
(* of a dict.                                                              *)
(***************************************************************************)
EXTENDS Integers, Sequences, SequencesExt

CONSTANT Questions        \* what is asked of the nodes

ASSUME ValuesAssumption ==
  \A q \in Questions :
    /\ q.items \in Seq({q.items[i] : i \in DOMAIN q.items})
    /\ q.value[1] \in {"none", "int", "list", "dict"}

VARIABLES question, reply
valueVars == <<question, reply>>

None    == <<"none", 0>>
Raised  == <<"raised", 0>>
Missing == <<"missing", 0>>
Bool(b) == <<"bool", b>>
Is(v, kind) == v[1] = kind

-----------------------------------------------------------------------------
(* A dotted path, followed as far as it leads. *)
Follow(v, key) ==
  IF Is(v, "dict") /\ key \in DOMAIN v[2] THEN v[2][key] ELSE Missing
Resolve(v, path) == FoldLeft(Follow, v, path)
Field(v, path) == IF Resolve(v, path) = Missing THEN None ELSE Resolve(v, path)

(* Python's comparisons: equality, of anything; order, of two integers or  *)
(* of two lists, by their first items that differ or by their lengths.     *)
Ordered(op, i, j) ==
  CASE op = "gt"  -> Bool(i > j)
    [] op = "gte" -> Bool(i >= j)
    [] op = "lt"  -> Bool(i < j)
    [] op = "lte" -> Bool(i <= j)
OrderedInts(op, a, b) ==
  IF Is(a, "int") /\ Is(b, "int") THEN Ordered(op, a[2], b[2]) ELSE Raised
OrderedLists(op, s, t) ==
  LET differ == {i \in DOMAIN s \intersect DOMAIN t : s[i] # t[i]}
      first  == CHOOSE i \in differ : \A j \in differ : i <= j
  IN  IF differ = {} THEN Ordered(op, Len(s), Len(t)) ELSE OrderedInts(op, s[first], t[first])
Compare(op, a, b) ==
  CASE op = "eq" -> Bool(a = b)
    [] op = "ne" -> Bool(a # b)
    [] OTHER     -> IF Is(a, "list") /\ Is(b, "list") THEN OrderedLists(op, a[2], b[2])
                    ELSE OrderedInts(op, a, b)

(* a in b: an item of a list; a key of a dict, which has to be hashable. *)
Within(a, b) ==
  CASE Is(b, "list") -> Bool(\E i \in DOMAIN b[2] : b[2][i] = a)
    [] Is(b, "dict") -> IF Is(a, "list") \/ Is(a, "dict") THEN Raised ELSE Bool(FALSE)
    [] OTHER         -> Raised
Not(v) == IF v = Raised THEN Raised ELSE Bool(~v[2])

Orders == {"eq", "ne", "gt", "gte", "lt", "lte"}

ConditionResult(lhs, op, rhs) ==
  IF lhs = None THEN Bool(FALSE)
  ELSE CASE op \in Orders    -> Compare(op, lhs, rhs)
         [] op = "in"        -> Within(lhs, rhs)
         [] op = "not_in"    -> Not(Within(lhs, rhs))
         [] op = "contains"  -> Within(rhs, lhs)
         [] OTHER            -> Raised

(* bool(value) *)
Truthy(v) == v \notin {None, <<"int", 0>>, <<"list", <<>>>>, <<"dict", <<>>>>}

(* Mutant: an absent field is compared like any other. *)
Match_None(val, op, expected) ==
  CASE op = "truthy"            -> Bool(Truthy(val))
    [] op \in Orders            -> Compare(op, val, expected)
    [] op = "contains"          -> IF val = None THEN Bool(FALSE) ELSE Within(expected, val)
    [] op = "in"                -> Within(val, expected)
    [] OTHER                    -> Raised

Match(val, op, expected) ==
  CASE op = "truthy"            -> Bool(Truthy(val))
    [] op \in {"eq", "ne"}      -> Compare(op, val, expected)
    [] op \in Orders \ {"eq", "ne"} ->
         IF val = None THEN Bool(FALSE) ELSE Compare(op, val, expected)
    [] op = "contains"          -> IF val = None THEN Bool(FALSE) ELSE Within(expected, val)
    [] op = "in"                -> Within(val, expected)
    [] OTHER                    -> Raised

FilterResult(items, path, op, expected) ==
  LET verdicts == [i \in DOMAIN items |-> Match(Field(items[i], path), op, expected)]
      kept[n \in 0..Len(items)] ==
        IF n = 0 THEN <<>>
        ELSE IF verdicts[n] = Bool(TRUE) THEN Append(kept[n - 1], n) ELSE kept[n - 1]
  IN  IF \E i \in DOMAIN items : verdicts[i] = Raised THEN Raised
      ELSE <<"items", kept[Len(items)]>>

(* A template is a path, or a value that stays as it is.  transform has a  *)
(* default for a path that leads nowhere, loop_items has not.              *)
Filled(templates, context, defaults) ==
  [key \in DOMAIN templates |->
     IF ~Is(templates[key], "path") THEN templates[key]
     ELSE LET v == Resolve(context, templates[key][2])
          IN  IF v # Missing THEN v ELSE IF key \in DOMAIN defaults THEN defaults[key] ELSE None]

TransformResult(input, mapping, defaults) ==
  Filled(mapping, <<"dict", [input |-> input]>>, defaults)
Interpolate(template, item) == Filled(template, <<"dict", [item |-> item]>>, <<>>)

-----------------------------------------------------------------------------
(* The same question put to each of the nodes. *)
ValuesInit == question \in Questions /\ reply = <<>>

Execute ==
  /\ reply = <<>>
  /\ LET q == question
     IN  reply' =
           [condition |-> [i \in DOMAIN q.items |->
                             ConditionResult(Field(q.items[i], <<q.field>>), q.op, q.value)],
            filter    |-> FilterResult(q.items, <<q.field>>, q.op, q.value),
            transform |-> [i \in DOMAIN q.items |->
                             TransformResult(q.items[i],
                               [out |-> <<"path", <<"input", q.field>>>>, same |-> q.value],
                               [out |-> <<"int", 7>>])],
            worker    |-> [i \in DOMAIN q.items |->
                             Interpolate([out |-> <<"path", <<"item", q.field>>>>], q.items[i])]]
  /\ UNCHANGED question

ValuesSpec == ValuesInit /\ [][Execute]_valueVars

-----------------------------------------------------------------------------
(* A filter keeps the items, in their order, that the condition node says  *)
(* true to, for every operator both have and item that has the field; one  *)
(* without it is left out by both, but for "ne", and for "eq" and "in"     *)
(* that ask for nothing.  It raises only where the condition node does, or *)
(* would if the field were there.  transform and loop_items read the same  *)
(* field and differ only in what stands for one that is not there          *)
(* (condition.py:30-44, filter.py:29-49, transform.py:43-53).              *)
ValuesExact ==
  reply # <<>> =>
    LET q == question
        Val(i) == Field(q.items[i], <<q.field>>)
        True(i) == reply.condition[i] = Bool(TRUE)
        Differs(i) == Val(i) = None /\ q.op \in {"ne", "eq", "in"}
        Kept == IF reply.filter = Raised THEN <<>> ELSE reply.filter[2]
    IN  /\ q.op \in Orders \union {"contains"} /\ reply.filter = Raised =>
             \E i \in DOMAIN q.items : reply.condition[i] = Raised
        /\ (\E i \in DOMAIN q.items : reply.condition[i] = Raised) /\ q.op \notin {"not_in", "truthy"} =>
             reply.filter = Raised
        /\ \A k \in DOMAIN Kept : \A j \in DOMAIN Kept : j < k => Kept[j] < Kept[k]
        /\ reply.filter # Raised /\ q.op # "truthy" =>
             \A i \in DOMAIN q.items :
               ~Differs(i) => (True(i) <=> \E k \in DOMAIN Kept : Kept[k] = i)
        /\ \A i \in DOMAIN q.items :
             LET t == reply.transform[i]
             IN  /\ DOMAIN t = {"out", "same"} /\ t["same"] = q.value
                 /\ t["out"] # reply.worker[i]["out"] =>
                      reply.worker[i]["out"] = None /\ t["out"] = <<"int", 7>>
=============================================================================
