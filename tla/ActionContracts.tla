--------------------------- MODULE ActionContracts ---------------------------
(***************************************************************************)
(* One mapping or one edge condition of a Flow, checked against the pinned *)
(* JSON schemas when the Flow is compiled and against values when a Run    *)
(* executes it.  A schema declares a set of types (empty: open), the types *)
(* of the member of an object or the items of an array, whether the member *)
(* must or must not be there, and perhaps more that only the schema        *)
(* library looks at: an enumeration, a pattern, a range.  A path is        *)
(* declared, or undeclared in an open or a closed object.                  *)
(***************************************************************************)
EXTENDS Naturals

CONSTANTS TypeNames,  \* the JSON types considered
          Sources,    \* the schemas that are read ...
          Targets     \* ... and those that are written

Places == {"declared", "open", "closed"}

\* `narrow`: further assertions, which the placeholder meets or not; `always`:
\* the object the path leads into requires the field.
Schemas == [types : SUBSET TypeNames, inner : SUBSET TypeNames,
            member : {"optional", "required", "closed"},
            narrow : {"no", "loose", "strict"}, place : Places, always : BOOLEAN]

ASSUME TypesAssumption ==
    /\ {"boolean", "integer", "number"} \subseteq TypeNames /\ "none" \notin TypeNames
    /\ Sources \subseteq {s \in Schemas : s.narrow = "no"}
    /\ Targets \subseteq Schemas

Values == [type : TypeNames, member : TypeNames \union {"none"}, exact : BOOLEAN]

VARIABLES source,     \* the schema a mapping or a condition reads
          target,     \* the schema of the config field a mapping writes
          way,        \* the literal config on the way there: clear, null or a scalar
          expression, \* an edge condition: the source alone, or a choice ...
          other,      \* ... between it and this schema
          verdict,    \* of the mapping at compilation
          condition,  \* the verdict on the edge condition
          met         \* what the Run meets

contractVars == <<source, target, way, expression, other, verdict, condition, met>>

ContractsInit ==
    /\ source \in Sources /\ target \in Targets /\ other \in Sources
    /\ way \in {"clear", "null", "scalar"} /\ expression \in {"path", "choice"}
    /\ verdict = "none" /\ condition = "none" /\ met = "none"

-----------------------------------------------------------------------------
(* Static inspection.                                                      *)

\* resolve: an undeclared member of an open object is there and unknown.
Resolve(s) ==
    IF s.place = "declared"
    THEN [exists |-> TRUE, types |-> s.types, dynamic |-> s.types = {}]
    ELSE [exists |-> s.place = "open", types |-> {}, dynamic |-> TRUE]

Widened(types) == IF "number" \in types THEN types \cup {"integer"} ELSE types

\* Mutant: one common type is enough.
OverlapCompatible(from, to) ==
    from.dynamic \/ to.dynamic \/ from.types \cap Widened(to.types) # {}

\* The types of the field itself; members and items are not compared.
Compatible(from, to) ==
    from.dynamic \/ to.dynamic \/ from.types \subseteq Widened(to.types)

\* The value that stands for a mapped one, by the first type of this order: an
\* object without members, an array without items.
Placeholder(s) ==
    LET order == <<"string", "integer", "number", "boolean", "object", "array", "null">>
        named == {n \in DOMAIN order : order[n] \in Resolve(s).types}
    IN  [type |-> IF named = {} THEN "string"
                  ELSE order[CHOOSE n \in named : \A m \in named : n <= m],
         member |-> "none", exact |-> s.narrow # "strict"]

ValueMatches(type, types) == types = {} \/ type \in Widened(types)

\* validateShape of the value itself ...
TypeFits(v, s) ==
    s.place # "closed" /\ (s.place = "declared" => ValueMatches(v.type, s.types))

\* ... and of what it holds.
MembersFit(v, s) ==
    s.place = "declared" =>
        /\ v.type = "object" => /\ s.member = "required" => v.member # "none"
                                /\ s.member = "closed" => v.member = "none"
        /\ v.type \in {"object", "array"} /\ v.member # "none" => ValueMatches(v.member, s.inner)

\* The rest is left to the schema library.
AssertionsFit(v, s) == s.place = "declared" /\ s.narrow # "no" => v.exact

Validate(v, s) == TypeFits(v, s) /\ MembersFit(v, s) /\ AssertionsFit(v, s)

\* mappingSource and validateMappings; SetPointer takes null for an object, and
\* the config with the placeholder in it is validated as a whole.
CompileMapping ==
    LET from == Resolve(source)
        to == Resolve(target)
    IN  /\ verdict = "none"
        /\ verdict' =
             CASE ~from.exists -> "unknown_source_field"
               [] from.exists /\ ~to.exists -> "unknown_target"
               [] from.exists /\ to.exists /\ ~Compatible(from, to) -> "mapping_type_mismatch"
               [] OTHER -> IF way = "scalar" THEN "invalid_target"
                           ELSE IF ~Validate(Placeholder(target), target) THEN "schema_invalid"
                           ELSE IF from.dynamic \/ to.dynamic THEN "dynamic_mapping"
                           ELSE "accepted"
        /\ UNCHANGED <<source, target, way, expression, other, condition, met>>

\* inferCELType of a path, and of a choice between a path and another one: an
\* unknown type is the empty set and vanishes in a union.
Inferred ==
    LET r == Resolve(source)
        o == Resolve(other)
    IN  IF expression = "choice"
        THEN [exists |-> r.exists /\ o.exists, types |-> r.types \cup o.types,
              dynamic |-> r.dynamic \/ o.dynamic]
        ELSE r

CompileCondition ==
    LET i == Inferred IN
    /\ condition = "none"
    /\ condition' =
         CASE ~i.exists -> "unknown_cel_field"
           [] i.exists /\ i.types # {} /\ "boolean" \notin i.types -> "cel_not_boolean"
           [] OTHER -> IF i.types = {} \/ i.dynamic THEN "dynamic_cel" ELSE "accepted"
    /\ UNCHANGED <<source, target, way, expression, other, verdict, met>>

-----------------------------------------------------------------------------
(* The Run.                                                                *)

Passed == {"accepted", "dynamic_mapping"}

\* applyMappings does not find the field.
MissSource ==
    /\ verdict \in Passed /\ met = "none"
    /\ ~ (source.place = "declared" /\ source.always)
    /\ met' = "missing"
    /\ UNCHANGED <<source, target, way, expression, other, verdict, condition>>

\* applyMappings writes the value a node really produced; the whole config is
\* validated again before the plugin sees it.
RunMapping(v) ==
    /\ verdict \in Passed /\ met = "none"
    /\ Validate(v, source)
    /\ met' = IF way # "clear" THEN "untraversable"
              ELSE IF ~TypeFits(v, target) THEN "type_mismatch"
              ELSE IF ~MembersFit(v, target) THEN "member"
              ELSE IF ~AssertionsFit(v, target) THEN "assertion"
              ELSE "called"
    /\ UNCHANGED <<source, target, way, expression, other, verdict, condition>>

ContractsNext ==
    \/ CompileMapping \/ CompileCondition \/ MissSource
    \/ \E v \in Values : RunMapping(v)

ContractsSpec == ContractsInit /\ [][ContractsNext]_contractVars

-----------------------------------------------------------------------------
(* Properties.                                                             *)

\* What the source promises of its members and items is what the target asks.
MembersAgree ==
    /\ target.inner = {} \/ (source.inner # {} /\ source.inner \subseteq Widened(target.inner))
    /\ target.member \in {"optional", source.member}

\* A mapping accepted without a warning is never refused in a Run for the type
\* of the field.  What the static inspection does not look at can still refuse
\* it, and nothing else can: an optional field that is missing, a literal null
\* on the way, the inside of an object or an array, a further assertion.
AcceptedMappingFits ==
    verdict = "accepted" =>
        /\ met # "type_mismatch"
        /\ met = "missing" => ~source.always
        /\ met = "untraversable" => way = "null"
        /\ met = "member" => ~MembersAgree
        /\ met = "assertion" => target.narrow # "no"

\* A mapping is refused for its path or its type only where some value of the
\* source would be refused by the Run as well.
RefusedMappingCanFail ==
    verdict \in {"unknown_target", "mapping_type_mismatch"} =>
        \E v \in Values : Validate(v, source) /\ ~TypeFits(v, target)

Branches == IF expression = "choice" THEN {source, other} ELSE {source}

\* A condition is refused as not boolean only when one of its branches never
\* gives a boolean, in a union with an open branch too.
RefusedConditionIsNotBoolean ==
    condition = "cel_not_boolean" =>
        \E s \in Branches : \A v \in Values : Validate(v, s) => v.type # "boolean"

\* What the compiler says of a mapping or a condition is what its Run meets.
ContractsInv ==
    /\ AcceptedMappingFits
    /\ RefusedMappingCanFail
    /\ RefusedConditionIsNotBoolean
=============================================================================
