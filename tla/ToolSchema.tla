----------------------------- MODULE ToolSchema -----------------------------
(***************************************************************************)
(* The two recursive functions with which validate_tool tries a tool:      *)
(* _minimal_value makes the arguments of the sample call from the tool's   *)
(* input schema, and _matches_schema judges a value by a schema.           *)
(*                                                                         *)
(* A value is its kind, an object also its fields.  A schema has a type, a *)
(* default or the first value of an enum, and an object's schema what the  *)
(* document says of some fields, which need not be a schema ("true" is     *)
(* one way to describe a field), and the names of the required ones.  One  *)
(* schema is looked at in each behaviour.                                  *)
(***************************************************************************)
EXTENDS Naturals

CONSTANTS Fields,    \* names of fields
          Values,    \* the values that schemas give as defaults, with all their fields
          MaxDepth,  \* how deep schemas are nested
          Nested     \* Nested[n]: the schemas nested n deep, for n up to MaxDepth

Types == {"string", "integer", "number", "boolean", "array", "object", "absent"}
Kinds == {"str", "int", "float", "bool", "null", "list", "dict"}

NoFields == [f \in {} |-> "none"]
Value(kind) == [kind |-> kind, fields |-> NoFields]
NoDefault == Value("none")

\* A property no schema describes has the schema {}.
Anything == [type |-> "absent", default |-> NoDefault, props |-> NoFields, required |-> {}]

\* What a field is described by when that is no dict.
NoSchema == [Anything EXCEPT !.type = "none"]

Schemas == UNION {Nested[n] : n \in 0..MaxDepth}

PropertySchema(s, f) == IF f \in DOMAIN s.props THEN s.props[f] ELSE Anything

\* The schemas of fields that the two functions come to from s.
Parts(s) == {PropertySchema(s, f) : f \in s.required \cup DOMAIN s.props} \ {NoSchema}

\* Values and schemas are JSON: trees of a finite depth.
ASSUME SchemaAssumption ==
  /\ MaxDepth \in Nat
  /\ Anything \in Nested[0]
  /\ \A v \in Values :
       /\ v = [kind |-> v.kind, fields |-> v.fields]
       /\ v.kind \in Kinds
       /\ \A f \in DOMAIN v.fields : v.fields[f] \in Values
  /\ \A n \in 0..MaxDepth : \A s \in Nested[n] :
       /\ s.type \in Types
       /\ s.default \in Values \cup {NoDefault}
       /\ s.required \cup DOMAIN s.props \subseteq Fields
       /\ s.type = "object" => \A t \in Parts(s) : \E m \in 0..(n - 1) : t \in Nested[m]

VARIABLE schema

schemaVars == <<schema>>

\* Mutant of Sample: only the required fields that are described.
SampleDescribed(s, least) ==
  [kind |-> "dict",
   fields |-> [f \in {f \in s.required \cap DOMAIN s.props : s.props[f] # NoSchema} |->
                 least[s.props[f]]]]

\* The object with the required fields, but those described by no dict.
Sample(s, least) ==
  [kind |-> "dict",
   fields |-> [f \in {f \in s.required : PropertySchema(s, f) # NoSchema} |->
                 least[PropertySchema(s, f)]]]

\* _minimal_value, least being the function itself.
Minimal(s, least) ==
  IF s.default # NoDefault THEN s.default
  ELSE CASE s.type = "object"               -> Sample(s, least)
         [] s.type = "array"                -> Value("list")
         [] s.type \in {"integer", "number"} -> Value("int")
         [] s.type = "boolean"              -> Value("bool")
         [] OTHER                           -> Value("str")

MinimalValue[s \in Schemas] == Minimal(s, MinimalValue)

\* The values that the functions can meet.
Met == Values \cup {MinimalValue[s] : s \in Schemas}

\* _matches_schema, match being the function itself.
Matches(s, v, match) ==
  CASE s.type = "object" ->
         /\ v.kind = "dict"
         /\ s.required \subseteq DOMAIN v.fields
         /\ \A f \in DOMAIN s.props \cap DOMAIN v.fields :
              s.props[f] # NoSchema => match[s.props[f]][v.fields[f]]
    [] s.type = "array"   -> v.kind = "list"
    [] s.type = "string"  -> v.kind = "str"
    [] s.type = "boolean" -> v.kind = "bool"
    [] s.type = "integer" -> v.kind = "int"
    [] s.type = "number"  -> v.kind \in {"int", "float"}
    [] OTHER              -> TRUE

MatchesSchema[s \in Schemas] == [v \in Met |-> Matches(s, v, MatchesSchema)]

SchemaInit == schema \in Schemas
SchemaNext == UNCHANGED schemaVars
SchemaSpec == SchemaInit /\ [][SchemaNext]_schemaVars

-----------------------------------------------------------------------------
\* What the schema has to say for that: the defaults which the sample takes are
\* themselves of their type, and the required fields are described by schemas if at all.
Fits(s, fit) ==
  IF s.default # NoDefault THEN MatchesSchema[s][s.default]
  ELSE s.type = "object" =>
         \A f \in DOMAIN s.props \cap s.required : s.props[f] # NoSchema /\ fit[s.props[f]]

SampleFits[s \in Schemas] == Fits(s, SampleFits)

(***************************************************************************)
(* The arguments of a sample call match the schema they are made from if   *)
(* and only if the defaults they take from it do and no required field is  *)
(* described by something else than a dict: a tool is not sent what its    *)
(* own schema forbids, with required fields nobody described included.     *)
(***************************************************************************)
SampleMatches == MatchesSchema[schema][MinimalValue[schema]] <=> SampleFits[schema]
=============================================================================
