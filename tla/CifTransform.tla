---------------------------- MODULE CifTransform ----------------------------
(***************************************************************************)
(* The mapping of a system's own records to canonical documents            *)
(* (core/src/application/transform.rs), and the facade around it           *)
(* (core/src/drivers/facade.rs): comparison of two mapped records and      *)
(* validation of a canonical document.                                     *)
(*                                                                         *)
(* A schema is [cif_schema, transformations]: the definitions of the       *)
(* fields, and per format their rules.  Rules and definitions are records  *)
(* that may lack any key.  A source path is the sequence of its segments,  *)
(* empty for ".", the whole source.                                        *)
(***************************************************************************)
EXTENDS SetByKey

CONSTANTS
    Numerals,       \* the texts that parse as a finite number -> that number
    Indices         \* the segments that parse as an array index -> that index, from 0

\* The texts that parse as a float that JSON cannot hold.
NonFinite == {"inf", "-inf", "NaN"}

JsonBool(b) == <<"bool", b>>

\* Neither is a JSON value: an error, and a field that is left out.
Failed  == <<"failed", 0>>
Skipped == <<"skipped", 0>>

\* Value::get on a rule, a definition or a schema that may be missing itself.
Opt(r, key) == IF r # None /\ key \in DOMAIN r THEN r[key] ELSE None

-----------------------------------------------------------------------------
\* Mutant: array segments count from one.
SegmentFromOne(v, part) ==
    CASE IsObject(v) /\ part \in DOMAIN v[2] -> v[2][part]
      [] IsArray(v) /\ part \in DOMAIN Indices /\ Indices[part] \in DOMAIN v[2] -> v[2][Indices[part]]
      [] OTHER -> None

\* One segment of a path: a key of an object or an index of an array.
Segment(v, part) ==
    CASE IsObject(v) /\ part \in DOMAIN v[2] -> v[2][part]
      [] IsArray(v) /\ part \in DOMAIN Indices /\ Indices[part] < Len(v[2]) -> v[2][Indices[part] + 1]
      [] OTHER -> None

ExtractValueByPath(json, path) ==
    FoldLeft(LAMBDA v, part : IF v = None THEN None ELSE Segment(v, part), json, path)

\* str::parse::<f64>; json! makes null of what is not finite.
ParsedNumber(text) ==
    CASE text \in DOMAIN Numerals -> FloatNumber(Numerals[text])
      [] text \in NonFinite       -> Null
      [] OTHER                    -> Failed

\* Mutant: what is a number in one system and a text in another stays so.
NormalizeOnlyTexts(v, type) ==
    CASE type = "string" -> JsonString(TextOf(v))
      [] type = "number" -> IF IsNumber(v) \/ v[1] = "string" THEN v ELSE Failed
      [] OTHER           -> v

NormalizeType(v, type) ==
    CASE type = "string" -> JsonString(TextOf(v))
      [] type = "number" ->
            (CASE IsNumber(v)       -> v
               [] v[1] = "string"   -> ParsedNumber(v[2])
               [] OTHER             -> Failed)
      [] type = "boolean" ->
            (CASE v[1] = "bool"     -> v
               [] v[1] = "string"   -> JsonBool(v[2] \in {"true", "True", "TRUE"})
               [] IsNumber(v)       -> JsonBool(v[2] # 0)
               [] OTHER             -> Failed)
      [] OTHER -> v

RECURSIVE Converted(_, _, _)

\* The object of those fields: any failure fails it, what is skipped is left out.
ConvertedFields(source, rules, defs, fields) ==
    LET out == [f \in fields |-> Converted(source, rules[f], Opt(defs, f))]
    IN  IF \E f \in fields : out[f] = Failed THEN Failed
        ELSE JsonObject([f \in {g \in fields : out[g] # Skipped} |-> out[f]])

\* transform_field, and the body of transform_element: the value of one field.
\* A field whose value is not there is an error only if its definition requires it.
Converted(source, rule, def) ==
    LET path     == Opt(rule, "source_path")
        type     == IF Opt(rule, "type") = None THEN "string" ELSE rule.type
        v        == ExtractValueByPath(source, path)
        element  == Opt(rule, "element")
        children == Opt(rule, "children")
        rows     == [i \in DOMAIN v[2] |->
                        ConvertedFields(v[2][i], element, Opt(def, "element"), DOMAIN element)]
    IN  CASE path = None -> Failed
          [] path # None /\ v = None -> IF Opt(def, "required") = TRUE THEN Failed ELSE Skipped
          [] path # None /\ v # None /\ type = "array" /\ element # None ->
                IF ~IsArray(v) \/ Failed \in Range(rows) THEN Failed ELSE JsonArray(rows)
          [] path # None /\ v # None /\ type = "object" /\ children # None ->
                ConvertedFields(v, children, Opt(def, "children"), DOMAIN children)
          [] OTHER -> NormalizeType(v, type)

\* to_cif.  At the top the fields of the schema that have a rule are converted,
\* below it the fields of the rules.
TransformToCif(source, schema, format) ==
    LET rules == Opt(Opt(schema, "transformations"), format)
        defs  == Opt(schema, "cif_schema")
    IN  IF rules = None \/ defs = None THEN Failed
        ELSE ConvertedFields(source, rules, defs, DOMAIN rules \cap DOMAIN defs)

-----------------------------------------------------------------------------
(* The facade.                                                             *)

\* The report of compare, whose counts are those of its conflicts.
TransformAndCompare(schema, source_a, format_a, source_b, format_b) ==
    LET a == TransformToCif(source_a, schema, format_a)
        b == TransformToCif(source_b, schema, format_b)
    IN  IF Failed \in {a, b} THEN None ELSE CompareJson(a, b)

JsonType(v) ==
    CASE IsNumber(v)   -> "number"
      [] v[1] = "bool" -> "boolean"
      [] OTHER         -> v[1]

\* validate_cif: the fields with errors.
InvalidFields(schema, value) ==
    {f \in DOMAIN schema.cif_schema :
        LET def == schema.cif_schema[f]
            v   == Get(value, f)
        IN  \/ v = None /\ Opt(def, "required") = TRUE
            \/ v # None /\ Opt(def, "type") \notin {None, JsonType(v)}}
=============================================================================
