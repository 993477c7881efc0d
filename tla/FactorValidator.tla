-------------------------- MODULE FactorValidator --------------------------
(***************************************************************************)
(* ValidateRPCFactor (validator.go, schema.go): is the definition of a     *)
(* factor that calls a Thrift method consistent with the method, with the  *)
(* factors it depends on and with its own output schema?  The methods are  *)
(* those that module ThriftIDL has read from files.                        *)
(*                                                                         *)
(* A field of a schema and a TypeDescriptor have a type, fields and        *)
(* whether they are required.  Errors are a set of codes with the part of  *)
(* the definition they are about; Go returns them in any order.            *)
(***************************************************************************)
EXTENDS References, ThriftIDL

CONSTANTS
    Published,    \* the factors of Registry that are published
    Definitions   \* from each of Loads to the factor definitions validated after it

ASSUME PublishedAssumption == Published \subseteq DOMAIN Registry

VARIABLES
    def,     \* the definition
    errs     \* <<>> before the validation, then <<the errors>>

validatorVars == <<idlVars, def, errs>>

-----------------------------------------------------------------------------

Error(code, field) == <<code, field>>
If(condition, error) == IF condition THEN {error} ELSE {}

ResolveFactorRef(ref) ==
    LET path == PathOfRef(ref)
    IN  IF path = <<>> THEN Fail("FACTOR_REF_AMBIGUOUS") ELSE resolveSchemaPath(Registry[ref.code], path)

(* The path goes through objects only, as in a schema.                     *)
ResolveResponsePath(path, response) ==
    LET node == resolveSchemaPath(response, path)
    IN  IF IsOk(node) THEN node ELSE Fail("RESPONSE_PATH_INVALID")

ensureTypeCompatible(source, target, field) ==
    If(source # target /\ <<source, target>> # <<"int", "long">>,
       Error(IF source = "object" THEN "UNSUPPORTED_VALUE_TYPE" ELSE "TYPE_MISMATCH", field))

(* The parts that must not be empty, before anything is looked up.         *)
Incomplete(d) ==
    {Error("DEFINITION_INVALID", part) : part \in
        If(d.category # "RPC", "factor_category") \cup
        If(d.type # "THRIFT_INVOKER", "factor_type") \cup
        If(d.input = {}, "input_schema") \cup
        If(DOMAIN d.output = {}, "output_schema") \cup
        If(DOMAIN d.request = {}, "request_mapping") \cup
        If(DOMAIN d.response = {}, "response_mapping") \cup
        If(d.method = <<>>, "config")}

(* Mutant: any known factor may be read.                                   *)
RequestErrorsAnyFactor(d, field) ==
    LET ref    == ParseFactorRef(d.request[field])
        source == ResolveFactorRef(ref.value)
        target == methods[d.method].request
    IN  IF ~IsOk(ref) THEN {Error(ref.code, field)}
        ELSE IF ref.value.code \notin DOMAIN Registry THEN {Error("FACTOR_REF_NOT_FOUND", field)}
        ELSE IF ~IsOk(source) THEN {Error(source.code, field)}
        ELSE IF field \notin DOMAIN target THEN {Error("REQUEST_FIELD_MISSING", field)}
        ELSE ensureTypeCompatible(source.value.type, target[field].type, field)

RequestErrors(d, field) ==
    LET ref    == ParseFactorRef(d.request[field])
        source == ResolveFactorRef(ref.value)
        target == methods[d.method].request
    IN  IF ~IsOk(ref) THEN {Error(ref.code, field)}
        ELSE IF ref.value.code \notin DOMAIN Registry THEN {Error("FACTOR_REF_NOT_FOUND", field)}
        ELSE If(ref.value.code \notin d.dependencies, Error("DEPENDENCY_MISMATCH", field)) \cup
             If(ref.value.code \notin Published, Error("FACTOR_NOT_PUBLISHED", field)) \cup
             IF ~IsOk(source) THEN {Error(source.code, field)}
             ELSE IF field \notin DOMAIN target THEN {Error("REQUEST_FIELD_MISSING", field)}
             ELSE ensureTypeCompatible(source.value.type, target[field].type, field)

(* Mutant: it is not compared what is required with what is optional.      *)
ResponseErrorsOptional(d, field) ==
    LET path   == ParseResponsePath(d.response[field])
        source == ResolveResponsePath(path.value, methods[d.method].response)
    IN  IF field \notin DOMAIN d.output THEN {Error("DEFINITION_INVALID", field)}
        ELSE IF ~IsOk(path) THEN {Error(path.code, field)}
        ELSE IF ~IsOk(source) THEN {Error(source.code, field)}
        ELSE ensureTypeCompatible(d.output[field].type, source.value.type, field)

(* The output field is given as the source of the type check and the       *)
(* response field as its target.                                           *)
ResponseErrors(d, field) ==
    LET path   == ParseResponsePath(d.response[field])
        source == ResolveResponsePath(path.value, methods[d.method].response)
        target == d.output[field]
    IN  IF field \notin DOMAIN d.output THEN {Error("DEFINITION_INVALID", field)}
        ELSE IF ~IsOk(path) THEN {Error(path.code, field)}
        ELSE IF ~IsOk(source) THEN {Error(source.code, field)}
        ELSE ensureTypeCompatible(target.type, source.value.type, field) \cup
             If(target.required /\ ~source.value.required, Error("DEFINITION_INVALID", field))

Uncovered(d) == DOMAIN d.output \ DOMAIN d.response

ValidateRPCFactor(d) ==
    IF Incomplete(d) # {} THEN Incomplete(d)
    ELSE IF d.method \notin DOMAIN methods THEN {Error("DEFINITION_INVALID", "config")}
    ELSE UNION {RequestErrors(d, f) : f \in DOMAIN d.request} \cup
         UNION {ResponseErrors(d, f) : f \in DOMAIN d.response} \cup
         {Error("DEFINITION_INVALID", f) : f \in Uncovered(d)}

ValidatorInit == IDLInit /\ def \in Definitions[calls] /\ errs = <<>>

Load == IDLNext /\ UNCHANGED <<def, errs>>

(* Once the files are loaded.                                              *)
Validate ==
    /\ calls = <<>> /\ errs = <<>>
    /\ errs' = <<ValidateRPCFactor(def)>>
    /\ UNCHANGED <<idlVars, def>>

ValidatorNext == Load \/ Validate

ValidatorSpec == ValidatorInit /\ [][ValidatorNext]_validatorVars /\ WF_idlVars(Step)

-----------------------------------------------------------------------------
(* What definitions are about: the values that factors and methods give.   *)

Accepted == errs = <<{}>>

Sample(type) ==
    CASE type = "string" -> Str("s")
      [] type = "int"    -> GoInt(1)
      [] type = "long"   -> GoLong(1)
      [] type = "double" -> Double(1, 2)
      [] type = "bool"   -> Bool(TRUE)

(* The values of a field: in an object, what is required is there.         *)
RECURSIVE ValuesOf(_)
ObjectsOf(fields) ==
    UNION {{Map(g) : g \in {g \in [given -> UNION {ValuesOf(fields[f]) : f \in given}] :
                                \A f \in given : g[f] \in ValuesOf(fields[f])}} :
           given \in {s \in SUBSET DOMAIN fields : \A f \in DOMAIN fields : fields[f].required => f \in s}}
ValuesOf(field) == IF field.type = "object" THEN ObjectsOf(field.fields) ELSE {Sample(field.type)}

(* A factor with the one field "value" may also give the bare value.       *)
FactorValues(code) ==
    ObjectsOf(Registry[code]) \cup
    IF schemaHasSingleValueField(Registry[code]) THEN ValuesOf(Registry[code][ValueKey]) ELSE {}

(* The contexts a caller can build: published factors the definition       *)
(* declares.                                                               *)
Contexts(d) ==
    LET codes == d.dependencies \cap Published
    IN  {g \in [codes -> UNION {FactorValues(c) : c \in codes}] : \A c \in codes : g[c] \in FactorValues(c)}

(* The accessor takes any object for the wrapper of a single-value factor: *)
(* also its bare value, when that is an object (accessor.go).              *)
TakenForWrapper(code, ctx) ==
    code \in DOMAIN ctx /\ IsMap(ctx[code]) /\ ctx[code] \notin ObjectsOf(Registry[code])

Fits(v, type) == Tag(v) = type \/ <<Tag(v), type>> \in {<<"int", "long">>, <<"map", "object">>}

RECURSIVE AlwaysThere(_, _)
AlwaysThere(schema, path) ==
    /\ schema[Head(path)].required
    /\ Len(path) > 1 => AlwaysThere(schema[Head(path)].fields, Tail(path))

ResponseValue(response, d, field) == Walk(response, ParseResponsePath(d.response[field]).value)

-----------------------------------------------------------------------------
(* Properties                                                              *)

(* When the definition is accepted, what the accessor of a reference in its*)
(* request mapping reads from the published factors it declares fits the   *)
(* request field, and is there if the schema requires it: a reference means*)
(* the same to the validator (ResolveFactorRef) and at run time.  It does  *)
(* not for a bare object that is taken for the wrapper of a single-value   *)
(* factor: one without a field of that name is not read at all.            *)
MappedInputsFit ==
    Accepted =>
        \A ctx \in Contexts(def), f \in DOMAIN def.request :
            LET ref == ParseFactorRef(def.request[f]).value
                v   == AccessorGet(Accessor(ref.code, PathOfRef(ref)), ctx)
            IN  /\ f \in DOMAIN methods[def.method].request
                /\ IF TakenForWrapper(ref.code, ctx)
                   THEN ValueKey \notin DOMAIN Payload(ctx[ref.code]) => IsNull(v)
                   ELSE /\ IsNull(v) \/ Fits(v, methods[def.method].request[f].type)
                        /\ AlwaysThere(Registry[ref.code], PathOfRef(ref)) => ~IsNull(v)

(* When the definition is accepted every output field is filled from any   *)
(* response that leaves out no object, and a required one also when the    *)
(* response leaves out every other optional field.                         *)
OutputsAreFilled ==
    Accepted =>
        LET response == methods[def.method].response
            TotalOn(r, path) == path = <<>> \/ ~IsNull(Walk(r, path))
        IN  \A r \in ObjectsOf(response), f \in DOMAIN def.output :
                LET path == ParseResponsePath(def.response[f]).value
                IN  /\ f \in DOMAIN def.response
                    /\ def.output[f].required /\ TotalOn(r, SubSeq(path, 1, Len(path) - 1))
                         => ~IsNull(Walk(r, path))
                    /\ \E full \in ObjectsOf(response) : ~IsNull(Walk(full, path))

(* ensureTypeCompatible names its parameters source and target and lets an *)
(* INT become a LONG: what an accepted response mapping reads from the     *)
(* response fits the output field.                                         *)
MappedOutputsFit ==
    Accepted =>
        \A r \in ObjectsOf(methods[def.method].response), f \in DOMAIN def.output :
            LET v == ResponseValue(r, def, f) IN IsNull(v) \/ Fits(v, def.output[f].type)
=============================================================================
