------------------------- MODULE MCFactorValidator -------------------------
EXTENDS FactorValidator

-----------------------------------------------------------------------------
(* Thrift files                                                            *)

Declare(name, type) == [name |-> name, type |-> type, required |-> TRUE]
DeclareOptional(name, type) == [Declare(name, type) EXCEPT !.required = FALSE]
Holding(s) == <<Declare("in" \o s, s)>>
(* Bodies that refer to structs, to an unknown one, and one that cannot be *)
(* read; the chains, cycles and joins of three structs among them.         *)
Referring(S) == SetToSeq({Holding(s) : s \in S})
bodiesOfA == {Referring(S) : S \in SUBSET {"A", "B", "C"}}
bodiesOfB == {Referring(S) : S \in SUBSET {"A", "C"}}
bodiesOfC == {Referring(S) : S \in SUBSET {"B"}} \cup
             {<<<<Declare("x", "i32"), Declare("y", "A")>>, Holding("Unknown")>>, <<<<>>>>}

Method(returns, params) == <<[returns |-> returns, params |-> params]>>
user == <<<<Declare("user", "string")>>>>
getA == ("GetA" :> Method("A", user))
noServices == <<>>

structFiles ==
    {[structs |-> [A |-> a, B |-> b, C |-> c], services |-> ("S" :> getA)] :
        a \in bodiesOfA, b \in bodiesOfB, c \in bodiesOfC}

(* One struct in another, and services that can be read or not.            *)
nested == ("A" :> <<<<Declare("x", "i64")>>>>) @@
          ("B" :> <<Holding("A"), <<Declare("x", "bool")>>, <<Declare("x", "double")>>>>)
flat == ("A" :> <<<<Declare("z", "string")>>>>)
serviceFiles ==
    {[structs |-> s, services |-> v] : s \in {nested, flat},
        v \in {noServices, ("S" :> getA),
               ("S" :> (("GetA" :> Method("A", <<>>)) @@ ("GetB" :> Method("B", user)))),
               ("S" :> ("GetA" :> Method("A", <<<<Declare("user", "B")>>>>))) @@ ("T" :> getA),
               ("T" :> ("GetA" :> Method("i32", user))),
               ("S" :> getA) @@ ("T" :> ("Get" :> <<>>))}}

(* The file of the method that the definitions below call.                 *)
profileFile ==
    [structs |->
        [Profile |-> <<<<Declare("days", "i32")>>, <<Declare("total", "i64")>>,
                       <<DeclareOptional("kyc", "string")>>, <<DeclareOptional("info", "Info")>>>>,
         Info |-> <<<<Declare("status", "string")>>, <<DeclareOptional("age", "i32")>>>>],
     services |-> ("Service" :> ("Get" :> Method("Profile",
        <<<<Declare("id", "string")>>, <<DeclareOptional("n", "i64")>>, <<DeclareOptional("k", "i32")>>,
          <<DeclareOptional("o", "Info")>>>>)))]

Loading(target, file) == [target |-> target, file |-> file]
validatorLoad == <<Loading(1, profileFile)>>

MCLoads ==
    {<<Loading(1, f)>> : f \in structFiles} \cup
    {<<Loading(1, f), Loading(t, g)>> : f \in serviceFiles, g \in serviceFiles, t \in {1, 2}} \cup
    {validatorLoad}

-----------------------------------------------------------------------------
(* Factors                                                                 *)

Field(type, required) == [required |-> required] @@ scalarField(type)
Object(fields, required) == [required |-> required] @@ ObjectField(fields)

MCRegistry ==
    [user    |-> [value |-> Field("string", TRUE)],
     draft   |-> [value |-> Field("string", TRUE)],
     profile |-> [days  |-> Field("int", TRUE), score |-> Field("long", FALSE),
                  risk  |-> Object([level |-> Field("string", TRUE)], FALSE)],
     acct    |-> [value |-> Object([level |-> Field("string", TRUE)], TRUE)],
     box     |-> [value |-> Object([value |-> Field("int", TRUE), level |-> Field("string", TRUE)], TRUE)]]
MCPublished == {"user", "profile", "acct", "box"}

Definition(request, dependencies, output, response) ==
    [category |-> "RPC", type |-> "THRIFT_INVOKER", input |-> {"id"}, output |-> output,
     dependencies |-> dependencies, method |-> <<1, "Service", "Get">>,
     request |-> request, response |-> response]

plain == Definition([id |-> "user"], {"user"}, [o |-> Field("int", TRUE)], [o |-> "days"])

references == {"user", "user.value", "user.x", "draft", "profile", "profile.days", "profile.score",
               "profile.risk", "profile.risk.level", "profile..days", "ghost", " user ", "acct", "acct.value",
               "acct.value.level", "acct.level", "box", "box.value.value", "box.value.level"}
requests == {[id |-> r] : r \in references} \cup {[n |-> r] : r \in references} \cup
            {[k |-> r] : r \in references} \cup {[o |-> r] : r \in references} \cup
            {[id |-> "user", n |-> r] : r \in references} \cup {[ghost |-> "user"]}
dependencies == {{}, {"user"}, {"user", "profile", "draft", "acct", "box"}}

types == {"string", "int", "long", "object"}
fields == {IF t = "object" THEN Object(<<>>, req) ELSE Field(t, req) : t \in types, req \in BOOLEAN}
paths == {"days", "total", "kyc", "info", "info.status", "info.age", "info.x", "days.x", "info.", ""}
responses == {[o |-> p] : p \in paths}

incomplete ==
    {[plain EXCEPT !.category = "HTTP"], [plain EXCEPT !.type = "SCRIPT"], [plain EXCEPT !.input = {}],
     [plain EXCEPT !.output = <<>>], [plain EXCEPT !.request = <<>>], [plain EXCEPT !.response = <<>>],
     [plain EXCEPT !.method = <<>>], [plain EXCEPT !.method[1] = 2],
     [plain EXCEPT !.output = [o |-> Field("int", TRUE), p |-> Field("int", FALSE)]],
     [plain EXCEPT !.response = [o |-> "days", p |-> "total"]]}

definitions ==
    incomplete \cup
    {Definition(q, d, plain.output, plain.response) : q \in requests, d \in dependencies} \cup
    {Definition(plain.request, plain.dependencies, [o |-> f], s) : f \in fields, s \in responses}

MCDefinitions == [loads \in MCLoads |-> IF loads = validatorLoad THEN definitions ELSE {plain}]
=============================================================================
