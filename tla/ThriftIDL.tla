----------------------------- MODULE ThriftIDL -----------------------------
(***************************************************************************)
(* Reading .thrift files into the method registry (idl.go).                *)
(*                                                                         *)
(* A file is what the regular expressions find in it: the body of each     *)
(* struct and the methods of each service.  A body or a parameter list is  *)
(* a sequence of statements; a statement is the sequence of the fields     *)
(* declared in it, of which the code reads the first, and is empty when no *)
(* field can be read.  An unreadable method is <<>>, any other is <<m>>.   *)
(*                                                                         *)
(* buildStructDescriptor and lazyStructs call each other: a frame of the   *)
(* stack is one building of a struct, todo being the names that its        *)
(* lazyStructs has not tried.  Go iterates over a map in any order.        *)
(***************************************************************************)
EXTENDS Naturals, Sequences, FiniteSets

CONSTANTS
    Loads   \* the sequences of calls of RegisterThriftFile: a behaviour makes one

(* Calls come one after the other, and so do the statements of a body.     *)
ASSUME LoadsAssumption ==
    \A load \in Loads :
        /\ load \in Seq({load[i] : i \in DOMAIN load})
        /\ \A i \in DOMAIN load : LET bodies == load[i].file.structs
               IN  \A n \in DOMAIN bodies : bodies[n] \in Seq({bodies[n][j] : j \in DOMAIN bodies[n]})

VARIABLES
    calls,     \* calls to come: [target |-> IDL code and version, file |-> the file]
    pending,   \* struct names that parseThriftStructs has not tried
    structs,   \* descriptors of the structs built so far
    stack,     \* buildings in progress, the innermost first
    phase,     \* "idle" between calls, "reading" in one
    methods,   \* MemoryIDLRegistry.methods
    results    \* history: what each call returned, and the structs it had built

idlVars == <<calls, pending, structs, stack, phase, methods, results>>

call == Head(calls)
rawStructs == call.file.structs

-----------------------------------------------------------------------------
(* Types                                                                   *)

ScalarTypes ==
    [string |-> "string", i32 |-> "int", i64 |-> "long", bool |-> "bool", double |-> "double"]

TypeDescriptor(type, required, fields) == [type |-> type, required |-> required, fields |-> fields]

Resolves(type, known) == type \in DOMAIN ScalarTypes \/ type \in DOMAIN known

resolveThriftTypeDescriptor(type, required, known) ==
    IF type \in DOMAIN ScalarTypes THEN TypeDescriptor(ScalarTypes[type], required, <<>>)
    ELSE TypeDescriptor("object", required, known[type])

parseThriftField(statement, known) ==
    resolveThriftTypeDescriptor(statement[1].type, statement[1].required, known)

FieldsParse(body, known) ==
    \A i \in DOMAIN body : body[i] # <<>> /\ Resolves(body[i][1].type, known)

(* Of two fields of one name the later is kept.                            *)
parseThriftFields(body, known) ==
    [f \in {body[i][1].name : i \in DOMAIN body} |->
        parseThriftField(body[CHOOSE i \in DOMAIN body :
            body[i][1].name = f /\ \A j \in DOMAIN body : body[j][1].name = f => j <= i], known)]

(* A method needs readable parameters and returns a struct.                *)
MethodParses(m, known) ==
    /\ m # <<>>
    /\ FieldsParse(m[1].params, known)
    /\ m[1].returns \in DOMAIN known \ DOMAIN ScalarTypes

ThriftMethod(m, known) ==
    [request |-> parseThriftFields(m.params, known), response |-> known[m.returns]]

ServicesParse(services, known) ==
    \A s \in DOMAIN services : \A m \in DOMAIN services[s] : MethodParses(services[s][m], known)

(* What RegisterThriftFile registers, by registryKey.                      *)
Specs(c, known) ==
    LET services == c.file.services
        keys == UNION {{<<c.target, s, m>> : m \in DOMAIN services[s]} : s \in DOMAIN services}
    IN  [k \in keys |-> ThriftMethod(services[k[2]][k[3]][1], known)]

-----------------------------------------------------------------------------
(* Building the structs                                                    *)

IDLInit ==
    /\ calls \in Loads
    /\ pending = {} /\ structs = <<>> /\ stack = <<>>
    /\ phase = "idle"
    /\ methods = <<>> /\ results = <<>>

RegisterThriftFile ==
    /\ phase = "idle" /\ calls # <<>>
    /\ phase' = "reading"
    /\ pending' = DOMAIN rawStructs
    /\ UNCHANGED <<calls, structs, stack, methods, results>>

(* The call returns; what it built is garbage.                             *)
Return(result) ==
    /\ results' = Append(results, [call |-> call, result |-> result, known |-> structs])
    /\ calls' = Tail(calls)
    /\ phase' = "idle"
    /\ pending' = {} /\ structs' = <<>> /\ stack' = <<>>

Frame(name) == [name |-> name, todo |-> DOMAIN rawStructs, lazy |-> <<>>]
top == Head(stack)
visiting == {stack[i].name : i \in DOMAIN stack}
With(f, name, fields) == [n \in DOMAIN f \cup {name} |-> IF n = name THEN fields ELSE f[n]]

(* The loop of parseThriftStructs takes a name; it is built if it is not   *)
(* known yet.                                                              *)
TakeName(n) ==
    /\ phase = "reading" /\ stack = <<>> /\ n \in pending
    /\ pending' = pending \ {n}
    /\ stack' = IF n \in DOMAIN structs THEN <<>> ELSE <<Frame(n)>>
    /\ UNCHANGED <<calls, structs, phase, methods, results>>

(* The loop of lazyStructs takes a name that is known ...                  *)
TakeKnown(n) ==
    /\ stack # <<>> /\ n \in top.todo \cap DOMAIN structs
    /\ stack' = <<[top EXCEPT !.todo = @ \ {n}, !.lazy = With(@, n, structs[n])]>> \o Tail(stack)
    /\ UNCHANGED <<calls, pending, structs, phase, methods, results>>

(* Mutants: a struct in itself is taken to be empty; it is tried for ever. *)
TakeCyclicAsEmpty(n) ==
    /\ stack # <<>> /\ n \in (top.todo \cap visiting) \ DOMAIN structs
    /\ stack' = <<[top EXCEPT !.todo = @ \ {n}, !.lazy = With(@, n, <<>>)]>> \o Tail(stack)
    /\ UNCHANGED <<calls, pending, structs, phase, methods, results>>
RetryCyclic(n) ==
    /\ stack # <<>> /\ n \in (top.todo \cap visiting) \ DOMAIN structs
    /\ UNCHANGED idlVars

(* ... or is being built: the error "cyclic thrift struct reference" is    *)
(* dropped ...                                                             *)
TakeCyclic(n) ==
    /\ stack # <<>> /\ n \in (top.todo \cap visiting) \ DOMAIN structs
    /\ stack' = <<[top EXCEPT !.todo = @ \ {n}]>> \o Tail(stack)
    /\ UNCHANGED <<calls, pending, structs, phase, methods, results>>

(* ... or is to be built first.                                            *)
TakeUnknown(n) ==
    /\ stack # <<>> /\ n \in top.todo \ (visiting \cup DOMAIN structs)
    /\ stack' = <<Frame(n), [top EXCEPT !.todo = @ \ {n}]>> \o Tail(stack)
    /\ UNCHANGED <<calls, pending, structs, phase, methods, results>>

Tried == stack # <<>> /\ top.todo = {}
Readable == FieldsParse(rawStructs[top.name], top.lazy)

(* With every name tried the body is read: the struct is known, also to    *)
(* the building that asked for it.                                         *)
Build ==
    LET fields == parseThriftFields(rawStructs[top.name], top.lazy)
        below  == Tail(stack)
    IN  /\ Tried /\ Readable
        /\ structs' = With(structs, top.name, fields)
        /\ stack' = [i \in DOMAIN below |->
                        IF i = 1 THEN [below[1] EXCEPT !.lazy = With(@, top.name, fields)] ELSE below[i]]
        /\ UNCHANGED <<calls, pending, phase, methods, results>>

(* An error is dropped by lazyStructs and returned by parseThriftStructs.  *)
BuildFails ==
    /\ Tried /\ ~Readable
    /\ IF Len(stack) > 1
       THEN stack' = Tail(stack) /\ UNCHANGED <<calls, pending, structs, phase, results>>
       ELSE Return("failed")
    /\ UNCHANGED methods

(* Mutant: a method that is registered already is kept.                    *)
ReadServicesKeeping ==
    /\ phase = "reading" /\ stack = <<>> /\ pending = {}
    /\ IF ServicesParse(call.file.services, structs)
       THEN LET specs == Specs(call, structs)
            IN  /\ methods' = [k \in DOMAIN specs \cup DOMAIN methods |->
                                  IF k \in DOMAIN methods THEN methods[k] ELSE specs[k]]
                /\ Return("ok")
       ELSE Return("failed") /\ UNCHANGED methods

(* With all structs known the services are read and their methods          *)
(* registered, over those of the same key.                                 *)
ReadServices ==
    /\ phase = "reading" /\ stack = <<>> /\ pending = {}
    /\ IF ServicesParse(call.file.services, structs)
       THEN LET specs == Specs(call, structs)
            IN  /\ methods' = [k \in DOMAIN specs \cup DOMAIN methods |->
                                  IF k \in DOMAIN specs THEN specs[k] ELSE methods[k]]
                /\ Return("ok")
       ELSE Return("failed") /\ UNCHANGED methods

Step ==
    \/ \E n \in pending : TakeName(n)
    \/ stack # <<>> /\ \E n \in top.todo : TakeKnown(n) \/ TakeCyclic(n) \/ TakeUnknown(n)
    \/ Build
    \/ BuildFails
    \/ ReadServices

IDLNext == RegisterThriftFile \/ Step

(* A call that has begun is not kept from going on.                        *)
IDLSpec == IDLInit /\ [][IDLNext]_idlVars /\ WF_idlVars(Step)

-----------------------------------------------------------------------------
(* Reference: a struct can be described when each of its statements is a   *)
(* field of a scalar type or of a struct that can be described.            *)

Describable(file) ==
    LET names == DOMAIN file.structs
        Within(S) == {n \in names : \A i \in DOMAIN file.structs[n] :
                          /\ file.structs[n][i] # <<>>
                          /\ file.structs[n][i][1].type \in S \cup DOMAIN ScalarTypes}
    IN  {n \in names : \A S \in SUBSET names : Within(S) \subseteq S => n \in S}

IsDescription(known, file) ==
    \A n \in DOMAIN known :
        FieldsParse(file.structs[n], known) /\ known[n] = parseThriftFields(file.structs[n], known)

-----------------------------------------------------------------------------
(* Properties                                                              *)

(* Whether a file is accepted depends on the file only, and not on the     *)
(* order in which Go iterates over the maps: exactly when every struct can *)
(* be described and every method read.  Errors that lazyStructs dropped    *)
(* on the way neither make it fail nor let it pass.                        *)
AcceptsWhatIsDescribable ==
    \A i \in DOMAIN results :
        LET file == results[i].call.file
            names == DOMAIN file.structs
        IN  results[i].result = "ok" <=>
                /\ Describable(file) = names
                /\ \A s \in DOMAIN file.services : \A m \in DOMAIN file.services[s] :
                       LET method == file.services[s][m]
                       IN  /\ method # <<>> /\ method[1].returns \in names \ DOMAIN ScalarTypes
                           /\ \A j \in DOMAIN method[1].params :
                                  /\ method[1].params[j] # <<>>
                                  /\ method[1].params[j][1].type \in names \cup DOMAIN ScalarTypes

(* LookupMethod finds a method exactly when an accepted file declared it   *)
(* for that target, and then as the last such file did; a file that is     *)
(* refused leaves no method behind.  What it finds describes every struct  *)
(* inside the method as its file does, to the innermost, whatever failed   *)
(* or was in progress when the struct was first built.                     *)
LookupFindsTheLatest ==
    LET accepted == {i \in DOMAIN results : results[i].result = "ok"}
        Declared(i) == Specs(results[i].call, results[i].known)
        Declaring(k) == {i \in accepted : k \in DOMAIN Declared(i)}
        Last(k) == CHOOSE i \in Declaring(k) : \A j \in Declaring(k) : j <= i
    IN  /\ methods = [k \in UNION {DOMAIN Declared(i) : i \in accepted} |-> Declared(Last(k))[k]]
        /\ \A i \in accepted :
               /\ DOMAIN results[i].known = DOMAIN results[i].call.file.structs
               /\ IsDescription(results[i].known, results[i].call.file)

(* Every call returns: dropped cycles cannot make the recursion go round.  *)
CallsReturn == [](phase = "reading" => <>(phase = "idle"))
=============================================================================
