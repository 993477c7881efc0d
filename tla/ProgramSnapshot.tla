-------------------------- MODULE ProgramSnapshot --------------------------
(***************************************************************************)
(* A compiled rule on its way through a file (compiler_snapshot.go): the   *)
(* program becomes a snapshot, the snapshot JSON, and after a restart the  *)
(* JSON a program again, which the VM runs.  Module PersistentCache says   *)
(* when files are written, read and lost; this one what is in them.        *)
(*                                                                         *)
(* JSON does what encoding/json does to the snapshot types: a member that  *)
(* is tagged omitempty and is zero is not written, and reads as zero, so   *)
(* that -0.0 comes back without its sign; a string, be it a value or a     *)
(* key, loses the bytes that are not UTF-8; infinities cannot be written.  *)
(* What a program only copies (its instructions, builtins and result type) *)
(* is left as it is.                                                       *)
(***************************************************************************)
EXTENDS RuleExecution

CONSTANTS
    Coerced,    \* rank -> rank of the string that JSON makes of it
    Stored      \* the trees whose programs are also saved and restored

VARIABLES
    file,   \* the program in the entry, or NoFile
    phase   \* "compiled", "saved", or "restarted"

snapshotVars == <<ruleVars, file, phase>>

ASSUME CoercedAssumption == \A r \in DOMAIN Coerced : Coerced[Coerced[r]] = Coerced[r]

NoFile == <<>>

EachOf(seq, F(_)) == [i \in DOMAIN seq |-> F(seq[i])]

-----------------------------------------------------------------------------
(* Snapshots                                                               *)

(* valueSnapshot, all of its members zero.                                 *)
ZeroSnapshot == [kind |-> "", bool |-> FALSE, string |-> 0, int |-> 0, int64 |-> 0,
                 double |-> <<0, 1>>, list |-> <<>>, map |-> <<>>]

(* The kind of a value, which is also the member that holds it.            *)
(* Mutant: an int is kept as an int64.                                     *)
KindWidened(v) == CASE Tag(v) \in {"int", "long"} -> "int64" [] OTHER -> Tag(v)
KindOf(v) == CASE Tag(v) = "long" -> "int64" [] OTHER -> Tag(v)

RECURSIVE snapshotValue(_)
snapshotValue(v) ==
    LET kind == KindOf(v)
    IN  CASE kind = "null" -> [ZeroSnapshot EXCEPT !.kind = kind]
          [] kind \in {"list", "map"} ->
               [ZeroSnapshot EXCEPT !.kind = kind, ![kind] = EachOf(Payload(v), snapshotValue)]
          [] OTHER -> [ZeroSnapshot EXCEPT !.kind = kind, ![kind] = Payload(v)]

RECURSIVE restoreValue(_)
restoreValue(s) ==
    CASE s.kind = "null"  -> Ok(Null)
      [] s.kind = "int64" -> Ok(GoLong(s.int64))
      [] s.kind \in {"bool", "string", "int", "double"} -> Ok(<<s.kind, s[s.kind]>>)
      [] s.kind \in {"list", "map"} ->
           LET parts == EachOf(s[s.kind], restoreValue)
           IN  IF \A i \in DOMAIN parts : IsOk(parts[i])
               THEN Ok(<<s.kind, EachOf(parts, LAMBDA part : part.value)>>)
               ELSE Fail("DEFINITION_INVALID")
      [] OTHER -> Fail("DEFINITION_INVALID")

snapshotAccessor(a) == [kind |-> "factor", factor |-> a.factor, steps |-> a.steps]

restoreAccessor(s) ==
    IF s.kind = "factor" THEN Ok(Accessor(s.factor, s.steps)) ELSE Fail("DEFINITION_INVALID")

snapshotBytecodeProgram(p) ==
    [p EXCEPT !.consts = EachOf(@, snapshotValue), !.accessors = EachOf(@, snapshotAccessor)]

(* Mutant: what cannot be restored is nil.                                 *)
restoreAnything(s) ==
    LET consts == EachOf(s.consts, restoreValue)
        accessors == EachOf(s.accessors, LAMBDA a : Accessor(a.factor, a.steps))
    IN  Ok([s EXCEPT !.consts = EachOf(consts, LAMBDA r : r.value), !.accessors = accessors])

restoreBytecodeProgram(s) ==
    LET consts == Collect(EachOf(s.consts, restoreValue))
        accessors == Collect(EachOf(s.accessors, restoreAccessor))
    IN  IF IsOk(consts) /\ IsOk(accessors)
        THEN Ok([s EXCEPT !.consts = consts.value, !.accessors = accessors.value])
        ELSE Fail("DEFINITION_INVALID")

-----------------------------------------------------------------------------
(* JSON                                                                    *)

(* Keys are written in their order, and the last of those that read alike  *)
(* is read.                                                                *)
Coerce(f) ==
    LET behind(r) == {k \in DOMAIN f : Coerced[k] = r}
    IN  [r \in {Coerced[k] : k \in DOMAIN f} |-> f[Max(behind(r))]]

(* omitempty takes 0.0 and -0.0 alike.                                     *)
IsZero(s, m) == IF m = "double" THEN FracEqual(s.double, <<0, 1>>) ELSE s[m] = ZeroSnapshot[m]

(* What is written of a valueSnapshot, and what is read of that.           *)
RECURSIVE Written(_)
Written(s) ==
    LET member(m) == CASE m = "string" -> Coerced[s.string]
                       [] m = "list"   -> EachOf(s.list, Written)
                       [] m = "map"    -> EachOf(Coerce(s.map), Written)
                       [] OTHER        -> s[m]
    IN  [m \in {"kind"} \cup {m \in DOMAIN s \ {"kind"} : ~IsZero(s, m)} |-> member(m)]

RECURSIVE Read(_)
Read(json) ==
    LET member(m) == IF m \in {"list", "map"} THEN EachOf(json[m], Read) ELSE json[m]
    IN  [m \in DOMAIN ZeroSnapshot |-> IF m \in DOMAIN json THEN member(m) ELSE ZeroSnapshot[m]]

RECURSIVE IsWritable(_)
IsWritable(s) ==
    /\ s.double[2] # 0
    /\ \A i \in DOMAIN s.list : IsWritable(s.list[i])
    /\ \A k \in DOMAIN s.map : IsWritable(s.map[k])

CoerceSteps(a) == [a EXCEPT !.steps = EachOf(@, LAMBDA r : Coerced[r])]

(* json.Marshal in FileProgramStore.Save, whose error Set drops.           *)
Marshal(s) ==
    IF \A i \in DOMAIN s.consts : IsWritable(s.consts[i])
    THEN [s EXCEPT !.consts = EachOf(@, Written), !.accessors = EachOf(@, CoerceSteps)]
    ELSE NoFile

Unmarshal(json) == [json EXCEPT !.consts = EachOf(@, Read)]

-----------------------------------------------------------------------------
(* BytecodeProgram.Fingerprint, without the result type, which a snapshot  *)
(* copies; SHA-256 is taken to have no collision.                          *)
Fingerprint(p) == <<p.code, EachOf(p.consts, ConstKey), p.accessors, p.builtins>>

-----------------------------------------------------------------------------
SnapshotInit ==
    /\ RuleInit
    /\ file = NoFile
    /\ phase = "compiled"

(* PersistentProgramCache.Set, right after the rule was compiled.          *)
Save ==
    /\ phase = "compiled"
    /\ AtStart
    /\ rule \in Stored
    /\ phase' = "saved"
    /\ file' = Marshal(snapshotBytecodeProgram(prog))
    /\ UNCHANGED ruleVars

(* The file comes from a version of the code that knows another kind of    *)
(* value or of accessor.                                                   *)
OtherVersion ==
    /\ phase = "saved"
    /\ file # NoFile
    /\ \/ \E i \in DOMAIN file.consts : file' = [file EXCEPT !.consts[i].kind = "decimal"]
       \/ \E i \in DOMAIN file.accessors : file' = [file EXCEPT !.accessors[i].kind = "path"]
    /\ UNCHANGED <<ruleVars, phase>>

(* After a restart: restored from the file, or else compiled again.        *)
Restart ==
    /\ phase = "saved"
    /\ phase' = "restarted"
    /\ LET restored == IF file = NoFile THEN Fail("NOT_FOUND")
                       ELSE restoreBytecodeProgram(Unmarshal(file))
       IN  prog' = IF IsOk(restored) THEN restored.value ELSE CompileBound(Bound)
    /\ UNCHANGED <<ctx, cancelled, ip, stack, executed, steps, outcome, compileVars, rule, file>>

Run == phase # "saved" /\ RuleNext /\ UNCHANGED <<file, phase>>

SnapshotNext == Save \/ OtherVersion \/ Restart \/ Run

SnapshotSpec == SnapshotInit /\ [][SnapshotNext]_snapshotVars

-----------------------------------------------------------------------------
(* The values of which a value is made, itself among them.                 *)
RECURSIVE PartsOf(_)
PartsOf(v) ==
    {v} \cup IF Tag(v) \in {"list", "map"}
             THEN UNION {PartsOf(Payload(v)[i]) : i \in DOMAIN Payload(v)} ELSE {}

TextsOf(v) ==
    UNION {CASE Tag(part) = "string" -> {Payload(part)}
             [] IsMap(part)          -> DOMAIN Payload(part)
             [] OTHER                -> {} : part \in PartsOf(v)}

(* The parts of the constants of a rule's program.                         *)
ConstantParts ==
    LET p == CompileBound(Bound) IN UNION {PartsOf(p.consts[i]) : i \in DOMAIN p.consts}

(* Every string in the rule's program is UTF-8.                            *)
TextsSurvive ==
    LET p == CompileBound(Bound)
    IN  /\ \A r \in UNION {TextsOf(v) : v \in ConstantParts} : Coerced[r] = r
        /\ \A i \in DOMAIN p.accessors : \A r \in Range(p.accessors[i].steps) : Coerced[r] = r

(* No zero among its constants has a sign.                                 *)
ZerosSurvive == <<"double", NegativeZero>> \notin ConstantParts

(* A value without the signs of its zeros.                                 *)
RECURSIVE Unsigned(_)
Unsigned(v) ==
    CASE v = <<"double", NegativeZero>> -> Double(0, 1)
      [] Tag(v) \in {"list", "map"}     -> <<Tag(v), EachOf(Payload(v), Unsigned)>>
      [] OTHER                          -> v

(* A rule gives what its tree gives, whether its program was just          *)
(* compiled, came from the file after a restart, could not be written, or  *)
(* was written by code that knows other kinds; the limits are those of     *)
(* VMMatchesApart and, for a restored program, that strings be UTF-8.      *)
(* Constants -0.0 come back from the file as 0.0: then the results are the *)
(* same but for signs of zeros, which no comparison and no error tells.    *)
RestoredMeansTheSame ==
    Returned /\ (phase = "restarted" => TextsSurvive) =>
        IF phase = "restarted" /\ ~ZerosSurvive
        THEN BooleanOperands(Bound) /\ PoolIsExact =>
                 LET expected == Eval(Bound, ctx)
                 IN  /\ outcome.code = expected.code
                     /\ Unsigned(outcome.value) = Unsigned(expected.value)
        ELSE VMMatchesApart

(* factorengine_test.go expects the "matching fingerprint": a restored     *)
(* program has the one of the program that was saved, no kind of number    *)
(* and no empty list being lost to omitempty, as long as its strings are   *)
(* UTF-8 and no constant is -0.0.  A constant -0.0 comes back as 0.0, and  *)
(* the fingerprint prints the two apart; nothing else of it changes.       *)
FingerprintSurvivesText ==
    phase = "restarted" /\ AtStart /\ TextsSurvive =>
        LET kept(p) == IF ZerosSurvive THEN p ELSE [p EXCEPT !.consts = EachOf(@, Unsigned)]
        IN  Fingerprint(kept(prog)) = Fingerprint(kept(CompileBound(Bound)))
=============================================================================
