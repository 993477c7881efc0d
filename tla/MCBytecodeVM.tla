--------------------------- MODULE MCBytecodeVM ---------------------------
(* Instance of BytecodeVM: every program of up to three instructions over  *)
(* an alphabet with valid and invalid operands, and longer programs of the *)
(* shapes the compiler emits.                                              *)
EXTENDS BytecodeVM

MCSubstring == {<<0, 0>>, <<0, 1>>, <<0, 2>>, <<1, 1>>, <<1, 2>>, <<2, 2>>}

Alphabet ==
    {Instr("PUSH_CONST", i, 0) : i \in {0, 1, 9}}
    \cup {Instr("LOAD_FACTOR", i, 0) : i \in {0, 7}}
    \cup {Instr("MAKE_LIST", n, 0) : n \in {-1, 1}}
    \cup {Instr("MAKE_MAP", 1, 0)}
    \cup {Instr(op, 0, 0) : op \in {"NOT", "/", "<", "HALT"}}
    \cup {Instr("JUMP", t, 0) : t \in {-1, 0, 3}}
    \cup {Instr("JUMP_IF_FALSE", 2, 0), Instr("JUMP_IF_FALSE", 9, 0), Instr("JUMP_IF_TRUE", 0, 0)}
    \cup {Instr("CALL_BUILTIN", 0, 1), Instr("CALL_BUILTIN", 0, 2), Instr("CALL_BUILTIN", 1, -1),
          Instr("CALL_BUILTIN", 8, 0), Instr("CALL_BUILTIN", 2, 1)}

(* flag && (n < n), as the compiler emits it.                              *)
ShortCircuit == <<Instr("LOAD_FACTOR", 0, 0), Instr("JUMP_IF_FALSE", 6, 0),
                  Instr("LOAD_FACTOR", 1, 0), Instr("LOAD_FACTOR", 1, 0), Instr("<", 0, 0),
                  Instr("JUMP", 7, 0), Instr("PUSH_CONST", 2, 0)>>

(* flag ? -n : isEmpty([n]).                                               *)
Conditional == <<Instr("LOAD_FACTOR", 0, 0), Instr("JUMP_IF_FALSE", 5, 0),
                 Instr("LOAD_FACTOR", 1, 0), Instr("NEG", 0, 0), Instr("JUMP", 8, 0),
                 Instr("LOAD_FACTOR", 1, 0), Instr("MAKE_LIST", 1, 0), Instr("CALL_BUILTIN", 1, 1)>>

(* get({"a": n}, "a") with a pool entry for the key.                       *)
MapAccess == <<Instr("PUSH_CONST", 3, 0), Instr("LOAD_FACTOR", 1, 0), Instr("MAKE_MAP", 1, 0),
               Instr("PUSH_CONST", 3, 0), Instr("CALL_BUILTIN", 0, 2)>>

(* flag || flag.                                                           *)
Disjunction == <<Instr("LOAD_FACTOR", 0, 0), Instr("JUMP_IF_TRUE", 4, 0),
                 Instr("LOAD_FACTOR", 0, 0), Instr("JUMP", 5, 0), Instr("PUSH_CONST", 0, 0)>>

(* A list of three: one operand more than the stack budget allows.         *)
TooDeep == <<Instr("PUSH_CONST", 0, 0), Instr("PUSH_CONST", 0, 0), Instr("PUSH_CONST", 0, 0),
             Instr("MAKE_LIST", 3, 0)>>

Codes == UNION {[1..n -> Alphabet] : n \in 0..3}
         \cup {ShortCircuit, Conditional, MapAccess, Disjunction, TooDeep}

MCPrograms ==
    {[code      |-> code,
      consts    |-> <<Bool(TRUE), GoInt(0), Bool(FALSE), Str(1)>>,
      accessors |-> <<Accessor("flag", <<>>), Accessor("n", <<2>>)>>,
      builtins  |-> <<"get", "isEmpty", "sum">>] : code \in Codes}

MCContexts ==
    {("flag" :> Bool(TRUE)) @@ ("n" :> GoLong(1)),
     ("flag" :> Null) @@ ("n" :> Map(2 :> Str(1)))}
=============================================================================
