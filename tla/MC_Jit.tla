-------------------------------- MODULE MC_Jit --------------------------------
(* Jit over every method of at most MaxCode instructions drawn from a     *)
(* small instruction set: each opcode handler with each kind of operand   *)
(* (register and frame-slot types), callees with and without arguments  *)
(* and results, and constructors with and without arguments.            *)
EXTENDS Jit

MaxCode == 3

\* callees: method_info [params, ret]; constructors also name the type
m_void == [params |-> <<>>, ret |-> "void"]
m_int  == [params |-> <<"C">>, ret |-> "int"]
ctor0  == [params |-> <<"C">>, decl |-> "C"]
ctor1  == [params |-> <<"C", "int">>, decl |-> "C"]
f_int  == [type |-> "int", decl |-> "C", static |-> FALSE]
f_obj  == [type |-> "object", decl |-> "C", static |-> FALSE]

MCInstrs ==
  {<<"ldc", "int">>, <<"ldc", "long">>, <<"ldnull", 0>>, <<"ldstr", 0>>,
   <<"nop", 0>>, <<"ldarg", 0>>, <<"ldarg", 1>>, <<"pop", 0>>, <<"ret", 0>>,
   <<"dup", 0>>, <<"conv", "nint">>, <<"bcc", "beq">>, <<"bcc", "blt">>,
   <<"call", m_void>>, <<"call", m_int>>, <<"newobj", ctor0>>,
   <<"newobj", ctor1>>, <<"ldfld", f_int>>, <<"ldfld", f_obj>>,
   <<"stfld", f_int>>, <<"invalid", 0>>}

MCMethods ==
  [params : {<<>>, <<"C", "ptr">>}, ret : {"void", "object", "ptr"},
   code : SeqOf(MCInstrs, MaxCode)]
====
