--------------------------------- MODULE Jit ---------------------------------
(***************************************************************************)
(* jitter_jit_method (heap.c 991-1573) compiling one CIL method: the      *)
(* evaluation stack the JIT keeps at compile time (ctx->stack), the       *)
(* register and shadow-frame slot each stack item is given by jit_push    *)
(* and jit_pop, the temp registers, and the shadow frame set up at the    *)
(* end.  One action per opcode handler of the switch, each with every     *)
(* push, pop, CHECK and emitted call it makes; the emitted MIR is kept    *)
(* only as what the GC observes (spec 4.4): the calls, which are          *)
(* safepoints, the set_top_frame links and the frame slots used.          *)
(*                                                                         *)
(* Types are the intermediate types of the stack (get_intermediate_type   *)
(* is the identity on them).  The type descriptor flags are consumed,     *)
(* not computed, by the code: is_value_type of a pointer type is the      *)
(* constant PtrIsValueType.  A CHECK failure aborts the compilation       *)
(* (status "error"), ASSERT(false) halts the kernel ("assert"), and an    *)
(* arrpop/arrlast of an empty stb_ds array or a fetch past the IL is      *)
(* undefined behaviour ("ub").  All three end the behaviour.             *)
(***************************************************************************)
EXTENDS Integers, Sequences, SequencesExt, FiniteSets

CONSTANTS
  Methods,         \* the methods compiled: [params, ret, code]
  PtrIsValueType   \* type->is_value_type of a pointer type

Types == {"int", "long", "nint", "double", "ptr", "object", "C", "string"}

VARIABLES
  method,      \* the method_info being compiled
  pc,          \* index of the next CIL instruction in method.code
  ctx,         \* ctx->stack: [stack, i, o, temp, max_o], the slots used,
               \* and tref: the temps holding a reference no slot holds
  might_throw, \* might_throw_exception
  linked,      \* a set_top_frame(ctx->stack.frame) has been emitted
  safepoints,  \* the emitted calls: [site, unrooted], unrooted = how
               \* many temps of tref are live across the call
  frame,       \* the frame prepended at the end: [alloc, count]
  status       \* "run", "done", "error", "assert", "ub"

vars == <<method, pc, ctx, might_throw, linked, safepoints, frame, status>>

IsPrimitive(t) == t \in {"int", "long", "nint", "double"}
IsPointer(t) == t = "ptr"
IsValueType(t) == IsPrimitive(t) \/ (IsPointer(t) /\ PtrIsValueType)

\* is_by_ref || is_pointer (no by-ref values are modelled)
PtrLike(t) == IsPointer(t)

\* type_has_field and is_type_assignable_to (not in src/; spec 3)
type_has_field(t, f) == t = f.decl
is_type_assignable_to(t, ft) == t = ft \/ (ft = "object" /\ ~IsValueType(t))

-----------------------------------------------------------------------------
(* The evaluation stack.                                                   *)

\* jit_push_temp / jit_pop_temp
PushTemp(c) == [c EXCEPT !.temp = @ + 1]
PopTemp(c) == [c EXCEPT !.temp = @ - 1]

\* jit_push: primitives and pointers get register si<i>, references the
\* frame slot objects[o]; max_o grows when o reaches it.  (The ASSERT for
\* a non-primitive value type is unreachable: no such type is modelled.)
JitPush(c, t) ==
  IF IsPrimitive(t) \/ IsPointer(t)
    THEN [c EXCEPT !.stack = Append(@, [type |-> t, op |-> <<"si", c.i>>]),
                   !.i = @ + 1]
    ELSE [c EXCEPT !.stack = Append(@, [type |-> t, op |-> <<"slot", c.o>>]),
                   !.o = @ + 1,
                   !.max_o = IF c.o = c.max_o THEN @ + 1 ELSE @,
                   !.used = @ \cup {c.o}]

\* what arrpop / the ASSERT of jit_pop do to c
PopFault(c) ==
  IF c.stack = <<>> THEN "ub"
  ELSE LET t == Last(c.stack).type
       IN IF ~IsPrimitive(t) /\ IsValueType(t) THEN "assert" ELSE "none"

\* jit_pop: a primitive gives back its register, a reference its slot
JitPop(c) ==
  LET t == Last(c.stack).type
  IN [c EXCEPT !.stack = Front(@),
               !.i = IF IsPrimitive(t) THEN @ - 1 ELSE @,
               !.o = IF ~IsPrimitive(t) /\ ~IsValueType(t) THEN @ - 1 ELSE @]

\* n jit_pops without a length check (the argument loops of call and
\* newobj): the fault of the first pop that faults, or the popped context
RECURSIVE PopN(_, _)
PopN(c, n) ==
  IF n <= 0 THEN [fault |-> "none", ctx |-> c]
  ELSE IF PopFault(c) # "none" THEN [fault |-> PopFault(c), ctx |-> c]
  ELSE PopN(JitPop(c), n - 1)

Top(c) == Last(c.stack).type

\* the object references a call made with stack c leaves only in temps:
\* stack items live in registers (primitives, pointers) or frame slots,
\* and the base temps of ldfld / stfld copy a slot that still holds it
Unrooted(c) == Cardinality(c.tref)

-----------------------------------------------------------------------------
(* validate_binary_comparison_or_branch                                    *)

EqOps == {"beq", "bne_un", "ceq"}

validate_binary_comparison_or_branch(a, b, opc) ==
  CASE a = "int"    -> b \in {"int", "nint"}
    [] a = "long"   -> b = "long"
    [] a = "nint"   -> (opc \in EqOps /\ PtrLike(b)) \/ b \in {"int", "nint"}
    [] a = "double" -> b = "double"
    [] PtrLike(a)   -> (opc \in EqOps /\ b = "nint") \/ PtrLike(b)
    [] ~IsValueType(a) -> ~IsValueType(b)
    [] OTHER -> FALSE
-----------------------------------------------------------------------------
(* The opcode handlers.                                                    *)

\* setup_mir_func_info, called before the loop: parameters of any type
\* become MIR vars, but a return type that is a value type and not a
\* primitive is a CHECK_FAIL ("TODO: support value type returns")
SetupFails(m) == m.ret # "void" /\ ~IsPrimitive(m.ret) /\ IsValueType(m.ret)

Init ==
  /\ method \in Methods
  /\ pc = 1
  /\ ctx = [stack |-> <<>>, i |-> 0, o |-> 0, temp |-> 0, max_o |-> 0, used |-> {},
             tref |-> {}]
  /\ might_throw = FALSE
  /\ linked = FALSE
  /\ safepoints = {}
  /\ frame = [alloc |-> FALSE, count |-> 0]
  /\ status = IF SetupFails(method) THEN "error" ELSE "run"

\* the loop head: the instruction at pc has opcode op
Fetch(op) == status = "run" /\ pc <= Len(method.code) /\ method.code[pc][1] = op
Arg == method.code[pc][2]

\* the handler ends the compilation: CHECK failed, ASSERT, or undefined
Abort(s) ==
  /\ status' = s
  /\ UNCHANGED <<method, pc, ctx, might_throw, linked, safepoints, frame>>

\* the handler leaves the stack as c and emits no call
Goon(c) ==
  /\ ctx' = c /\ pc' = pc + 1
  /\ UNCHANGED <<method, might_throw, linked, safepoints, frame, status>>

\* the first iteration of the do-while fetches an opcode even when the
\* method has no IL
fetch_past_end ==
  /\ status = "run" /\ pc = 1 /\ Len(method.code) = 0
  /\ Abort("ub")

\* ldc.i4 / ldc.i8: push an int32 / int64
ldc == Fetch("ldc") /\ Goon(JitPush(ctx, Arg))

ldnull == Fetch("ldnull") /\ Goon(JitPush(ctx, "object"))

ldstr == Fetch("ldstr") /\ Goon(JitPush(ctx, "string"))

nop == Fetch("nop") /\ Goon(ctx)

\* ldarg: CHECK(i4 < parameters_count), push the parameter's type, then
\* CHECK_FAIL("TODO: value type arguments") unless it is a primitive or a
\* reference type
ldarg ==
  /\ Fetch("ldarg")
  /\ IF Arg >= Len(method.params) THEN Abort("error")
     ELSE LET t == method.params[Arg + 1] IN
          IF ~IsPrimitive(t) /\ IsValueType(t) THEN Abort("error")
          ELSE Goon(JitPush(ctx, t))

\* pop: jit_pop with no length check
pop ==
  /\ Fetch("pop")
  /\ IF PopFault(ctx) # "none" THEN Abort(PopFault(ctx)) ELSE Goon(JitPop(ctx))

\* ret: pop the return value of a non-void method (no length check),
\* CHECK_FAIL on a value-type return; the loop goes on after it
ret ==
  /\ Fetch("ret")
  /\ IF method.ret = "void" THEN Goon(ctx)
     ELSE IF PopFault(ctx) # "none" THEN Abort(PopFault(ctx))
     ELSE IF ~IsPrimitive(method.ret) /\ IsValueType(method.ret) THEN Abort("error")
     ELSE Goon(JitPop(ctx))

\* dup: CHECK(len >= 1), push the top's type (the MOV's source is the
\* stack_item_t itself, not its operand: not observed here)
dup ==
  /\ Fetch("dup")
  /\ IF ctx.stack = <<>> THEN Abort("error") ELSE Goon(JitPush(ctx, Top(ctx)))

\* conv.* and conv.ovf.*: arrlast without a length check, CHECK the source
\* type, pop it, push the target type
conv ==
  /\ Fetch("conv")
  /\ IF ctx.stack = <<>> THEN Abort("ub")
     ELSE IF ~(IsPointer(Top(ctx)) \/ Top(ctx) \in {"int", "nint", "long"})
       THEN Abort("error")
     ELSE IF PopFault(ctx) # "none" THEN Abort(PopFault(ctx))
     ELSE Goon(JitPush(JitPop(ctx), Arg))

\* b<cc>: CHECK(len >= 2), pop b then a, CHECK that they may be compared
bcc ==
  /\ Fetch("bcc")
  /\ IF Len(ctx.stack) < 2 THEN Abort("error")
     ELSE LET b == Top(ctx)
              a == ctx.stack[Len(ctx.stack) - 1].type
              r == PopN(ctx, 2)
          IN IF r.fault # "none" THEN Abort(r.fault)
             ELSE IF ~validate_binary_comparison_or_branch(a, b, Arg) THEN Abort("error")
             ELSE Goon(r.ctx)

\* mutant: call without might_throw_exception = true
call_no_throw ==
  /\ Fetch("call")
  /\ LET m == Arg
         r == PopN(ctx, Len(m.params))
     IN IF r.fault # "none" THEN Abort(r.fault)
        ELSE /\ ctx' = IF m.ret = "void" THEN r.ctx ELSE JitPush(r.ctx, m.ret)
             /\ pc' = pc + 1
             /\ linked' = TRUE
             /\ safepoints' = safepoints \cup {[site |-> "call", unrooted |-> Unrooted(r.ctx)]}
             /\ UNCHANGED <<method, might_throw, frame, status>>

\* call: might throw; pop the arguments (no length check), push the
\* result, emit the call and then set_top_frame(frame)
call ==
  /\ Fetch("call")
  /\ LET m == Arg
         r == PopN(ctx, Len(m.params))
     IN IF r.fault # "none" THEN Abort(r.fault)
        ELSE /\ ctx' = IF m.ret = "void" THEN r.ctx ELSE JitPush(r.ctx, m.ret)
             /\ pc' = pc + 1
             /\ might_throw' = TRUE
             /\ linked' = TRUE
             /\ safepoints' = safepoints \cup {[site |-> "call", unrooted |-> Unrooted(r.ctx)]}
             /\ UNCHANGED <<method, frame, status>>

\* jit_newobj: a temp register t is taken and receives gc_new's result,
\* so from the gc_new call on t holds the new object; the constructor's
\* arguments but `this` are popped and the constructor is called with t,
\* then set_top_frame.  The temp is not released (out_reg is given).
jit_newobj(c, m) ==
  LET t == c.temp
      c1 == PushTemp(c)
  IN [gc_new |-> Unrooted(c1),
      args |-> PopN([c1 EXCEPT !.tref = @ \cup {t}], Len(m.params) - 1)]

\* the NEWOBJ case: jit_newobj, then jit_push of the declaring type and
\* a MOV of the temp into the pushed frame slot
newobj ==
  /\ Fetch("newobj")
  /\ LET m == Arg
         t == ctx.temp
         n == jit_newobj(ctx, m)
         r == n.args
     IN IF r.fault # "none" THEN Abort(r.fault)
        ELSE /\ ctx' = [JitPush(r.ctx, m.decl) EXCEPT !.tref = @ \ {t}]
             /\ pc' = pc + 1
             /\ linked' = TRUE
             /\ safepoints' = safepoints \cup {[site |-> "gc_new", unrooted |-> n.gc_new],
                                               [site |-> "ctor", unrooted |-> Unrooted(r.ctx)]}
             /\ UNCHANGED <<method, might_throw, frame, status>>

\* ldfld: CHECK(len >= 1), CHECK the object is a reference with the
\* field, pop it, load through a temp base register, push the field type
ldfld ==
  /\ Fetch("ldfld")
  /\ LET f == Arg IN
     IF ctx.stack = <<>> THEN Abort("error")
     ELSE IF IsValueType(Top(ctx)) \/ ~type_has_field(Top(ctx), f) THEN Abort("error")
     ELSE IF f.static THEN Abort("error")
     ELSE Goon(PopTemp(JitPush(PushTemp(JitPop(ctx)), f.type)))

\* stfld: CHECK(len >= 2), CHECK the value is assignable and pop it, CHECK
\* the object is a reference with the field and pop it, store through a
\* temp base register
stfld ==
  /\ Fetch("stfld")
  /\ LET f == Arg IN
     IF Len(ctx.stack) < 2 THEN Abort("error")
     ELSE IF ~is_type_assignable_to(Top(ctx), f.type) THEN Abort("error")
     ELSE IF PopFault(ctx) # "none" THEN Abort(PopFault(ctx))
     ELSE LET c1 == JitPop(ctx) IN
          IF IsValueType(Top(c1)) \/ ~type_has_field(Top(c1), f) THEN Abort("error")
          ELSE IF f.static THEN Abort("error")
          ELSE Goon(PopTemp(PushTemp(JitPop(c1))))

\* default: CHECK_FAIL("Invalid opcode!")
invalid == Fetch("invalid") /\ Abort("error")

\* after the loop: the frame is prepended when the method might throw or
\* has object slots, with object_count = max_o
finish ==
  /\ status = "run" /\ pc > Len(method.code) /\ Len(method.code) > 0
  /\ frame' = [alloc |-> might_throw \/ ctx.max_o > 0, count |-> ctx.max_o]
  /\ status' = "done"
  /\ UNCHANGED <<method, pc, ctx, might_throw, linked, safepoints>>

Next ==
  \/ fetch_past_end \/ ldc \/ ldnull \/ ldstr \/ nop \/ ldarg \/ pop \/ ret
  \/ dup \/ conv \/ bcc \/ call \/ newobj \/ ldfld \/ stfld \/ invalid
  \/ finish

Spec == Init /\ [][Next]_vars

-----------------------------------------------------------------------------
(* Properties.                                                             *)

TypeOK ==
  /\ ctx.i \in Nat /\ ctx.o \in Nat /\ ctx.temp \in Nat /\ ctx.max_o \in Nat
  /\ ctx.tref \subseteq 0..(ctx.temp - 1)
  /\ \A k \in DOMAIN ctx.stack : ctx.stack[k].type \in Types
  /\ frame \in [alloc : BOOLEAN, count : Nat]
  /\ status \in {"run", "done", "error", "assert", "ub"}

\* the operand spec 4.4 gives the k-th stack item: primitives and
\* pointers in the registers, references in the frame, each numbered by
\* its depth among the items of its kind
InReg(t) == IsPrimitive(t) \/ IsPointer(t)
Below(k, r) == Cardinality({j \in 1..(k - 1) : InReg(ctx.stack[j].type) = r})
Home(k) ==
  LET r == InReg(ctx.stack[k].type)
  IN <<IF r THEN "si" ELSE "slot", Below(k, r)>>

(* The counters jit_push and jit_pop keep (stack.i, stack.o) always      *)
(* describe the stack: every item sits in its own register or frame slot *)
(* and the next push goes right above the items of its kind.  A push     *)
(* and the pop of the same item must agree on which counter they move.  *)
(* Checked by jit_pointer.cfg only, with pointers as reference types:    *)
(* jit_push puts a pointer in a register and jit_pop then decrements o.  *)
(* With pointers as value types no pointer reaches the stack (ldarg      *)
(* CHECK_FAILs first) and the property holds by the shape of the pair.   *)
OperandsMatchStack ==
  status = "run" =>
    /\ \A k \in DOMAIN ctx.stack : ctx.stack[k].op = Home(k)
    /\ ctx.i = Below(Len(ctx.stack) + 1, TRUE)
    /\ ctx.o = Below(Len(ctx.stack) + 1, FALSE)

(* Spec 4.4: a method that links its frame (set_top_frame after a call)  *)
(* or keeps references in frame slots allocates the frame on entry, and  *)
(* its object_count covers every slot the compiled code uses.            *)
FrameCoversUse ==
  status = "done" =>
    /\ (linked \/ ctx.used # {}) => frame.alloc
    /\ frame.alloc => ctx.used \subseteq 0..(frame.count - 1)

(* Spec 4.4: gc_new's result is stored to a shadow-frame slot at once:   *)
(* at every call the compiled code makes, which can reach gc_new and the *)
(* collector, no object reference is held only in a register.            *)
RefsRootedAtSafepoints == \A sp \in safepoints : sp.unrooted = 0

(* Spec 6: the JIT's sanity checks reject malformed IL with an error: it *)
(* never pops or reads an empty evaluation stack and never fetches past  *)
(* the end of the IL.                                                     *)
ReadsWithinBounds == status # "ub"
====
