----------------------------- MODULE JitCompiler -----------------------------
(***************************************************************************)
(* The compiler of asm-arm_codegen_compileexpr-1 from infix expressions to *)
(* ARM machine code, and a machine that runs what it emits.                *)
(*                                                                         *)
(* An expression is given as a tree; TextOf is the sequence of tokens that *)
(* a user writes for it.  Addresses and sizes are counted in words.  A     *)
(* word is a pair of its kind and its content: a command with its operand, *)
(* an integer, the address of a variable or of a function.                 *)
(***************************************************************************)
EXTENDS Integers, Sequences, SequencesExt, FiniteSets

CONSTANTS
    Expressions,     \* the trees that are compiled
    Externs,         \* the names of variables and functions, in their order
    VarValue(_),     \* the value of a variable
    Arity(_),        \* the number of arguments a function takes
    Width,           \* bits of a machine word
    BufferWords      \* words of the buffer

Word(n)     == n % 2 ^ Width
Integer(n)  == <<"int", Word(n)>>

\* What the user's functions compute; the order of the arguments matters.
Apply(name, args) == Word(FoldLeft(LAMBDA acc, arg : 3 * acc + arg, Len(args), args))

-----------------------------------------------------------------------------
(* Trees: [op, name, value, args].  op is num, var, call, +, - or *.        *)

RECURSIVE ValueOf(_)
ValueOf(t) ==
    LET arg == [i \in DOMAIN t.args |-> ValueOf(t.args[i])]
    IN  CASE t.op = "num"  -> Word(t.value)
          [] t.op = "var"  -> Word(VarValue(t.name))
          [] t.op = "call" -> Apply(t.name, arg)
          [] t.op = "+"    -> Word(arg[1] + arg[2])
          [] t.op = "-"    -> Word(arg[1] - arg[2])
          [] t.op = "*"    -> Word(arg[1] * arg[2])

Token(type, text, value) == [type |-> type, text |-> text, value |-> value]
OPEN   == Token("OPEN_BRACKET", "", 0)
CLOSE  == Token("CLOSE_BRACKET", "", 0)
COMMA  == Token("COMMA", "", 0)
Minus  == Token("OPERATION", "-", 0)
UNDEFINED == Token("UNDEFINED", "", 0)

Binds(op) == CASE op \in {"+", "-"} -> 1 [] op = "*" -> 2 [] OTHER -> 3
Bracketed(need, tokens) == IF need THEN <<OPEN>> \o tokens \o <<CLOSE>> ELSE tokens

\* With every operation in brackets, or with those that precedence and
\* associativity to the left require.  A minus sign stands before constants only.
RECURSIVE TextOf(_, _)
TextOf(t, full) ==
    LET arg == [i \in DOMAIN t.args |-> TextOf(t.args[i], full)]
        operand(i, need) ==
            Bracketed(Binds(t.args[i].op) < 3 /\ (full \/ need), arg[i])
    IN  CASE t.op = "num" /\ t.value >= 0 -> <<Token("NUMBER", "", t.value)>>
          [] t.op = "num" /\ t.value < 0  -> <<Minus, Token("NUMBER", "", -t.value)>>
          [] t.op = "var"  -> <<Token("NAME", t.name, 0)>>
          [] t.op = "call" ->
               <<Token("NAME", t.name, 0), OPEN>>
                 \o FlattenSeq([i \in DOMAIN arg |-> IF i = 1 THEN arg[i] ELSE <<COMMA>> \o arg[i]])
                 \o <<CLOSE>>
          [] OTHER -> operand(1, Binds(t.args[1].op) < Binds(t.op))
                        \o <<Token("OPERATION", t.op, 0)>>
                        \o operand(2, Binds(t.args[2].op) <= Binds(t.op))

RECURSIVE HasEmptyCall(_)
HasEmptyCall(t) ==
    \/ t.op = "call" /\ t.args = <<>>
    \/ \E i \in DOMAIN t.args : HasEmptyCall(t.args[i])

-----------------------------------------------------------------------------
(* ReversePolishNotation.  Operators named bug_ are mutants of the          *)
(* definition that follows them.                                           *)

Operand(type, name, value) == [type |-> type, name |-> name, value |-> value]

PolizOf(token, args_count) ==
    CASE token.type = "NUMBER"    -> <<Operand("CONSTANT", "", token.value)>>
      [] token.type = "FUNC"      -> <<Operand("FUNCTION", token.text, args_count)>>
      [] token.type = "VAR"       -> <<Operand("VARIABLE", token.text, 0)>>
      [] token.type = "OPERATION" -> <<Operand("MATH_OPERATOR", token.text, 2)>>
      [] OTHER -> <<>>

PushTokenToPoliz(poliz, token, args_count) == poliz \o PolizOf(token, args_count)

\* Moves tokens from the top of the sorting stack to the result, as long as
\* Moves holds of them; the UNDEFINED token at the bottom ends every such loop.
Unload(p, Moves(_)) ==
    LET stays == {i \in DOMAIN p.stack : ~Moves(p.stack[i])}
        top   == CHOOSE i \in stays : \A j \in stays : j <= i
        moved == [i \in 1 .. Len(p.stack) - top |-> PolizOf(p.stack[Len(p.stack) + 1 - i], 0)]
    IN  [p EXCEPT !.stack = SubSeq(@, 1, top), !.poliz = @ \o FlattenSeq(moved)]

\* A name becomes a function or a variable when the token after it is known.
ResolveName(p, token) ==
    CASE p.last.type # "NAME" -> p
      [] p.last.type = "NAME" /\ token.type = "OPEN_BRACKET" ->
           [p EXCEPT !.stack = Append(@, [p.last EXCEPT !.type = "FUNC"]), !.last.type = "FUNC"]
      [] OTHER ->
           [p EXCEPT !.poliz = PushTokenToPoliz(@, [p.last EXCEPT !.type = "VAR"], 0),
                     !.last.type = "VAR"]

ToBracket(p) == Unload(p, LAMBDA token : token.type # "OPEN_BRACKET")

\* A bracket carries the number of arguments read in it, at least 1.
CloseBracket(p) ==
    LET inner == ToBracket(p)
        args_count == Last(inner.stack).value
        rest == Front(inner.stack)
    IN  IF Last(rest).type = "FUNC"
        THEN [inner EXCEPT !.stack = Front(rest),
                           !.poliz = PushTokenToPoliz(@, Last(rest), args_count)]
        ELSE [inner EXCEPT !.stack = rest]

bug_MovesBefore(token, top) == top.type = "OPERATION"

MovesBefore(token, top) == top.type = "OPERATION" /\ (token.text # "*" \/ top.text = "*")

IsUnaryMinus(p, token) ==
    token.text = "-" /\ p.last.type \in {"OPEN_BRACKET", "COMMA", "UNDEFINED", "OPERATION"}

\* The body of the loop of FromInfixString.
TakeToken(before, token) ==
    LET p == ResolveName(before, token)
        q == CASE token.type = "NUMBER" ->
                    [p EXCEPT !.poliz = PushTokenToPoliz(@, [token EXCEPT !.value =
                                            IF p.unary_minus THEN -@ ELSE @], 0),
                              !.unary_minus = FALSE]
               [] token.type = "COMMA" ->
                    LET inner == ToBracket(p)
                    IN  [inner EXCEPT !.stack[Len(inner.stack)].value = @ + 1]
               [] token.type = "OPEN_BRACKET" ->
                    [p EXCEPT !.stack = Append(@, [token EXCEPT !.value = 1])]
               [] token.type = "CLOSE_BRACKET" -> CloseBracket(p)
               [] token.type = "OPERATION" /\ IsUnaryMinus(p, token) ->
                    [p EXCEPT !.unary_minus = TRUE]
               [] token.type = "OPERATION" /\ ~IsUnaryMinus(p, token) ->
                    LET r == Unload(p, LAMBDA top : MovesBefore(token, top))
                    IN  [r EXCEPT !.stack = Append(@, token)]
               [] OTHER -> p
    IN  [q EXCEPT !.last = token]

Parser == [stack |-> <<UNDEFINED>>, poliz |-> <<>>, last |-> UNDEFINED, unary_minus |-> FALSE]

-----------------------------------------------------------------------------
(* ExpressionFuncGenerator: g is [program_commands, data_section].          *)

PushCommands(g, commands) == [g EXCEPT !.program_commands = @ \o commands]

GetNextDataWordShift(g) == BufferWords - (Len(g.data_section) + 1)

\* The data section holds the addresses of the externs, the first one last in
\* the buffer.
SetSymbols == [program_commands |-> <<>>,
               data_section |-> [i \in DOMAIN Externs |-> <<"addr", Externs[i]>>]]

symbols_ptr(name) == BufferWords - CHOOSE i \in DOMAIN Externs : Externs[i] = name

\* ldr relative to pc, which is two words ahead of the command.
load_constant(g, shift)     == <<"ldr_r0", shift - Len(g.program_commands) - 2>>
load_shifted_addr(g, shift) == <<"ldr_r4", shift - Len(g.program_commands) - 2>>

bug_Call == <<<<"mov_lr_pc", 0>>, <<"add_lr", 0>>, <<"mov_pc_r4", 0>>>>

\* save_pc, increment_lr, goto_r4
Call == <<<<"mov_lr_pc", 0>>, <<"add_lr", 1>>, <<"mov_pc_r4", 0>>>>

\* The last argument is on top of the stack.
PopArguments(n) == [i \in 1 .. n |-> <<"pop", n - i>>]

ProcessStackOperand(g, operand) ==
    LET loaded ==
          CASE operand.type = "CONSTANT" ->
                 [PushCommands(g, <<load_constant(g, GetNextDataWordShift(g))>>)
                    EXCEPT !.data_section = Append(@, Integer(operand.value))]
            [] operand.type = "VARIABLE" ->
                 PushCommands(g, <<load_shifted_addr(g, symbols_ptr(operand.name)),
                                   <<"ldr_r0_r4", 0>>>>)
            [] operand.type = "FUNCTION" ->
                 LET popped == PushCommands(g, PopArguments(operand.value))
                 IN  PushCommands(popped, <<load_shifted_addr(popped, symbols_ptr(operand.name))>>
                                            \o Call)
            [] OTHER ->
                 PushCommands(g, <<<<"pop", 2>>, <<"pop", 1>>, <<operand.name, 0>>>>)
    IN  PushCommands(loaded, <<<<"push_r0", 0>>>>)

Prologue == <<<<"push_r4_lr", 0>>>>
Epilogue == <<<<"pop", 0>>, <<"pop_r4_lr", 0>>, <<"bx_lr", 0>>>>

\* Commands from the front of the buffer, then data from its end downwards,
\* with no test that they do not meet.
WriteCommandsByPtr(g) ==
    [i \in 0 .. BufferWords - 1 |->
       CASE BufferWords - i <= Len(g.data_section) -> g.data_section[BufferWords - i]
         [] BufferWords - i > Len(g.data_section) /\ i < Len(g.program_commands) ->
              g.program_commands[i + 1]
         [] OTHER -> <<"none", 0>>]

-----------------------------------------------------------------------------
(* The program that compiles an expression and calls the result             *)

VARIABLES
    tree, full,       \* the expression and how it is written
    mode,             \* what the program is doing
    tokens,           \* those not yet read
    parser, code,     \* ReversePolishNotation, ExpressionFuncGenerator
    buffer,           \* the words of the buffer
    pc, lr, r, stack  \* the machine: r[0] to r[4], the top of the stack last

machine == <<pc, lr, r, stack>>
vars == <<tree, full, mode, tokens, parser, code, buffer, machine>>

Caller     == -1                             \* the return address
CallerR4   == <<"saved", 4>>
CallerTop  == <<<<"saved", 0>>, <<"saved", 1>>>>
Clobbered  == <<"junk", 0>>

Init ==
    /\ tree \in Expressions /\ full \in BOOLEAN
    /\ tokens = Append(TextOf(tree, full), UNDEFINED)
    /\ mode = "parse" /\ parser = Parser /\ code = SetSymbols
    /\ buffer = [i \in 0 .. BufferWords - 1 |-> <<"none", 0>>]
    /\ pc = 0 /\ lr = <<"code", Caller>> /\ stack = CallerTop
    /\ r = [i \in 0 .. 4 |-> IF i = 4 THEN CallerR4 ELSE Clobbered]

\* The blank that is appended to the expression is the UNDEFINED token at its
\* end; what is then left on the sorting stack follows.
FromInfixString ==
    /\ mode = "parse"
    /\ IF tokens # <<>>
       THEN /\ parser' = TakeToken(parser, Head(tokens))
            /\ tokens' = Tail(tokens) /\ UNCHANGED <<mode, code>>
       ELSE /\ parser' = Unload(parser, LAMBDA token : token.type # "UNDEFINED")
            /\ code' = PushCommands(code, Prologue)
            /\ mode' = "generate" /\ UNCHANGED tokens
    /\ UNCHANGED <<tree, full, buffer, machine>>

GenerateMachineCommands ==
    /\ mode = "generate" /\ parser.poliz # <<>>
    /\ code' = ProcessStackOperand(code, Head(parser.poliz))
    /\ parser' = [parser EXCEPT !.poliz = Tail(@)]
    /\ UNCHANGED <<tree, full, mode, tokens, buffer, machine>>

jit_compile_expression_to_arm ==
    /\ mode = "generate" /\ parser.poliz = <<>>
    /\ code' = PushCommands(code, Epilogue)
    /\ buffer' = WriteCommandsByPtr(code')
    /\ mode' = "run"
    /\ UNCHANGED <<tree, full, tokens, parser, machine>>

\* The words on which each command does not go astray.
Loadable(i) == pc + 2 + i \in 0 .. BufferWords - 1
Legal(command) ==
    CASE command[1] \in {"+", "-", "*"} -> r[1][1] = "int" /\ r[2][1] = "int"
      [] command[1] = "pop"             -> Len(stack) >= 1
      [] command[1] = "pop_r4_lr"       -> Len(stack) >= 2 /\ Last(stack)[1] = "code"
      [] command[1] \in {"ldr_r0", "ldr_r4"} -> Loadable(command[2])
      [] command[1] = "ldr_r0_r4"       -> r[4][1] = "addr"
      [] command[1] = "mov_pc_r4"       ->
           r[4][1] = "addr" /\ \A i \in 1 .. Arity(r[4][2]) : r[i - 1][1] = "int"
      [] command[1] \in {"push_r0", "push_r4_lr", "mov_lr_pc", "add_lr", "bx_lr"} -> TRUE
      [] OTHER -> FALSE

Set(i, word) == r' = [r EXCEPT ![i] = word]

\* One command of the machine.
execute(command) ==
    /\ pc' = CASE command[1] \in {"mov_pc_r4", "bx_lr"} -> lr[2] [] OTHER -> pc + 1
    /\ lr' = CASE command[1] = "mov_lr_pc" -> <<"code", pc + 2>>
               [] command[1] = "add_lr"    -> <<"code", lr[2] + command[2]>>
               [] command[1] = "pop_r4_lr" -> Last(stack)
               [] OTHER -> lr
    /\ stack' = CASE command[1] = "push_r0"    -> Append(stack, r[0])
                  [] command[1] = "push_r4_lr" -> stack \o <<r[4], lr>>
                  [] command[1] = "pop"        -> Front(stack)
                  [] command[1] = "pop_r4_lr"  -> Front(Front(stack))
                  [] OTHER -> stack
    /\ CASE command[1] = "+" -> Set(0, Integer(r[1][2] + r[2][2]))
         [] command[1] = "-" -> Set(0, Integer(r[1][2] - r[2][2]))
         [] command[1] = "*" -> Set(0, Integer(r[1][2] * r[2][2]))
         [] command[1] = "pop"       -> Set(command[2], Last(stack))
         [] command[1] = "pop_r4_lr" -> Set(4, Last(Front(stack)))
         [] command[1] = "ldr_r0"    -> Set(0, buffer[pc + 2 + command[2]])
         [] command[1] = "ldr_r4"    -> Set(4, buffer[pc + 2 + command[2]])
         [] command[1] = "ldr_r0_r4" -> Set(0, Integer(VarValue(r[4][2])))
         [] command[1] = "mov_pc_r4" ->
              r' = [i \in 0 .. 4 |->
                      CASE i = 0 -> <<"int", Apply(r[4][2], [k \in 1 .. Arity(r[4][2]) |-> r[k - 1][2]])>>
                        [] i = 4 -> r[4]
                        [] OTHER -> Clobbered]
         [] OTHER -> UNCHANGED r

run_command ==
    /\ mode = "run" /\ pc # Caller
    /\ IF pc \in DOMAIN buffer /\ Legal(buffer[pc])
       THEN execute(buffer[pc]) /\ UNCHANGED mode
       ELSE mode' = "crashed" /\ UNCHANGED machine
    /\ UNCHANGED <<tree, full, tokens, parser, code, buffer>>

run_return ==
    /\ mode = "run" /\ pc = Caller
    /\ mode' = "returned"
    /\ UNCHANGED <<tree, full, tokens, parser, code, buffer, machine>>

Next == FromInfixString \/ GenerateMachineCommands \/ jit_compile_expression_to_arm
          \/ run_command \/ run_return

\* Nothing blocks: the processor goes on.
FairSpec == Init /\ [][Next]_vars /\ WF_vars(Next)

-----------------------------------------------------------------------------
(* Properties *)

\* The code and its data fit in the buffer, which WriteCommandsByPtr only hopes,
\* and no function is called without arguments, which the parser takes for a
\* call with one.
Compilable ==
    /\ Len(code.program_commands) + Len(code.data_section) <= BufferWords
    /\ ~HasEmptyCall(tree)

\* What the compiled code leaves in r0 is the value of the expression, however
\* it was written: with all of the brackets or with those that precedence
\* requires; and the caller's stack and r4 are as they were.  On the way there
\* the machine never pops too much, takes an address for a number or runs data.
ComputesExpression ==
    Compilable =>
      /\ mode # "crashed"
      /\ mode = "returned" => r[0] = Integer(ValueOf(tree)) /\ r[4] = CallerR4 /\ stack = CallerTop

\* The compiled code returns: each call comes back behind the call, and the code
\* ends with a return.
Returns == <>(mode = "returned" \/ ~Compilable)
=============================================================================
