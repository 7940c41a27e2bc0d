---------------------------- MODULE MCJitCompiler ----------------------------
(* Expressions of two levels of operations and calls over two constants, a    *)
(* variable and a call without arguments; functions of one, two and four      *)
(* arguments.  The buffer is too small for the largest of them.               *)
EXTENDS JitCompiler

Tree(op, name, value, args) == [op |-> op, name |-> name, value |-> value, args |-> args]
MCExterns == <<"f4", "a", "f0", "f1", "f2">>
MCVarValue(name) == 5
MCArity(name) ==
    CASE name = "f0" -> 0 [] name = "f1" -> 1 [] name = "f2" -> 2 [] OTHER -> 4

Plain == {Tree("num", "", 3, <<>>), Tree("num", "", -2, <<>>), Tree("var", "a", 0, <<>>)}
Atoms == Plain \cup {Tree("call", "f0", 0, <<>>)}
Binary(left, right) ==
    {Tree(op, "", 0, <<x, y>>) : op \in {"+", "-", "*"}, x \in left, y \in right}
      \cup {Tree("call", "f2", 0, <<x, y>>) : x \in left, y \in right}
Unary(args) == {Tree("call", "f1", 0, <<x>>) : x \in args}
Level1 == Atoms \cup Binary(Atoms, Atoms) \cup Unary(Atoms)
Sums == Binary({Tree("num", "", 3, <<>>)}, {Tree("var", "a", 0, <<>>)})
MCExpressions ==
    Level1 \cup Unary(Level1) \cup Binary(Level1, Plain) \cup Binary(Plain, Level1)
      \cup Binary(Sums, Sums)
      \cup {Tree("call", "f4", 0, <<x, y, x, z>>) : x \in Plain, y \in Sums, z \in Plain}
=============================================================================
