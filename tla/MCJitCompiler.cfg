SPECIFICATION FairSpec
CONSTANTS
    Expressions <- MCExpressions
    Externs <- MCExterns
    VarValue <- MCVarValue
    Arity <- MCArity
    Width = 8
    BufferWords = 34
CHECK_DEADLOCK FALSE
INVARIANT ComputesExpression
PROPERTY Returns
