\* Small word and second: every carry, borrow and wrap is reached.
CONSTANTS
    Ticks = 7
    Word = 16
    Nps = 10
    Numbers = {0, 1, 3, 6, 7, 100, 105, 206, 1503}
    Operands <- MCOperands
    Factors = {0, 2, 3, 7, 15}
SPECIFICATION Spec
INVARIANTS TypeOK TicksExact RefusalFollowsTicks QuotientBrackets
CHECK_DEADLOCK FALSE
