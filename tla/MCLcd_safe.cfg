SPECIFICATION Spec
CONSTANTS
    LCD_COLS = 16
    Texts <- MCTexts
INVARIANTS TypeOK InStep AsAsked NeverOverrun
PROPERTY OtherRowKept
