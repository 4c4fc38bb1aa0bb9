SPECIFICATION Spec
CONSTANTS
    plain = plain
    grouped = grouped
    unclosed = unclosed
    text = text
    number = number
    broken = broken
    byHand = byHand
    None = None
    Requests = {r1, r2}
    Names = {plain, grouped, unclosed}
    Trees = {text, number, broken}
    ValidTrees = {text, number}
    Exts <- MCExts
    Checked <- MCChecked
    Erases <- MCErases
    Handwritten <- MCHandwritten
    MaxId = 2
SYMMETRY MCSymmetry
INVARIANTS
    TypeOK
    SectionsShareNoKey
    RowsAndFileAgree
