SPECIFICATION Spec
CONSTANTS
    Users = {alice, bob}
    Details = {visa, amex}
    CardIds = {c1, c2, c3}
    Handlers = {h1, h2}
SYMMETRY Symmetry
CHECK_DEADLOCK TRUE
INVARIANTS
    DefaultCardNeverDeleted
