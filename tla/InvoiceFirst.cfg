SPECIFICATION ChargeSpec
CONSTANTS
    c1 = c1  c2 = c2  c3 = c3  r1 = r1  r2 = r2  r3 = r3
    Rows = {r1, r2, r3}
    Calls = {c1, c2, c3}
    None = None
    Mixes <- First
INVARIANTS
    OneOpenInvoice
CHECK_DEADLOCK FALSE
