SPECIFICATION Spec
CONSTANTS
    a = a  b = b  c = c  a1 = a1  b1 = b1  c1 = c1  c2 = c2
    Instances = {c}
    Runs = {c1, c2}
    Home <- HomeOf
    Ttl = 3
    Period = 4
    MaxRun = 2
    Retries = 1
    Backoff = 1
    Flaky = {c}
    MidRun = TRUE
INVARIANTS
    AloneInInstance
