SPECIFICATION Spec
CONSTANTS
    Handler = {h1, h2}
    Session = {s1}
    Nonce = {n1, n2, n3}
    Body = {b1}
    MaxGen = 3
SYMMETRY Symmetry
INVARIANTS TypeOK NonceExclusive
PROPERTIES AtomicRegister TombstonePermanent
