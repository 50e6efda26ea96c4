SPECIFICATION Spec
CONSTANTS
    Docs = {d1}
    Conns = {c1, c2, c3, c4, c5}
    PoolSize = 2
    Writer = Writer
    Readers = {r1, r2}
    MaxWrites = 3
    NoConn = NoConn
    NoDoc = NoDoc
INVARIANTS OneOwnerPerConnection UpsertsAreSafe OnlyRefusalsLeak
SYMMETRY Symmetry
