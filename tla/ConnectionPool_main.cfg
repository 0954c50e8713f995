SPECIFICATION Spec
CONSTANTS
  Callers = {c1, c2, c3}
  Conns = {x1, x2, x3}
  MaxConns = 2
  MinConns = 1
SYMMETRY Symmetry
INVARIANTS PoolConserves
