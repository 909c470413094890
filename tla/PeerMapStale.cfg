\* The network map leaves no endpoint of a peer that it does not have.
SPECIFICATION Spec
SYMMETRY Sym
CONSTANTS
  Keys = {k1, k2, k3}
  IDs = {i1, i2}
  Discos = {x1, x2}
  Direct = {a1}
  Relay = {r1, r2}
  WgOnly = {i2}
  WgAddrs = {a1}
  None = None
INVARIANT
  NoStaleEndpoint
