\* Words of two pages and 4M pages of four; a client with 4K pages and two
\* with 4M pages, which together ask for more than there is.
CONSTANTS
  a = a  p = p  q = q
  NBITPW = 2
  PSE_NPAGES = 4
  Ranges <- MCRanges
  CG_NONE = CG_NONE
  Client = {a, p, q}
  Large = {p, q}
  MaxHeld <- MCMaxHeld
SYMMETRY Symmetry
SPECIFICATION Spec
INVARIANTS MapExact CellsExact ReservedIsThere NoLostWakeup
