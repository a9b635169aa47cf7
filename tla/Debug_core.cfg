\* The mask at the core.
CONSTANTS
  Harts = {h0, h1}
  Hart0 = h0
  Window = 64
  d0 = d0
  nop = nop
  rd = rd
  a0 = a0
  a1 = a1
  Data = {d0}
  Ops = {nop, rd}
  Addrs = {a0, a1}
  ZeroData = d0
  NOP = nop
  ZeroAddr = a0
  None = None
  SPACED = TRUE
  JtagReq <- OneJtagReq
  Faults <- OneFault
  CTRL_WRITES = TRUE
  SLOW_DM = FALSE
  ONE_AT_A_TIME = TRUE
SPECIFICATION BenchSpec
INVARIANT MaskedAtCore
