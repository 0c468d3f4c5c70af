\* Words of 24 bits, fees in tenths.  A stable pool's k fits for reserves up to 50 and
\* saturates for 100, as it does in the code from 2^64 on.
SPECIFICATION Spec
CONSTANTS
  Radix = 4096
  Scale = 10
  Fees = {0, 1, 3}
  AeroFee = 3
  UniFee = 1
  StableFee = 2
  Premium = 1
  GasPrice = 1
  MinBps = 9
  MaxPct = 30
  Rounds = 64
  Reserves = {0, 1, 20, 50, 100}
  Sizes = {0, 1, 2, 5, 17, 40, 60, 167772}
  Amounts = {1, 7, 30}
  Radicands = {0, 1, 2, 3, 4, 8, 9, 24, 25, 26, 99, 100, 1000, 65535, 65536, 1000000}
INVARIANTS
  SizingIsSound
  NoFreeProfit
  StableOverpays
CHECK_DEADLOCK FALSE
