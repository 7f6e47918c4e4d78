SPECIFICATION ReferenceSpec
CONSTANTS
  Quotes = {100, 109, 125, 200}
  Deviation = 10
  Window = 3
  Warmup = 3
  MaxReread = 2
INVARIANT NoiseNeverTakesOver
