CONSTANTS
  Width <- MCWidth
  Mantissa <- MCMantissa
  NaN <- MCNaN
  MaxDepth = 2
  MaxLong = 127
  SizeBits = 8
  ParamCount = 2
  ElementCount = 2
  TraceLength = 12
SPECIFICATION CasesSpec
PROPERTIES NumbersExact RoundTrip ScanAgrees LibraryExact CompiledRunsAlike NamesResolve InstancesRight
CHECK_DEADLOCK FALSE
