SPECIFICATION DrivenSpec
CONSTANTS
  Requests <- MCRequests
  Unit = 4
  MaxInvChainLen = 20
  MaxNmosSize = 12
  Efforts = {0, 1}
  InputCaps <- MCInputCaps
  OutputCaps <- MCOutputCaps
  DriverWidths <- MCDriverWidths
  Inversions = {TRUE}
INVARIANTS
  AddressDecodedOnce
  LinesMultiply
  LoadsAreFanOut
  NandsMatchBlocks
  ChainDrives
