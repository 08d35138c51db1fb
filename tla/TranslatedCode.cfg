CONSTANTS
  ByteBits = 2
  TextBase = 20
  StackTop = 20
  Halt = 1
  Inputs <- MCInputs
SPECIFICATION Spec
INVARIANTS InStep StackFits AddressesOwned FunctionsDivideText SignaturesTrue
