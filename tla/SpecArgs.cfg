SPECIFICATION InvocationSpec
CONSTANTS
  Spec <- MCSpec
  Fns <- ArgFns
  Inputs <- TypedInputs
  InlineKeys <- McKeys
  Identities <- McIdentities
  Contracts <- McContracts
  FileBytes <- McFileBytes
  ValuesOf <- MCValues
  Depth <- McDepth
  Height <- McHeight
  RawScVals <- RawJson
  KeyLess <- McKeyLess
  FromJsonCall <- McFromJson
  FromStringCall <- McFromString
  ToJsonCall <- McToJson
  XdrToJsonCall <- McXdrToJson
  FitsCall <- McFits
  ProperCall <- McProper
  BackTypes <- McBackTypes
  Size <- McSize
INVARIANT ArgsTyped
INVARIANT BackFromFile
INVARIANT SignersArePassed
