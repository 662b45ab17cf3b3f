\* One pixel and one hidden node under an unruly master.
SPECIFICATION OpenSpec
CONSTANTS
  NPix = 1
  NHid = 1
  Half = 1
  MemSize = 24
  PowerUp = {0}
  BusData = {0}
  FloatWrEna = {TRUE}
INVARIANTS
  TypeOK
  AddressesFollow
  AddressesBounded
PROPERTIES
  ParamsKept

