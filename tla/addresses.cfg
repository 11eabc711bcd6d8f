SPECIFICATION AddressesSpec
CONSTANTS
  Words <- MCWords
  Hosts <- MCHosts
  Services <- MCServices
  Names <- MCNames
  Digits <- MCDigits
  NumberLike <- MCNumberLike
  Ports <- MCPorts
  Literals <- MCLiterals
  Schemes <- MCSchemes
  HostTexts <- MCHostTexts
  PortTexts <- MCPortTexts
INVARIANTS
  ReadsBack
  MeansWhatItSays
