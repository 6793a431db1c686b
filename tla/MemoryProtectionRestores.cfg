SPECIFICATION Spec
CONSTANTS
  a1 = a1
  a2 = a2
  a3 = a3
  data = data
  code = code
  Addresses <- MCAddresses
  PageOf <- MCPageOf
  Original <- MCOriginal
INVARIANT RestoresOriginal
