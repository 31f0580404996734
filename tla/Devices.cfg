SPECIFICATION FairSpec
CONSTANTS
  d1 = d1
  d2 = d2
  NoDevice = NoDevice
  Devices <- TwoDevices
INVARIANTS
  CallDeviceIsAlive
  
PROPERTIES
  OneIdentityCustody
  DevicesAreAdmitted
  LogDeviceIsRetired
