SPECIFICATION FairSpec
CONSTANTS
  c1 = c1
  c2 = c2
  u1 = u1
  u2 = u2
  Clients <- MCClients
  Users <- MCUsers
INVARIANTS
  SpiTypeOK
  DeviceIsOwn
  SleeperQueued
  WokenHasBuffer
  HarmlessUntilClosed
  UnloadedLetsGo
  NoForeignSample
  HarmlessUntilSampled
PROPERTIES
  CanFopSpec
  SpikeSemaphores
  SleeperServed
  SpikeReturns
