SPECIFICATION Spec
CONSTANTS
  g1 = g1
  g2 = g2
  Minor0 = g1
  Gpios <- MCGpios
  Contended = {g1}
  Faulty = {g1}
  SerialIoctls = TRUE
INVARIANTS
  HandlerOwned
  PinHeld
  MuxRestored
