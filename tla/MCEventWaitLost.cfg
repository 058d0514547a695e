CONSTANTS
  key = key
  panel = panel
  press = press
  touch = touch
  None = None
  Capacity = 2
  Event <- MCEvent
  Source <- MCSource
  Bursts <- MCBursts
SPECIFICATION Spec
CHECK_DEADLOCK FALSE
PROPERTY CallbackInsteadOfNone
