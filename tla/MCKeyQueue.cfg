SPECIFICATION Spec
CONSTANTS
  QueueSize = 4
  Actions = {KeyUp, KeyEnter, KeyEsc}
  KeyNone = KeyNone
PROPERTY FifoSpec
