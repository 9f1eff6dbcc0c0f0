SPECIFICATION Spec
CONSTANTS
  Pollers = {p1, p2, p3}
  Ui = Ui
  None = None
PROPERTIES
  PressServed
  PollersEnd
