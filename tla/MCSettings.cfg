SPECIFICATION Spec
CONSTANTS
  Values = {v1, v2}
  Windows = {w1, w2}
  NoWindow = NoWindow
SYMMETRY Symmetry
INVARIANTS
  ClosedIsSettled
  OneWindow
  InputsShowForm
  PromptIsAsked
  TasksFollow
