SPECIFICATION Spec
CONSTANTS
  Servers = {a, b}
  Keys = {k1, k2}
  NoKey = NoKey
  NoPrompt = NoPrompt
  Conns = {c1, c2}
VIEW View
SYMMETRY Symmetry
INVARIANTS
  OnlyTrustedKeys
  PromptKnowsItsPast
