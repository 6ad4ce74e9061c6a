SPECIFICATION Spec
CONSTANTS
  Secrets = {s1, s2}
  Empty = Empty
  Legacy = TRUE
INVARIANT SavedSecretsSurvive
