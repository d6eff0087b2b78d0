CONSTANT Retries = 3
SPECIFICATION Spec
INVARIANTS
  GreenIsLive
