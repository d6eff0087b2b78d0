CONSTANT Retries = 3
SPECIFICATION Spec
PROPERTIES
  NeverInterrupted
