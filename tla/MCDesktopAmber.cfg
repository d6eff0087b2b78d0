CONSTANT Retries = 3
SPECIFICATION LiveSpec
PROPERTIES
  AmberIsFinite
