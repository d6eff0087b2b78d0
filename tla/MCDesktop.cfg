CONSTANT Retries = 3
SPECIFICATION LiveSpec
INVARIANTS
  TypeOK
  HealthHonest
  TimerBelongs
  BackupCoversArchive
PROPERTIES
  SlotFreed
  ReconnectSettles
