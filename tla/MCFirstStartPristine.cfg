SPECIFICATION Spec
CONSTANTS
  u1 = u1
  u2 = u2
  u3 = u3
  None = None
  User = {u1, u2, u3}
  Table = {controllers, vouchers, installation_profile}
  Schema = 3
  PerUser <- MCPerUser
  Backups <- MCBackups
INVARIANTS
  StartsArePristine
