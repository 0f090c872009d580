SPECIFICATION Spec
CONSTANTS
  s1 = s1  s2 = s2  e1 = e1  e2 = e2  e3 = e3  t1 = t1  t2 = t2
  Subs = {s1, s2}
  Events = {e1}
  Tenants = {t1, t2}
  AllTenants = AllTenants
  TenantOf <- TwoTenants
  Resync = Resync
  MaxHubs = 1
  Cap = 1
  SubLimit = 2
INVARIANT ReturnsOnlyListening
CHECK_DEADLOCK FALSE
