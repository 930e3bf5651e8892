SPECIFICATION Spec
CONSTANTS
  small = small
  large = large
  Calls = {c1, c2}
  Sessions = {s1, s2}
  Paths = {p}
  Contents = {small, large}
  Size <- Sizes
  Old = old
  OldContents = {small}
  Quotas = {3, Unlimited}
  Unlimited = Unlimited
  Ops = {"put", "delete", "restore", "purge", "quota", "presign", "commit"}
  Absent = Absent
  Tombstone = Tombstone
  Nobody = Nobody
  MaxOpen = 2
  MaxExpiries = 1
  MaxUploads = 1
  MaxFaults = 1
SYMMETRY Requests
INVARIANT TypeOK
PROPERTY ReservationKept
PROPERTY TrashHoldsDeleted
PROPERTY SessionKept
CHECK_DEADLOCK FALSE
