\* One phone that netmuxd paired, found by its TXT record.
SPECIFICATION StoreSpec
CONSTANTS
  Phones = {p1}
  Readers = {}
  SystemConfiguration = SystemConfiguration
  AnotherHost = AnotherHost
  None = None
  OldRecords = {}
  Services = {p1}
  Plugged = {p1}
CHECK_DEADLOCK FALSE
INVARIANTS
  TxtMatchesThePhone
