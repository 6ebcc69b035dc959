\* A server with a stored login, and one of any kind.
SPECIFICATION Spec
CONSTANTS
  Servers = {a, b}
  AutoConnect = {a}
  Workers = 2
  Fickle = {a}
  MaxOps = 2
INVARIANTS ServersSound
PROPERTIES OpensAdmitted
CHECK_DEADLOCK FALSE
