\* One bound route; a descriptor beyond a limit that was lowered since it was opened.
CONSTANTS
  RouteNames = {a}
  BaseUrls = {u}
  ApiKeys = {k}
  EnvNames = {"A_KEY", "A_URL", "B_KEY", "B_URL", "DBUS_SESSION_BUS_ADDRESS"}
  Reserved = {"DBUS_SESSION_BUS_ADDRESS"}
  Strip = {"DBUS_SESSION_BUS_ADDRESS"}
  TypedBindings <- MCBindings
  CapabilityNames = {c}
  MaxRoutes = 1
  Descriptors = {3, 6}
  Limits = {4}
  Nil = Nil

SPECIFICATION SpecRun

INVARIANTS
  NothingInherited
