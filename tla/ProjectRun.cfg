\* Two routes with two keys, bound to variables that may collide, and a capability.
CONSTANTS
  RouteNames = {a, b}
  BaseUrls = {u}
  ApiKeys = {k, l}
  EnvNames = {"A_KEY", "A_URL", "B_KEY", "B_URL", "DBUS_SESSION_BUS_ADDRESS"}
  Reserved = {"DBUS_SESSION_BUS_ADDRESS"}
  Strip = {"DBUS_SESSION_BUS_ADDRESS"}
  TypedBindings <- MCBindings
  CapabilityNames = {c}
  MaxRoutes = 2
  Descriptors = {3, 4, 6}
  Limits = {4, 7}
  Nil = Nil

SPECIFICATION SpecRun

INVARIANTS
  EveryCapabilityServed
  ChildSeesItsRoutes
  InheritedOnlyBeyondLimit

PROPERTIES
  UntouchedRoutesStay
  CapabilitiesKeepDestination
