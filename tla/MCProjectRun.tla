---------------------------- MODULE MCProjectRun ----------------------------
(* A small instance of ProjectRun for TLC.                                 *)
EXTENDS ProjectRun

Bind(k, u) == [api_key_env |-> k, base_url_env |-> u]

(* Two pairs that go together, one that crosses the first, a reserved one. *)
MCBindings ==
  {Bind("A_KEY", "A_URL"), Bind("B_KEY", "B_URL"), Bind("A_URL", "B_KEY"),
   Bind("DBUS_SESSION_BUS_ADDRESS", "B_URL")}
=============================================================================
