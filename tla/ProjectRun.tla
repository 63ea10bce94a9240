----------------------------- MODULE ProjectRun -----------------------------
(***************************************************************************)
(* What `twl run' and `twl capability serve' make of the project that      *)
(* ProjectEditor stores.  `run' prepares the routes with an application    *)
(* binding, starts the broker and launches the child: the launcher uses    *)
(* Bubblewrap when it is there, gives the child its variables and, between *)
(* fork and exec, marks every descriptor close-on-exec, with close_range   *)
(* or, where the kernel has none, one by one below the limit.              *)
(*                                                                         *)
(* One terminal: nobody edits while a child is being launched.             *)
(***************************************************************************)
EXTENDS ProjectEditor

CONSTANTS Strip,        \* STRIP: the variables a child never inherits
          Descriptors,  \* bound: the descriptors above stderr
          Limits        \* the descriptor limits the process may have

ASSUME Launching ==
  /\ Strip \subseteq Reserved
  /\ Descriptors \subseteq {d \in Nat : d > 2}
  /\ Limits \subseteq Nat

VARIABLE launch  \* the launch of `twl run', or Nil

runVars == <<stored, dialogue, launch>>

-----------------------------------------------------------------------------
(* CapabilityBroker::from_project keeps the routes that capabilities use;  *)
(* an invocation finds its route by name.                                  *)
ServedRoutes(p) ==
  {i \in DOMAIN p.routes :
     \E c \in DOMAIN p.capabilities : p.capabilities[c].route = p.routes[i].name}

Resolves(p, n) == {i \in ServedRoutes(p) : p.routes[i].name = n}

(* prepare_project: the routes of the loopback broker.                     *)
BoundRoutes(p) == {i \in DOMAIN p.routes : p.routes[i].application # Nil}

(* child_command and bubblewrap_command: STRIP is removed, then the        *)
(* environment_overrides are set in the order of the routes, so that the   *)
(* last one wins.                                                          *)
SettersOf(p, v) == {i \in BoundRoutes(p) : v \in Variables(p.routes[i])}

LastSetter(p, v) == CHOOSE i \in SettersOf(p, v) : \A j \in SettersOf(p, v) : j <= i

ChildVariable(p, v) ==
  IF SettersOf(p, v) = {}
  THEN IF v \in Strip THEN <<"unset">> ELSE <<"inherited">>
  ELSE LET route == p.routes[LastSetter(p, v)]
       IN IF v = route.application.base_url_env
          THEN <<"loopback URL", route.name>> ELSE <<"fake key", route.name>>

-----------------------------------------------------------------------------
InitRun == Init /\ launch = Nil

EditFirst == launch = Nil /\ Next /\ UNCHANGED launch

(* A descriptor is closed, open across exec or open with FD_CLOEXEC.       *)
Tables == [Descriptors -> {"closed", "open", "cloexec"}]

(* run: the project is read, the repository dropped, the broker started.   *)
Start(maximum, table) ==
  /\ dialogue = Nil /\ stored # Nil /\ launch = Nil
  /\ BoundRoutes(project) # {}
  /\ launch' = [step |-> "forked", project |-> project, maximum |-> maximum,
                table |-> table, next |-> 3]
  /\ UNCHANGED vars

(* seal_inherited_descriptors, in the child before exec.                   *)
Seal(ds) ==
  [d \in Descriptors |->
     IF d \in ds /\ launch.table[d] # "closed" THEN "cloexec" ELSE launch.table[d]]

AtStep(s) == launch # Nil /\ launch.step = s

CloseRange ==
  /\ AtStep("forked")
  /\ launch' = [launch EXCEPT !.step = "sealed", !.table = Seal(Descriptors)]
  /\ UNCHANGED vars

NoCloseRange ==
  /\ AtStep("forked")
  /\ launch' = [launch EXCEPT !.step = "sealing"]
  /\ UNCHANGED vars

\* Mutant: the first descriptor that is not open ends the loop.
SealNextOpen ==
  /\ AtStep("sealing")
  /\ launch' = IF launch.next < launch.maximum
                    /\ launch.next \in Descriptors /\ launch.table[launch.next] # "closed"
               THEN [launch EXCEPT !.table = Seal({launch.next}), !.next = @ + 1]
               ELSE [launch EXCEPT !.step = "sealed"]
  /\ UNCHANGED vars

(* A descriptor that is not open is passed over.                           *)
SealNext ==
  /\ AtStep("sealing")
  /\ launch' = IF launch.next < launch.maximum
               THEN [launch EXCEPT !.table = Seal({launch.next}), !.next = @ + 1]
               ELSE [launch EXCEPT !.step = "sealed"]
  /\ UNCHANGED vars

(* exec: what is marked close-on-exec is gone.                             *)
Exec ==
  /\ AtStep("sealed")
  /\ launch' = [launch EXCEPT
       !.step = "running",
       !.table = [d \in Descriptors |-> IF @[d] = "cloexec" THEN "closed" ELSE @[d]]]
  /\ UNCHANGED vars

(* A step of the launch fails, or the child ends.                          *)
EndLaunch ==
  /\ launch # Nil
  /\ launch' = Nil
  /\ UNCHANGED vars

NextRun ==
  \/ EditFirst
  \/ \E maximum \in Limits, table \in Tables : Start(maximum, table)
  \/ CloseRange \/ NoCloseRange \/ SealNext \/ Exec \/ EndLaunch

SpecRun == InitRun /\ [][NextRun]_runVars

-----------------------------------------------------------------------------
LaunchTypeOK ==
  \/ launch = Nil
  \/ launch \in [step : {"forked", "sealing", "sealed", "running"}, project : Projects,
                 maximum : Limits, table : Tables, next : Nat]

(* `twl capability serve' accepts whatever is stored, and every capability *)
(* leads to exactly one route: the edit that renames or deletes the route  *)
(* of a capability, or gives two routes one name, is refused as a whole.   *)
EveryCapabilityServed ==
  stored # Nil =>
    \A c \in DOMAIN project.capabilities :
      \E i \in ServedRoutes(project) :
        Resolves(project, project.capabilities[c].route) = {i}

(* A child of `twl run' finds its own fake key and its own loopback URL in *)
(* the two variables of each bound route, whatever other routes are bound, *)
(* and none of the variables it must not inherit.                          *)
ChildSeesItsRoutes ==
  launch # Nil =>
    /\ \A i \in BoundRoutes(launch.project) :
         LET route == launch.project.routes[i]
         IN /\ ChildVariable(launch.project, route.application.api_key_env)
                 = <<"fake key", route.name>>
            /\ ChildVariable(launch.project, route.application.base_url_env)
                 = <<"loopback URL", route.name>>
    /\ \A v \in Strip : ChildVariable(launch.project, v) = <<"unset">>

(* launcher.rs: "no descriptor above stderr reaches Bubblewrap or an       *)
(* unmasked child".                                                        *)
NothingInherited ==
  AtStep("running") => \A d \in Descriptors : launch.table[d] = "closed"

(* What reaches it is at or above the limit, whatever the kernel and       *)
(* whatever gaps the table has (the loop over 3..maximum).                 *)
InheritedOnlyBeyondLimit ==
  AtStep("running") =>
    \A d \in Descriptors : launch.table[d] # "closed" => d >= launch.maximum
=============================================================================
