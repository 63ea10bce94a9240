--------------------------- MODULE ProjectEditor ---------------------------
(***************************************************************************)
(* One stored project and the commands that change it: `twl project add',  *)
(* `edit' and `delete', `twl capability add' and `delete'.  Adding and     *)
(* editing are dialogues that go through the routes one by one; the        *)
(* capabilities, which name routes, stay as they were, and the result is   *)
(* validated as a whole before it replaces the record.                     *)
(*                                                                         *)
(* A blank answer, also what is read at the end of the input, is Nil.      *)
(* Malformed names, URLs and keys are one refusal.  Revisions and other    *)
(* processes are left to the backends (ProjectStore).                      *)
(***************************************************************************)
EXTENDS Integers, Sequences

CONSTANTS RouteNames, BaseUrls, ApiKeys, \* well-formed texts
          EnvNames,        \* names of environment variables
          Reserved,        \* those that validate_env_name refuses
          TypedBindings,   \* bound: the pairs of variables users type
          CapabilityNames,
          MaxRoutes,       \* bound: routes in a project
          Nil              \* blank, none

ASSUME Texts ==
  /\ Reserved \subseteq EnvNames
  /\ TypedBindings \subseteq [api_key_env : EnvNames, base_url_env : EnvNames]
  /\ Nil \notin RouteNames \cup BaseUrls \cup ApiKeys \cup TypedBindings
  /\ MaxRoutes \in Nat

VARIABLES stored,    \* the record: its version, routes and capabilities, or Nil
          dialogue   \* the dialogue a user is in, or Nil

vars == <<stored, dialogue>>

-----------------------------------------------------------------------------
Bindings == [api_key_env : EnvNames, base_url_env : EnvNames]

Routes == [name : RouteNames, base_url : BaseUrls, api_key : ApiKeys,
           application : Bindings \cup {Nil}]

Capabilities == [name : CapabilityNames, route : RouteNames]

Projects == [routes : Seq(Routes), capabilities : Seq(Capabilities)]

Variables(r) ==
  IF r.application = Nil
  THEN {} ELSE {r.application.api_key_env, r.application.base_url_env}

(* ApplicationBinding::validate.                                           *)
BindingValid(b) ==
  b.api_key_env # b.base_url_env /\ {b.api_key_env, b.base_url_env} \cap Reserved = {}

NamesRoute(p, n) == \E i \in DOMAIN p.routes : p.routes[i].name = n

\* Mutant: keys are compared with keys and URLs with URLs.
ValidKindByKind(p) ==
  /\ p.routes # <<>>
  /\ \A i \in DOMAIN p.routes :
       p.routes[i].application # Nil => BindingValid(p.routes[i].application)
  /\ \A i, j \in DOMAIN p.routes :
       LET a == p.routes[i].application
           b == p.routes[j].application
       IN i # j => /\ p.routes[i].name # p.routes[j].name
                   /\ Nil \notin {a, b} => /\ a.api_key_env # b.api_key_env
                                           /\ a.base_url_env # b.base_url_env
  /\ \A i, j \in DOMAIN p.capabilities :
       i # j => p.capabilities[i].name # p.capabilities[j].name
  /\ \A i \in DOMAIN p.capabilities : NamesRoute(p, p.capabilities[i].route)

\* Mutant: a route may take another's name.
ValidNames(p) ==
  /\ p.routes # <<>>
  /\ \A i \in DOMAIN p.routes :
       p.routes[i].application # Nil => BindingValid(p.routes[i].application)
  /\ \A i, j \in DOMAIN p.routes :
       i # j => Variables(p.routes[i]) \cap Variables(p.routes[j]) = {}
  /\ \A i, j \in DOMAIN p.capabilities :
       i # j => p.capabilities[i].name # p.capabilities[j].name
  /\ \A i \in DOMAIN p.capabilities : NamesRoute(p, p.capabilities[i].route)

(* Project::validate: one set of names for the variables of both kinds.    *)
Valid(p) ==
  /\ p.routes # <<>>
  /\ \A i \in DOMAIN p.routes :
       p.routes[i].application # Nil => BindingValid(p.routes[i].application)
  /\ \A i, j \in DOMAIN p.routes :
       i # j => /\ p.routes[i].name # p.routes[j].name
                /\ Variables(p.routes[i]) \cap Variables(p.routes[j]) = {}
  /\ \A i, j \in DOMAIN p.capabilities :
       i # j => p.capabilities[i].name # p.capabilities[j].name
  /\ \A i \in DOMAIN p.capabilities : NamesRoute(p, p.capabilities[i].route)

(* Project::decode: a record of version 1 has no capabilities and binds    *)
(* every route.                                                            *)
LegacyRoutes == [name : RouteNames, base_url : BaseUrls, api_key : ApiKeys,
                 api_key_env : EnvNames, base_url_env : EnvNames]

Migrated(r) ==
  [name |-> r.name, base_url |-> r.base_url, api_key |-> r.api_key,
   application |-> [api_key_env |-> r.api_key_env, base_url_env |-> r.base_url_env]]

Decoded(s) ==
  IF s.version = 1
  THEN [routes |-> [i \in DOMAIN s.routes |-> Migrated(s.routes[i])],
        capabilities |-> <<>>]
  ELSE [routes |-> s.routes, capabilities |-> s.capabilities]

Encoded(p) == [version |-> 2, routes |-> p.routes, capabilities |-> p.capabilities]

(* The project a command gets from the repository.                         *)
project == Decoded(stored)

-----------------------------------------------------------------------------
(* The answers to one prompt_route, and the route they make of `old'.      *)
Answers == [name : RouteNames \cup {Nil}, base_url : BaseUrls \cup {Nil},
            application : {"y", "n", Nil}, binding : TypedBindings \cup {Nil},
            api_key : ApiKeys \cup {Nil}]

AllDefaults == [name |-> Nil, base_url |-> Nil, application |-> Nil,
                binding |-> Nil, api_key |-> Nil]

NoRoute == [name |-> Nil, base_url |-> Nil, application |-> Nil, api_key |-> Nil]

(* ask: a blank answer is the default.                                     *)
Ask(answer, default) == IF answer = Nil THEN default ELSE answer

WantsBinding(old, a) ==
  Ask(a.application, IF old.application = Nil THEN "n" ELSE "y") = "y"

\* Mutant: an application binding has to be confirmed.
PromptRouteUnbound(old, a) ==
  [name        |-> Ask(a.name, old.name),
   base_url    |-> Ask(a.base_url, old.base_url),
   application |-> IF a.application = "y" THEN Ask(a.binding, old.application) ELSE Nil,
   api_key     |-> Ask(a.api_key, old.api_key)]

PromptRoute(old, a) ==
  [name        |-> Ask(a.name, old.name),
   base_url    |-> Ask(a.base_url, old.base_url),
   application |-> IF WantsBinding(old, a)
                   THEN Ask(a.binding, old.application) ELSE Nil,
   api_key     |-> Ask(a.api_key, old.api_key)]

(* The prompts that end in an error: an application without variables, a   *)
(* new route without an URL or a key.                                      *)
Accepted(old, a) ==
  /\ PromptRoute(old, a) \in Routes
  /\ WantsBinding(old, a) =>
       LET b == Ask(a.binding, old.application) IN b # Nil /\ BindingValid(b)
-----------------------------------------------------------------------------
NoProject == [routes |-> <<>>, capabilities |-> <<>>]

(* `at' is the position of the old route being asked about; `touched' is   *)
(* history: the old routes the user deleted or gave a new text for.        *)
Opened(p) == [old |-> p, at |-> 1, routes |-> <<>>, touched |-> {}]

Init ==
  /\ dialogue = Nil
  /\ \/ stored = Nil
     \/ /\ stored \in [version : {1}, routes : UNION {[1..n -> LegacyRoutes] : n \in 1..MaxRoutes}]
        /\ \A i \in DOMAIN project.routes : project.routes[i].application \in TypedBindings
        /\ Valid(project)

(* A name that exists already is refused when it is created (ProjectStore).*)
AddProject ==
  /\ dialogue = Nil /\ stored = Nil
  /\ dialogue' = Opened(NoProject)
  /\ UNCHANGED stored

EditProject ==
  /\ dialogue = Nil /\ stored # Nil
  /\ dialogue' = Opened(project)
  /\ UNCHANGED stored

(* collect_project asks what to do with each of the old routes.            *)
AtOldRoute == dialogue # Nil /\ dialogue.at \in DOMAIN dialogue.old.routes

Asked == dialogue.old.routes[dialogue.at]

Collect(routes, touched) ==
  /\ dialogue' = [old |-> dialogue.old, at |-> dialogue.at + 1,
                  routes |-> dialogue.routes \o routes,
                  touched |-> dialogue.touched \cup touched]
  /\ UNCHANGED stored

KeepRoute == AtOldRoute /\ Collect(<<Asked>>, {})

DeleteRoute == AtOldRoute /\ Collect(<<>>, {dialogue.at})

EditRoute(a) ==
  /\ AtOldRoute
  /\ Accepted(Asked, a)
  /\ Collect(<<PromptRoute(Asked, a)>>, IF a = AllDefaults THEN {} ELSE {dialogue.at})

(* Project::with_capabilities, then create or replace.                     *)
Complete(routes) ==
  LET p == [routes |-> routes, capabilities |-> dialogue.old.capabilities]
  IN /\ dialogue' = Nil
     /\ stored' = IF Valid(p) THEN Encoded(p) ELSE stored

\* Mutant: finishing saves the routes only.
FinishRoutes ==
  /\ AtOldRoute
  /\ dialogue' = Nil
  /\ LET p == [routes |-> dialogue.routes \o SubSeq(dialogue.old.routes, dialogue.at,
                                                    Len(dialogue.old.routes)),
               capabilities |-> <<>>]
     IN stored' = IF Valid(p) THEN Encoded(p) ELSE stored

(* The current route and those behind it are kept, none are added.         *)
Finish ==
  /\ AtOldRoute
  /\ Complete(dialogue.routes \o SubSeq(dialogue.old.routes, dialogue.at,
                                        Len(dialogue.old.routes)))

AtNewRoute == dialogue # Nil /\ ~AtOldRoute

NewRoute(a) ==
  /\ AtNewRoute
  /\ a.name # Nil /\ Accepted(NoRoute, a)
  /\ Len(dialogue.routes) < MaxRoutes
  /\ Collect(<<PromptRoute(NoRoute, a)>>, {})

(* A blank name ends the list.                                             *)
EndRoutes == AtNewRoute /\ Complete(dialogue.routes)

(* An answer is refused, or the user interrupts the command.               *)
GiveUp ==
  /\ dialogue # Nil
  /\ dialogue' = Nil
  /\ UNCHANGED stored

DeleteProject ==
  /\ dialogue = Nil /\ stored # Nil
  /\ stored' = Nil
  /\ UNCHANGED dialogue

(* The capability commands: with_capabilities refuses a name that is taken.*)
AddCapability(c) ==
  LET p == [routes |-> project.routes, capabilities |-> Append(project.capabilities, c)]
  IN /\ dialogue = Nil /\ stored # Nil
     /\ NamesRoute(project, c.route)
     /\ Valid(p)
     /\ stored' = Encoded(p)
     /\ UNCHANGED dialogue

(* retain drops the one capability of that name.                           *)
DeleteCapability(n) ==
  /\ dialogue = Nil /\ stored # Nil
  /\ \E i \in DOMAIN project.capabilities :
       LET others == SubSeq(project.capabilities, 1, i - 1)
                       \o SubSeq(project.capabilities, i + 1, Len(project.capabilities))
           p == [routes |-> project.routes, capabilities |-> others]
       IN /\ project.capabilities[i].name = n
          /\ Valid(p)
          /\ stored' = Encoded(p)
  /\ UNCHANGED dialogue

Next ==
  \/ AddProject \/ EditProject \/ DeleteProject
  \/ KeepRoute \/ DeleteRoute \/ Finish \/ EndRoutes \/ GiveUp
  \/ \E a \in Answers : EditRoute(a) \/ NewRoute(a)
  \/ \E c \in Capabilities : AddCapability(c)
  \/ \E n \in CapabilityNames : DeleteCapability(n)

Spec == Init /\ [][Next]_vars

-----------------------------------------------------------------------------
TypeOK ==
  /\ \/ stored = Nil
     \/ stored \in [version : {1}, routes : Seq(LegacyRoutes)]
     \/ stored \in [version : {2}, routes : Seq(Routes), capabilities : Seq(Capabilities)]
  /\ \/ dialogue = Nil
     \/ dialogue \in [old : Projects, at : Nat \ {0}, routes : Seq(Routes),
                      touched : SUBSET Nat]

(* What a dialogue may do to the project it was about.                     *)
Saved == dialogue # Nil /\ stored' # stored

Untouched == DOMAIN dialogue.old.routes \ dialogue.touched

(* main.rs tests/finish_keeps_the_current_and_remaining_routes, for every  *)
(* dialogue: a route the user neither deleted nor gave a new text for is   *)
(* there afterwards as it was, and such routes keep their order.  A user   *)
(* who only presses return, or whose input ends, changes nothing.          *)
UntouchedRoutesStay ==
  [][Saved =>
       \A i, j \in Untouched : i <= j =>
         \E m, n \in DOMAIN project'.routes :
           /\ m <= n /\ (i = j <=> m = n)
           /\ project'.routes[m] = dialogue.old.routes[i]
           /\ project'.routes[n] = dialogue.old.routes[j]]_vars

(* An edit of the routes keeps every capability, and one whose route was   *)
(* not touched still leads to the same URL with the same key.              *)
CapabilitiesKeepDestination ==
  [][Saved =>
       /\ project'.capabilities = dialogue.old.capabilities
       /\ \A i \in Untouched, c \in DOMAIN project'.capabilities, j \in DOMAIN project'.routes :
            /\ project'.capabilities[c].route = dialogue.old.routes[i].name
            /\ project'.routes[j].name = project'.capabilities[c].route
            => project'.routes[j] = dialogue.old.routes[i]]_vars
=============================================================================
