-------------------------- MODULE ProjectRunProofs --------------------------
(***************************************************************************)
(* Editing, serving and running a project, for projects and descriptor     *)
(* tables of any size.  The inductive invariant: what is stored and what   *)
(* is being launched is a valid project, a dialogue has collected the      *)
(* routes its user has not touched, in their order, and no descriptor      *)
(* behind the one to be sealed next is open.                               *)
(***************************************************************************)
EXTENDS ProjectRun, TLAPS

StoredValid == stored # Nil => Valid(project)

(* The routes `i' and `j' of the old project are among `routes', in order. *)
Both(routes, old, i, j) ==
  \E m, n \in DOMAIN routes :
    /\ m <= n /\ (i = j <=> m = n)
    /\ routes[m] = old[i] /\ routes[n] = old[j]

DialogueKeeps ==
  dialogue # Nil =>
    \A i, j \in Untouched :
      i <= j /\ j < dialogue.at => Both(dialogue.routes, dialogue.old.routes, i, j)

LaunchValid == launch # Nil => Valid(launch.project)

Sealed ==
  launch # Nil =>
    /\ launch.step = "forked" => launch.next = 3
    /\ \A d \in Descriptors :
         /\ launch.step = "sealing" /\ d < launch.next => launch.table[d] # "open"
         /\ launch.step = "sealed" /\ d < launch.maximum => launch.table[d] # "open"
         /\ launch.step = "running" /\ d < launch.maximum => launch.table[d] = "closed"

IInv ==
  TypeOK /\ LaunchTypeOK /\ StoredValid /\ DialogueKeeps /\ LaunchValid /\ Sealed

-----------------------------------------------------------------------------
(* What is got from the repository is a project, of either version.        *)
LEMMA DecodedIsProject ==
  ASSUME TypeOK, stored # Nil
  PROVE  project \in Projects
<1>1. CASE stored \in [version : {1}, routes : Seq(LegacyRoutes)]
  <2>1. [i \in DOMAIN stored.routes |-> Migrated(stored.routes[i])] \in Seq(Routes)
    <3>1. \A r \in LegacyRoutes : Migrated(r) \in Routes
      BY DEF LegacyRoutes, Migrated, Routes, Bindings
    <3>2. stored.routes \in [1..Len(stored.routes) -> LegacyRoutes] /\ Len(stored.routes) \in Nat
      BY <1>1
    <3> QED
      BY <3>1, <3>2
  <2>2. project = [routes |-> [i \in DOMAIN stored.routes |-> Migrated(stored.routes[i])],
                   capabilities |-> <<>>]
    BY <1>1 DEF project, Decoded
  <2> QED
    BY <2>1, <2>2 DEF Projects
<1>2. CASE stored \in [version : {2}, routes : Seq(Routes), capabilities : Seq(Capabilities)]
  BY <1>2 DEF project, Decoded, Projects
<1> QED
  BY <1>1, <1>2 DEF TypeOK

(* What is written is read back.                                           *)
LEMMA EncodedIsDecoded ==
  ASSUME NEW p \in Projects
  PROVE  /\ Decoded(Encoded(p)) = p
         /\ Encoded(p) \in [version : {2}, routes : Seq(Routes),
                            capabilities : Seq(Capabilities)]
  BY DEF Decoded, Encoded, Projects

(* Pressing return at every prompt leaves a route as it is.                *)
LEMMA DefaultsKeepRoute ==
  ASSUME NEW r \in Routes
  PROVE  PromptRoute(r, AllDefaults) = r
  BY DEF Routes, PromptRoute, AllDefaults, Ask, WantsBinding

(* Every action but the completions leaves the record alone or replaces it *)
(* by a valid project.                                                     *)
LEMMA CompleteStores ==
  ASSUME TypeOK, dialogue # Nil, NEW routes \in Seq(Routes), Complete(routes)
  PROVE  /\ dialogue' = Nil
         /\ \/ stored' = stored
            \/ LET p == [routes |-> routes, capabilities |-> dialogue.old.capabilities]
               IN p \in Projects /\ Valid(p) /\ stored' = Encoded(p)
<1>1. dialogue.old \in Projects
  BY DEF TypeOK
<1>2. [routes |-> routes, capabilities |-> dialogue.old.capabilities] \in Projects
  BY <1>1 DEF Projects
<1> QED
  BY <1>2 DEF Complete

LEMMA FinishedRoutes ==
  ASSUME TypeOK, AtOldRoute
  PROVE  dialogue.routes \o SubSeq(dialogue.old.routes, dialogue.at,
                                   Len(dialogue.old.routes)) \in Seq(Routes)
<1>1. /\ dialogue.old.routes \in Seq(Routes) /\ dialogue.routes \in Seq(Routes)
      /\ dialogue.at \in 1..Len(dialogue.old.routes)
  BY DEF AtOldRoute, TypeOK, Projects
<1>2. SubSeq(dialogue.old.routes, dialogue.at, Len(dialogue.old.routes)) \in Seq(Routes)
  BY <1>1
<1> QED
  BY <1>1, <1>2

-----------------------------------------------------------------------------
(* Types and valid projects, over the editing commands.                    *)
LEMMA NextStoresValid ==
  ASSUME TypeOK, StoredValid, Next
  PROVE  TypeOK' /\ StoredValid'
<1>1. ASSUME UNCHANGED stored, dialogue' = Nil PROVE TypeOK' /\ StoredValid'
  BY <1>1 DEF TypeOK, StoredValid, project
<1>2. ASSUME NEW p \in Projects, Valid(p), stored' = Encoded(p), dialogue' = Nil
      PROVE  TypeOK' /\ StoredValid'
  BY <1>2, EncodedIsDecoded DEF TypeOK, StoredValid, project
<1>3. ASSUME NEW p \in Projects, UNCHANGED stored, dialogue' = Opened(p)
      PROVE  TypeOK' /\ StoredValid'
  BY <1>3 DEF TypeOK, StoredValid, project, Opened, Projects
<1>4. ASSUME dialogue # Nil, NEW routes \in Seq(Routes), NEW touched \in SUBSET Nat,
             Collect(routes, touched)
      PROVE  TypeOK' /\ StoredValid'
  <2>1. dialogue \in [old : Projects, at : Nat \ {0}, routes : Seq(Routes),
                      touched : SUBSET Nat]
    BY <1>4 DEF TypeOK
  <2>2. dialogue.routes \o routes \in Seq(Routes) /\ dialogue.old \in Projects
    BY <2>1
  <2>4. dialogue.at + 1 \in Nat \ {0}
    BY <2>1
  <2>5. dialogue.touched \cup touched \in SUBSET Nat
    BY <2>1
  <2>3. dialogue' \in [old : Projects, at : Nat \ {0}, routes : Seq(Routes),
                       touched : SUBSET Nat]
    BY <1>4, <2>2, <2>4, <2>5 DEF Collect
  <2> QED
    BY <1>4, <2>3 DEF TypeOK, StoredValid, project, Collect
<1>5. CASE AddProject
  <2>1. <<>> \in Seq(Routes) /\ <<>> \in Seq(Capabilities)
    OBVIOUS
  <2> QED
    BY <1>3, <1>5, <2>1 DEF AddProject, NoProject, Projects
<1>6. CASE EditProject
  BY <1>3, <1>6, DecodedIsProject DEF EditProject
<1>7. CASE DeleteProject
  BY <1>7 DEF DeleteProject, TypeOK, StoredValid
<1>8. CASE AtOldRoute /\ (KeepRoute \/ DeleteRoute \/ \E a \in Answers : EditRoute(a))
  <2>1. /\ Asked \in Routes /\ dialogue # Nil /\ {dialogue.at} \in SUBSET Nat
        /\ <<Asked>> \in Seq(Routes) /\ <<>> \in Seq(Routes)
    BY <1>8 DEF AtOldRoute, Asked, TypeOK, Projects
  <2>2. CASE KeepRoute
    BY <1>4, <2>1, <2>2 DEF KeepRoute
  <2>3. CASE DeleteRoute
    BY <1>4, <2>1, <2>3 DEF DeleteRoute
  <2>4. ASSUME NEW a \in Answers, EditRoute(a) PROVE TypeOK' /\ StoredValid'
    <3>1. PromptRoute(Asked, a) \in Routes /\ <<PromptRoute(Asked, a)>> \in Seq(Routes)
      BY <2>4 DEF EditRoute, Accepted
    <3> QED
      BY <1>4, <2>1, <2>4, <3>1 DEF EditRoute
  <2> QED
    BY <1>8, <2>2, <2>3, <2>4
<1>9. ASSUME NEW a \in Answers, NewRoute(a) PROVE TypeOK' /\ StoredValid'
  <2>1. /\ dialogue # Nil /\ <<PromptRoute(NoRoute, a)>> \in Seq(Routes)
        /\ Collect(<<PromptRoute(NoRoute, a)>>, {})
    BY <1>9 DEF NewRoute, Accepted, AtNewRoute
  <2>2. {} \in SUBSET Nat /\ <<PromptRoute(NoRoute, a)>> \in Seq(Routes)
    BY <2>1
  <2> QED
    BY <1>4, <2>1, <2>2
<1>10. CASE Finish
  BY <1>1, <1>2, <1>10, CompleteStores, FinishedRoutes DEF Finish, AtOldRoute
<1>11. CASE EndRoutes
  <2>1. dialogue # Nil /\ dialogue.routes \in Seq(Routes)
    BY <1>11 DEF EndRoutes, AtNewRoute, TypeOK
  <2> QED
    BY <1>1, <1>2, <1>11, <2>1, CompleteStores DEF EndRoutes
<1>12. CASE GiveUp
  BY <1>1, <1>12 DEF GiveUp
<1>13. ASSUME NEW c \in Capabilities, AddCapability(c) PROVE TypeOK' /\ StoredValid'
  <2>1. project \in Projects /\ dialogue' = Nil
    BY <1>13, DecodedIsProject DEF AddCapability
  <2>2. [routes |-> project.routes, capabilities |-> Append(project.capabilities, c)] \in Projects
    BY <2>1 DEF Projects
  <2> QED
    BY <1>2, <1>13, <2>1, <2>2 DEF AddCapability
<1>14. ASSUME NEW n \in CapabilityNames, DeleteCapability(n) PROVE TypeOK' /\ StoredValid'
  <2> DEFINE caps == project.capabilities
             Others(i) == SubSeq(caps, 1, i - 1) \o SubSeq(caps, i + 1, Len(caps))
  <2>1. project \in Projects /\ dialogue' = Nil
    BY <1>14, DecodedIsProject DEF DeleteCapability
  <2>2. PICK i \in DOMAIN caps :
          LET p == [routes |-> project.routes, capabilities |-> Others(i)]
          IN Valid(p) /\ stored' = Encoded(p)
    BY <1>14 DEF DeleteCapability
  <2>3. caps \in Seq(Capabilities) /\ i \in 1..Len(caps)
    BY <2>1 DEF Projects
  <2>4. SubSeq(caps, 1, i - 1) \in Seq(Capabilities)
    BY <2>3
  <2>5. SubSeq(caps, i + 1, Len(caps)) \in Seq(Capabilities)
    BY <2>3
  <2>6. Others(i) \in Seq(Capabilities)
    BY <2>4, <2>5
  <2>7. [routes |-> project.routes, capabilities |-> Others(i)] \in Projects
    BY <2>1, <2>6 DEF Projects
  <2> QED
    BY <1>2, <2>1, <2>2, <2>7
<1> QED
  BY <1>5, <1>6, <1>7, <1>8, <1>9, <1>10, <1>11, <1>12, <1>13, <1>14
  DEF Next, KeepRoute, DeleteRoute, EditRoute

-----------------------------------------------------------------------------
(* A dialogue keeps the routes its user does not touch, in their order.    *)
LEMMA BothExtended ==
  ASSUME NEW routes \in Seq(Routes), NEW more \in Seq(Routes), NEW old \in Seq(Routes),
         NEW i \in Nat, NEW j \in Nat, Both(routes, old, i, j)
  PROVE  Both(routes \o more, old, i, j)
<1>1. PICK m, n \in DOMAIN routes :
        /\ m <= n /\ (i = j <=> m = n)
        /\ routes[m] = old[i] /\ routes[n] = old[j]
  BY DEF Both
<1>2. /\ m \in DOMAIN (routes \o more) /\ n \in DOMAIN (routes \o more)
      /\ (routes \o more)[m] = routes[m] /\ (routes \o more)[n] = routes[n]
  OBVIOUS
<1> QED
  BY <1>1, <1>2 DEF Both

LEMMA Shift ==
  ASSUME NEW l \in Int, NEW at \in Int, NEW i \in Int, NEW j \in Int, i <= j
  PROVE  /\ l + (i - at + 1) <= l + (j - at + 1)
         /\ i = j <=> l + (i - at + 1) = l + (j - at + 1)
  OBVIOUS

(* What was collected before position `at', then the old routes from there.*)
LEMMA BothFinished ==
  ASSUME NEW routes \in Seq(Routes), NEW all \in Seq(Routes), NEW old \in Seq(Routes),
         NEW at \in 1..Len(old), NEW i \in 1..Len(old), NEW j \in 1..Len(old), i <= j,
         Len(all) = Len(routes) + (Len(old) - at + 1),
         \A k \in 1..Len(routes) : all[k] = routes[k],
         \A k \in at..Len(old) : all[Len(routes) + (k - at + 1)] = old[k],
         i < at => Both(routes, old, i, i),
         j < at => Both(routes, old, i, j)
  PROVE  Both(all, old, i, j)
<1>1. CASE j < at
  <2>1. PICK m, n \in DOMAIN routes :
          /\ m <= n /\ (i = j <=> m = n)
          /\ routes[m] = old[i] /\ routes[n] = old[j]
    BY <1>1 DEF Both
  <2>2. m \in 1..Len(routes) /\ n \in 1..Len(routes)
    BY <2>1
  <2>3. m \in DOMAIN all /\ n \in DOMAIN all /\ all[m] = old[i] /\ all[n] = old[j]
    BY <2>1, <2>2
  <2> QED
    BY <2>1, <2>3 DEF Both
<1>2. CASE i < at /\ at <= j
  <2>1. PICK m \in DOMAIN routes : routes[m] = old[i]
    BY <1>2 DEF Both
  <2>2. m \in 1..Len(routes) /\ m \in DOMAIN all /\ all[m] = old[i]
    BY <2>1
  <2> DEFINE n == Len(routes) + (j - at + 1)
  <2>3. n \in DOMAIN all /\ all[n] = old[j] /\ m < n /\ i # j
    BY <1>2, <2>2
  <2> HIDE DEF n
  <2>4. m <= n /\ (i = j <=> m = n)
    BY <2>2, <2>3
  <2> QED
    BY <2>2, <2>3, <2>4 DEF Both
<1>3. CASE at <= i
  <2>1. /\ i \in at..Len(old) /\ j \in at..Len(old)
        /\ Len(routes) \in Nat /\ at \in Int /\ i \in Int /\ j \in Int
    BY <1>3
  <2>2. PICK m \in DOMAIN all : m = Len(routes) + (i - at + 1) /\ all[m] = old[i]
    BY <2>1
  <2>3. PICK n \in DOMAIN all : n = Len(routes) + (j - at + 1) /\ all[n] = old[j]
    BY <2>1
  <2>4. m <= n /\ (i = j <=> m = n)
    <3>1. Len(routes) \in Int
      BY <2>1
    <3>2. /\ Len(routes) + (i - at + 1) <= Len(routes) + (j - at + 1)
          /\ i = j <=> Len(routes) + (i - at + 1) = Len(routes) + (j - at + 1)
      BY ONLY <2>1, <3>1, Shift, i <= j
    <3> QED
      BY <2>2, <2>3, <3>2
  <2> QED
    BY <2>2, <2>3, <2>4 DEF Both
<1> QED
  BY <1>1, <1>2, <1>3

(* One answer: the route asked about is collected unless it is touched.    *)
LEMMA BothCollected ==
  ASSUME NEW routes \in Seq(Routes), NEW r \in Routes, NEW old \in Seq(Routes),
         NEW at \in 1..Len(old), NEW i \in 1..at, r = old[at],
         i < at => Both(routes, old, i, i)
  PROVE  Both(routes \o <<r>>, old, i, at)
<1> DEFINE all == routes \o <<r>>
<1>1. /\ all \in Seq(Routes) /\ Len(all) = Len(routes) + 1 /\ Len(routes) \in Nat
      /\ all[Len(routes) + 1] = old[at]
      /\ \A k \in 1..Len(routes) : all[k] = routes[k]
  OBVIOUS
<1> SUFFICES Both(all, old, i, at)
  OBVIOUS
<1> HIDE DEF all
<1>2. Len(routes) + 1 \in DOMAIN all
  BY <1>1
<1>3. CASE i = at
  BY <1>1, <1>2, <1>3 DEF Both
<1>4. CASE i < at
  <2>1. PICK m \in DOMAIN routes : routes[m] = old[i]
    BY <1>4 DEF Both
  <2>2. m \in 1..Len(routes) /\ m \in DOMAIN all /\ all[m] = old[i]
    BY <1>1, <2>1
  <2>3. m <= Len(routes) + 1 /\ (i = at <=> m = Len(routes) + 1)
    BY <1>1, <1>4, <2>2
  <2> QED
    BY ONLY <1>1, <1>2, <2>2, <2>3 DEF Both
<1>5. i = at \/ i < at
  OBVIOUS
<1> QED
  BY <1>3, <1>4, <1>5

LEMMA NextKeeps ==
  ASSUME TypeOK, DialogueKeeps, Next
  PROVE  DialogueKeeps'
<1>1. ASSUME dialogue' = Nil PROVE DialogueKeeps'
  BY <1>1 DEF DialogueKeeps
<1>2. ASSUME NEW p \in Projects, dialogue' = Opened(p) PROVE DialogueKeeps'
  <2>1. dialogue'.at = 1 /\ dialogue'.old \in Projects
    BY <1>2 DEF Opened
  <2> QED
    BY <2>1 DEF DialogueKeeps, Untouched, Projects
<1>3. ASSUME dialogue # Nil, NEW more \in Seq(Routes), NEW touched, Collect(more, touched),
             AtOldRoute /\ dialogue.at \notin touched => more = <<Asked>>
      PROVE  DialogueKeeps'
  <2> DEFINE old == dialogue.old.routes
             at == dialogue.at
             routes == dialogue.routes
  <2>1. /\ old \in Seq(Routes) /\ routes \in Seq(Routes) /\ at \in Nat \ {0}
        /\ dialogue'.old.routes = old /\ dialogue'.at = at + 1
        /\ dialogue'.routes = routes \o more
        /\ dialogue'.touched = dialogue.touched \cup touched
    BY <1>3 DEF TypeOK, Collect, Projects
  <2>2. \A i, j \in Untouched : i <= j /\ j < at => Both(routes, old, i, j)
    BY <1>3 DEF DialogueKeeps
  <2>3. SUFFICES ASSUME NEW i \in Untouched', NEW j \in Untouched', i <= j, j < at + 1
                 PROVE  Both(routes \o more, old, i, j)
    BY <2>1 DEF DialogueKeeps
  <2>4. /\ i \in Untouched /\ j \in Untouched /\ j \notin touched
        /\ i \in 1..Len(old) /\ j \in 1..Len(old)
    BY <2>1, <2>3 DEF Untouched
  <2>5. CASE j < at
    BY <2>1, <2>2, <2>3, <2>4, <2>5, BothExtended
  <2>6. CASE j = at
    <3>1. at \in 1..Len(old) /\ i \in 1..at
      BY <2>1, <2>3, <2>4, <2>6
    <3>2. more = <<old[at]>> /\ old[at] \in Routes
      BY <1>3, <2>1, <2>4, <2>6, <3>1 DEF AtOldRoute, Asked
    <3>3. i < at => Both(routes, old, i, i)
      BY <2>1, <2>2, <2>4
    <3> QED
      BY <2>1, <2>6, <3>1, <3>2, <3>3, BothCollected
  <2> QED
    BY <2>1, <2>3, <2>4, <2>5, <2>6
<1>4. CASE KeepRoute \/ DeleteRoute \/ \E a \in Answers : EditRoute(a)
  <2>1. /\ Asked \in Routes /\ dialogue # Nil
        /\ <<Asked>> \in Seq(Routes) /\ <<>> \in Seq(Routes)
    <3>1. AtOldRoute
      BY <1>4 DEF KeepRoute, DeleteRoute, EditRoute
    <3> QED
      BY <3>1 DEF AtOldRoute, Asked, TypeOK, Projects
  <2>2. CASE KeepRoute
    BY <1>3, <2>1, <2>2 DEF KeepRoute
  <2>3. CASE DeleteRoute
    BY <1>3, <2>1, <2>3 DEF DeleteRoute
  <2>4. ASSUME NEW a \in Answers, EditRoute(a) PROVE DialogueKeeps'
    <3>1. <<PromptRoute(Asked, a)>> \in Seq(Routes)
      BY <2>4 DEF EditRoute, Accepted
    <3>2. a = AllDefaults => PromptRoute(Asked, a) = Asked
      BY <2>1, DefaultsKeepRoute
    <3> QED
      BY <1>3, <2>1, <2>4, <3>1, <3>2 DEF EditRoute
  <2> QED
    BY <1>4, <2>2, <2>3, <2>4
<1>5. ASSUME NEW a \in Answers, NewRoute(a) PROVE DialogueKeeps'
  <2>1. /\ dialogue # Nil /\ ~AtOldRoute /\ <<PromptRoute(NoRoute, a)>> \in Seq(Routes)
        /\ Collect(<<PromptRoute(NoRoute, a)>>, {})
    BY <1>5 DEF NewRoute, Accepted, AtNewRoute
  <2> QED
    BY <1>3, <2>1
<1>6. CASE AddProject
  <2>1. NoProject \in Projects
    BY DEF NoProject, Projects
  <2> QED
    BY <1>2, <1>6, <2>1 DEF AddProject
<1>7. CASE EditProject
  BY <1>2, <1>7, DecodedIsProject DEF EditProject
<1>8. CASE \/ DeleteProject \/ Finish \/ EndRoutes \/ GiveUp
           \/ \E c \in Capabilities : AddCapability(c)
           \/ \E n \in CapabilityNames : DeleteCapability(n)
  BY <1>1, <1>8
  DEF DeleteProject, Finish, EndRoutes, GiveUp, AddCapability, DeleteCapability, Complete
<1> QED
  BY <1>4, <1>5, <1>6, <1>7, <1>8 DEF Next

-----------------------------------------------------------------------------
(* What a dialogue saves.                                                  *)
LEMMA SavedProject ==
  ASSUME TypeOK, DialogueKeeps, Next, Saved
  PROVE  /\ project' \in Projects /\ Valid(project')
         /\ project'.capabilities = dialogue.old.capabilities
         /\ \A i, j \in Untouched :
              i <= j => Both(project'.routes, dialogue.old.routes, i, j)
<1> DEFINE old == dialogue.old.routes
           at == dialogue.at
           routes == dialogue.routes
<1>1. /\ dialogue # Nil /\ old \in Seq(Routes) /\ routes \in Seq(Routes) /\ at \in Nat \ {0}
      /\ \A i \in Untouched : i \in 1..Len(old)
  BY DEF Saved, TypeOK, Projects, Untouched
<1>2. \A i, j \in Untouched : i <= j /\ j < at => Both(routes, old, i, j)
  BY <1>1 DEF DialogueKeeps
<1>3. ASSUME NEW all \in Seq(Routes), Complete(all)
      PROVE  /\ project' \in Projects /\ Valid(project')
             /\ project'.capabilities = dialogue.old.capabilities
             /\ project'.routes = all
  <2> DEFINE p == [routes |-> all, capabilities |-> dialogue.old.capabilities]
  <2>1. p \in Projects /\ Valid(p) /\ stored' = Encoded(p)
    BY <1>1, <1>3, CompleteStores DEF Saved
  <2>2. project' = p
    BY <2>1, EncodedIsDecoded DEF project
  <2> QED
    BY <2>1, <2>2
<1>4. CASE Finish
  <2> DEFINE all == routes \o SubSeq(old, at, Len(old))
  <2>1. all \in Seq(Routes) /\ Complete(all) /\ at \in 1..Len(old)
    BY <1>1, <1>4, FinishedRoutes DEF Finish, AtOldRoute
  <2>2. SubSeq(old, at, Len(old)) \in Seq(Routes)
    BY <1>1, <2>1
  <2>3. /\ Len(SubSeq(old, at, Len(old))) = Len(old) - at + 1
        /\ \A k \in 1..(Len(old) - at + 1) : SubSeq(old, at, Len(old))[k] = old[at + k - 1]
    BY <1>1, <2>1
  <2>4. /\ Len(all) = Len(routes) + (Len(old) - at + 1)
        /\ \A k \in 1..Len(routes) : all[k] = routes[k]
    BY <1>1, <2>1, <2>2, <2>3
  <2>5. ASSUME NEW k \in at..Len(old) PROVE all[Len(routes) + (k - at + 1)] = old[k]
    <3> DEFINE n == Len(old)
    <3>a. n \in Nat /\ at \in 1..n /\ k \in at..n
      BY <1>1, <2>1
    <3> HIDE DEF n, at
    <3>b. k - at + 1 \in 1..(n - at + 1) /\ at + (k - at + 1) - 1 = k
      BY <3>a
    <3>1. k - at + 1 \in 1..(Len(old) - at + 1) /\ at + (k - at + 1) - 1 = k
      BY <3>b DEF n
    <3> USE DEF at
    <3>2. SubSeq(old, at, Len(old))[k - at + 1] = old[k]
      BY <2>3, <3>1
    <3>3. \A l \in 1..Len(SubSeq(old, at, Len(old))) :
            all[Len(routes) + l] = SubSeq(old, at, Len(old))[l]
      BY <1>1, <2>2
    <3> QED
      BY <2>3, <3>1, <3>2, <3>3
  <2> HIDE DEF all
  <2>6. ASSUME NEW i \in Untouched, NEW j \in Untouched, i <= j
        PROVE  Both(all, old, i, j)
    <3>1. i \in 1..Len(old) /\ j \in 1..Len(old)
      BY <1>1
    <3>2. i < at => Both(routes, old, i, i)
      BY <1>2, <3>1
    <3>3. j < at => Both(routes, old, i, j)
      BY <1>2, <2>6
    <3> QED
      BY <1>1, <2>1, <2>4, <2>5, <2>6, <3>1, <3>2, <3>3, BothFinished
  <2> QED
    BY <1>3, <2>1, <2>6
<1>5. CASE EndRoutes
  <2>1. Complete(routes) /\ at \notin 1..Len(old)
    BY <1>1, <1>5 DEF EndRoutes, AtNewRoute, AtOldRoute
  <2>2. \A i, j \in Untouched : j < at
    BY <1>1, <2>1
  <2> QED
    BY <1>1, <1>2, <1>3, <2>1, <2>2
<1>6. CASE \/ AddProject \/ EditProject \/ DeleteProject \/ KeepRoute \/ DeleteRoute
           \/ GiveUp \/ \E a \in Answers : EditRoute(a) \/ NewRoute(a)
           \/ \E c \in Capabilities : AddCapability(c)
           \/ \E n \in CapabilityNames : DeleteCapability(n)
  BY <1>6 DEF Saved, AddProject, EditProject, DeleteProject, KeepRoute, DeleteRoute, GiveUp,
     EditRoute, NewRoute, AddCapability, DeleteCapability, Collect
<1> QED
  BY <1>4, <1>5, <1>6 DEF Next

-----------------------------------------------------------------------------
(* The launch: a project that was valid when it was read, and a table that *)
(* is sealed up to the next descriptor.                                    *)
LEMMA LaunchKeeps ==
  ASSUME IInv, NextRun, UNCHANGED vars
  PROVE  LaunchTypeOK' /\ LaunchValid' /\ Sealed'
<1> USE DEF IInv
<1> DEFINE Step == {"forked", "sealing", "sealed", "running"}
           Launch(s, table, next) ==
             [step |-> s, project |-> launch.project, maximum |-> launch.maximum,
              table |-> table, next |-> next]
<1>1. ASSUME launch' = Nil PROVE LaunchTypeOK' /\ LaunchValid' /\ Sealed'
  BY <1>1 DEF LaunchTypeOK, LaunchValid, Sealed
<1>2. \A d \in Descriptors : d \in Nat /\ d > 2
  BY Launching
<1>3. ASSUME NEW maximum \in Limits, NEW table \in Tables, Start(maximum, table)
      PROVE  LaunchTypeOK' /\ LaunchValid' /\ Sealed'
  <2>1. project \in Projects /\ Valid(project)
    BY <1>3, DecodedIsProject DEF Start, StoredValid
  <2>2. launch' = [step |-> "forked", project |-> project, maximum |-> maximum,
                   table |-> table, next |-> 3]
    BY <1>3 DEF Start
  <2> QED
    BY <2>1, <2>2 DEF LaunchTypeOK, LaunchValid, Sealed
<1>4. ASSUME launch # Nil, NEW s \in Step \ {"forked"}, NEW table \in Tables, NEW next \in Nat,
             launch' = Launch(s, table, next),
             \A d \in Descriptors :
               /\ s = "sealing" /\ d < next => table[d] # "open"
               /\ s = "sealed" /\ d < launch.maximum => table[d] # "open"
               /\ s = "running" /\ d < launch.maximum => table[d] = "closed"
      PROVE  LaunchTypeOK' /\ LaunchValid' /\ Sealed'
  <2>1. launch \in [step : Step, project : Projects, maximum : Limits, table : Tables, next : Nat]
    BY <1>4 DEF LaunchTypeOK
  <2> QED
    BY <1>4, <2>1 DEF LaunchTypeOK, LaunchValid, Sealed
<1> HIDE DEF Launch
<1>5. \A ds : launch # Nil => Seal(ds) \in Tables
  BY DEF LaunchTypeOK, Seal, Tables
<1>6. ASSUME launch # Nil
      PROVE  /\ launch.step \in Step /\ launch.table \in Tables
             /\ launch.next \in Nat /\ launch.maximum \in Nat
  BY <1>6, Launching DEF LaunchTypeOK
<1>7. CASE CloseRange
  <2>1. launch # Nil /\ launch' = Launch("sealed", Seal(Descriptors), launch.next)
    BY <1>7 DEF CloseRange, LaunchTypeOK, AtStep, Launch
  <2>2. \A d \in Descriptors : Seal(Descriptors)[d] # "open"
    BY <1>6, <2>1 DEF Seal, Tables
  <2>3. Seal(Descriptors) \in Tables /\ launch.next \in Nat
    BY <1>5, <1>6, <2>1
  <2> QED
    BY <1>4, <2>1, <2>2, <2>3
<1>8. CASE NoCloseRange
  <2>1. launch # Nil /\ launch.step = "forked"
        /\ launch' = Launch("sealing", launch.table, launch.next)
    BY <1>8 DEF NoCloseRange, LaunchTypeOK, AtStep, Launch
  <2>2. launch.next = 3
    BY <2>1 DEF Sealed
  <2>3. launch.table \in Tables /\ launch.next \in Nat
    BY <1>6, <2>1
  <2>4. \A d \in Descriptors : ~(d < launch.next)
    BY <1>2, <2>2
  <2> QED
    BY <1>4, <2>1, <2>3, <2>4
<1>9. CASE SealNext /\ launch.next < launch.maximum
  <2> DEFINE table == Seal({launch.next})
  <2>1. launch # Nil /\ launch.step = "sealing"
        /\ launch' = Launch("sealing", table, launch.next + 1)
    BY <1>9 DEF SealNext, LaunchTypeOK, AtStep, Launch
  <2>2. \A d \in Descriptors : d < launch.next => launch.table[d] # "open"
    BY <2>1 DEF Sealed
  <2>3. \A d \in Descriptors : d < launch.next + 1 => d < launch.next \/ d = launch.next
    BY <1>2, <1>6, <2>1
  <2>4. \A d \in Descriptors : d < launch.next + 1 => table[d] # "open"
    BY <1>6, <2>1, <2>2, <2>3 DEF Seal, Tables
  <2>5. table \in Tables /\ launch.next + 1 \in Nat
    BY <1>5, <1>6, <2>1
  <2> HIDE DEF table
  <2> QED
    BY <1>4, <2>1, <2>4, <2>5
<1>10. CASE SealNext /\ ~(launch.next < launch.maximum)
  <2>1. launch # Nil /\ launch.step = "sealing"
        /\ launch' = Launch("sealed", launch.table, launch.next)
    BY <1>10 DEF SealNext, LaunchTypeOK, AtStep, Launch
  <2>2. \A d \in Descriptors : d < launch.maximum => launch.table[d] # "open"
    BY <1>2, <1>6, <1>10, <2>1 DEF Sealed
  <2>3. launch.table \in Tables /\ launch.next \in Nat
    BY <1>6, <2>1
  <2> QED
    BY <1>4, <2>1, <2>2, <2>3
<1>11. CASE Exec
  <2> DEFINE table == [d \in Descriptors |-> IF launch.table[d] = "cloexec"
                                             THEN "closed" ELSE launch.table[d]]
  <2>1. launch # Nil /\ launch.step = "sealed"
        /\ launch' = Launch("running", table, launch.next)
    BY <1>11 DEF Exec, LaunchTypeOK, AtStep, Launch
  <2>2. table \in Tables
    BY <1>6, <2>1 DEF Tables
  <2>3. \A d \in Descriptors : d < launch.maximum => table[d] = "closed"
    BY <1>6, <2>1 DEF Sealed, Tables
  <2>4. launch.next \in Nat
    BY <1>6, <2>1
  <2> HIDE DEF table
  <2> QED
    BY <1>4, <2>1, <2>2, <2>3, <2>4
<1>12. CASE EndLaunch
  BY <1>1, <1>12 DEF EndLaunch
<1>13. CASE EditFirst
  BY <1>1, <1>13 DEF EditFirst
<1> QED
  BY <1>3, <1>7, <1>8, <1>9, <1>11, <1>12, <1>13, <1>10 DEF NextRun

-----------------------------------------------------------------------------
(* The inductive invariant holds.                                          *)
THEOREM RunInvariant == SpecRun => []IInv
<1>1. InitRun => IInv
  <2> SUFFICES ASSUME InitRun PROVE IInv
    OBVIOUS
  <2>1. dialogue = Nil /\ launch = Nil
    BY DEF InitRun, Init
  <2>2. stored # Nil => Valid(project) /\ stored \in [version : {1}, routes : Seq(LegacyRoutes)]
    <3> SUFFICES ASSUME stored # Nil
                 PROVE  Valid(project) /\ stored \in [version : {1}, routes : Seq(LegacyRoutes)]
      OBVIOUS
    <3>1. /\ Valid(project)
          /\ stored \in [version : {1}, routes : UNION {[1..n -> LegacyRoutes] : n \in 1..MaxRoutes}]
      BY DEF InitRun, Init
    <3>2. UNION {[1..n -> LegacyRoutes] : n \in 1..MaxRoutes} \subseteq Seq(LegacyRoutes)
      BY Texts
    <3> QED
      BY <3>1, <3>2
  <2> QED
    BY <2>1, <2>2
    DEF IInv, TypeOK, LaunchTypeOK, StoredValid, DialogueKeeps, LaunchValid, Sealed
<1>2. IInv /\ [NextRun]_runVars => IInv'
  <2> SUFFICES ASSUME IInv, [NextRun]_runVars PROVE IInv'
    OBVIOUS
  <2>1. CASE UNCHANGED runVars
    BY <2>1 DEF runVars, IInv, TypeOK, LaunchTypeOK, StoredValid, DialogueKeeps, LaunchValid,
       Sealed, project, Untouched
  <2>2. CASE EditFirst
    BY <2>2, NextStoresValid, NextKeeps
    DEF EditFirst, IInv, LaunchTypeOK, LaunchValid, Sealed
  <2>3. CASE NextRun /\ UNCHANGED vars
    <3>1. TypeOK' /\ StoredValid' /\ DialogueKeeps'
      BY <2>3 DEF IInv, vars, TypeOK, StoredValid, DialogueKeeps, project, Untouched
    <3> QED
      BY <2>3, <3>1, LaunchKeeps DEF IInv
  <2> QED
    BY <2>1, <2>2, <2>3 DEF NextRun, Start, CloseRange, NoCloseRange, SealNext, Exec, EndLaunch
<1> QED
  BY <1>1, <1>2, PTL DEF SpecRun

(* Whatever is stored is served, and a capability leads to one route.      *)
THEOREM CapabilitiesServed == SpecRun => []EveryCapabilityServed
<1>1. IInv => EveryCapabilityServed
  <2> SUFFICES ASSUME IInv, stored # Nil, NEW c \in DOMAIN project.capabilities
               PROVE  \E i \in ServedRoutes(project) :
                        Resolves(project, project.capabilities[c].route) = {i}
    BY DEF EveryCapabilityServed
  <2>1. Valid(project)
    BY DEF IInv, StoredValid
  <2>2. PICK i \in DOMAIN project.routes : project.routes[i].name = project.capabilities[c].route
    BY <2>1 DEF Valid, NamesRoute
  <2>3. \A j \in DOMAIN project.routes : project.routes[j].name = project.routes[i].name => j = i
    BY <2>1, <2>2 DEF Valid
  <2> QED
    BY <2>2, <2>3 DEF ServedRoutes, Resolves
<1> QED
  BY <1>1, RunInvariant, PTL

(* In a valid project one route sets each of the variables it is bound to, *)
(* and none sets a reserved one.                                           *)
LEMMA OneSetter ==
  ASSUME NEW p \in Projects, Valid(p)
  PROVE  /\ \A i \in BoundRoutes(p) : \A v \in Variables(p.routes[i]) : SettersOf(p, v) = {i}
         /\ \A v \in Reserved : SettersOf(p, v) = {}
<1>1. ASSUME NEW i \in BoundRoutes(p), NEW v \in Variables(p.routes[i])
      PROVE  SettersOf(p, v) = {i}
  BY <1>1 DEF SettersOf, BoundRoutes, Valid
<1>2. ASSUME NEW v \in Reserved PROVE SettersOf(p, v) = {}
  BY <1>2 DEF SettersOf, BoundRoutes, Valid, Variables, BindingValid
<1> QED
  BY <1>1, <1>2

(* The child of `twl run' finds what belongs to each of its routes.        *)
THEOREM ChildEnvironmentCorrect == SpecRun => []ChildSeesItsRoutes
<1>1. IInv => ChildSeesItsRoutes
  <2> SUFFICES ASSUME IInv, launch # Nil PROVE ChildSeesItsRoutes
    BY DEF ChildSeesItsRoutes
  <2> DEFINE p == launch.project
  <2>1. p \in Projects /\ Valid(p)
    BY DEF IInv, LaunchTypeOK, LaunchValid
  <2> HIDE DEF p
  <2>2. ASSUME NEW i \in BoundRoutes(p), NEW v \in Variables(p.routes[i])
        PROVE  ChildVariable(p, v) = IF v = p.routes[i].application.base_url_env
                                     THEN <<"loopback URL", p.routes[i].name>>
                                     ELSE <<"fake key", p.routes[i].name>>
    <3>1. SettersOf(p, v) = {i}
      BY <2>1, <2>2, OneSetter
    <3>2. i \in Nat
      BY <2>1, <2>2 DEF BoundRoutes, Projects
    <3>3. LastSetter(p, v) = i
      BY <3>1, <3>2 DEF LastSetter
    <3>4. SettersOf(p, v) # {}
      BY <3>1
    <3> QED
      BY <3>3, <3>4 DEF ChildVariable
  <2>3. ASSUME NEW i \in BoundRoutes(p)
        PROVE  /\ p.routes[i].application.api_key_env \in Variables(p.routes[i])
               /\ p.routes[i].application.base_url_env \in Variables(p.routes[i])
               /\ p.routes[i].application.api_key_env # p.routes[i].application.base_url_env
    BY <2>1, <2>3 DEF BoundRoutes, Variables, Valid, BindingValid
  <2>4. \A v \in Strip : ChildVariable(p, v) = <<"unset">>
    BY <2>1, OneSetter, Launching DEF ChildVariable
  <2> QED
    BY <2>2, <2>3, <2>4 DEF ChildSeesItsRoutes, p
<1> QED
  BY <1>1, RunInvariant, PTL

(* A descriptor of its parent that a child starts with is at or above the  *)
(* limit.                                                                  *)
THEOREM DescriptorsSealed == SpecRun => []InheritedOnlyBeyondLimit
<1>1. IInv => InheritedOnlyBeyondLimit
  <2> SUFFICES ASSUME IInv, AtStep("running"), NEW d \in Descriptors,
                      launch.table[d] # "closed"
               PROVE  d >= launch.maximum
    BY DEF InheritedOnlyBeyondLimit
  <2>1. ~(d < launch.maximum)
    BY DEF IInv, Sealed, AtStep
  <2>2. launch.maximum \in Nat /\ d \in Nat
    BY Launching DEF IInv, LaunchTypeOK, AtStep
  <2> QED
    BY <2>1, <2>2
<1> QED
  BY <1>1, RunInvariant, PTL

(* A dialogue leaves the routes alone that its user does not touch.        *)
THEOREM UntouchedRoutesSurvive == SpecRun => UntouchedRoutesStay
<1>1. IInv /\ [NextRun]_runVars =>
        [Saved => \A i, j \in Untouched : i <= j =>
           \E m, n \in DOMAIN project'.routes :
             /\ m <= n /\ (i = j <=> m = n)
             /\ project'.routes[m] = dialogue.old.routes[i]
             /\ project'.routes[n] = dialogue.old.routes[j]]_vars
  <2>1. ASSUME IInv, EditFirst, Saved, NEW i \in Untouched, NEW j \in Untouched, i <= j
        PROVE  Both(project'.routes, dialogue.old.routes, i, j)
    BY <2>1, SavedProject DEF EditFirst, IInv
  <2>2. [NextRun]_runVars => EditFirst \/ UNCHANGED vars
    BY DEF NextRun, Start, CloseRange, NoCloseRange, SealNext, Exec, EndLaunch, runVars, vars
  <2> QED
    BY <2>1, <2>2 DEF Both
<1> QED
  BY <1>1, RunInvariant, PTL DEF SpecRun, UntouchedRoutesStay

(* A dialogue keeps the capabilities, and where they lead.                 *)
THEOREM CapabilitiesSurvive == SpecRun => CapabilitiesKeepDestination
<1>1. ASSUME IInv, EditFirst, Saved
      PROVE  /\ project'.capabilities = dialogue.old.capabilities
             /\ \A i \in Untouched, c \in DOMAIN project'.capabilities,
                   j \in DOMAIN project'.routes :
                  /\ project'.capabilities[c].route = dialogue.old.routes[i].name
                  /\ project'.routes[j].name = project'.capabilities[c].route
                  => project'.routes[j] = dialogue.old.routes[i]
  <2>1. /\ project' \in Projects /\ Valid(project')
        /\ project'.capabilities = dialogue.old.capabilities
        /\ \A i, j \in Untouched :
             i <= j => Both(project'.routes, dialogue.old.routes, i, j)
    BY <1>1, SavedProject DEF EditFirst, IInv
  <2>2. ASSUME NEW i \in Untouched, NEW j \in DOMAIN project'.routes,
               project'.routes[j].name = dialogue.old.routes[i].name
        PROVE  project'.routes[j] = dialogue.old.routes[i]
    <3>1. i \in Nat
      BY <1>1 DEF IInv, TypeOK, Saved, Untouched, Projects
    <3>2. Both(project'.routes, dialogue.old.routes, i, i)
      BY <2>1, <3>1
    <3>3. PICK m \in DOMAIN project'.routes : project'.routes[m] = dialogue.old.routes[i]
      BY <3>2 DEF Both
    <3>4. m = j
      BY <2>1, <2>2, <3>3 DEF Valid
    <3> QED
      BY <3>3, <3>4
  <2> QED
    BY <2>1, <2>2
<1>2. [NextRun]_runVars => EditFirst \/ UNCHANGED vars
  BY DEF NextRun, Start, CloseRange, NoCloseRange, SealNext, Exec, EndLaunch, runVars, vars
<1>3. IInv /\ [NextRun]_runVars =>
        [Saved => /\ project'.capabilities = dialogue.old.capabilities
                  /\ \A i \in Untouched, c \in DOMAIN project'.capabilities,
                        j \in DOMAIN project'.routes :
                       /\ project'.capabilities[c].route = dialogue.old.routes[i].name
                       /\ project'.routes[j].name = project'.capabilities[c].route
                       => project'.routes[j] = dialogue.old.routes[i]]_vars
  BY <1>1, <1>2
<1> QED
  BY <1>3, RunInvariant, PTL DEF SpecRun, CapabilitiesKeepDestination
=============================================================================
