-------------------------- MODULE CapabilityPolicy --------------------------
(***************************************************************************)
(* What one invocation of a capability may reach and bring back: a session *)
(* is made of a project, `CapabilityBroker::invoke' checks an invocation   *)
(* against the capability it names, and the shared broker builds the       *)
(* target, asks the upstream and looks at its response.                    *)
(*                                                                         *)
(* Paths are followed byte by byte, since the rules are about bytes and    *)
(* their purpose is about what the upstream makes of them.  "%" stands for *)
(* the bytes no path may contain and "a" for any other one.  Of the other  *)
(* capabilities of the project only the routes they use matter.            *)
(***************************************************************************)
EXTENDS Naturals, Sequences, FiniteSets, SequencesExt

CONSTANTS Routes,      \* routes of the project
          MaxBase,     \* bound: bytes of the path of a base URL, as typed
          MaxPath,     \* bound: bytes of a path
          MaxPrefix,   \* bound: bytes of a path prefix
          MaxPrefixes, \* bound: path prefixes of the capability
          Limit,       \* its max_response_bytes
          Nil

ASSUME Bounds == {MaxBase, MaxPath, MaxPrefix, Limit} \subseteq Nat

VARIABLES route,    \* the route of the capability
          base,     \* the path of that route's stored base URL
          prefixes, \* its path prefixes
          others,   \* the routes of the other capabilities
          held,     \* the routes the broker keeps, with their keys
          stage,    \* where the session is
          call,     \* the invocation
          target,   \* the path of the URL the upstream was asked for
          body,     \* the body the upstream answers with
          error,    \* the error that invoke returns, or "none"
          response  \* the body of the response it returns, or Nil

project == <<route, base, prefixes, others>>
vars == <<project, held, stage, call, target, body, error, response>>

-----------------------------------------------------------------------------
(* Paths.                                                                  *)
Byte == {"/", ".", "a", "%"}

Paths(n) == UNION {[1 .. k -> Byte] : k \in 0 .. n}

ASSUME NilIsNoPath == Nil \notin Seq(Byte)

Dot == <<".">>
DotDot == <<".", ".">>

(* One byte more of a path that is split.                                  *)
Split(done, byte) ==
  IF byte = "/" THEN Append(done, <<>>)
  ELSE [done EXCEPT ![Len(done)] = Append(@, byte)]

(* split('/') of a path that begins with one, less the nothing before it.  *)
Segments(path) ==
  LET split[n \in 0 .. Len(path)] == IF n = 0 THEN <<>> ELSE Split(split[n - 1], path[n])
  IN split[Len(path)]

\* Mutant: the last segment is not looked at.
NormalizedButLast(path) ==
  /\ path # <<>> /\ path[1] = "/"
  /\ \A i \in DOMAIN path : path[i] # "%"
  /\ LET segments == Segments(path)
     IN \A k \in DOMAIN segments : k < Len(segments) => segments[k] \notin {Dot, DotDot, <<>>}

(* origin_path_is_normalized: only the last segment may be empty.          *)
Normalized(path) ==
  /\ path # <<>> /\ path[1] = "/"
  /\ \A i \in DOMAIN path : path[i] # "%"
  /\ LET segments == Segments(path)
     IN \A k \in DOMAIN segments :
          /\ segments[k] \notin {Dot, DotDot}
          /\ segments[k] = <<>> => k = Len(segments)

\* Mutant: the text is enough.
AllowsText(path) == \E prefix \in prefixes : IsPrefix(prefix, path)

\* Mutant: what is beneath a prefix, but not the prefix itself.
AllowsBeneath(path) ==
  \E prefix \in prefixes :
    IF Last(prefix) = "/" THEN IsPrefix(prefix, path)
    ELSE IsPrefix(Append(prefix, "/"), path)

(* HttpPolicy::allows_path.                                                *)
Allows(path) ==
  \E prefix \in prefixes :
    IF Last(prefix) = "/" THEN IsPrefix(prefix, path)
    ELSE path = prefix \/ IsPrefix(Append(prefix, "/"), path)

Trimmed(path) == SubSeq(path, 1, SelectLastInSeq(path, LAMBDA b : b # "/"))

(* target_url: base URL and path with one slash between them.              *)
Target(path) ==
  LET tail == SelectInSeq(path, LAMBDA b : b # "/")
  IN Trimmed(base) \o <<"/">> \o IF tail = 0 THEN <<>> ELSE SubSeq(path, tail, Len(path))

(* What the URL parser of the HTTP client makes of the path of a URL: dot  *)
(* segments are taken out, with the segment before them if they are two.   *)
Keep(done, segment) ==
  CASE segment = Dot -> done
    [] segment = DotDot -> SubSeq(done, 1, Len(done) - 1)
    [] OTHER -> Append(done, segment)

Resolved(path) ==
  LET segments == Segments(path)
      kept[n \in 0 .. Len(segments)] == IF n = 0 THEN <<>> ELSE Keep(kept[n - 1], segments[n])
      all == kept[Len(segments)]
  IN IF segments # <<>> /\ Last(segments) \in {Dot, DotDot} THEN Append(all, <<>>) ELSE all

(* canonical_base_url keeps what the parser makes of a URL, less the       *)
(* slashes at its end; ProjectRoute::validate refuses what this changes.   *)
Canonical(path) ==
  LET segments == Resolved(path)
  IN Trimmed(FlattenSeq([k \in DOMAIN segments |-> <<"/">> \o segments[k]]))

Bases ==
  {b \in {Canonical(p) : p \in {p \in Paths(MaxBase) :
                                (p # <<>> => p[1] = "/") /\ \A i \in DOMAIN p : p[i] # "%"}} :
     Canonical(b) = b}

-----------------------------------------------------------------------------
(* An invocation: its path, and what else is wrong with it, if anything    *)
(* ("encoding": its body's, or a content type given twice; "fields": its   *)
(* query or its headers).                                                  *)
Flaws == {"none", "encoding", "body", "capability", "method", "denied", "fields"}

Calls == [path : Paths(MaxPath), flaw : Flaws]

(* A response body: its length, whether it comes to its end, and the       *)
(* routes whose keys are in it, in one of the encodings that               *)
(* contains_secret looks for.                                              *)
Bodies == [length : 0 .. Limit + 2, ends : BOOLEAN, keys : SUBSET Routes]

(* A project is valid (HttpPolicy::validate).                              *)
Init ==
  /\ route \in Routes /\ others \in SUBSET Routes
  /\ base \in Bases
  /\ prefixes \in {ps \in SUBSET {p \in Paths(MaxPrefix) : Normalized(p)} :
                    Cardinality(ps) \in 1 .. MaxPrefixes}
  /\ held = {} /\ stage = "project"
  /\ call = Nil /\ target = Nil /\ body = Nil
  /\ error = "none" /\ response = Nil

(* CapabilityBroker::from_project keeps the routes its capabilities use.   *)
FromProject ==
  /\ stage = "project"
  /\ held' = {route} \cup others
  /\ stage' = "serving"
  /\ UNCHANGED <<project, call, target, body, error, response>>

(* invocation_from_request, invoke and execute_route: the first check that *)
(* fails says what is wrong.                                               *)
Checks(c) ==
  << [fails |-> c.flaw = "encoding",     error |-> "INVALID_REQUEST"],
     [fails |-> c.flaw = "body",         error |-> "REQUEST_TOO_LARGE"],
     [fails |-> c.flaw = "capability",   error |-> "CAPABILITY_NOT_FOUND"],
     [fails |-> c.flaw = "method",       error |-> "INVALID_REQUEST"],
     [fails |-> c.flaw = "denied",       error |-> "METHOD_DENIED"],
     [fails |-> ~ Normalized(c.path),    error |-> "INVALID_REQUEST"],
     [fails |-> ~ Allows(c.path),        error |-> "PATH_DENIED"],
     [fails |-> c.flaw = "fields",       error |-> "INVALID_REQUEST"],
     [fails |-> route \notin held,       error |-> "CAPABILITY_NOT_FOUND"] >>

Refusal(c) ==
  LET first == SelectInSeq(Checks(c), LAMBDA check : check.fails)
  IN IF first = 0 THEN "none" ELSE Checks(c)[first].error

Invoke ==
  /\ stage = "serving"
  /\ call' \in Calls
  /\ error' = Refusal(call')
  /\ IF error' = "none"
     THEN target' = Target(call'.path) /\ stage' = "upstream"
     ELSE stage' = "answered" /\ UNCHANGED target
  /\ UNCHANGED <<project, held, body, response>>

Minimum(m, n) == IF m < n THEN m ELSE n

\* Mutant: no byte more than the limit is read.
ReadUpToLimit(b) == Minimum(b.length, Limit)

(* read_limited reads one byte more than it may keep.                      *)
Read(b) == Minimum(b.length, Limit + 1)

\* Mutant: only the key that was used is looked for.
ReflectsItsOwn(b) == route \in b.keys

(* Every key that the broker holds is looked for.                          *)
Reflects(b) == held \cap b.keys # {}

(* The upstream answers, whatever its status, and Broker::forward reads:   *)
(* an error while it does is reported like a body that is too long.        *)
Respond(b) ==
  /\ stage = "upstream"
  /\ body' = b
  /\ error' = IF ~ b.ends \/ Read(b) > Limit THEN "RESPONSE_TOO_LARGE"
              ELSE IF Reflects(b) THEN "SECRET_REFLECTION" ELSE "none"
  /\ response' = IF error' = "none" THEN [b EXCEPT !.length = Read(b)] ELSE Nil
  /\ stage' = "answered"
  /\ UNCHANGED <<project, held, call, target>>

(* It cannot be reached, or does not answer in time.                       *)
Fail ==
  /\ stage = "upstream"
  /\ error' = "UPSTREAM_UNREACHABLE"
  /\ stage' = "answered"
  /\ UNCHANGED <<project, held, call, target, body, response>>

(* The server writes the result and takes the next invocation.             *)
Reply ==
  /\ stage = "answered"
  /\ stage' = "serving"
  /\ call' = Nil /\ target' = Nil /\ body' = Nil
  /\ error' = "none" /\ response' = Nil
  /\ UNCHANGED <<project, held>>

Next ==
  \/ FromProject \/ Invoke \/ Fail \/ Reply
  \/ \E b \in Bodies : Respond(b)

Spec == Init /\ [][Next]_vars

-----------------------------------------------------------------------------
(* The upstream resolves the URL it is asked for to exactly the path that  *)
(* was checked, beneath the base URL (origin_path_is_normalized and        *)
(* target_url).                                                            *)
TargetIsTheOneChecked ==
  target # Nil => Resolved(target) = Segments(base) \o Segments(call.path)

(* The segments that a prefix grants: with a slash at its end only what is *)
(* beneath them, without one themselves as well.                           *)
Grants(prefix, segments) ==
  LET all == Segments(prefix)
  IN IF Last(all) = <<>> THEN IsStrictPrefix(Front(all), segments) ELSE IsPrefix(all, segments)

(* Segment by segment, what is asked for is beneath a granted prefix: a    *)
(* sibling whose name begins alike is not (HttpPolicy::allows_path).       *)
StaysWithinGrant ==
  target # Nil =>
    \E prefix \in prefixes :
      Grants(prefix, SubSeq(Resolved(target), Len(Segments(base)) + 1, Len(Resolved(target))))

(* What is granted can be used: an invocation with nothing wrong whose     *)
(* segments are granted is sent (invoke and execute_route).                *)
GrantIsUsable ==
  (/\ call # Nil
   /\ call.flaw = "none" /\ Normalized(call.path)
   /\ \E prefix \in prefixes : Grants(prefix, Segments(call.path)))
  => target # Nil

(* A body is delivered whole, within the limit, or not at all              *)
(* (read_limited).                                                         *)
DeliveredWhole == response # Nil => response = body /\ body.ends /\ body.length <= Limit

(* No body brings the key of any route of the session back, the one that   *)
(* was asked or another (Broker::forward).                                 *)
NoKeyDelivered == response # Nil => response.keys \cap ({route} \cup others) = {}
=============================================================================
