--------------------------- MODULE CloudFunctions ---------------------------
(***************************************************************************)
(* The two managers of Cloud Functions (manager/cloud_functions).          *)
(*                                                                         *)
(* FunctionGen2Manager first makes a map from the display names of         *)
(* Eventarc's providers to their event types.  Eventarc lists a provider   *)
(* once for every location it is in, and not with the same types           *)
(* everywhere: a later listing of a name replaces an earlier one, in its   *)
(* place.  The test that was to leave known types out compares a           *)
(* dictionary with strings and leaves none out.                            *)
(***************************************************************************)
EXTENDS Naturals, Sequences, FiniteSetsExt

CONSTANTS
  DisplayName, EventType,
  Function,
  KnownService,    \* services the first generation has a name for
  OtherService,
  MaxProviders     \* bound on the entries Eventarc lists

VARIABLES
  providers,   \* list_providers
  at,          \* position in providers
  trigger_provider_map,   \* dict, in the order of insertion: [name, types]
  functions,   \* the functions listed, with what the code reads
  left,        \* functions the loops have not reached
  collected,   \* function -> trigger
  errors       \* functions with an error response

vars == <<providers, at, trigger_provider_map, functions, left, collected, errors>>

-----------------------------------------------------------------------------
\* "Not Found" is what is shown when there is no name.
NamesTyped == "Not Found" \notin DisplayName

Provider == [displayName : DisplayName, eventTypes : SUBSET EventType]

\* trigger_provider_map[display_name] = event types
Entry == [name : DisplayName, types : SUBSET EventType]

\* A function of the second generation is triggered by an event or by HTTP,
\* one of the first by an event of a service or by HTTP.
Listed ==
  [environment : {"GEN_2"}, trigger : EventType \cup {"HTTP"}, wholeSecond : BOOLEAN]
  \cup [environment : {"GEN_1"}, trigger : KnownService \cup OtherService \cup {"HTTP"},
        wholeSecond : BOOLEAN]

Init ==
  /\ providers \in UNION {[1 .. n -> Provider] : n \in 0 .. MaxProviders}
  /\ at = 1
  /\ trigger_provider_map = <<>>
  /\ functions \in [Function -> Listed]
  /\ left = Function
  /\ collected = <<>> /\ errors = {}

\* Mutant of Assign: a list of pairs.
append_pair(map, name, types) == Append(map, [name |-> name, types |-> types])

\* Assigning to a key that is there keeps its place.
Assign(map, name, types) ==
  IF \E k \in DOMAIN map : map[k].name = name
  THEN [k \in DOMAIN map |-> IF map[k].name = name THEN [name |-> name, types |-> types]
                             ELSE map[k]]
  ELSE Append(map, [name |-> name, types |-> types])

\* Mutant of EventTypes: the test finds what it looks for.
NewEventTypes(provider) ==
  {e \in provider.eventTypes :
     \A k \in DOMAIN trigger_provider_map :
       trigger_provider_map[k].name = provider.displayName
         => e \notin trigger_provider_map[k].types}

EventTypes(provider) == provider.eventTypes

_create_trigger_provider_map ==
  /\ at <= Len(providers)
  /\ trigger_provider_map' = Assign(trigger_provider_map, providers[at].displayName,
                                    EventTypes(providers[at]))
  /\ at' = at + 1
  /\ UNCHANGED <<providers, functions, left, collected, errors>>

_get_event_provider_from_trigger_map(e) ==
  LET offering == {k \in DOMAIN trigger_provider_map : e \in trigger_provider_map[k].types}
  IN IF offering = {} THEN "Not Found" ELSE trigger_provider_map[Min(offering)].name

\* _get_display_name of the first generation: a name per service it knows.
\* Another raises KeyError.
HasDisplayName(service) == service \in KnownService

\* What a function is shown to be triggered by.
Trigger(f) ==
  IF functions[f].trigger = "HTTP" THEN "HTTP"
  ELSE IF functions[f].environment = "GEN_2"
       THEN _get_event_provider_from_trigger_map(functions[f].trigger)
       ELSE functions[f].trigger

\* _make_last_deployed takes the update time apart at its ".", which a time on
\* a whole second does not have.
Reads(f) ==
  /\ ~functions[f].wholeSecond
  /\ functions[f].environment = "GEN_1" /\ functions[f].trigger # "HTTP"
       => HasDisplayName(functions[f].trigger)

\* One turn of the loop of the function's manager.
BuildFunction(f) ==
  /\ at > Len(providers) /\ f \in left /\ Reads(f)
  /\ left' = left \ {f}
  /\ collected' = [g \in DOMAIN collected \cup {f} |->
                     IF g = f THEN Trigger(f) ELSE collected[g]]
  /\ UNCHANGED <<providers, at, trigger_provider_map, functions, errors>>

FailFunction(f) ==
  /\ at > Len(providers) /\ f \in left /\ ~Reads(f)
  /\ left' = left \ {f}
  /\ errors' = errors \cup {f}
  /\ UNCHANGED <<providers, at, trigger_provider_map, functions, collected>>

Next == \/ _create_trigger_provider_map
        \/ \E f \in Function : BuildFunction(f) \/ FailFunction(f)

Spec == Init /\ [][Next]_vars

-----------------------------------------------------------------------------
TypeOK ==
  /\ providers \in Seq(Provider)
  /\ at \in 1 .. Len(providers) + 1
  /\ Len(trigger_provider_map) < at
  /\ \A j, k \in DOMAIN trigger_provider_map :
       trigger_provider_map[j].name = trigger_provider_map[k].name => j = k
  /\ DOMAIN collected \cap errors = {}
  /\ DOMAIN collected \cup errors = Function \ left

\* The listings of a name, in all locations.
OfName(name) == {k \in DOMAIN providers : providers[k].displayName = name}

\* The provider shown for an event offers it in some location.  One that is
\* offered under a name in all its locations is found; "Not Found" is shown
\* only if the last location listed of every name does without.
ProviderOffersEvent ==
  \A f \in DOMAIN collected :
    LET e == functions[f].trigger
    IN functions[f].environment = "GEN_2" /\ e # "HTTP" =>
         IF collected[f] = "Not Found"
         THEN \A name \in DisplayName : \A k \in OfName(name) :
                (\A j \in OfName(name) : j <= k) => e \notin providers[k].eventTypes
         ELSE \E k \in OfName(collected[f]) : e \in providers[k].eventTypes

=============================================================================
