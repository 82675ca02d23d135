------------------------- MODULE PubSubSubscriptions -------------------------
(***************************************************************************)
(* SubscriptionManager (manager/pub_sub) shows subscriptions as they were  *)
(* listed.  Their durations come as text, "86400s", with a fraction if     *)
(* there is one, and are shown by their two largest units: the retention,  *)
(* how long until the subscription expires, and how long to wait before    *)
(* and between retries.  The first is always there.                        *)
(***************************************************************************)
EXTENDS Naturals, Sequences

CONSTANTS
  Subscription,
  Seconds        \* bound: the durations that occur

VARIABLES
  subscriptions,   \* list_subscriptions: subscription -> its fields
  left,            \* subscriptions the loop has not reached
  collected,       \* subscription -> subscription_display
  errors           \* subscriptions with an error response

vars == <<subscriptions, left, collected, errors>>

-----------------------------------------------------------------------------
Duration == [seconds : Seconds, fraction : BOOLEAN]

\* Of the other durations only whether they are there, and have a fraction.
Optional == {"none", "whole", "fraction"}

Listed == [topic : {"topic", "_deleted-topic_"},
           messageRetentionDuration : Duration,
           ttl : Optional, minimumBackoff : Optional, maximumBackoff : Optional]

intervals == <<86400, 3600, 60, 1>>

\* What is left of the duration for a unit, in whole units.
Value(seconds, k) ==
  (IF k = 1 THEN seconds ELSE seconds % intervals[k - 1]) \div intervals[k]

\* Mutant of Value: the remainder is not reduced by what is shown.
value_whole(seconds, k) == seconds \div intervals[k]

\* " ".join(result[:granularity]) with granularity 2: the first two of days,
\* hours, minutes and seconds that are not 0.
_display_time(seconds) ==
  LET Counts(k) == Value(seconds, k) # 0
      TwoBefore(k) == \E i, j \in 1 .. k - 1 : i # j /\ Counts(i) /\ Counts(j)
  IN [k \in {n \in 1 .. 4 : Counts(n) /\ ~TwoBefore(n)} |-> Value(seconds, k)]

_make_enable_attachment(topic) ==
  IF topic = "_deleted-topic_" THEN "Unattached" ELSE "Attached"

\* int("600.5") raises, whichever of the durations it is.
ReadsAsInt(s) ==
  /\ ~subscriptions[s].messageRetentionDuration.fraction
  /\ "fraction" \notin {subscriptions[s].ttl, subscriptions[s].minimumBackoff,
                         subscriptions[s].maximumBackoff}

Init ==
  /\ subscriptions \in [Subscription -> Listed]
  /\ left = Subscription
  /\ collected = <<>> /\ errors = {}

Build(s) ==
  /\ s \in left /\ ReadsAsInt(s)
  /\ left' = left \ {s}
  /\ collected' = [u \in DOMAIN collected \cup {s} |->
       IF u # s THEN collected[u]
       ELSE [attachment |-> _make_enable_attachment(subscriptions[s].topic),
             retention_duration |->
               _display_time(subscriptions[s].messageRetentionDuration.seconds)]]
  /\ UNCHANGED <<subscriptions, errors>>

FailToRead(s) ==
  /\ s \in left /\ ~ReadsAsInt(s)
  /\ left' = left \ {s}
  /\ errors' = errors \cup {s}
  /\ UNCHANGED <<subscriptions, collected>>

Next == \E s \in Subscription : Build(s) \/ FailToRead(s)

Spec == Init /\ [][Next]_vars

-----------------------------------------------------------------------------
TypeOK ==
  /\ subscriptions \in [Subscription -> Listed]
  /\ left \subseteq Subscription
  /\ DOMAIN collected \cap errors = {}
  /\ DOMAIN collected \cup errors = Subscription \ left

\* How long the units shown are together.
Total(shown) ==
  LET Length(k) == IF k \in DOMAIN shown THEN shown[k] * intervals[k] ELSE 0
  IN Length(1) + Length(2) + Length(3) + Length(4)

\* A duration that is shown is never longer than what was configured, and
\* shorter by less than the smallest unit shown; only 0 seconds are shown as
\* nothing.  A subscription is an error just if one of its durations has a
\* fraction of a second, be it of the retry policy, and is shown otherwise.
RetentionShown ==
  /\ \A s \in DOMAIN collected :
       LET shown == collected[s].retention_duration
           seconds == subscriptions[s].messageRetentionDuration.seconds
       IN IF DOMAIN shown = {} THEN seconds = 0
          ELSE /\ Total(shown) <= seconds
               /\ \A k \in DOMAIN shown :
                    (\A j \in DOMAIN shown : j <= k)
                      => seconds - Total(shown) < intervals[k]
  /\ \A s \in Subscription \ left :
       s \in errors <=>
         \/ subscriptions[s].messageRetentionDuration.fraction
         \/ \E key \in {"ttl", "minimumBackoff", "maximumBackoff"} :
              subscriptions[s][key] = "fraction"

=============================================================================
