------------------------------ MODULE Connections ------------------------------
(***************************************************************************)
(* One provider connection: its row (routers/connections.py), the profile  *)
(* that refers to it, and the tests that API clients have a worker make    *)
(* through Redis (probes.py).  Metadata are asked for in the same way,     *)
(* under a flight key of their own, and not recorded.                      *)
(*                                                                         *)
(* The handlers that change the row take the workspace's lock first and    *)
(* are one step each; a test takes none.  A version of the row is its      *)
(* address and credentials; its identity is the ChurchTools host or the    *)
(* WorshipTools account in them.  Redis keys carry the ticks left to them. *)
(***************************************************************************)
EXTENDS Integers

CONSTANTS
  Clients,        \* API threads that may run a test
  Identities,     \* hosts and accounts
  NoIdentity,     \* no run, no binding
  MaxVersions,    \* bound: versions of the row
  MaxRequests,    \* bound: tests that become a flight
  FlightTicks,    \* _IN_FLIGHT_TTL_SECONDS
  ResultTicks,    \* _RESULT_TTL_SECONDS
  CooldownTicks,  \* _COOLDOWN_SECONDS
  WaitTicks,      \* _DEFAULT_WAIT_SECONDS
  MessageTicks    \* provider_probe_actor, max_age

ASSUME ConnectionsAssumption ==
  /\ MaxVersions \in Nat \ {0} /\ MaxRequests \in Nat \ {0}
  /\ NoIdentity \notin Identities /\ Identities # {}
  /\ {FlightTicks, ResultTicks, CooldownTicks, WaitTicks, MessageTicks} \subseteq Nat \ {0}
  /\ CooldownTicks < WaitTicks /\ WaitTicks < ResultTicks /\ ResultTicks < FlightTicks

Requests == 1 .. MaxRequests
Versions == 1 .. MaxVersions
Outcomes == {"never", "succeeded", "failed"}

VARIABLES
  connection,     \* its row: there, version, identity
  since,          \* ticks since a version was replaced
  tested,         \* last_tested_at (the flight it tells of) and last_test_succeeded
  profile,        \* a profile refers to the connection
  run, bound,     \* identity an active run, a binding was made with, or none
  flight,         \* the flight key: request and ticks left, or request 0
  response,       \* the response keys
  issued,         \* requests so far
  message,        \* the actor's messages and executions
  client,         \* the tests under way
  reported        \* history: the outcome of the test last_tested_at tells of

row == <<connection, since>>
uses == <<profile, run, bound>>
redis == <<flight, response>>
vars == <<row, tested, uses, redis, issued, message, client, reported>>

NoFlight == [request |-> 0, left |-> 0]
NoResponse == [kind |-> "none", version |-> 0, left |-> 0]
NoMessage == [at |-> "none", version |-> 0, left |-> 0]
Idle == [at |-> "idle", request |-> 0, left |-> 0, answer |-> NoResponse, loaded |-> "never"]

\* Nothing yet, or a connection with an earlier test.
Init ==
  /\ connection \in {[state |-> "none", version |-> 1, identity |-> NoIdentity]}
       \cup [state : {"there"}, version : {1}, identity : Identities]
  /\ since = [v \in Versions |-> 0]
  /\ tested \in [by : {0}, outcome : IF connection.state = "there" THEN Outcomes ELSE {"never"}]
  /\ reported = tested.outcome
  /\ profile = FALSE /\ run = NoIdentity /\ bound = NoIdentity
  /\ flight = NoFlight /\ response = [i \in Requests |-> NoResponse] /\ issued = 0
  /\ message = [i \in Requests |-> NoMessage]
  /\ client = [c \in Clients |-> Idle]

There == connection.state = "there"

-----------------------------------------------------------------------------
(* The row and what refers to it. *)

CreateConnection(identity) ==
  /\ connection.state = "none"
  /\ connection' = [connection EXCEPT !.state = "there", !.identity = identity]
  /\ UNCHANGED <<since, tested, uses, redis, issued, message, client, reported>>

\* Mutation: the identity of a connection in use may change.
IdentityMayChange == TRUE

\* update_connection: referenced is None
IdentityIsFree == ~profile

\* update_connection; last_test_* keep telling of the version that was tested.
UpdateConnection(identity) ==
  /\ There /\ connection.version < MaxVersions
  /\ identity # connection.identity => IdentityIsFree
  /\ connection' = [connection EXCEPT !.version = @ + 1, !.identity = identity]
  /\ UNCHANGED <<since, tested, uses, redis, issued, message, client, reported>>

DeleteConnection ==
  /\ There /\ ~profile /\ bound = NoIdentity
  /\ connection' = [connection EXCEPT !.state = "deleted"]
  /\ UNCHANGED <<since, tested, uses, redis, issued, message, client, reported>>

\* create_profile, or update_profile from another connection
Refer ==
  /\ There /\ ~profile
  /\ profile' = TRUE
  /\ UNCHANGED <<row, tested, run, bound, redis, issued, message, client, reported>>

\* update_profile to another connection, delete_profile: neither with an active run
\* nor with bindings.
ReferNoMore ==
  /\ profile /\ run = NoIdentity /\ bound = NoIdentity
  /\ profile' = FALSE
  /\ UNCHANGED <<row, tested, run, bound, redis, issued, message, client, reported>>

\* A run of the profile takes the connection as it is now.
StartRun ==
  /\ profile /\ run = NoIdentity
  /\ run' = connection.identity
  /\ UNCHANGED <<row, tested, profile, bound, redis, issued, message, client, reported>>

EndRun ==
  /\ run # NoIdentity
  /\ run' = NoIdentity
  /\ UNCHANGED <<row, tested, profile, bound, redis, issued, message, client, reported>>

\* The run puts its first item there, or removes its last one.
BindOrUnbind ==
  /\ run # NoIdentity
  /\ bound' = IF bound = NoIdentity THEN run ELSE NoIdentity
  /\ UNCHANGED <<row, tested, profile, run, redis, issued, message, client, reported>>

-----------------------------------------------------------------------------
(* Redis. *)

\* Mutation: the flight ends with its answer.
PublishLanding(i, answer) ==
  IF flight.request = i
  THEN /\ response' = [response EXCEPT ![i] = [answer EXCEPT !.left = ResultTicks]]
       /\ flight' = NoFlight
  ELSE UNCHANGED redis

\* Mutation: the flight key is given its first lifetime again.
PublishRenewing(i, answer) ==
  IF flight.request = i
  THEN /\ response' = [response EXCEPT ![i] = [answer EXCEPT !.left = ResultTicks]]
       /\ flight' = [flight EXCEPT !.left = FlightTicks]
  ELSE UNCHANGED redis

\* _PUBLISH_IF_OWNER_SCRIPT
Publish(i, answer) ==
  IF flight.request = i
  THEN /\ response' = [response EXCEPT ![i] = [answer EXCEPT !.left = ResultTicks]]
       /\ flight' = [flight EXCEPT !.left = CooldownTicks]
  ELSE UNCHANGED redis

Answered(i) == response[i].kind # "none"
Error == [NoResponse EXCEPT !.kind = "error"]

-----------------------------------------------------------------------------
(* test_connection and _request. *)

\* The row is read.
StartTest(c) ==
  /\ There /\ client[c].at = "idle"
  /\ client' = [client EXCEPT ![c].at = "asking", ![c].loaded = tested.outcome]
  /\ UNCHANGED <<row, tested, uses, redis, issued, message, reported>>

\* The flight key is set unless it exists.
AcquireOrJoin(c) ==
  /\ client[c].at = "asking"
  /\ IF flight.request = 0
     THEN /\ issued < MaxRequests
          /\ issued' = issued + 1
          /\ flight' = [request |-> issued + 1, left |-> FlightTicks]
          /\ client' = [client EXCEPT ![c].at = "acquired", ![c].request = issued + 1]
     ELSE /\ client' = [client EXCEPT ![c].at = "joining"]
          /\ UNCHANGED <<flight, issued>>
  /\ UNCHANGED <<row, tested, uses, response, message, reported>>

Enqueue(c) ==
  LET i == client[c].request IN
  /\ client[c].at = "acquired"
  /\ message' = [message EXCEPT ![i] = [NoMessage EXCEPT !.at = "queued", !.left = MessageTicks]]
  /\ client' = [client EXCEPT ![c].at = "polling", ![c].left = WaitTicks]
  /\ UNCHANGED <<row, tested, uses, redis, issued, reported>>

\* The queue cannot be reached; neither, perhaps, can Redis.
EnqueueFails(c) ==
  /\ client[c].at = "acquired"
  /\ client' = [client EXCEPT ![c] = Idle]
  /\ Publish(client[c].request, Error) \/ UNCHANGED redis
  /\ UNCHANGED <<row, tested, uses, issued, message, reported>>

\* Mutation: an error is taken for a result.
TakeAny(c, answer) ==
  client' = [client EXCEPT ![c] = IF answer.kind # "none"
                                  THEN [@ EXCEPT !.at = "answered", !.answer = answer]
                                  ELSE Idle]

\* _decode_response: a result is returned, an error raised.
Take(c, answer) ==
  client' = [client EXCEPT ![c] = IF answer.kind \in {"succeeded", "failed"}
                                  THEN [@ EXCEPT !.at = "answered", !.answer = answer]
                                  ELSE Idle]

\* A flight that lapsed in between is a problem.
ReadFlight(c) ==
  /\ client[c].at = "joining"
  /\ client' = [client EXCEPT ![c] = IF flight.request = 0 THEN Idle
                                     ELSE [@ EXCEPT !.at = "looking", !.request = flight.request]]
  /\ UNCHANGED <<row, tested, uses, redis, issued, message, reported>>

\* The cached answer, or provider_probe_in_progress.
Look(c) ==
  /\ client[c].at = "looking"
  /\ Take(c, response[client[c].request])
  /\ UNCHANGED <<row, tested, uses, redis, issued, message, reported>>

Poll(c) ==
  /\ client[c].at = "polling"
  /\ Answered(client[c].request) \/ client[c].left = 0
  /\ Take(c, response[client[c].request])
  /\ UNCHANGED <<row, tested, uses, redis, issued, message, reported>>

\* provider_probe_redis_unavailable
RedisFails(c) ==
  /\ client[c].at \in {"asking", "joining", "looking", "polling"}
  /\ client' = [client EXCEPT ![c] = Idle]
  /\ UNCHANGED <<row, tested, uses, redis, issued, message, reported>>

\* The session writes what differs from the row as it was read at the start; a row
\* that is gone is an error.
Record(c) ==
  LET outcome == client[c].answer.kind IN
  /\ client[c].at = "answered"
  /\ IF There
     THEN /\ tested' = [by |-> client[c].request,
                        outcome |-> IF outcome = client[c].loaded THEN tested.outcome ELSE outcome]
          /\ reported' = outcome
     ELSE UNCHANGED <<tested, reported>>
  /\ client' = [client EXCEPT ![c] = Idle]
  /\ UNCHANGED <<row, uses, redis, issued, message>>

-----------------------------------------------------------------------------
(* provider_probe_actor. *)

\* The row is read, the transaction closed.
StartActor(i) ==
  /\ message[i].at = "queued" /\ message[i].left > 0
  /\ message' = [message EXCEPT ![i] = [at |-> "running", left |-> 0,
                                        version |-> IF There THEN connection.version ELSE 0]]
  /\ UNCHANGED <<row, tested, uses, redis, issued, client, reported>>

\* An unknown connection and undecipherable credentials are errors; whatever else
\* goes wrong is a failed test.  Publishing may fail, and is given up.
ActorAnswers(i) ==
  /\ message[i].at = "running"
  /\ message' = [message EXCEPT ![i] = [NoMessage EXCEPT !.at = "done"]]
  /\ \/ UNCHANGED redis
     \/ Publish(i, Error)
     \/ \E outcome \in {"succeeded", "failed"} :
          message[i].version # 0
          /\ Publish(i, [NoResponse EXCEPT !.kind = outcome, !.version = message[i].version])
  /\ UNCHANGED <<row, tested, uses, issued, client, reported>>

\* Lost, too old, killed by the time limit or with its worker; not retried.  The
\* limit does not interrupt a call to the provider, which may take any time.
MessageEnds(i) ==
  /\ message[i].at \in {"queued", "running"}
  /\ message' = [message EXCEPT ![i] = [NoMessage EXCEPT !.at = "done"]]
  /\ UNCHANGED <<row, tested, uses, redis, issued, client, reported>>

-----------------------------------------------------------------------------
(* Time. *)

Less(n) == IF n = 0 THEN 0 ELSE n - 1

AgeLimit == FlightTicks + CooldownTicks + 1
Older(n) == IF n < AgeLimit THEN n + 1 ELSE n

\* What a client does between two waits takes less than a tick: every call to Redis
\* has a timeout of a second, and polling an interval of 50 milliseconds.
ClientsOnTime ==
  \A c \in Clients :
    \/ client[c].at = "idle"
    \/ client[c].at = "polling" /\ client[c].left > 0 /\ ~Answered(client[c].request)

Tick ==
  /\ ClientsOnTime
  /\ since' = [v \in Versions |-> IF v < connection.version THEN Older(since[v]) ELSE 0]
  /\ flight' = IF flight.left <= 1 THEN NoFlight ELSE [flight EXCEPT !.left = @ - 1]
  /\ response' = [i \in Requests |-> IF response[i].left <= 1 THEN NoResponse
                                     ELSE [response[i] EXCEPT !.left = @ - 1]]
  /\ message' = [i \in Requests |-> [message[i] EXCEPT !.left = Less(@)]]
  /\ client' = [c \in Clients |-> [client[c] EXCEPT !.left = Less(@)]]
  /\ UNCHANGED <<connection, tested, uses, issued, reported>>

-----------------------------------------------------------------------------
Next ==
  \/ \E identity \in Identities : CreateConnection(identity) \/ UpdateConnection(identity)
  \/ DeleteConnection \/ Refer \/ ReferNoMore \/ StartRun \/ EndRun \/ BindOrUnbind
  \/ \E c \in Clients : \/ StartTest(c) \/ AcquireOrJoin(c) \/ Enqueue(c) \/ EnqueueFails(c) \/ ReadFlight(c)
                        \/ Look(c) \/ Poll(c) \/ RedisFails(c) \/ Record(c)
  \/ \E i \in Requests : StartActor(i) \/ ActorAnswers(i) \/ MessageEnds(i)
  \/ Tick

Spec == Init /\ [][Next]_vars

-----------------------------------------------------------------------------
(* Properties. *)

Responses == [kind : {"none", "error", "succeeded", "failed"}, version : 0 .. MaxVersions,
              left : 0 .. ResultTicks]

\* Rows, keys, messages and clients have values of their types; the flight key never
\* outlives a flight.
TypeOK ==
  /\ connection \in [state : {"none", "there", "deleted"}, version : Versions,
                     identity : Identities \cup {NoIdentity}]
  /\ since \in [Versions -> 0 .. AgeLimit]
  /\ tested \in [by : Requests \cup {0}, outcome : Outcomes] /\ reported \in Outcomes
  /\ profile \in BOOLEAN /\ {run, bound} \subseteq Identities \cup {NoIdentity}
  /\ flight \in [request : 0 .. issued, left : 0 .. FlightTicks]
  /\ response \in [Requests -> Responses] /\ issued \in 0 .. MaxRequests
  /\ message \in [Requests -> [at : {"none", "queued", "running", "done"},
                               version : 0 .. MaxVersions, left : 0 .. MessageTicks]]
  /\ client \in [Clients -> [at : {"idle", "asking", "acquired", "joining", "looking", "polling", "answered"},
                             request : 0 .. issued, left : 0 .. WaitTicks, answer : Responses,
                             loaded : Outcomes]]

\* A test that is recorded tells of a version of the row that was replaced less than a
\* flight and a cooldown ago (both end before their last tick), although a client may
\* join a flight of others, answers are cached, and messages, executions and updates
\* of the row come in any order.
RecordsAreRecent ==
  \A c \in Clients : client[c].at = "answered" =>
    since[client[c].answer.version] <= (FlightTicks - 1) + (CooldownTicks - 1)

\* last_test_succeeded is the outcome of the test of last_tested_at: each client only
\* writes what differs from the row as it has read it before the test, which goes
\* well because the tests of a connection do not overlap.
OutcomeMatchesTime == tested.outcome = reported

\* Runs and bindings stay with the host and the account they were made with: the
\* connection keeps its identity, and exists, as long as items of the sync are
\* there (update_connection, delete_connection, update_profile, delete_profile).
BoundWhereWritten ==
  \A identity \in {run, bound} \ {NoIdentity} : There /\ connection.identity = identity

=============================================================================
