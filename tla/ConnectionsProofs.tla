--------------------------- MODULE ConnectionsProofs ---------------------------
(* Proofs about Connections, for every value of its constants. *)
EXTENDS Connections, TLAPS

-----------------------------------------------------------------------------
(* Types, by parts of the state. *)

\* The lifetimes and their order.
LEMMA Lifetimes ==
  /\ FlightTicks \in Nat \ {0} /\ ResultTicks \in Nat \ {0} /\ CooldownTicks \in Nat \ {0}
  /\ WaitTicks \in Nat \ {0} /\ MessageTicks \in Nat \ {0}
  /\ CooldownTicks < WaitTicks /\ WaitTicks < ResultTicks /\ ResultTicks < FlightTicks
  /\ MaxVersions \in Nat \ {0} /\ MaxRequests \in Nat \ {0}
  /\ AgeLimit = FlightTicks + CooldownTicks + 1
  BY ConnectionsAssumption DEF AgeLimit

ClientRecords(n) ==
  [at : {"idle", "asking", "acquired", "joining", "looking", "polling", "answered"},
   request : 0 .. n, left : 0 .. WaitTicks, answer : Responses, loaded : Outcomes]

MessageRecords ==
  [at : {"none", "queued", "running", "done"}, version : 0 .. MaxVersions,
   left : 0 .. MessageTicks]

ConnectionTyped ==
  connection \in [state : {"none", "there", "deleted"}, version : Versions,
                  identity : Identities \cup {NoIdentity}]
SinceTyped == since \in [Versions -> 0 .. AgeLimit]
TestedTyped == tested \in [by : Requests \cup {0}, outcome : Outcomes] /\ reported \in Outcomes
UsesTyped == profile \in BOOLEAN /\ run \in Identities \cup {NoIdentity}
             /\ bound \in Identities \cup {NoIdentity}
FlightTyped == flight \in [request : 0 .. issued, left : 0 .. FlightTicks]
ResponseTyped == response \in [Requests -> Responses]
IssuedTyped == issued \in 0 .. MaxRequests
MessageTyped == message \in [Requests -> MessageRecords]
ClientTyped == client \in [Clients -> ClientRecords(issued)]

LEMMA TypeParts ==
  TypeOK <=> /\ ConnectionTyped /\ SinceTyped /\ TestedTyped /\ UsesTyped /\ FlightTyped
             /\ ResponseTyped /\ IssuedTyped /\ MessageTyped /\ ClientTyped
<1>1. {run, bound} \subseteq Identities \cup {NoIdentity}
      <=> run \in Identities \cup {NoIdentity} /\ bound \in Identities \cup {NoIdentity}
  OBVIOUS
<1> QED
  BY <1>1 DEF TypeOK, ConnectionTyped, SinceTyped, TestedTyped, UsesTyped, FlightTyped,
     ResponseTyped, IssuedTyped, MessageTyped, ClientTyped, ClientRecords, MessageRecords

LEMMA TypePartsPrimed ==
  TypeOK' <=> /\ ConnectionTyped' /\ SinceTyped' /\ TestedTyped' /\ UsesTyped' /\ FlightTyped'
              /\ ResponseTyped' /\ IssuedTyped' /\ MessageTyped' /\ ClientTyped'
<1>1. {run', bound'} \subseteq Identities \cup {NoIdentity}
      <=> run' \in Identities \cup {NoIdentity} /\ bound' \in Identities \cup {NoIdentity}
  OBVIOUS
<1> QED
  BY <1>1 DEF TypeOK, ConnectionTyped, SinceTyped, TestedTyped, UsesTyped, FlightTyped,
     ResponseTyped, IssuedTyped, MessageTyped, ClientTyped, ClientRecords, MessageRecords

\* The records that are written.
LEMMA Records ==
  /\ NoResponse \in Responses /\ Error \in Responses /\ NoMessage \in MessageRecords
  /\ \A n \in Nat : Idle \in ClientRecords(n)
<1> USE Lifetimes
<1>1. NoResponse \in Responses
  BY DEF NoResponse, Responses
<1>2. Error \in Responses
  BY DEF NoResponse, Responses, Error
<1>3. NoMessage \in MessageRecords
  BY DEF NoMessage, MessageRecords
<1>4. ASSUME NEW n \in Nat PROVE Idle \in ClientRecords(n)
  BY <1>1 DEF Idle, ClientRecords, Outcomes
<1> QED
  BY <1>1, <1>2, <1>3, <1>4

LEMMA TypeInit == Init => TypeOK
<1> SUFFICES ASSUME Init PROVE TypeOK
  OBVIOUS
<1>1. ConnectionTyped
  BY Lifetimes DEF Init, ConnectionTyped, Versions
<1>2. SinceTyped
  <2>1. since = [v \in Versions |-> 0] /\ 0 \in 0 .. AgeLimit
    BY Lifetimes DEF Init
  <2> QED
    BY <2>1 DEF SinceTyped
<1>3. UsesTyped
  BY DEF Init, UsesTyped
<1>4. TestedTyped
  <2>1. PICK outcomes \in {Outcomes, {"never"}} : tested \in [by : {0}, outcome : outcomes]
    BY DEF Init
  <2>2. tested \in [by : {0}, outcome : Outcomes]
    BY <2>1 DEF Outcomes
  <2> QED
    BY <2>2 DEF Init, TestedTyped
<1>5. issued = 0 /\ flight = NoFlight
  BY DEF Init
<1>6. IssuedTyped /\ FlightTyped
  BY <1>5, Lifetimes DEF IssuedTyped, FlightTyped, NoFlight
<1>7. ResponseTyped /\ MessageTyped
  BY Records DEF Init, ResponseTyped, MessageTyped
<1>8. ClientTyped
  <2>1. client = [c \in Clients |-> Idle] /\ Idle \in ClientRecords(0)
    BY Records DEF Init
  <2> QED
    BY <1>5, <2>1 DEF ClientTyped
<1> QED
  BY <1>1, <1>2, <1>3, <1>4, <1>6, <1>7, <1>8, TypeParts

\* What Publish writes is a flight and a response.
LEMMA PublishType ==
  ASSUME FlightTyped, ResponseTyped, IssuedTyped, NEW i, i # 0,
         NEW answer \in Responses, Publish(i, answer)
  PROVE  /\ flight' \in [request : 0 .. issued, left : 0 .. FlightTicks]
         /\ ResponseTyped'
<1> USE Lifetimes
<1>1. CASE flight.request = i
  <2>1. [answer EXCEPT !.left = ResultTicks] \in Responses
    BY DEF Responses
  <2>2. [flight EXCEPT !.left = CooldownTicks] \in [request : 0 .. issued, left : 0 .. FlightTicks]
    BY DEF FlightTyped
  <2> QED
    BY <1>1, <2>1, <2>2 DEF Publish, ResponseTyped
<1>2. CASE flight.request # i
  BY <1>2 DEF Publish, redis, FlightTyped, ResponseTyped
<1> QED
  BY <1>1, <1>2

-----------------------------------------------------------------------------
(* Who changes what. *)

\* The handlers of the row, the profile and its runs.
RowStep ==
  \/ \E identity \in Identities : CreateConnection(identity) \/ UpdateConnection(identity)
  \/ DeleteConnection \/ Refer \/ ReferNoMore \/ StartRun \/ EndRun \/ BindOrUnbind

\* They leave the tests alone.
LEMMA RowStepsKeepTests ==
  RowStep => UNCHANGED <<since, tested, flight, response, issued, message, client, reported>>
  BY DEF RowStep, CreateConnection, UpdateConnection, DeleteConnection, Refer, ReferNoMore,
     StartRun, EndRun, BindOrUnbind, row, redis

ClientStep(c) ==
  \/ StartTest(c) \/ AcquireOrJoin(c) \/ Enqueue(c) \/ EnqueueFails(c) \/ ReadFlight(c)
  \/ Look(c) \/ Poll(c) \/ RedisFails(c) \/ Record(c)

ActorStep(i) == StartActor(i) \/ ActorAnswers(i) \/ MessageEnds(i)

\* The steps of a test leave the row and its uses alone.
LEMMA ClientStepsKeepRow ==
  ASSUME NEW c \in Clients, ClientStep(c)
  PROVE  UNCHANGED <<connection, since, profile, run, bound>>
  BY DEF ClientStep, StartTest, AcquireOrJoin, Enqueue, EnqueueFails, ReadFlight, Look, Poll,
     RedisFails, Record, row, uses

LEMMA ActorStepsKeepRow ==
  ASSUME NEW i \in Requests, ActorStep(i)
  PROVE  UNCHANGED <<connection, since, profile, run, bound, tested, reported, issued, client>>
  BY DEF ActorStep, StartActor, ActorAnswers, MessageEnds, row, uses

LEMMA NextSteps ==
  [Next]_vars => \/ RowStep \/ Tick \/ UNCHANGED vars
                 \/ \E c \in Clients : ClientStep(c)
                 \/ \E i \in Requests : ActorStep(i)
<1>1. Next => \/ RowStep \/ Tick
              \/ \E c \in Clients : ClientStep(c)
              \/ \E i \in Requests : ActorStep(i)
  BY DEF Next, RowStep, ClientStep, ActorStep
<1> QED
  BY <1>1

-----------------------------------------------------------------------------
(* Type correctness. *)

LEMMA RowStepType == TypeOK /\ RowStep => TypeOK'
<1> SUFFICES ASSUME TypeOK, RowStep PROVE TypeOK'
  OBVIOUS
<1>1. ConnectionTyped'
  <2> USE TypeParts DEF ConnectionTyped
  <2>1. ASSUME NEW identity \in Identities, CreateConnection(identity) PROVE ConnectionTyped'
    BY <2>1 DEF CreateConnection
  <2>2. ASSUME NEW identity \in Identities, UpdateConnection(identity) PROVE ConnectionTyped'
    <3>1. connection.version + 1 \in Versions
      BY <2>2, Lifetimes DEF UpdateConnection, Versions
    <3> QED
      BY <2>2, <3>1 DEF UpdateConnection
  <2>3. CASE DeleteConnection
    BY <2>3 DEF DeleteConnection
  <2>4. CASE UNCHANGED connection
    BY <2>4
  <2> QED
    BY <2>1, <2>2, <2>3, <2>4
    DEF RowStep, Refer, ReferNoMore, StartRun, EndRun, BindOrUnbind, row
<1>2. UsesTyped'
  <2>1. UsesTyped /\ connection.identity \in Identities \cup {NoIdentity}
    BY TypeParts DEF ConnectionTyped
  <2> QED
    BY <2>1 DEF RowStep, CreateConnection, UpdateConnection, DeleteConnection, Refer,
       ReferNoMore, StartRun, EndRun, BindOrUnbind, uses, UsesTyped
<1>3. /\ SinceTyped' /\ TestedTyped' /\ FlightTyped' /\ ResponseTyped' /\ IssuedTyped'
      /\ MessageTyped' /\ ClientTyped'
  BY TypeParts, RowStepsKeepTests
  DEF SinceTyped, TestedTyped, FlightTyped, ResponseTyped, IssuedTyped, MessageTyped, ClientTyped
<1> QED
  BY <1>1, <1>2, <1>3, TypePartsPrimed

\* A client takes an answer or gives up.
LEMMA TakeType ==
  ASSUME IssuedTyped, ClientTyped, UNCHANGED issued,
         NEW c \in Clients, NEW answer \in Responses, Take(c, answer)
  PROVE  ClientTyped'
<1>1. Idle \in ClientRecords(issued)
  BY Records, Lifetimes DEF IssuedTyped
<1>2. [client[c] EXCEPT !.at = "answered", !.answer = answer] \in ClientRecords(issued)
  BY DEF ClientTyped, ClientRecords
<1> QED
  BY <1>1, <1>2 DEF Take, ClientTyped

\* A client that has a request knows its number, and one that has an answer has a result.
ClientShape ==
  \A c \in Clients :
    /\ client[c].at \in {"acquired", "looking", "polling", "answered"} => client[c].request # 0
    /\ client[c].at = "answered" => client[c].answer.kind \in {"succeeded", "failed"}

LEMMA ClientStepType ==
  ASSUME TypeOK, ClientShape, NEW c \in Clients, ClientStep(c)
  PROVE  TypeOK'
<1>1. ConnectionTyped' /\ SinceTyped' /\ UsesTyped'
  BY TypeParts, ClientStepsKeepRow DEF ConnectionTyped, SinceTyped, UsesTyped
<1>2. /\ TestedTyped /\ FlightTyped /\ ResponseTyped /\ IssuedTyped /\ MessageTyped /\ ClientTyped
      /\ issued \in Nat
  BY TypeParts, Lifetimes DEF IssuedTyped
<1>3. Idle \in ClientRecords(issued) /\ client[c] \in ClientRecords(issued)
  BY <1>2, Records DEF ClientTyped
<1>4. ASSUME UNCHANGED <<tested, reported, flight, response, issued, message>>, ClientTyped'
      PROVE  TypeOK'
  BY <1>1, <1>2, <1>4, TypePartsPrimed
  DEF TestedTyped, FlightTyped, ResponseTyped, IssuedTyped, MessageTyped
<1>5. CASE StartTest(c)
  <2>1. [client[c] EXCEPT !.at = "asking", !.loaded = tested.outcome] \in ClientRecords(issued)
    BY <1>2, <1>3 DEF ClientRecords, TestedTyped
  <2>2. UNCHANGED <<tested, reported, flight, response, issued, message>>
    BY <1>5 DEF StartTest, redis
  <2>3. ClientTyped'
    BY <1>2, <1>5, <2>1, <2>2 DEF StartTest, ClientTyped
  <2> QED
    BY <1>4, <2>2, <2>3
<1>6. CASE AcquireOrJoin(c)
  <2>1. TestedTyped' /\ ResponseTyped' /\ MessageTyped'
    BY <1>2, <1>6 DEF AcquireOrJoin, TestedTyped, ResponseTyped, MessageTyped
  <2>2. CASE flight.request = 0
    <3>1. issued' = issued + 1 /\ issued' \in 0 .. MaxRequests
      BY <1>2, <1>6, <2>2, Lifetimes DEF AcquireOrJoin, IssuedTyped
    <3>2. FlightTyped'
      BY <1>2, <1>6, <2>2, <3>1, Lifetimes DEF AcquireOrJoin, FlightTyped
    <3>3. [client[c] EXCEPT !.at = "acquired", !.request = issued + 1] \in ClientRecords(issued')
      <4>1. issued + 1 \in 0 .. issued' /\ 0 .. issued \subseteq 0 .. issued'
        BY <1>2, <3>1
      <4> QED
        BY <1>3, <4>1 DEF ClientRecords
    <3>4. client \in [Clients -> ClientRecords(issued')]
      BY <1>2, <3>1 DEF ClientTyped, ClientRecords
    <3>5. ClientTyped'
      BY <1>6, <2>2, <3>3, <3>4 DEF AcquireOrJoin, ClientTyped
    <3> QED
      BY <1>1, <2>1, <3>1, <3>2, <3>5, TypePartsPrimed DEF IssuedTyped
  <2>3. CASE flight.request # 0
    <3>1. [client[c] EXCEPT !.at = "joining"] \in ClientRecords(issued)
      BY <1>3 DEF ClientRecords
    <3>2. UNCHANGED <<flight, issued, tested, reported, response, message>>
      BY <1>6, <2>3 DEF AcquireOrJoin
    <3>3. ClientTyped'
      BY <1>2, <1>6, <2>3, <3>1, <3>2 DEF AcquireOrJoin, ClientTyped
    <3> QED
      BY <1>4, <3>2, <3>3
  <2> QED
    BY <2>2, <2>3
<1>7. CASE Enqueue(c)
  <2>1. UNCHANGED <<tested, reported, flight, response, issued>>
    BY <1>7 DEF Enqueue, redis
  <2>2. [NoMessage EXCEPT !.at = "queued", !.left = MessageTicks] \in MessageRecords
    <3>1. MessageTicks \in 0 .. MessageTicks /\ 0 \in 0 .. MaxVersions
      BY Lifetimes
    <3> QED
      BY <3>1 DEF NoMessage, MessageRecords
  <2>3. MessageTyped'
    BY <1>2, <1>7, <2>2 DEF Enqueue, MessageTyped
  <2>4. [client[c] EXCEPT !.at = "polling", !.left = WaitTicks] \in ClientRecords(issued)
    <3>1. WaitTicks \in 0 .. WaitTicks
      BY Lifetimes
    <3> QED
      BY <1>3, <3>1 DEF ClientRecords
  <2>5. ClientTyped'
    BY <1>2, <1>7, <2>1, <2>4 DEF Enqueue, ClientTyped
  <2> QED
    BY <1>1, <1>2, <2>1, <2>3, <2>5, TypePartsPrimed
    DEF TestedTyped, FlightTyped, ResponseTyped, IssuedTyped
<1>8. CASE EnqueueFails(c)
  <2>1. UNCHANGED <<tested, reported, issued, message>>
    BY <1>8 DEF EnqueueFails
  <2>2. ClientTyped'
    BY <1>2, <1>3, <1>8, <2>1 DEF EnqueueFails, ClientTyped
  <2>3. FlightTyped' /\ ResponseTyped'
    <3>1. CASE UNCHANGED redis
      BY <1>2, <2>1, <3>1 DEF redis, FlightTyped, ResponseTyped
    <3>2. CASE Publish(client[c].request, Error)
      <4>1. CASE flight.request = client[c].request
        <5>1. [Error EXCEPT !.left = ResultTicks] \in Responses
          BY Records, Lifetimes DEF Responses
        <5>2. [flight EXCEPT !.left = CooldownTicks]
                \in [request : 0 .. issued, left : 0 .. FlightTicks]
          BY <1>2, Lifetimes DEF FlightTyped
        <5> QED
          BY <1>2, <2>1, <3>2, <4>1, <5>1, <5>2 DEF Publish, FlightTyped, ResponseTyped
      <4>2. CASE flight.request # client[c].request
        BY <1>2, <2>1, <3>2, <4>2 DEF Publish, redis, FlightTyped, ResponseTyped
      <4> QED
        BY <4>1, <4>2
    <3> QED
      BY <1>8, <3>1, <3>2 DEF EnqueueFails
  <2> QED
    BY <1>1, <1>2, <2>1, <2>2, <2>3, TypePartsPrimed DEF TestedTyped, IssuedTyped, MessageTyped
<1>9. CASE ReadFlight(c)
  <2>1. UNCHANGED <<tested, reported, flight, response, issued, message>>
    BY <1>9 DEF ReadFlight, redis
  <2>2. [client[c] EXCEPT !.at = "looking", !.request = flight.request] \in ClientRecords(issued)
    BY <1>2, <1>3 DEF ClientRecords, FlightTyped
  <2>3. ClientTyped'
    BY <1>2, <1>3, <1>9, <2>1, <2>2 DEF ReadFlight, ClientTyped
  <2> QED
    BY <1>4, <2>1, <2>3
<1>10. CASE RedisFails(c)
  <2>1. UNCHANGED <<tested, reported, flight, response, issued, message>>
    BY <1>10 DEF RedisFails, redis
  <2>2. ClientTyped'
    BY <1>2, <1>3, <1>10, <2>1 DEF RedisFails, ClientTyped
  <2> QED
    BY <1>4, <2>1, <2>2
<1>11. CASE Record(c)
  <2>1. UNCHANGED <<flight, response, issued, message>>
    BY <1>11 DEF Record, redis
  <2>2. ClientTyped'
    BY <1>2, <1>3, <1>11, <2>1 DEF Record, ClientTyped
  <2>3. TestedTyped'
    <3>1. client[c].answer.kind \in Outcomes /\ client[c].request \in Requests \cup {0}
      BY <1>2, <1>3, <1>11, Lifetimes
      DEF Record, ClientShape, Outcomes, ClientRecords, IssuedTyped, Requests
    <3>2. CASE There
      BY <1>2, <1>11, <3>1, <3>2 DEF Record, TestedTyped
    <3>3. CASE ~There
      BY <1>2, <1>11, <3>3 DEF Record, TestedTyped
    <3> QED
      BY <3>2, <3>3
  <2> QED
    BY <1>1, <1>2, <2>1, <2>2, <2>3, TypePartsPrimed
    DEF FlightTyped, ResponseTyped, IssuedTyped, MessageTyped
<1>12. CASE Look(c) \/ Poll(c)
  <2>1. UNCHANGED <<tested, reported, flight, response, issued, message>>
    BY <1>12 DEF Look, Poll, redis
  <2>2. client[c].request \in Requests
    BY <1>2, <1>3, <1>12, Lifetimes DEF Look, Poll, ClientShape, ClientRecords, IssuedTyped, Requests
  <2>3. response[client[c].request] \in Responses
    BY <1>2, <2>2 DEF ResponseTyped
  <2>4. Take(c, response[client[c].request])
    BY <1>12 DEF Look, Poll
  <2>5. ClientTyped'
    BY <1>2, <2>1, <2>3, <2>4, TakeType
  <2> QED
    BY <1>4, <2>1, <2>5
<1> QED
  BY <1>5, <1>6, <1>7, <1>8, <1>9, <1>10, <1>11, <1>12 DEF ClientStep

LEMMA ActorStepType ==
  ASSUME TypeOK, NEW i \in Requests, ActorStep(i)
  PROVE  TypeOK'
<1>1. /\ ConnectionTyped /\ FlightTyped /\ ResponseTyped /\ IssuedTyped /\ MessageTyped
      /\ message[i] \in MessageRecords
  BY TypeParts DEF MessageTyped
<1>2. /\ ConnectionTyped' /\ SinceTyped' /\ UsesTyped' /\ TestedTyped' /\ IssuedTyped' /\ ClientTyped'
      /\ UNCHANGED issued
  BY TypeParts, ActorStepsKeepRow
  DEF ConnectionTyped, SinceTyped, UsesTyped, TestedTyped, IssuedTyped, ClientTyped
<1>3. i # 0
  BY Lifetimes DEF Requests
<1>4. [NoMessage EXCEPT !.at = "done"] \in MessageRecords
  BY Records DEF MessageRecords
<1>5. ASSUME UNCHANGED redis, MessageTyped' PROVE TypeOK'
  BY <1>1, <1>2, <1>5, TypePartsPrimed DEF redis, FlightTyped, ResponseTyped
<1>6. CASE StartActor(i)
  <2>1. [at |-> "running", left |-> 0, version |-> IF There THEN connection.version ELSE 0]
          \in MessageRecords
    <3>1. connection.version \in 0 .. MaxVersions /\ 0 \in 0 .. MaxVersions /\ 0 \in 0 .. MessageTicks
      BY <1>1, Lifetimes DEF ConnectionTyped, Versions
    <3> QED
      BY <3>1 DEF MessageRecords
  <2>2. MessageTyped' /\ UNCHANGED redis
    BY <1>1, <1>6, <2>1 DEF StartActor, MessageTyped
  <2> QED
    BY <1>5, <2>2
<1>7. CASE ActorAnswers(i)
  <2>1. MessageTyped'
    BY <1>1, <1>4, <1>7 DEF ActorAnswers, MessageTyped
  <2>2. ASSUME NEW answer \in Responses, Publish(i, answer) PROVE TypeOK'
    <3>1. flight' \in [request : 0 .. issued, left : 0 .. FlightTicks] /\ ResponseTyped'
      BY <1>1, <1>3, <2>2, PublishType
    <3> QED
      BY <1>2, <2>1, <3>1, TypePartsPrimed DEF FlightTyped
  <2>3. ASSUME NEW outcome \in {"succeeded", "failed"}
        PROVE  [NoResponse EXCEPT !.kind = outcome, !.version = message[i].version] \in Responses
    BY <1>1, Records DEF Responses, MessageRecords
  <2>4. \/ UNCHANGED redis
        \/ \E answer \in Responses : Publish(i, answer)
    BY <1>7, <2>3, Records DEF ActorAnswers
  <2> QED
    BY <1>5, <2>1, <2>2, <2>4
<1>8. CASE MessageEnds(i)
  <2>1. MessageTyped' /\ UNCHANGED redis
    BY <1>1, <1>4, <1>8 DEF MessageEnds, MessageTyped
  <2> QED
    BY <1>5, <2>1
<1> QED
  BY <1>6, <1>7, <1>8 DEF ActorStep

LEMMA TickType ==
  ASSUME TypeOK, Tick
  PROVE  TypeOK'
<1>1. /\ ConnectionTyped /\ SinceTyped /\ FlightTyped /\ ResponseTyped /\ IssuedTyped
      /\ MessageTyped /\ ClientTyped
  BY TypeParts
<1>2. ConnectionTyped' /\ TestedTyped' /\ UsesTyped' /\ IssuedTyped' /\ UNCHANGED issued
  BY TypeParts DEF Tick, uses, ConnectionTyped, TestedTyped, UsesTyped, IssuedTyped
<1>3. SinceTyped'
  <2>1. ASSUME NEW v \in Versions
        PROVE  (IF v < connection.version THEN Older(since[v]) ELSE 0) \in 0 .. AgeLimit
    <3>1. since[v] \in 0 .. AgeLimit /\ AgeLimit \in Nat
      BY <1>1, Lifetimes DEF SinceTyped
    <3> QED
      BY <3>1 DEF Older
  <2> QED
    BY <2>1 DEF Tick, SinceTyped
<1>4. FlightTyped'
  <2>1. flight' = IF flight.left <= 1 THEN NoFlight ELSE [flight EXCEPT !.left = @ - 1]
    BY DEF Tick
  <2>2. flight.left - 1 \in 0 .. FlightTicks \/ flight.left <= 1
    BY <1>1, Lifetimes DEF FlightTyped
  <2>3. NoFlight \in [request : 0 .. issued, left : 0 .. FlightTicks]
    BY <1>1, Lifetimes DEF NoFlight, IssuedTyped
  <2> QED
    BY <1>1, <1>2, <2>1, <2>2, <2>3 DEF FlightTyped
<1>5. ResponseTyped'
  <2>1. ASSUME NEW i \in Requests
        PROVE  (IF response[i].left <= 1 THEN NoResponse ELSE [response[i] EXCEPT !.left = @ - 1])
                 \in Responses
    <3>1. response[i] \in Responses
      BY <1>1 DEF ResponseTyped
    <3>2. response[i].left - 1 \in 0 .. ResultTicks \/ response[i].left <= 1
      BY <3>1, Lifetimes DEF Responses
    <3> QED
      BY <3>1, <3>2, Records DEF Responses
  <2> QED
    BY <2>1 DEF Tick, ResponseTyped
<1>6. MessageTyped'
  <2>1. ASSUME NEW i \in Requests
        PROVE  [message[i] EXCEPT !.left = Less(@)] \in MessageRecords
    <3>1. message[i] \in MessageRecords
      BY <1>1 DEF MessageTyped
    <3>2. Less(message[i].left) \in 0 .. MessageTicks
      BY <3>1, Lifetimes DEF Less, MessageRecords
    <3> QED
      BY <3>1, <3>2 DEF MessageRecords
  <2> QED
    BY <2>1 DEF Tick, MessageTyped
<1>7. ClientTyped'
  <2>1. ASSUME NEW c \in Clients
        PROVE  [client[c] EXCEPT !.left = Less(@)] \in ClientRecords(issued)
    <3>1. client[c] \in ClientRecords(issued)
      BY <1>1 DEF ClientTyped
    <3>2. Less(client[c].left) \in 0 .. WaitTicks
      BY <3>1, Lifetimes DEF Less, ClientRecords
    <3> QED
      BY <3>1, <3>2 DEF ClientRecords
  <2> QED
    BY <1>2, <2>1 DEF Tick, ClientTyped
<1> QED
  BY <1>2, <1>3, <1>4, <1>5, <1>6, <1>7, TypePartsPrimed

LEMMA ShapeStep == TypeOK /\ ClientShape /\ [Next]_vars => ClientShape'
<1> SUFFICES ASSUME TypeOK, ClientShape, [Next]_vars PROVE ClientShape'
  OBVIOUS
<1>1. CASE UNCHANGED client
  BY <1>1 DEF ClientShape
<1>2. ASSUME NEW c \in Clients, ClientStep(c) PROVE ClientShape'
  <2>1. /\ client \in [Clients -> ClientRecords(issued)] /\ client[c] \in ClientRecords(issued)
        /\ issued \in Nat
    BY TypeParts, Lifetimes DEF ClientTyped, IssuedTyped
  <2>2. ASSUME NEW d \in Clients
        PROVE  /\ client'[d].at \in {"acquired", "looking", "polling", "answered"}
                    => client'[d].request # 0
               /\ client'[d].at = "answered" => client'[d].answer.kind \in {"succeeded", "failed"}
    <3>1. CASE client'[d] = client[d] \/ client'[d] = Idle
      BY <3>1 DEF ClientShape, Idle
    <3>2. CASE d # c
      BY <1>2, <2>1, <3>1, <3>2
      DEF ClientStep, StartTest, AcquireOrJoin, Enqueue, EnqueueFails, ReadFlight, Look, Poll,
          RedisFails, Record, Take
    <3>3. CASE d = c /\ (StartTest(c) \/ RedisFails(c) \/ Record(c) \/ EnqueueFails(c))
      BY <2>1, <3>3 DEF StartTest, RedisFails, Record, EnqueueFails, Idle, ClientRecords
    <3>4. CASE d = c /\ AcquireOrJoin(c)
      <4>1. issued + 1 # 0
        BY <2>1
      <4>2. \/ client'[c] = [client[c] EXCEPT !.at = "acquired", !.request = issued + 1]
            \/ client'[c] = [client[c] EXCEPT !.at = "joining"]
        BY <2>1, <3>4 DEF AcquireOrJoin
      <4> QED
        BY <2>1, <3>4, <4>1, <4>2 DEF ClientRecords
    <3>5. CASE d = c /\ ReadFlight(c)
      BY <2>1, <3>1, <3>5 DEF ReadFlight, ClientRecords
    <3>6. CASE d = c /\ Enqueue(c)
      BY <2>1, <3>6 DEF Enqueue, ClientRecords, ClientShape
    <3>7. CASE d = c /\ (Look(c) \/ Poll(c))
      <4>1. \/ client'[c] = Idle
            \/ /\ response[client[c].request].kind \in {"succeeded", "failed"}
               /\ client'[c] = [client[c] EXCEPT !.at = "answered",
                                                !.answer = response[client[c].request]]
        BY <2>1, <3>7 DEF Look, Poll, Take
      <4>2. client[c].request # 0
        BY <3>7 DEF Look, Poll, ClientShape
      <4> QED
        BY <2>1, <3>1, <3>7, <4>1, <4>2 DEF ClientRecords
    <3> QED
      BY <1>2, <3>2, <3>3, <3>4, <3>5, <3>6, <3>7 DEF ClientStep
  <2> QED
    BY <2>2 DEF ClientShape
<1>3. CASE Tick
  BY <1>3, TypeParts DEF Tick, ClientShape, ClientTyped, ClientRecords
<1> QED
  BY <1>1, <1>2, <1>3, NextSteps, RowStepsKeepTests, ActorStepsKeepRow DEF vars

TypeInv == TypeOK /\ ClientShape

LEMMA TypeInvInit == Init => TypeInv
  BY TypeInit DEF TypeInv, Init, ClientShape, Idle

LEMMA TypeInvStep == TypeInv /\ [Next]_vars => TypeInv'
<1> SUFFICES ASSUME TypeInv, [Next]_vars PROVE TypeInv'
  OBVIOUS
<1>1. TypeOK'
  <2>1. CASE UNCHANGED vars
    BY <2>1 DEF TypeInv, vars, row, uses, redis, TypeOK
  <2> QED
    BY <2>1, NextSteps, RowStepType, ClientStepType, ActorStepType, TickType DEF TypeInv
<1> QED
  BY <1>1, ShapeStep DEF TypeInv

LEMMA TypeInvAlways == Spec => []TypeInv
  BY TypeInvInit, TypeInvStep, PTL DEF Spec

\* Every variable of Connections keeps its type: a request number is never used before it
\* is issued, keys never outlive the lifetimes they are set with, and only results are
\* recorded.
THEOREM TypeCorrect == Spec => []TypeOK
<1>1. TypeInv => TypeOK
  BY DEF TypeInv
<1> QED
  BY <1>1, TypeInvAlways, PTL

-----------------------------------------------------------------------------
(* Identities. *)

\* A run, and an item it has bound, exist only while the profile refers to the
\* connection; a connection referred to is there; and both are of its identity.
BoundInv ==
  /\ run # NoIdentity \/ bound # NoIdentity => profile
  /\ profile => There
  /\ \A identity \in {run, bound} \ {NoIdentity} : connection.identity = identity

LEMMA BoundStep == TypeInv /\ BoundInv /\ [Next]_vars => BoundInv'
<1> SUFFICES ASSUME TypeInv, BoundInv, [Next]_vars PROVE BoundInv'
  OBVIOUS
<1>1. ConnectionTyped /\ UsesTyped
  BY TypeParts DEF TypeInv
<1> USE <1>1 DEF BoundInv, There, ConnectionTyped, UsesTyped
<1>2. CASE UNCHANGED <<connection, profile, run, bound>>
  BY <1>2
<1>3. ASSUME NEW identity \in Identities, CreateConnection(identity) PROVE BoundInv'
  BY <1>3 DEF CreateConnection, uses
<1>4. ASSUME NEW identity \in Identities, UpdateConnection(identity) PROVE BoundInv'
  BY <1>4 DEF UpdateConnection, IdentityIsFree, uses
<1>5. CASE DeleteConnection
  BY <1>5 DEF DeleteConnection, uses
<1>6. CASE Refer \/ ReferNoMore
  BY <1>6 DEF Refer, ReferNoMore, row
<1>7. CASE StartRun \/ EndRun \/ BindOrUnbind
  BY <1>7 DEF StartRun, EndRun, BindOrUnbind, row
<1> QED
  BY <1>2, <1>3, <1>4, <1>5, <1>6, <1>7, NextSteps, ClientStepsKeepRow, ActorStepsKeepRow
  DEF RowStep, Tick, vars, row, uses

\* Runs and bindings stay with the host and the account they were made with, whatever
\* order updates, deletions, profiles, runs and bindings come in.
THEOREM BoundWhereWrittenAlways == Spec => []BoundWhereWritten
<1>1. Init => BoundInv
  BY DEF Init, BoundInv
<1>2. BoundInv => BoundWhereWritten
  BY DEF BoundInv, BoundWhereWritten
<1> QED
  BY <1>1, <1>2, BoundStep, TypeInvAlways, PTL DEF Spec

-----------------------------------------------------------------------------
(* Flights and their answers. *)

\* A flight has a lifetime; a number that is not issued yet has neither a message nor an
\* answer; a message that may still be answered has no answer yet; a result tells of a
\* version.
FlightInv ==
  /\ flight.request # 0 <=> flight.left > 0
  /\ \A i \in Requests :
       /\ i > issued => message[i].at = "none" /\ ~Answered(i)
       /\ message[i].at \in {"queued", "running"} => ~Answered(i)
       /\ response[i].kind \in {"succeeded", "failed"} => response[i].version # 0

\* Who has a request is on the flight that is under way.  The one that has acquired it has
\* not sent its message; one that polls gives up before the flight lapses; an answer that
\* has been taken is still there.
OnFlight(c) ==
  LET i == client[c].request IN
  /\ client[c].at \in {"acquired", "looking", "polling", "answered"} => flight.request = i
  /\ client[c].at = "acquired" =>
       flight.left = FlightTicks /\ message[i].at = "none" /\ ~Answered(i)
  /\ client[c].at = "polling" => Answered(i) \/ flight.left > client[c].left
  /\ client[c].at = "answered" => response[i].kind = client[c].answer.kind
                                  /\ response[i].version = client[c].answer.version

ProbeInv ==
  /\ FlightInv
  /\ \A c \in Clients : OnFlight(c)
  /\ \A c, d \in Clients : client[c].at = "acquired" /\ client[d].at = "acquired" => c = d

\* What a session has read of the row is what is still there, or has been replaced by the
\* answer of the flight that is under way.
LoadedInv ==
  \A c \in Clients : client[c].at # "idle" =>
    \/ client[c].loaded = tested.outcome
    \/ /\ flight.request # 0 /\ Answered(flight.request)
       /\ tested.outcome = response[flight.request].kind

\* A version that was replaced ages with the flight that tells of it.
AgeInv ==
  /\ \A v \in Versions : v >= connection.version => since[v] = 0
  /\ flight.request # 0 =>
       LET i == flight.request
           v == message[i].version
           w == response[i].version IN
       /\ message[i].at = "running" /\ v # 0 => since[v] + flight.left <= FlightTicks
       /\ Answered(i) /\ w # 0 =>
            since[w] + flight.left <= (FlightTicks - 1) + CooldownTicks

\* A step of one client that leaves Redis and the messages alone.
LEMMA OneClient ==
  ASSUME TypeInv, ProbeInv, NEW c \in Clients, NEW x,
         UNCHANGED <<flight, response, issued, message>>,
         client' = [client EXCEPT ![c] = x], x.at # "acquired", OnFlight(c)'
  PROVE  ProbeInv'
<1>1. client \in [Clients -> ClientRecords(issued)]
  BY TypeParts DEF TypeInv, ClientTyped
<1>2. FlightInv'
  BY DEF ProbeInv, FlightInv, Answered
<1>3. ASSUME NEW d \in Clients PROVE OnFlight(d)'
  <2>1. CASE d # c
    BY <1>1, <2>1 DEF ProbeInv, OnFlight, Answered
  <2> QED
    BY <2>1
<1>4. client'[c].at # "acquired" /\ \A d \in Clients \ {c} : client'[d] = client[d]
  BY <1>1
<1> QED
  BY <1>2, <1>3, <1>4 DEF ProbeInv

\* The number of a request is that of a flight that was begun.
LEMMA HasRequest ==
  ASSUME TypeInv, NEW c \in Clients,
         client[c].at \in {"acquired", "looking", "polling", "answered"}
  PROVE  client[c].request \in Requests /\ client[c].request <= issued
<1>1. client[c].request \in 0 .. issued /\ client[c].request # 0
  BY TypeParts DEF TypeInv, ClientShape, ClientTyped, ClientRecords
<1>2. issued \in Nat /\ issued <= MaxRequests /\ MaxRequests \in Nat
  BY TypeParts, Lifetimes DEF TypeInv, IssuedTyped
<1> QED
  BY <1>1, <1>2 DEF Requests

LEMMA ClientProbeStep ==
  ASSUME TypeInv, ProbeInv, NEW c \in Clients, ClientStep(c)
  PROVE  ProbeInv'
<1>1. /\ client \in [Clients -> ClientRecords(issued)] /\ client[c] \in ClientRecords(issued)
      /\ issued \in Nat /\ issued <= MaxRequests
      /\ flight \in [request : 0 .. issued, left : 0 .. FlightTicks]
      /\ response \in [Requests -> Responses] /\ message \in [Requests -> MessageRecords]
  BY TypeParts, Lifetimes
  DEF TypeInv, ClientTyped, IssuedTyped, FlightTyped, ResponseTyped, MessageTyped
<1>2. Idle.at = "idle"
  BY DEF Idle
<1>3. ASSUME UNCHANGED <<flight, response, issued, message>>, client' = [client EXCEPT ![c] = Idle]
      PROVE  ProbeInv'
  <2>1. client'[c].at = "idle"
    BY <1>1, <1>2, <1>3
  <2> QED
    BY <1>2, <1>3, <2>1, OneClient DEF OnFlight
<1>4. CASE StartTest(c)
  <2>1. /\ UNCHANGED <<flight, response, issued, message>>
        /\ client' = [client EXCEPT ![c] = [client[c] EXCEPT !.at = "asking", !.loaded = tested.outcome]]
    BY <1>1, <1>4 DEF StartTest, redis
  <2>2. client'[c].at = "asking"
    BY <1>1, <2>1 DEF ClientRecords
  <2> QED
    BY <1>1, <2>1, <2>2, OneClient DEF OnFlight, ClientRecords
<1>5. CASE AcquireOrJoin(c)
  <2>1. CASE flight.request # 0
    <3>1. /\ UNCHANGED <<flight, response, issued, message>>
          /\ client' = [client EXCEPT ![c] = [client[c] EXCEPT !.at = "joining"]]
      BY <1>1, <1>5, <2>1 DEF AcquireOrJoin
    <3>2. client'[c].at = "joining"
      BY <1>1, <3>1 DEF ClientRecords
    <3> QED
      BY <1>1, <3>1, <3>2, OneClient DEF OnFlight, ClientRecords
  <2>2. CASE flight.request = 0
    <3>1. /\ issued' = issued + 1 /\ issued' \in Requests
          /\ flight' = [request |-> issued', left |-> FlightTicks]
          /\ client' = [client EXCEPT ![c] = [client[c] EXCEPT !.at = "acquired", !.request = issued']]
          /\ UNCHANGED <<response, message>>
      <4>1. issued < MaxRequests /\ issued' = issued + 1
        BY <1>5, <2>2 DEF AcquireOrJoin
      <4>2. issued' \in Requests
        BY <1>1, <4>1, Lifetimes DEF Requests
      <4> QED
        BY <1>1, <1>5, <2>2, <4>1, <4>2 DEF AcquireOrJoin
    <3>2. message[issued'].at = "none" /\ ~Answered(issued')
      BY <1>1, <3>1 DEF ProbeInv, FlightInv
    <3>3. FlightInv'
      <4>1. issued' # 0 /\ FlightTicks > 0 /\ \A i \in Requests : i > issued' => i > issued
        BY <1>1, <3>1, Lifetimes DEF Requests
      <4> QED
        BY <3>1, <4>1 DEF ProbeInv, FlightInv, Answered
    <3>4. ASSUME NEW d \in Clients, d # c
          PROVE  client'[d].at \notin {"acquired", "looking", "polling", "answered"}
      BY <1>1, <2>2, <3>1, <3>4 DEF ProbeInv, OnFlight, TypeInv, ClientShape
    <3>5. client'[c].at = "acquired" /\ client'[c].request = issued'
      BY <1>1, <3>1 DEF ClientRecords
    <3>6. OnFlight(c)'
      BY <3>1, <3>2, <3>5 DEF OnFlight, Answered
    <3>7. \A d \in Clients : OnFlight(d)'
      BY <3>4, <3>6 DEF OnFlight
    <3> QED
      BY <3>3, <3>4, <3>7 DEF ProbeInv
  <2> QED
    BY <2>1, <2>2
<1>6. CASE Enqueue(c)
  <2> DEFINE i == client[c].request
  <2>1. /\ i \in Requests /\ i <= issued /\ flight.request = i /\ flight.left = FlightTicks
        /\ ~Answered(i)
    <3>1. client[c].at = "acquired"
      BY <1>6 DEF Enqueue
    <3> QED
      BY <3>1, HasRequest DEF ProbeInv, OnFlight
  <2>2. /\ message' = [message EXCEPT ![i] = [NoMessage EXCEPT !.at = "queued", !.left = MessageTicks]]
        /\ client' = [client EXCEPT ![c] = [client[c] EXCEPT !.at = "polling", !.left = WaitTicks]]
        /\ UNCHANGED <<flight, response, issued>>
    BY <1>1, <1>6 DEF Enqueue, redis
  <2>3. FlightInv'
    <3>1. ASSUME NEW j \in Requests
          PROVE  /\ j > issued' => message'[j].at = "none" /\ ~Answered(j)'
                 /\ message'[j].at \in {"queued", "running"} => ~Answered(j)'
      <4>1. CASE j = i
        BY <1>1, <2>1, <2>2, <4>1 DEF Answered, Requests
      <4>2. CASE j # i
        BY <1>1, <2>2, <4>2 DEF ProbeInv, FlightInv, Answered
      <4> QED
        BY <4>1, <4>2
    <3> QED
      BY <2>2, <3>1 DEF ProbeInv, FlightInv
  <2>4. ASSUME NEW d \in Clients, d # c PROVE client'[d] = client[d] /\ client[d].at # "acquired"
    BY <1>1, <1>6, <2>2, <2>4 DEF ProbeInv, Enqueue
  <2>5. /\ client'[c].at = "polling" /\ client'[c].request = i /\ client'[c].left = WaitTicks
    BY <1>1, <2>2 DEF ClientRecords
  <2>6. FlightTicks > WaitTicks
    BY Lifetimes
  <2>7. \A d \in Clients : OnFlight(d)'
    BY <2>1, <2>2, <2>4, <2>5, <2>6 DEF OnFlight, ProbeInv, Answered
  <2> QED
    BY <2>3, <2>4, <2>5, <2>7 DEF ProbeInv
<1>7. CASE EnqueueFails(c)
  <2> DEFINE i == client[c].request
  <2>1. CASE UNCHANGED redis
    BY <1>3, <1>7, <2>1 DEF EnqueueFails, redis
  <2>2. CASE Publish(i, Error)
    <3>1. /\ i \in Requests /\ i <= issued /\ flight.request = i /\ ~Answered(i)
          /\ message[i].at = "none"
      <4>1. client[c].at = "acquired"
        BY <1>7 DEF EnqueueFails
      <4> QED
        BY <4>1, HasRequest DEF ProbeInv, OnFlight
    <3>2. /\ response' = [response EXCEPT ![i] = [Error EXCEPT !.left = ResultTicks]]
          /\ flight' = [flight EXCEPT !.left = CooldownTicks]
          /\ client' = [client EXCEPT ![c] = Idle]
          /\ UNCHANGED <<issued, message>>
      BY <1>7, <2>2, <3>1 DEF EnqueueFails, Publish
    <3>3. /\ response'[i].kind = "error" /\ flight'.request = i /\ flight'.left > 0
          /\ \A j \in Requests : j # i => response'[j] = response[j]
      BY <1>1, <3>1, <3>2, Lifetimes DEF Error, NoResponse
    <3>4. FlightInv'
      <4>1. ASSUME NEW j \in Requests
            PROVE  /\ j > issued' => message'[j].at = "none" /\ ~Answered(j)'
                   /\ message'[j].at \in {"queued", "running"} => ~Answered(j)'
                   /\ response'[j].kind \in {"succeeded", "failed"} => response'[j].version # 0
        <5>1. CASE j = i
          BY <1>1, <3>1, <3>2, <3>3, <5>1 DEF Requests
        <5>2. CASE j # i
          BY <3>2, <3>3, <5>2 DEF ProbeInv, FlightInv, Answered
        <5> QED
          BY <5>1, <5>2
      <4> QED
        BY <1>1, <3>1, <3>3, <4>1 DEF FlightInv, Requests
    <3>5. ASSUME NEW d \in Clients, d # c
          PROVE  /\ client'[d] = client[d] /\ client[d].at \notin {"acquired", "answered"}
      BY <1>1, <1>7, <3>1, <3>2, <3>5 DEF ProbeInv, EnqueueFails, OnFlight, Answered, TypeInv, ClientShape
    <3>6. client'[c].at = "idle"
      BY <1>1, <1>2, <3>2
    <3>7. \A d \in Clients : OnFlight(d)'
      BY <3>1, <3>3, <3>5, <3>6 DEF OnFlight, ProbeInv, Answered
    <3> QED
      BY <3>4, <3>5, <3>6, <3>7 DEF ProbeInv
  <2> QED
    BY <1>7, <2>1, <2>2 DEF EnqueueFails
<1>8. CASE ReadFlight(c)
  <2>1. CASE flight.request = 0
    BY <1>3, <1>8, <2>1 DEF ReadFlight, redis
  <2>2. CASE flight.request # 0
    <3>1. /\ UNCHANGED <<flight, response, issued, message>>
          /\ client' = [client EXCEPT ![c] = [client[c] EXCEPT !.at = "looking", !.request = flight.request]]
      BY <1>1, <1>8, <2>2 DEF ReadFlight, redis
    <3>2. client'[c].at = "looking" /\ client'[c].request = flight.request
      BY <1>1, <3>1 DEF ClientRecords
    <3> QED
      BY <1>1, <3>1, <3>2, OneClient DEF OnFlight, ClientRecords
  <2> QED
    BY <2>1, <2>2
<1>9. CASE Look(c) \/ Poll(c)
  <2> DEFINE i == client[c].request
  <2>1. UNCHANGED <<flight, response, issued, message>> /\ Take(c, response[i])
    BY <1>9 DEF Look, Poll, redis
  <2>2. flight.request = i
    BY <1>9 DEF Look, Poll, ProbeInv, OnFlight
  <2>3. CASE response[i].kind \in {"succeeded", "failed"}
    <3>1. client' = [client EXCEPT ![c] = [client[c] EXCEPT !.at = "answered", !.answer = response[i]]]
      BY <1>1, <2>1, <2>3 DEF Take
    <3>2. client'[c].at = "answered" /\ client'[c].request = i /\ client'[c].answer = response[i]
      BY <1>1, <3>1 DEF ClientRecords
    <3> QED
      BY <1>1, <2>1, <2>2, <3>1, <3>2, OneClient DEF OnFlight, ClientRecords
  <2>4. CASE response[i].kind \notin {"succeeded", "failed"}
    BY <1>3, <2>1, <2>4 DEF Take
  <2> QED
    BY <2>3, <2>4
<1>10. CASE RedisFails(c)
  BY <1>3, <1>10 DEF RedisFails, redis
<1>11. CASE Record(c)
  BY <1>3, <1>11 DEF Record, redis
<1> QED
  BY <1>4, <1>5, <1>6, <1>7, <1>8, <1>9, <1>10, <1>11 DEF ClientStep

LEMMA ActorProbeStep ==
  ASSUME TypeInv, ProbeInv, NEW i \in Requests, ActorStep(i)
  PROVE  ProbeInv'
<1>1. /\ issued \in Nat /\ UNCHANGED <<issued, client>>
      /\ flight \in [request : 0 .. issued, left : 0 .. FlightTicks]
      /\ response \in [Requests -> Responses] /\ message \in [Requests -> MessageRecords]
  BY TypeParts, Lifetimes, ActorStepsKeepRow
  DEF TypeInv, IssuedTyped, FlightTyped, ResponseTyped, MessageTyped
<1>2. message[i].at \in {"queued", "running"} /\ ~Answered(i) /\ i <= issued
  <2>1. message[i].at \in {"queued", "running"}
    BY DEF ActorStep, StartActor, ActorAnswers, MessageEnds
  <2> QED
    BY <1>1, <2>1 DEF ProbeInv, FlightInv, Requests
<1>3. /\ message'[i].at \in {"running", "done"}
      /\ \A j \in Requests \ {i} : message'[j] = message[j]
  <2>1. CASE StartActor(i)
    BY <1>1, <2>1 DEF StartActor
  <2>2. CASE ActorAnswers(i) \/ MessageEnds(i)
    BY <1>1, <2>2 DEF ActorAnswers, MessageEnds, NoMessage
  <2> QED
    BY <2>1, <2>2 DEF ActorStep
<1>4. ASSUME NEW c \in Clients PROVE client[c].at = "acquired" => client[c].request \in Requests \ {i}
  BY <1>2, HasRequest DEF ProbeInv, OnFlight
<1>5. CASE UNCHANGED redis
  <2>1. UNCHANGED <<flight, response>>
    BY <1>5 DEF redis
  <2>2. FlightInv'
    BY <1>1, <1>2, <1>3, <2>1 DEF ProbeInv, FlightInv, Answered
  <2>3. \A c \in Clients : OnFlight(c)'
    BY <1>1, <1>3, <1>4, <2>1 DEF ProbeInv, OnFlight, Answered
  <2> QED
    BY <1>1, <2>2, <2>3 DEF ProbeInv
<1>6. ASSUME NEW answer \in Responses, Publish(i, answer), flight.request = i,
             message'[i].at = "done", answer.kind # "none",
             answer.kind \in {"succeeded", "failed"} => answer.version # 0
      PROVE  ProbeInv'
  <2>1. /\ response' = [response EXCEPT ![i] = [answer EXCEPT !.left = ResultTicks]]
        /\ flight' = [flight EXCEPT !.left = CooldownTicks]
    BY <1>6 DEF Publish
  <2>2. /\ response'[i].kind = answer.kind /\ response'[i].version = answer.version
        /\ flight'.request = i /\ flight'.left > 0 /\ i # 0
        /\ \A j \in Requests : j # i => response'[j] = response[j]
    BY <1>1, <1>6, <2>1, Lifetimes DEF Responses, Requests
  <2>3. FlightInv'
    <3>1. ASSUME NEW j \in Requests
          PROVE  /\ j > issued' => message'[j].at = "none" /\ ~Answered(j)'
                 /\ message'[j].at \in {"queued", "running"} => ~Answered(j)'
                 /\ response'[j].kind \in {"succeeded", "failed"} => response'[j].version # 0
      <4>1. CASE j = i
        BY <1>1, <1>2, <1>6, <2>2, <4>1 DEF Requests
      <4>2. CASE j # i
        BY <1>1, <1>3, <2>2, <4>2 DEF ProbeInv, FlightInv, Answered
      <4> QED
        BY <4>1, <4>2
    <3> QED
      BY <2>2, <3>1 DEF FlightInv
  <2>4. ASSUME NEW c \in Clients PROVE OnFlight(c)'
    <3>1. client[c].at \notin {"acquired", "answered"}
      BY <1>2, <1>6 DEF ProbeInv, OnFlight, TypeInv, ClientShape, Answered
    <3> QED
      BY <1>1, <1>6, <2>2, <3>1 DEF ProbeInv, OnFlight, Answered
  <2> QED
    BY <1>1, <2>3, <2>4 DEF ProbeInv
<1>7. ASSUME NEW answer \in Responses, Publish(i, answer), flight.request # i PROVE UNCHANGED redis
  BY <1>7 DEF Publish
<1>8. CASE ActorAnswers(i)
  <2>1. message'[i].at = "done"
    BY <1>1, <1>8 DEF ActorAnswers, NoMessage
  <2>2. Error.kind = "error"
    BY DEF Error, NoResponse
  <2>3. ASSUME NEW outcome \in {"succeeded", "failed"}, message[i].version # 0
        PROVE  LET answer == [NoResponse EXCEPT !.kind = outcome, !.version = message[i].version] IN
               answer \in Responses /\ answer.kind = outcome /\ answer.version # 0
    BY <1>1, <2>3, Records DEF NoResponse, Responses, MessageRecords
  <2>4. \/ UNCHANGED redis
        \/ \E answer \in Responses : /\ Publish(i, answer) /\ answer.kind # "none"
                                     /\ answer.kind \in {"succeeded", "failed"} => answer.version # 0
    BY <1>8, <2>2, <2>3, Records DEF ActorAnswers
  <2> QED
    BY <1>5, <1>6, <1>7, <2>1, <2>4
<1> QED
  BY <1>5, <1>8 DEF ActorStep, StartActor, MessageEnds

\* Time passes only while every client under way polls, unanswered.
LEMMA TickProbeStep ==
  ASSUME TypeInv, ProbeInv, Tick
  PROVE  ProbeInv'
<1>1. /\ client \in [Clients -> ClientRecords(issued)] /\ UNCHANGED issued /\ issued \in Nat
      /\ flight \in [request : 0 .. issued, left : 0 .. FlightTicks]
      /\ response \in [Requests -> Responses] /\ message \in [Requests -> MessageRecords]
  BY TypeParts, Lifetimes
  DEF TypeInv, ClientTyped, IssuedTyped, FlightTyped, ResponseTyped, MessageTyped, Tick
<1>2. ASSUME NEW i \in Requests
      PROVE  /\ message'[i].at = message[i].at
             /\ \/ /\ response'[i].kind = response[i].kind
                   /\ response'[i].version = response[i].version
                \/ response'[i] = NoResponse
  BY <1>1 DEF Tick, MessageRecords, Responses
<1>3. /\ flight.left > 1 => flight'.request = flight.request /\ flight'.left = flight.left - 1
      /\ flight.left <= 1 => flight' = NoFlight
  BY <1>1 DEF Tick
<1>4. FlightInv'
  <2>1. flight'.request # 0 <=> flight'.left > 0
    BY <1>1, <1>3 DEF ProbeInv, FlightInv, NoFlight
  <2>2. NoResponse.kind = "none"
    BY DEF NoResponse
  <2> QED
    BY <1>1, <1>2, <2>1, <2>2 DEF ProbeInv, FlightInv, Answered
<1>5. ASSUME NEW c \in Clients
      PROVE  /\ client'[c].at = client[c].at /\ client'[c].request = client[c].request
             /\ client'[c].left = Less(client[c].left)
             /\ client[c].at # "idle" => /\ client[c].at = "polling" /\ client[c].left > 0
                                         /\ ~Answered(client[c].request)
  <2>1. client[c] \in ClientRecords(issued) /\ client'[c] = [client[c] EXCEPT !.left = Less(@)]
    BY <1>1 DEF Tick
  <2>2. client[c].at # "idle" => /\ client[c].at = "polling" /\ client[c].left > 0
                                 /\ ~Answered(client[c].request)
    <3>1. ClientsOnTime
      BY DEF Tick
    <3> QED
      BY <3>1 DEF ClientsOnTime
  <2> QED
    BY <2>1, <2>2 DEF ClientRecords
<1>6. ASSUME NEW c \in Clients PROVE OnFlight(c)'
  <2>1. CASE client[c].at = "idle"
    BY <1>5, <2>1 DEF OnFlight
  <2>2. CASE client[c].at = "polling"
    <3>1. flight.request = client[c].request /\ flight.left > client[c].left /\ client[c].left > 0
      BY <1>5, <2>2 DEF ProbeInv, OnFlight
    <3>2. client[c].left \in Nat /\ flight.left \in Nat
      BY <1>1, Lifetimes DEF ClientRecords
    <3>3. flight'.request = client'[c].request /\ flight'.left > client'[c].left
      BY <1>3, <1>5, <3>1, <3>2 DEF Less
    <3> QED
      BY <1>5, <2>2, <3>3 DEF OnFlight
  <2> QED
    BY <1>5, <2>1, <2>2
<1> QED
  BY <1>4, <1>5, <1>6 DEF ProbeInv

LEMMA ProbeStep == TypeInv /\ ProbeInv /\ [Next]_vars => ProbeInv'
<1> SUFFICES ASSUME TypeInv, ProbeInv, [Next]_vars PROVE ProbeInv'
  OBVIOUS
<1>1. CASE UNCHANGED <<flight, response, issued, message, client>>
  BY <1>1 DEF ProbeInv, FlightInv, OnFlight, Answered
<1> QED
  BY <1>1, NextSteps, RowStepsKeepTests, ClientProbeStep, ActorProbeStep, TickProbeStep
  DEF vars, redis

LEMMA ProbeInit == Init => ProbeInv
<1> SUFFICES ASSUME Init PROVE ProbeInv
  OBVIOUS
<1>1. flight.request = 0 /\ flight.left = 0
  BY DEF Init, NoFlight
<1>2. \A i \in Requests : message[i].at = "none" /\ response[i].kind = "none"
  BY DEF Init, NoMessage, NoResponse
<1>3. \A c \in Clients : client[c].at = "idle"
  BY DEF Init, Idle
<1> QED
  BY <1>1, <1>2, <1>3 DEF ProbeInv, FlightInv, OnFlight, Answered

-----------------------------------------------------------------------------
(* Outcomes. *)

\* Only Record writes the row's last test.
LEMMA TestedSteps ==
  ASSUME [Next]_vars, \A c \in Clients : ~Record(c)
  PROVE  UNCHANGED <<tested, reported>>
<1>1. ASSUME NEW c \in Clients, ClientStep(c) PROVE UNCHANGED <<tested, reported>>
  BY <1>1 DEF ClientStep, StartTest, AcquireOrJoin, Enqueue, EnqueueFails, ReadFlight, Look, Poll,
     RedisFails
<1> QED
  BY <1>1, NextSteps, RowStepsKeepTests, ActorStepsKeepRow DEF Tick, vars

\* A client that is under way keeps what it has loaded.
LEMMA LoadedStays ==
  ASSUME TypeInv, [Next]_vars, NEW c \in Clients, client[c].at # "idle", client'[c].at # "idle"
  PROVE  client'[c].loaded = client[c].loaded
<1>1. /\ client \in [Clients -> ClientRecords(issued)] /\ client[c] \in ClientRecords(issued)
  BY TypeParts DEF TypeInv, ClientTyped
<1>2. Idle.at = "idle"
  BY DEF Idle
<1>3. CASE UNCHANGED client
  BY <1>3
<1>4. ASSUME NEW d \in Clients, ClientStep(d), d # c PROVE client'[c] = client[c]
  BY <1>1, <1>4 DEF ClientStep, StartTest, AcquireOrJoin, Enqueue, EnqueueFails, ReadFlight, Look,
     Poll, RedisFails, Record, Take
<1>5. CASE StartTest(c) \/ EnqueueFails(c) \/ RedisFails(c) \/ Record(c)
  BY <1>1, <1>2, <1>5 DEF StartTest, EnqueueFails, RedisFails, Record
<1>6. CASE AcquireOrJoin(c)
  BY <1>1, <1>6 DEF AcquireOrJoin, ClientRecords
<1>7. CASE Enqueue(c)
  BY <1>1, <1>7 DEF Enqueue, ClientRecords
<1>8. CASE ReadFlight(c)
  BY <1>1, <1>2, <1>8 DEF ReadFlight, ClientRecords
<1>9. CASE Look(c) \/ Poll(c)
  BY <1>1, <1>2, <1>9 DEF Look, Poll, Take, ClientRecords
<1>10. CASE Tick
  BY <1>1, <1>10 DEF Tick, ClientRecords
<1> QED
  BY <1>3, <1>4, <1>5, <1>6, <1>7, <1>8, <1>9, <1>10, NextSteps, RowStepsKeepTests, ActorStepsKeepRow
  DEF ClientStep, vars

\* Answers are only published for the flight that is under way and has none; between two
\* of its ticks a flight that has its answer keeps both.
LEMMA AnswerStays ==
  ASSUME TypeInv, ProbeInv, [Next]_vars, ~Tick,
         flight.request # 0, Answered(flight.request)
  PROVE  /\ flight'.request = flight.request
         /\ response'[flight.request] = response[flight.request]
<1>1. /\ flight \in [request : 0 .. issued, left : 0 .. FlightTicks]
      /\ response \in [Requests -> Responses]
  BY TypeParts DEF TypeInv, FlightTyped, ResponseTyped
<1>2. CASE UNCHANGED <<flight, response>>
  BY <1>2
<1>3. ASSUME NEW i, NEW answer, Publish(i, answer), flight.request # i
      PROVE  UNCHANGED <<flight, response>>
  BY <1>3 DEF Publish, redis
<1>4. ASSUME NEW c \in Clients, ClientStep(c) PROVE UNCHANGED <<flight, response>>
  <2>1. CASE EnqueueFails(c)
    BY <1>3, <2>1 DEF EnqueueFails, ProbeInv, OnFlight, redis
  <2>2. CASE ~EnqueueFails(c)
    BY <1>4, <2>2 DEF ClientStep, StartTest, AcquireOrJoin, Enqueue, ReadFlight, Look, Poll,
       RedisFails, Record, redis
  <2> QED
    BY <2>1, <2>2
<1>5. ASSUME NEW i \in Requests, ActorStep(i) PROVE UNCHANGED <<flight, response>>
  <2>1. message[i].at \in {"queued", "running"}
    BY <1>5 DEF ActorStep, StartActor, ActorAnswers, MessageEnds
  <2>2. flight.request # i
    BY <2>1 DEF ProbeInv, FlightInv
  <2> QED
    BY <1>3, <1>5, <2>2 DEF ActorStep, StartActor, ActorAnswers, MessageEnds, redis
<1> QED
  BY <1>2, <1>4, <1>5, NextSteps, RowStepsKeepTests DEF vars, redis

OutcomeInv == LoadedInv /\ OutcomeMatchesTime

LEMMA OutcomeStep == TypeInv /\ ProbeInv /\ OutcomeInv /\ [Next]_vars => OutcomeInv'
<1> SUFFICES ASSUME TypeInv, ProbeInv, OutcomeInv, [Next]_vars PROVE OutcomeInv'
  OBVIOUS
<1>1. client \in [Clients -> ClientRecords(issued)] /\ Idle.at = "idle"
  BY TypeParts DEF TypeInv, ClientTyped, Idle
<1>2. CASE Tick
  <2>1. UNCHANGED <<tested, reported>>
    BY <1>2 DEF Tick
  <2>2. ASSUME NEW c \in Clients, client'[c].at # "idle" PROVE client'[c].loaded = tested'.outcome
    <3>1. client'[c].at = client[c].at
      BY <1>1, <1>2 DEF Tick, ClientRecords
    <3>2. client[c].at = "polling" /\ ~Answered(client[c].request)
      BY <1>2, <2>2, <3>1 DEF Tick, ClientsOnTime
    <3>3. flight.request = client[c].request
      BY <3>2 DEF ProbeInv, OnFlight
    <3>4. client[c].loaded = tested.outcome
      BY <3>2, <3>3 DEF OutcomeInv, LoadedInv
    <3> QED
      BY <2>1, <2>2, <3>2, <3>4, LoadedStays
  <2> QED
    BY <2>1, <2>2 DEF OutcomeInv, LoadedInv, OutcomeMatchesTime
<1>3. ASSUME NEW c \in Clients, Record(c) PROVE OutcomeInv'
  <2> DEFINE outcome == client[c].answer.kind
  <2>1. /\ client[c].at = "answered" /\ UNCHANGED <<flight, response>>
        /\ client' = [client EXCEPT ![c] = Idle]
    BY <1>3 DEF Record, redis
  <2>2. /\ flight.request = client[c].request /\ response[flight.request].kind = outcome
        /\ flight.request # 0 /\ Answered(flight.request)
    BY <2>1 DEF ProbeInv, OnFlight, Answered, TypeInv, ClientShape
  <2>3. CASE There
    <3>1. /\ tested'.outcome = (IF outcome = client[c].loaded THEN tested.outcome ELSE outcome)
          /\ reported' = outcome
      BY <1>3, <2>3 DEF Record
    <3>2. client[c].loaded = tested.outcome \/ tested.outcome = outcome
      BY <2>1, <2>2 DEF OutcomeInv, LoadedInv
    <3>3. tested'.outcome = outcome
      BY <3>1, <3>2
    <3>4. LoadedInv'
      BY <2>1, <2>2, <3>3 DEF LoadedInv, Answered
    <3> QED
      BY <3>1, <3>3, <3>4 DEF OutcomeInv, OutcomeMatchesTime
  <2>4. CASE ~There
    <3>1. UNCHANGED <<tested, reported>>
      BY <1>3, <2>4 DEF Record
    <3>2. \A d \in Clients : client'[d] = client[d] \/ client'[d].at = "idle"
      BY <1>1, <2>1
    <3> QED
      BY <2>1, <3>1, <3>2 DEF OutcomeInv, LoadedInv, OutcomeMatchesTime, Answered
  <2> QED
    BY <2>3, <2>4
<1>4. ASSUME ~Tick, \A c \in Clients : ~Record(c) PROVE OutcomeInv'
  <2>1. UNCHANGED <<tested, reported>>
    BY <1>4, TestedSteps
  <2>2. ASSUME NEW c \in Clients, client'[c].at # "idle"
        PROVE  \/ client'[c].loaded = tested'.outcome
               \/ /\ flight'.request # 0 /\ Answered(flight.request)'
                  /\ tested'.outcome = response'[flight'.request].kind
    <3>1. CASE client[c].at = "idle"
      <4>1. StartTest(c) \/ client'[c] = client[c]
        <5>1. ASSUME NEW d \in Clients, ClientStep(d) PROVE StartTest(c) \/ client'[c] = client[c]
          BY <1>1, <3>1, <5>1 DEF ClientStep, StartTest, AcquireOrJoin, Enqueue, EnqueueFails,
             ReadFlight, Look, Poll, RedisFails, Record, Take
        <5> QED
          BY <1>4, <5>1, NextSteps, RowStepsKeepTests, ActorStepsKeepRow DEF vars
      <4>2. StartTest(c)
        BY <2>2, <3>1, <4>1
      <4>3. client'[c].loaded = tested.outcome
        BY <1>1, <4>2 DEF StartTest, ClientRecords
      <4> QED
        BY <2>1, <4>3
    <3>2. CASE client[c].at # "idle"
      <4>1. client'[c].loaded = client[c].loaded
        BY <2>2, <3>2, LoadedStays
      <4>2. CASE client[c].loaded = tested.outcome
        BY <2>1, <4>1, <4>2
      <4>3. CASE /\ flight.request # 0 /\ Answered(flight.request)
                 /\ tested.outcome = response[flight.request].kind
        <5>1. flight'.request = flight.request /\ response'[flight.request] = response[flight.request]
          BY <1>4, <4>3, AnswerStays
        <5> QED
          BY <2>1, <4>3, <5>1 DEF Answered
      <4> QED
        BY <3>2, <4>2, <4>3 DEF OutcomeInv, LoadedInv
    <3> QED
      BY <3>1, <3>2
  <2> QED
    BY <2>1, <2>2 DEF OutcomeInv, LoadedInv, OutcomeMatchesTime, Answered
<1> QED
  BY <1>2, <1>3, <1>4

\* last_test_succeeded is the outcome of the test of last_tested_at, whatever tests overlap.
THEOREM OutcomeMatchesTimeAlways == Spec => []OutcomeMatchesTime
<1>1. Init => OutcomeInv
  BY DEF Init, OutcomeInv, LoadedInv, OutcomeMatchesTime, Idle
<1>2. OutcomeInv => OutcomeMatchesTime
  BY DEF OutcomeInv
<1> QED
  BY <1>1, <1>2, ProbeInit, ProbeStep, OutcomeStep, TypeInvAlways, PTL DEF Spec

-----------------------------------------------------------------------------
(* Ages. *)

\* AgeInv for the flight, message and response that are there.
LEMMA AgeKept ==
  ASSUME AgeInv, UNCHANGED <<since, flight, response>>,
         connection'.version >= connection.version,
         connection.version \in Versions, connection'.version \in Versions,
         \A i \in Requests : message'[i].at = "running" => message'[i] = message[i],
         flight.request \in Requests \cup {0}
  PROVE  AgeInv'
<1>1. \A v \in Versions : v >= connection'.version => since'[v] = 0
  BY DEF AgeInv, Versions
<1> QED
  BY <1>1 DEF AgeInv, Answered

LEMMA AgeStep == TypeInv /\ ProbeInv /\ AgeInv /\ [Next]_vars => AgeInv'
<1> SUFFICES ASSUME TypeInv, ProbeInv, AgeInv, [Next]_vars PROVE AgeInv'
  OBVIOUS
<1>1. /\ connection.version \in Versions /\ since \in [Versions -> 0 .. AgeLimit]
      /\ flight \in [request : 0 .. issued, left : 0 .. FlightTicks] /\ issued \in 0 .. MaxRequests
      /\ response \in [Requests -> Responses] /\ message \in [Requests -> MessageRecords]
      /\ client \in [Clients -> ClientRecords(issued)]
  BY TypeParts DEF TypeInv, ConnectionTyped, SinceTyped, FlightTyped, ResponseTyped, MessageTyped,
     IssuedTyped, ClientTyped
<1>2. flight.request \in Requests \cup {0} /\ flight.left \in Nat
  BY <1>1, Lifetimes DEF Requests
<1>3. CASE UNCHANGED <<connection, since, flight, response, message>>
  BY <1>3 DEF AgeInv, Answered
<1>4. CASE RowStep
  <2>1. UNCHANGED <<since, flight, response, message>>
    BY <1>4, RowStepsKeepTests
  <2>2. connection'.version \in Versions
    BY <1>4, RowStepType, TypePartsPrimed DEF TypeInv, ConnectionTyped
  <2>3. connection'.version >= connection.version
    <3>1. ConnectionTyped /\ connection.version \in Nat
      BY <1>1, TypeParts DEF TypeInv, Versions
    <3>2. ASSUME NEW identity \in Identities, CreateConnection(identity)
          PROVE  connection'.version >= connection.version
      BY <3>1, <3>2 DEF CreateConnection, ConnectionTyped
    <3>3. ASSUME NEW identity \in Identities, UpdateConnection(identity)
          PROVE  connection'.version >= connection.version
      BY <3>1, <3>3 DEF UpdateConnection, ConnectionTyped
    <3>4. CASE DeleteConnection
      BY <3>1, <3>4 DEF DeleteConnection, ConnectionTyped
    <3>5. CASE UNCHANGED connection
      BY <3>1, <3>5
    <3> QED
      BY <1>4, <3>2, <3>3, <3>4, <3>5 DEF RowStep, Refer, ReferNoMore, StartRun, EndRun, BindOrUnbind, row
  <2> QED
    BY <1>1, <1>2, <2>1, <2>2, <2>3, AgeKept
<1>5. ASSUME NEW c \in Clients, ClientStep(c) PROVE AgeInv'
  <2>1. UNCHANGED <<connection, since>>
    BY <1>5, ClientStepsKeepRow
  <2>2. CASE flight.request = 0 /\ AcquireOrJoin(c)
    <3>1. /\ flight' = [request |-> issued + 1, left |-> FlightTicks]
          /\ UNCHANGED <<response, message>> /\ issued < MaxRequests
      BY <2>2 DEF AcquireOrJoin
    <3>2. issued + 1 \in Requests /\ issued + 1 > issued
      BY <1>1, <3>1, Lifetimes DEF Requests
    <3>3. message'[flight'.request].at = "none" /\ response'[flight'.request].kind = "none"
      BY <3>1, <3>2 DEF ProbeInv, FlightInv, Answered
    <3> QED
      BY <2>1, <3>3 DEF AgeInv, Answered
  <2>3. CASE Enqueue(c)
    <3>1. UNCHANGED <<flight, response>>
      BY <2>3 DEF Enqueue, redis
    <3>2. \A i \in Requests : message'[i].at = "running" => message'[i] = message[i]
      BY <1>1, <2>3 DEF Enqueue, NoMessage
    <3> QED
      BY <1>1, <1>2, <2>1, <3>1, <3>2, AgeKept DEF Versions
  <2>4. CASE EnqueueFails(c) /\ ~UNCHANGED redis
    <3> DEFINE i == client[c].request
    <3>1. client[c].at = "acquired" /\ Publish(i, Error) /\ UNCHANGED message
      BY <2>4 DEF EnqueueFails
    <3>2. i \in Requests /\ flight.request = i /\ message[i].at = "none"
      BY <3>1, HasRequest DEF ProbeInv, OnFlight
    <3>3. /\ response' = [response EXCEPT ![i] = [Error EXCEPT !.left = ResultTicks]]
          /\ flight' = [flight EXCEPT !.left = CooldownTicks]
      BY <3>1, <3>2 DEF Publish
    <3>4. flight'.request = i /\ response'[i].version = 0 /\ message'[i].at = "none"
      BY <1>1, <3>1, <3>2, <3>3 DEF Error, NoResponse
    <3> QED
      BY <2>1, <3>4 DEF AgeInv
  <2> QED
    BY <1>3, <1>5, <2>1, <2>2, <2>3, <2>4
    DEF ClientStep, StartTest, AcquireOrJoin, EnqueueFails, ReadFlight, Look, Poll, RedisFails,
        Record, redis
<1>6. ASSUME NEW i \in Requests, ActorStep(i) PROVE AgeInv'
  <2>1. UNCHANGED <<connection, since>>
    BY <1>6, ActorStepsKeepRow
  <2>2. CASE StartActor(i)
    <3>1. /\ UNCHANGED <<flight, response>>
          /\ message'[i].version = (IF There THEN connection.version ELSE 0)
          /\ \A j \in Requests \ {i} : message'[j] = message[j]
      BY <1>1, <2>2 DEF StartActor, redis
    <3>2. since[connection.version] = 0 /\ flight.left <= FlightTicks
      BY <1>1, Lifetimes DEF AgeInv, Versions
    <3>3. ASSUME flight.request = i, message'[i].version # 0
          PROVE  since[message'[i].version] + flight.left <= FlightTicks
      BY <1>2, <3>1, <3>2, <3>3, Lifetimes
    <3> QED
      BY <1>2, <2>1, <3>1, <3>3 DEF AgeInv, Answered
  <2>3. ASSUME ActorAnswers(i) \/ MessageEnds(i) PROVE message'[i].at = "done"
    BY <1>1, <2>3 DEF ActorAnswers, MessageEnds, NoMessage
  <2>4. ASSUME ActorAnswers(i) \/ MessageEnds(i)
        PROVE  \A j \in Requests : message'[j].at = "running" => message'[j] = message[j]
    BY <1>1, <2>3, <2>4 DEF ActorAnswers, MessageEnds
  <2>5. CASE (ActorAnswers(i) \/ MessageEnds(i)) /\ UNCHANGED <<flight, response>>
    BY <1>1, <1>2, <2>1, <2>4, <2>5, AgeKept DEF Versions
  <2>6. ASSUME NEW answer \in Responses, ActorAnswers(i), Publish(i, answer), flight.request = i,
               answer.version # 0 => answer.version = message[i].version
        PROVE  AgeInv'
    <3>1. /\ flight'.request = i /\ flight'.left = CooldownTicks
          /\ response'[i].version = answer.version
      BY <1>1, <2>6 DEF Publish, Responses
    <3>2. ASSUME answer.version # 0
          PROVE  since[answer.version] + CooldownTicks <= (FlightTicks - 1) + CooldownTicks
      <4>1. message[i].at = "running" /\ message[i].version = answer.version
        BY <2>6, <3>2 DEF ActorAnswers
      <4>2. since[answer.version] + flight.left <= FlightTicks
        BY <2>6, <3>2, <4>1, Lifetimes DEF AgeInv, Requests
      <4>3. flight.left > 0
        BY <2>6, Lifetimes DEF ProbeInv, FlightInv, Requests
      <4>4. answer.version \in Versions
        BY <1>1, <3>2, <4>1, Lifetimes DEF MessageRecords, Versions
      <4>5. since[answer.version] \in Nat
        BY <1>1, <4>4, Lifetimes
      <4> QED
        BY <1>2, <4>2, <4>3, <4>5, Lifetimes
    <3>3. message'[i].at = "done"
      BY <2>3, <2>6
    <3> QED
      BY <2>1, <3>1, <3>2, <3>3 DEF AgeInv
  <2>7. CASE ActorAnswers(i) /\ ~UNCHANGED <<flight, response>>
    <3>1. \E answer \in Responses :
            Publish(i, answer) /\ (answer.version # 0 => answer.version = message[i].version)
      <4>1. Error.version = 0
        BY DEF Error, NoResponse
      <4>2. ASSUME NEW outcome \in {"succeeded", "failed"}
            PROVE  LET answer == [NoResponse EXCEPT !.kind = outcome, !.version = message[i].version] IN
                   answer \in Responses /\ answer.version = message[i].version
        BY <1>1, Records DEF NoResponse, Responses, MessageRecords
      <4> QED
        BY <2>7, <4>1, <4>2, Records DEF ActorAnswers, redis
    <3>2. flight.request = i
      BY <2>7, <3>1 DEF Publish, redis
    <3> QED
      BY <2>6, <2>7, <3>1, <3>2
  <2> QED
    BY <1>6, <2>2, <2>5, <2>7 DEF ActorStep, MessageEnds, redis
<1>7. CASE Tick
  <2>1. UNCHANGED connection
    BY <1>7 DEF Tick
  <2>2. \A v \in Versions : v >= connection'.version => since'[v] = 0
    BY <1>1, <1>7, <2>1 DEF Tick, Versions
  <2>3. ASSUME NEW v \in Versions PROVE since[v] \in Nat /\ since'[v] \in Nat /\ since'[v] <= since[v] + 1
    <3>1. since[v] \in Nat
      BY <1>1, Lifetimes
    <3>2. since'[v] = (IF v < connection.version THEN Older(since[v]) ELSE 0)
      BY <1>7 DEF Tick
    <3> QED
      BY <3>1, <3>2, Lifetimes DEF Older
  <2>4. CASE flight.left <= 1
    <3>1. flight'.request = 0
      BY <1>7, <2>4 DEF Tick, NoFlight
    <3> QED
      BY <2>2, <3>1 DEF AgeInv
  <2>5. CASE flight.left > 1
    <3> DEFINE i == flight.request
    <3>1. flight'.request = i /\ flight'.left = flight.left - 1
      BY <1>1, <1>2, <1>7, <2>5 DEF Tick
    <3>2. i \in Requests
      BY <1>2, <2>5 DEF ProbeInv, FlightInv
    <3>3. message'[i].at = message[i].at /\ message'[i].version = message[i].version
      BY <1>1, <1>7, <3>2 DEF Tick, MessageRecords
    <3>4. \/ response'[i] = NoResponse
          \/ /\ response'[i].kind = response[i].kind
             /\ response'[i].version = response[i].version
      BY <1>1, <1>7, <3>2 DEF Tick, Responses
    <3>5. ASSUME message[i].at = "running", message[i].version # 0
          PROVE  since'[message[i].version] + (flight.left - 1) <= FlightTicks
      <4>1. message[i].version \in Versions
        BY <1>1, <3>2, <3>5, Lifetimes DEF MessageRecords, Versions
      <4>2. since[message[i].version] + flight.left <= FlightTicks
        BY <3>2, <3>5, Lifetimes DEF AgeInv, Requests
      <4> QED
        BY <1>2, <2>3, <4>1, <4>2, Lifetimes
    <3>6. ASSUME Answered(i), response[i].version # 0
          PROVE  since'[response[i].version] + (flight.left - 1) <= (FlightTicks - 1) + CooldownTicks
      <4>1. response[i].version \in Versions
        BY <1>1, <3>2, <3>6, Lifetimes DEF Responses, Versions
      <4>2. since[response[i].version] + flight.left <= (FlightTicks - 1) + CooldownTicks
        BY <3>2, <3>6, Lifetimes DEF AgeInv, Requests
      <4> QED
        BY <1>2, <2>3, <4>1, <4>2, Lifetimes
    <3> QED
      BY <2>2, <3>1, <3>3, <3>4, <3>5, <3>6 DEF AgeInv, Answered, NoResponse
  <2> QED
    BY <1>2, <2>4, <2>5
<1> QED
  BY <1>3, <1>4, <1>5, <1>6, <1>7, NextSteps DEF vars, row, redis

\* A test that is recorded tells of a version of the row that was replaced less than a
\* flight and a cooldown ago.
THEOREM RecordsAreRecentAlways == Spec => []RecordsAreRecent
<1>1. Init => AgeInv
  BY DEF Init, AgeInv, NoFlight
<1>2. TypeInv /\ ProbeInv /\ AgeInv => RecordsAreRecent
  <2> SUFFICES ASSUME TypeInv, ProbeInv, AgeInv, NEW c \in Clients, client[c].at = "answered"
               PROVE  since[client[c].answer.version] <= (FlightTicks - 1) + (CooldownTicks - 1)
    BY DEF RecordsAreRecent
  <2> DEFINE i == client[c].request
             v == client[c].answer.version
  <2>1. i \in Requests /\ flight.request = i
    BY HasRequest DEF ProbeInv, OnFlight
  <2>2. response[i].version = v /\ response[i].kind \in {"succeeded", "failed"}
    BY DEF ProbeInv, OnFlight, TypeInv, ClientShape
  <2>3. v # 0 /\ Answered(i)
    BY <2>1, <2>2 DEF ProbeInv, FlightInv, Answered
  <2>4. flight.left > 0 /\ flight.left \in Nat /\ i # 0
    BY <2>1, TypeParts, Lifetimes DEF ProbeInv, FlightInv, TypeInv, FlightTyped, Requests
  <2>5. v \in Versions
    BY <2>1, <2>2, <2>3, TypeParts, Lifetimes DEF TypeInv, ResponseTyped, Responses, Versions
  <2>6. since[v] \in Nat
    BY <2>5, TypeParts, Lifetimes DEF TypeInv, SinceTyped
  <2>7. since[v] + flight.left <= (FlightTicks - 1) + CooldownTicks
    BY <2>1, <2>2, <2>3, <2>4 DEF AgeInv
  <2> QED
    BY <2>4, <2>6, <2>7, Lifetimes
<1> QED
  BY <1>1, <1>2, ProbeInit, ProbeStep, AgeStep, TypeInvAlways, PTL DEF Spec

=============================================================================
