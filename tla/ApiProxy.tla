------------------------------- MODULE ApiProxy -------------------------------
(***************************************************************************)
(* The proxy in front of the AI service (ic_govmind_api_proxy/server.js):  *)
(* an Express server whose middlewares parse a request and count it        *)
(* against a limit, before one of its routes checks it, awaits the AI      *)
(* service and answers.  Requests overlap at that await.  All of them come *)
(* from one address, the idempotent proxy's (deploy.sh), so there is one   *)
(* window of the limiter, in the memory of the process.  SIGTERM refuses   *)
(* new connections and lets the open ones go on, which bring further       *)
(* requests until they close; the process manager kills what is left.      *)
(* A request is on a connection of its own, kept open after its answer or  *)
(* not.                                                                    *)
(***************************************************************************)
EXTENDS Integers, Sequences

CONSTANTS
  Requests, \* connections, and so requests, at the server at a time
  RateLimit \* RATE_LIMIT_MAX

ProxyAssumption == RateLimit \in Nat

VARIABLES
  server,  \* up, closing or down
  hasKey,  \* whether DEEPSEEK_API_KEY is set
  count,   \* requests counted in this window, as far as it tells them apart
  request, \* of each connection the request: where it is, its route, whether
           \* it came after the signal, and the answers it was sent
  bought   \* history: the calls of the AI service made in this window

vars == <<server, hasKey, count, request, bought>>

AiRoutes == {"analyze", "debate", "draft", "draft_with_committee"}
Routes == AiRoutes \cup {"health", "root", "unknown"}
(* A body whose JSON is broken, lacks a parameter, or has one that is not   *)
(* the text or list the prompt is made from.                                *)
Bodies == {"broken", "missing", "mistyped", "good"}
(* The replies of the AI service: an error or exception, no choice, text    *)
(* without JSON, and JSON with some of the fields asked for or all.         *)
Replies == {"error", "empty", "no_json", "partial", "whole"}

Free == [phase |-> "free"] \* no connection
Kept == [phase |-> "kept"] \* an open connection without a request
Cut == [phase |-> "cut"]
RequestStates ==
  {Free, Kept, Cut}
  \cup [phase : {"awaiting"}, route : AiRoutes, late : BOOLEAN, answers : {<< >>}]
  \cup [phase : {"answered"}, route : Routes, late : BOOLEAN,
         answers : {<<code>> : code \in {200, 400, 404, 429, 500}}]

Init ==
  /\ server = "up" /\ hasKey \in BOOLEAN /\ count = 0 /\ bought = 0
  /\ request = [r \in Requests |-> Free]

-----------------------------------------------------------------------------
(* What the middlewares and the route make of a request at once: the codes  *)
(* of the answers sent, none if the AI service is asked.                    *)
Counted(route) == route # "root" \* and an unknown path under /api/
AboveByOne(n) == n > RateLimit + 1
Limited(n) == n > RateLimit

Checked(body) ==
  IF body = "missing" THEN <<400>>
  ELSE IF ~hasKey \/ body = "mistyped" THEN <<500>> ELSE << >>

AtOnce(route, body, n) ==
  CASE body = "broken" -> <<500>>
    [] body # "broken" /\ Counted(route) /\ Limited(n) -> <<429>>
    [] body # "broken" /\ ~(Counted(route) /\ Limited(n)) ->
         CASE route \in {"health", "root"} -> <<200>>
           [] route = "unknown" -> <<404>>
           [] route \in AiRoutes -> Checked(body)

(* express.json comes before the limiter, so a broken body is not counted.  *)
CountAfter(route, body) ==
  IF Counted(route) /\ body # "broken" /\ count <= RateLimit THEN count + 1 ELSE count

(* On a new connection, or on an open one, which a signal leaves alone.     *)
Receive(r, route, body) ==
  LET answers == AtOnce(route, body, CountAfter(route, body)) IN
  /\ \/ server = "up" /\ request[r] \in {Free, Kept}
     \/ server = "closing" /\ request[r] = Kept
  /\ count' = CountAfter(route, body)
  /\ request' = [request EXCEPT ![r] =
       [phase |-> IF answers = << >> THEN "awaiting" ELSE "answered",
        route |-> route, late |-> server = "closing", answers |-> answers]]
  /\ bought' = IF answers = << >> THEN bought + 1 ELSE bought
  /\ UNCHANGED <<server, hasKey>>

(* The reply is parsed, what it lacks filled in; all that fails is caught   *)
(* and answered once.                                                       *)
Parses(reply) == reply \in {"partial", "whole"}
AnswerTo(reply) == IF Parses(reply) THEN <<200>> ELSE <<500>>

ServiceReplies(r, reply) ==
  /\ request[r].phase = "awaiting"
  /\ request' = [request EXCEPT ![r].phase = "answered", ![r].answers = @ \o AnswerTo(reply)]
  /\ UNCHANGED <<server, hasKey, count, bought>>

(* External: the client has its answer, and the connection is kept open or  *)
(* not; or it has an error.  A connection that stays without a request is   *)
(* closed by node after its timeout, or by the client.                      *)
Delivered(r) ==
  /\ \/ /\ request[r].phase = "answered"
        /\ \E connection \in {Free, Kept} : request' = [request EXCEPT ![r] = connection]
     \/ request[r].phase = "cut" /\ request' = [request EXCEPT ![r] = Free]
  /\ UNCHANGED <<server, hasKey, count, bought>>

ConnectionCloses(r) ==
  /\ request[r] = Kept
  /\ request' = [request EXCEPT ![r] = Free]
  /\ UNCHANGED <<server, hasKey, count, bought>>

-----------------------------------------------------------------------------
WindowEnds ==
  /\ count' = 0 /\ bought' = 0
  /\ UNCHANGED <<server, hasKey, request>>

(* SIGTERM or SIGINT: no new connections, and the end when none is open.    *)
Signal ==
  /\ server = "up"
  /\ server' = "closing"
  /\ UNCHANGED <<hasKey, count, request, bought>>

Drained == server = "closing" /\ \A r \in Requests : request[r] = Free
Exit ==
  /\ Drained
  /\ server' = "down"
  /\ UNCHANGED <<hasKey, count, request, bought>>

(* External: the process manager has a shorter patience than the AI service *)
(* needs; and it starts the server again, perhaps with another .env.        *)
Kill ==
  /\ server # "down"
  /\ server' = "down"
  /\ request' = [r \in Requests |-> IF request[r] \in {Free, Kept} THEN Free ELSE Cut]
  /\ UNCHANGED <<hasKey, count, bought>>

Start ==
  /\ server = "down"
  /\ server' = "up" /\ hasKey' \in BOOLEAN /\ count' = 0 /\ bought' = 0
  /\ UNCHANGED request

-----------------------------------------------------------------------------
Handle(r) == Delivered(r) \/ ConnectionCloses(r) \/ \E reply \in Replies : ServiceReplies(r, reply)

Next ==
  \/ \E r \in Requests, route \in Routes, body \in Bodies : Receive(r, route, body)
  \/ \E r \in Requests : Handle(r)
  \/ WindowEnds \/ Signal \/ Exit \/ Kill \/ Start

(* The AI service replies or the request to it times out; answers arrive;   *)
(* node closes a connection on which no request comes.                      *)
Fairness == (\A r \in Requests : WF_vars(Handle(r))) /\ WF_vars(Exit)
Spec == Init /\ [][Next]_vars /\ Fairness

-----------------------------------------------------------------------------
TypeOK ==
  /\ server \in {"up", "closing", "down"} /\ hasKey \in BOOLEAN
  /\ count \in 0 .. RateLimit + 1
  /\ request \in [Requests -> RequestStates]

(* No more calls of the paid service are made in a window, of a process,    *)
(* than the limit allows, whatever else is requested or refused (the order  *)
(* of the middlewares).                                                     *)
BoughtWithinLimit == bought <= RateLimit

(* Every request that was accepted is answered before the process ends,     *)
(* unless a kill cuts it off, and none twice (the returns of the checks,    *)
(* the one catch of each route, and server.close).                          *)
AnsweredOnce ==
  /\ \A r \in Requests : request[r].phase = "answered" => Len(request[r].answers) = 1
  /\ server = "down" => \A r \in Requests : request[r].phase \in {"free", "cut"}

(* A shutdown waits for nothing but further requests on connections that    *)
(* were open: no request that was there is left without an answer, which    *)
(* server.close would wait for.                                             *)
LateRequest(r) == request[r].phase \in {"awaiting", "answered"} /\ request[r].late
ShutdownEnds == server = "closing" ~> server = "down" \/ \E r \in Requests : LateRequest(r)
=============================================================================
