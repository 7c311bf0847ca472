--------------------------- MODULE RestCallProofs ---------------------------
(***************************************************************************)
(* What RestCall promises, for any clients whose operations keep to its    *)
(* assumptions, any number of calls and any arguments that are not fit.    *)
(***************************************************************************)
EXTENDS RestCall, TLAPS

\* What is being called does not change; the exchange carries out at most what has
\* been sent, once for each call; what comes back tells which it was.
Called ==
    /\ op = Clients[name[1]][name[2]]
    /\ DOMAIN args = op.takes
    /\ at = "done" <=> outcome # "waiting"
    /\ at \in {"sent", "answered"} \/ Underway =>
          Service.over = "http" /\ request = create_request /\ Accepts(op, args)
    /\ at = "client" => ~carried /\ request = Nothing
    /\ ~carried => effects < calls
    /\ at = "answered" => reply \in Gateway \cup (IF carried THEN Acceptances ELSE Refused)

IInv == TypeOK /\ Called /\ OutcomeTellsEffect /\ PlacedOnce

-----------------------------------------------------------------------------
(* The answer.                                                             *)

\* check_response lets no refusal pass, and calls no acceptance a refusal.
LEMMA Verdict ==
    ASSUME NEW r
    PROVE  /\ r \in Refused => check_response(r) \in {"ExecuteError", "TypeError"} /\ r.kind = "json"
           /\ r \in Acceptances =>
                check_response(r) = "pass" /\ r.kind = "json" /\ r.data \in Data \cup {"absent"}
           /\ r \in Gateway /\ r.kind # "text" => check_response(r) \in Open \ {"ConnectionError"}
<1>1. r \in Refused => check_response(r) \in {"ExecuteError", "TypeError"} /\ r.kind = "json"
  BY DEF Refused, check_response, Executing, Reply, etf_result_check
<1>2. r \in Acceptances => check_response(r) = "pass" /\ r.kind = "json" /\ r.data \in Data \cup {"absent"}
  <2> SUFFICES ASSUME r \in Acceptances
               PROVE  check_response(r) = "pass" /\ r.kind = "json" /\ r.data \in Data \cup {"absent"}
    OBVIOUS
  <2>1. CASE \E d \in Data \cup {"absent"} : r = Reply("ok", "absent", "absent", "text", d)
    BY <2>1 DEF Reply, check_response
  <2>2. CASE \E d \in Data \cup {"absent"} : r = Reply("absent", "200", "absent", "text", d)
    BY <2>2 DEF Reply, check_response
  <2>3. CASE r = Reply("absent", "200", "true", "text", "dict")
    BY <2>3 DEF Reply, check_response, Data
  <2>4. CASE r = Reply("page", "absent", "absent", "text", "dict")
    BY <2>4 DEF Reply, check_response, Data
  <2> QED
    BY <2>1, <2>2, <2>3, <2>4 DEF Acceptances
<1>3. r \in Gateway /\ r.kind # "text" => check_response(r) \in Open \ {"ConnectionError"}
  BY DEF Gateway, check_response, Executing, Reply, etf_result_check, Open
<1> QED
  BY <1>1, <1>2, <1>3

-----------------------------------------------------------------------------
(* The requests.                                                           *)

\* A parameter that passes as it is is in the request, unless it is None.
LEMMA Passed ==
    ASSUME DOMAIN args = op.takes, NEW k, Passes(op, k)
    PROVE  /\ k \in DOMAIN Params(op, args) /\ Params(op, args)[k] = args[op.sends[k]]
           /\ k \in DOMAIN op.sends
           /\ args[op.sends[k]] # "none" =>
                k \in DOMAIN create_request.params /\ create_request.params[k] = args[op.sends[k]]
<1>1. k \in DOMAIN op.sends /\ op.sends[k] \in DOMAIN args /\ op.sends[k] \notin op.defaults
      /\ \A w \in op.withheld : w.arg # op.sends[k]
  BY DEF Passes
<1>2. Params(op, args)[k] = args[op.sends[k]] /\ k \in DOMAIN Params(op, args)
  BY <1>1 DEF Params, Argument
<1>3. ASSUME args[op.sends[k]] # "none"
      PROVE  k \in DOMAIN create_request.params /\ create_request.params[k] = args[op.sends[k]]
  <2> DEFINE params == Params(op, args)
             put == {j \in DOMAIN params : params[j] # "none" \/ Service.batch}
  <2>1. create_request.params = [j \in put |-> params[j]]
    BY DEF create_request
  <2>2. k \in put
    BY <1>2, <1>3
  <2> QED
    BY <2>1, <2>2, <1>2
<1> QED
  BY <1>1, <1>2, <1>3

\* An order with a client's id reaches the exchange with it.
LEMMA OrderIsIdentified ==
    ASSUME IInv, Service.over = "http", Service.path \in Orders, args["client_order_id"] # "none"
    PROVE  Identified(create_request)
<1>1. PICK k \in ClientIds : Passes(op, k) /\ op.sends[k] = "client_order_id"
  BY IdAssumption DEF IInv, TypeOK, Called, Service
<1>2. k \in DOMAIN create_request.params /\ create_request.params[k] # "none"
  BY <1>1, Passed DEF IInv, Called
<1> QED
  BY <1>1, <1>2 DEF Identified

-----------------------------------------------------------------------------
(* The invariant.                                                          *)

LEMMA Start == Init => IInv
<1> SUFFICES ASSUME Init PROVE IInv
  OBVIOUS
<1>1. name \in Names /\ op = Clients[name[1]][name[2]]
  BY DEF Init
<1>2. DOMAIN args = op.takes
  BY DEF Init, Calls
<1>3. at = "client" /\ effects = 0 /\ calls = 1 /\ outcome = "waiting" /\ request = Nothing
  BY DEF Init
<1>4. ~carried /\ carried \in BOOLEAN /\ keyed \in BOOLEAN
  BY DEF Init
<1>5. /\ \A i \in DOMAIN op.checks : op.checks[i].raises \subseteq {"InputError", "AttributeError", "TypeError"}
      /\ Service.over = "http" =>
            Service.parse \in [Data -> {"value", "none", "error"}] /\ Service.unset \in Data
  BY <1>1, ClientsAssumption DEF Service
<1>6. effects \in 0..calls /\ calls \in 1..MaxCalls
  BY <1>3, BoundAssumption
<1>7. TypeOK
  BY <1>1, <1>3, <1>5, <1>4, <1>6 DEF TypeOK, Outcomes
<1>8. Called
  <2>1. effects < calls
    BY <1>3
  <2> QED
    BY <1>1, <1>2, <1>3, <1>4, <2>1 DEF Called, Underway, Open
<1>9. OutcomeTellsEffect /\ PlacedOnce
  <2>1. effects <= 1
    BY <1>3
  <2> QED
    BY <1>3, <2>1 DEF OutcomeTellsEffect, PlacedOnce
<1> QED
  BY <1>7, <1>8, <1>9 DEF IInv

\* The operation and the arguments stay: so do what follows from them.
LEMMA SameRequest ==
    ASSUME UNCHANGED <<op, args>>
    PROVE  create_request' = create_request /\ Accepts(op, args)' = Accepts(op, args) /\ Service' = Service
<1>1. Params(op, args)' = Params(op, args)
  BY DEF Params, Argument, Matches
<1>2. Service' = Service
  BY DEF Service
<1>3. create_request' = create_request
  BY <1>1, <1>2 DEF create_request
<1>4. Accepts(op, args)' = Accepts(op, args)
  BY DEF Accepts, Matches, Argument
<1> QED
  BY <1>2, <1>3, <1>4

\* What the client makes of the answer: after a refusal nothing was done, and the call
\* returns only when it was.
Answered ==
    /\ outcome' \in (Open \ {"ConnectionError"}) \cup {"ExecuteError", "value", "none"}
    /\ outcome' = "ExecuteError" => ~carried
    /\ outcome' \in {"value", "none"} => carried

LEMMA Answers == IInv /\ Receive => Answered
<1> SUFFICES ASSUME IInv, Receive PROVE Answered
  OBVIOUS
<1> DEFINE parsed == Service.parse[IF reply.data = "absent" THEN Service.unset ELSE reply.data]
<1>1. \/ reply.kind = "text" /\ outcome' = "JSONDecodeError"
      \/ reply.kind # "text" /\ check_response(reply) # "pass" /\ outcome' = check_response(reply)
      \/ /\ reply.kind # "text" /\ check_response(reply) = "pass"
         /\ outcome' \in IF parsed = "error" THEN {"AttributeError", "TypeError"} ELSE {parsed}
  BY DEF Receive, Done
<1>2. Service.over = "http" /\ reply \in Gateway \cup (IF carried THEN Acceptances ELSE Refused)
  BY DEF IInv, Called, Underway, Receive
<1>3. ASSUME reply.data \in Data \cup {"absent"} PROVE parsed \in {"value", "none", "error"}
  BY <1>2, <1>3 DEF IInv, TypeOK
<1> HIDE DEF parsed
<1>4. CASE reply \in Gateway
  <2>1. reply.kind # "text" => check_response(reply) \in Open \ {"ConnectionError"}
    BY <1>4, Verdict
  <2> QED
    BY <1>1, <2>1 DEF Answered, Open
<1>5. CASE carried /\ reply \in Acceptances
  <2>1. check_response(reply) = "pass" /\ reply.kind = "json" /\ reply.data \in Data \cup {"absent"}
    BY <1>5, Verdict
  <2>2. outcome' \in {"AttributeError", "TypeError", "value", "none"}
    BY <1>1, <1>3, <2>1
  <2> QED
    BY <1>5, <2>2 DEF Answered, Open
<1>6. CASE ~carried /\ reply \in Refused
  <2>1. check_response(reply) \in {"ExecuteError", "TypeError"} /\ reply.kind = "json"
    BY <1>6, Verdict
  <2> QED
    BY <1>1, <1>6, <2>1 DEF Answered, Open
<1> QED
  BY <1>2, <1>4, <1>5, <1>6

LEMMA Step == IInv /\ [Next]_vars => IInv'
<1> SUFFICES ASSUME IInv, [Next]_vars PROVE IInv'
  OBVIOUS
<1> USE DEF IInv
<1>1. CASE Refuse
  <2>1. at = "client" /\ ~carried /\ request = Nothing
    BY <1>1 DEF Refuse, Called
  <2>2. outcome' \in {"InputError", "AttributeError", "TypeError"} /\ at' = "done"
    BY <1>1 DEF Refuse, Done, TypeOK
  <2>3. UNCHANGED <<name, op, args, keyed, request, reply, carried, effects, calls, Service>>
    BY <1>1 DEF Refuse, Service
  <2>4. TypeOK'
    BY <2>2, <2>3 DEF TypeOK, Outcomes, Service
  <2>5. Called'
    BY <2>1, <2>2, <2>3 DEF Called, Underway
  <2> QED
    BY <2>1, <2>2, <2>3, <2>4, <2>5 DEF OutcomeTellsEffect, PlacedOnce
<1>2. CASE Subscribe
  <2>1. at = "client" /\ ~carried
    BY <1>2 DEF Subscribe, Called
  <2>2. outcome' = "subscribed" /\ at' = "done"
    BY <1>2 DEF Subscribe, Done
  <2>3. UNCHANGED <<name, op, args, keyed, reply, carried, effects, calls, Service>>
    BY <1>2 DEF Subscribe, Service
  <2>4. TypeOK'
    BY <2>2, <2>3 DEF TypeOK, Outcomes, Service
  <2>5. Called'
    BY <2>2, <2>3 DEF Called, Underway, Open
  <2> QED
    BY <2>1, <2>2, <2>3, <2>4, <2>5 DEF OutcomeTellsEffect, PlacedOnce
<1>3. CASE Send
  <2>1. at = "client" /\ ~carried /\ Accepts(op, args) /\ Service.over = "http"
    BY <1>3 DEF Send, Called
  <2>2. UNCHANGED <<name, op, args, keyed, reply, carried, effects, calls, Service>>
    BY <1>3 DEF Send, Service
  <2>3. \/ outcome' = "KeyMissing" /\ at' = "done"
        \/ outcome' = outcome /\ at' = "sent" /\ request' = create_request
    BY <1>3 DEF Send, Done
  <2>4. TypeOK'
    BY <2>2, <2>3 DEF TypeOK, Outcomes, Service
  <2>5. Called'
    BY <2>1, <2>2, <2>3, SameRequest DEF Called, Underway, Open
  <2> QED
    BY <2>1, <2>2, <2>3, <2>4, <2>5 DEF OutcomeTellsEffect, PlacedOnce
<1>4. CASE CarryOut
  <2>1. /\ Underway /\ ~carried /\ carried' = TRUE
        /\ ~(Service.path \in Orders /\ Identified(request) /\ effects > 0)
        /\ effects' = effects \/ effects' = effects + 1
    BY <1>4 DEF CarryOut
  <2>2. UNCHANGED <<name, op, args, keyed, at, request, reply, calls, outcome, Service>>
    BY <1>4 DEF CarryOut, Service
  <2>3. Service.over = "http" /\ request = create_request /\ effects < calls
    BY <2>1 DEF Called, Underway
  <2>4. TypeOK'
    BY <2>1, <2>2, <2>3 DEF TypeOK, Service
  <2>5. Called'
    <3>1. at # "client" /\ at # "answered"
      BY <2>1 DEF Called, Underway, Open
    <3>2. (Service.over = "http" /\ request = create_request /\ Accepts(op, args))'
      BY <2>1, <2>2, SameRequest DEF Called
    <3> QED
      BY <2>1, <2>2, <3>1, <3>2 DEF Called
  <2>6. PlacedOnce'
    <3> SUFFICES ASSUME Service.path \in Orders, args["client_order_id"] # "none"
                 PROVE  effects' <= 1
      BY <2>2 DEF PlacedOnce
    <3>1. Identified(request)
      BY <2>3, OrderIsIdentified
    <3> QED
      BY <2>1, <3>1 DEF TypeOK
  <2> QED
    BY <2>1, <2>2, <2>4, <2>5, <2>6 DEF OutcomeTellsEffect, Underway, Open
<1>5. CASE Answer
  <2>1. /\ at = "sent" /\ at' = "answered"
        /\ reply' \in Gateway \cup (IF carried THEN Acceptances ELSE Refused)
    BY <1>5 DEF Answer
  <2>2. UNCHANGED <<name, op, args, keyed, request, carried, effects, calls, outcome, Service>>
    BY <1>5 DEF Answer, Service
  <2>3. TypeOK'
    BY <2>1, <2>2 DEF TypeOK, Service
  <2>4. Called'
    <3>1. (reply \in Gateway \cup (IF carried THEN Acceptances ELSE Refused))'
      BY <2>1, <2>2 DEF Gateway, Acceptances, Refused
    <3> QED
      BY <2>1, <2>2, <3>1, SameRequest DEF Called, Underway
  <2> QED
    BY <2>1, <2>2, <2>3, <2>4 DEF OutcomeTellsEffect, PlacedOnce
<1>6. CASE Break
  <2>1. at = "sent" /\ outcome' = "ConnectionError" /\ at' = "done"
    BY <1>6 DEF Break, Done
  <2>2. UNCHANGED <<name, op, args, keyed, request, reply, carried, effects, calls, Service>>
    BY <1>6 DEF Break, Service
  <2>3. TypeOK'
    BY <2>1, <2>2 DEF TypeOK, Outcomes, Service
  <2>4. Called'
    <3>1. Service.over = "http" /\ request = create_request /\ Accepts(op, args)
      BY <2>1 DEF Called
    <3>2. (Service.over = "http" /\ request = create_request /\ Accepts(op, args))'
      BY <2>2, <3>1, SameRequest
    <3> QED
      BY <2>1, <2>2, <3>2 DEF Called
  <2> QED
    BY <2>1, <2>2, <2>3, <2>4 DEF OutcomeTellsEffect, PlacedOnce
<1>7. CASE Receive
  <2>1. at = "answered" /\ at' = "done"
    BY <1>7 DEF Receive, Done
  <2>2. UNCHANGED <<name, op, args, keyed, request, reply, carried, effects, calls, Service>>
    BY <1>7 DEF Receive, Service
  <2>3. Service.over = "http" /\ reply \in Gateway \cup (IF carried THEN Acceptances ELSE Refused)
    BY <2>1 DEF Called, Underway
  <2>4. (Service.over = "http" /\ request = create_request /\ Accepts(op, args))'
    <3>1. Service.over = "http" /\ request = create_request /\ Accepts(op, args)
      BY <2>1 DEF Called
    <3> QED
      BY <2>2, <3>1, SameRequest
  <2>5. Answered
    BY <1>7, Answers
  <2>6. Called'
    BY <2>1, <2>2, <2>4, <2>5 DEF Called, Answered, Open
  <2>7. OutcomeTellsEffect'
    BY <2>2, <2>3, <2>5 DEF Answered, OutcomeTellsEffect, Open
  <2> QED
    BY <2>1, <2>2, <2>5, <2>6, <2>7 DEF TypeOK, PlacedOnce, Answered, Open, Outcomes, Service
<1>8. CASE Repeat
  <2>1. /\ at' = "client" /\ outcome' = "waiting" /\ calls' = calls + 1 /\ calls < MaxCalls
        /\ ~carried' /\ carried' \in BOOLEAN /\ request' = Nothing
    BY <1>8 DEF Repeat
  <2>2. UNCHANGED <<name, op, args, keyed, effects, Service>>
    BY <1>8 DEF Repeat, Service
  <2>3. effects' \in 0..calls' /\ effects' < calls' /\ calls' \in 1..MaxCalls
    <3>1. effects \in 0..calls /\ calls \in 1..MaxCalls
      BY DEF TypeOK
    <3> QED
      BY <2>1, <2>2, <3>1, BoundAssumption
  <2>4. TypeOK'
    BY <2>1, <2>2, <2>3 DEF TypeOK, Outcomes, Service
  <2>5. Called'
    BY <2>1, <2>2, <2>3 DEF Called, Underway, Open, Nothing
  <2> QED
    BY <2>1, <2>2, <2>4, <2>5 DEF OutcomeTellsEffect, PlacedOnce
<1>9. CASE UNCHANGED vars
  <2>1. UNCHANGED <<name, op, args, keyed, at, request, reply, carried, effects, calls, outcome, Service>>
    BY <1>9 DEF vars, Service
  <2>2. Underway' = Underway
    BY <2>1 DEF Underway
  <2>3. Called'
    BY <2>1, <2>2, SameRequest DEF Called, Gateway, Acceptances, Refused
  <2> QED
    BY <2>1, <2>3 DEF TypeOK, OutcomeTellsEffect, PlacedOnce, Service
<1> QED
  BY <1>1, <1>2, <1>3, <1>4, <1>5, <1>6, <1>7, <1>8, <1>9 DEF Next

\* The inductive invariant.
THEOREM Invariant == Spec => []IInv
  BY Start, Step, PTL DEF Spec

\* The types.
THEOREM TypeCorrect == Spec => []TypeOK
  BY Invariant, PTL DEF IInv

\* The caller may rely on the outcome of every call of every operation: an InputError or
\* an error of execution means nothing was done, a result that it was.
THEOREM CallerMayTrust == Spec => []OutcomeTellsEffect
  BY Invariant, PTL DEF IInv

\* However often a call fails half-way and is repeated, an order with a client's id is
\* placed at most once.
THEOREM OrdersPlacedOnce == Spec => []PlacedOnce
  BY Invariant, PTL DEF IInv

\* What goes into a path has been checked: the check of the operation refuses None, so
\* a request that was sent has none there.
LEMMA Guarded == IInv => PathIsWhole
<1> SUFFICES ASSUME IInv, at = "sent", name \notin Unguarded, NEW k \in DOMAIN request.path
             PROVE  request.path[k] # "none"
  BY DEF PathIsWhole
<1>1. Service.over = "http" /\ request = create_request /\ Accepts(op, args) /\ DOMAIN args = op.takes
  BY DEF IInv, Called
<1>2. request.path = [j \in Service.seg |-> Params(op, args)[j]]
  BY <1>1 DEF create_request
<1>3. k \in Service.seg /\ request.path[k] = Params(op, args)[k]
  BY <1>2
<1>4. /\ Passes(op, k)
      /\ \E i \in DOMAIN op.checks :
            DOMAIN op.checks[i].refuses = {op.sends[k]} /\ "none" \in op.checks[i].refuses[op.sends[k]]
  BY <1>1, <1>3, GuardAssumption DEF IInv, TypeOK, Called, Service
<1>5. PICK i \in DOMAIN op.checks :
            DOMAIN op.checks[i].refuses = {op.sends[k]} /\ "none" \in op.checks[i].refuses[op.sends[k]]
  BY <1>4
<1>6. op.sends[k] \in DOMAIN args
  BY <1>1, <1>4 DEF Passes
<1>7. args[op.sends[k]] \notin op.checks[i].refuses[op.sends[k]]
  BY <1>1, <1>5, <1>6 DEF Accepts, Matches, Argument
<1> QED
  BY <1>1, <1>3, <1>4, <1>5, <1>7, Passed

\* No request that is sent names a None in its path.
THEOREM PathsAreWhole == Spec => []PathIsWhole
  BY Invariant, Guarded, PTL

-----------------------------------------------------------------------------
(* What is sent.                                                           *)

\* A refusal before anything was sent is one of the checks'.
Given ==
    at = "done" /\ (outcome = "InputError" \/ (outcome \in {"AttributeError", "TypeError"} /\ request = Nothing))
        => ~Accepts(op, args)

\* What follows from the operation and its arguments stays.
LEMMA StepGiven == IInv /\ Given /\ [Next]_vars => Given'
<1> SUFFICES ASSUME IInv, Given, [Next]_vars PROVE Given'
  OBVIOUS
<1>1. UNCHANGED <<op, args>>
  BY DEF Next, Refuse, Subscribe, Send, CarryOut, Answer, Break, Receive, Repeat, vars
<1>2. Service' = Service /\ Accepts(op, args)' = Accepts(op, args)
  BY <1>1, SameRequest
<1>3. CASE Refuse
  BY <1>2, <1>3 DEF Refuse, Refuses, Accepts, Given
<1>4. CASE Subscribe
  BY <1>4 DEF Subscribe, Done, Given
<1>5. CASE Send
  BY <1>2, <1>5 DEF Send, Done, Given, IInv, Called
<1>6. CASE CarryOut
  BY <1>2, <1>6 DEF CarryOut, Given
<1>7. CASE Answer
  BY <1>7 DEF Answer, Given, IInv, Called
<1>8. CASE Break
  BY <1>8 DEF Break, Done, Given
<1>9. CASE Receive
  <2>1. request' = request /\ request = create_request
    BY <1>9 DEF Receive, IInv, Called
  <2>2. request' # Nothing
    <3>1. request.kind = "http" /\ Nothing.kind = "none"
      BY <2>1 DEF create_request, Nothing
    <3> QED
      BY <2>1, <3>1
  <2>3. outcome' # "InputError"
    BY <1>9, Answers DEF Answered, Open
  <2> QED BY <2>2, <2>3 DEF Given
<1>10. CASE Repeat
  BY <1>10 DEF Repeat, Given
<1>11. CASE UNCHANGED vars
  BY <1>2, <1>11 DEF vars, Given
<1> QED
  BY <1>3, <1>4, <1>5, <1>6, <1>7, <1>8, <1>9, <1>10, <1>11 DEF Next

\* No check refuses a use that is documented.
LEMMA Welcome == IInv /\ Given => DocumentedUseIsSent
<1>1. ASSUME IInv, Documented PROVE Accepts(op, args)
  <2>1. name \in Names /\ op = Clients[name[1]][name[2]] /\ DOMAIN args = op.takes
    BY <1>1 DEF IInv, TypeOK, Called
  <2> SUFFICES ASSUME NEW i \in DOMAIN op.checks PROVE ~Matches(args, op.checks[i].refuses)
    BY DEF Accepts
  <2> DEFINE refused == op.checks[i].refuses
  <2>2. Harmless(name, op, refused)
    BY <2>1, CheckAssumption
  <2> HIDE DEF refused
  <2>3. PICK a \in DOMAIN refused :
          IF a \in op.takes
          THEN \A v \in refused[a] :
                  \/ v = "unfit" \/ <<name, a, v>> \in Refusing
                  \/ v = "none" /\ IF <<name, a>> \in DOMAIN Needed
                                   THEN \A b \in DOMAIN Needed[<<name, a>>] :
                                           b \in DOMAIN refused /\ refused[b] \subseteq Needed[<<name, a>>][b]
                                   ELSE a \in op.required
          ELSE "fit" \notin refused[a]
    BY <2>2 DEF Harmless
  <2>4. CASE a \in op.takes
    <3> SUFFICES ASSUME Matches(args, refused) PROVE FALSE
      BY DEF refused
    <3>1. \A b \in DOMAIN refused : Argument(args, b) \in refused[b]
      BY DEF Matches
    <3>2. args[a] \in refused[a] /\ a \in DOMAIN args
      BY <2>1, <2>4, <3>1 DEF Argument
    <3>3. args[a] # "unfit" /\ <<name, a, args[a]>> \notin Refusing
      BY <1>1, <3>2 DEF Documented
    <3>4. args[a] = "none"
      BY <2>3, <2>4, <3>2, <3>3
    <3>5. ~Mandatory(name, op, a, args)
      BY <1>1, <3>2, <3>4 DEF Documented
    <3>6. CASE <<name, a>> \in DOMAIN Needed
      <4>1. \A b \in DOMAIN Needed[<<name, a>>] :
              b \in DOMAIN refused /\ refused[b] \subseteq Needed[<<name, a>>][b]
        BY <2>3, <2>4, <3>2, <3>3, <3>6
      <4>2. Matches(args, Needed[<<name, a>>])
        BY <3>1, <4>1 DEF Matches
      <4> QED BY <3>5, <3>6, <4>2 DEF Mandatory
    <3>7. CASE <<name, a>> \notin DOMAIN Needed
      BY <2>3, <2>4, <3>2, <3>3, <3>5, <3>7 DEF Mandatory
    <3> QED BY <3>6, <3>7
  <2>5. CASE a \notin op.takes
    BY <2>1, <2>3, <2>5 DEF Matches, Argument, refused
  <2> QED BY <2>4, <2>5
<1>2. ASSUME IInv, Given, at = "done", Documented
      PROVE  outcome # "InputError" /\ (outcome \in {"AttributeError", "TypeError"} => request # Nothing)
  BY <1>1, <1>2 DEF Given
<1> QED BY <1>2 DEF DocumentedUseIsSent

\* No check of the clients stands in the way of a use they document, in clients each
\* of whose checks refuses only what the documentation does not allow.
THEOREM DocumentedUseWorks == Spec => []DocumentedUseIsSent
<1>1. Init => Given
  BY DEF Init, Given
<1> QED BY <1>1, Invariant, StepGiven, Welcome, PTL DEF Spec

-----------------------------------------------------------------------------
(* The refinement.                                                         *)

\* Every step of RestCall is one of Call's, or changes nothing it speaks of.
LEMMA StepOfCall == IInv /\ IInv' /\ [Next]_vars => [Caller!Next]_<<carried, Knows>>
<1> SUFFICES ASSUME IInv, IInv', [Next]_vars PROVE [Caller!Next]_<<carried, Knows>>
  OBVIOUS
<1> USE DEF IInv
<1>1. at = "done" <=> outcome # "waiting"
  BY DEF Called
<1>2. (at = "done" <=> outcome # "waiting")' /\ outcome' \in Outcomes
  BY DEF Called, TypeOK, Outcomes
<1>3. ASSUME at # "done", at' = "done", UNCHANGED carried
      PROVE  Caller!Next
  <2>1. Knows = "open"
    BY <1>1, <1>3 DEF Knows
  <2>2. CASE outcome' \in Open
    <3>1. Knows' = "unknown"
      BY <2>2 DEF Knows, Open
    <3> QED
      BY <1>3, <2>1, <3>1 DEF Caller!Next, Caller!Learn
  <2>3. CASE outcome' \in {"value", "none"}
    <3>1. Knows' = "done"
      BY <2>3 DEF Knows, Open
    <3>2. carried
      BY <1>3, <2>3 DEF OutcomeTellsEffect
    <3> QED
      BY <1>3, <2>1, <3>1, <3>2 DEF Caller!Next, Caller!Learn
  <2>4. CASE outcome' \in {"InputError", "KeyMissing", "subscribed", "ExecuteError"}
    <3>1. Knows' = "nothing"
      BY <2>4 DEF Knows, Open
    <3>2. ~carried
      BY <1>3, <2>4 DEF OutcomeTellsEffect
    <3> QED
      BY <1>3, <2>1, <3>1, <3>2 DEF Caller!Next, Caller!Learn
  <2> QED
    BY <1>2, <1>3, <2>2, <2>3, <2>4 DEF Outcomes, Open
<1>4. ASSUME UNCHANGED <<carried, outcome>>
      PROVE  UNCHANGED <<carried, Knows>>
  BY <1>4 DEF Knows
<1>5. CASE Refuse \/ Subscribe \/ Break \/ Receive
  BY <1>3, <1>5 DEF Refuse, Subscribe, Break, Receive, Done
<1>6. CASE Send
  BY <1>3, <1>4, <1>6 DEF Send, Done
<1>7. CASE CarryOut
  <2>1. ~carried /\ carried' = TRUE /\ outcome' = outcome /\ Underway
    BY <1>7 DEF CarryOut
  <2>2. Knows \in {"open", "unknown"} /\ Knows' = Knows
    BY <1>1, <2>1 DEF Underway, Knows, Open
  <2> QED
    BY <2>1, <2>2 DEF Caller!Next, Caller!CarryOut
<1>8. CASE Answer
  BY <1>4, <1>8 DEF Answer
<1>9. CASE Repeat
  <2>1. outcome \in Open /\ outcome' = "waiting" /\ carried' = FALSE
    BY <1>9 DEF Repeat
  <2>2. Knows = "unknown" /\ Knows' = "open"
    BY <2>1 DEF Knows, Open
  <2> QED
    BY <2>1, <2>2 DEF Caller!Next, Caller!Repeat
<1>10. CASE UNCHANGED vars
  BY <1>4, <1>10 DEF vars
<1> QED
  BY <1>5, <1>6, <1>7, <1>8, <1>9, <1>10 DEF Next

\* RestCall implements Call.
THEOREM CallsAreCalls == Spec => ImplementsCall
<1>1. Init => Caller!Init
  BY DEF Init, Caller!Init, Knows
<1> QED
  BY <1>1, Invariant, StepOfCall, PTL DEF Spec, Caller!Spec, ImplementsCall
=============================================================================
