------------------------------ MODULE RestCall ------------------------------
(***************************************************************************)
(* One call of an operation of a client, and its repetitions: the checks   *)
(* of the arguments, the request RestApiSyncClient makes of them, the      *)
(* exchange and the network (external), check_response and the parser of   *)
(* the service.  A feed's call ends when its connection is handed over (to *)
(* WsConnection and WsSession).                                            *)
(*                                                                         *)
(* The caller repeats a call, with the same arguments, when its outcome    *)
(* leaves open whether the exchange has carried it out.                    *)
(***************************************************************************)
EXTENDS RestApi, FiniteSets, FiniteSetsExt

CONSTANTS
    Clients,  \* the clients: from their names to their operations
    MaxOff,   \* bound on the arguments of a call that are not fit
    MaxCalls, \* bound on the times a call is made
    Kept,     \* arguments that are not meant to reach the exchange: <<operation, argument>>
    Unguarded,\* operations that do not check what they put into the path
    Needed,   \* the calls in which the documentation asks for an argument, where it
              \* says more than the signature: from <<operation, argument>>
    Refusing  \* arguments that the code refuses although the documentation allows
              \* them: <<operation, argument, value>>

\* An operation is named by its client and its method.
Names == UNION {{<<c, o>> : o \in DOMAIN Clients[c]} : c \in DOMAIN Clients}

ASSUME BoundAssumption == MaxOff \in Nat /\ MaxCalls \in Nat \ {0}
ASSUME ClientsAssumption ==
    \A n \in Names : LET o == Clients[n[1]][n[2]] IN
        /\ \A i \in DOMAIN o.checks : o.checks[i].raises \subseteq {"InputError", "AttributeError", "TypeError"}
        /\ o.by.over = "http" =>
              o.by.parse \in [Data -> {"value", "none", "error"}] /\ o.by.unset \in Data

\* The services by which an order is created, with the client's id if it has one
Orders == {"/v1/order/orders/place", "/v1/order/batch-orders", "/v2/algo-orders"}
ClientIds == {"client-order-id", "clientOrderId"}

\* The parameter k of a request is the argument as it was given.
Passes(o, k) ==
    /\ k \in DOMAIN o.sends /\ o.sends[k] \in o.takes \ o.defaults
    /\ \A w \in o.withheld : w.arg # o.sends[k]

ASSUME IdAssumption ==
    \A n \in Names : LET o == Clients[n[1]][n[2]] IN
        o.by.over = "http" /\ o.by.path \in Orders =>
            \E k \in ClientIds : Passes(o, k) /\ o.sends[k] = "client_order_id"

ASSUME GuardAssumption ==
    \A n \in Names \ Unguarded : LET o == Clients[n[1]][n[2]] IN
        o.by.over = "http" =>
            \A k \in o.by.seg :
                /\ Passes(o, k)
                /\ \E i \in DOMAIN o.checks : LET refused == o.checks[i].refuses IN
                      DOMAIN refused = {o.sends[k]} /\ "none" \in refused[o.sends[k]]

\* The documentation of the operation asks for the argument, in a call with these.
Mandatory(n, o, a, v) ==
    IF <<n, a>> \in DOMAIN Needed THEN Matches(v, Needed[<<n, a>>]) ELSE a \in o.required

\* A check refuses no use that is documented: of one of the arguments it looks at it
\* refuses only what the documentation does not allow either, or what Refusing names.
Harmless(n, o, refused) ==
    \E a \in DOMAIN refused :
        IF a \in o.takes
        THEN \A v \in refused[a] :
                \/ v = "unfit" \/ <<n, a, v>> \in Refusing
                \/ v = "none" /\ IF <<n, a>> \in DOMAIN Needed
                                 THEN \A b \in DOMAIN Needed[<<n, a>>] :
                                         b \in DOMAIN refused /\ refused[b] \subseteq Needed[<<n, a>>][b]
                                 ELSE a \in o.required
        ELSE "fit" \notin refused[a]

ASSUME CheckAssumption ==
    \A n \in Names : LET o == Clients[n[1]][n[2]] IN
        \A i \in DOMAIN o.checks : Harmless(n, o, o.checks[i].refuses)

VARIABLES
    name,     \* the name of the operation
    op,       \* and the operation
    args,     \* its arguments
    keyed,    \* whether the client has the API keys
    at,       \* "client", "sent", "answered", "done"
    request,  \* what was sent
    reply,    \* what came back
    carried,  \* whether the exchange has carried out this call
    effects,  \* how often it has carried out what was asked, this call and before
    calls,    \* the calls made
    outcome   \* what the caller sees: an exception, or "value", "none", "subscribed"

vars == <<name, op, args, keyed, at, request, reply, carried, effects, calls, outcome>>

Nothing == [kind |-> "none"]
NoReply == [kind |-> "none"]
Service == op.by
Done(result) == at' = "done" /\ outcome' = result

-----------------------------------------------------------------------------
(* Calls: all arguments fit, but for at most MaxOff; or only what has no   *)
(* default is given.                                                       *)

Off(a) ==
    {"none", "unfit"} \cup (IF a = "order_type" THEN {"market", "limit"} ELSE {})
    \cup (IF a \in {"symbol", "symbols", "currency", "etf_name"} THEN {"crooked"} ELSE {})

Calls(o) ==
    LET takes == o.takes
        Except(off) == [a \in takes |-> IF a \in DOMAIN off THEN off[a] ELSE "fit"]
    IN  {[a \in takes |-> IF a \in o.required THEN "fit" ELSE "none"]} \cup
        {Except(off) : off \in UNION {{f \in [S -> Values] : \A a \in S : f[a] \in Off(a)} :
                                      S \in UNION {kSubset(n, takes) : n \in 0..MaxOff}}}

Init ==
    /\ \E n \in Names : name = n /\ op = Clients[n[1]][n[2]]
    /\ args \in Calls(op)
    /\ keyed \in BOOLEAN
    /\ at = "client"
    /\ request = Nothing /\ reply = NoReply
    /\ carried = FALSE /\ effects = 0 /\ calls = 1
    /\ outcome = "waiting"

-----------------------------------------------------------------------------
(* The client.                                                             *)

\* A check refuses the arguments.
Refuse ==
    /\ at = "client"
    /\ \E i \in DOMAIN op.checks : Refuses(op, args, i) /\ \E e \in op.checks[i].raises : Done(e)
    /\ UNCHANGED <<name, op, args, keyed, request, reply, carried, effects, calls>>

\* The service of a feed makes a SubscribeClient or a WebSocketReqClient, which
\* starts a WebsocketManage: nothing is awaited.
Subscribe ==
    /\ at = "client" /\ Accepts(op, args)
    /\ Service.over = "websocket"
    /\ request' = [kind |-> "channel",
                   params |-> [k \in Service.channel.names |-> Params(op, args)[k]]]
    /\ Done("subscribed")
    /\ UNCHANGED <<name, op, args, keyed, reply, carried, effects, calls>>

\* Mutants, here and in the other modules: a definition as a slip would have it.
create_request_NoBody ==
    LET params == Params(op, args)
        put == {k \in DOMAIN params : params[k] # "none" /\ Service.http # "POST_SIGN"}
    IN  [kind |-> "http", path |-> [k \in Service.seg |-> params[k]], params |-> [k \in put |-> params[k]]]

\* put_url, put_post: a parameter that is None is not sent, save in a batch, whose
\* list goes as it is.  The path takes its parameter as it is, None too.
create_request ==
    LET params == Params(op, args)
        put == {k \in DOMAIN params : params[k] # "none" \/ Service.batch}
    IN  [kind |-> "http", path |-> [k \in Service.seg |-> params[k]], params |-> [k \in put |-> params[k]]]

\* create_signature raises without the keys
Signed == Service.http \in {"GET_SIGN", "POST_SIGN"}

Send ==
    /\ at = "client" /\ Accepts(op, args)
    /\ Service.over = "http"
    /\ IF Signed /\ ~keyed
       THEN Done("KeyMissing") /\ UNCHANGED request
       ELSE request' = create_request /\ at' = "sent" /\ UNCHANGED outcome
    /\ UNCHANGED <<name, op, args, keyed, reply, carried, effects, calls>>

-----------------------------------------------------------------------------
(* The exchange and the network (external).                                *)

Acts == Service.http = "POST_SIGN"
\* An order may carry an id of the client's, which is unique: the exchange carries
\* out the first order with it.
Identified(r) == \E k \in ClientIds \cap DOMAIN r.params : r.params[k] # "none"

\* The exchange can make sense of the request.
Sensible(r) ==
    /\ \A k \in DOMAIN r.path : r.path[k] \notin {"none", "unfit", "crooked"}
    /\ \A k \in DOMAIN r.params : r.params[k] \notin {"unfit", "crooked"}

Reply(status, code, success, text, data) ==
    [kind |-> "json", status |-> status, code |-> code, success |-> success, text |-> text, data |-> data]

\* An acceptance: a status (of v1), a code (of v2), a success (of the ETFs), a status page
Acceptances ==
    {Reply("ok", "absent", "absent", "text", d) : d \in Data \cup {"absent"}} \cup
    {Reply("absent", "200", "absent", "text", d) : d \in Data \cup {"absent"}} \cup
    {Reply("absent", "200", "true", "text", "dict"), Reply("page", "absent", "absent", "text", "dict")}

\* A refusal; its text may be null.
Refused ==
    {Reply("error", "absent", "absent", t, "absent") : t \in {"text", "null"}} \cup
    {Reply("absent", "other", s, t, "absent") : s \in {"absent", "false"}, t \in {"text", "null"}} \cup
    {Reply("absent", c, "false", t, "absent") : c \in {"absent", "zero"}, t \in {"text", "null"}} \cup
    {Reply("maintenance", "absent", "absent", "text", "absent")}

\* What is no answer of the exchange's: the page of a gateway, JSON that is no object or
\* says nothing, whose status is a number, or whose code is none.
Gateway ==
    {[kind |-> "text"], [kind |-> "bare"], Reply("absent", "absent", "absent", "text", "absent"),
     Reply("absent", "word", "absent", "text", "absent")} \cup
    {Reply(status, "absent", "absent", "text", "absent") : status \in {"other", "number"}}

\* The caller cannot tell whether the call was carried out.
Open == {"ConnectionError", "JSONDecodeError", "RuntimeError", "TypeError", "AttributeError", "ValueError"}

\* A request that has left may still be carried out when the caller has given up, unless
\* the exchange has answered it.
Underway ==
    \/ at = "sent"
    \/ outcome \in Open /\ request # Nothing /\ reply \in Gateway \cup {NoReply}

CarryOut ==
    /\ Underway /\ ~carried /\ Sensible(request)
    /\ ~(Service.path \in Orders /\ Identified(request) /\ effects > 0)
    /\ carried' = TRUE
    /\ effects' = IF Acts THEN effects + 1 ELSE effects
    /\ UNCHANGED <<name, op, args, keyed, at, request, reply, calls, outcome>>

Answer ==
    /\ at = "sent"
    /\ reply' \in Gateway \cup (IF carried THEN Acceptances ELSE Refused)
    /\ at' = "answered"
    /\ UNCHANGED <<name, op, args, keyed, request, carried, effects, calls, outcome>>

\* The connection breaks, before or after the exchange has seen the request:
\* requests raises, in the caller's thread.
Break ==
    /\ at = "sent"
    /\ Done("ConnectionError")
    /\ UNCHANGED <<name, op, args, keyed, request, reply, carried, effects, calls>>

-----------------------------------------------------------------------------
(* The answer, back in the client.                                         *)

\* str + None raises: the text of a refusal is added to a string
Executing(r) == IF r.text = "null" THEN "TypeError" ELSE "ExecuteError"

\* The status is looked at first, then the code, and then success: so
\* etf_result_check only ever sees a code that is None, which int() refuses, or 0.
etf_result_check_Any(r) == IF r.success = "true" \/ r.code = "zero" THEN "pass" ELSE "TypeError"

etf_result_check(r) ==
    IF r.success = "true" THEN "pass" ELSE IF r.code = "zero" THEN Executing(r) ELSE "TypeError"

\* .get of what is no object, len() of a number and int() of a word raise by themselves.
check_response(r) ==
    IF r.kind = "bare" THEN "AttributeError"
    ELSE IF r.status = "number" THEN "TypeError"
    ELSE IF r.status = "error" THEN Executing(r)
    ELSE IF r.status = "other" THEN "RuntimeError"
    ELSE IF r.status = "maintenance" THEN "ExecuteError"
    ELSE IF r.status \in {"ok", "page"} \/ r.code = "200" THEN "pass"
    ELSE IF r.code = "other" THEN Executing(r)
    ELSE IF r.code = "word" THEN "ValueError"
    ELSE IF r.success # "absent" THEN etf_result_check(r)
    ELSE "RuntimeError"

\* json.loads, check_response, and the parser of the service, which raises an
\* AttributeError or a TypeError: the names that the client's own checks raise.
Receive ==
    /\ at = "answered"
    /\ IF reply.kind = "text" THEN Done("JSONDecodeError")
       ELSE IF check_response(reply) # "pass" THEN Done(check_response(reply))
       ELSE LET parsed == Service.parse[IF reply.data = "absent" THEN Service.unset ELSE reply.data]
            IN  \E result \in IF parsed = "error" THEN {"AttributeError", "TypeError"} ELSE {parsed} :
                    Done(result)
    /\ UNCHANGED <<name, op, args, keyed, request, reply, carried, effects, calls>>

\* The caller calls again.
Repeat ==
    /\ at = "done" /\ outcome \in Open /\ calls < MaxCalls
    /\ at' = "client" /\ outcome' = "waiting" /\ calls' = calls + 1
    /\ request' = Nothing /\ reply' = NoReply /\ carried' = FALSE
    /\ UNCHANGED <<name, op, args, keyed, effects>>

Next == Refuse \/ Subscribe \/ Send \/ CarryOut \/ Answer \/ Break \/ Receive \/ Repeat

Spec == Init /\ [][Next]_vars

-----------------------------------------------------------------------------
(* Properties.                                                             *)

Outcomes == {"waiting", "InputError", "AttributeError", "TypeError", "KeyMissing", "subscribed",
             "ConnectionError", "JSONDecodeError", "RuntimeError", "ExecuteError", "ValueError",
             "value", "none"}

\* The types of the variables.
TypeOK ==
    /\ name \in Names
    /\ \A i \in DOMAIN op.checks : op.checks[i].raises \subseteq {"InputError", "AttributeError", "TypeError"}
    /\ Service.over = "http" =>
          Service.parse \in [Data -> {"value", "none", "error"}] /\ Service.unset \in Data
    /\ keyed \in BOOLEAN /\ carried \in BOOLEAN
    /\ at \in {"client", "sent", "answered", "done"}
    /\ effects \in 0..calls
    /\ calls \in 1..MaxCalls
    /\ outcome \in Outcomes

\* What the caller may conclude from the end of a call (restapi_invoker.py, with the
\* checks of the clients before it and the parsers behind it): after an InputError, a
\* missing key or an error of execution the exchange has done nothing; when the call
\* returns, it has done what was asked.  An AttributeError or a TypeError tells nothing:
\* the client's own and a parser's, of a transfer that was made, are the same to him.
OutcomeTellsEffect ==
    at = "done" =>
        /\ outcome \in {"InputError", "KeyMissing", "subscribed", "ExecuteError"} => ~carried
        /\ outcome \in {"value", "none"} => carried

\* An order with a client's id is placed at most once, however often the call fails
\* half-way and is made again: the id reaches the exchange on every path by which an
\* order is created (trade.py create_order and its variants, the batch, algo.py).
PlacedOnce ==
    Service.over = "http" =>
        (Service.path \in Orders /\ args["client_order_id"] # "none" => effects <= 1)

GivenAway == at = "sent" \/ outcome = "subscribed"

\* What the caller gives is in the request or the channel, under a key of its own and as
\* it was given, whatever else is given (the dictionaries of the clients, put_url and
\* put_post, the channels).  Dropped on purpose are the price of a market order and, for
\* a default, a depth there is none of; the callback stays here; Kept is the rest.
CarriesArguments ==
    GivenAway =>
        \A a \in DOMAIN args \ {"callback"} :
            \/ args[a] = "none" \/ <<name, a>> \in Kept
            \/ a \in {"price", "order_price"} /\ args["order_type"] = "market"
            \/ \E k \in DOMAIN request.params :
                    /\ op.sends[k] = a
                    /\ request.params[k] = args[a] \/ (args[a] = "unfit" /\ a \in op.defaults)

\* No request names an order, an account, a loan "None" in its path: the clients check
\* for None what the services format into it, but for the operations in Unguarded.
PathIsWhole ==
    at = "sent" /\ name \notin Unguarded => \A k \in DOMAIN request.path : request.path[k] # "none"

\* A call with the keys, with arguments as the documentation of the operation asks and
\* all those it asks for, is sent: no check of the clients stands in the way of a use
\* they document, but for those in Refusing.
Documented ==
    /\ keyed
    /\ \A a \in DOMAIN args :
        /\ args[a] \notin {"unfit", "crooked"} /\ (args[a] = "none" => ~Mandatory(name, op, a, args))
        /\ <<name, a, args[a]>> \notin Refusing
DocumentedUseIsSent ==
    at = "done" /\ Documented =>
        outcome # "InputError" /\ (outcome \in {"AttributeError", "TypeError"} => request # Nothing)

\* What the caller knows of the call
Knows ==
    IF outcome = "waiting" THEN "open"
    ELSE IF outcome \in Open THEN "unknown"
    ELSE IF outcome \in {"value", "none"} THEN "done" ELSE "nothing"

Caller == INSTANCE Call WITH done <- carried, known <- Knows

\* Every call of every operation is a Call: whatever the client, the network and the
\* exchange do, what the caller concludes from the outcome is true and stays true.
ImplementsCall == Caller!Spec
=============================================================================
