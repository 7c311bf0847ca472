------------------------------ MODULE WsSession ------------------------------
(***************************************************************************)
(* The conversation of one WebsocketManage with the server: on_open, the   *)
(* handshake on the trading lines, the subscription handler of a service,  *)
(* the chain of tests of on_message, the answers to pings, auto_close, and *)
(* all of it again after the watchdog has reconnected (how it does is      *)
(* WsConnection's matter).  The server and the network are external.       *)
(*                                                                         *)
(* Updates and pings are numbered in the order the server sends them over  *)
(* one connection.                                                         *)
(***************************************************************************)
EXTENDS Naturals, SequencesExt

CONSTANTS
    Topics,   \* what the user asks for: symbol_list, as a sequence
    MaxPush,  \* bound on the updates the server sends over one connection
    MaxPing,  \* bound on its pings
    MaxDrop,  \* bound on the times the link breaks
    Kind,     \* the kinds of request to look at
    Fault     \* "refuse": the server refuses what it is asked; "blank": it pushes a
              \* message without data; "drop": the link breaks

\* What a service asks for: the line its client connects to, whether the client is
\* WebSocketReqClient (auto_close), the key of the channel it sends, and whether a
\* signature can be made of the client's keys and version.
Kinds == [line : {"market", "mbp", "v1", "v2"}, req : BOOLEAN, key : {"sub", "req", "op", "action"},
          keyed : BOOLEAN]

ASSUME KindAssumption == Kind \subseteq Kinds /\ Fault \subseteq {"refuse", "blank", "drop"}
ASSUME TopicsAssumption == Topics \in Seq(STRING)
ASSUME BoundAssumption == MaxPush \in Nat /\ MaxPing \in Nat /\ MaxDrop \in Nat

VARIABLES
    kind,      \* the request
    link,      \* "up", "broken" (and nothing travels), or "closed" by close()
    loop,      \* where the event loop's thread is
    todo,      \* topics the subscription handler has still to send
    toServer, toClient,
    server,    \* what the server knows of this connection
    delivered, \* the updates update_callback was called with
    refused,   \* what on_open failed to ask or on_message found refused
    reported,  \* what of it error_handler was called with
    drops

vars == <<kind, link, loop, todo, toServer, toClient, server, delivered,
          refused, reported, drops>>

\* WebsocketManage chooses its url by is_trading, api_version and is_mbp_feed.
Trading == kind.line \in {"v1", "v2"}
NewServer == [authed |-> FALSE, asked |-> <<>>, topics |-> {}, refused |-> {},
              pushed |-> 0, pinged |-> 0, ponged |-> <<>>]
Closed == link = "closed"

Init ==
    /\ kind \in Kind
    /\ link = "up"
    /\ loop = "new"
    /\ todo = <<>>
    /\ toServer = <<>> /\ toClient = <<>>
    /\ server = NewServer
    /\ delivered = <<>>
    /\ refused = {} /\ reported = {}
    /\ drops = 0

-----------------------------------------------------------------------------
(* The event loop's thread.                                                *)

send(m) == toServer' = Append(toServer, m)

\* Mutants, here and below: a definition as a slip in the code would have it.
Open_NoAuth ==
    /\ loop = "new"
    /\ loop' = "sending" /\ todo' = Topics
    /\ UNCHANGED <<kind, link, toServer, toClient, server, delivered, refused, reported, drops>>

\* on_open: sign in, or start the subscription handler.  Without keys, for a version
\* it does not know or on a connection that has gone it calls error_handler and
\* returns: the connection stays as it is, and unsigned.
Open ==
    /\ loop = "new"
    /\ \/ /\ Trading /\ kind.keyed /\ link = "up"
          /\ send([op |-> "auth"])
          /\ loop' = "idle"
          /\ UNCHANGED <<todo, refused, reported>>
       \/ /\ Trading /\ ~(kind.keyed /\ link = "up")
          /\ refused' = {"auth"} /\ reported' = {"auth"}
          /\ loop' = "idle"
          /\ UNCHANGED <<todo, toServer>>
       \/ /\ ~Trading
          /\ loop' = "sending" /\ todo' = Topics
          /\ UNCHANGED <<toServer, refused, reported>>
    /\ UNCHANGED <<kind, link, toClient, server, delivered, drops>>

Subscribe_KeepsRest ==
    /\ loop = "sending"
    /\ IF link = "up" /\ todo # <<>>
       THEN /\ send([op |-> "sub", key |-> kind.key, topic |-> Head(todo)])
            /\ todo' = Tail(todo)
            /\ UNCHANGED loop
       ELSE /\ loop' = "idle"
            /\ UNCHANGED <<todo, toServer>>
    /\ UNCHANGED <<kind, link, toClient, server, delivered, refused, reported, drops>>

\* subscription(connection) of a service sends one request, sleeps 10 ms and goes
\* on; on a connection that has gone the send raises and the rest is not sent.
Subscribe ==
    /\ loop = "sending"
    /\ IF link = "up" /\ todo # <<>>
       THEN /\ send([op |-> "sub", key |-> kind.key, topic |-> Head(todo)])
            /\ todo' = Tail(todo)
            /\ UNCHANGED loop
       ELSE /\ loop' = "idle" /\ todo' = <<>>
            /\ UNCHANGED toServer
    /\ UNCHANGED <<kind, link, toClient, server, delivered, refused, reported, drops>>

\* The keys of message m that on_message looks at, in the dialect m is written in (a
\* request is answered with rep where a subscription has ch).  The err-code of a
\* refusal is a number, the digits of one or a word.
NoKeys == [status |-> "", err |-> "none", op |-> "", action |-> "", code |-> 200, data |-> FALSE,
           ch |-> FALSE, rep |-> FALSE, ping |-> FALSE]
OpOf(m) ==
    IF m.type = "data" THEN "req" ELSE
    IF m.type = "ack" \/ (m.type = "refusal" /\ m.of # "auth") THEN "sub" ELSE
    IF m.type = "ping" THEN "ping" ELSE "auth"
ActionOf(m) ==
    IF m.type \in {"data", "blank"} THEN "push" ELSE
    IF m.type = "ack" \/ (m.type = "refusal" /\ m.of # "auth") THEN "sub" ELSE
    IF m.type = "ping" THEN "ping" ELSE "req"
Keys(m) ==
    IF m.dialect = "v2"
    THEN [NoKeys EXCEPT !.action = ActionOf(m), !.code = IF m.type = "refusal" THEN 2002 ELSE 200,
                        !.ch = m.type # "ping", !.data = m.type \in {"data", "ping"}]
    ELSE IF m.dialect = "v1" \/ m.type = "auth"
    THEN [NoKeys EXCEPT !.op = OpOf(m), !.err = m.err]
    ELSE [NoKeys EXCEPT !.status = IF m.type = "refusal" THEN "error" ELSE
                                   IF m.type = "ack" \/ m.dialect = "req" THEN "ok" ELSE "",
                        !.err = m.err, !.ping = m.type = "ping",
                        !.ch = m.type = "data" /\ m.dialect = "market",
                        !.rep = m.type = "data" /\ m.dialect = "req"]

\* What on_message does with the keys k it finds: the first test that holds decides.
OnOp(k) ==
    IF k.op \in {"notify", "req"} THEN "receive" ELSE
    IF k.op = "ping" THEN "ping" ELSE
    IF k.op = "auth" THEN "subscribe" ELSE "ignore"
OnAction_NoPing(k) ==
    IF k.action = "req" /\ k.code = 200 THEN "subscribe" ELSE
    IF k.action = "push" /\ k.data THEN "receive" ELSE "log"
OnAction_AckSubscribes(k) ==
    IF k.action = "ping" THEN "ping" ELSE
    IF k.action \in {"sub", "req"} /\ k.code = 200 THEN "subscribe" ELSE
    IF k.action = "push" /\ k.data THEN "receive" ELSE "log"
OnAction(k) ==
    IF k.action = "ping" THEN "ping" ELSE
    IF k.action = "req" /\ k.code = 200 THEN "subscribe" ELSE
    IF k.action = "push" /\ k.data THEN "receive" ELSE "log"
Failure(k) == k.status \notin {"", "ok"} \/ k.err # "none"
Dispatch_ChFirst(k) ==
    IF Failure(k) THEN "error" ELSE
    IF k.op # "" THEN OnOp(k) ELSE
    IF k.ch \/ k.rep THEN "receive" ELSE
    IF k.action # "" THEN OnAction(k) ELSE
    IF k.ping THEN "ping" ELSE "ignore"
Dispatch(k) ==
    IF Failure(k) THEN "error" ELSE
    IF k.op # "" THEN OnOp(k) ELSE
    IF k.action # "" THEN OnAction(k) ELSE
    IF k.ch \/ k.rep THEN "receive" ELSE
    IF k.ping THEN "ping" ELSE "ignore"

\* on_message takes the next message, and ...
Message(branch) ==
    /\ loop = "idle" /\ link = "up"
    /\ toClient # <<>> /\ Dispatch(Keys(Head(toClient))) = branch
    /\ toClient' = Tail(toClient)
    /\ UNCHANGED <<kind, link, server, delivered, drops>>

\* ... when the server has accepted the signature, subscribes;
OnAuth ==
    /\ Message("subscribe")
    /\ loop' = "sending" /\ todo' = Topics
    /\ UNCHANGED <<toServer, refused, reported>>

\* ... at most logs an acknowledgement, an update without data, and the second
\* version's refusals, which are a code;
OnLog ==
    /\ Message("ignore") \/ Message("log")
    /\ refused' = refused \cup (IF Head(toClient).type = "refusal" THEN {Head(toClient).of} ELSE {})
    /\ UNCHANGED <<loop, todo, toServer, reported>>

\* ... hands the other refusals to error_handler, unless it raises itself: adding ": "
\* to a number does, and so does int() of a word where there is no status;
Raises(k) == k.err = "number" \/ (k.err = "word" /\ k.status = "")
OnFailure ==
    /\ Message("error")
    /\ LET of == Head(toClient).of IN
       /\ refused' = refused \cup {of}
       /\ reported' = IF Raises(Keys(Head(toClient))) THEN reported ELSE reported \cup {of}
    /\ UNCHANGED <<loop, todo, toServer>>

\* ... answers a ping with its own timestamp;
OnPing ==
    /\ Message("ping")
    /\ send([op |-> "pong", n |-> Head(toClient).n])
    /\ UNCHANGED <<loop, todo, refused, reported>>

\* ... gives an update to the parser, and ...
Receive ==
    /\ Message("receive")
    /\ loop' = "receiving" /\ todo' = <<Head(toClient).n>>
    /\ UNCHANGED <<toServer, refused, reported>>

Deliver_NoClose ==
    /\ loop = "receiving"
    /\ loop' = "idle"
    /\ delivered' = delivered \o todo
    /\ todo' = <<>>
    /\ UNCHANGED <<kind, link, toServer, toClient, server, refused, reported, drops>>

\* ... what it returns (None if it raises) to update_callback; then auto_close.
\* The thread may be here when another one closes or the link breaks.
Deliver ==
    /\ loop = "receiving"
    /\ loop' = "idle"
    /\ delivered' = delivered \o todo
    /\ todo' = <<>>
    /\ link' = IF kind.req THEN "closed" ELSE link
    /\ UNCHANGED <<kind, toServer, toClient, server, refused, reported, drops>>

\* The user's thread unsubscribes; the client of a request cannot.
UserClose ==
    /\ ~kind.req /\ ~Closed
    /\ link' = "closed"
    /\ UNCHANGED <<kind, loop, todo, toServer, toClient, server, delivered,
                   refused, reported, drops>>

\* The loop ends, and the watchdog reconnects what is not auto_close.
Reconnect ==
    /\ loop = "idle" /\ link = "broken" /\ ~kind.req
    /\ loop' = "new" /\ link' = "up"
    /\ server' = NewServer
    /\ delivered' = <<>> /\ refused' = {} /\ reported' = {}
    /\ UNCHANGED <<kind, todo, toServer, toClient, drops>>

-----------------------------------------------------------------------------
(* The server and the network.                                             *)

\* A message of the server, of what type it means it, in the dialect of its line.
Dialects == {"market", "req", "v1", "v2"}
Form(type, n) ==
    [type |-> type, n |-> n, of |-> "", err |-> "none",
     dialect |-> IF Trading THEN kind.line ELSE IF kind.req THEN "req" ELSE "market"]
answer(m) == toClient' = Append(toClient, m)
Refuse(of) ==
    /\ "refuse" \in Fault
    /\ \E err \in IF kind.line = "v1" THEN {"number", "digits", "word"} ELSE {"word"} :
          answer([Form("refusal", 0) EXCEPT !.of = of, !.err = err])

Authenticate ==
    \/ /\ answer(Form("auth", 0))
       /\ server' = [server EXCEPT !.authed = TRUE]
    \/ /\ Refuse("auth")
       /\ server' = [server EXCEPT !.refused = @ \cup {"auth"}]

\* Each line of the server understands channels of its own, and answers no other.
Dialect == [market |-> {"sub", "req"}, mbp |-> {"sub", "req"}, v1 |-> {"op"}, v2 |-> {"action"}]

\* A subscription is acknowledged, a request is answered with its data.
Accept(t) ==
    LET asked == [server EXCEPT !.asked = Append(@, t)] IN
    \/ /\ kind.key \in {"sub", "action"}
       /\ answer(Form("ack", 0))
       /\ server' = [asked EXCEPT !.topics = @ \cup {t}]
    \/ /\ kind.key \in {"req", "op"}
       /\ answer(Form("data", server.pushed + 1))
       /\ server' = [asked EXCEPT !.pushed = @ + 1]
    \/ /\ Refuse(t)
       /\ server' = [asked EXCEPT !.refused = @ \cup {t}]

Serve ==
    /\ link = "up" /\ toServer # <<>>
    /\ toServer' = Tail(toServer)
    /\ LET m == Head(toServer) IN
       \/ m.op = "auth" /\ Authenticate
       \/ m.op = "sub" /\ m.key \in Dialect[kind.line] /\ Accept(m.topic)
       \/ /\ m.op = "pong"
          /\ server' = [server EXCEPT !.ponged = Append(@, m.n)]
          /\ UNCHANGED toClient
    /\ UNCHANGED <<kind, link, loop, todo, delivered, refused, reported, drops>>

Push ==
    /\ link = "up" /\ server.topics # {} /\ server.pushed < MaxPush
    /\ server' = [server EXCEPT !.pushed = @ + 1]
    /\ answer(Form("data", server.pushed + 1))
    /\ UNCHANGED <<kind, link, loop, todo, toServer, delivered, refused, reported, drops>>

\* One at a time is on its way.
PushBlank ==
    /\ "blank" \in Fault /\ link = "up" /\ kind.line = "v2" /\ server.topics # {}
    /\ \A k \in DOMAIN toClient : toClient[k].type # "blank"
    /\ answer(Form("blank", 0))
    /\ UNCHANGED <<kind, link, loop, todo, toServer, server, delivered, refused, reported, drops>>

Ping ==
    /\ link = "up" /\ loop # "new" /\ server.pinged < MaxPing
    /\ server' = [server EXCEPT !.pinged = @ + 1]
    /\ answer(Form("ping", server.pinged + 1))
    /\ UNCHANGED <<kind, link, loop, todo, toServer, delivered, refused, reported, drops>>

\* What travels is lost with the link.
Drop ==
    /\ "drop" \in Fault /\ link = "up" /\ drops < MaxDrop
    /\ link' = "broken"
    /\ drops' = drops + 1
    /\ toServer' = <<>> /\ toClient' = <<>>
    /\ UNCHANGED <<kind, loop, todo, server, delivered, refused, reported>>

-----------------------------------------------------------------------------
OnMessage == OnAuth \/ OnLog \/ OnFailure \/ OnPing \/ Receive
Loop == Open \/ Subscribe \/ OnMessage \/ Deliver \/ Reconnect
Next == Loop \/ UserClose \/ Serve \/ Push \/ PushBlank \/ Ping \/ Drop

Spec == Init /\ [][Next]_vars

\* The loop's thread runs, the watchdog reconnects, the server answers.
FairSpec == Spec /\ WF_vars(Loop) /\ WF_vars(Serve)

-----------------------------------------------------------------------------
(* Properties.                                                             *)

Members(s) == {s[k] : k \in DOMAIN s}
UpTo(n) == [k \in 1 .. n |-> k]

\* The messages at the places K of q carry the numbers from a + 1 to b, in this order.
Carries(q, K, a, b) ==
    /\ {q[k].n : k \in K} = a + 1 .. b
    /\ \A i, k \in K : i < k => q[i].n < q[k].n
Sent(type) == {k \in DOMAIN toClient : toClient[k].type = type}
Pongs == {k \in DOMAIN toServer : toServer[k].op = "pong"}

TypeOK ==
    /\ kind \in Kinds
    /\ link \in {"up", "broken", "closed"}
    /\ loop \in {"new", "idle", "sending", "receiving"}
    /\ loop = "sending" => IsSuffix(todo, Topics)
    /\ loop = "receiving" => Len(todo) = 1
    /\ loop \in {"new", "idle"} => todo = <<>>
    /\ server.topics \cup refused \subseteq Members(Topics) \cup {"auth"}
    /\ reported \subseteq refused
    /\ drops \in 0 .. MaxDrop

\* Over one connection the server is asked for the topics in their order and for
\* none of them twice.
AsksOnce == IsPrefix(server.asked, Topics)

\* On a trading line it is asked for anything only after it has accepted the signature,
\* on every connection anew.
SignedInFirst == Trading /\ server.asked # <<>> => server.authed

\* Nothing is lost, duplicated or reordered between the server and the callback:
\* what was delivered, what is in hand and what is on the way are the updates the
\* server sent over this connection, and on a link that broke or was closed,
\* the first of them.
DeliversInOrder ==
    LET got == delivered \o (IF loop = "receiving" THEN todo ELSE <<>>) IN
    /\ got = UpTo(Len(got)) /\ Len(got) <= server.pushed
    /\ link = "up" => Carries(toClient, Sent("data"), Len(got), server.pushed)

\* Every ping is answered once, in order and with its own timestamp: what the
\* server got, what is on the way to it and the pings not read yet are the pings
\* it sent.
AnswersPings ==
    link = "up" =>
        /\ server.ponged = UpTo(Len(server.ponged))
        /\ \E read \in Len(server.ponged) .. server.pinged :
              /\ Carries(toServer, Pongs, Len(server.ponged), read)
              /\ Carries(toClient, Sent("ping"), read, server.pinged)

\* A request's callback is called at most once, and its connection is closed then
\* (websocket_manage.py:254, "websocket request will close the connection after
\* receive").
OneAnswer == kind.req => Len(delivered) <= 1 /\ (delivered # <<>> => Closed)

\* Whenever a connection is opened, also after a reconnect, every topic comes to be
\* subscribed on it, unless the server refuses, on_open cannot sign or the connection
\* ends.
Resubscribes ==
    (loop = "new" /\ ~kind.req)
        ~> (Members(Topics) \subseteq server.topics \/ server.refused \cup refused # {} \/ link # "up")

\* "The error handler will be called if subscription failed" (trade.py:63).
RefusalsReported == refused \subseteq reported

\* "Use comma to separate multi symbols" (market.py:75): a request that was closed
\* after its answer had an answer for each of its symbols.
AnswersEveryTopic == kind.req /\ Closed => Len(delivered) = Len(Topics)
=============================================================================
