--------------------------- MODULE WsSessionProofs ---------------------------
(***************************************************************************)
(* What WsSession promises for any number of topics, updates, pings and    *)
(* broken links, and every kind of request.                                *)
(***************************************************************************)
EXTENDS WsSession, SequenceTheorems, TLAPS

-----------------------------------------------------------------------------
(* One answer.                                                             *)

\* A request's connection is closed from its answer on, and nothing is in hand then.
Answered ==
    kind.req =>
        /\ delivered # <<>> => Closed
        /\ delivered = <<>> \/ Len(delivered) = 1
        /\ Closed => loop # "receiving"
InHand == loop = "receiving" => \E n : todo = <<n>>

\* A request is answered once at most, whatever the server sends and however often the
\* link breaks: the connection is closed by the thread that delivers.
THEOREM RequestsAnsweredOnce == Spec => []OneAnswer
<1>1. Init => Answered /\ InHand
  BY DEF Init, Answered, InHand, Closed
<1>2. Answered /\ InHand /\ [Next]_vars => (Answered /\ InHand)'
  <2> SUFFICES ASSUME Answered, InHand, [Next]_vars PROVE (Answered /\ InHand)'
    OBVIOUS
  <2> USE DEF Answered, InHand, Closed
  <2>1. CASE Open
    BY <2>1 DEF Open
  <2>2. CASE Subscribe
    BY <2>2 DEF Subscribe
  <2>3. CASE OnAuth
    BY <2>3 DEF OnAuth, Message
  <2>4. CASE OnLog
    BY <2>4 DEF OnLog, Message
  <2>5. CASE OnFailure
    BY <2>5 DEF OnFailure, Message
  <2>6. CASE OnPing
    BY <2>6 DEF OnPing, Message
  <2>7. CASE Receive
    BY <2>7 DEF Receive, Message
  <2>8. CASE Deliver
    <3>1. PICK n : todo = <<n>>
      BY <2>8 DEF Deliver
    <3>2. loop' = "idle" /\ delivered' = delivered \o <<n>> /\ kind' = kind
          /\ link' = IF kind.req THEN "closed" ELSE link
      BY <2>8, <3>1 DEF Deliver
    <3>3. CASE kind.req
      <4>1. delivered = <<>>
        BY <2>8, <3>3 DEF Deliver
      <4>2. delivered' = <<n>>
        BY <3>2, <4>1
      <4> QED
        BY <3>2, <3>3, <4>2
    <3> QED
      BY <3>2, <3>3
  <2>9. CASE Reconnect
    BY <2>9 DEF Reconnect
  <2>10. CASE UserClose
    BY <2>10 DEF UserClose
  <2>11. CASE Serve
    BY <2>11 DEF Serve
  <2>12. CASE Push
    BY <2>12 DEF Push
  <2>13. CASE Ping
    BY <2>13 DEF Ping
  <2>14. CASE Drop
    BY <2>14 DEF Drop
  <2>15. CASE PushBlank
    BY <2>15 DEF PushBlank
  <2>16. CASE UNCHANGED vars
    BY <2>16 DEF vars
  <2> QED
    BY <2>1, <2>2, <2>3, <2>4, <2>5, <2>6, <2>7, <2>8, <2>9, <2>10, <2>11, <2>12, <2>13, <2>14, <2>15, <2>16
    DEF Next, Loop, OnMessage
<1>3. \A n \in {0, 1} : n <= 1
  OBVIOUS
<1>4. Answered => OneAnswer
  <2> SUFFICES ASSUME Answered, kind.req PROVE Len(delivered) <= 1 /\ (delivered # <<>> => Closed)
    BY DEF OneAnswer
  <2>1. delivered = <<>> \/ Len(delivered) = 1
    BY DEF Answered
  <2>2. Len(delivered) \in {0, 1}
    <3>1. CASE delivered = <<>>
      BY <3>1
    <3>2. CASE Len(delivered) = 1
      BY <3>2
    <3> QED
      BY <2>1, <3>1, <3>2
  <2>3. delivered # <<>> => Closed
    BY DEF Answered
  <2>4. Len(delivered) <= 1
    BY <1>3, <2>2, Zenon
  <2> QED
    BY <2>3, <2>4
<1> QED
  BY <1>1, <1>2, <1>4, PTL DEF Spec

-----------------------------------------------------------------------------
(* Signing in.                                                             *)

\* A topic, or the signature that is refused
Name == Members(Topics) \cup {"auth"}
ToServer == [op : {"auth"}] \cup [op : {"pong"}, n : Nat] \cup
            [op : {"sub"}, key : {"sub", "req", "op", "action"}, topic : Name]
Types == {"auth", "ack", "refusal", "ping", "data", "blank"}
Errs == {"none", "number", "digits", "word"}
ToClient ==
    {m \in [type : Types, n : Nat, of : Name \cup {""}, err : Errs, dialect : Dialects] :
        /\ m.type = "refusal" => m.of \in Name
        /\ m.err # "none" <=> m.type = "refusal"
        /\ m.type = "blank" => m.dialect = "v2"}
Server == [authed : BOOLEAN, asked : Seq(Name), topics : SUBSET Name, refused : SUBSET Name,
           pushed : Nat, pinged : Nat, ponged : Seq(Nat)]
NoSub == {m \in ToServer : m.op # "sub"}
NoAuth == {m \in ToClient : m.type # "auth"}

\* The shapes of what travels
Shapes ==
    /\ kind \in Kinds
    /\ toServer \in Seq(ToServer) /\ toClient \in Seq(ToClient)
    /\ server \in Server
    /\ loop = "sending" => todo \in Seq(Name)

\* Before the server has accepted the signature, no topic is asked for or about to be,
\* and no acceptance is on its way: nothing of an earlier connection is left.
Unsigned ==
    Trading /\ ~server.authed =>
        /\ server.asked = <<>> /\ loop # "sending"
        /\ toServer \in Seq(NoSub) /\ toClient \in Seq(NoAuth)
NothingTravels == link = "broken" => toServer = <<>> /\ toClient = <<>>

IInv == Shapes /\ Unsigned /\ NothingTravels

\* A message read or added leaves what travels within a set it is in.
LEMMA Travels ==
    ASSUME NEW S, NEW q \in Seq(S)
    PROVE  /\ q # <<>> => Head(q) \in S /\ Tail(q) \in Seq(S)
           /\ \A m \in S : Append(q, m) \in Seq(S)
  OBVIOUS

LEMMA MembersOf ==
    ASSUME NEW R, NEW S, NEW q \in Seq(R), \A k \in 1 .. Len(q) : q[k] \in S
    PROVE  q \in Seq(S)
<1>1. Len(q) \in Nat /\ SubSeq(q, 1, Len(q)) = q
  BY SubSeqFull
<1> QED
  BY <1>1, SubSeqProperties

\* What the server means, the client understands: each test of the chain on_message goes
\* through lets the messages of the others pass, in every dialect.
LEMMA Understood ==
    ASSUME NEW m \in ToClient
    PROVE  /\ Dispatch(Keys(m)) = "subscribe" <=> m.type = "auth"
           /\ Dispatch(Keys(m)) = "ping" <=> m.type = "ping"
           /\ Dispatch(Keys(m)) = "receive" <=> m.type = "data"
           /\ Dispatch(Keys(m)) = "error" => m.type = "refusal"
<1>1. /\ m.type \in Types /\ m.err \in Errs /\ m.dialect \in Dialects
      /\ m.err # "none" <=> m.type = "refusal"
      /\ m.type = "blank" => m.dialect = "v2"
  BY DEF ToClient
<1>2. PICK keys : keys = Keys(m)
  OBVIOUS
<1>3. CASE m.dialect = "v2"
  <2>1. /\ keys.status = "" /\ keys.err = "none" /\ keys.op = "" /\ keys.action = ActionOf(m)
        /\ keys.data = (m.type \in {"data", "ping"})
    BY <1>3, <1>2 DEF Keys, NoKeys
  <2>2. /\ m.type \in {"data", "blank"} => keys.action = "push"
        /\ m.type = "ping" => keys.action = "ping"
        /\ m.type = "auth" => keys.action = "req"
        /\ m.type = "ack" => keys.action = "sub"
        /\ m.type = "refusal" => keys.action \in {"req", "sub"}
    BY <2>1 DEF ActionOf
  <2>3. /\ m.type = "refusal" => keys.code # 200
        /\ m.type # "refusal" => keys.code = 200
    BY <1>3, <1>2 DEF Keys, NoKeys
  <2>4. Dispatch(keys) = OnAction(keys)
    BY <1>1, <2>1, <2>2 DEF Dispatch, Failure, Types
  <2>5. m.type = "refusal" => OnAction(keys) = "log"
    BY <2>1, <2>2, <2>3 DEF OnAction
  <2>6. m.type \in {"ack", "blank"} => OnAction(keys) = "log"
    BY <2>1, <2>2, <2>3 DEF OnAction
  <2>7. /\ m.type = "data" => OnAction(keys) = "receive"
        /\ m.type = "ping" => OnAction(keys) = "ping"
        /\ m.type = "auth" => OnAction(keys) = "subscribe"
    BY <2>1, <2>2, <2>3 DEF OnAction
  <2> QED
    BY <1>1, <1>2, <2>4, <2>5, <2>6, <2>7 DEF Types
<1>4. CASE m.dialect # "v2" /\ (m.dialect = "v1" \/ m.type = "auth")
  <2>1. keys.status = "" /\ keys.err = m.err /\ keys.op = OpOf(m)
    BY <1>4, <1>2 DEF Keys, NoKeys
  <2> QED
    BY <1>1, <1>4, <1>2, <2>1 DEF Dispatch, Failure, OnOp, OpOf, Types
<1>5. CASE m.dialect \notin {"v1", "v2"} /\ m.type # "auth"
  <2>1. /\ keys.err = m.err /\ keys.op = "" /\ keys.action = ""
        /\ m.type # "refusal" => keys.status \in {"", "ok"}
        /\ keys.ping = (m.type = "ping")
        /\ keys.ch = (m.type = "data" /\ m.dialect = "market")
        /\ keys.rep = (m.type = "data" /\ m.dialect = "req")
    BY <1>5, <1>2 DEF Keys, NoKeys
  <2>2. CASE m.type = "refusal"
    BY <1>1, <1>2, <2>1, <2>2 DEF Dispatch, Failure
  <2>3. CASE m.type # "refusal"
    BY <1>1, <1>5, <1>2, <2>1, <2>3 DEF Dispatch, Failure, Types, Dialects
  <2> QED
    BY <2>2, <2>3
<1> QED
  BY <1>1, <1>3, <1>4, <1>5 DEF Dialects

\* The server's messages.
LEMMA Formed ==
    ASSUME kind \in Kinds, NEW type \in Types \ {"refusal"}, NEW n \in Nat,
           type = "blank" => kind.line = "v2"
    PROVE  Form(type, n) \in ToClient /\ Form(type, n).type = type /\ Form(type, n).n = n
  BY DEF Form, ToClient, Types, Errs, Dialects, Kinds, Trading

LEMMA FormedRefusal ==
    ASSUME kind \in Kinds, NEW of \in Name, NEW err \in {"number", "digits", "word"}
    PROVE  /\ [Form("refusal", 0) EXCEPT !.of = of, !.err = err] \in ToClient
           /\ [Form("refusal", 0) EXCEPT !.of = of, !.err = err].type = "refusal"
  BY DEF Form, ToClient, Types, Errs, Dialects, Kinds, Trading

LEMMA TopicsAreNames == Topics \in Seq(Name)
<1>1. \A k \in 1 .. Len(Topics) : Topics[k] \in Name
  BY TopicsAssumption DEF Name, Members
<1> QED
  BY <1>1, TopicsAssumption, MembersOf

LEMMA Start == Init => IInv
<1> SUFFICES ASSUME Init PROVE IInv
  OBVIOUS
<1>1. kind \in Kinds
  BY KindAssumption DEF Init
<1>2. server \in Server
  BY DEF Init, NewServer, Server
<1> QED
  BY <1>1, <1>2 DEF Init, IInv, Shapes, Unsigned, NothingTravels, NewServer

\* What a message is that on_message takes.
LEMMA Taken ==
    ASSUME IInv, NEW branch, Message(branch)
    PROVE  /\ toClient # <<>> /\ toClient' = Tail(toClient)
           /\ toClient' \in Seq(ToClient) /\ Head(toClient) \in ToClient
           /\ branch = "subscribe" <=> Head(toClient).type = "auth"
           /\ branch = "ping" <=> Head(toClient).type = "ping"
           /\ branch = "receive" <=> Head(toClient).type = "data"
           /\ branch = "error" => Head(toClient).type = "refusal"
           /\ Trading /\ ~server.authed => toClient' \in Seq(NoAuth) /\ Head(toClient) \in NoAuth
           /\ link = "up" /\ loop = "idle" /\ UNCHANGED <<kind, link, server>>
<1>1. toClient # <<>> /\ toClient' = Tail(toClient) /\ Dispatch(Keys(Head(toClient))) = branch
      /\ link = "up" /\ loop = "idle" /\ UNCHANGED <<kind, link, server>>
  BY DEF Message
<1>2. toClient \in Seq(ToClient) /\ (Trading /\ ~server.authed => toClient \in Seq(NoAuth))
  BY DEF IInv, Shapes, Unsigned
<1>3. Head(toClient) \in ToClient /\ Tail(toClient) \in Seq(ToClient)
  BY <1>1, <1>2, Travels
<1>4. Trading /\ ~server.authed => Head(toClient) \in NoAuth /\ Tail(toClient) \in Seq(NoAuth)
  BY <1>1, <1>2, Travels
<1> QED
  BY <1>1, <1>3, <1>4, Understood

\* What a refusal leaves, whatever it refuses.
LEMMA Refused ==
    ASSUME IInv, NEW of \in Name, Refuse(of)
    PROVE  \E r \in ToClient : r.type = "refusal" /\ r \in NoAuth /\ toClient' = Append(toClient, r)
<1>1. PICK err \in {"number", "digits", "word"} :
         answer([Form("refusal", 0) EXCEPT !.of = of, !.err = err])
  BY DEF Refuse
<1> DEFINE r == [Form("refusal", 0) EXCEPT !.of = of, !.err = err]
<1>2. r \in ToClient /\ r.type = "refusal"
  BY FormedRefusal DEF IInv, Shapes
<1>3. toClient' = Append(toClient, r)
  BY <1>1 DEF answer
<1> HIDE DEF r
<1> QED
  BY <1>2, <1>3 DEF NoAuth

\* What the server's acceptance of a topic leaves.
LEMMA Accepted ==
    ASSUME IInv, NEW t \in Name, Accept(t)
    PROVE  server' \in Server /\ server'.authed = server.authed /\ toClient' \in Seq(ToClient)
<1> DEFINE asked == [server EXCEPT !.asked = Append(@, t)]
<1>1. server \in Server /\ toClient \in Seq(ToClient)
  BY DEF IInv, Shapes
<1>2. Append(server.asked, t) \in Seq(Name)
  BY <1>1, Travels DEF Server
<1>3. asked \in Server /\ asked.authed = server.authed
  BY <1>1, <1>2 DEF Server
<1>4. CASE answer(Form("ack", 0)) /\ server' = [asked EXCEPT !.topics = @ \cup {t}]
  <2>1. Form("ack", 0) \in ToClient
    BY Formed DEF Types, IInv, Shapes
  <2>2. toClient' \in Seq(ToClient)
    BY <1>1, <1>4, <2>1, Travels DEF answer
  <2> HIDE DEF asked
  <2> QED
    BY <1>3, <1>4, <2>2 DEF Server
<1>5. CASE /\ answer(Form("data", server.pushed + 1))
           /\ server' = [asked EXCEPT !.pushed = @ + 1]
  <2>6. server.pushed + 1 \in Nat
    BY <1>1 DEF Server
  <2>1. Form("data", server.pushed + 1) \in ToClient
    BY <2>6, Formed DEF Types, IInv, Shapes
  <2>2. toClient' \in Seq(ToClient)
    BY <1>1, <1>5, <2>1, Travels DEF answer
  <2> HIDE DEF asked
  <2>3. asked.pushed + 1 \in Nat
    BY <1>3 DEF Server
  <2> DEFINE n == asked.pushed + 1
  <2>4. server' = [asked EXCEPT !.pushed = n]
    BY <1>5
  <2> HIDE DEF n
  <2>5. n \in Nat
    BY <2>3 DEF n
  <2> QED
    BY <1>3, <2>2, <2>4, <2>5 DEF Server
<1>6. CASE Refuse(t) /\ server' = [asked EXCEPT !.refused = @ \cup {t}]
  <2>1. toClient' \in Seq(ToClient)
    BY <1>1, <1>6, Refused, Travels
  <2> HIDE DEF asked
  <2> QED
    BY <1>3, <1>6, <2>1 DEF Server
<1> QED
  BY <1>4, <1>5, <1>6 DEF Accept

\* What a refused signature leaves of what the server knows.
LEMMA RefusedSignature ==
    ASSUME server \in Server, NEW of \in Name, server' = [server EXCEPT !.refused = @ \cup {of}]
    PROVE  server' \in Server /\ server'.authed = server.authed /\ server'.asked = server.asked
  BY DEF Server

LEMMA Step == IInv /\ [Next]_vars => IInv'
<1> SUFFICES ASSUME IInv, [Next]_vars PROVE IInv'
  OBVIOUS
<1> USE DEF IInv, Shapes, Unsigned, NothingTravels, Trading
<1>1. CASE Open
  <2>1. UNCHANGED <<kind, link, toClient, server>>
    BY <1>1 DEF Open
  <2>2. CASE Trading /\ kind.keyed /\ link = "up"
    <3>1. loop' = "idle" /\ toServer' = Append(toServer, [op |-> "auth"])
      BY <1>1, <2>2 DEF Open, send
    <3>2. [op |-> "auth"] \in ToServer /\ [op |-> "auth"] \in NoSub
      BY DEF ToServer, NoSub
    <3>3. toServer' \in Seq(ToServer) /\ (toServer \in Seq(NoSub) => toServer' \in Seq(NoSub))
      BY <3>1, <3>2, Travels
    <3> QED
      BY <2>1, <2>2, <3>1, <3>3
  <2>3. CASE ~Trading
    BY <1>1, <2>1, <2>3, TopicsAreNames DEF Open
  <2>4. CASE Trading /\ ~(kind.keyed /\ link = "up")
    BY <1>1, <2>1, <2>4 DEF Open
  <2> QED
    BY <2>2, <2>3, <2>4
<1>2. CASE Subscribe
  <2>1. UNCHANGED <<kind, link, toClient, server>> /\ loop = "sending"
    BY <1>2 DEF Subscribe
  <2>2. CASE link = "up" /\ todo # <<>>
    <3>1. toServer' = Append(toServer, [op |-> "sub", key |-> kind.key, topic |-> Head(todo)])
          /\ todo' = Tail(todo) /\ loop' = loop
      BY <1>2, <2>2 DEF Subscribe, send
    <3>2. Head(todo) \in Name /\ Tail(todo) \in Seq(Name)
      BY <2>1, <2>2, Travels
    <3>3. [op |-> "sub", key |-> kind.key, topic |-> Head(todo)] \in ToServer
      BY <3>2 DEF ToServer, Kinds
    <3>4. toServer' \in Seq(ToServer)
      BY <3>1, <3>3, Travels
    <3> QED
      BY <2>1, <2>2, <3>1, <3>2, <3>4
  <2>3. CASE ~(link = "up" /\ todo # <<>>)
    BY <1>2, <2>1, <2>3 DEF Subscribe
  <2> QED
    BY <2>2, <2>3
<1>3. CASE OnAuth
  <2>1. Message("subscribe") /\ loop' = "sending" /\ todo' = Topics /\ UNCHANGED toServer
    BY <1>3 DEF OnAuth
  <2>2. ~(Trading /\ ~server.authed)
    BY <2>1, Taken DEF NoAuth
  <2> QED
    BY <2>1, <2>2, Taken, TopicsAreNames
<1>4. CASE OnLog
  <2>1. PICK branch : Message(branch) /\ UNCHANGED <<loop, todo, toServer>>
    BY <1>4 DEF OnLog
  <2> QED
    BY <2>1, Taken
<1>5. CASE OnFailure
  <2>1. Message("error") /\ UNCHANGED <<loop, todo, toServer>>
    BY <1>5 DEF OnFailure
  <2> QED
    BY <2>1, Taken
<1>6. CASE OnPing
  <2>1. Message("ping") /\ UNCHANGED <<loop, todo>>
        /\ toServer' = Append(toServer, [op |-> "pong", n |-> Head(toClient).n])
    BY <1>6 DEF OnPing, send
  <2>2. Head(toClient).n \in Nat
    BY <2>1, Taken DEF ToClient
  <2>3. [op |-> "pong", n |-> Head(toClient).n] \in ToServer /\ [op |-> "pong", n |-> Head(toClient).n] \in NoSub
    BY <2>2 DEF ToServer, NoSub
  <2>4. toServer' \in Seq(ToServer) /\ (toServer \in Seq(NoSub) => toServer' \in Seq(NoSub))
    BY <2>1, <2>3, Travels
  <2> QED
    BY <2>1, <2>4, Taken
<1>7. CASE Receive
  <2>1. Message("receive") /\ loop' = "receiving" /\ UNCHANGED toServer
    BY <1>7 DEF Receive
  <2> QED
    BY <2>1, Taken
<1>8. CASE Deliver
  <2>1. loop' = "idle" /\ UNCHANGED <<kind, toServer, toClient, server>>
    BY <1>8 DEF Deliver
  <2>2. link' = "broken" => link = "broken"
    BY <1>8 DEF Deliver
  <2> QED
    BY <2>1, <2>2
<1>9. CASE Reconnect
  <2>1. /\ link = "broken" /\ link' = "up" /\ loop' = "new" /\ server' = NewServer
        /\ UNCHANGED <<kind, toServer, toClient>>
    BY <1>9 DEF Reconnect
  <2>2. toServer = <<>> /\ toClient = <<>>
    BY <2>1
  <2>3. NewServer \in Server /\ NewServer.asked = <<>>
    BY DEF NewServer, Server
  <2> QED
    BY <2>1, <2>2, <2>3
<1>10. CASE UserClose
  BY <1>10 DEF UserClose
<1>11. CASE Serve
  <2> DEFINE m == Head(toServer)
  <2>1. /\ link = "up" /\ toServer # <<>> /\ toServer' = Tail(toServer)
        /\ UNCHANGED <<kind, link, loop, todo>>
    BY <1>11 DEF Serve
  <2>2. m \in ToServer /\ toServer' \in Seq(ToServer)
    BY <2>1, Travels
  <2>3. ASSUME Trading, ~server.authed
        PROVE  m.op # "sub" /\ toServer' \in Seq(NoSub)
    <3>1. toServer \in Seq(NoSub)
      BY <2>3
    <3> QED
      BY <2>1, <3>1, Travels DEF NoSub
  <2>4. CASE m.op = "auth" /\ Authenticate
    <3>1. CASE toClient' = Append(toClient, Form("auth", 0)) /\ server' = [server EXCEPT !.authed = TRUE]
      <4>1. Form("auth", 0) \in ToClient
        BY Formed DEF Types
      <4>2. toClient' \in Seq(ToClient)
        BY <3>1, <4>1, Travels
      <4>3. server' \in Server /\ server'.authed = TRUE
        BY <3>1 DEF Server
      <4>4. ~(Trading /\ ~server.authed)'
        BY <4>3
      <4>5. Shapes'
        BY <2>1, <2>2, <4>2, <4>3
      <4>6. NothingTravels'
        BY <2>1
      <4> QED
        BY <4>4, <4>5, <4>6
    <3>2. CASE Refuse("auth") /\ server' = [server EXCEPT !.refused = @ \cup {"auth"}]
      <4>2. PICK of \in Name : of = "auth"
        BY DEF Name
      <4>3. Refuse(of) /\ server' = [server EXCEPT !.refused = @ \cup {of}]
        BY <3>2, <4>2
      <4>4. server' \in Server /\ server'.authed = server.authed /\ server'.asked = server.asked
        BY <4>3, RefusedSignature
      <4>5. toClient' \in Seq(ToClient) /\ (toClient \in Seq(NoAuth) => toClient' \in Seq(NoAuth))
        BY <4>3, Refused, Travels
      <4> QED
        BY <2>1, <2>2, <2>3, <4>4, <4>5
    <3> QED
      BY <2>4, <3>1, <3>2 DEF Authenticate, answer
  <2>5. CASE m.op = "sub" /\ Accept(m.topic)
    <3>1. ~(Trading /\ ~server.authed)
      BY <2>3, <2>5
    <3>2. m.topic \in Name
      BY <2>2, <2>5 DEF ToServer
    <3>3. server' \in Server /\ server'.authed = server.authed /\ toClient' \in Seq(ToClient)
      BY <2>5, <3>2, Accepted
    <3> QED
      BY <2>1, <2>2, <3>1, <3>3
  <2>6. CASE /\ m.op = "pong"
             /\ server' = [server EXCEPT !.ponged = Append(@, m.n)]
             /\ UNCHANGED toClient
    <3>1. m.n \in Nat
      BY <2>2, <2>6 DEF ToServer
    <3>2. server.ponged \in Seq(Nat)
      BY DEF Server
    <3>3. Append(server.ponged, m.n) \in Seq(Nat)
      BY <3>1, <3>2, Travels
    <3>4. server' \in Server /\ server'.authed = server.authed /\ server'.asked = server.asked
      BY <2>6, <3>3 DEF Server
    <3> QED
      BY <2>1, <2>2, <2>3, <2>6, <3>4
  <2> QED
    BY <1>11, <2>4, <2>5, <2>6 DEF Serve
<1>12. CASE Push
  <2> DEFINE n == server.pushed + 1
  <2>1. /\ server' = [server EXCEPT !.pushed = n]
        /\ toClient' = Append(toClient, Form("data", n))
        /\ link = "up" /\ UNCHANGED <<kind, link, loop, todo, toServer>>
    BY <1>12 DEF Push, answer
  <2>2. n \in Nat
    BY DEF Server
  <2>3. /\ server' \in Server /\ server'.authed = server.authed /\ server'.asked = server.asked
        /\ server'.pushed = n
    BY <2>1, <2>2 DEF Server
  <2>4. Form("data", n) \in ToClient /\ Form("data", n).type = "data"
    BY <2>2, Formed DEF Types
  <2>5. Form("data", n) \in NoAuth
    BY <2>4 DEF NoAuth
  <2>6. toClient' \in Seq(ToClient) /\ (toClient \in Seq(NoAuth) => toClient' \in Seq(NoAuth))
    BY <2>1, <2>4, <2>5, Travels
  <2> QED
    BY <2>1, <2>3, <2>6
<1>13. CASE Ping
  <2> DEFINE n == server.pinged + 1
  <2>1. /\ server' = [server EXCEPT !.pinged = n]
        /\ toClient' = Append(toClient, Form("ping", n))
        /\ link = "up" /\ UNCHANGED <<kind, link, loop, todo, toServer>>
    BY <1>13 DEF Ping, answer
  <2>2. n \in Nat
    BY DEF Server
  <2>3. /\ server' \in Server /\ server'.authed = server.authed /\ server'.asked = server.asked
        /\ server'.pinged = n
    BY <2>1, <2>2 DEF Server
  <2>4. Form("ping", n) \in ToClient /\ Form("ping", n).type = "ping"
    BY <2>2, Formed DEF Types
  <2>5. Form("ping", n) \in NoAuth
    BY <2>4 DEF NoAuth
  <2>6. toClient' \in Seq(ToClient) /\ (toClient \in Seq(NoAuth) => toClient' \in Seq(NoAuth))
    BY <2>1, <2>4, <2>5, Travels
  <2> QED
    BY <2>1, <2>3, <2>6
<1>14. CASE Drop
  BY <1>14 DEF Drop
<1>15. CASE PushBlank
  <2>1. /\ toClient' = Append(toClient, Form("blank", 0)) /\ link = "up" /\ kind.line = "v2"
        /\ UNCHANGED <<kind, link, loop, todo, toServer, server>>
    BY <1>15 DEF PushBlank, answer
  <2>2. Form("blank", 0) \in ToClient /\ Form("blank", 0).type = "blank"
    BY <2>1, Formed DEF Types
  <2>3. Form("blank", 0) \in NoAuth
    BY <2>2 DEF NoAuth
  <2>4. toClient' \in Seq(ToClient) /\ (toClient \in Seq(NoAuth) => toClient' \in Seq(NoAuth))
    BY <2>1, <2>2, <2>3, Travels
  <2> QED
    BY <2>1, <2>4
<1>16. CASE UNCHANGED vars
  BY <1>16 DEF vars
<1> QED
  BY <1>1, <1>2, <1>3, <1>4, <1>5, <1>6, <1>7, <1>8, <1>9, <1>10, <1>11, <1>12, <1>13, <1>14, <1>15, <1>16
  DEF Next, Loop, OnMessage

\* On a trading line nothing is asked for before the server has accepted the signature,
\* also after any number of broken connections: no acceptance and no request of an
\* earlier connection survives it.
THEOREM SignsInFirst == Spec => []SignedInFirst
<1>1. IInv => SignedInFirst
  BY DEF IInv, Unsigned, SignedInFirst
<1> QED
  BY <1>1, Start, Step, PTL DEF Spec

-----------------------------------------------------------------------------
(* Numbered messages in a queue.                                           *)

LEMMA UpToFacts ==
    ASSUME NEW n \in Nat
    PROVE  /\ UpTo(n) \in Seq(Nat) /\ Len(UpTo(n)) = n
           /\ UpTo(n) \o <<n + 1>> = UpTo(n + 1)
           /\ Append(UpTo(n), n + 1) = UpTo(n + 1)
<1>1. UpTo(n) \in Seq(Nat) /\ Len(UpTo(n)) = n /\ UpTo(n + 1) \in Seq(Nat) /\ Len(UpTo(n + 1)) = n + 1
  BY DEF UpTo
<1>2. Append(UpTo(n), n + 1) = UpTo(n + 1)
  <2> DEFINE s == Append(UpTo(n), n + 1)
  <2>1. s \in Seq(Nat) /\ Len(s) = n + 1
    BY <1>1, AppendProperties
  <2>2. \A k \in 1 .. n + 1 : s[k] = UpTo(n + 1)[k]
    <3>1. \A k \in 1 .. n : s[k] = UpTo(n)[k]
      BY <1>1, AppendProperties
    <3>2. s[n + 1] = n + 1
      BY <1>1, AppendProperties
    <3>3. \A k \in 1 .. n + 1 : k \in 1 .. n \/ k = n + 1
      OBVIOUS
    <3>4. (\A k \in 1 .. n : UpTo(n)[k] = k) /\ (\A k \in 1 .. n + 1 : UpTo(n + 1)[k] = k)
      BY DEF UpTo
    <3> HIDE DEF s
    <3> QED
      BY <3>1, <3>2, <3>3, <3>4
  <2> HIDE DEF s
  <2>3. s = UpTo(n + 1)
    BY <1>1, <2>1, <2>2, SeqEqual
  <2> QED
    BY <2>3 DEF s
<1>3. n + 1 \in Nat
  OBVIOUS
<1>4. Append(UpTo(n), n + 1) = UpTo(n) \o <<n + 1>>
  BY <1>1, <1>3, AppendIsConcat
<1> QED
  BY <1>1, <1>2, <1>4

\* Reading the first message of a queue: it has the next number or is of another kind.
LEMMA TakesFirst ==
    ASSUME NEW S, NEW q \in Seq(S), q # <<>>, NEW K \in SUBSET (1 .. Len(q)),
           \A k \in K : q[k].n \in Nat, NEW a \in Nat, NEW b \in Nat, Carries(q, K, a, b),
           NEW L, L = {k \in 1 .. Len(q) - 1 : k + 1 \in K}
    PROVE  /\ 1 \notin K => Carries(Tail(q), L, a, b)
           /\ 1 \in K => Head(q).n = a + 1 /\ a + 1 <= b /\ Carries(Tail(q), L, a + 1, b)
<1>1. Len(q) \in Nat /\ Head(q) = q[1] /\ Tail(q) \in Seq(S)
  OBVIOUS
<1>2. \A k \in L : k \in Nat /\ k + 1 \in K /\ k + 1 # 1 /\ Tail(q)[k] = q[k + 1]
  BY <1>1
<1>3. \A k \in K : k = 1 \/ (k - 1 \in L /\ (k - 1) + 1 = k)
  BY <1>1
<1>4. \A i, k \in L : i < k => Tail(q)[i].n < Tail(q)[k].n
  <2> TAKE i, k \in L
  <2>1. i < k => i + 1 < k + 1
    BY <1>2
  <2> QED
    BY <1>2, <2>1 DEF Carries
<1>5. {Tail(q)[k].n : k \in L} = {q[k].n : k \in K \ {1}}
  <2>1. ASSUME NEW k \in L PROVE Tail(q)[k].n \in {q[i].n : i \in K \ {1}}
    BY <1>2
  <2>2. ASSUME NEW k \in K \ {1} PROVE q[k].n \in {Tail(q)[i].n : i \in L}
    <3>1. k - 1 \in L /\ Tail(q)[k - 1] = q[k]
      BY <1>2, <1>3
    <3> QED
      BY <3>1
  <2> QED
    BY <2>1, <2>2
<1>6. ASSUME 1 \notin K PROVE Carries(Tail(q), L, a, b)
  <2>1. K \ {1} = K
    BY <1>6
  <2> QED
    BY <1>4, <1>5, <2>1 DEF Carries
<1>7. ASSUME 1 \in K PROVE Head(q).n = a + 1 /\ a + 1 <= b /\ Carries(Tail(q), L, a + 1, b)
  <2>1. q[1].n \in a + 1 .. b
    BY <1>7 DEF Carries
  <2>2. \A k \in K \ {1} : q[1].n < q[k].n /\ q[k].n \in a + 1 .. b
    <3> TAKE k \in K \ {1}
    <3>1. 1 < k
      BY <1>1
    <3> QED
      BY <1>7, <3>1 DEF Carries
  <2>3. q[1].n = a + 1
    <3> SUFFICES ASSUME q[1].n # a + 1 PROVE FALSE
      OBVIOUS
    <3>1. a + 1 \in a + 1 .. b
      BY <2>1
    <3>2. PICK k \in K : q[k].n = a + 1
      BY <3>1 DEF Carries
    <3>3. k # 1 /\ q[1].n < a + 1
      BY <2>2, <3>2
    <3> QED
      BY <2>1, <3>3
  <2>4. {q[k].n : k \in K \ {1}} = (a + 1) + 1 .. b
    <3>1. ASSUME NEW x \in (a + 1) + 1 .. b PROVE x \in {q[k].n : k \in K \ {1}}
      <4>1. x \in a + 1 .. b /\ x # a + 1
        OBVIOUS
      <4>2. PICK k \in K : q[k].n = x
        BY <4>1 DEF Carries
      <4> QED
        BY <2>3, <4>1, <4>2
    <3>2. ASSUME NEW k \in K \ {1} PROVE q[k].n \in (a + 1) + 1 .. b
      BY <2>2, <2>3
    <3> QED
      BY <3>1, <3>2
  <2>5. {Tail(q)[k].n : k \in L} = (a + 1) + 1 .. b
    BY <1>5, <2>4
  <2>6. Carries(Tail(q), L, a + 1, b)
    BY <1>4, <2>5 DEF Carries
  <2> QED
    BY <1>1, <2>1, <2>3, <2>6
<1> QED
  BY <1>6, <1>7

\* A message more at the end of a queue: of another kind, or with the next number.
LEMMA AddsLast ==
    ASSUME NEW S, NEW q \in Seq(S), NEW m \in S, NEW K \in SUBSET (1 .. Len(q)),
           \A k \in K : q[k].n \in Nat, NEW a \in Nat, NEW b \in Nat, Carries(q, K, a, b)
    PROVE  /\ Carries(Append(q, m), K, a, b)
           /\ a <= b /\ m.n = b + 1 => Carries(Append(q, m), K \cup {Len(q) + 1}, a, b + 1)
<1> DEFINE r == Append(q, m)
           N == Len(q) + 1
<1>1. Len(q) \in Nat /\ (\A k \in K : r[k] = q[k]) /\ r[N] = m
  BY AppendProperties
<1>2. \A k \in K : k \in Nat /\ k < N
  BY <1>1
<1> HIDE DEF r, N
<1>3. Carries(r, K, a, b)
  BY <1>1 DEF Carries
<1>4. ASSUME a <= b, m.n = b + 1 PROVE Carries(r, K \cup {N}, a, b + 1)
  <2>1. a + 1 .. b + 1 = (a + 1 .. b) \cup {b + 1}
    BY <1>4
  <2>2. {r[k].n : k \in K \cup {N}} = {r[k].n : k \in K} \cup {b + 1}
    BY <1>1, <1>4
  <2>3. \A k \in K : r[k].n < b + 1 /\ r[k].n \in Nat
    <3> TAKE k \in K
    <3>1. r[k].n \in a + 1 .. b
      BY <1>3 DEF Carries
    <3> QED
      BY <3>1
  <2>4. \A k \in K : ~(N < k)
    BY <1>1, <1>2 DEF N
  <2>5. ~(N < N)
    BY <1>1 DEF N
  <2> QED
    BY <1>1, <1>3, <1>4, <2>1, <2>2, <2>3, <2>4, <2>5 DEF Carries
<1> QED
  BY <1>3, <1>4 DEF r, N

LEMMA SentFacts ==
    ASSUME toClient \in Seq(ToClient), NEW t \in {"data", "ping"}
    PROVE  /\ Sent(t) = {k \in 1 .. Len(toClient) : toClient[k].type = t}
           /\ Sent(t) \in SUBSET (1 .. Len(toClient))
           /\ \A k \in Sent(t) : toClient[k].n \in Nat
<1>1. DOMAIN toClient = 1 .. Len(toClient) /\ \A k \in 1 .. Len(toClient) : toClient[k] \in ToClient
  OBVIOUS
<1>2. \A m \in ToClient : m.type = t => m.n \in Nat
  BY DEF ToClient
<1> QED
  BY <1>1, <1>2 DEF Sent

LEMMA PongFacts ==
    ASSUME toServer \in Seq(ToServer)
    PROVE  /\ Pongs = {k \in 1 .. Len(toServer) : toServer[k].op = "pong"}
           /\ Pongs \in SUBSET (1 .. Len(toServer))
           /\ \A k \in Pongs : toServer[k].n \in Nat
<1>1. DOMAIN toServer = 1 .. Len(toServer) /\ \A k \in 1 .. Len(toServer) : toServer[k] \in ToServer
  OBVIOUS
<1>2. \A m \in ToServer : m.op = "pong" => m.n \in Nat
  BY DEF ToServer
<1> QED
  BY <1>1, <1>2 DEF Pongs

\* on_message takes the message with the next number, or one of another kind.
LEMMA Reads ==
    ASSUME IInv, NEW branch, Message(branch), NEW t \in {"data", "ping"},
           NEW a \in Nat, NEW b \in Nat, Carries(toClient, Sent(t), a, b)
    PROVE  /\ Head(toClient).type # t => Carries(toClient', Sent(t)', a, b)
           /\ Head(toClient).type = t => Head(toClient).n = a + 1 /\ a + 1 <= b /\ Carries(toClient', Sent(t)', a + 1, b)
<1>1. toClient # <<>> /\ toClient' = Tail(toClient)
      /\ toClient \in Seq(ToClient) /\ toClient' \in Seq(ToClient)
  BY Taken DEF IInv, Shapes
<1>2. /\ Len(toClient') = Len(toClient) - 1 /\ Head(toClient) = toClient[1] /\ 1 \in 1 .. Len(toClient)
      /\ \A k \in 1 .. Len(toClient) - 1 : toClient'[k] = toClient[k + 1] /\ k + 1 \in 1 .. Len(toClient)
      /\ DOMAIN toClient' = 1 .. Len(toClient) - 1
  BY <1>1
<1>3. Sent(t)' = {k \in 1 .. Len(toClient) - 1 : k + 1 \in Sent(t)}
  BY <1>1, <1>2, SentFacts DEF Sent
<1>4. 1 \in Sent(t) <=> Head(toClient).type = t
  BY <1>1, <1>2, SentFacts
<1>5. /\ 1 \notin Sent(t) => Carries(Tail(toClient), Sent(t)', a, b)
      /\ 1 \in Sent(t) => Head(toClient).n = a + 1 /\ a + 1 <= b /\ Carries(Tail(toClient), Sent(t)', a + 1, b)
  BY <1>1, <1>3, SentFacts, TakesFirst
<1> QED
  BY <1>1, <1>4, <1>5

\* The server sends a message of another kind, or one with the next number.
LEMMA Says ==
    ASSUME IInv, NEW m \in ToClient, toClient' = Append(toClient, m), NEW t \in {"data", "ping"},
           NEW a \in Nat, NEW b \in Nat, Carries(toClient, Sent(t), a, b)
    PROVE  /\ m.type # t => Carries(toClient', Sent(t)', a, b)
           /\ m.type = t /\ a <= b /\ m.n = b + 1 => Carries(toClient', Sent(t)', a, b + 1)
<1>1. toClient \in Seq(ToClient) /\ toClient' = Append(toClient, m)
  BY DEF IInv, Shapes
<1>2. /\ Len(toClient') = Len(toClient) + 1 /\ Len(toClient) \in Nat
      /\ \A k \in 1 .. Len(toClient) : toClient'[k] = toClient[k]
      /\ toClient'[Len(toClient) + 1] = m
      /\ DOMAIN toClient' = 1 .. Len(toClient) + 1
  BY <1>1, AppendProperties
<1>3. \A k \in 1 .. Len(toClient) + 1 : k \in 1 .. Len(toClient) \/ k = Len(toClient) + 1
  BY <1>2
<1>4. \A k \in 1 .. Len(toClient) : k \in 1 .. Len(toClient) + 1 /\ k # Len(toClient) + 1
  BY <1>2
<1>5. Sent(t)' = IF m.type = t THEN Sent(t) \cup {Len(toClient) + 1} ELSE Sent(t)
  <2>1. Sent(t)' = {k \in 1 .. Len(toClient) + 1 : toClient'[k].type = t}
    BY <1>2 DEF Sent
  <2>2. Sent(t) = {k \in 1 .. Len(toClient) : toClient[k].type = t}
    BY <1>1, SentFacts
  <2>3. Len(toClient) + 1 \in 1 .. Len(toClient) + 1
    BY <1>2
  <2> QED
    BY <1>2, <1>3, <1>4, <2>1, <2>2, <2>3
<1>6. /\ Carries(Append(toClient, m), Sent(t), a, b)
      /\ a <= b /\ m.n = b + 1 => Carries(Append(toClient, m), Sent(t) \cup {Len(toClient) + 1}, a, b + 1)
  BY <1>1, SentFacts, AddsLast
<1> QED
  BY <1>1, <1>5, <1>6

\* The same of the queue to the server.
LEMMA Hears ==
    ASSUME IInv, toServer # <<>>, toServer' = Tail(toServer),
           NEW a \in Nat, NEW b \in Nat, Carries(toServer, Pongs, a, b)
    PROVE  /\ Head(toServer).op # "pong" => Carries(toServer', Pongs', a, b)
           /\ Head(toServer).op = "pong"
                => Head(toServer).n = a + 1 /\ a + 1 <= b /\ Carries(toServer', Pongs', a + 1, b)
<1>1. toServer \in Seq(ToServer)
  BY DEF IInv, Shapes
<1>2. /\ Len(toServer') = Len(toServer) - 1 /\ Head(toServer) = toServer[1] /\ 1 \in 1 .. Len(toServer)
      /\ \A k \in 1 .. Len(toServer) - 1 : toServer'[k] = toServer[k + 1] /\ k + 1 \in 1 .. Len(toServer)
      /\ DOMAIN toServer' = 1 .. Len(toServer) - 1
  BY <1>1
<1>3. Pongs' = {k \in 1 .. Len(toServer) - 1 : k + 1 \in Pongs}
  BY <1>1, <1>2, PongFacts DEF Pongs
<1>4. 1 \in Pongs <=> Head(toServer).op = "pong"
  BY <1>1, <1>2, PongFacts
<1>5. /\ 1 \notin Pongs => Carries(Tail(toServer), Pongs', a, b)
      /\ 1 \in Pongs => Head(toServer).n = a + 1 /\ a + 1 <= b /\ Carries(Tail(toServer), Pongs', a + 1, b)
  BY <1>1, <1>3, PongFacts, TakesFirst
<1> QED
  BY <1>4, <1>5

LEMMA Asks ==
    ASSUME IInv, NEW m \in ToServer, toServer' = Append(toServer, m),
           NEW a \in Nat, NEW b \in Nat, Carries(toServer, Pongs, a, b)
    PROVE  /\ m.op # "pong" => Carries(toServer', Pongs', a, b)
           /\ m.op = "pong" /\ a <= b /\ m.n = b + 1 => Carries(toServer', Pongs', a, b + 1)
<1>1. toServer \in Seq(ToServer)
  BY DEF IInv, Shapes
<1>2. /\ Len(toServer') = Len(toServer) + 1 /\ Len(toServer) \in Nat
      /\ \A k \in 1 .. Len(toServer) : toServer'[k] = toServer[k]
      /\ toServer'[Len(toServer) + 1] = m
      /\ DOMAIN toServer' = 1 .. Len(toServer) + 1
  BY <1>1, AppendProperties
<1>3. \A k \in 1 .. Len(toServer) + 1 : k \in 1 .. Len(toServer) \/ k = Len(toServer) + 1
  BY <1>2
<1>4. \A k \in 1 .. Len(toServer) : k \in 1 .. Len(toServer) + 1 /\ k # Len(toServer) + 1
  BY <1>2
<1>5. Pongs' = IF m.op = "pong" THEN Pongs \cup {Len(toServer) + 1} ELSE Pongs
  <2>1. Pongs' = {k \in 1 .. Len(toServer) + 1 : toServer'[k].op = "pong"}
    BY <1>2 DEF Pongs
  <2>2. Pongs = {k \in 1 .. Len(toServer) : toServer[k].op = "pong"}
    BY <1>1, PongFacts
  <2>3. Len(toServer) + 1 \in 1 .. Len(toServer) + 1
    BY <1>2
  <2> QED
    BY <1>2, <1>3, <1>4, <2>1, <2>2, <2>3
<1>6. /\ Carries(Append(toServer, m), Pongs, a, b)
      /\ a <= b /\ m.n = b + 1 => Carries(Append(toServer, m), Pongs \cup {Len(toServer) + 1}, a, b + 1)
  BY <1>1, PongFacts, AddsLast
<1> QED
  BY <1>5, <1>6

\* What the server does with a message: a pong it remembers, and anything else it
\* answers with one message, an update of its own among them if it asks for data.
Answers(r) ==
    /\ r \in ToClient /\ toClient' = Append(toClient, r) /\ r.type # "ping"
    /\ server'.ponged = server.ponged
    /\ \/ r.type = "data" /\ r.n = server.pushed + 1 /\ server'.pushed = server.pushed + 1
       \/ r.type # "data" /\ server'.pushed = server.pushed
LEMMA Replies ==
    ASSUME IInv, Serve
    PROVE  /\ link = "up" /\ toServer # <<>> /\ toServer' = Tail(toServer) /\ Head(toServer) \in ToServer
           /\ UNCHANGED <<kind, link, loop, todo, delivered, refused, reported, drops>>
           /\ server'.pinged = server.pinged
           /\ \/ /\ Head(toServer).op = "pong" /\ UNCHANGED toClient
                 /\ server'.ponged = Append(server.ponged, Head(toServer).n)
                 /\ server'.pushed = server.pushed /\ server'.asked = server.asked
              \/ /\ Head(toServer).op = "auth"
                 /\ (\E r \in ToClient : Answers(r)) /\ server'.asked = server.asked
              \/ /\ Head(toServer).op = "sub"
                 /\ (\E r \in ToClient : r.type # "auth" /\ Answers(r))
                 /\ server'.asked = Append(server.asked, Head(toServer).topic)
<1> DEFINE m == Head(toServer)
<1>1. link = "up" /\ toServer # <<>> /\ toServer' = Tail(toServer)
      /\ UNCHANGED <<kind, link, loop, todo, delivered, refused, reported, drops>>
  BY DEF Serve
<1>2. m \in ToServer /\ server \in Server
  BY <1>1, Travels DEF IInv, Shapes
<1>3. CASE m.op = "auth" /\ Authenticate
  <2>1. CASE answer(Form("auth", 0)) /\ server' = [server EXCEPT !.authed = TRUE]
    <3>1. server'.pinged = server.pinged /\ server'.pushed = server.pushed
          /\ server'.ponged = server.ponged /\ server'.asked = server.asked
      BY <1>2, <2>1 DEF Server
    <3>2. Form("auth", 0) \in ToClient /\ Form("auth", 0).type = "auth"
      BY Formed DEF Types, IInv, Shapes
    <3>3. Answers(Form("auth", 0))
      BY <2>1, <3>1, <3>2 DEF Answers, answer
    <3> QED
      BY <1>1, <1>2, <1>3, <3>1, <3>2, <3>3
  <2>2. CASE Refuse("auth") /\ server' = [server EXCEPT !.refused = @ \cup {"auth"}]
    <3>1. server'.pinged = server.pinged /\ server'.pushed = server.pushed
          /\ server'.ponged = server.ponged /\ server'.asked = server.asked
      BY <1>2, <2>2 DEF Server
    <3>2. PICK of \in Name : of = "auth"
      BY DEF Name
    <3>3. PICK r \in ToClient : r.type = "refusal" /\ toClient' = Append(toClient, r)
      BY <2>2, <3>2, Refused
    <3>4. Answers(r)
      BY <3>1, <3>3 DEF Answers
    <3> QED
      BY <1>1, <1>2, <1>3, <3>1, <3>3, <3>4
  <2> QED
    BY <1>3, <2>1, <2>2 DEF Authenticate
<1>4. CASE m.op = "sub" /\ Accept(m.topic)
  <2> DEFINE t == m.topic
             asked == [server EXCEPT !.asked = Append(@, t)]
  <2>1. t \in Name
    BY <1>2, <1>4 DEF ToServer
  <2>2. asked.pinged = server.pinged /\ asked.pushed = server.pushed
        /\ asked.ponged = server.ponged /\ asked.asked = Append(server.asked, t)
        /\ asked \in [authed : BOOLEAN, asked : {Append(server.asked, t)}, topics : SUBSET Name,
                      refused : SUBSET Name, pushed : Nat, pinged : Nat, ponged : Seq(Nat)]
    BY <1>2 DEF Server
  <2>3. CASE answer(Form("ack", 0)) /\ server' = [asked EXCEPT !.topics = @ \cup {t}]
    <3>1. Form("ack", 0) \in ToClient /\ Form("ack", 0).type = "ack"
      BY Formed DEF Types, IInv, Shapes
    <3> HIDE DEF asked
    <3>2. server'.pinged = server.pinged /\ server'.pushed = server.pushed
          /\ server'.ponged = server.ponged /\ server'.asked = Append(server.asked, t)
      BY <2>2, <2>3
    <3>3. Answers(Form("ack", 0))
      BY <2>3, <3>1, <3>2 DEF Answers, answer
    <3> QED
      BY <1>1, <1>2, <1>4, <3>1, <3>2, <3>3
  <2>4. CASE /\ answer(Form("data", server.pushed + 1))
             /\ server' = [asked EXCEPT !.pushed = @ + 1]
    <3> DEFINE r == Form("data", server.pushed + 1)
    <3>1. r \in ToClient /\ r.type = "data" /\ r.n = server.pushed + 1
      BY <1>2, Formed DEF Types, Server, IInv, Shapes
    <3>2. toClient' = Append(toClient, r)
      BY <2>4 DEF answer
    <3> HIDE DEF asked, r
    <3>3. server'.pinged = server.pinged /\ server'.pushed = server.pushed + 1
          /\ server'.ponged = server.ponged /\ server'.asked = Append(server.asked, t)
      BY <2>2, <2>4
    <3>4. Answers(r)
      BY <3>1, <3>2, <3>3 DEF Answers
    <3> QED
      BY <1>1, <1>2, <1>4, <3>1, <3>3, <3>4
  <2>5. CASE Refuse(t) /\ server' = [asked EXCEPT !.refused = @ \cup {t}]
    <3>1. PICK r \in ToClient : r.type = "refusal" /\ toClient' = Append(toClient, r)
      BY <2>1, <2>5, Refused
    <3>2. toClient' = Append(toClient, r)
      BY <3>1
    <3> HIDE DEF asked
    <3>3. server'.pinged = server.pinged /\ server'.pushed = server.pushed
          /\ server'.ponged = server.ponged /\ server'.asked = Append(server.asked, t)
      BY <2>2, <2>5
    <3>4. Answers(r)
      BY <3>1, <3>2, <3>3 DEF Answers
    <3> QED
      BY <1>1, <1>2, <1>4, <3>1, <3>3, <3>4
  <2> QED
    BY <1>4, <2>3, <2>4, <2>5 DEF Accept
<1>5. CASE m.op = "pong" /\ server' = [server EXCEPT !.ponged = Append(@, m.n)] /\ UNCHANGED toClient
  <2>1. server'.pinged = server.pinged /\ server'.pushed = server.pushed
        /\ server'.ponged = Append(server.ponged, m.n) /\ server'.asked = server.asked
    BY <1>2, <1>5 DEF Server
  <2> QED
    BY <1>1, <1>2, <1>5, <2>1
<1> QED
  BY <1>3, <1>4, <1>5 DEF Serve

\* The messages the server sends of itself.
LEMMA Sends ==
    ASSUME IInv
    PROVE  /\ Push => /\ \E m \in ToClient : /\ toClient' = Append(toClient, m)
                                           /\ m.type = "data" /\ m.n = server.pushed + 1
                      /\ server'.pushed = server.pushed + 1
                      /\ server'.pinged = server.pinged /\ server'.ponged = server.ponged
                      /\ server'.asked = server.asked /\ link = "up"
           /\ Ping => /\ \E m \in ToClient : /\ toClient' = Append(toClient, m)
                                           /\ m.type = "ping" /\ m.n = server.pinged + 1
                      /\ server'.pinged = server.pinged + 1
                      /\ server'.pushed = server.pushed /\ server'.ponged = server.ponged
                      /\ server'.asked = server.asked /\ link = "up" /\ loop # "new"
           /\ PushBlank => /\ \E m \in ToClient : toClient' = Append(toClient, m) /\ m.type = "blank"
                           /\ UNCHANGED server /\ link = "up"
<1>1. server \in Server /\ kind \in Kinds /\ server.pushed + 1 \in Nat /\ server.pinged + 1 \in Nat
  BY DEF IInv, Shapes, Server
<1>2. ASSUME Push
      PROVE  /\ \E m \in ToClient : toClient' = Append(toClient, m) /\ m.type = "data" /\ m.n = server.pushed + 1
             /\ server'.pushed = server.pushed + 1
             /\ server'.pinged = server.pinged /\ server'.ponged = server.ponged
             /\ server'.asked = server.asked /\ link = "up"
  <2> DEFINE m == Form("data", server.pushed + 1)
  <2>1. link = "up" /\ server' = [server EXCEPT !.pushed = @ + 1] /\ toClient' = Append(toClient, m)
    BY <1>2 DEF Push, answer
  <2>2. m \in ToClient /\ m.type = "data" /\ m.n = server.pushed + 1
    BY <1>1, Formed DEF Types
  <2> HIDE DEF m
  <2>3. server'.pushed = server.pushed + 1 /\ server'.pinged = server.pinged
        /\ server'.ponged = server.ponged /\ server'.asked = server.asked
    BY <1>1, <2>1 DEF Server
  <2> QED
    BY <2>1, <2>2, <2>3
<1>3. ASSUME Ping
      PROVE  /\ \E m \in ToClient : toClient' = Append(toClient, m) /\ m.type = "ping" /\ m.n = server.pinged + 1
             /\ server'.pinged = server.pinged + 1
             /\ server'.pushed = server.pushed /\ server'.ponged = server.ponged
             /\ server'.asked = server.asked /\ link = "up" /\ loop # "new"
  <2> DEFINE m == Form("ping", server.pinged + 1)
  <2>1. /\ link = "up" /\ loop # "new" /\ server' = [server EXCEPT !.pinged = @ + 1]
        /\ toClient' = Append(toClient, m)
    BY <1>3 DEF Ping, answer
  <2>2. m \in ToClient /\ m.type = "ping" /\ m.n = server.pinged + 1
    BY <1>1, Formed DEF Types
  <2> HIDE DEF m
  <2>3. server'.pinged = server.pinged + 1 /\ server'.pushed = server.pushed
        /\ server'.ponged = server.ponged /\ server'.asked = server.asked
    BY <1>1, <2>1 DEF Server
  <2> QED
    BY <2>1, <2>2, <2>3
<1>4. ASSUME PushBlank
      PROVE  /\ \E m \in ToClient : toClient' = Append(toClient, m) /\ m.type = "blank"
             /\ UNCHANGED server /\ link = "up"
  <2>1. link = "up" /\ kind.line = "v2" /\ UNCHANGED server /\ toClient' = Append(toClient, Form("blank", 0))
    BY <1>4 DEF PushBlank, answer
  <2>2. Form("blank", 0) \in ToClient /\ Form("blank", 0).type = "blank"
    BY <1>1, <2>1, Formed DEF Types
  <2> QED
    BY <2>1, <2>2
<1> QED
  BY <1>2, <1>3, <1>4

LEMMA NothingCarries ==
    ASSUME toClient = <<>>, toServer = <<>>
    PROVE  Carries(toClient, Sent("data"), 0, 0) /\ Carries(toClient, Sent("ping"), 0, 0)
           /\ Carries(toServer, Pongs, 0, 0)
<1>1. Sent("data") = {} /\ Sent("ping") = {} /\ Pongs = {}
  BY DEF Sent, Pongs
<1>2. 0 + 1 .. 0 = {}
  OBVIOUS
<1> QED
  BY <1>1, <1>2 DEF Carries

-----------------------------------------------------------------------------
(* Pings.                                                                  *)

LEMMA PingsStart == Init => AnswersPings
<1> SUFFICES ASSUME Init PROVE AnswersPings
  OBVIOUS
<1>1. server.ponged = <<>> /\ server.pinged = 0 /\ Len(server.ponged) = 0
  BY DEF Init, NewServer
<1>2. UpTo(0) = <<>>
  BY DEF UpTo
<1>3. 0 \in 0 .. 0
  OBVIOUS
<1> QED
  BY <1>1, <1>2, <1>3, NothingCarries DEF Init, AnswersPings

LEMMA PingsStep == IInv /\ AnswersPings /\ [Next]_vars => AnswersPings'
<1> SUFFICES ASSUME IInv, AnswersPings, [Next]_vars, link' = "up" PROVE AnswersPings'
  BY DEF AnswersPings
<1> DEFINE p == Len(server.ponged)
           r == server.pinged
<1>1. p \in Nat /\ r \in Nat /\ server.ponged \in Seq(Nat) /\ toServer \in Seq(ToServer)
  BY DEF IInv, Shapes, Server
\* What a step has to say of the numbers, once the link was up.
<1>2. ASSUME link = "up",
             NEW q \in Nat, q <= r, Carries(toServer, Pongs, p, q), p <= q,
             Carries(toClient, Sent("ping"), q, r), server.ponged = UpTo(p)
      PROVE  AnswersPings'
  <2>1. ASSUME UNCHANGED server, Carries(toServer', Pongs', p, q), Carries(toClient', Sent("ping")', q, r)
        PROVE  AnswersPings'
    BY <1>1, <1>2, <2>1 DEF AnswersPings
  <2>2. ASSUME NEW branch, branch # "ping", Message(branch), UNCHANGED toServer PROVE AnswersPings'
    <3>1. UNCHANGED server /\ Head(toClient).type # "ping"
      BY <2>2, Taken
    <3>2. Carries(toClient', Sent("ping")', q, r)
      BY <1>1, <1>2, <2>2, <3>1, Reads
    <3>3. Carries(toServer', Pongs', p, q)
      BY <1>2, <2>2 DEF Pongs
    <3> QED
      BY <2>1, <3>1, <3>2, <3>3
  <2>3. ASSUME UNCHANGED <<toClient, server>>, NEW m \in ToServer, m.op # "pong", toServer' = Append(toServer, m)
        PROVE  AnswersPings'
    <3>1. Carries(toServer', Pongs', p, q)
      BY <1>1, <1>2, <2>3, Asks
    <3>2. Carries(toClient', Sent("ping")', q, r)
      BY <1>2, <2>3 DEF Sent
    <3> QED
      BY <2>1, <2>3, <3>1, <3>2
  <2>4. ASSUME UNCHANGED <<toClient, toServer, server>> PROVE AnswersPings'
    BY <2>1, <2>4, <1>2 DEF Sent, Pongs
  <2>5. CASE Open
    <3>1. [op |-> "auth"] \in ToServer /\ [op |-> "auth"].op # "pong"
      BY DEF ToServer
    <3>2. UNCHANGED <<toClient, server>> /\ (toServer' = Append(toServer, [op |-> "auth"]) \/ UNCHANGED toServer)
      BY <2>5 DEF Open, send
    <3> QED
      BY <2>3, <2>4, <3>1, <3>2
  <2>6. CASE Subscribe
    <3> DEFINE m == [op |-> "sub", key |-> kind.key, topic |-> Head(todo)]
    <3>1. UNCHANGED <<toClient, server>> /\ loop = "sending"
          /\ ((todo # <<>> /\ toServer' = Append(toServer, m)) \/ UNCHANGED toServer)
      BY <2>6 DEF Subscribe, send
    <3>2. todo # <<>> => Head(todo) \in Name
      BY <3>1, Travels DEF IInv, Shapes
    <3>3. todo # <<>> => m \in ToServer /\ m.op # "pong"
      BY <3>2 DEF ToServer, IInv, Shapes, Kinds
    <3> HIDE DEF m
    <3> QED
      BY <2>3, <2>4, <3>1, <3>3
  <2>7. CASE OnAuth \/ OnLog \/ OnFailure \/ Receive
    <3>1. PICK branch \in {"subscribe", "ignore", "log", "error", "receive"} : Message(branch) /\ UNCHANGED toServer
      BY <2>7 DEF OnAuth, OnLog, OnFailure, Receive
    <3> QED
      BY <2>2, <3>1
  <2>8. CASE OnPing
    <3>1. Message("ping") /\ toServer' = Append(toServer, [op |-> "pong", n |-> Head(toClient).n])
      BY <2>8 DEF OnPing, send
    <3>2. Head(toClient).n = q + 1 /\ q + 1 <= r /\ Carries(toClient', Sent("ping")', q + 1, r)
          /\ UNCHANGED server
      BY <1>1, <1>2, <3>1, Reads, Taken
    <3> DEFINE m == [op |-> "pong", n |-> q + 1]
    <3>3. m \in ToServer /\ m.op = "pong" /\ m.n = q + 1
      BY DEF ToServer
    <3>4. toServer' = Append(toServer, m)
      BY <3>1, <3>2
    <3> HIDE DEF m
    <3>5. Carries(toServer', Pongs', p, q + 1)
      BY <1>1, <1>2, <3>3, <3>4, Asks
    <3>6. q + 1 \in p .. r
      BY <1>1, <1>2, <3>2
    <3> QED
      BY <1>2, <3>2, <3>5, <3>6 DEF AnswersPings
  <2>9. CASE Serve
    <3>1. /\ toServer # <<>> /\ toServer' = Tail(toServer) /\ Head(toServer) \in ToServer
          /\ server'.pinged = r
      BY <2>9, Replies
    <3>2. CASE Head(toServer).op = "pong"
      <4>1. server'.ponged = Append(server.ponged, Head(toServer).n) /\ UNCHANGED toClient
        BY <2>9, <3>2, Replies
      <4>2. Head(toServer).n = p + 1 /\ p + 1 <= q /\ Carries(toServer', Pongs', p + 1, q)
        BY <1>1, <1>2, <3>1, <3>2, Hears
      <4>3. server'.ponged = UpTo(p + 1) /\ Len(server'.ponged) = p + 1
        <5>1. server'.ponged = Append(UpTo(p), p + 1) /\ p + 1 \in Nat
          BY <1>1, <1>2, <4>1, <4>2
        <5>2. Append(UpTo(p), p + 1) = UpTo(p + 1)
          BY <1>1, UpToFacts
        <5>3. Len(UpTo(p + 1)) = p + 1
          BY <5>1, UpToFacts
        <5> QED
          BY <5>1, <5>2, <5>3
      <4>4. Carries(toClient', Sent("ping")', q, r)
        BY <1>2, <4>1 DEF Sent
      <4>5. q \in p + 1 .. r
        BY <1>1, <1>2, <4>2
      <4> QED
        BY <3>1, <4>2, <4>3, <4>4, <4>5 DEF AnswersPings
    <3>3. CASE Head(toServer).op # "pong"
      <4>1. PICK a \in ToClient : Answers(a)
        BY <2>9, <3>3, Replies
      <4>2. server'.ponged = server.ponged /\ toClient' = Append(toClient, a) /\ a.type # "ping"
        BY <4>1 DEF Answers
      <4>3. Carries(toServer', Pongs', p, q)
        BY <1>1, <1>2, <3>1, <3>3, Hears
      <4>4. Carries(toClient', Sent("ping")', q, r)
        BY <1>1, <1>2, <4>2, Says
      <4> QED
        BY <1>1, <1>2, <3>1, <4>2, <4>3, <4>4 DEF AnswersPings
    <3> QED
      BY <3>2, <3>3
  <2>10. CASE Push \/ PushBlank
    <3>1. PICK m \in ToClient :
          /\ toClient' = Append(toClient, m) /\ m.type # "ping"
          /\ server'.pinged = r /\ server'.ponged = server.ponged /\ UNCHANGED toServer
      BY <2>10, Sends DEF Push, PushBlank
    <3>2. Carries(toClient', Sent("ping")', q, r)
      BY <1>1, <1>2, <3>1, Says
    <3>3. Carries(toServer', Pongs', p, q)
      BY <1>2, <3>1 DEF Pongs
    <3> QED
      BY <1>1, <1>2, <3>1, <3>2, <3>3 DEF AnswersPings
  <2>11. CASE Ping
    <3>1. PICK m \in ToClient :
          /\ toClient' = Append(toClient, m) /\ m.type = "ping" /\ m.n = r + 1
          /\ server'.pinged = r + 1 /\ server'.ponged = server.ponged /\ UNCHANGED toServer
      BY <2>11, Sends DEF Ping
    <3>2. Carries(toClient', Sent("ping")', q, r + 1)
      BY <1>1, <1>2, <3>1, Says
    <3>3. Carries(toServer', Pongs', p, q)
      BY <1>2, <3>1 DEF Pongs
    <3>4. q \in p .. r + 1
      BY <1>1, <1>2
    <3> QED
      BY <1>1, <1>2, <3>1, <3>2, <3>3, <3>4 DEF AnswersPings
  <2>12. CASE Deliver
    BY <2>4, <2>12 DEF Deliver
  <2>13. CASE UserClose
    BY <2>13 DEF UserClose
  <2>14. CASE Drop
    BY <2>14 DEF Drop
  <2>15. CASE Reconnect
    BY <1>2, <2>15 DEF Reconnect
  <2>16. CASE UNCHANGED vars
    BY <2>4, <2>16 DEF vars
  <2> QED
    BY <2>5, <2>6, <2>7, <2>8, <2>9, <2>10, <2>11, <2>12, <2>13, <2>14, <2>15, <2>16 DEF Next, Loop, OnMessage
<1>3. ASSUME link # "up" PROVE AnswersPings'
  <2>1. Reconnect
    BY <1>3, Replies, Sends
    DEF Next, Loop, OnMessage, Open, Subscribe, OnAuth, OnLog, OnFailure, OnPing, Receive, Message,
        Deliver, UserClose, Drop, vars
  <2>2. link = "broken" /\ server' = NewServer /\ UNCHANGED <<toServer, toClient>>
    BY <2>1 DEF Reconnect
  <2>3. toServer = <<>> /\ toClient = <<>>
    BY <2>2 DEF IInv, NothingTravels
  <2>4. server'.ponged = <<>> /\ server'.pinged = 0 /\ Len(server'.ponged) = 0 /\ UpTo(0) = <<>>
    BY <2>2 DEF NewServer, UpTo
  <2>5. Carries(toServer', Pongs', 0, 0) /\ Carries(toClient', Sent("ping")', 0, 0)
    BY <2>2, <2>3, NothingCarries DEF Sent, Pongs
  <2>6. 0 \in 0 .. 0
    OBVIOUS
  <2> QED
    BY <2>4, <2>5, <2>6 DEF AnswersPings
<1>4. ASSUME link = "up" PROVE AnswersPings'
  <2>1. PICK q \in p .. r : Carries(toServer, Pongs, p, q) /\ Carries(toClient, Sent("ping"), q, r)
    BY <1>4 DEF AnswersPings
  <2>2. q \in Nat /\ p <= q /\ q <= r
    BY <1>1
  <2> QED
    BY <1>2, <1>4, <2>1, <2>2 DEF AnswersPings
<1> QED
  BY <1>3, <1>4

\* Every ping that reaches the client is answered with its own number, once and in the
\* order of the pings, whatever else travels; no pong of an earlier connection is sent.
THEOREM PingsAreAnswered == Spec => []AnswersPings
  BY Start, Step, PingsStart, PingsStep, PTL DEF Spec

-----------------------------------------------------------------------------
(* Updates.                                                                *)

\* What has reached the loop's thread of the updates.
Got == delivered \o (IF loop = "receiving" THEN todo ELSE <<>>)
Hands == delivered \in Seq(Nat) /\ (loop = "receiving" => \E n \in Nat : todo = <<n>>)
InOrder == Hands /\ DeliversInOrder

LEMMA GotFacts ==
    ASSUME Hands
    PROVE  /\ Got \in Seq(Nat) /\ Len(Got) \in Nat
           /\ loop # "receiving" => Got = delivered
           /\ loop = "receiving" => todo \in Seq(Nat) /\ Got = delivered \o todo
<1>1. delivered \in Seq(Nat) /\ <<>> \in Seq(Nat) /\ delivered \o <<>> = delivered
  BY ConcatEmptySeq DEF Hands
<1>2. loop = "receiving" => todo \in Seq(Nat)
  <2> SUFFICES ASSUME loop = "receiving" PROVE todo \in Seq(Nat)
    OBVIOUS
  <2>1. PICK n \in Nat : todo = <<n>>
    BY DEF Hands
  <2>2. <<n>> \in Seq(Nat)
    OBVIOUS
  <2> QED
    BY <2>1, <2>2
<1>3. CASE loop = "receiving"
  BY <1>1, <1>2, <1>3, ConcatProperties DEF Got
<1>4. CASE loop # "receiving"
  BY <1>1, <1>4 DEF Got
<1> QED
  BY <1>3, <1>4

LEMMA OrderStart == Init => InOrder
<1> SUFFICES ASSUME Init PROVE InOrder
  OBVIOUS
<1>1. Hands /\ Got = <<>> /\ Len(Got) = 0
  BY DEF Init, Hands, Got
<1>2. UpTo(0) = <<>> /\ server.pushed = 0
  BY DEF UpTo, Init, NewServer
<1> QED
  BY <1>1, <1>2, NothingCarries DEF Init, InOrder, DeliversInOrder, Got

LEMMA OrderStep == IInv /\ InOrder /\ [Next]_vars => InOrder'
<1> SUFFICES ASSUME IInv, InOrder, [Next]_vars PROVE InOrder'
  OBVIOUS
<1> DEFINE d == Len(Got)
           b == server.pushed
<1>1. /\ Hands /\ d \in Nat /\ b \in Nat /\ Got = UpTo(d) /\ d <= b
      /\ link = "up" => Carries(toClient, Sent("data"), d, b)
  BY GotFacts DEF IInv, Shapes, Server, InOrder, DeliversInOrder, Got
\* Nothing new has reached the loop's thread.
<1>2. ASSUME Hands', Got' = Got, server'.pushed = b,
             link' = "up" => Carries(toClient', Sent("data")', d, b)
      PROVE  InOrder'
  BY <1>1, <1>2 DEF InOrder, DeliversInOrder, Got
<1>3. ASSUME UNCHANGED <<loop, delivered, todo>> \/ (UNCHANGED delivered /\ loop # "receiving" /\ loop' # "receiving")
      PROVE  Hands' /\ Got' = Got
  BY <1>1, <1>3 DEF Hands, Got
<1>4. ASSUME UNCHANGED <<toClient, server>>, link' = "up" => link = "up", Hands', Got' = Got PROVE InOrder'
  BY <1>1, <1>2, <1>4 DEF Sent
<1>5. CASE Open \/ Subscribe
  <2>1. UNCHANGED <<toClient, server, link, delivered>> /\ loop # "receiving" /\ loop' # "receiving"
    BY <1>5 DEF Open, Subscribe
  <2> QED
    BY <2>1, <1>3, <1>4
<1>6. CASE OnAuth \/ OnLog \/ OnFailure \/ OnPing
  <2>1. PICK branch \in {"subscribe", "ignore", "log", "error", "ping"} : Message(branch)
    BY <1>6 DEF OnAuth, OnLog, OnFailure, OnPing
  <2>2. loop = "idle" /\ loop' # "receiving" /\ UNCHANGED <<link, delivered, server>> /\ link = "up"
    BY <1>6 DEF OnAuth, OnLog, OnFailure, OnPing, Message
  <2>3. Head(toClient).type # "data"
    BY <2>1, Taken
  <2>4. Carries(toClient', Sent("data")', d, b)
    BY <1>1, <2>1, <2>2, <2>3, Reads
  <2>5. Hands' /\ Got' = Got
    BY <1>3, <2>2
  <2> QED
    BY <1>2, <2>2, <2>5, <2>4
<1>7. CASE Receive
  <2>1. /\ Message("receive") /\ loop' = "receiving" /\ todo' = <<Head(toClient).n>>
        /\ loop = "idle" /\ link = "up" /\ UNCHANGED <<link, delivered, server>>
    BY <1>7 DEF Receive, Message
  <2>2. /\ Head(toClient).n = d + 1 /\ d + 1 <= b
        /\ Carries(toClient', Sent("data")', d + 1, b)
    BY <1>1, <2>1, Reads, Taken
  <2>3. Hands'
    BY <1>1, <2>1, <2>2 DEF Hands
  <2>4. Got' = UpTo(d) \o <<d + 1>>
    <3>1. Got' = delivered \o <<d + 1>>
      BY <2>1, <2>2 DEF Got
    <3>2. delivered = UpTo(d)
      <4>1. Got = delivered
        BY <1>1, <2>1, GotFacts
      <4>2. Got = UpTo(d)
        BY <1>1
      <4> HIDE DEF d
      <4> QED
        BY <4>1, <4>2
    <3> QED
      BY <3>1, <3>2
  <2>5. Got' = UpTo(d + 1) /\ Len(UpTo(d + 1)) = d + 1
    <3>1. d + 1 \in Nat /\ UpTo(d) \o <<d + 1>> = UpTo(d + 1)
      <4>1. d \in Nat
        BY <1>1
      <4> HIDE DEF d
      <4> QED
        BY <4>1, UpToFacts
    <3> QED
      BY <2>4, <3>1, UpToFacts
  <2> QED
    BY <2>1, <2>2, <2>3, <2>5 DEF InOrder, DeliversInOrder, Got
<1>8. CASE Deliver
  <2>1. /\ loop = "receiving" /\ loop' = "idle" /\ delivered' = delivered \o todo
        /\ UNCHANGED <<toClient, server>> /\ (link' = "up" => link = "up")
    BY <1>8 DEF Deliver
  <2>2. todo \in Seq(Nat) /\ Got = delivered \o todo /\ Got \in Seq(Nat)
    BY <1>1, <2>1, GotFacts
  <2>3. Hands'
    BY <2>1, <2>2 DEF Hands
  <2>4. Got' = Got
    BY <2>1, <2>2, ConcatEmptySeq DEF Got
  <2> QED
    BY <1>4, <2>1, <2>3, <2>4
<1>9. CASE Reconnect
  <2>1. /\ link = "broken" /\ loop' = "new" /\ server' = NewServer /\ delivered' = <<>>
        /\ UNCHANGED <<toServer, toClient>>
    BY <1>9 DEF Reconnect
  <2>2. toServer = <<>> /\ toClient = <<>>
    BY <2>1 DEF IInv, NothingTravels
  <2>3. Hands' /\ Got' = <<>> /\ Len(Got') = 0 /\ server'.pushed = 0 /\ UpTo(0) = <<>>
    BY <2>1 DEF Hands, Got, NewServer, UpTo
  <2>4. Carries(toClient', Sent("data")', 0, 0)
    BY <2>1, <2>2, NothingCarries DEF Sent
  <2>5. Got' = UpTo(Len(Got')) /\ Len(Got') <= server'.pushed
        /\ Carries(toClient', Sent("data")', Len(Got'), server'.pushed)
    <3>1. 0 <= 0
      OBVIOUS
    <3> QED
      BY <2>3, <2>4, <3>1
  <2> QED
    BY <2>3, <2>5 DEF InOrder, DeliversInOrder, Got
<1>10. CASE UserClose \/ Drop
  <2>1. UNCHANGED <<loop, delivered, todo, server>> /\ link' # "up"
    BY <1>10 DEF UserClose, Drop
  <2> QED
    BY <1>2, <1>3, <2>1
<1>11. CASE Serve
  <2>1. link = "up" /\ UNCHANGED <<loop, delivered, todo, link>>
    BY <1>11, Replies
  <2>2. CASE UNCHANGED toClient /\ server'.pushed = b
    <3>1. Carries(toClient', Sent("data")', d, b)
      BY <1>1, <2>1, <2>2 DEF Sent
    <3> QED
      BY <1>2, <1>3, <2>1, <2>2, <3>1
  <2>3. ASSUME NEW r \in ToClient, Answers(r) PROVE InOrder'
    <3>1. toClient' = Append(toClient, r)
      BY <2>3 DEF Answers
    <3>2. CASE r.type # "data"
      <4>1. Carries(toClient', Sent("data")', d, b)
        BY <1>1, <2>1, <3>1, <3>2, Says
      <4>2. server'.pushed = b
        BY <2>3, <3>2 DEF Answers
      <4> QED
        BY <1>2, <1>3, <2>1, <4>1, <4>2
    <3>3. CASE r.type = "data"
      <4>1. r.n = b + 1 /\ server'.pushed = b + 1
        BY <2>3, <3>3 DEF Answers
      <4>2. Carries(toClient', Sent("data")', d, b + 1)
        BY <1>1, <2>1, <3>1, <3>3, <4>1, Says
      <4>3. Hands' /\ Got' = Got /\ d <= b + 1
        BY <1>1, <1>3, <2>1
      <4> QED
        BY <1>1, <4>1, <4>2, <4>3 DEF InOrder, DeliversInOrder, Got
    <3> QED
      BY <3>2, <3>3
  <2> QED
    BY <1>11, <2>2, <2>3, Replies
<1>12. CASE Push
  <2>1. PICK m \in ToClient :
        /\ link = "up" /\ toClient' = Append(toClient, m) /\ m.type = "data" /\ m.n = b + 1
        /\ server'.pushed = b + 1 /\ UNCHANGED <<loop, delivered, todo>>
    BY <1>12, Sends DEF Push
  <2>2. Carries(toClient', Sent("data")', d, b + 1)
    BY <1>1, <2>1, Says
  <2>3. Hands' /\ Got' = Got /\ d <= b + 1
    BY <1>1, <1>3, <2>1
  <2> QED
    BY <1>1, <2>1, <2>2, <2>3 DEF InOrder, DeliversInOrder, Got
<1>13. CASE Ping \/ PushBlank
  <2>1. PICK m \in ToClient :
        /\ link = "up" /\ toClient' = Append(toClient, m) /\ m.type # "data"
        /\ server'.pushed = b /\ UNCHANGED <<loop, delivered, todo>>
    BY <1>13, Sends DEF Ping, PushBlank
  <2>2. Carries(toClient', Sent("data")', d, b)
    BY <1>1, <2>1, Says
  <2> QED
    BY <1>2, <1>3, <2>1, <2>2
<1>14. CASE UNCHANGED vars
  BY <1>3, <1>4, <1>14 DEF vars
<1> QED
  BY <1>5, <1>6, <1>7, <1>8, <1>9, <1>10, <1>11, <1>12, <1>13, <1>14 DEF Next, Loop, OnMessage

\* The callback gets the updates of a connection in the order the server sent them,
\* from the first one on and without a gap, whatever else travels with them.
THEOREM UpdatesInOrder == Spec => []DeliversInOrder
<1>1. InOrder => DeliversInOrder
  BY DEF InOrder
<1> QED
  BY <1>1, Start, Step, OrderStart, OrderStep, PTL DEF Spec

-----------------------------------------------------------------------------
(* Asking for the topics.                                                  *)

\* At most one message of q is none of S.
Single(q, S) == \A i, k \in DOMAIN q : q[i] \in S \/ q[k] \in S \/ i = k
NoSign == {m \in ToServer : m.op # "auth"}

\* Before any topic is asked for: the subscription handler has not begun, and at most
\* one acceptance of a signature is to come.
Fresh ==
    /\ server.asked = <<>> /\ loop # "sending" /\ toServer \in Seq(NoSub)
    /\ loop = "new" => toServer = <<>> /\ toClient = <<>> /\ server.topics = {}
    /\ \/ toClient \in Seq(NoAuth) /\ Single(toServer, NoSign)
       \/ toServer \in Seq(NoSign) /\ Single(toClient, NoAuth)

\* From then on the topics on their way to the server, at the places p + 1 to q, are those
\* after the ones it was asked for, and the handler has the rest.
InLine(p, q) ==
    /\ p <= q /\ q <= Len(toServer) /\ Len(server.asked) + (q - p) <= Len(Topics)
    /\ \A k \in 1 .. Len(toServer) :
          /\ toServer[k].op = "sub" <=> p < k /\ k <= q
          /\ p < k /\ k <= q => toServer[k].topic = Topics[Len(server.asked) + (k - p)]
    /\ loop = "sending" =>
          /\ q = Len(toServer) /\ Len(todo) = Len(Topics) - (Len(server.asked) + (q - p))
          /\ \A k \in 1 .. Len(todo) : todo[k] = Topics[Len(server.asked) + (q - p) + k]
\* No acceptance is to come that would start the handler again.
Asking ==
    /\ loop # "new" /\ toClient \in Seq(NoAuth) /\ toServer \in Seq(NoSign)
    /\ \E p, q \in Nat : InLine(p, q)

InTurn == Len(server.asked) <= Len(Topics) /\ \A k \in 1 .. Len(server.asked) : server.asked[k] = Topics[k]
AskInv == InTurn /\ (link = "up" => Fresh \/ Asking)

LEMMA SingleFacts ==
    ASSUME NEW R, NEW S, NEW q \in Seq(R)
    PROVE  /\ q \in Seq(S) => Single(q, S)
           /\ q # <<>> /\ Single(q, S) => Single(Tail(q), S) /\ (Head(q) \notin S => Tail(q) \in Seq(S))
           /\ \A m \in R : /\ q \in Seq(S) => Single(Append(q, m), S)
                           /\ Single(q, S) /\ m \in S => Single(Append(q, m), S)
<1>1. Len(q) \in Nat /\ DOMAIN q = 1 .. Len(q)
  OBVIOUS
<1>2. q \in Seq(S) => Single(q, S)
  BY DEF Single
<1>3. ASSUME q # <<>>, Single(q, S) PROVE Single(Tail(q), S) /\ (Head(q) \notin S => Tail(q) \in Seq(S))
  <2>1. /\ Tail(q) \in Seq(R) /\ Len(Tail(q)) = Len(q) - 1 /\ Head(q) = q[1]
        /\ DOMAIN Tail(q) = 1 .. Len(q) - 1
        /\ \A k \in 1 .. Len(q) - 1 : Tail(q)[k] = q[k + 1]
    BY <1>3
  <2>2. \A k \in 1 .. Len(q) - 1 : k \in Nat /\ k + 1 \in DOMAIN q /\ k + 1 # 1
    BY <1>1
  <2>3. 1 \in DOMAIN q
    BY <1>1, <1>3
  <2>4. Single(Tail(q), S)
    <3> SUFFICES ASSUME NEW i \in 1 .. Len(q) - 1, NEW k \in 1 .. Len(q) - 1, i # k
                 PROVE  q[i + 1] \in S \/ q[k + 1] \in S
      BY <2>1 DEF Single
    <3>1. i + 1 # k + 1
      BY <2>2
    <3> QED
      BY <1>3, <2>2, <3>1 DEF Single
  <2>5. ASSUME Head(q) \notin S PROVE Tail(q) \in Seq(S)
    <3>1. \A k \in 1 .. Len(q) - 1 : Tail(q)[k] \in S
      BY <1>3, <2>1, <2>2, <2>3, <2>5 DEF Single
    <3> QED
      BY <2>1, <3>1, MembersOf
  <2> QED
    BY <2>4, <2>5
<1>4. ASSUME NEW m \in R PROVE /\ q \in Seq(S) => Single(Append(q, m), S)
                               /\ Single(q, S) /\ m \in S => Single(Append(q, m), S)
  <2> DEFINE r == Append(q, m)
             N == Len(q) + 1
  <2>1. /\ DOMAIN r = 1 .. N /\ r[N] = m
        /\ \A k \in 1 .. Len(q) : r[k] = q[k]
    BY AppendProperties
  <2>2. \A k \in 1 .. N : k \in 1 .. Len(q) \/ k = N
    BY <1>1
  <2>3. q \in Seq(S) => \A k \in 1 .. Len(q) : q[k] \in S
    OBVIOUS
  <2> HIDE DEF r, N
  <2>4. /\ q \in Seq(S) => Single(r, S)
        /\ Single(q, S) /\ m \in S => Single(r, S)
    BY <1>1, <2>1, <2>2, <2>3 DEF Single
  <2> QED
    BY <2>4 DEF r
<1> QED
  BY <1>2, <1>3, <1>4

\* The thread sends one message more.
LEMMA LineLonger ==
    ASSUME IInv, NEW p \in Nat, NEW q \in Nat, InLine(p, q), NEW m \in ToServer,
           toServer' = Append(toServer, m), server'.asked = server.asked
    PROVE  /\ m.op # "sub" /\ loop # "sending" /\ loop' # "sending" => InLine(p, q)'
           /\ /\ m.op = "sub" /\ loop = "sending" /\ todo # <<>>
              /\ m.topic = Head(todo) /\ todo' = Tail(todo)
              => InLine(p, q + 1)'
<1> DEFINE n == Len(server.asked)
           N == Len(toServer)
           T == Len(Topics)
<1>1. toServer \in Seq(ToServer) /\ N \in Nat /\ n \in Nat /\ T \in Nat
  BY TopicsAssumption DEF IInv, Shapes, Server
<1>2. /\ Len(toServer') = N + 1 /\ toServer'[N + 1] = m
      /\ \A k \in 1 .. N : toServer'[k] = toServer[k]
  BY <1>1, AppendProperties
<1>3. \A k \in 1 .. N + 1 : k \in 1 .. N \/ k = N + 1
  BY <1>1
<1>4. /\ p <= q /\ q <= N /\ n + (q - p) <= T
      /\ \A k \in 1 .. N : /\ toServer[k].op = "sub" <=> p < k /\ k <= q
                           /\ p < k /\ k <= q => toServer[k].topic = Topics[n + (k - p)]
  BY DEF InLine
<1> HIDE DEF N, n, T
<1>5. ASSUME m.op # "sub", loop' # "sending" PROVE InLine(p, q)'
  <2>1. p <= q /\ q <= N + 1 /\ n + (q - p) <= T /\ ~(N + 1 <= q)
    BY <1>1, <1>4
  <2>2. \A k \in 1 .. N + 1 : /\ toServer'[k].op = "sub" <=> p < k /\ k <= q
                              /\ p < k /\ k <= q => toServer'[k].topic = Topics[n + (k - p)]
    BY <1>2, <1>3, <1>4, <1>5, <2>1
  <2> QED
    BY <1>2, <1>5, <2>1, <2>2 DEF InLine, n, T
<1>6. ASSUME m.op = "sub", loop = "sending", todo # <<>>, m.topic = Head(todo), todo' = Tail(todo)
      PROVE  InLine(p, q + 1)'
  <2>1. /\ q = N /\ Len(todo) = T - (n + (q - p)) /\ todo \in Seq(Name)
        /\ \A k \in 1 .. Len(todo) : todo[k] = Topics[n + (q - p) + k]
    BY <1>6 DEF InLine, IInv, Shapes, n, N, T
  <2>2. /\ Len(todo) \in Nat /\ Len(todo) > 0 /\ Head(todo) = todo[1] /\ Len(Tail(todo)) = Len(todo) - 1
        /\ \A k \in 1 .. Len(todo) - 1 : Tail(todo)[k] = todo[k + 1]
    BY <1>6, <2>1
  <2>3. p <= q + 1 /\ q + 1 <= N + 1 /\ n + ((q + 1) - p) <= T /\ 1 \in 1 .. Len(todo)
    BY <1>1, <1>4, <2>1, <2>2
  <2>4. m.topic = Topics[n + ((N + 1) - p)]
    <3>1. n + (q - p) + 1 = n + ((N + 1) - p)
      BY <1>1, <2>1
    <3> QED
      BY <1>6, <2>1, <2>2, <2>3, <3>1
  <2>5. \A k \in 1 .. N + 1 : /\ toServer'[k].op = "sub" <=> p < k /\ k <= q + 1
                              /\ p < k /\ k <= q + 1 => toServer'[k].topic = Topics[n + (k - p)]
    <3> TAKE k \in 1 .. N + 1
    <3>1. CASE k \in 1 .. N
      <4>1. k <= q /\ k <= q + 1
        BY <1>1, <2>1, <3>1
      <4> QED
        BY <1>2, <1>4, <3>1, <4>1
    <3>2. CASE k = N + 1
      <4>1. p < k /\ k <= q + 1
        BY <1>1, <1>4, <2>1, <3>2
      <4> QED
        BY <1>2, <1>6, <2>4, <3>2, <4>1
    <3> QED
      BY <1>3, <3>1, <3>2
  <2>6. q + 1 = N + 1 /\ Len(todo') = T - (n + ((q + 1) - p))
    BY <1>1, <1>6, <2>1, <2>2
  <2>7. \A k \in 1 .. Len(todo') : todo'[k] = Topics[n + ((q + 1) - p) + k]
    <3> TAKE k \in 1 .. Len(todo')
    <3>1. k \in 1 .. Len(todo) - 1 /\ k + 1 \in 1 .. Len(todo)
          /\ n + (q - p) + (k + 1) = n + ((q + 1) - p) + k
      BY <1>1, <1>6, <2>2
    <3> QED
      BY <1>6, <2>1, <2>2, <3>1
  <2> QED
    BY <1>2, <2>3, <2>5, <2>6, <2>7 DEF InLine, n, T
<1> QED
  BY <1>5, <1>6

\* The server reads one: a topic it takes is the next one.
LEMMA LineShorter ==
    ASSUME IInv, NEW p \in Nat, NEW q \in Nat, InLine(p, q), UNCHANGED <<loop, todo>>,
           toServer # <<>>, toServer' = Tail(toServer)
    PROVE  /\ Head(toServer).op # "sub" /\ server'.asked = server.asked
                => \E i, k \in Nat : InLine(i, k)'
           /\ Head(toServer).op = "sub" /\ server'.asked = Append(server.asked, Head(toServer).topic)
                => /\ \E i, k \in Nat : InLine(i, k)'
                   /\ Len(server.asked) + 1 <= Len(Topics)
                   /\ Head(toServer).topic = Topics[Len(server.asked) + 1]
<1> DEFINE n == Len(server.asked)
           N == Len(toServer)
           T == Len(Topics)
<1>1. toServer \in Seq(ToServer) /\ N \in Nat /\ n \in Nat /\ T \in Nat /\ server.asked \in Seq(Name)
  BY TopicsAssumption DEF IInv, Shapes, Server
<1>2. /\ Len(toServer') = N - 1 /\ N > 0 /\ Head(toServer) = toServer[1]
      /\ \A k \in 1 .. N - 1 : toServer'[k] = toServer[k + 1]
  BY <1>1
<1>3. \A k \in 1 .. N - 1 : k \in Nat /\ k + 1 \in 1 .. N
  BY <1>1
<1>4. /\ p <= q /\ q <= N /\ n + (q - p) <= T
      /\ \A k \in 1 .. N : /\ toServer[k].op = "sub" <=> p < k /\ k <= q
                           /\ p < k /\ k <= q => toServer[k].topic = Topics[n + (k - p)]
      /\ loop = "sending" => /\ q = N /\ Len(todo) = T - (n + (q - p))
                             /\ \A k \in 1 .. Len(todo) : todo[k] = Topics[n + (q - p) + k]
  BY DEF InLine
<1>5. 1 \in 1 .. N
  BY <1>1, <1>2
<1> HIDE DEF N, n, T
<1>6. ASSUME Head(toServer).op # "sub", server'.asked = server.asked PROVE \E i, k \in Nat : InLine(i, k)'
  <2>1. ~(p < 1 /\ 1 <= q)
    BY <1>2, <1>4, <1>5, <1>6
  <2>2. CASE p >= 1
    <3> DEFINE i == p - 1
               j == q - 1
    <3>1. i \in Nat /\ j \in Nat /\ i <= j /\ j <= N - 1 /\ j - i = q - p
      BY <1>1, <1>4, <2>2
    <3>2. \A k \in 1 .. N - 1 : /\ toServer'[k].op = "sub" <=> i < k /\ k <= j
                                /\ i < k /\ k <= j => toServer'[k].topic = Topics[n + (k - i)]
      <4> TAKE k \in 1 .. N - 1
      <4>1. (i < k <=> p < k + 1) /\ (k <= j <=> k + 1 <= q) /\ k - i = (k + 1) - p
        BY <1>3
      <4> HIDE DEF i, j
      <4> QED
        BY <1>2, <1>3, <1>4, <4>1
    <3>3. loop = "sending" => j = N - 1
      BY <1>4
    <3> HIDE DEF i, j
    <3>4. InLine(i, j)'
      BY <1>2, <1>4, <1>6, <3>1, <3>2, <3>3 DEF InLine, n, T
    <3> QED
      BY <3>1, <3>4
  <2>3. CASE p < 1
    <3>1. p = 0 /\ q = 0 /\ 0 \in Nat /\ loop # "sending"
      BY <1>1, <1>2, <1>4, <2>1, <2>3
    <3>2. \A k \in 1 .. N - 1 : toServer'[k].op # "sub" /\ ~(0 < k /\ k <= 0)
      <4> TAKE k \in 1 .. N - 1
      <4>1. ~(k + 1 <= 0) /\ ~(k <= 0)
        BY <1>3
      <4> QED
        BY <1>2, <1>3, <1>4, <3>1, <4>1
    <3>3. 0 <= 0 /\ 0 <= N - 1 /\ n + (0 - 0) <= T
      BY <1>1, <1>2, <1>4, <3>1
    <3>4. InLine(0, 0)'
      BY <1>2, <1>6, <3>1, <3>2, <3>3 DEF InLine, n, T
    <3> QED
      BY <3>1, <3>4
  <2> QED
    BY <2>2, <2>3
<1>7. ASSUME Head(toServer).op = "sub", server'.asked = Append(server.asked, Head(toServer).topic)
      PROVE  (\E i, k \in Nat : InLine(i, k)') /\ n + 1 <= T /\ Head(toServer).topic = Topics[n + 1]
  <2> DEFINE j == q - 1
  <2>1. p < 1 /\ 1 <= q
    BY <1>2, <1>4, <1>5, <1>7
  <2>2. p = 0 /\ j \in Nat /\ 0 <= j /\ j <= N - 1 /\ (n + 1) + (j - 0) <= T /\ n + 1 <= T
        /\ n + (1 - p) = n + 1 /\ (n + 1) + (j - 0) = n + (q - p)
    BY <1>1, <1>4, <2>1
  <2>3. Head(toServer).topic = Topics[n + 1]
    BY <1>2, <1>4, <1>5, <2>1, <2>2
  <2>4. Len(server'.asked) = n + 1
    <3>1. Head(toServer).topic \in Name
      BY <1>1, <1>2, <1>5, <1>7 DEF ToServer
    <3> QED
      BY <1>1, <1>7, <3>1, AppendProperties DEF n
  <2>5. \A k \in 1 .. N - 1 : /\ toServer'[k].op = "sub" <=> 0 < k /\ k <= j
                              /\ 0 < k /\ k <= j => toServer'[k].topic = Topics[(n + 1) + (k - 0)]
    <3> TAKE k \in 1 .. N - 1
    <3>1. 0 < k /\ p < k + 1 /\ (k <= j <=> k + 1 <= q) /\ (n + 1) + (k - 0) = n + ((k + 1) - p)
      BY <1>1, <1>3, <2>2
    <3> HIDE DEF j
    <3> QED
      BY <1>2, <1>3, <1>4, <3>1
  <2>6. loop = "sending" => j = N - 1
    BY <1>4
  <2> HIDE DEF j
  <2>7. loop = "sending" => /\ Len(todo) = T - ((n + 1) + (j - 0))
                            /\ \A k \in 1 .. Len(todo) : todo[k] = Topics[(n + 1) + (j - 0) + k]
    BY <1>4, <2>2
  <2>8. InLine(0, j)'
    BY <1>2, <2>2, <2>4, <2>5, <2>6, <2>7 DEF InLine, T
  <2> QED
    BY <2>2, <2>3, <2>8
<1> QED
  BY <1>6, <1>7 DEF n, T

LEMMA AskStart == Init => AskInv
<1> SUFFICES ASSUME Init PROVE AskInv
  OBVIOUS
<1>1. server.asked = <<>> /\ server.topics = {} /\ Len(server.asked) = 0
  BY DEF Init, NewServer
<1>2. Len(Topics) \in Nat
  BY TopicsAssumption
<1>3. InTurn
  BY <1>1, <1>2 DEF InTurn
<1>4. Fresh
  BY <1>1 DEF Init, Fresh, Single
<1> QED
  BY <1>3, <1>4 DEF AskInv, Init

\* on_message takes a message that starts nothing.
LEMMA AskHears ==
    ASSUME IInv, AskInv, NEW branch, Message(branch), loop' \in {"idle", "receiving"},
           UNCHANGED toServer \/ \E n \in Nat : toServer' = Append(toServer, [op |-> "pong", n |-> n])
    PROVE  AskInv'
<1>1. /\ toClient # <<>> /\ toClient' = Tail(toClient) /\ link = "up" /\ loop = "idle"
      /\ UNCHANGED <<link, server>> /\ toClient \in Seq(ToClient) /\ toServer \in Seq(ToServer)
  BY Taken DEF IInv, Shapes
<1>2. /\ toClient \in Seq(NoAuth) => toClient' \in Seq(NoAuth)
      /\ Single(toClient, NoAuth) => Single(toClient', NoAuth)
  BY <1>1, Travels, SingleFacts
<1>3. /\ toServer \in Seq(NoSub) => toServer' \in Seq(NoSub)
      /\ toServer \in Seq(NoSign) => toServer' \in Seq(NoSign)
      /\ Single(toServer, NoSign) => Single(toServer', NoSign)
  <2>1. CASE UNCHANGED toServer
    BY <2>1
  <2>2. ASSUME NEW n \in Nat, toServer' = Append(toServer, [op |-> "pong", n |-> n]) PROVE <1>3
    <3> DEFINE m == [op |-> "pong", n |-> n]
    <3>1. m \in ToServer /\ m \in NoSub /\ m \in NoSign
      BY DEF ToServer, NoSub, NoSign
    <3> HIDE DEF m
    <3>2. toServer' = Append(toServer, m)
      BY <2>2 DEF m
    <3> QED
      BY <1>1, <3>1, <3>2, Travels, SingleFacts
  <2> QED
    BY <2>1, <2>2
<1>4. ASSUME NEW p \in Nat, NEW q \in Nat, InLine(p, q) PROVE InLine(p, q)'
  <2>1. CASE UNCHANGED toServer
    BY <1>1, <1>4, <2>1 DEF InLine
  <2>2. ASSUME NEW n \in Nat, toServer' = Append(toServer, [op |-> "pong", n |-> n]) PROVE InLine(p, q)'
    <3> DEFINE m == [op |-> "pong", n |-> n]
    <3>1. m \in ToServer /\ m.op # "sub"
      BY DEF ToServer
    <3> HIDE DEF m
    <3>2. toServer' = Append(toServer, m)
      BY <2>2 DEF m
    <3>3. server'.asked = server.asked /\ loop # "sending" /\ loop' # "sending"
      BY <1>1
    <3> QED
      BY <1>4, <3>1, <3>2, <3>3, LineLonger
  <2> QED
    BY <2>1, <2>2
<1>5. CASE Fresh
  BY <1>1, <1>2, <1>3, <1>5 DEF AskInv, Fresh, InTurn
<1>6. CASE Asking
  BY <1>1, <1>2, <1>3, <1>4, <1>6 DEF AskInv, Asking, InTurn
<1> QED
  BY <1>1, <1>5, <1>6 DEF AskInv

\* The server sends a message that accepts no signature.
LEMMA AskSays ==
    ASSUME IInv, AskInv, NEW m \in ToClient, toClient' = Append(toClient, m), m.type # "auth", loop # "new",
           server'.asked = server.asked, UNCHANGED <<link, loop, todo, toServer>>
    PROVE  AskInv'
<1>1. toClient \in Seq(ToClient) /\ toClient' = Append(toClient, m) /\ m \in NoAuth
  BY DEF IInv, Shapes, NoAuth
<1>2. toClient \in Seq(NoAuth) => toClient' \in Seq(NoAuth)
  BY <1>1, Travels
<1>3. Single(toClient, NoAuth) => Single(toClient', NoAuth)
  <2>1. \A x \in ToClient : Single(toClient, NoAuth) /\ x \in NoAuth => Single(Append(toClient, x), NoAuth)
    BY <1>1, SingleFacts
  <2>2. Single(toClient, NoAuth) => Single(Append(toClient, m), NoAuth)
    BY <1>1, <2>1
  <2> QED
    BY <1>1, <2>2
<1>4. \A p, q \in Nat : InLine(p, q) => InLine(p, q)'
  <2> SUFFICES ASSUME NEW p \in Nat, NEW q \in Nat, InLine(p, q) PROVE InLine(p, q)'
    OBVIOUS
  <2>1. server'.asked = server.asked /\ toServer' = toServer /\ todo' = todo /\ loop' = loop
    OBVIOUS
  <2>2. ASSUME loop = "sending"
        PROVE  /\ q = Len(toServer) /\ Len(todo) = Len(Topics) - (Len(server.asked) + (q - p))
               /\ \A k \in 1 .. Len(todo) : todo[k] = Topics[Len(server.asked) + (q - p) + k]
    BY <2>2 DEF InLine
  <2> QED
    BY <2>1, <2>2, Zenon DEF InLine
<1> QED
  BY <1>1, <1>2, <1>3, <1>4 DEF AskInv, Fresh, Asking, InTurn

\* The server answers what it was sent.
LEMMA AskServe == IInv /\ AskInv /\ Serve => AskInv'
<1> SUFFICES ASSUME IInv, AskInv, Serve PROVE AskInv'
  OBVIOUS
<1> DEFINE h == Head(toServer)
           S == server'.asked
           n == Len(server.asked)
<1>1. /\ link = "up" /\ toServer # <<>> /\ toServer' = Tail(toServer) /\ h \in ToServer
      /\ UNCHANGED <<link, loop, todo>>
      /\ \/ h.op = "pong" /\ UNCHANGED toClient /\ S = server.asked
         \/ h.op = "auth" /\ (\E r \in ToClient : Answers(r)) /\ S = server.asked
         \/ h.op = "sub" /\ (\E r \in ToClient : r.type # "auth" /\ Answers(r)) /\ S = Append(server.asked, h.topic)
  BY Replies
<1>2. /\ toServer \in Seq(ToServer) /\ toClient \in Seq(ToClient)
      /\ server.asked \in Seq(Name) /\ n \in Nat /\ Len(Topics) \in Nat
  BY TopicsAssumption DEF IInv, Shapes, Server
<1>3. loop # "new"
  BY <1>1 DEF AskInv, Fresh, Asking
<1>4. /\ toServer \in Seq(NoSub) => h \in NoSub /\ toServer' \in Seq(NoSub)
      /\ toServer \in Seq(NoSign) => h \in NoSign /\ toServer' \in Seq(NoSign)
      /\ Single(toServer, NoSign) => Single(toServer', NoSign) /\ (h \notin NoSign => toServer' \in Seq(NoSign))
  BY <1>1, <1>2, Travels, SingleFacts
<1>5. ASSUME NEW r \in ToClient, Answers(r)
      PROVE  /\ r.type # "auth" /\ toClient \in Seq(NoAuth) => toClient' \in Seq(NoAuth)
             /\ r.type # "auth" /\ Single(toClient, NoAuth) => Single(toClient', NoAuth)
             /\ toClient \in Seq(NoAuth) => Single(toClient', NoAuth)
  <2>1. toClient' = Append(toClient, r) /\ (r.type # "auth" => r \in NoAuth)
    BY <1>2, <1>5 DEF Answers, NoAuth
  <2> QED
    BY <1>2, <2>1, Travels, SingleFacts
<1>6. h.op = "auth" => h \notin NoSign
  BY DEF NoSign
<1>7. h.op = "sub" => h \notin NoSub
  BY DEF NoSub
<1> HIDE DEF h
<1>8. CASE Fresh
  <2>1. h.op # "sub" /\ S = server.asked /\ toServer' \in Seq(NoSub)
    BY <1>1, <1>4, <1>7, <1>8 DEF Fresh
  <2>2. \/ toClient' \in Seq(NoAuth) /\ Single(toServer', NoSign)
        \/ toServer' \in Seq(NoSign) /\ Single(toClient', NoAuth)
    <3>1. CASE h.op = "pong"
      BY <1>1, <1>4, <1>8, <3>1 DEF Fresh
    <3>2. CASE h.op = "auth"
      BY <1>1, <1>4, <1>5, <1>6, <1>8, <3>2 DEF Fresh
    <3> QED
      BY <1>1, <2>1, <3>1, <3>2
  <2> QED
    BY <1>1, <1>3, <1>8, <2>1, <2>2 DEF AskInv, Fresh, InTurn
<1>9. CASE Asking
  <2>1. h.op # "auth" /\ toServer' \in Seq(NoSign) /\ toClient' \in Seq(NoAuth)
    BY <1>1, <1>4, <1>5, <1>6, <1>9 DEF Asking
  <2>2. PICK p \in Nat, q \in Nat : InLine(p, q)
    BY <1>9 DEF Asking
  <2>3. (\E i, k \in Nat : InLine(i, k)') /\ InTurn'
    <3>1. CASE h.op = "pong"
      <4>1. h.op # "sub" /\ S = server.asked
        BY <1>1, <3>1
      <4> QED
        BY <1>1, <2>2, <4>1, LineShorter DEF h, AskInv, InTurn
    <3>2. CASE h.op = "sub"
      <4>1. S = Append(server.asked, h.topic) /\ h.topic \in Name
        BY <1>1, <3>2 DEF ToServer
      <4>2. (\E i, k \in Nat : InLine(i, k)') /\ n + 1 <= Len(Topics) /\ h.topic = Topics[n + 1]
        BY <1>1, <2>2, <3>2, <4>1, LineShorter DEF h
      <4>3. Len(S) = n + 1 /\ S[n + 1] = h.topic /\ \A k \in 1 .. n : S[k] = server.asked[k]
        BY <1>2, <4>1, AppendProperties
      <4>4. \A k \in 1 .. n + 1 : k \in 1 .. n \/ k = n + 1
        BY <1>2
      <4>5. \A k \in 1 .. n : server.asked[k] = Topics[k]
        BY DEF AskInv, InTurn
      <4> HIDE DEF S, n
      <4>6. \A k \in 1 .. Len(S) : S[k] = Topics[k]
        BY <4>2, <4>3, <4>4, <4>5
      <4> QED
        BY <4>2, <4>3, <4>6 DEF InTurn, S
    <3> QED
      BY <1>1, <2>1, <3>1, <3>2
  <2> QED
    BY <1>1, <1>3, <2>1, <2>3 DEF AskInv, Asking
<1> QED
  BY <1>1, <1>8, <1>9 DEF AskInv

LEMMA AskStep == IInv /\ AskInv /\ [Next]_vars => AskInv'
<1> SUFFICES ASSUME IInv, AskInv, [Next]_vars PROVE AskInv'
  OBVIOUS
<1>1. /\ toServer \in Seq(ToServer) /\ toClient \in Seq(ToClient) /\ Len(Topics) \in Nat
      /\ server.asked \in Seq(Name) /\ Len(server.asked) \in Nat /\ Len(toServer) \in Nat
  BY TopicsAssumption DEF IInv, Shapes, Server
\* The thread goes on with something else, or the link ends.
<1>2. ASSUME UNCHANGED <<toServer, toClient, server>>, loop # "new", loop' \in {"idle", "receiving"},
             link' = "up" => link = "up"
      PROVE  AskInv'
  <2>1. \A p, q \in Nat : InLine(p, q) => InLine(p, q)'
    BY <1>2 DEF InLine
  <2> QED
    BY <1>2, <2>1 DEF AskInv, Fresh, Asking, InTurn
<1>3. ASSUME link' # "up", server'.asked = server.asked PROVE AskInv'
  BY <1>3 DEF AskInv, InTurn
<1>4. CASE Open
  <2>1. loop = "new" /\ UNCHANGED <<link, server, toClient>> /\ (link = "up" => Fresh)
    BY <1>4 DEF Open, AskInv, Asking
  <2>2. CASE link # "up"
    BY <1>3, <2>1, <2>2
  <2>3. CASE Trading /\ kind.keyed /\ link = "up"
    <3> DEFINE m == [op |-> "auth"]
    <3>1. m \in ToServer /\ m \in NoSub
      BY DEF ToServer, NoSub
    <3>2. loop' = "idle" /\ toServer' = Append(toServer, m)
      BY <1>4, <2>3 DEF Open, send
    <3> HIDE DEF m
    <3>3. toClient = <<>> /\ toServer = <<>> /\ toServer \in Seq(NoSign) /\ toClient \in Seq(NoAuth)
      BY <2>1, <2>3 DEF Fresh
    <3>4. toServer' \in Seq(NoSub) /\ Single(toServer', NoSign)
      BY <1>1, <2>1, <2>3, <3>1, <3>2, <3>3, Travels, SingleFacts DEF Fresh
    <3> QED
      BY <2>1, <2>3, <3>2, <3>3, <3>4 DEF AskInv, Fresh, InTurn
  <2>4. CASE Trading /\ ~kind.keyed /\ link = "up"
    <3>1. loop' = "idle" /\ UNCHANGED <<toServer, link, server, toClient>> /\ Fresh
      BY <1>4, <2>1, <2>4 DEF Open
    <3> QED
      BY <3>1 DEF AskInv, Fresh, InTurn
  <2>5. CASE ~Trading /\ link = "up"
    <3>1. loop' = "sending" /\ todo' = Topics /\ UNCHANGED toServer
      BY <1>4, <2>5 DEF Open
    <3>2. toServer = <<>> /\ toClient = <<>> /\ server.asked = <<>> /\ Len(toServer) = 0 /\ Len(server.asked) = 0
      BY <2>1, <2>5 DEF Fresh
    <3>3. InLine(0, 0)'
      BY <1>1, <2>1, <3>1, <3>2 DEF InLine
    <3>4. toClient' \in Seq(NoAuth) /\ toServer' \in Seq(NoSign)
      BY <2>1, <3>1, <3>2
    <3> QED
      BY <2>1, <3>1, <3>3, <3>4 DEF AskInv, Asking, InTurn
  <2> QED
    BY <2>3, <2>5, <2>2, <2>4
<1>5. CASE Subscribe
  <2>1. loop = "sending" /\ UNCHANGED <<link, toClient, server>>
    BY <1>5 DEF Subscribe
  <2>2. CASE link = "up" /\ todo # <<>>
    <3> DEFINE m == [op |-> "sub", key |-> kind.key, topic |-> Head(todo)]
    <3>1. toServer' = Append(toServer, m) /\ todo' = Tail(todo) /\ loop' = loop
      BY <1>5, <2>2 DEF Subscribe, send
    <3>2. Head(todo) \in Name
      BY <2>1, <2>2, Travels DEF IInv, Shapes
    <3>3. m \in ToServer /\ m \in NoSign /\ m.op = "sub" /\ m.topic = Head(todo)
      BY <3>2 DEF ToServer, NoSign, Kinds, IInv, Shapes
    <3> HIDE DEF m
    <3>4. Asking
      BY <2>1, <2>2 DEF AskInv, Fresh
    <3>5. PICK p \in Nat, q \in Nat : InLine(p, q)
      BY <3>4 DEF Asking
    <3>6. InLine(p, q + 1)' /\ q + 1 \in Nat
      BY <2>1, <2>2, <3>1, <3>3, <3>5, LineLonger
    <3>7. toServer' \in Seq(NoSign) /\ toClient' \in Seq(NoAuth)
      BY <2>1, <3>1, <3>3, <3>4, Travels DEF Asking
    <3> QED
      BY <2>1, <3>1, <3>6, <3>7 DEF AskInv, Asking, InTurn
  <2>3. CASE ~(link = "up" /\ todo # <<>>)
    <3>1. loop' = "idle" /\ UNCHANGED toServer
      BY <1>5, <2>3 DEF Subscribe
    <3> QED
      BY <1>2, <2>1, <3>1
  <2> QED
    BY <2>2, <2>3
<1>6. CASE OnAuth
  <2>1. Message("subscribe") /\ loop' = "sending" /\ todo' = Topics /\ UNCHANGED toServer
    BY <1>6 DEF OnAuth
  <2>2. /\ toClient # <<>> /\ toClient' = Tail(toClient) /\ Head(toClient).type = "auth" /\ loop = "idle"
        /\ link = "up" /\ UNCHANGED <<link, server>>
    BY <2>1, Taken
  <2>3. Head(toClient) \notin NoAuth
    BY <2>2 DEF NoAuth
  <2>4. toClient \notin Seq(NoAuth)
    BY <2>2, <2>3, Travels
  <2>5. Fresh /\ toServer \in Seq(NoSign) /\ toClient' \in Seq(NoAuth)
    BY <1>1, <2>2, <2>3, <2>4, SingleFacts DEF AskInv, Fresh, Asking
  <2> DEFINE N == Len(toServer)
  <2>6. server.asked = <<>> /\ Len(server.asked) = 0 /\ \A k \in 1 .. N : toServer[k].op # "sub"
    <3>1. toServer \in Seq(NoSub) /\ server.asked = <<>>
      BY <2>5 DEF Fresh
    <3>2. \A k \in 1 .. N : toServer[k] \in NoSub
      BY <3>1
    <3> QED
      BY <3>1, <3>2 DEF NoSub
  <2>7. InLine(N, N)'
    <3>1. \A k \in 1 .. N : ~(N < k /\ k <= N)
      BY <1>1
    <3>2. N <= N /\ 0 + (N - N) <= Len(Topics) /\ Len(Topics) = Len(Topics) - (0 + (N - N))
          /\ \A k \in 1 .. Len(Topics) : 0 + (N - N) + k = k
      BY <1>1
    <3> HIDE DEF N
    <3> QED
      BY <2>1, <2>2, <2>6, <3>1, <3>2 DEF InLine, N
  <2> QED
    BY <1>1, <2>1, <2>2, <2>5, <2>7 DEF AskInv, Asking, InTurn
<1>7. CASE OnLog \/ OnFailure \/ Receive
  <2>1. PICK branch : Message(branch)
    BY <1>7 DEF OnLog, OnFailure, Receive
  <2>2. loop' \in {"idle", "receiving"} /\ UNCHANGED toServer
    BY <1>7 DEF OnLog, OnFailure, Receive, Message
  <2> QED
    BY <2>1, <2>2, AskHears
<1>8. CASE OnPing
  <2>1. Message("ping") /\ toServer' = Append(toServer, [op |-> "pong", n |-> Head(toClient).n]) /\ loop' = loop
    BY <1>8 DEF OnPing, send
  <2>2. Head(toClient).n \in Nat /\ loop = "idle"
    BY <2>1, Taken DEF ToClient
  <2>3. loop' \in {"idle", "receiving"}
    BY <2>1, <2>2
  <2>4. \E n \in Nat : toServer' = Append(toServer, [op |-> "pong", n |-> n])
    BY <2>1, <2>2
  <2> QED
    BY <2>1, <2>3, <2>4, AskHears
<1>9. CASE Deliver
  <2>1. loop = "receiving" /\ loop' = "idle" /\ UNCHANGED <<toServer, toClient, server>> /\ (link' = "up" => link = "up")
    BY <1>9 DEF Deliver
  <2> QED
    BY <1>2, <2>1
<1>10. CASE Reconnect
  <2>1. /\ link = "broken" /\ link' = "up" /\ loop' = "new" /\ server' = NewServer
        /\ UNCHANGED <<toServer, toClient>>
    BY <1>10 DEF Reconnect
  <2>2. toServer' = <<>> /\ toClient' = <<>>
    BY <2>1 DEF IInv, NothingTravels
  <2>3. server'.asked = <<>> /\ server'.topics = {} /\ Len(server'.asked) = 0
    BY <2>1 DEF NewServer
  <2>4. InTurn'
    BY <1>1, <2>3 DEF InTurn
  <2>5. Fresh'
    BY <2>1, <2>2, <2>3 DEF Fresh, Single
  <2> QED
    BY <2>1, <2>4, <2>5 DEF AskInv
<1>11. CASE UserClose \/ Drop
  <2>1. link' # "up" /\ UNCHANGED server
    BY <1>11 DEF UserClose, Drop
  <2> QED
    BY <1>3, <2>1
<1>12. CASE Push \/ PushBlank
  <2>1. PICK m \in ToClient :
        /\ toClient' = Append(toClient, m) /\ m.type # "auth" /\ server'.asked = server.asked
        /\ link = "up" /\ server.topics # {} /\ UNCHANGED <<link, loop, todo, toServer>>
    BY <1>12, Sends DEF Push, PushBlank
  <2>2. loop # "new"
    BY <2>1 DEF AskInv, Fresh, Asking
  <2> QED
    BY <2>1, <2>2, AskSays
<1>13. CASE Ping
  <2>1. PICK m \in ToClient :
        /\ toClient' = Append(toClient, m) /\ m.type # "auth" /\ server'.asked = server.asked
        /\ loop # "new" /\ UNCHANGED <<link, loop, todo, toServer>>
    BY <1>13, Sends DEF Ping
  <2> QED
    BY <2>1, AskSays
<1>14. CASE UNCHANGED vars
  <2>1. UNCHANGED <<link, loop, todo, server, toServer, toClient>>
    BY <1>14 DEF vars
  <2>2. InTurn' /\ \A p, q \in Nat : InLine(p, q) => InLine(p, q)'
    BY <2>1 DEF InLine, InTurn, AskInv
  <2>3. (Fresh => Fresh') /\ (Asking => Asking')
    BY <2>1, <2>2 DEF Fresh, Asking
  <2> QED
    BY <2>1, <2>2, <2>3 DEF AskInv
<1> QED
  BY <1>4, <1>5, <1>6, <1>7, <1>8, <1>9, <1>10, <1>11, <1>12, <1>13, <1>14, AskServe DEF Next, Loop, OnMessage

\* The server is asked for the topics one by one and in their order, whatever pings,
\* refusals and broken links come between: the handler runs once over a connection,
\* however the acceptance of the signature and the requests are under way.
THEOREM TopicsAskedInTurn == Spec => []AsksOnce
<1>1. IInv /\ AskInv => AsksOnce
  <2> SUFFICES ASSUME IInv, AskInv PROVE AsksOnce
    OBVIOUS
  <2> DEFINE s == server.asked
             n == Len(s)
  <2>1. s \in Seq(Name) /\ n \in Nat /\ n <= Len(Topics) /\ Topics \in Seq(STRING) /\ Len(Topics) \in Nat
        /\ \A k \in 1 .. n : s[k] = Topics[k]
    BY TopicsAssumption DEF IInv, Shapes, Server, AskInv, InTurn
  <2> HIDE DEF s, n
  <2>2. /\ Len(SubSeq(s, 1, n)) = n /\ \A k \in 1 .. n : SubSeq(s, 1, n)[k] = s[k]
        /\ SubSeq(s, 1, n) \in Seq(Name)
    BY <2>1 DEF n
  <2>3. /\ Len(SubSeq(Topics, 1, n)) = n /\ \A k \in 1 .. n : SubSeq(Topics, 1, n)[k] = Topics[k]
        /\ SubSeq(Topics, 1, n) \in Seq(STRING)
    BY <2>1
  <2>4. SubSeq(s, 1, n) = SubSeq(Topics, 1, n)
    BY <2>1, <2>2, <2>3, SeqEqual
  <2> QED
    BY <2>1, <2>4 DEF AsksOnce, IsPrefix, s, n
<1> QED
  BY <1>1, Start, Step, AskStart, AskStep, PTL DEF Spec

-----------------------------------------------------------------------------
(* Types.                                                                  *)

\* What the handler has still to send is the end of what the user asks for, and nothing
\* is left of it, or of an update, when the thread is at rest.
Ends(s) ==
    /\ s \in Seq(Name) /\ Len(s) <= Len(Topics)
    /\ \A k \in 1 .. Len(s) : s[k] = Topics[(Len(Topics) - Len(s)) + k]
Typed ==
    /\ link \in {"up", "broken", "closed"}
    /\ loop \in {"new", "idle", "sending", "receiving"}
    /\ loop = "sending" => Ends(todo)
    /\ loop = "receiving" => \E n : todo = <<n>>
    /\ loop \in {"new", "idle"} => todo = <<>>
    /\ refused \subseteq Name /\ reported \subseteq refused
    /\ drops \in 0 .. MaxDrop

LEMMA EndsFacts ==
    /\ Ends(Topics)
    /\ \A s : Ends(s) /\ s # <<>> => Ends(Tail(s))
    /\ \A s : Ends(s) => IsSuffix(s, Topics)
<1>1. Topics \in Seq(STRING) /\ Len(Topics) \in Nat
  BY TopicsAssumption
<1>2. Ends(Topics)
  BY <1>1, TopicsAreNames DEF Ends
<1>3. ASSUME NEW s, Ends(s), s # <<>> PROVE Ends(Tail(s))
  <2>1. /\ s \in Seq(Name) /\ Len(s) \in Nat /\ Len(s) > 0 /\ Len(s) <= Len(Topics)
        /\ \A k \in 1 .. Len(s) : s[k] = Topics[(Len(Topics) - Len(s)) + k]
    BY <1>3 DEF Ends
  <2>2. /\ Tail(s) \in Seq(Name) /\ Len(Tail(s)) = Len(s) - 1
        /\ \A k \in 1 .. Len(s) - 1 : Tail(s)[k] = s[k + 1]
    BY <1>3, <2>1
  <2>3. \A k \in 1 .. Len(s) - 1 : /\ k + 1 \in 1 .. Len(s)
                                   /\ (Len(Topics) - Len(s)) + (k + 1) = (Len(Topics) - (Len(s) - 1)) + k
    BY <1>1, <2>1
  <2>4. \A k \in 1 .. Len(s) - 1 : Tail(s)[k] = Topics[(Len(Topics) - (Len(s) - 1)) + k]
    BY <2>1, <2>2, <2>3
  <2> QED
    BY <1>1, <2>1, <2>2, <2>4 DEF Ends
<1>4. ASSUME NEW s, Ends(s) PROVE IsSuffix(s, Topics)
  <2> DEFINE r == Reverse(s)
             R == Reverse(Topics)
             n == Len(s)
             T == Len(Topics)
  <2>1. /\ s \in Seq(Name) /\ n \in Nat /\ n <= T /\ T \in Nat /\ Topics \in Seq(Name)
        /\ \A k \in 1 .. n : s[k] = Topics[(T - n) + k]
    BY <1>1, <1>4, TopicsAreNames DEF Ends
  <2>2. /\ r \in Seq(Name) /\ Len(r) = n /\ \A k \in 1 .. n : r[k] = s[(n - k) + 1]
        /\ R \in Seq(Name) /\ Len(R) = T /\ \A k \in 1 .. T : R[k] = Topics[(T - k) + 1]
    BY <2>1 DEF Reverse
  <2>3. \A k \in 1 .. n : /\ k \in 1 .. T /\ (n - k) + 1 \in 1 .. n
                          /\ (T - n) + ((n - k) + 1) = (T - k) + 1
    BY <2>1
  <2> HIDE DEF r, R, n, T
  <2>4. \A k \in 1 .. n : r[k] = R[k]
    <3> TAKE k \in 1 .. n
    <3> DEFINE j == (n - k) + 1
               h == (T - k) + 1
    <3>1. j \in 1 .. n /\ (T - n) + j = h /\ k \in 1 .. T
      BY <2>3
    <3>2. r[k] = s[j] /\ R[k] = Topics[h]
      BY <2>2, <3>1
    <3> HIDE DEF j, h
    <3> QED
      BY <2>1, <3>1, <3>2
  <2>5. /\ Len(SubSeq(r, 1, n)) = n /\ SubSeq(r, 1, n) \in Seq(Name)
        /\ \A k \in 1 .. n : SubSeq(r, 1, n)[k] = r[k]
    BY <2>1, <2>2
  <2>6. /\ Len(SubSeq(R, 1, n)) = n /\ SubSeq(R, 1, n) \in Seq(Name)
        /\ \A k \in 1 .. n : SubSeq(R, 1, n)[k] = R[k]
    BY <2>1, <2>2
  <2>7. SubSeq(r, 1, n) = SubSeq(R, 1, n)
    BY <2>4, <2>5, <2>6, SeqEqual
  <2> QED
    BY <2>1, <2>2, <2>7 DEF IsSuffix, IsPrefix, r, R
<1> QED
  BY <1>2, <1>3, <1>4

LEMMA TypedStart == Init => Typed
  BY BoundAssumption DEF Init, Typed

LEMMA TypedStep == IInv /\ Typed /\ [Next]_vars => Typed'
<1> SUFFICES ASSUME IInv, Typed, [Next]_vars PROVE Typed'
  OBVIOUS
<1>1. CASE Open
  <2>1. CASE Trading
    BY <1>1, <2>1 DEF Open, Typed, Name
  <2>2. CASE ~Trading
    BY <1>1, <2>2, EndsFacts DEF Open, Typed, Ends
  <2> QED
    BY <2>1, <2>2
<1>2. CASE Subscribe
  <2>1. CASE link = "up" /\ todo # <<>>
    <3>1. loop = "sending" /\ loop' = loop /\ todo' = Tail(todo) /\ UNCHANGED <<link, refused, reported, drops>>
      BY <1>2, <2>1 DEF Subscribe
    <3>2. Ends(todo)'
      BY <2>1, <3>1, EndsFacts DEF Typed, Ends
    <3> QED
      BY <3>1, <3>2 DEF Typed
  <2>2. CASE ~(link = "up" /\ todo # <<>>)
    BY <1>2, <2>2 DEF Subscribe, Typed
  <2> QED
    BY <2>1, <2>2
<1>3. CASE OnAuth
  BY <1>3, EndsFacts DEF OnAuth, Message, Typed, Ends
<1>4. CASE OnLog
  <2>1. PICK branch : Message(branch)
    BY <1>4 DEF OnLog
  <2>2. /\ UNCHANGED <<loop, todo, link, drops, reported>> /\ loop = "idle"
        /\ refused' = refused \cup (IF Head(toClient).type = "refusal" THEN {Head(toClient).of} ELSE {})
    BY <1>4 DEF OnLog, Message
  <2>3. Head(toClient).type = "refusal" => Head(toClient).of \in Name
    BY <2>1, Taken DEF ToClient
  <2> QED
    BY <2>2, <2>3 DEF Typed
<1>5. CASE OnFailure
  <2>1. Message("error") /\ UNCHANGED <<loop, todo>> /\ refused' = refused \cup {Head(toClient).of}
        /\ (reported' = reported \/ reported' = reported \cup {Head(toClient).of})
    BY <1>5 DEF OnFailure
  <2>2. Head(toClient).of \in Name
    BY <2>1, Taken DEF ToClient
  <2>3. UNCHANGED <<link, drops>> /\ loop = "idle"
    BY <2>1 DEF Message
  <2> QED
    BY <2>1, <2>2, <2>3 DEF Typed
<1>6. CASE OnPing
  BY <1>6 DEF OnPing, Message, Typed
<1>7. CASE Receive
  BY <1>7 DEF Receive, Message, Typed
<1>8. CASE Deliver
  BY <1>8 DEF Deliver, Typed
<1>9. CASE Reconnect
  BY <1>9 DEF Reconnect, Typed
<1>10. CASE UserClose
  BY <1>10 DEF UserClose, Typed, Ends
<1>11. CASE Serve
  BY <1>11 DEF Serve, Typed, Ends
<1>12. CASE Push
  BY <1>12 DEF Push, Typed, Ends
<1>13. CASE Ping
  BY <1>13 DEF Ping, Typed, Ends
<1>14. CASE Drop
  BY <1>14, BoundAssumption DEF Drop, Typed, Ends
<1>15. CASE PushBlank
  BY <1>15 DEF PushBlank, Typed, Ends
<1>16. CASE UNCHANGED vars
  BY <1>16 DEF vars, Typed, Ends
<1> QED
  BY <1>1, <1>2, <1>3, <1>4, <1>5, <1>6, <1>7, <1>8, <1>9, <1>10, <1>11, <1>12, <1>13, <1>14, <1>15, <1>16
  DEF Next, Loop, OnMessage

\* The thread always has the rest of the topics to send, one update in hand or nothing,
\* and only a refusal that was handled is reported.
THEOREM TypeCorrect == Spec => []TypeOK
<1>1. IInv /\ Typed => TypeOK
  <2> SUFFICES ASSUME IInv, Typed PROVE TypeOK
    OBVIOUS
  <2>1. loop = "receiving" => Len(todo) = 1
    <3> SUFFICES ASSUME loop = "receiving" PROVE Len(todo) = 1
      OBVIOUS
    <3>1. PICK n : todo = <<n>>
      BY DEF Typed
    <3> QED
      BY <3>1
  <2>2. loop = "sending" => IsSuffix(todo, Topics)
    BY EndsFacts DEF Typed
  <2>3. server.topics \subseteq Name /\ kind \in Kinds
    BY DEF IInv, Shapes, Server
  <2> QED
    BY <2>1, <2>2, <2>3 DEF Typed, TypeOK, Name
<1> QED
  BY <1>1, Start, Step, TypedStart, TypedStep, PTL DEF Spec
=============================================================================
