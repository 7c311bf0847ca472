----------------------------- MODULE MCWsSession -----------------------------
(***************************************************************************)
(* WsSession for every feed of the three clients that have some: what a    *)
(* service makes of its client, version, is_trade and channel is the kind  *)
(* of conversation that follows.                                           *)
(***************************************************************************)
EXTENDS WsSession

Trade   == INSTANCE TradeClient
Account == INSTANCE AccountClient
Market  == INSTANCE MarketClient

FeedsOf(operations) ==
    {operations[o].by : o \in {p \in DOMAIN operations : operations[p].by.over = "websocket"}}
Feeds == UNION {FeedsOf(Trade!Operations), FeedsOf(Account!Operations), FeedsOf(Market!Operations)}

Line(feed) ==
    IF feed.is_trade THEN feed.version ELSE IF feed.version = "mbp" THEN "mbp" ELSE "market"
\* The user of a trading line gives both keys to the client, or does not.
Keyed(feed) == IF feed.is_trade THEN BOOLEAN ELSE {FALSE}
FeedKinds ==
    UNION {{[line |-> Line(f), req |-> f.client = "WebSocketReqClient", key |-> f.channel.key, keyed |-> b] :
            b \in Keyed(f)} : f \in Feeds}

TwoTopics == <<"btcusdt", "ethusdt">>
Requests == {k \in FeedKinds : k.req /\ k.line = "market"}
OrderUpdates == {k \in FeedKinds : k.line = "v2"}
Faults == {"refuse", "blank", "drop"}
NoFault == {}
=============================================================================
