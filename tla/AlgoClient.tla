----------------------------- MODULE AlgoClient -----------------------------
(***************************************************************************)
(* The operations of AlgoClient (client/algo.py: conditional orders) and   *)
(* the services they use (service/algo), in the words of RestApi.          *)
(***************************************************************************)
EXTENDS RestApi

GetOpenOrdersService == Rest("GET_SIGN", "/v2/algo-orders/opening", default_parse_list_dict, "{}")
GetOrderHistoryService == Rest("GET_SIGN", "/v2/algo-orders/history", default_parse_list_dict, "{}")
GetOrderByClientOrderIdService == Rest("GET_SIGN", "/v2/algo-orders/specific", default_parse, "{}")
PostCancelOrderService ==
    Rest("POST_SIGN", "/v2/algo-orders/cancellation", default_parse_fill_directly, "{}")
\* data.get('clientOrderId')
PostCreateOrderService == Rest("POST_SIGN", "/v2/algo-orders", Parses(Objects, {"{}"}), "null")

-----------------------------------------------------------------------------
\* The price is mandatory, or dropped, by the types of an order that TradeClient knows
\* (the signature's OrderType); not by the "limit" and "market" of AlgoOrderType.
create_order_param_check ==
    <<check_symbol("symbol"), check_should_not_none("account_id"), check_should_not_none("order_type"),
      check_should_not_none("order_side"), Only(check_should_not_none("order_price"), "order_type", {"limit"}),
      calls_short("time_in_force")>>

create_order ==
    Withholding(Op(PostCreateOrderService,
       {"account_id", "symbol", "order_side", "order_type", "client_order_id", "stop_price"},
       {"order_price", "order_size", "order_value", "time_in_force", "trailing_rate"},
       create_order_param_check,
       Same({"symbol"}) @@ "accountId" :> "account_id" @@ "orderPrice" :> "order_price"
       @@ "orderSide" :> "order_side" @@ "orderSize" :> "order_size" @@ "orderValue" :> "order_value"
       @@ "timeInForce" :> "time_in_force" @@ "orderType" :> "order_type"
       @@ "clientOrderId" :> "client_order_id" @@ "stopPrice" :> "stop_price"
       @@ "trailingRate" :> "trailing_rate"),
                "order_price", "order_type", {"market"})

cancel_orders ==
    Op(PostCancelOrderService, {"client_order_ids"}, {}, <<check_should_not_none("client_order_ids")>>,
       "clientOrderIds" :> "client_order_ids")

get_open_orders ==
    Op(GetOpenOrdersService, {},
       {"account_id", "symbol", "order_side", "order_type", "sort", "limit", "from_id"}, <<>>,
       Same({"symbol", "sort", "limit"}) @@ "accountId" :> "account_id" @@ "orderSide" :> "order_side"
       @@ "orderType" :> "order_type" @@ "fromId" :> "from_id")

get_order_history ==
    Op(GetOrderHistoryService, {"symbol", "order_status"},
       {"account_id", "order_side", "order_type", "start_time", "end_time", "sort", "limit", "from_id"}, <<>>,
       Same({"symbol", "sort", "limit"}) @@ "accountId" :> "account_id" @@ "orderSide" :> "order_side"
       @@ "orderType" :> "order_type" @@ "orderStatus" :> "order_status" @@ "startTime" :> "start_time"
       @@ "endTime" :> "end_time" @@ "fromId" :> "from_id")

get_order ==
    Op(GetOrderByClientOrderIdService, {"client_order_id"}, {}, <<>>, "clientOrderId" :> "client_order_id")

Operations ==
    [create_order |-> create_order, cancel_orders |-> cancel_orders,
     get_open_orders |-> get_open_orders, get_order_history |-> get_order_history,
     get_order |-> get_order]
=============================================================================
