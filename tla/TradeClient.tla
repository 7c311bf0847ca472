----------------------------- MODULE TradeClient -----------------------------
(***************************************************************************)
(* The operations of TradeClient (client/trade.py) and the services they   *)
(* use (service/trade), in the words of RestApi.                           *)
(***************************************************************************)
EXTENDS RestApi

-----------------------------------------------------------------------------
(* Channels of the trading lines (utils/channels.py, channels_request.py)  *)

orders_update_channel  == Channel("action", {"symbol_list"})
trade_clearing_channel == Channel("action", {"symbol_list"})
\* more_key: every parameter that is given is added
request_order_list_channel ==
    Channel("op", {"symbol", "account-id", "states", "types", "start-date", "end-date",
                   "from", "direct", "size", "client-req-id"})
request_order_detail_channel == Channel("op", {"order-id", "cid"})

-----------------------------------------------------------------------------
(* Services                                                                *)

GetFeeRateService == Rest("GET_SIGN", "/v1/fee/fee-rate/get", default_parse_list, "[]")
GetTransactFeeRateService ==
    Rest("GET_SIGN", "/v2/reference/transact-fee-rate", default_parse_list, "[]")
GetOrdersService == Rest("GET_SIGN", "/v1/order/orders", json_parse_list, "[]")
GetOpenOrdersService == Rest("GET_SIGN", "/v1/order/openOrders", json_parse_list, "[]")
GetHistoryOrdersService == Rest("GET_SIGN", "/v1/order/history", json_parse_list, "[]")
GetOrderByIdService == RestAt("GET_SIGN", "/v1/order/orders/{}", "order_id", default_parse, "null")
GetOrderByClientOrderIdService ==
    Rest("GET_SIGN", "/v1/order/orders/getClientOrder", default_parse, "{}")
GetMatchResultsService == Rest("GET_SIGN", "/v1/order/matchresults", default_parse_list, "[]")
GetMatchResultsByOrderIdService ==
    RestAt("GET_SIGN", "/v1/order/orders/{}/matchresults", "order_id", default_parse_list, "[]")
PostCreateOrderService ==
    Rest("POST_SIGN", "/v1/order/orders/place", default_parse_data_as_long, "number")
PostBatchCreateOrderService ==
    [Rest("POST_SIGN", "/v1/order/batch-orders", default_parse_list, "[]") EXCEPT !.batch = TRUE]
PostCancelOrderService ==
    RestAt("POST_SIGN", "/v1/order/orders/{}/submitcancel", "order_id", default_parse_data_as_long, "number")
PostBatchCancelOrderService ==
    Rest("POST_SIGN", "/v1/order/orders/batchcancel", default_parse_fill_directly, "{}")
PostBatchCancelOpenOrderService ==
    Rest("POST_SIGN", "/v1/order/orders/batchCancelOpenOrders", default_parse, "{}")
PostCancelClientOrderService ==
    Rest("POST_SIGN", "/v1/order/orders/submitCancelClientOrder", default_parse_data_as_long, "number")
PostTransferFuturesProService ==
    Rest("POST_SIGN", "/v1/futures/transfer", default_parse_data_as_long, "number")

SubOrderUpdateV2Service_Public == Feed("SubscribeClient", "v2", FALSE, orders_update_channel)

SubOrderUpdateV2Service == Feed("SubscribeClient", "v2", TRUE, orders_update_channel)
SubTradeClearingV2Service == Feed("SubscribeClient", "v2", TRUE, trade_clearing_channel)
ReqOrderListService == Feed("WebSocketReqClient", "v1", TRUE, request_order_list_channel)
ReqOrderDetailService == Feed("WebSocketReqClient", "v1", TRUE, request_order_detail_channel)

-----------------------------------------------------------------------------
(* Operations                                                              *)

get_feerate == Op(GetFeeRateService, {"symbols"}, {}, <<check_symbol("symbols")>>, Same({"symbols"}))

get_transact_feerate ==
    Op(GetTransactFeeRateService, {"symbols"}, {}, <<check_symbol("symbols")>>, Same({"symbols"}))

sub_order_update ==
    Op(SubOrderUpdateV2Service, {"symbols", "callback"}, {},
       <<calls_method("symbols"), check_symbol_list("symbols"), check_should_not_none("callback")>>,
       "symbol_list" :> "symbols")

\* "*" stands for every symbol
sub_trade_clearing ==
    Op(SubTradeClearingV2Service, {"symbols", "callback"}, {},
       <<check_should_not_none("symbols"), check_symbol_list("symbols"), check_should_not_none("callback")>>,
       "symbol_list" :> "symbols")

req_order_list ==
    Op(ReqOrderListService, {"symbol", "account_id", "callback", "order_states"},
       {"order_types", "start_date", "end_date", "from_id", "direct", "size", "client_req_id"},
       <<check_should_not_none("symbol"), check_should_not_none("order_states"),
         check_should_not_none("account_id"), check_should_not_none("callback")>>,
       Same({"symbol", "direct", "size"}) @@ "account-id" :> "account_id" @@ "states" :> "order_states"
       @@ "types" :> "order_types" @@ "start-date" :> "start_date" @@ "end-date" :> "end_date"
       @@ "from" :> "from_id" @@ "client-req-id" :> "client_req_id")

req_order_detail ==
    Op(ReqOrderDetailService, {"order_id", "callback"}, {"client_req_id"},
       <<check_should_not_none("order_id"), check_should_not_none("callback")>>,
       "order-id" :> "order_id" @@ "cid" :> "client_req_id")

get_order == Op(GetOrderByIdService, {"order_id"}, {}, <<check_should_not_none("order_id")>>, Same({"order_id"}))

get_order_by_client_order_id ==
    Op(GetOrderByClientOrderIdService, {"client_order_id"}, {},
       <<check_should_not_none("client_order_id")>>, "clientOrderId" :> "client_order_id")

get_orders ==
    Op(GetOrdersService, {"symbol", "order_state"},
       {"order_type", "start_date", "end_date", "start_id", "size", "direct"},
       <<check_symbol("symbol"), check_should_not_none("order_state"), format_date("start_date"),
         format_date("end_date")>>,
       Same({"symbol", "size", "direct"}) @@ "types" :> "order_type" @@ "start-date" :> "start_date"
       @@ "end-date" :> "end_date" @@ "from" :> "start_id" @@ "states" :> "order_state")

get_open_orders ==
    Op(GetOpenOrdersService, {"symbol", "account_id"}, {"side", "size", "from_id", "direct"},
       <<check_symbol("symbol"), check_range("size"), check_should_not_none("account_id")>>,
       Same({"symbol", "side", "size", "direct"}) @@ "account-id" :> "account_id" @@ "from" :> "from_id")

get_history_orders ==
    Op(GetHistoryOrdersService, {}, {"symbol", "start_time", "end_time", "size", "direct"}, <<>>,
       Same({"symbol", "size", "direct"}) @@ "start-time" :> "start_time" @@ "end-time" :> "end_time")

get_match_result ==
    Op(GetMatchResultsService, {"symbol"},
       {"order_type", "start_date", "end_date", "size", "from_id", "direct"},
       <<check_symbol("symbol"), format_date("start_date"), format_date("end_date"), check_range("size")>>,
       Same({"symbol", "size", "direct"}) @@ "start-date" :> "start_date" @@ "end-date" :> "end_date"
       @@ "types" :> "order_type" @@ "from" :> "from_id")

get_match_results_by_order_id ==
    Op(GetMatchResultsByOrderIdService, {"order_id"}, {}, <<check_should_not_none("order_id")>>,
       Same({"order_id"}))

-----------------------------------------------------------------------------
(* Orders.  The price is mandatory with a limit, and dropped from a market *)
(* order.                                                                  *)

OrderKeys ==
    Same({"amount", "price", "symbol", "source", "operator"}) @@ "account-id" :> "account_id"
    @@ "type" :> "order_type" @@ "client-order-id" :> "client_order_id"

create_order_param_check ==
    <<check_symbol("symbol"), check_should_not_none("account_id"), check_should_not_none("order_type"),
      check_should_not_none("amount"), check_should_not_none("source"),
      Only(check_should_not_none("price"), "order_type", {"limit"})>>

Ordering(by, required, optional, checks, sends) ==
    Withholding(Op(by, required, optional, checks \o create_order_param_check, sends),
                "price", "order_type", {"market"})

OrderArguments == {"symbol", "account_id", "order_type", "amount", "price"}
OrderOptions == {"client_order_id", "stop_price", "operator"}

create_order ==
    Ordering(PostCreateOrderService, OrderArguments \cup {"source"}, OrderOptions, <<>>,
             OrderKeys @@ "stop-price" :> "stop_price")
\* create_order with the source of a market; the argument is not the caller's
sourced_order ==
    Ordering(PostCreateOrderService, OrderArguments, OrderOptions, <<>>, OrderKeys @@ "stop-price" :> "stop_price")
create_spot_order == sourced_order
create_margin_order == sourced_order
create_super_margin_order == sourced_order

\* One item of the list, with the keys the documentation gives them, and the two it does
\* not mention: account_id (it has account_type) and source.  The stop price is looked
\* for under "stop-price", where it never is.
batch_create_order ==
    Ordering(PostBatchCreateOrderService,
             {"order_config_list", "account_type"} \cup (OrderArguments \ {"account_id"}),
             {"account_id", "source"} \cup OrderOptions,
             <<check_should_not_none("order_config_list"), check_list("order_config_list")>>, OrderKeys)

cancel_order ==
    Op(PostCancelOrderService, {"symbol", "order_id"}, {},
       <<check_symbol("symbol"), check_should_not_none("order_id")>>, Same({"order_id"}))

cancel_orders ==
    Op(PostBatchCancelOrderService, {"symbol", "order_id_list"}, {},
       <<check_symbol("symbol"), check_should_not_none("order_id_list"), check_list("order_id_list")>>,
       "order-ids" :> "order_id_list")

cancel_open_orders ==
    Op(PostBatchCancelOpenOrderService, {"account_id"}, {"symbols", "side", "size"},
       <<check_should_not_none("account_id")>>,
       Same({"side", "size"}) @@ "account-id" :> "account_id" @@ "symbol" :> "symbols")

cancel_client_order ==
    Op(PostCancelClientOrderService, {"client_order_id"}, {},
       <<check_should_not_none("client_order_id")>>, "client-order-id" :> "client_order_id")

transfer_between_futures_and_pro ==
    Op(PostTransferFuturesProService, {"currency", "amount", "transfer_type"}, {},
       <<check_currency("currency"), check_should_not_none("amount"), check_should_not_none("transfer_type")>>,
       Same({"currency", "amount"}) @@ "type" :> "transfer_type")

-----------------------------------------------------------------------------
Operations ==
    [get_feerate |-> get_feerate, get_transact_feerate |-> get_transact_feerate,
     sub_order_update |-> sub_order_update, sub_trade_clearing |-> sub_trade_clearing,
     req_order_list |-> req_order_list, req_order_detail |-> req_order_detail,
     get_order |-> get_order, get_order_by_client_order_id |-> get_order_by_client_order_id,
     get_orders |-> get_orders, get_open_orders |-> get_open_orders,
     get_history_orders |-> get_history_orders, get_match_result |-> get_match_result,
     get_match_results_by_order_id |-> get_match_results_by_order_id, create_order |-> create_order,
     create_spot_order |-> create_spot_order, create_margin_order |-> create_margin_order,
     create_super_margin_order |-> create_super_margin_order,
     batch_create_order |-> batch_create_order, cancel_order |-> cancel_order,
     cancel_orders |-> cancel_orders, cancel_open_orders |-> cancel_open_orders,
     cancel_client_order |-> cancel_client_order,
     transfer_between_futures_and_pro |-> transfer_between_futures_and_pro]
=============================================================================
