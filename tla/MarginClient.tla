---------------------------- MODULE MarginClient ----------------------------
(***************************************************************************)
(* The operations of MarginClient (client/margin.py) and the services they *)
(* use (service/margin), in the words of RestApi.                          *)
(***************************************************************************)
EXTENDS RestApi

Posting(path) == Rest("POST_SIGN", path, default_parse_data_as_long, "number")
PostTransferInMarginService == Posting("/v1/dw/transfer-in/margin")
PostTransferOutMarginService == Posting("/v1/dw/transfer-out/margin")
PostCreateMarginOrderService == Posting("/v1/margin/orders")
PostRepayMarginOrderService ==
    RestAt("POST_SIGN", "/v1/margin/orders/{}/repay", "loan_id", default_parse_data_as_long, "number")
PostCrossMarginTransferInService == Posting("/v1/cross-margin/transfer-in")
PostCrossMarginTransferOutService == Posting("/v1/cross-margin/transfer-out")
PostCrossMarginCreateLoanOrdersService == Posting("/v1/cross-margin/orders")
\* returns the status, which the replies of the first version have
PostCrossMarginLoanOrderRepayService ==
    RestAt("POST_SIGN", "/v1/cross-margin/orders/{}/repay", "order-id", as_it_came, "null")
PostGeneralRepayLoanService == Rest("POST_SIGN", "/v2/account/repayment", default_parse_list_dict, "{}")
GetGeneralRepaymentLoanRecordsService ==
    Rest("GET_SIGN", "/v2/account/repayment", default_parse_list_dict, "{}")
GetMarginAccountBalanceService == Rest("GET_SIGN", "/v1/margin/accounts/balance", json_parse_list, "[]")
GetMarginLoanOrdersService == Rest("GET_SIGN", "/v1/margin/loan-orders", default_parse_list, "[]")
\* iterates over the data without looking whether there is any
GetMarginLoanInfoService == Rest("GET_SIGN", "/v1/margin/loan-info", Parses({"list", "[]", "{}"}, {}), "[]")
GetCrossMarginLoanInfoService == Rest("GET_SIGN", "/v1/cross-margin/loan-info", default_parse_list, "[]")
GetCrossMarginLoanOrdersService == Rest("GET_SIGN", "/v1/cross-margin/loan-orders", default_parse_list, "[]")
\* takes the list out of the object, which must have one
GetCrossMarginAccountBalanceService ==
    Rest("GET_SIGN", "/v1/cross-margin/accounts/balance", Parses({"nested"}, {}), "{}")

-----------------------------------------------------------------------------
InMargin(by) ==
    Op(by, {"symbol", "currency", "amount"}, {},
       <<check_symbol("symbol"), check_should_not_none("currency"), check_should_not_none("amount")>>,
       Same({"symbol", "currency", "amount"}))
post_transfer_in_margin == InMargin(PostTransferInMarginService)
post_transfer_out_margin == InMargin(PostTransferOutMarginService)
post_create_margin_order == InMargin(PostCreateMarginOrderService)

get_margin_account_balance ==
    Op(GetMarginAccountBalanceService, {"symbol"}, {}, <<check_symbol("symbol")>>, Same({"symbol"}))

post_repay_margin_order ==
    Op(PostRepayMarginOrderService, {"loan_id", "amount"}, {},
       <<check_should_not_none("loan_id"), check_should_not_none("amount")>>, Same({"loan_id", "amount"}))

get_margin_loan_orders ==
    Op(GetMarginLoanOrdersService, {"symbol"},
       {"start_date", "end_date", "states", "from_id", "size", "direction"},
       <<check_symbol("symbol"), format_date("start_date"), format_date("end_date")>>,
       Same({"symbol", "states", "size"}) @@ "start-date" :> "start_date" @@ "end-date" :> "end_date"
       @@ "from" :> "from_id" @@ "direct" :> "direction")

\* symbols is optional, and yet checked
get_margin_loan_info ==
    Op(GetMarginLoanInfoService, {}, {"symbols"}, <<check_symbol("symbols")>>, Same({"symbols"}))

get_cross_margin_loan_info == Op(GetCrossMarginLoanInfoService, {}, {}, <<>>, <<>>)

CrossMargin(by) ==
    Op(by, {"currency", "amount"}, {},
       <<check_should_not_none("currency"), check_should_not_none("amount")>>, Same({"currency", "amount"}))
post_cross_margin_transfer_in == CrossMargin(PostCrossMarginTransferInService)
post_cross_margin_transfer_out == CrossMargin(PostCrossMarginTransferOutService)
post_cross_margin_create_loan_orders == CrossMargin(PostCrossMarginCreateLoanOrdersService)

post_cross_margin_loan_order_repay ==
    Op(PostCrossMarginLoanOrderRepayService, {"order_id", "amount"}, {},
       <<check_should_not_none("order_id"), check_should_not_none("amount")>>,
       Same({"amount"}) @@ "order-id" :> "order_id")

get_cross_margin_loan_orders ==
    Op(GetCrossMarginLoanOrdersService, {},
       {"currency", "state", "start_date", "end_date", "from_id", "size", "direct", "sub_uid"}, <<>>,
       Same({"currency", "state", "size", "direct"}) @@ "start-date" :> "start_date"
       @@ "end-date" :> "end_date" @@ "from" :> "from_id" @@ "sub-uid" :> "sub_uid")

get_cross_margin_account_balance ==
    Op(GetCrossMarginAccountBalanceService, {}, {"sub_uid"}, <<>>, "sub-uid" :> "sub_uid")

post_general_repay_loan ==
    Op(PostGeneralRepayLoanService, {"account_id", "currency", "amount"}, {"transact_id"},
       <<check_should_not_none("account_id"), check_should_not_none("currency"), check_should_not_none("amount")>>,
       Same({"currency", "amount", "transact_id"}) @@ "accountId" :> "account_id")

\* The currency goes with the account or not at all.
get_general_repayment_loan_records ==
    Withholding(
        Op(GetGeneralRepaymentLoanRecordsService, {},
           {"repay_id", "account_id", "currency", "start_time", "end_time", "sort", "limit", "from_id"}, <<>>,
           Same({"currency", "sort", "limit"}) @@ "repayId" :> "repay_id" @@ "accountId" :> "account_id"
           @@ "startTime" :> "start_time" @@ "endTime" :> "end_time" @@ "fromId" :> "from_id"),
        "currency", "account_id", {"none"})

-----------------------------------------------------------------------------
Operations ==
    [post_transfer_in_margin |-> post_transfer_in_margin, post_transfer_out_margin |-> post_transfer_out_margin,
     post_create_margin_order |-> post_create_margin_order,
     get_margin_account_balance |-> get_margin_account_balance,
     post_repay_margin_order |-> post_repay_margin_order, get_margin_loan_orders |-> get_margin_loan_orders,
     get_margin_loan_info |-> get_margin_loan_info, get_cross_margin_loan_info |-> get_cross_margin_loan_info,
     post_cross_margin_transfer_in |-> post_cross_margin_transfer_in,
     post_cross_margin_transfer_out |-> post_cross_margin_transfer_out,
     post_cross_margin_create_loan_orders |-> post_cross_margin_create_loan_orders,
     post_cross_margin_loan_order_repay |-> post_cross_margin_loan_order_repay,
     get_cross_margin_loan_orders |-> get_cross_margin_loan_orders,
     get_cross_margin_account_balance |-> get_cross_margin_account_balance,
     post_general_repay_loan |-> post_general_repay_loan,
     get_general_repayment_loan_records |-> get_general_repayment_loan_records]
=============================================================================
