---------------------------- MODULE AccountClient ----------------------------
(***************************************************************************)
(* The operations of AccountClient (client/account.py) and the services    *)
(* they use (service/account), in the words of RestApi.  The one that asks *)
(* for all balances at once, get_account_balance, is AccountBalance.       *)
(***************************************************************************)
EXTENDS RestApi

\* With a mode the topic is one of two; without, the plain one
accounts_update_channel == Channel("action", {"mode"})
request_account_list_channel == Channel("op", {"client_req_id"})

GetAccountsService == Rest("GET_SIGN", "/v1/account/accounts", default_parse_list, "[]")
\* data.get("list", []): [] when there is none
GetBalanceService ==
    RestAt("GET_SIGN", "/v1/account/accounts/{}/balance", "account-id",
           Parses(Objects \cup {"{}"}, {}), "{}")
GetAccountBalanceBySubUidService ==
    RestAt("GET_SIGN", "/v1/account/accounts/{}", "sub-uid", json_parse_list, "[]")
GetAggregateSubUserBalanceService ==
    Rest("GET_SIGN", "/v1/subuser/aggregate-balance", default_parse_list_dict, "[]")
GetAccountHistoryService == Rest("GET_SIGN", "/v1/account/history", default_parse_list, "[]")
GetAccountLedgerService == Rest("GET_SIGN", "/v2/account/ledger", default_parse_list, "[]")
GetAccountAssetValuationService == Rest("GET_SIGN", "/v2/account/asset-valuation", default_parse_flat, "{}")
GetAccountPointService == Rest("GET_SIGN", "/v2/point/account", default_parse_flat, "{}")
PostSubaccountTransferService == Rest("POST_SIGN", "/v1/subuser/transfer", default_parse_data_as_long, "number")
PostTransferBetweenFuturesAndProService ==
    Rest("POST_SIGN", "/v1/futures/transfer", default_parse_data_as_long, "number")
PostSubUidManagementService == Rest("POST_SIGN", "/v2/sub-user/management", default_parse_list_dict, "{}")
PostAccountTransferService == Rest("POST_SIGN", "/v1/account/transfer", default_parse_flat, "{}")
PostPointTransferService == Rest("POST_SIGN", "/v2/point/transfer", default_parse_flat, "{}")
SubAccountUpdateV2Service == Feed("SubscribeClient", "v2", TRUE, accounts_update_channel)
ReqAccountBalanceService == Feed("WebSocketReqClient", "v1", TRUE, request_account_list_channel)

-----------------------------------------------------------------------------
get_accounts == Op(GetAccountsService, {}, {}, <<>>, <<>>)

\* looks through the accounts get_accounts returns
get_account_by_type_and_symbol == Op(GetAccountsService, {"account_type", "symbol"}, {}, <<>>, <<>>)

get_balance ==
    Op(GetBalanceService, {"account_id"}, {}, <<check_should_not_none("account_id")>>, "account-id" :> "account_id")

get_account_balance_by_subuid ==
    Op(GetAccountBalanceBySubUidService, {"sub_uid"}, {}, <<check_should_not_none("sub_uid")>>,
       "sub-uid" :> "sub_uid")

get_aggregated_subuser_balance == Op(GetAggregateSubUserBalanceService, {}, {}, <<>>, <<>>)

transfer_between_parent_and_subuser ==
    Op(PostSubaccountTransferService, {"sub_uid", "currency", "amount", "transfer_type"}, {},
       <<check_currency("currency"), check_should_not_none("sub_uid"), check_should_not_none("amount"),
         check_should_not_none("transfer_type")>>,
       Same({"currency", "amount"}) @@ "sub-uid" :> "sub_uid" @@ "type" :> "transfer_type")

\* A mode that is not TOTAL is BALANCE.
sub_account_update ==
    Defaulting(Op(SubAccountUpdateV2Service, {"mode", "callback"}, {},
                  <<check_should_not_none("callback")>>, Same({"mode"})), "mode")

req_account_balance ==
    Op(ReqAccountBalanceService, {"callback"}, {"client_req_id"}, <<check_should_not_none("callback")>>,
       Same({"client_req_id"}))

transfer_between_futures_and_pro ==
    Op(PostTransferBetweenFuturesAndProService, {"currency", "amount", "transfer_type"}, {},
       <<check_currency("currency"), check_should_not_none("amount"), check_should_not_none("transfer_type")>>,
       Same({"currency", "amount"}) @@ "type" :> "transfer_type")

get_account_history ==
    Op(GetAccountHistoryService, {"account_id"},
       {"currency", "transact_types", "start_time", "end_time", "sort", "size"},
       <<check_should_not_none("account_id")>>,
       Same({"currency", "sort", "size"}) @@ "account-id" :> "account_id"
       @@ "transact-types" :> "transact_types" @@ "start-time" :> "start_time" @@ "end-time" :> "end_time")

post_sub_uid_management ==
    Op(PostSubUidManagementService, {"sub_uid", "action"}, {},
       <<check_should_not_none("sub_uid"), check_should_not_none("action")>>,
       Same({"action"}) @@ "subUid" :> "sub_uid")

get_account_ledger ==
    Op(GetAccountLedgerService, {"account_id"},
       {"currency", "transact_types", "start_time", "end_time", "sort", "limit", "from_id"},
       <<check_should_not_none("account_id")>>,
       Same({"currency", "sort", "limit"}) @@ "accountId" :> "account_id"
       @@ "transactTypes" :> "transact_types" @@ "startTime" :> "start_time" @@ "endTime" :> "end_time"
       @@ "fromId" :> "from_id")

post_account_transfer ==
    Op(PostAccountTransferService,
       {"from_user", "from_account_type", "from_account", "to_user", "to_account_type", "to_account",
        "currency", "amount"}, {},
       <<check_should_not_none("from_user"), check_should_not_none("from_account_type"),
         check_should_not_none("from_account"), check_should_not_none("to_user"),
         check_should_not_none("to_account"), check_should_not_none("to_account_type"),
         check_should_not_none("currency"), check_in_list("from_account_type"), check_in_list("to_account_type")>>,
       Same({"currency", "amount"}) @@ "from-user" :> "from_user" @@ "from-account-type" :> "from_account_type"
       @@ "from-account" :> "from_account" @@ "to-user" :> "to_user" @@ "to-account-type" :> "to_account_type"
       @@ "to-account" :> "to_account")

get_account_asset_valuation ==
    Op(GetAccountAssetValuationService, {"account_type"}, {"valuation_currency", "sub_uid"},
       <<check_should_not_none("account_type"), calls_method("valuation_currency")>>,
       "accountType" :> "account_type" @@ "valuationCurrency" :> "valuation_currency" @@ "subUid" :> "sub_uid")

get_account_point == Op(GetAccountPointService, {}, {"sub_uid"}, <<>>, "subUid" :> "sub_uid")

post_point_transfer ==
    Op(PostPointTransferService, {"from_uid", "to_uid", "group_id", "amount"}, {}, <<>>,
       Same({"amount"}) @@ "fromUid" :> "from_uid" @@ "toUid" :> "to_uid" @@ "groupId" :> "group_id")

-----------------------------------------------------------------------------
Operations ==
    [get_accounts |-> get_accounts, get_account_by_type_and_symbol |-> get_account_by_type_and_symbol,
     get_balance |-> get_balance, get_account_balance_by_subuid |-> get_account_balance_by_subuid,
     get_aggregated_subuser_balance |-> get_aggregated_subuser_balance,
     transfer_between_parent_and_subuser |-> transfer_between_parent_and_subuser,
     sub_account_update |-> sub_account_update, req_account_balance |-> req_account_balance,
     transfer_between_futures_and_pro |-> transfer_between_futures_and_pro,
     get_account_history |-> get_account_history, post_sub_uid_management |-> post_sub_uid_management,
     get_account_ledger |-> get_account_ledger, post_account_transfer |-> post_account_transfer,
     get_account_asset_valuation |-> get_account_asset_valuation,
     get_account_point |-> get_account_point, post_point_transfer |-> post_point_transfer]
=============================================================================
