---------------------------- MODULE WalletClient ----------------------------
(***************************************************************************)
(* The operations of WalletClient (client/wallet.py) and the services they *)
(* use (service/wallet), in the words of RestApi.                          *)
(***************************************************************************)
EXTENDS RestApi

\* a list of Deposit or of Withdraw, by the type that was asked for
GetDepositWithdrawService == Rest("GET_SIGN", "/v1/query/deposit-withdraw", default_parse_list_dict, "[]")
PostCreateWithdrawService ==
    Rest("POST_SIGN", "/v1/dw/withdraw/api/create", default_parse_data_as_long, "number")
PostCancelWithdrawService ==
    RestAt("POST_SIGN", "/v1/dw/withdraw-virtual/{}/cancel", "withdraw-id", default_parse_data_as_long, "number")
GetAccountDepositAddressService ==
    Rest("GET_SIGN", "/v2/account/deposit/address", default_parse_list_dict, "[]")
GetAccountWithdrawAddressService ==
    Rest("GET_SIGN", "/v2/account/withdraw/address", default_parse_list_dict, "[]")
\* data.get("chains", []): None when there are none
GetAccountWithdrawQuotaService ==
    Rest("GET_SIGN", "/v2/account/withdraw/quota", Parses({"nested"}, {"dict", "{}"}), "{}")
GetSubUserDepositAddressService ==
    Rest("GET_SIGN", "/v2/sub-user/deposit-address", default_parse_list, "[]")
\* a DepositHistory, whose data are None when there are none
GetSubUserDepositHistoryService == Rest("GET_SIGN", "/v2/sub-user/query-deposit", Parses(Data \ {"number"}, {}), "[]")

-----------------------------------------------------------------------------
get_deposit_withdraw ==
    Op(GetDepositWithdrawService, {"op_type"}, {"currency", "from_id", "size", "direct"},
       <<check_should_not_none("op_type")>>,
       Same({"currency", "size", "direct"}) @@ "type" :> "op_type" @@ "from" :> "from_id")

post_create_withdraw ==
    Op(PostCreateWithdrawService, {"address", "amount", "currency", "fee"}, {"chain", "address_tag"},
       <<check_symbol("currency"), check_should_not_none("address"), check_should_not_none("amount"),
         check_should_not_none("fee")>>,
       Same({"address", "amount", "currency", "fee", "chain"}) @@ "addr-tag" :> "address_tag")

\* Nothing is checked: without an id the path ends in ".../None/cancel".
post_cancel_withdraw ==
    Op(PostCancelWithdrawService, {"withdraw_id"}, {}, <<>>, "withdraw-id" :> "withdraw_id")

OfCurrency(by) ==
    Op(by, {"currency"}, {}, <<check_should_not_none("currency")>>, Same({"currency"}))
get_account_deposit_address == OfCurrency(GetAccountDepositAddressService)
get_account_withdraw_quota == OfCurrency(GetAccountWithdrawQuotaService)

get_sub_user_deposit_history ==
    Op(GetSubUserDepositHistoryService, {"sub_uid"},
       {"currency", "start_time", "end_time", "sort", "limit", "from_id"}, <<check_should_not_none("sub_uid")>>,
       Same({"currency", "sort", "limit"}) @@ "subUid" :> "sub_uid" @@ "startTime" :> "start_time"
       @@ "endTime" :> "end_time" @@ "fromId" :> "from_id")

get_sub_user_deposit_address ==
    Op(GetSubUserDepositAddressService, {"sub_uid", "currency"}, {},
       <<check_should_not_none("sub_uid"), check_should_not_none("currency")>>,
       Same({"currency"}) @@ "subUid" :> "sub_uid")

get_account_withdraw_address ==
    Op(GetAccountWithdrawAddressService, {"currency"}, {"chain", "note", "limit", "fromid"},
       <<check_should_not_none("currency")>>, Same({"currency", "chain", "note", "limit", "fromid"}))

Operations ==
    [get_deposit_withdraw |-> get_deposit_withdraw, post_create_withdraw |-> post_create_withdraw,
     post_cancel_withdraw |-> post_cancel_withdraw,
     get_account_deposit_address |-> get_account_deposit_address,
     get_account_withdraw_quota |-> get_account_withdraw_quota,
     get_sub_user_deposit_history |-> get_sub_user_deposit_history,
     get_sub_user_deposit_address |-> get_sub_user_deposit_address,
     get_account_withdraw_address |-> get_account_withdraw_address]
=============================================================================
