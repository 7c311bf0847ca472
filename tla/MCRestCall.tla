----------------------------- MODULE MCRestCall -----------------------------
(* RestCall with every operation of the nine clients.                      *)
EXTENDS RestCall

Trade   == INSTANCE TradeClient
Algo    == INSTANCE AlgoClient
Account == INSTANCE AccountClient
Margin  == INSTANCE MarginClient
Wallet  == INSTANCE WalletClient
Subuser == INSTANCE SubuserClient
Market  == INSTANCE MarketClient
Generic == INSTANCE GenericClient
Etf     == INSTANCE EtfClient

MCClients ==
    [trade |-> Trade!Operations, algo |-> Algo!Operations, account |-> Account!Operations,
     margin |-> Margin!Operations, wallet |-> Wallet!Operations, subuser |-> Subuser!Operations,
     market |-> Market!Operations, generic |-> Generic!Operations, etf |-> Etf!Operations]

\* Arguments that are checked and not sent, used on the result, or (the last three)
\* forgotten by the code.
MCKept ==
    {<<<<"trade", "cancel_order">>, "symbol">>, <<<<"trade", "cancel_orders">>, "symbol">>,
     <<<<"account", "get_account_by_type_and_symbol">>, "account_type">>,
     <<<<"account", "get_account_by_type_and_symbol">>, "symbol">>,
     <<<<"market", "get_pricedepth">>, "depth_size">>,
     <<<<"trade", "batch_create_order">>, "order_config_list">>,
     <<<<"trade", "batch_create_order">>, "account_type">>,
     <<<<"trade", "batch_create_order">>, "stop_price">>,
     <<<<"market", "req_mbp">>, "auto_close">>,
     <<<<"margin", "get_general_repayment_loan_records">>, "currency">>}

MCUnguarded == {<<"wallet", "post_cancel_withdraw">>}

\* A price is needed with a limit only; a currency that has no default is called
\* optional (wallet.py:91).
MCNeeded ==
    [o \in {<<<<"trade", n>>, "price">> : n \in {"create_order", "create_spot_order", "create_margin_order",
                                                 "create_super_margin_order", "batch_create_order"}}
           \cup {<<<<"algo", "create_order">>, "order_price">>} |-> [order_type |-> {"limit"}]]
    @@ (<<<<"wallet", "get_account_deposit_address">>, "currency">> :> [currency |-> {}])

\* The batch needs two keys that its documentation does not list; time_in_force is
\* checked by a call that lacks an argument; None has no upper(); and two names that
\* are optional are checked.
MCRefusing ==
    {<<<<"trade", "batch_create_order">>, "account_id", "none">>,
     <<<<"trade", "batch_create_order">>, "source", "none">>,
     <<<<"algo", "create_order">>, "time_in_force", "fit">>,
     <<<<"account", "get_account_asset_valuation">>, "valuation_currency", "none">>,
     <<<<"margin", "get_margin_loan_info">>, "symbols", "none">>,
     <<<<"wallet", "get_account_deposit_address">>, "currency", "none">>}
=============================================================================
