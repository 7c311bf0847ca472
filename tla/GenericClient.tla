---------------------------- MODULE GenericClient ----------------------------
(***************************************************************************)
(* The operations of GenericClient (client/generic.py) and the services    *)
(* they use (service/generic), in the words of RestApi.                    *)
(***************************************************************************)
EXTENDS RestApi

GetExchangeTimestampService == Rest("GET", "/v1/common/timestamp", default_parse_data_as_long, "number")
\* len() of the data, whatever they are
GetExchangeCurrenciesService ==
    Rest("GET", "/v1/common/currencys", Parses(Data \ {"null", "number"}, {}), "[]")
GetExchangeSymbolsService == Rest("GET", "/v1/common/symbols", default_parse_list, "[]")
GetReferenceCurrenciesService == Rest("GET", "/v2/reference/currencies", json_parse_list, "[]")
\* a page of another site
GetSystemStatusService == Rest("GET", "/api/v2/summary.json", as_it_came, "{}")
GetMarketStatusService == Rest("GET", "/v2/market-status", default_parse, "{}")

Asking(by) == Op(by, {}, {}, <<>>, <<>>)
get_exchange_timestamp == Asking(GetExchangeTimestampService)
get_exchange_currencies == Asking(GetExchangeCurrenciesService)
get_exchange_symbols == Asking(GetExchangeSymbolsService)
get_system_status == Asking(GetSystemStatusService)
get_market_status == Asking(GetMarketStatusService)

get_reference_currencies ==
    Op(GetReferenceCurrenciesService, {}, {"currency", "is_authorized_user"}, <<>>,
       Same({"currency"}) @@ "authorizedUser" :> "is_authorized_user")

Operations ==
    [get_exchange_timestamp |-> get_exchange_timestamp,
     get_exchange_currencies |-> get_exchange_currencies,
     get_exchange_symbols |-> get_exchange_symbols, get_system_status |-> get_system_status,
     get_market_status |-> get_market_status, get_reference_currencies |-> get_reference_currencies]
=============================================================================
