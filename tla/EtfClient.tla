------------------------------ MODULE EtfClient ------------------------------
(***************************************************************************)
(* The operations of EtfClient (client/etf.py) and the services they use   *)
(* (service/etf), in the words of RestApi.                                 *)
(***************************************************************************)
EXTENDS RestApi

GetEtfSwapConfigService == Rest("GET", "/etf/swap/config", default_parse, "{}")
\* iterates over the data without looking whether there is any
GetEtfSwapListService == Rest("GET_SIGN", "/etf/swap/list", Parses({"list", "[]", "{}"}, {}), "[]")
\* the whole reply is the data
PostEftSwapInService == Rest("POST_SIGN", "/etf/swap/in", as_it_came, "{}")
PostEtfSwapOutService == Rest("POST_SIGN", "/etf/swap/out", as_it_came, "{}")

get_etf_swap_config ==
    Op(GetEtfSwapConfigService, {"etf_name"}, {}, <<check_symbol("etf_name")>>, Same({"etf_name"}))

get_etf_swap_list ==
    Op(GetEtfSwapListService, {"etf_name", "offset", "size"}, {}, <<check_symbol("etf_name")>>,
       Same({"etf_name", "offset"}) @@ "limit" :> "size")

swap(by) ==
    Op(by, {"etf_name", "amount"}, {}, <<check_symbol("etf_name"), check_should_not_none("amount")>>,
       Same({"etf_name", "amount"}))
post_etf_swap_in == swap(PostEftSwapInService)
post_etf_swap_out == swap(PostEtfSwapOutService)

Operations ==
    [get_etf_swap_config |-> get_etf_swap_config, get_etf_swap_list |-> get_etf_swap_list,
     post_etf_swap_in |-> post_etf_swap_in, post_etf_swap_out |-> post_etf_swap_out]
=============================================================================
