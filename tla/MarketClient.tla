---------------------------- MODULE MarketClient ----------------------------
(***************************************************************************)
(* The operations of MarketClient (client/market.py) and the services they *)
(* use (service/market), in the words of RestApi.                          *)
(***************************************************************************)
EXTENDS RestApi

-----------------------------------------------------------------------------
(* Channels of the market lines (utils/channels.py, channels_request.py)   *)

kline_channel           == Channel("sub", {"symbol_list", "interval"})
market_detail_channel   == Channel("sub", {"symbol_list"})
trade_detail_channel    == Channel("sub", {"symbol_list"})
price_depth_channel     == Channel("sub", {"symbol_list", "step"})
price_depth_bbo_channel == Channel("sub", {"symbol_list"})
mbp_increase_channel    == Channel("sub", {"symbol_list", "levels"})
mbp_full_channel        == Channel("sub", {"symbol_list", "levels"})
request_kline_channel   == Channel("req", {"symbol_list", "interval", "from_ts_second", "end_ts_second"})
request_market_detail_channel == Channel("req", {"symbol_list"})
request_trade_detail_channel  == Channel("req", {"symbol_list"})
request_price_depth_channel   == Channel("req", {"symbol_list", "step"})
request_mbp_channel           == Channel("req", {"symbol_list", "levels"})

-----------------------------------------------------------------------------
(* Services                                                                *)

GetCandleStickService == Rest("GET", "/market/history/kline", default_parse_list_dict, "[]")
\* len() of the data, whatever they are; then their rows
GetHistoryTradeService == Rest("GET", "/market/history/trade", Parses({"list", "[]", "{}"}, {}), "[]")
GetMarketDetailService == Rest("GET", "/market/detail", default_parse, "{}")
GetMarketDetailMergedService == Rest("GET", "/market/detail/merged", default_parse_fill_directly, "{}")
GetMarketTickersService == Rest("GET", "/market/tickers", default_parse_list_dict, "[]")
\* tick.get("data", []), and [] when there are none
GetMarketTradeService == Rest("GET", "/market/trade", Parses(Objects \cup {"{}"}, {}), "{}")
GetPriceDepthService == Rest("GET", "/market/depth", Parses(Objects \cup {"{}"}, {}), "{}")

Subscribing(channel) == Feed("SubscribeClient", "v1", FALSE, channel)
SubCandleStickService == Subscribing(kline_channel)
SubMarketDetailService == Subscribing(market_detail_channel)
SubTradeDetailService == Subscribing(trade_detail_channel)
SubPriceDepthService == Subscribing(price_depth_channel)
SubPriceDepthBboService == Subscribing(price_depth_bbo_channel)
SubMbpFullService == Subscribing(mbp_full_channel)
\* the increments are on a line of their own
SubMbpIncreaseService == Feed("SubscribeClient", "mbp", FALSE, mbp_increase_channel)

Requesting(channel) == Feed("WebSocketReqClient", "v1", FALSE, channel)
ReqCandleStickService == Requesting(request_kline_channel)
ReqMarketDetailService == Requesting(request_market_detail_channel)
ReqTradeDetailService == Requesting(request_trade_detail_channel)
ReqPriceDepthService == Requesting(request_price_depth_channel)
ReqMbpService == Feed("WebSocketReqClient", "mbp", FALSE, request_mbp_channel)

-----------------------------------------------------------------------------
(* Operations over HTTP                                                    *)

get_candlestick ==
    Op(GetCandleStickService, {"symbol", "period"}, {"size"},
       <<check_symbol("symbol"), check_should_not_none("period"), check_range("size")>>,
       Same({"symbol", "period", "size"}))

\* depth_size shortens what is returned.
get_pricedepth ==
    Op(GetPriceDepthService, {"symbol", "depth_type"}, {"depth_size"},
       <<check_symbol("symbol"), check_in_list("depth_type")>>, Same({"symbol"}) @@ "type" :> "depth_type")

OfSymbol(by) == Op(by, {"symbol"}, {}, <<check_symbol("symbol")>>, Same({"symbol"}))
get_market_detail == OfSymbol(GetMarketDetailService)
get_market_detail_merged == OfSymbol(GetMarketDetailMergedService)
get_market_trade == OfSymbol(GetMarketTradeService)

get_history_trade ==
    Op(GetHistoryTradeService, {"symbol"}, {"size"}, <<check_symbol("symbol"), check_range("size")>>,
       Same({"symbol", "size"}))

get_market_tickers == Op(GetMarketTickersService, {}, {}, <<>>, <<>>)

-----------------------------------------------------------------------------
(* Operations over a WebSocket                                             *)

\* symbol_list = symbols.split(","), which is checked, and then the callback
split == <<calls_method("symbols"), check_symbol_list("symbols")>>
called == <<check_should_not_none("callback")>>
symbol_list == "symbol_list" :> "symbols"

sub_candlestick ==
    Op(SubCandleStickService, {"symbols", "interval", "callback"}, {},
       split \o <<check_should_not_none("interval")>> \o called, symbol_list @@ Same({"interval"}))

req_candlestick ==
    Op(ReqCandleStickService, {"symbols", "interval", "callback"}, {"from_ts_second", "end_ts_second"},
       split \o <<check_should_not_none("interval")>> \o called,
       symbol_list @@ Same({"interval", "from_ts_second", "end_ts_second"}))

OfSymbols(by) == Op(by, {"symbols", "callback"}, {}, split \o called, symbol_list)
sub_pricedepth_bbo == OfSymbols(SubPriceDepthBboService)
sub_market_detail == OfSymbols(SubMarketDetailService)
req_market_detail == OfSymbols(ReqMarketDetailService)
sub_trade_detail == OfSymbols(SubTradeDetailService)
req_trade_detail == OfSymbols(ReqTradeDetailService)

\* A step that is not one of the six is STEP0.
OfDepth(by) ==
    Defaulting(Op(by, {"symbols", "depth_step", "callback"}, {}, split \o called,
                  symbol_list @@ "step" :> "depth_step"), "depth_step")
sub_pricedepth == OfDepth(SubPriceDepthService)
req_pricedepth == OfDepth(ReqPriceDepthService)

ByPrice(by, optional, checks) ==
    Op(by, {"symbols", "levels", "callback"}, optional,
       <<check_should_not_none("symbols"), check_symbol_list("symbols"), check_should_not_none("levels")>>
       \o checks \o called,
       symbol_list @@ Same({"levels"}))
sub_mbp_increase == ByPrice(SubMbpIncreaseService, {}, <<>>)
\* the levels are numbers
sub_mbp_full == ByPrice(SubMbpFullService, {}, <<check_in_numbers("levels")>>)
req_mbp == ByPrice(ReqMbpService, {"auto_close"}, <<>>)

-----------------------------------------------------------------------------
Operations ==
    [get_candlestick |-> get_candlestick, get_pricedepth |-> get_pricedepth,
     get_market_detail |-> get_market_detail, get_market_detail_merged |-> get_market_detail_merged,
     get_market_trade |-> get_market_trade, get_history_trade |-> get_history_trade,
     get_market_tickers |-> get_market_tickers, sub_candlestick |-> sub_candlestick,
     req_candlestick |-> req_candlestick, sub_pricedepth_bbo |-> sub_pricedepth_bbo,
     sub_market_detail |-> sub_market_detail, req_market_detail |-> req_market_detail,
     sub_trade_detail |-> sub_trade_detail, req_trade_detail |-> req_trade_detail,
     sub_pricedepth |-> sub_pricedepth, req_pricedepth |-> req_pricedepth,
     sub_mbp_increase |-> sub_mbp_increase, sub_mbp_full |-> sub_mbp_full, req_mbp |-> req_mbp]
=============================================================================
