------------------------------- MODULE RestApi -------------------------------
(***************************************************************************)
(* The vocabulary of the clients' operations: what a check on an argument  *)
(* refuses, what a parser makes of the data in a reply, what a service is  *)
(* (a request over HTTP, or a feed over a WebSocket) and what an operation *)
(* of a client is.  The modules named after the clients (TradeClient, ...) *)
(* list their operations in these words, and RestCall runs them.           *)
(*                                                                         *)
(* An argument is "none" (None), "unfit" (of a type, a form or a size the  *)
(* documentation does not allow), for a name "crooked" (with a character   *)
(* that is not allowed, after the first), or "fit".  The type of an order  *)
(* is also "market" (BUY_MARKET, SELL_MARKET) or "limit" (one of the four  *)
(* for which a price is mandatory); "fit" is any other.                    *)
(***************************************************************************)
EXTENDS Naturals, Sequences, TLC

Values == {"none", "unfit", "crooked", "fit", "market", "limit"}

-----------------------------------------------------------------------------
(* utils/input_checker.py.  A check raises an exception on the calls whose *)
(* arguments are, each of those it names, among the values it names.       *)

Check(arg, refused, exceptions) == [refuses |-> arg :> refused, raises |-> exceptions]

check_should_not_none(a) == Check(a, {"none"}, {"InputError"})
\* re.match looks at the first character only: a crooked name passes.
check_symbol(a)          == Check(a, {"none", "unfit"}, {"InputError"})
check_currency(a)        == Check(a, {"none", "unfit"}, {"InputError"})
check_symbol_list(a)     == Check(a, {"unfit"}, {"InputError"})
\* of a wrong type: < and len() raise by themselves
check_range(a)           == Check(a, {"unfit"}, {"InputError", "TypeError"})
check_list(a)            == Check(a, {"unfit"}, {"InputError", "TypeError"})
format_date(a)           == Check(a, {"unfit"}, {"InputError"})
check_in_list(a)         == Check(a, {"unfit"}, {"InputError"})
\* ... which, when the list is one of numbers, fails to put its message together.
check_in_numbers(a)      == Check(a, {"unfit"}, {"TypeError"})

\* What Python itself raises: symbols.split(","), valuation_currency.upper()
calls_method(a) == Check(a, {"none"}, {"AttributeError"})
\* and a call of check_time_in_force(time_in_force, order_type) with one argument
calls_short(a) == Check(a, {"unfit", "fit"}, {"TypeError"})

\* A check the client makes only of some calls
Only(check, a, among) == [check EXCEPT !.refuses = @ @@ (a :> among)]

-----------------------------------------------------------------------------
(* The parsers, by the kind of data they are given: "nested" is an object  *)
(* with a list of objects inside.  "none" is the value None.               *)

Data == {"null", "[]", "{}", "number", "list", "dict", "nested"}
Objects == {"dict", "nested"}

Parses(good, empty) ==
    [d \in Data |-> IF d \in good THEN "value" ELSE IF d \in empty THEN "none" ELSE "error"]

\* .items() of anything but an object raises
default_parse           == Parses(Objects \cup {"{}"}, {})
\* with [] or {} given as the class of what is inside, which cannot be called
default_parse_flat      == [default_parse EXCEPT !["nested"] = "error"]
default_parse_fill_directly == Parses(Objects \cup {"{}"}, {})
\* len() of a number raises; the default value, None or [], is for data that is empty
default_parse_list_dict == Parses(Objects \cup {"list"}, {"null", "[]", "{}"})
default_parse_list      == Parses(Objects \cup {"list", "null", "[]", "{}"}, {})
\* int() of a list or an object raises
default_parse_data_as_long == Parses({"number"}, {"null"})
\* a model's json_parse_list iterates over the rows: those of an object are strings
json_parse_list         == Parses({"list", "null", "[]", "{}"}, {})
\* the reply is passed on as it came
as_it_came              == Parses(Data, {})

-----------------------------------------------------------------------------
(* Services.                                                               *)

\* RestApiSyncClient(**kwargs).request_process(http, path, params, parse), where
\* parse looks at the data of the reply, or at unset when it has none.
Rest(http, path, parse, unset) ==
    [over |-> "http", http |-> http, path |-> path, parse |-> parse, unset |-> unset,
     seg |-> {}, batch |-> FALSE]

\* The same, with a parameter in the path
RestAt(http, path, seg, parse, unset) == [Rest(http, path, parse, unset) EXCEPT !.seg = {seg}]

\* client(**kwargs).execute_subscribe_<version>(subscription, ..., is_trade), where the
\* subscription sends the channel for every symbol or once.
Feed(client, version, is_trade, channel) ==
    [over |-> "websocket", client |-> client, version |-> version, is_trade |-> is_trade,
     channel |-> channel]

\* A channel: its key ("sub", "req", "op" or "action") and the parameters it is made from
Channel(key, names) == [key |-> key, names |-> names]

-----------------------------------------------------------------------------
(* Operations.  takes is what the caller may give, required what has no    *)
(* default; sends maps the keys of the request to the arguments.           *)

Op(by, required, optional, checks, sends) ==
    [by |-> by, required |-> required, takes |-> required \cup optional,
     checks |-> checks, sends |-> sends, withheld |-> {}, defaults |-> {}]

\* A key of the request is the argument's own name
Same(names) == [n \in names |-> n]

\* The argument is replaced by None in the calls in which another one is among some
Withholding(op, arg, a, among) ==
    [op EXCEPT !.withheld = @ \cup {[arg |-> arg, when |-> a :> among]}]

\* A value of the argument that is not one of those allowed is replaced by a default.
Defaulting(op, arg) == [op EXCEPT !.defaults = @ \cup {arg}]

\* A keyword the client fills in itself is no argument, and fits.
Argument(v, a) == IF a \in DOMAIN v THEN v[a] ELSE "fit"
Matches_Any(v, pattern) == \E a \in DOMAIN pattern : Argument(v, a) \in pattern[a]
Matches(v, pattern) == \A a \in DOMAIN pattern : Argument(v, a) \in pattern[a]

\* The checks are made in the order of the code; the first to refuse decides.
Refuses(op, v, i) == Matches(v, op.checks[i].refuses) /\ \A j \in 1..(i - 1) : ~Matches(v, op.checks[j].refuses)
Accepts_First(op, v) == \A i \in DOMAIN op.checks \cap {1} : ~Matches(v, op.checks[i].refuses)

Accepts(op, v) == \A i \in DOMAIN op.checks : ~Matches(v, op.checks[i].refuses)

Params_Priceless(op, v) ==
    [k \in DOMAIN op.sends |->
        LET a == op.sends[k]
        IN  IF \E w \in op.withheld : w.arg = a THEN "none"
            ELSE IF a \in op.defaults THEN "fit" ELSE Argument(v, a)]

\* params, the dictionary the client gives to the service
Params(op, v) ==
    [k \in DOMAIN op.sends |->
        LET a == op.sends[k]
        IN  IF \E w \in op.withheld : w.arg = a /\ Matches(v, w.when)
            THEN "none"
            ELSE IF a \in op.defaults THEN "fit" ELSE Argument(v, a)]
=============================================================================
