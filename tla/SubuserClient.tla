---------------------------- MODULE SubuserClient ----------------------------
(***************************************************************************)
(* The operations of SubuserClient (client/subuser.py) and the services    *)
(* they use (service/subuser), in the words of RestApi.                    *)
(***************************************************************************)
EXTENDS RestApi

GetUidService == Rest("GET_SIGN", "/v2/user/uid", default_parse_data_as_long, "number")
GetUserApikeyInfoService == Rest("GET_SIGN", "/v2/user/api-key", default_parse_list_dict, "{}")
PostSubuserCreationService == Rest("POST_SIGN", "/v2/sub-user/creation", default_parse_list_dict, "{}")
PostTradableMarketService == Rest("POST_SIGN", "/v2/sub-user/tradable-market", default_parse_list_dict, "{}")
PostSetSubuserTransferability ==
    Rest("POST_SIGN", "/v2/sub-user/transferability", default_parse_list_dict, "{}")
PostSubuserApikeyGenerationService == Rest("POST_SIGN", "/v2/sub-user/api-key-generation", default_parse, "{}")
PostSubuserApikeyModificationService ==
    Rest("POST_SIGN", "/v2/sub-user/api-key-modification", default_parse, "{}")
PostSubuserApikeyDeletionService == Rest("POST_SIGN", "/v2/sub-user/api-key-deletion", as_it_came, "null")

-----------------------------------------------------------------------------
get_uid == Op(GetUidService, {}, {}, <<>>, <<>>)

\* the argument itself is the dictionary of parameters
post_create_subuser ==
    Op(PostSubuserCreationService, {"user_list"}, {}, <<check_should_not_none("user_list")>>,
       "userList" :> "user_list")

post_set_tradable_market ==
    Op(PostTradableMarketService, {"sub_uids", "account_type", "activation"}, {},
       <<check_should_not_none("sub_uids"), check_should_not_none("account_type"),
         check_should_not_none("activation"), check_in_list("account_type"), check_in_list("activation")>>,
       Same({"activation"}) @@ "subUids" :> "sub_uids" @@ "accountType" :> "account_type")

post_set_subuser_transferability ==
    Op(PostSetSubuserTransferability, {"sub_uids", "transferrable"}, {"account_type"},
       <<check_should_not_none("sub_uids"), check_should_not_none("transferrable"), check_in_list("account_type")>>,
       Same({"transferrable"}) @@ "subUids" :> "sub_uids" @@ "accountType" :> "account_type")

post_subuser_apikey_generate ==
    Op(PostSubuserApikeyGenerationService, {"otp_token", "sub_uid", "note", "permission"}, {"ip_addresses"},
       <<check_should_not_none("otp_token"), check_should_not_none("sub_uid"), check_should_not_none("note"),
         check_should_not_none("permission")>>,
       Same({"note", "permission"}) @@ "otpToken" :> "otp_token" @@ "subUid" :> "sub_uid"
       @@ "ipAddresses" :> "ip_addresses")

get_user_apikey_info ==
    Op(GetUserApikeyInfoService, {"uid"}, {"access_key"}, <<check_should_not_none("uid")>>,
       Same({"uid"}) @@ "accessKey" :> "access_key")

OfKey == <<check_should_not_none("sub_uid"), check_should_not_none("access_key")>>

post_subuser_apikey_modification ==
    Op(PostSubuserApikeyModificationService, {"sub_uid", "access_key"}, {"note", "permission", "ip_addresses"},
       OfKey, Same({"note", "permission"}) @@ "subUid" :> "sub_uid" @@ "accessKey" :> "access_key"
              @@ "ipAddresses" :> "ip_addresses")

post_subuser_apikey_deletion ==
    Op(PostSubuserApikeyDeletionService, {"sub_uid", "access_key"}, {}, OfKey,
       "subUid" :> "sub_uid" @@ "accessKey" :> "access_key")

Operations ==
    [get_uid |-> get_uid, post_create_subuser |-> post_create_subuser,
     post_set_tradable_market |-> post_set_tradable_market,
     post_set_subuser_transferability |-> post_set_subuser_transferability,
     post_subuser_apikey_generate |-> post_subuser_apikey_generate,
     get_user_apikey_info |-> get_user_apikey_info,
     post_subuser_apikey_modification |-> post_subuser_apikey_modification,
     post_subuser_apikey_deletion |-> post_subuser_apikey_deletion]
=============================================================================
