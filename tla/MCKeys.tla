------------------------------- MODULE MCKeys -------------------------------
(* Two exact hosts, one of them in two spellings, and a wildcard that      *)
(* covers one of them.                                                     *)
EXTENDS Keys

MCHosts == {<<>>, <<"shop">>, <<"SHOP">>, <<"*", "api">>, <<"v1", "api">>}
MCNames == {<<"Shop">>, <<"v1", "api">>, <<"v2", "API">>, <<"b", "v1", "api">>, <<"api">>}
MCFold(l) == CASE l \in {"SHOP", "Shop"} -> "shop" [] l = "API" -> "api" [] OTHER -> l

MCSuiteLists == {<<>>, <<"chacha", "aes">>, <<"aes">>, <<"unknown">>}
MCBadSuites == {<<"unknown">>}

MCAlpnLists == {<<>>, <<"h2">>, <<"http/1.1", "h2">>, <<"oversized">>}
(* Lists refused after their first name was copied.                        *)
MCAlpnListsHalfway == MCAlpnLists \union {<<"http/1.1", "oversized">>}
=============================================================================
