----------------------------- MODULE MCCallProxies -----------------------------
(* Two calls to an endpoint whose answers are cached and vary on one header,   *)
(* written in lower and in upper case, as metadata, as JSON, in both spellings.*)
EXTENDS CallProxies

CONSTANTS one, two, number, first, second

MCHeaderNames == {"vary", "Vary", "age", "Age", "x_user", "x-user", "http_x_user", "X-User",
                  "headers", "filters", "pagination", "page"}
MCLower == [n \in MCHeaderNames |->
    CASE n = "Vary" -> "vary" [] n = "Age" -> "age" [] n = "X-User" -> "x-user" [] OTHER -> n]
MCStrOf == [v \in {one, two, number} |-> IF v = number THEN one ELSE v]
MCSpellings == <<"http_x_user", "x_user", "x-user">>

Keys3 == [headers |-> "headers", filters |-> "filters", pagination |-> "pagination"]
Setting(keys, filter_behavior, pagination_behavior) ==
    [keys |-> keys, filter_behavior |-> filter_behavior,
     pagination_behavior |-> pagination_behavior]
MCSettings ==
    {Setting(Keys3, "METADATA_AND_REQUEST_STRUCT", "METADATA_STRICT"),
     Setting([Keys3 EXCEPT !.filters = Nothing], "REQUEST_STRUCT_STRICT", "METADATA_STRICT"),
     Setting([Keys3 EXCEPT !.filters = Nothing], "METADATA_STRICT", "METADATA_STRICT")}

Page(v) == <<<<"page", v>>>>
Nothing2 == [filters |-> <<>>, pagination |-> <<>>]
By(spelling, v, key) == [metadata |-> <<<<spelling, v>>, <<key, Page(one)>>>>, message |-> Nothing2]
MCAsked ==
    first :> {By("x-user", one, "pagination")} @@
    second :> {By("x_user", one, "filters"), By("x-user", two, "pagination"),
               [metadata |-> <<<<"x-user", two>>, <<"headers", <<<<"X-User", one>>>>>>>>,
                message |-> [Nothing2 EXCEPT !.filters = Page(one)]],
               [metadata |-> <<<<"x_user", one>>, <<"x-user", two>>, <<"filters", Page(two)>>>>,
                message |-> [Nothing2 EXCEPT !.filters = Page(one)]]}
MCMaxOps == first :> 2 @@ second :> 0
MCMaxProxies == first :> 2 @@ second :> 1
================================================================================
