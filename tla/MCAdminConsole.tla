--------------------------- MODULE MCAdminConsole ---------------------------
(* The pages of module AdminConsole with one stored target, and periods that *)
(* are empty, no duration, too short, whole days spelled in three ways, and  *)
(* not a whole number of days.  The catalog has a service with a country and *)
(* one without, spelled in other ways than the page spells its domains.      *)
EXTENDS AdminConsole

StoredTarget ==
    [id |-> 1, version |-> 1, enabled |-> FALSE, secret |-> "t",
     config |-> [name |-> "a", url |-> "u", sources |-> <<"x">>, limit |-> "d", stream |-> "s"]]
MCStartTargets == {StoredTarget, [StoredTarget EXCEPT !.version = 0, !.secret = ""]}

MCFieldInputs ==
    {[name |-> "a", url |-> "v", token |-> "n"], [name |-> "f", url |-> "v"], [url |-> "bad"]}

MCOtherConfigs == {[name |-> "a", url |-> "o", sources |-> <<>>, limit |-> "", stream |-> "z"]}

MCTexts == {<<>>, Junk, <<Part(12, "h")>>, <<Part(36, "h")>>, <<Part(1, "d"), Part(12, "h")>>,
            <<Part(1, "d"), Part(24, "h")>>, <<Part(4000, "d")>>}
MCPresets == {<<Part(7, "d")>>}

MCLower == ("X.com" :> "x.com") @@ ("B" :> "b")
MCTrimmed == ("a " :> "a") @@ (" y.com" :> "y.com") @@ (" " :> "")
MCUndotted == ".x.com" :> "x.com"
Service(name, domains, main, country) ==
    [name |-> name, label |-> "", domains |-> domains, main_domains |-> main, country |-> country, enabled |-> TRUE]
MCStartCatalogs ==
    {<<Service("a", <<"x.com">>, <<>>, "SE"), Service("b", <<"X.com", "x.com", "y.com">>, <<".x.com">>, "")>>}
MCShipped == [a |-> "US", b |-> "US"]
MCServiceEdits ==
    {[name |-> "a ", label |-> "wide"], [country |-> "SE"],
     [name |-> "B", domains |-> <<" y.com", " ", "y.com">>, mainDomains |-> <<"y.com">>]}
MCOtherCatalogs == {<<Service("c", <<"y.com">>, <<>>, "")>>}

ASSUME StoresArePlain == PlainStores
=============================================================================
