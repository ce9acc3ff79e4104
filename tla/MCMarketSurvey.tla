--------------------------- MODULE MCMarketSurvey ---------------------------
(* Three plain keywords, one of them with blanks around it, a pair with    *)
(* the same words in another order, and one that is named after the model  *)
(* number in it.  A series whose peak comes next month, two of too few     *)
(* months of which one is steadier, and an empty one.  Limits of two or    *)
(* three where the code has twenty, fifty or more, so that each is met.    *)
EXTENDS MarketSurvey

MCTexts == {"mug", " mug", "lamp", "cup set", "set cup", "A4 mat", " "}
MCStripped == [text \in MCTexts |-> IF text = " mug" THEN "mug" ELSE IF text = " " THEN "" ELSE text]
MCCanonical == [title \in Titles |-> IF title = "A4 mat" THEN "A4" ELSE title]
MCNear == {<<"cup set", "set cup">>, <<"set cup", "cup set">>}
MCNames == <<" ", " mug", "A4", "A4 mat", "cup set", "lamp", "mug", "set cup">>
MCOrder == [name \in Range(MCNames) |-> CHOOSE i \in DOMAIN MCNames : MCNames[i] = name]
MCContaining == [term \in {"", "cup"} |-> IF term = "" THEN MCTexts ELSE {"cup set", "set cup"}]

Typed(keywords, exclude) ==
    [mode |-> "direct", category |-> "c1", keywords |-> keywords, exclude |-> exclude, minimum |-> 0]
MCRequests ==
    {Typed(<<"mug", " mug", "lamp">>, {}), Typed(<<" mug">>, {}), Typed(<<"cup set", "set cup">>, {}),
     Typed(<<"A4 mat", "lamp">>, {""}), Typed(<<" ">>, {})} \cup
    {[mode |-> "auto", category |-> "c2", keywords |-> << >>, exclude |-> {""} \cup terms,
      minimum |-> 10] : terms \in {{}, {"cup"}}}

Offered(keyword, searches, intent) == [keyword |-> keyword, searches |-> searches, intent |-> intent]
MCOffers ==
    {{Offered("mug", 40, TRUE), Offered("lamp", 20, TRUE), Offered("A4 mat", 30, FALSE), Offered("cup set", 90, TRUE)},
     {Offered("set cup", 50, TRUE), Offered("lamp", 20, TRUE), Offered("mug", 20, TRUE), Offered("A4 mat", 9, TRUE)}}

MCShapes == {<<10, 8, 4, 2, 0, 0, 0, 1, 2, 3, 4>>, <<4, 1, 3>>, <<4, 2, 3>>, << >>}
=============================================================================
