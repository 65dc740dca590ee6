--------------------------- MODULE MCProductCatalogue ---------------------------
(* The instance of ProductCatalogue for TLC, with six scenarios. *)
EXTENDS ProductCatalogue, TLC

CONSTANTS card, card2, game, sub

\* Two requests add categories, one by one and in bulk, at the same time.
CategoryRequests ==
  [ops |-> {"addCategory", "bulkCategories"}, requests |-> 2,
   titles |-> {"Games", "Games 2"}, explicit |-> {<<"games", 2>>}, active |-> {TRUE},
   products |-> {}, rows |-> 3, options |-> 0]

\* One request at a time, without renaming.
CategoriesInTurn ==
  [ops |-> CategoryOps \ {"renameCategory"}, requests |-> 1,
   titles |-> {"Games", "GAMES", "Games 2"}, explicit |-> {<<"games", 2>>}, active |-> {TRUE},
   products |-> {}, rows |-> 3, options |-> 0]

\* Categories are renamed and deleted and products put in them, in turn.
CategoryProducts ==
  [ops |-> {"addCategory", "updateCategory", "renameCategory", "deleteCategory", "addProduct",
            "updateProduct", "deleteProduct"}, requests |-> 1,
   titles |-> {"Games", "Games 2"}, explicit |-> {}, active |-> {TRUE, FALSE},
   products |-> {card, game}, rows |-> 2, options |-> 2]

\* Two requests change and archive products while customers fill carts.
ProductRequests ==
  [ops |-> ProductOps \ {"bulkProducts"}, requests |-> 2,
   titles |-> {}, explicit |-> {}, active |-> {},
   products |-> {card, sub}, rows |-> 0, options |-> 4]

\* Two uploads of up to three products, two of which have one slug.
Uploads ==
  [ops |-> {"bulkProducts"}, requests |-> 2, titles |-> {}, explicit |-> {}, active |-> {},
   products |-> {card, card2, game, sub}, rows |-> 0, options |-> 4]

\* Two users write, revise and remove reviews at the same time.
Reviews ==
  [ops |-> {"addProduct", "updateProduct"} \cup ReviewOps, requests |-> 2,
   titles |-> {}, explicit |-> {}, active |-> {}, products |-> {card}, rows |-> 0, options |-> 1]

AllScenarios ==
  {CategoryRequests, CategoriesInTurn, CategoryProducts, ProductRequests, Uploads, Reviews}

\* Two spellings of one title, and a title whose slug looks like a suffix.
FoldOf == "Games" :> "games" @@ "GAMES" :> "games" @@ "Games 2" :> "games 2"
BaseOf == "Games" :> <<"games">> @@ "GAMES" :> <<"games">> @@ "Games 2" :> <<"games", 2>>
TwoWords == {<<"games", 2>>}

\* Two gift cards with one slug, and a subscription that has it too.
KindOfAll ==
  card :> "GIFT_CARD" @@ card2 :> "GIFT_CARD" @@ game :> "GAME_TOP_UP" @@ sub :> "SUBSCRIPTION"
SlugOfAll == card :> "steam" @@ card2 :> "steam" @@ game :> "pubg" @@ sub :> "steam"
RequestSymmetry == {r @@ u : r \in Permutations(Requests), u \in Permutations(Users)}
================================================================================
