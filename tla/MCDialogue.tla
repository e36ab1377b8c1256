----------------------------- MODULE MCDialogue -----------------------------
(* A menu of three dishes in two categories: rice and curry are rice       *)
(* dishes, noodles stands alone; rice and noodles share a name's fragment. *)
EXTENDS Dialogue, TLC

CONSTANTS campus, office

MCItems == {"rice", "curry", "noodles"}
MCSpoken == {"rice", "noodles"}
MCCategories == {"rices", "soups"}
MCDishesOf == [rices |-> <<"rice", "curry">>, soups |-> <<"noodles">>]
MCRecommended == <<"rice", "curry", "noodles">>
MCAddresses == {campus, office}
AddressSymmetry == Permutations(MCAddresses)
MCFragment == <<"rice", "noodles">>
=============================================================================
