---------------------------- MODULE MCPublicLighting ----------------------------
(* An instance of PublicLighting for TLC: days of two hours with two slots each, a *)
(* model with a period that crosses midnight, and one for every other day only.    *)
EXTENDS PublicLighting

Detail(bg, ed, type) ==
  [bgtime |-> bg, edtime |-> ed, ctrltype |-> type, light_on |-> 2, light_off |-> 4]

MCModels == <<[weekcycle |-> {0, 1}, details |-> <<Detail(3, 1, "on"), Detail(1, 3, "auto")>>],
              [weekcycle |-> {1}, details |-> <<Detail(0, 1, "off")>>]>>

MCLamps == <<"1000", "1001">>
==============================================================================
