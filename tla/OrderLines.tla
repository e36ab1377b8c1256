----------------------------- MODULE OrderLines -----------------------------
(***************************************************************************)
(* The order service (services/order_service.py): the lines of a draft     *)
(* order and the operations on them.  A line is a dish, whether it is to   *)
(* be mild (the one option, spice level or exclusion kept here) and a      *)
(* quantity.  Every operation works on a copy of the lines and returns it. *)
(***************************************************************************)
EXTENDS Naturals, Sequences, FiniteSets, FiniteSetsExt, SequencesExt, Functions

CONSTANT Items         \* the dishes of the menu

Line == [item : Items, mild : BOOLEAN, qty : Nat \ {0}]
Quantity(n) == IF n < 1 THEN 1 ELSE n

(* _matches_target: by position when there is one, else by exact name *)
Named(order, item) == {i \in DOMAIN order : order[i].item = item}

Alike(order, item, mild) == {i \in Named(order, item) : order[i].mild = mild}

(* A line of the same dish with the same details grows; else a new line. *)
AddLine(order, item, mild, n) ==
  IF Alike(order, item, mild) # {}
  THEN [order EXCEPT ![Min(Alike(order, item, mild))].qty = @ + Quantity(n)]
  ELSE Append(order, [item |-> item, mild |-> mild, qty |-> Quantity(n)])

(* One of each: add_items calls add_item for one dish after the other. *)
AddEach(order, items) ==
  LET added[n \in 0 .. Len(items)] ==
        IF n = 0 THEN order ELSE AddLine(added[n - 1], items[n], FALSE, 1)
  IN  added[Len(items)]

(* The copy of the lines at some positions, in their order. *)
LinesAt(order, at) ==
  LET copied[n \in 0 .. Len(order)] ==
        IF n = 0 THEN <<>>
        ELSE IF n \in at THEN Append(copied[n - 1], order[n]) ELSE copied[n - 1]
  IN  copied[Len(order)]

Without(order, items) == LinesAt(order, {i \in DOMAIN order : order[i].item \notin items})

MakeMild(order, at) ==
  [i \in DOMAIN order |-> [order[i] EXCEPT !.mild = @ \/ i \in at]]

SetQuantity(order, at, n) ==
  [i \in DOMAIN order |-> IF i \in at THEN [order[i] EXCEPT !.qty = Quantity(n)]
                                      ELSE order[i]]

AddQuantity(order, at, n) ==
  [i \in DOMAIN order |-> IF i \in at THEN [order[i] EXCEPT !.qty = @ + n]
                                      ELSE order[i]]

(* The first line of the old dish becomes one portion of the new one; the  *)
(* other lines of the old dish are dropped.                                *)
ReplaceLine(order, old, new) ==
  LET first == Min(Named(order, old))
  IN  LinesAt([order EXCEPT ![first] = [item |-> new, mild |-> FALSE, qty |-> 1]],
              (DOMAIN order \ Named(order, old)) \cup {first})

(* How many portions of some dishes there are. *)
Portions(order, items) ==
  LET portions[n \in 0 .. Len(order)] ==
        IF n = 0 THEN 0
        ELSE portions[n - 1] + (IF order[n].item \in items THEN order[n].qty ELSE 0)
  IN  portions[Len(order)]
=============================================================================
