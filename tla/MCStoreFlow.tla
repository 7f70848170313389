---------------------------- MODULE MCStoreFlow ----------------------------
(* Instances of StoreFlow for TLC: a shipment that one user packs, or picks,  *)
(* beside one that was handed over; two picked ones of a store, of which the  *)
(* first has a gift on its second line; and one that only u1 may pick, beside *)
(* one of another store.                                                      *)
EXTENDS StoreFlow, TLC

CONSTANTS u1, u2, a, b

MCName == {<<a>>, <<b>>, <<a, b>>}
MCPicks == "SHP" :> {u1} @@ "PICK" :> {u1, u2}
MCSize == a :> 3 @@ b :> 4

Of(method, status, assigned, gifts) ==
  [method |-> method, here |-> TRUE, status |-> status, assigned |-> assigned, flagged |-> FALSE,
   boxes |-> status = "packing", gifts |-> gifts]
Plain(method, status, assigned) == Of(method, status, assigned, <<FALSE>>)
Gift == Of("PICK", "picked", None, <<FALSE, TRUE>>)
Shipped == Plain("PICK", "shipped", None)
Elsewhere == [Plain("PICK", "slip", None) EXCEPT !.here = FALSE]

MCOpenings ==
  {[ship |-> <<s, Shipped>>, acts |-> 6] :
     s \in {Plain("SHP", "toPack", u1), Plain("SHP", "packing", u1), Plain("PICK", "picking", u1)}}
  \cup {[ship |-> <<Gift, Plain("PICK", "picked", u2)>>, acts |-> 5],
         [ship |-> <<Plain("SHP", "toPick", None), Elsewhere>>, acts |-> 4]}
=============================================================================
