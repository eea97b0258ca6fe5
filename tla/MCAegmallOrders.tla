--------------------------- MODULE MCAegmallOrders ---------------------------
(* AegmallOrders for TLC.  ann is in both trees, bob only in the unilevel  *)
(* tree, cyd in none.  One key comes with two payloads, one order with two *)
(* keys.                                                                   *)
EXTENDS AegmallOrders

Payload(k, o, u, h, c) == [key |-> k, order |-> o, user |-> u, hash |-> h, centers |-> c]

MCUnilevel == [ann |-> 2, bob |-> 1, cyd |-> Unregistered, none |-> Unregistered]
MCBinary == [ann |-> 1, bob |-> Unregistered, cyd |-> Unregistered, none |-> Unregistered]

AnnOrder == Payload("k1", "o1", "ann", 1, {"center"})
MCPayloads == {AnnOrder,
               Payload("k1", "o1", "ann", 2, {}),
               Payload("k2", "o1", "ann", 1, {"center"}),
               Payload("k1", "o2", "bob", 1, {}),
               Payload("k1", "o3", "cyd", 1, {})}
BobOnly == {Payload("k1", "o2", "bob", 1, {})}
=============================================================================
