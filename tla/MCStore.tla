------------------------------- MODULE MCStore -------------------------------
(***************************************************************************)
(* Store for TLC, and what stor_functions.h says of it.                    *)
(***************************************************************************)
EXTENDS Store

(* "Checkout the cart and remove the merchandise from the stock then       *)
(* remove the cart" (stor_functions.h:130): whatever the cart, checkout    *)
(* comes to an end.                                                        *)
CheckoutEnds == AtDesk ~> AtMenu
=============================================================================
