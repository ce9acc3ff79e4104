----------------------------- MODULE MCShopSync -----------------------------
(* Two-tick days and a window of two days, so that one starts at midnight  *)
(* and the next does not; two syncs of one product, and orders that fit on *)
(* one page or do not.                                                     *)
EXTENDS ShopSync
CONSTANTS p1, s1, s2

MCProducts == {p1}
MCListed == MCProducts
MCSyncs == {s1, s2}
=============================================================================
