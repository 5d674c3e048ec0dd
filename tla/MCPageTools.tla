---------------------------- MODULE MCPageTools ----------------------------
(* A small instance of PageTools for TLC: u1 shows the DOM d1 or d3, u2 shows d2, which has *)
(* the structure of d1.                                                                     *)
EXTENDS PageTools, TLC

CONSTANTS u1, u2, blank, d1, d2, d3, k1, k2

MCBlank == [url |-> blank, dom |-> d3]
MCBlocked == {blank}
MCPages == {[url |-> u1, dom |-> d1], [url |-> u1, dom |-> d3], [url |-> u2, dom |-> d2], MCBlank}
MCPopupPages == {[url |-> u2, dom |-> d2], MCBlank}
MCUsed == {"get_page_map", "scroll_page", "navigate_back"}
MCKey == [x \in Urls |-> x]
MCStruct == [d \in Doms |-> IF d = d3 THEN k2 ELSE k1]
=============================================================================
