---------------------------- MODULE MCWidgetPage ----------------------------
(* Two hosts, and a board that is empty or holds both widgets.              *)
EXTENDS WidgetPage

CONSTANTS a, b, h1, h2

MCLayouts == {<<>>, <<b, a>>}
=============================================================================
