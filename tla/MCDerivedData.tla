---------------------------- MODULE MCDerivedData ----------------------------
(* DerivedData on four frames of two contexts; two frames share a tick, and *)
(* the editor's are neither all within the idle threshold nor all apart.    *)
EXTENDS DerivedData

TickOf == <<0, 0, 2, 3>>
Mixed  == <<"editor", "mail", "editor", "editor">>
=============================================================================
