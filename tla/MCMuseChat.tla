----------------------------- MODULE MCMuseChat -----------------------------
(* Two turns of a thread. *)
EXTENDS MuseChat

Apart == {}
Echo == {<<1, 2>>}
=============================================================================
