---------------------------- MODULE MCObjectRanger ----------------------------
(* Objects of one and two bytes, and one upload besides the first object:  *)
(* enough for a new object of the same size, a longer one and a shorter    *)
(* one to replace the stat'ed one between Size and Range.                  *)
EXTENDS ObjectRanger

MCSizes == {1, 2}
MCMaxUploads == 2
=============================================================================
