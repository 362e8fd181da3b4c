------------------------------- MODULE MCForms -------------------------------
(* The forms by themselves, for what the comments of the types say of them:  *)
(* one source and one authentication, two fields changed.                    *)
EXTENDS EntityForms

MCUnits == <<1, 2, 6, 12>>
=============================================================================
