-------------------------- MODULE MCTemplateFiles --------------------------
(* TemplateFiles on a small instance.                                      *)
EXTENDS TemplateFiles
=============================================================================
