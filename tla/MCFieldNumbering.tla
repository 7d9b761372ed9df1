--------------------------- MODULE MCFieldNumbering ---------------------------
(* Instance of FieldNumbering for TLC: its cfg gives three names and four      *)
(* generations.                                                                *)
EXTENDS FieldNumbering
================================================================================
