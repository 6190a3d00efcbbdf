----------------------------- MODULE Compilation -----------------------------
(***************************************************************************)
(* What the passes of one compilation share: the parsed program, which     *)
(* main.cpp hands to the type checker and then to the code generator, and  *)
(* which neither of them changes.                                           *)
(***************************************************************************)
EXTENDS Ast

VARIABLE prog   \* the AST, a sequence of declarations

==============================================================================
