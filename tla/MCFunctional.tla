---------------------------- MODULE MCFunctional -----------------------------
(***************************************************************************)
(* A small instance of Functional: a functional node whose body asks beside *)
(* two tasks that do not.                                                  *)
(***************************************************************************)
EXTENDS Functional

MCBody == <<<<"call", 1>>, <<"call", 2>>, <<"ask", 0>>, <<"await", 1>>, <<"await", 2>>>>
MCAttempts == <<1, 1>>
=============================================================================
