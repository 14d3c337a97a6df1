-------------------------------- MODULE Options --------------------------------
(* Option<T>: a value of T or None. *)

EXTENDS Integers

CONSTANT None

ASSUME NoneAssumption == None \notin Int

Option(T) == T \cup {None}
================================================================================
