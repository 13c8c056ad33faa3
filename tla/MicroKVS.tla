------------------------------ MODULE MicroKVS ------------------------------
(* The key-value store, an external library, as the settings use it: every *)
(* object has a value or there is no such object.                          *)

CONSTANT Absent   \* there is no such object

(* ReadObject().                                                           *)
ReadObject(object, default) == IF object = Absent THEN default ELSE object

(* StoreObjectIfNecessary() writes over another value and, where there is  *)
(* no object, any value but the default.                                   *)
Necessary(object, value, default) ==
  IF object = Absent THEN value # default ELSE value # object

=============================================================================
