----------------------------- MODULE Timestamps -----------------------------
(***************************************************************************)
(* How times reach the database                                            *)
(* (backend/internal/storage/sqlite/time.go).  Every stored timestamp has  *)
(* the layout "2006-01-02 15:04:05": the fraction of the second is lost,   *)
(* and a cutoff sent to SQLite for a comparison loses it too.  A clock     *)
(* reading is a number of ticks, `Second' of which make a second.          *)
(***************************************************************************)
EXTENDS Integers

CONSTANT Second

ASSUME SecondAssumption == Second \in Nat \ {0}

FormatTime(t) == Second * (t \div Second)
=============================================================================
