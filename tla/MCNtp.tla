------------------------------- MODULE MCNtp -------------------------------
(***************************************************************************)
(* Ntp with two servers, seconds of three units in four fractions, and an  *)
(* NTP era that ends while the model still runs.                           *)
(***************************************************************************)
EXTENDS Ntp

SmallSkews == -2 .. 1
=============================================================================
