------------------------------- MODULE MCFedOops -----------------------------
(* Small instances of FedOops for TLC. *)
EXTENDS FedOops

CONSTANTS Scale, Barcode

\* Packets that share a station with every other packet, or with only some.
TwoStationRoutes == {<<Scale>>, <<Barcode, Scale>>}

OneStationRoute == {<<Scale>>}

TwoStationRoute == {<<Barcode, Scale>>}

AllTwoStationRoutes == {<<Scale>>, <<Barcode>>, <<Scale, Barcode>>, <<Barcode, Scale>>}
=============================================================================
