---------------------------- MODULE MCSensorPoll ----------------------------
(* Four sensors, one of each kind and two behind the register reader, the  *)
(* second of which no longer counts as news for the time-out.              *)
EXTENDS SensorPoll
MCRotation == <<"ibcTemp", "vin48", "iin", "mcutemp">>
=============================================================================
