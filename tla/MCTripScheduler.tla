--------------------------- MODULE MCTripScheduler ---------------------------
(***************************************************************************)
(* Instances of TripScheduler for TLC: two legs of one trip.  The first is *)
(* an overnight leg, whose stored arrival is sixteen hours before its      *)
(* departure, so that its monitoring ends at minute 10; the second departs *)
(* at minute 12 and is monitored until minute 220.                         *)
(***************************************************************************)
EXTENDS TripScheduler

CONSTANTS out, back, t1

MCTripOf == [l \in Leg |-> t1]

MCDeparture == [l \in Leg |-> CASE l = out -> 850 [] l = back -> 12]

MCArrival == [l \in Leg |-> CASE l = out -> -110 [] l = back -> 100]
=============================================================================
