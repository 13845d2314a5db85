------------------------- MODULE MCFlightSearchAction -------------------------
(***************************************************************************)
(* Values for the constants of FlightSearchAction: m1 and m2 carry the same *)
(* event, which asks for a search; m3 one that does not.  The traveller was *)
(* to fly BA from LHR to CDG; at most two offers are kept of an answer.     *)
(***************************************************************************)
EXTENDS FlightSearchAction

CONSTANTS d1, d2, m1, m2, m3, r1, r2, LHR, AMS, CDG, BA, AF, KL

MCBody == [m \in Message |-> IF m = m3 THEN d2 ELSE d1]

MCCommand == [origin |-> LHR, destination |-> CDG, original |-> BA,
              earliest |-> 60, latest |-> 780, stops |-> 1, connection |-> 45]

Flight(flight, from, to, departs, arrives) ==
    [flight |-> flight, from |-> from, to |-> to, departs |-> departs,
     arrives |-> arrives]

Offer1(id, price, segments) ==
    [id |-> id, whole |-> TRUE, price |-> price, expires |-> 30, live |-> TRUE,
     segments |-> segments]

Direct   == Offer1(1, 300, <<Flight(AF, LHR, CDG, 90, 170)>>)
Later    == Offer1(2, 80, <<Flight(AF, LHR, CDG, 120, 200)>>)
ViaAms   == Offer1(3, 120, <<Flight(KL, LHR, AMS, 60, 120),
                              Flight(KL, AMS, CDG, 165, 200)>>)
Rushed   == Offer1(4, None, <<Flight(KL, LHR, AMS, 60, 120),
                            Flight(KL, AMS, CDG, 164, 199)>>)
Original == Offer1(5, 70, <<Flight(BA, LHR, CDG, 60, 140)>>)
Early    == Offer1(6, 60, <<Flight(AF, LHR, CDG, 59, 130)>>)
Lapsed   == [Direct EXCEPT !.id = 7, !.expires = 0]
Broken   == [Direct EXCEPT !.id = 8, !.whole = FALSE]

Offers(offers) == [live |-> TRUE, offers |-> offers]

\* An answer whose cheapest offers arrive last, one with a connection too short
\* by a minute, one whose kept offers are all refused, and one the provider
\* cannot read.
MCAnswer == {Offers(<<Later, Broken, Direct, ViaAms>>),
             Offers(<<ViaAms, Rushed, Later>>),
             Offers(<<Direct, Early, Original, Lapsed>>),
             Offers(<<Broken>>)}
=============================================================================
