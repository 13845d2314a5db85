------------------------- MODULE FlightSearchRanking -------------------------
(***************************************************************************)
(* flight_agent/flight_search.py: the Duffel provider normalises, sorts and *)
(* cuts the offers of an answer; rank_feasible_options drops what the       *)
(* traveller cannot or should not fly and ranks the rest.                   *)
(*                                                                         *)
(* An answer is [live, offers], an offer [id, whole, price, expires, live,  *)
(* segments], a segment [flight, from, to, departs, arrives]; `whole' says  *)
(* that an offer has every field in a usable form.  A command is [origin,   *)
(* destination, original, earliest, latest, stops, connection].  Times are  *)
(* minutes, in UTC.                                                         *)
(***************************************************************************)
EXTENDS Ordering, Sequences, SequencesExt

CONSTANTS
    MaximumOffers,  \* maximum_offers of the Duffel provider
    None            \* no price, no expiry

ASSUME RankingAssumption == MaximumOffers \in Nat /\ None \notin Int

\* What makes an offer usable.
Usable(offer) ==
    /\ offer.id \in Int
    /\ offer.price \in Int \cup {None}
    /\ offer.expires \in Int \cup {None}
    /\ offer.segments \in Seq(ToSet(offer.segments)) /\ offer.segments # <<>>
    /\ \A s \in ToSet(offer.segments) : s.departs \in Int /\ s.arrives \in Int

Departs(offer) == Head(offer.segments).departs
Arrives(offer) == Last(offer.segments).arrives
Stops(offer)   == Len(offer.segments) - 1

\* Those of a list at some positions, sorted.
SortedBy(offers, positions, key) ==
    LET order == Sorted(positions, key)
    IN  [n \in DOMAIN order |-> offers[order[n]]]

\* Decimal("Infinity") for an offer without a price.
Infinity == 1000000
Price(offer) == IF offer.price = None THEN Infinity ELSE offer.price

\* Mutant: the cheapest offers are kept.
ProviderKeyByPrice(offer) == <<Price(offer), Arrives(offer), offer.id>>
ProviderKey(offer) == <<Arrives(offer), Price(offer), offer.id>>

\* What DuffelFlightSearchProvider.search makes of an answer: offers it cannot
\* normalise are left out, the earliest arrivals kept; nothing usable in an
\* answer that has offers is an error.
ProviderSearch(answer) ==
    LET offers  == answer.offers
        whole   == {i \in DOMAIN offers : offers[i].whole}
        sorted  == SortedBy(offers, whole,
                            [i \in whole |-> ProviderKey(offers[i])])
        kept    == Min({MaximumOffers, Cardinality(whole)})
        options == SubSeq(sorted, 1, kept)
    IN [failed   |-> offers # <<>> /\ options = <<>>,
        options  |-> options,
        verified |-> /\ answer.live /\ options # <<>>
                     /\ \A o \in ToSet(options) : o.live]

Connections(offer) ==
    {<<offer.segments[i], offer.segments[i + 1]>> : i \in 1 .. Stops(offer)}

\* The first reason that applies, in the order of the code; "none" is an offer
\* that can be flown.
Rejection(command, searchedAt, offer) ==
    LET first == Head(offer.segments)
        last  == Last(offer.segments)
    IN  IF first.from # command.origin \/ last.to # command.destination
          THEN "ROUTE_MISMATCH"
        ELSE IF Departs(offer) \notin command.earliest .. command.latest
          THEN "OUTSIDE_SEARCH_WINDOW"
        ELSE IF Stops(offer) > command.stops THEN "TOO_MANY_STOPS"
        ELSE IF offer.expires # None /\ offer.expires <= searchedAt
          THEN "OFFER_EXPIRED"
        ELSE IF \E s \in ToSet(offer.segments) : s.arrives <= s.departs
          THEN "INVALID_SEGMENT_TIME"
        ELSE IF \E c \in Connections(offer) : c[1].to # c[2].from
          THEN "BROKEN_CONNECTION"
        ELSE IF \E c \in Connections(offer) :
                   c[2].departs - c[1].arrives < command.connection
          THEN "CONNECTION_TOO_SHORT"
        ELSE IF Arrives(offer) <= Departs(offer) THEN "INVALID_ITINERARY_TIME"
        ELSE IF \E s \in ToSet(offer.segments) : s.flight = command.original
          THEN "ORIGINAL_FLIGHT"
        ELSE "none"

Feasible(command, searchedAt, offer) ==
    Rejection(command, searchedAt, offer) = "none"

RankKey(offer) ==
    <<Arrives(offer), Stops(offer), Price(offer), Departs(offer), offer.id>>

RankFeasibleOptions(command, searchedAt, options) ==
    LET feasible == {i \in DOMAIN options :
                       Feasible(command, searchedAt, options[i])}
    IN  SortedBy(options, feasible, [i \in feasible |-> RankKey(options[i])])
=============================================================================
