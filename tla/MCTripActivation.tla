-------------------------- MODULE MCTripActivation --------------------------
(***************************************************************************)
(* Instances of TripActivation for TLC: one trip, a ticket with a text     *)
(* layer and a scan that only the language model can read, uploaded twice  *)
(* with one form, once by another traveller, once as the scan with another *)
(* number, and once without a number to consent to.                        *)
(***************************************************************************)
EXTENDS TripActivation

CONSTANTS t1, anna, bob, ticket, scan, home, work, a1, a2, other, image, wrong

Upload(traveler, pdf, phone) ==
    [trip |-> t1, traveler |-> traveler, pdf |-> pdf, phone |-> phone,
     consent |-> phone # None, file |-> "pdf"]

MCForm == [c \in Call |->
    CASE c \in {a1, a2} -> Upload(anna, ticket, home)
      [] c = other -> Upload(bob, ticket, None)
      [] c = image -> Upload(anna, scan, work)
      [] c = wrong -> [Upload(anna, ticket, None) EXCEPT !.consent = TRUE]]

MCZone == [airport \in {"LHR", "ATH"} |-> CASE airport = "LHR" -> 60
                                            [] airport = "ATH" -> 180]

Block == [legible |-> TRUE, origin |-> "LHR", destination |-> "ATH", day |-> 1,
          departs |-> 480, arrives |-> 820]

MCContent == [pdf \in Pdf |->
    CASE pdf = ticket -> [source |-> "pdf_text_layer",
            text |-> [reference |-> TRUE, labelled |-> TRUE, doubtful |-> {},
                      blocks |-> <<Block, [Block EXCEPT !.day = 2]>>]]
      [] pdf = scan -> [source |-> "mistral_ocr",
            text |-> [reference |-> FALSE, labelled |-> TRUE,
                      doubtful |-> {"flight"}, blocks |-> <<>>]]]

MCLlmAnswer ==
    {[call |-> "failed", legs |-> <<>>],
     [call |-> "extracted", confirmed |-> TRUE,
      legs |-> <<[confident |-> TRUE, evidenced |-> TRUE, timed |-> TRUE,
                  departure |-> 1860, arrival |-> 2080]>>],
     [call |-> "extracted", confirmed |-> TRUE,
      legs |-> <<[confident |-> TRUE, evidenced |-> TRUE, timed |-> FALSE,
                  departure |-> 1860, arrival |-> 2080]>>]}
=============================================================================
