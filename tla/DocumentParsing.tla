--------------------------- MODULE DocumentParsing ---------------------------
(***************************************************************************)
(* The Document Agent (flight_agent/flow.py, parser.py, itinerary_llm.py,  *)
(* ocr.py): the text of a PDF comes from its text layer or else from OCR,  *)
(* the deterministic parser reads flight blocks from it, and what it       *)
(* cannot read is sent to human review, in fallback mode after asking a    *)
(* language model whose answer is accepted only with evidence.             *)
(*                                                                         *)
(* A text is the record of what the parser can tell about it: whether the  *)
(* booking reference is labelled and legible, what looks doubtful to the   *)
(* patterns of OCR review, and its flight blocks.  A block prints one date *)
(* and two local times.  Times are in minutes.                             *)
(***************************************************************************)
EXTENDS Integers, Sequences, SequencesExt

CONSTANTS
    Zone,       \* AIRPORT_TIMEZONES: the offset from UTC of the airports known
    LlmMode     \* DOCUMENT_LLM_MODE: "off" or "fallback"

ASSUME ParsingAssumption == LlmMode \in {"off", "fallback"}

MinutesOfDay == 24 * 60

\* Both times are local, and both are taken on the one date of the block.
BlockLeg(block) ==
    LET utc(time, airport) == MinutesOfDay * block.day + time - Zone[airport]
    IN [departure |-> utc(block.departs, block.origin),
        arrival   |-> utc(block.arrives, block.destination)]

\* structure_itinerary raises unless the reference and every block are whole,
\* legible and between airports whose zone is known.
Structured(text) ==
    /\ text.reference
    /\ text.blocks # <<>>
    /\ \A block \in ToSet(text.blocks) :
          /\ block.legible
          /\ {block.origin, block.destination} \subseteq DOMAIN Zone

Parsed(legs) == [status |-> "parsed", reasons |-> <<>>, legs |-> legs]
Review(reasons) ==
    [status |-> "review_required", reasons |-> reasons, legs |-> <<>>]

\* The parser raised something the flow does not catch: the A2A call fails.
Raised == [status |-> "raised", reasons |-> <<>>, legs |-> <<>>]

OcrReviewReasons(text) ==
    LET found == <<<<text.labelled /\ ~text.reference, "CONFIRMATION_CODE_REDACTED">>,
                   <<"flight" \in text.doubtful, "LOW_OCR_CONFIDENCE_FLIGHT_NUMBER">>,
                   <<"departure" \in text.doubtful,
                     "LOW_OCR_CONFIDENCE_DEPARTURE_TIME">>>>
        reasons == SelectSeq(found, LAMBDA pair : pair[1])
    IN IF reasons = <<>> THEN <<"OCR_TEXT_INCOMPLETE">>
       ELSE [i \in DOMAIN reasons |-> reasons[i][2]]

ParseExtractedText(text, source) ==
    IF Structured(text)
      THEN Parsed([i \in DOMAIN text.blocks |-> BlockLeg(text.blocks[i])])
    ELSE Review(IF source = "mistral_ocr" THEN OcrReviewReasons(text)
                ELSE <<"MACHINE_READABLE_TEXT_INCOMPLETE">>)

-----------------------------------------------------------------------------
(* The language model.  An answer is an extraction, or the way the call    *)
(* ended without one.  Of each leg the model claims, only the first check  *)
(* it fails matters.                                                       *)

LongestFlight == 48 * 60

\* A timestamp without an offset raises ValueError, not ItineraryLlmError.
LegFate(leg) ==
    IF ~leg.confident \/ ~leg.evidenced THEN "rejected"
    ELSE IF ~leg.timed THEN "raised"
    ELSE IF leg.arrival - leg.departure \notin 1 .. LongestFlight THEN "rejected"
    ELSE "accepted"

ExtractionFailed(base) == Review(<<"LLM_EXTRACTION_FAILED">> \o base.reasons)

\* resolve_review_with_llm, with the flow's handling of its errors.
ResolveReviewWithLlm(answer, base) ==
    LET bad == {i \in DOMAIN answer.legs : LegFate(answer.legs[i]) # "accepted"}
    IN CASE answer.call = "not_configured" ->
                Review(<<"LLM_NOT_CONFIGURED">> \o base.reasons)
         [] answer.call = "failed" -> ExtractionFailed(base)
         [] answer.call = "abstained" -> Review(<<"LLM_ABSTAINED">>)
         [] answer.call = "extracted" ->
                IF answer.legs = <<>> \/ ~answer.confirmed
                  THEN ExtractionFailed(base)
                ELSE IF bad = {}
                  THEN Parsed([i \in DOMAIN answer.legs |->
                                 [departure |-> answer.legs[i].departure,
                                  arrival   |-> answer.legs[i].arrival]])
                ELSE IF LegFate(answer.legs[CHOOSE i \in bad :
                                              \A j \in bad : i <= j]) = "raised"
                  THEN Raised
                ELSE ExtractionFailed(base)

\* DocumentParsingFlow.  A document has a text layer, or only an image that
\* OCR turns into a text or fails on.
DocumentFlow(document, answer) ==
    IF document.source \in {"OCR_NOT_CONFIGURED", "OCR_PROCESSING_FAILED"}
      THEN Review(<<document.source>>)
    ELSE LET result == ParseExtractedText(document.text, document.source)
         IN IF result.status = "review_required" /\ LlmMode = "fallback"
              THEN ResolveReviewWithLlm(answer, result)
            ELSE result
=============================================================================
