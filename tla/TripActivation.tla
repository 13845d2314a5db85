--------------------------- MODULE TripActivation ---------------------------
(***************************************************************************)
(* Trip activation (flight_agent/api.py, trip_orchestrator.py,             *)
(* document_store.py, trip_store.py): an uploaded PDF is stored in S3,     *)
(* parsed by the Document Agent and registered in Postgres with its legs   *)
(* and the traveller's SMS contact, once per trip.                         *)
(*                                                                         *)
(* A call is one request of the Travel API with the orchestrator's handler *)
(* behind it.  Two calls with the same form are a double click, or a       *)
(* client that gave up waiting and asked again while its first request was *)
(* still being worked on.  A call that failed may be repeated.             *)
(***************************************************************************)
EXTENDS DocumentParsing, FiniteSets

CONSTANTS
    Trip, Traveler, Pdf, Phone, None,
    Call,
    Form,           \* what each call uploads
    Content,        \* the document inside each PDF
    LlmAnswer,      \* the answers of the language model
    MaxFaults       \* bound: failures per behaviour

VARIABLES
    objects,        \* S3: the PDFs stored, by trip and digest
    trips,          \* Postgres: the row of each trip with its legs and contact
    traced,         \* trip_trace_contexts
    call,           \* each call's progress and answer
    faults

vars == <<objects, trips, traced, call, faults>>

Object == Trip \X Pdf

Leg == {BlockLeg(block) :
           block \in UNION {ToSet(Content[pdf].text.blocks) : pdf \in Pdf}}
       \cup {[departure |-> leg.departure, arrival |-> leg.arrival] :
               leg \in UNION {ToSet(answer.legs) : answer \in LlmAnswer}}

Status == {"active", "review_required"}
Row == [traveler : Traveler, pdf : Pdf, phone : Phone \cup {None},
        status : Status, legs : Seq(Leg)]

\* A document's blocks, like the legs of an answer, come one after the other;
\* an answer is one the agent tells apart; and a row is not the lack of one.
ASSUME ActivationAssumption ==
    /\ Form \in [Call -> [trip : Trip, traveler : Traveler, pdf : Pdf,
                          phone : Phone \cup {None}, consent : BOOLEAN,
                          file : {"pdf", "not_pdf", "too_large"}]]
    /\ \A pdf \in Pdf :
          Content[pdf].text.blocks \in Seq(ToSet(Content[pdf].text.blocks))
    /\ \A answer \in LlmAnswer :
          /\ answer.call \in {"not_configured", "failed", "abstained", "extracted"}
          /\ answer.legs \in Seq(ToSet(answer.legs))
    /\ None \notin Row
    /\ MaxFaults \in Nat

\* What a call has reached: the parse result it holds, whether its insert won,
\* and the answer it gave, its code and whether it was an idempotent replay.
ParseResult == [status : {"parsed", "review_required"}, legs : Seq(Leg)]

Working == {"lookup", "head", "put", "parse", "save", "trace", "read"}
Progress == [step : Working \cup {"idle", "receive", "answered"},
             parsed : ParseResult \cup {None},
             inserted : BOOLEAN, code : {0, 200, 409, 413, 415, 422, 502},
             replay : BOOLEAN]

Idle == [step |-> "idle", parsed |-> None, inserted |-> FALSE, code |-> 0,
         replay |-> FALSE]

Init ==
    /\ objects = {}
    /\ trips = [t \in Trip |-> None]
    /\ traced = {}
    /\ call = [c \in Call |-> Idle]
    /\ faults = 0

-----------------------------------------------------------------------------
Goto(c, step) == call' = [call EXCEPT ![c].step = step]

Answer(c, code, replay) ==
    call' = [call EXCEPT ![c].step = "answered", ![c].code = code,
                         ![c].replay = replay]

\* The codes of the upload boundary, by what is wrong with the form.
Refusal(form) ==
    CASE form.file = "too_large" -> 413
      [] form.file = "not_pdf"   -> 415
      [] form.file = "pdf" /\ form.consent # (form.phone # None) -> 422
      [] OTHER -> 0

\* A client sends its form; one that got an error may send it again.
Ask(c) ==
    /\ \/ call[c].step = "idle"
       \/ call[c].step = "answered" /\ call[c].code = 502
    /\ call' = [call EXCEPT ![c] = [Idle EXCEPT !.step = "receive"]]
    /\ UNCHANGED <<objects, trips, traced, faults>>

\* activate_trip of the API and again of the orchestrator.
Receive(c) ==
    /\ call[c].step = "receive"
    /\ IF Refusal(Form[c]) # 0 THEN Answer(c, Refusal(Form[c]), FALSE)
       ELSE Goto(c, "lookup")
    /\ UNCHANGED <<objects, trips, traced, faults>>

\* A trip already stored is repeated only with the same evidence and contact.
SameEvidence(form, row) ==
    /\ row.pdf = form.pdf
    /\ row.traveler = form.traveler
    /\ form.phone # None => row.phone = form.phone

\* get_trip, and get_notification_recipient of a trip that is never updated.
Lookup(c) ==
    /\ call[c].step = "lookup"
    /\ LET row == trips[Form[c].trip]
       IN IF row = None THEN Goto(c, "head")
          ELSE IF SameEvidence(Form[c], row) THEN Answer(c, 200, TRUE)
          ELSE Answer(c, 409, FALSE)
    /\ UNCHANGED <<objects, trips, traced, faults>>

\* Mutant: a trip has one object, and one already there is an error.
HeadObjectRefusing(c) ==
    /\ call[c].step = "head"
    /\ IF \E pdf \in Pdf : <<Form[c].trip, pdf>> \in objects
         THEN Answer(c, 502, FALSE)
       ELSE Goto(c, "put")
    /\ UNCHANGED <<objects, trips, traced, faults>>

\* put_pdf: the object may be there already, under its own digest.
HeadObject(c) ==
    /\ call[c].step = "head"
    /\ Goto(c, IF <<Form[c].trip, Form[c].pdf>> \in objects THEN "parse" ELSE "put")
    /\ UNCHANGED <<objects, trips, traced, faults>>

\* Mutant: the document is left for later.
PutObjectLater(c) ==
    /\ call[c].step = "put"
    /\ Goto(c, "parse")
    /\ UNCHANGED <<objects, trips, traced, faults>>

PutObject(c) ==
    /\ call[c].step = "put"
    /\ objects' = objects \cup {<<Form[c].trip, Form[c].pdf>>}
    /\ Goto(c, "parse")
    /\ UNCHANGED <<trips, traced, faults>>

\* The Document Agent answers for the bytes it was sent.
Parse(c) ==
    /\ call[c].step = "parse"
    /\ \E answer \in LlmAnswer :
          LET result == DocumentFlow(Content[Form[c].pdf], answer)
          IN /\ result.status # "raised"
             /\ call' = [call EXCEPT ![c].step = "save",
                   ![c].parsed = [status |-> result.status, legs |-> result.legs]]
    /\ UNCHANGED <<objects, trips, traced, faults>>

NewRow(c) ==
    [traveler |-> Form[c].traveler, pdf |-> Form[c].pdf, phone |-> Form[c].phone,
     status |-> IF call[c].parsed.status = "parsed" THEN "active"
                ELSE "review_required",
     legs |-> call[c].parsed.legs]

\* Mutant: ON CONFLICT DO UPDATE.
SaveUpserting(c) ==
    /\ call[c].step = "save"
    /\ call' = [call EXCEPT ![c].step = "trace", ![c].inserted = TRUE]
    /\ trips' = [trips EXCEPT ![Form[c].trip] = NewRow(c)]
    /\ UNCHANGED <<objects, traced, faults>>

\* Mutant: the contact is saved whether or not the trip was inserted.
SaveContactAnyway(c) ==
    LET row == trips[Form[c].trip]
    IN /\ call[c].step = "save"
       /\ call' = [call EXCEPT ![c].step = "trace", ![c].inserted = (row = None)]
       /\ trips' = [trips EXCEPT ![Form[c].trip] =
                      IF row = None THEN NewRow(c)
                      ELSE [row EXCEPT !.phone = Form[c].phone]]
       /\ UNCHANGED <<objects, traced, faults>>

\* save_parsed_trip and save_review_trip: one transaction inserts the trip, its
\* legs and its contact, ON CONFLICT (trip_id) DO NOTHING.
Save(c) ==
    LET row == trips[Form[c].trip]
    IN /\ call[c].step = "save"
       /\ call' = [call EXCEPT ![c].step = IF row = None THEN "trace" ELSE "read",
                               ![c].inserted = (row = None)]
       /\ trips' = [trips EXCEPT ![Form[c].trip] = IF row = None THEN NewRow(c)
                                                   ELSE row]
       /\ UNCHANGED <<objects, traced, faults>>

PutTraceContext(c) ==
    /\ call[c].step = "trace"
    /\ traced' = traced \cup {Form[c].trip}
    /\ Goto(c, "read")
    /\ UNCHANGED <<objects, trips, faults>>

\* The stored trip is read back; of the evidence only the digest is compared.
Read(c) ==
    /\ call[c].step = "read"
    /\ IF trips[Form[c].trip].pdf = Form[c].pdf
         THEN Answer(c, 200, ~call[c].inserted)
       ELSE Answer(c, 409, FALSE)
    /\ UNCHANGED <<objects, trips, traced, faults>>

\* Anything the handler awaits may fail, or the orchestrator may crash; the
\* gateway answers 502.  The model's answer may also make the parser raise.
Fail(c) ==
    /\ call[c].step \in Working
    /\ faults < MaxFaults
    /\ faults' = faults + 1
    /\ Answer(c, 502, FALSE)
    /\ UNCHANGED <<objects, trips, traced>>

Handle(c) ==
    \/ Receive(c) \/ Lookup(c) \/ HeadObject(c) \/ PutObject(c) \/ Parse(c)
    \/ Save(c) \/ PutTraceContext(c) \/ Read(c)

Next == \E c \in Call : Ask(c) \/ Handle(c) \/ Fail(c)

Spec == Init /\ [][Next]_vars

\* The handler does not stop; a client that was refused by an error asks again.
FairSpec ==
    Spec /\ \A c \in Call : WF_vars(Handle(c)) /\ WF_vars(Ask(c))

-----------------------------------------------------------------------------
(* The type invariant.                                                     *)

TypeOK ==
    /\ objects \subseteq Object
    /\ trips \in [Trip -> Row \cup {None}]
    /\ traced \subseteq {t \in Trip : trips[t] # None}
    /\ call \in [Call -> Progress]
    /\ faults \in 0 .. MaxFaults

-----------------------------------------------------------------------------
(* Safety.                                                                 *)

\* A trip is registered only once its document is in S3, whichever calls
\* raced or failed: verify_document never misses the evidence of a trip.
EvidenceStored ==
    \A t \in Trip : trips[t] # None => <<t, trips[t].pdf>> \in objects

\* A stored trip is what one upload asked for: its traveller, document, contact
\* and legs were never mixed from calls that raced, and a document sent to
\* review has no legs to monitor.
RowOfOneUpload ==
    \A t \in Trip : trips[t] # None =>
        /\ \E c \in Call : /\ Form[c].trip = t
                            /\ Form[c].traveler = trips[t].traveler
                            /\ Form[c].pdf = trips[t].pdf
                            /\ Form[c].phone = trips[t].phone
        /\ \E answer \in LlmAnswer :
              LET result == DocumentFlow(Content[trips[t].pdf], answer)
              IN /\ result.legs = trips[t].legs
                 /\ (result.status = "parsed") = (trips[t].status = "active")
        /\ trips[t].status = "review_required" => trips[t].legs = <<>>

\* Of all the calls for a trip, double clicks and repetitions included, at
\* most one is told that it activated the trip, and then the trip holds
\* exactly what that call sent.
OneActivation ==
    LET activated == {c \in Call : call[c].code = 200 /\ ~call[c].replay}
    IN \A c \in activated :
          /\ trips[Form[c].trip].traveler = Form[c].traveler
          /\ trips[Form[c].trip].phone = Form[c].phone
          /\ \A d \in activated : Form[d].trip = Form[c].trip => d = c

\* Every upload is answered in the end with something else than an error, a
\* repetition after a failure between S3 and Postgres included.
UploadsAnswered ==
    \A c \in Call : <>[](call[c].code \notin {0, 502})
=============================================================================
