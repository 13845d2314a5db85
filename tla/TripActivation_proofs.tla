------------------------ MODULE TripActivation_proofs ------------------------
(***************************************************************************)
(* Theorems about TripActivation, the uploads of one trip that race, fail   *)
(* and are repeated, for any number of calls, any documents and any answers *)
(* of the language model.                                                   *)
(***************************************************************************)
EXTENDS TripActivation, TLAPS

-----------------------------------------------------------------------------
(* What the Document Agent may answer.                                      *)

\* The legs of a text's blocks.
LEMMA BlockLegs ==
  ASSUME NEW pdf \in Pdf
  PROVE  LET blocks == Content[pdf].text.blocks
         IN [i \in DOMAIN blocks |-> BlockLeg(blocks[i])] \in Seq(Leg)
<1> DEFINE blocks == Content[pdf].text.blocks
<1>1. blocks \in Seq(ToSet(blocks))
  BY ActivationAssumption
<1>2. \A i \in DOMAIN blocks : BlockLeg(blocks[i]) \in Leg
  <2>1. \A i \in DOMAIN blocks :
           blocks[i] \in UNION {ToSet(Content[p].text.blocks) : p \in Pdf}
    BY DEF ToSet
  <2> QED
    BY <2>1 DEF Leg
<1> HIDE DEF blocks
<1>3. [i \in DOMAIN blocks |-> BlockLeg(blocks[i])] \in [1 .. Len(blocks) -> Leg]
  BY <1>1, <1>2
<1>4. [i \in DOMAIN blocks |-> BlockLeg(blocks[i])] \in Seq(Leg)
  BY <1>1, <1>3
<1> QED
  BY <1>4 DEF blocks

\* The legs of an extraction.
LEMMA AnswerLegs ==
  ASSUME NEW answer \in LlmAnswer
  PROVE  [i \in DOMAIN answer.legs |-> [departure |-> answer.legs[i].departure,
                                       arrival   |-> answer.legs[i].arrival]]
            \in Seq(Leg)
<1> DEFINE legs == answer.legs
           leg(l) == [departure |-> l.departure, arrival |-> l.arrival]
<1>1. legs \in Seq(ToSet(legs))
  BY ActivationAssumption
<1>2. \A i \in DOMAIN legs : leg(legs[i]) \in Leg
  <2>1. \A i \in DOMAIN legs : legs[i] \in UNION {ToSet(a.legs) : a \in LlmAnswer}
    BY DEF ToSet
  <2> QED
    BY <2>1 DEF Leg
<1> HIDE DEF legs, leg
<1>3. [i \in DOMAIN legs |-> leg(legs[i])] \in [1 .. Len(legs) -> Leg]
  BY <1>1, <1>2
<1>4. [i \in DOMAIN legs |-> leg(legs[i])] \in Seq(Leg)
  BY <1>1, <1>3
<1> QED
  BY <1>4 DEF legs, leg

\* An answer has legs only if it is parsed.
Sensible(result) ==
    /\ result.status \in {"parsed", "review_required", "raised"}
    /\ result.legs \in Seq(Leg)
    /\ result.status # "parsed" => result.legs = <<>>

LEMMA ReviewSensible ==
  Sensible(Raised) /\ \A reasons : Sensible(Review(reasons))
BY DEF Sensible, Raised, Review

LEMMA ResolveSensible ==
  ASSUME NEW answer \in LlmAnswer, NEW base
  PROVE  Sensible(ResolveReviewWithLlm(answer, base))
<1> DEFINE extracted == [i \in DOMAIN answer.legs |->
                            [departure |-> answer.legs[i].departure,
                             arrival   |-> answer.legs[i].arrival]]
<1>1. Sensible(Parsed(extracted))
  BY AnswerLegs DEF Sensible, Parsed
<1>2. \/ ResolveReviewWithLlm(answer, base) \in {Raised, Parsed(extracted)}
      \/ \E reasons : ResolveReviewWithLlm(answer, base) = Review(reasons)
  <2> HIDE DEF extracted
  <2>1. answer.call \in {"not_configured", "failed", "abstained", "extracted"}
    BY ActivationAssumption
  <2>2. CASE answer.call = "not_configured"
    BY <2>2 DEF ResolveReviewWithLlm
  <2>3. CASE answer.call = "failed"
    BY <2>3 DEF ResolveReviewWithLlm, ExtractionFailed
  <2>4. CASE answer.call = "abstained"
    BY <2>4 DEF ResolveReviewWithLlm
  <2>5. CASE answer.call = "extracted"
    <3>1. ResolveReviewWithLlm(answer, base) \in
             {ExtractionFailed(base), Parsed(extracted), Raised}
      BY <2>5 DEF ResolveReviewWithLlm, extracted
    <3> QED
      BY <3>1 DEF ExtractionFailed
  <2> QED
    BY <2>1, <2>2, <2>3, <2>4, <2>5
<1> QED
  BY <1>1, <1>2, ReviewSensible

LEMMA FlowSensible ==
  ASSUME NEW pdf \in Pdf, NEW answer \in LlmAnswer
  PROVE  Sensible(DocumentFlow(Content[pdf], answer))
<1> DEFINE document == Content[pdf]
           legs     == [i \in DOMAIN document.text.blocks |->
                          BlockLeg(document.text.blocks[i])]
           result   == ParseExtractedText(document.text, document.source)
<1>1. Sensible(Parsed(legs))
  BY BlockLegs DEF Sensible, Parsed
<1>2. result = Parsed(legs) \/ \E reasons : result = Review(reasons)
  <2> HIDE DEF document
  <2> QED
    BY DEF ParseExtractedText
<1>3. Sensible(result)
  <2> HIDE DEF legs, result
  <2> QED
    BY <1>1, <1>2, ReviewSensible
<1>4. \/ \E reasons : DocumentFlow(document, answer) = Review(reasons)
      \/ DocumentFlow(document, answer) = result
      \/ DocumentFlow(document, answer) = ResolveReviewWithLlm(answer, result)
  BY DEF DocumentFlow
<1> HIDE DEF result, document
<1>5. Sensible(DocumentFlow(document, answer))
  BY <1>3, <1>4, ReviewSensible, ResolveSensible
<1> QED
  BY <1>5 DEF document

-----------------------------------------------------------------------------
(* Type correctness.                                                        *)

\* A call that saves has a parse result, the trip of one that goes on after it
\* is in Postgres, and one that was not answered has no code.
Prepared(c) ==
    /\ call[c].step # "answered" => call[c].code = 0
    /\ call[c].step = "save" => call[c].parsed \in ParseResult
    /\ call[c].step \in {"trace", "read"} => trips[Form[c].trip] # None

TypeInv == TypeOK /\ \A c \in Call : Prepared(c)

FormFacts(c) ==
    /\ Form[c].trip \in Trip /\ Form[c].traveler \in Traveler
    /\ Form[c].pdf \in Pdf /\ Form[c].phone \in Phone \cup {None}

LEMMA FormType == \A c \in Call : FormFacts(c)
BY ActivationAssumption DEF FormFacts

\* What the steps of a call leave alone.
Others(c) == \A d \in Call \ {c} : call'[d] = call[d]

LEMMA GotoFacts ==
  ASSUME call \in [Call -> Progress], NEW c \in Call, NEW step, Goto(c, step)
  PROVE  /\ Others(c) /\ call'[c] = [call[c] EXCEPT !.step = step]
         /\ call'[c].step = step /\ call'[c].parsed = call[c].parsed
         /\ call'[c].inserted = call[c].inserted /\ call'[c].code = call[c].code
         /\ call'[c].replay = call[c].replay
         /\ step \in Working \cup {"receive"} => call' \in [Call -> Progress]
<1> DEFINE d == [call[c] EXCEPT !.step = step]
<1>1. call' = [call EXCEPT ![c] = d]
  BY DEF Goto
<1>2. /\ d.step = step /\ d.parsed = call[c].parsed
      /\ d.inserted = call[c].inserted /\ d.code = call[c].code
      /\ d.replay = call[c].replay
      /\ step \in Working \cup {"receive"} => d \in Progress
  BY DEF Progress
<1> HIDE DEF d
<1>3. Others(c) /\ call'[c] = d
  BY <1>1 DEF Others
<1>4. d \in Progress => call' \in [Call -> Progress]
  BY <1>1
<1> QED
  BY <1>2, <1>3, <1>4 DEF d

LEMMA AnswerFacts ==
  ASSUME call \in [Call -> Progress], NEW c \in Call,
         NEW code \in {200, 409, 413, 415, 422, 502}, NEW replay \in BOOLEAN,
         Answer(c, code, replay)
  PROVE  /\ Others(c) /\ call'[c].step = "answered"
         /\ call'[c].code = code /\ call'[c].replay = replay
         /\ call'[c].inserted = call[c].inserted
         /\ call' \in [Call -> Progress]
<1> DEFINE d == [call[c] EXCEPT !.step = "answered"]
           e == [d EXCEPT !.code = code]
           f == [e EXCEPT !.replay = replay]
<1> DEFINE g == [call EXCEPT ![c] = d]
           h == [g EXCEPT ![c] = e]
<1>1. call' = [h EXCEPT ![c] = f]
  BY DEF Answer
<1>2. d \in Progress /\ d.step = "answered" /\ d.inserted = call[c].inserted
  BY DEF Progress
<1> HIDE DEF d
<1>3. e \in Progress /\ e.code = code /\ e.step = d.step /\ e.inserted = d.inserted
  BY <1>2 DEF Progress
<1> HIDE DEF e
<1>4. /\ f \in Progress /\ f.replay = replay /\ f.code = e.code /\ f.step = e.step
      /\ f.inserted = e.inserted
  BY <1>3 DEF Progress
<1> HIDE DEF f
<1>5. call' = [call EXCEPT ![c] = f]
  BY <1>1
<1> QED
  BY <1>2, <1>3, <1>4, <1>5 DEF Others

\* An answer with some code, a replay or not.
Answered(c, code) == \E replay \in BOOLEAN : Answer(c, code, replay)

LEMMA AnsweredFacts ==
  ASSUME call \in [Call -> Progress], NEW c \in Call,
         NEW code \in {200, 409, 413, 415, 422, 502}, Answered(c, code)
  PROVE  /\ Others(c) /\ call'[c].step = "answered" /\ call'[c].code = code
         /\ call'[c].inserted = call[c].inserted
         /\ call' \in [Call -> Progress]
BY AnswerFacts DEF Answered

LEMMA Answering ==
  ASSUME NEW c, NEW code,
         \/ Answer(c, code, FALSE) \/ Answer(c, code, TRUE)
         \/ call[c].inserted \in BOOLEAN /\ Answer(c, code, ~call[c].inserted)
  PROVE  Answered(c, code)
<1>1. CASE Answer(c, code, FALSE)
  BY <1>1, Zenon DEF Answered
<1>2. CASE Answer(c, code, TRUE)
  BY <1>2, Zenon DEF Answered
<1>3. CASE call[c].inserted \in BOOLEAN /\ Answer(c, code, ~call[c].inserted)
  <2>1. CASE call[c].inserted = TRUE
    <3>1. Answer(c, code, FALSE)
      BY <1>3, <2>1 DEF Answer
    <3> QED
      BY <3>1, Zenon DEF Answered
  <2>2. CASE call[c].inserted = FALSE
    <3>1. Answer(c, code, TRUE)
      BY <1>3, <2>2 DEF Answer
    <3> QED
      BY <3>1, Zenon DEF Answered
  <2> QED
    BY <1>3, <2>1, <2>2
<1> QED
  BY <1>1, <1>2, <1>3

LEMMA AskFacts ==
  ASSUME call \in [Call -> Progress], NEW c \in Call, Ask(c)
  PROVE  /\ Others(c) /\ call'[c].step = "receive" /\ ~call'[c].inserted
         /\ call'[c].code = 0 /\ call' \in [Call -> Progress]
<1> DEFINE d == [Idle EXCEPT !.step = "receive"]
<1>1. d \in Progress /\ d.step = "receive" /\ ~d.inserted /\ d.code = 0
  <2>1. Idle \in Progress
    BY DEF Idle, Progress
  <2>2. /\ d.step = "receive" /\ d.inserted = Idle.inserted
        /\ d.code = Idle.code
    BY <2>1 DEF Progress
  <2>3. ~Idle.inserted /\ Idle.code = 0
    BY DEF Idle
  <2>4. d \in Progress
    BY <2>1 DEF Progress
  <2> QED
    BY <2>2, <2>3, <2>4
<1>2. call' = [call EXCEPT ![c] = d]
  BY DEF Ask
<1> HIDE DEF d
<1> QED
  BY <1>1, <1>2 DEF Others

LEMMA ParseFacts ==
  ASSUME call \in [Call -> Progress], NEW c \in Call, Parse(c)
  PROVE  /\ Others(c) /\ call'[c].step = "save" /\ call'[c].parsed \in ParseResult
         /\ call'[c].inserted = call[c].inserted /\ call'[c].code = call[c].code
         /\ call'[c].replay = call[c].replay
         /\ call' \in [Call -> Progress]
         /\ \E answer \in LlmAnswer :
               LET result == DocumentFlow(Content[Form[c].pdf], answer)
               IN call'[c].parsed = [status |-> result.status, legs |-> result.legs]
<1>1. PICK answer \in LlmAnswer :
         LET result == DocumentFlow(Content[Form[c].pdf], answer)
         IN /\ result.status # "raised"
            /\ call' = [call EXCEPT ![c].step = "save",
                  ![c].parsed = [status |-> result.status, legs |-> result.legs]]
  BY DEF Parse
<1> DEFINE result == DocumentFlow(Content[Form[c].pdf], answer)
           parsed == [status |-> result.status, legs |-> result.legs]
<1>2. Sensible(result) /\ result.status # "raised"
  BY <1>1, FlowSensible, FormType DEF FormFacts
<1>3. call' = [call EXCEPT ![c].step = "save", ![c].parsed = parsed]
  BY <1>1
<1> HIDE DEF result
<1>4. parsed \in ParseResult
  BY <1>2 DEF ParseResult, Sensible
<1>5. parsed = [status |-> result.status, legs |-> result.legs]
  OBVIOUS
<1> HIDE DEF parsed
<1> DEFINE d == [call[c] EXCEPT !.step = "save", !.parsed = parsed]
<1>6. call' = [call EXCEPT ![c] = d]
  BY <1>3
<1> DEFINE e == [call[c] EXCEPT !.parsed = parsed]
<1>7. e \in Progress
  BY <1>4 DEF Progress
<1>8. /\ d.step = "save" /\ d.parsed = parsed /\ d.inserted = call[c].inserted
      /\ d.code = call[c].code /\ d.replay = call[c].replay
  BY DEF Progress
<1>10. d \in Progress
  <2>1. d = [e EXCEPT !.step = "save"]
    BY DEF Progress
  <2> HIDE DEF d, e
  <2> QED
    BY <1>7, <2>1 DEF Progress, Working
<1> HIDE DEF d
<1>9. Others(c) /\ call'[c] = d /\ call' \in [Call -> Progress]
  BY <1>6, <1>10 DEF Others
<1> QED
  BY <1>4, <1>5, <1>8, <1>9 DEF result

LEMMA NewRowType ==
  ASSUME NEW c \in Call, call[c].parsed \in ParseResult
  PROVE  NewRow(c) \in Row /\ NewRow(c) # None
<1>1. NewRow(c) \in Row
  BY FormType DEF NewRow, Row, FormFacts, ParseResult, Status
<1> QED
  BY <1>1, ActivationAssumption

LEMMA SaveFacts ==
  ASSUME TypeInv, NEW c \in Call, Save(c)
  PROVE  LET row == trips[Form[c].trip]
         IN /\ Others(c) /\ call'[c].step \in {"trace", "read"}
            /\ call'[c].inserted = (row = None)
            /\ call'[c].code = call[c].code /\ call'[c].replay = call[c].replay
            /\ call' \in [Call -> Progress]
            /\ trips' \in [Trip -> Row \cup {None}]
            /\ trips'[Form[c].trip] = IF row = None THEN NewRow(c) ELSE row
            /\ trips'[Form[c].trip] # None
            /\ \A t \in Trip \ {Form[c].trip} : trips'[t] = trips[t]
<1> DEFINE row == trips[Form[c].trip]
           new == IF row = None THEN NewRow(c) ELSE row
           first == (row = None)
           step == IF row = None THEN "trace" ELSE "read"
<1>1. call[c].parsed \in ParseResult /\ Form[c].trip \in Trip
  BY FormType DEF TypeInv, Prepared, Save, FormFacts
<1>2. new \in Row /\ new # None
  BY <1>1, NewRowType, ActivationAssumption DEF TypeInv, TypeOK
<1>3. step \in {"trace", "read"} /\ first \in BOOLEAN
  OBVIOUS
<1>4. /\ call' = [call EXCEPT ![c].step = step, ![c].inserted = first]
      /\ trips' = [trips EXCEPT ![Form[c].trip] = new]
  BY DEF Save
<1> HIDE DEF new, step, first
<1> DEFINE d == [call[c] EXCEPT !.step = step, !.inserted = first]
<1>5. /\ Others(c) /\ call'[c].step = step /\ call'[c].inserted = first
      /\ call'[c].code = call[c].code /\ call'[c].replay = call[c].replay
      /\ call' \in [Call -> Progress]
  <2>1. call' = [call EXCEPT ![c] = d] /\ call[c] \in Progress
    BY <1>4 DEF TypeInv, TypeOK
  <2>2. d \in Progress
    <3> DEFINE e == [call[c] EXCEPT !.step = step]
    <3>1. step \in Working
      BY <1>3 DEF Working
    <3>2. e \in Progress
      BY <2>1, <3>1 DEF Progress
    <3>3. d = [e EXCEPT !.inserted = first]
      OBVIOUS
    <3> HIDE DEF d, e
    <3> QED
      BY <1>3, <3>2, <3>3 DEF Progress
  <2>3. /\ d.step = step /\ d.inserted = first
        /\ d.code = call[c].code /\ d.replay = call[c].replay
    BY <2>1 DEF Progress
  <2> HIDE DEF d
  <2> QED
    BY <2>1, <2>2, <2>3 DEF Others, TypeInv, TypeOK
<1>6. /\ trips' \in [Trip -> Row \cup {None}] /\ trips'[Form[c].trip] = new
      /\ \A t \in Trip \ {Form[c].trip} : trips'[t] = trips[t]
  BY <1>1, <1>2, <1>4 DEF TypeInv, TypeOK
<1> QED
  BY <1>2, <1>3, <1>5, <1>6 DEF new, first

LEMMA RefusalType ==
  \A c \in Call : Refusal(Form[c]) \in {0, 413, 415, 422}
BY DEF Refusal

\* The trip of a call that has an answer of its own stays in Postgres.
LEMMA PreparedOthers ==
  ASSUME TypeInv, NEW c \in Call, Others(c),
         \A t \in Trip : trips[t] # None => trips'[t] # None,
         Prepared(c)'
  PROVE  \A d \in Call : Prepared(d)'
BY FormType DEF TypeInv, Prepared, Others, FormFacts

LEMMA InitType == Init => TypeInv
<1> SUFFICES ASSUME Init PROVE TypeInv
  OBVIOUS
<1>1. Idle \in Progress
  BY DEF Idle, Progress
<1>2. 0 \in 0 .. MaxFaults
  BY ActivationAssumption
<1> QED
  BY <1>1, <1>2 DEF Init, TypeInv, TypeOK, Prepared, Idle

LEMMA NextType == TypeInv /\ [Next]_vars => TypeInv'
<1> SUFFICES ASSUME TypeInv, [Next]_vars PROVE TypeInv'
  OBVIOUS
<1> call \in [Call -> Progress]
  BY DEF TypeInv, TypeOK
<1>1. ASSUME NEW c \in Call, Ask(c) PROVE TypeInv'
  <2>1. UNCHANGED <<objects, trips, traced, faults>>
    BY <1>1 DEF Ask
  <2>2. Prepared(c)'
    BY <1>1, AskFacts DEF Prepared
  <2> QED
    BY <1>1, <2>1, <2>2, AskFacts, PreparedOthers DEF TypeInv, TypeOK
<1>2. ASSUME NEW c \in Call, NEW step \in Working \ {"save", "trace", "read"},
             Goto(c, step), call[c].step # "answered", UNCHANGED <<trips, traced, faults>>, objects' \subseteq Object
      PROVE  TypeInv'
  <2>1. Prepared(c)'
    BY <1>2, GotoFacts DEF Prepared, TypeInv, Working
  <2> QED
    BY <1>2, <2>1, GotoFacts, PreparedOthers DEF TypeInv, TypeOK
<1>3. ASSUME NEW c \in Call, NEW code \in {200, 409, 413, 415, 422, 502},
             Answered(c, code),
             UNCHANGED <<objects, trips, traced>>, faults' \in 0 .. MaxFaults
      PROVE  TypeInv'
  <2>1. Prepared(c)'
    BY <1>3, AnsweredFacts DEF Prepared
  <2> QED
    BY <1>3, <2>1, AnsweredFacts, PreparedOthers DEF TypeInv, TypeOK
<1>4. ASSUME NEW c \in Call, Receive(c) PROVE TypeInv'
  <2>1. UNCHANGED <<objects, trips, traced, faults>>
    BY <1>4 DEF Receive
  <2>2. CASE Goto(c, "lookup")
    BY <1>2, <1>4, <2>1, <2>2 DEF Receive, Working, TypeInv, TypeOK
  <2>3. CASE Refusal(Form[c]) # 0 /\ Answer(c, Refusal(Form[c]), FALSE)
    <3>1. Refusal(Form[c]) \in {200, 409, 413, 415, 422, 502}
      BY <2>3, RefusalType
    <3>2. Answered(c, Refusal(Form[c]))
      BY <2>3, Answering
    <3> QED
      BY <1>3, <2>1, <3>1, <3>2 DEF TypeInv, TypeOK
  <2> QED
    BY <1>4, <2>2, <2>3 DEF Receive
<1>5. ASSUME NEW c \in Call, Lookup(c) PROVE TypeInv'
  <2>1. UNCHANGED <<objects, trips, traced, faults>>
    BY <1>5 DEF Lookup
  <2>2. CASE Goto(c, "head")
    BY <1>2, <1>5, <2>1, <2>2 DEF Lookup, Working, TypeInv, TypeOK
  <2>3. ASSUME NEW code \in {200, 409}, Answered(c, code) PROVE TypeInv'
    BY <1>3, <2>1, <2>3 DEF TypeInv, TypeOK
  <2>4. Goto(c, "head") \/ Answered(c, 200) \/ Answered(c, 409)
    BY <1>5, Answering DEF Lookup
  <2> QED
    BY <2>2, <2>3, <2>4
<1>6. ASSUME NEW c \in Call, HeadObject(c) PROVE TypeInv'
  BY <1>2, <1>6 DEF HeadObject, Working, TypeInv, TypeOK
<1>7. ASSUME NEW c \in Call, PutObject(c) PROVE TypeInv'
  BY <1>2, <1>7, FormType DEF PutObject, Working, TypeInv, TypeOK, Object, FormFacts
<1>8. ASSUME NEW c \in Call, Parse(c) PROVE TypeInv'
  <2>1. Prepared(c)'
    BY <1>8, ParseFacts DEF Parse, Prepared, TypeInv
  <2> QED
    BY <1>8, <2>1, ParseFacts, PreparedOthers DEF Parse, TypeInv, TypeOK
<1>9. ASSUME NEW c \in Call, Save(c) PROVE TypeInv'
  <2>1. \A t \in Trip : trips[t] # None => trips'[t] # None
    BY <1>9, SaveFacts
  <2>2. Prepared(c)'
    BY <1>9, SaveFacts DEF Save, Prepared, TypeInv
  <2> QED
    BY <1>9, <2>1, <2>2, SaveFacts, PreparedOthers DEF Save, TypeInv, TypeOK
<1>10. ASSUME NEW c \in Call, PutTraceContext(c) PROVE TypeInv'
  <2>1. Form[c].trip \in Trip /\ trips[Form[c].trip] # None
    BY <1>10, FormType DEF PutTraceContext, TypeInv, Prepared, FormFacts
  <2>2. Prepared(c)'
    <3>1. call'[c].step = "read" /\ call'[c].code = 0 /\ UNCHANGED trips
      BY <1>10, GotoFacts DEF PutTraceContext, TypeInv, Prepared
    <3> QED
      BY <2>1, <3>1 DEF Prepared
  <2> QED
    BY <1>10, <2>1, <2>2, GotoFacts, PreparedOthers
    DEF PutTraceContext, Working, TypeInv, TypeOK
<1>11. ASSUME NEW c \in Call, Read(c) PROVE TypeInv'
  <2>1. call[c].inserted \in BOOLEAN
    BY DEF Progress
  <2>2. UNCHANGED <<objects, trips, traced, faults>>
    BY <1>11 DEF Read
  <2>3. Answered(c, 200) \/ Answered(c, 409)
    BY <1>11, <2>1, Answering DEF Read
  <2> QED
    BY <1>3, <2>2, <2>3 DEF TypeInv, TypeOK
<1>12. ASSUME NEW c \in Call, Fail(c) PROVE TypeInv'
  <2>1. Answered(c, 502) /\ UNCHANGED <<objects, trips, traced>>
    BY <1>12, Answering DEF Fail
  <2>2. faults' \in 0 .. MaxFaults
    BY <1>12, ActivationAssumption DEF Fail, TypeInv, TypeOK
  <2> QED
    BY <1>3, <2>1, <2>2
<1>13. CASE UNCHANGED vars
  BY <1>13 DEF vars, TypeInv, TypeOK, Prepared
<1> QED
  BY <1>1, <1>4, <1>5, <1>6, <1>7, <1>8, <1>9, <1>10, <1>11, <1>12, <1>13
  DEF Next, Handle

\* Every state of every instance has the types TypeOK gives.
THEOREM ActivationTypeCorrect == Spec => []TypeOK
<1>1. TypeInv => TypeOK
  BY DEF TypeInv
<1> QED
  BY <1>1, InitType, NextType, PTL DEF Spec

-----------------------------------------------------------------------------
(* The document is in S3 before its trip is in Postgres: a call that is     *)
(* past put_pdf has its object there.                                       *)

EvidenceInv ==
    /\ EvidenceStored
    /\ \A c \in Call : call[c].step \in {"parse", "save"} =>
          <<Form[c].trip, Form[c].pdf>> \in objects

\* S3 keeps what it has, and Postgres the first row of a trip.
LEMMA Kept ==
  ASSUME TypeInv, [Next]_vars
  PROVE  /\ objects \subseteq objects'
         /\ \A t \in Trip : trips[t] # None => trips'[t] = trips[t]
<1> call \in [Call -> Progress]
  BY DEF TypeInv, TypeOK
<1>1. ASSUME NEW c \in Call, Save(c)
      PROVE  \A t \in Trip : trips[t] # None => trips'[t] = trips[t]
  BY <1>1, SaveFacts
<1> QED
  BY <1>1 DEF Next, Handle, Ask, Receive, Lookup, HeadObject, PutObject, Parse, Save,
     PutTraceContext, Read, Fail, vars

\* A step that has nothing to do with the document moves the call on, or
\* answers it.
LEMMA Moves ==
  ASSUME TypeInv, NEW c \in Call,
         Receive(c) \/ Lookup(c) \/ PutTraceContext(c) \/ Read(c) \/ Fail(c)
  PROVE  \/ \E step \in {"lookup", "head", "read"} : Goto(c, step)
         \/ \E code \in {200, 409, 413, 415, 422, 502} : Answered(c, code)
<1>1. CASE Receive(c)
  <2> DEFINE code == Refusal(Form[c])
  <2>1. code \in {0, 413, 415, 422}
    BY RefusalType
  <2>2. Goto(c, "lookup") \/ (code # 0 /\ Answered(c, code))
    BY <1>1, Answering DEF Receive
  <2> HIDE DEF code
  <2> QED
    BY <2>1, <2>2
<1>2. CASE Lookup(c)
  <2>1. Goto(c, "head") \/ Answered(c, 200) \/ Answered(c, 409)
    BY <1>2, Answering DEF Lookup
  <2> QED
    BY <2>1
<1>3. CASE PutTraceContext(c)
  BY <1>3 DEF PutTraceContext
<1>4. CASE Read(c)
  <2>1. call[c].inserted \in BOOLEAN
    BY DEF TypeInv, TypeOK, Progress
  <2>2. Answered(c, 200) \/ Answered(c, 409)
    BY <1>4, <2>1, Answering DEF Read
  <2> QED
    BY <2>2
<1>5. CASE Fail(c)
  <2>1. Answered(c, 502)
    BY <1>5, Answering DEF Fail
  <2> QED
    BY <2>1
<1> QED
  BY <1>1, <1>2, <1>3, <1>4, <1>5

LEMMA StepFrame ==
  ASSUME TypeInv, NEW c \in Call, Ask(c) \/ Handle(c) \/ Fail(c)
  PROVE  Others(c)
<1> call \in [Call -> Progress]
  BY DEF TypeInv, TypeOK
<1>1. CASE Ask(c) \/ Parse(c) \/ Save(c)
  BY <1>1, AskFacts, ParseFacts, SaveFacts
<1>2. CASE HeadObject(c) \/ PutObject(c)
  BY <1>2, GotoFacts DEF HeadObject, PutObject
<1>3. CASE Receive(c) \/ Lookup(c) \/ PutTraceContext(c) \/ Read(c) \/ Fail(c)
  <2>1. CASE \E step \in {"lookup", "head", "read"} : Goto(c, step)
    BY <2>1, GotoFacts
  <2>2. CASE \E code \in {200, 409, 413, 415, 422, 502} : Answered(c, code)
    BY <2>2, AnsweredFacts
  <2> QED
    BY <1>3, <2>1, <2>2, Moves
<1> QED
  BY <1>1, <1>2, <1>3 DEF Handle

\* How a call comes to parse or to save.
LEMMA Reaches ==
  ASSUME TypeInv, [Next]_vars, NEW c \in Call
  PROVE  \/ call'[c] = call[c]
         \/ call'[c].step \notin {"parse", "save"}
         \/ HeadObject(c) \/ PutObject(c) \/ Parse(c)
<1> call \in [Call -> Progress]
  BY DEF TypeInv, TypeOK
<1>1. ASSUME NEW d \in Call \ {c}, Ask(d) \/ Handle(d) \/ Fail(d)
      PROVE  call'[c] = call[c]
  BY <1>1, StepFrame DEF Others
<1>2. CASE Ask(c) \/ Save(c)
  BY <1>2, AskFacts, SaveFacts
<1>3. CASE Receive(c) \/ Lookup(c) \/ PutTraceContext(c) \/ Read(c) \/ Fail(c)
  <2>1. call'[c].step \in {"lookup", "head", "read", "answered"}
    <3>1. CASE \E code \in {200, 409, 413, 415, 422, 502} : Answered(c, code)
      BY <3>1, AnsweredFacts
    <3>2. CASE \E step \in {"lookup", "head", "read"} : Goto(c, step)
      BY <3>2, GotoFacts
    <3> QED
      BY <1>3, <3>1, <3>2, Moves
  <2> QED
    BY <2>1
<1> QED
  BY <1>1, <1>2, <1>3 DEF Next, Handle, vars

LEMMA InitEvidence == Init => EvidenceInv
BY FormType DEF Init, EvidenceInv, EvidenceStored, Idle

LEMMA NextEvidence == TypeInv /\ EvidenceInv /\ [Next]_vars => EvidenceInv'
<1> SUFFICES ASSUME TypeInv, EvidenceInv, [Next]_vars PROVE EvidenceInv'
  OBVIOUS
<1>1. ASSUME NEW c \in Call, call'[c].step \in {"parse", "save"}
      PROVE  <<Form[c].trip, Form[c].pdf>> \in objects'
  <2>1. objects \subseteq objects'
    BY Kept
  <2>2. call \in [Call -> Progress]
    BY DEF TypeInv, TypeOK
  <2>3. CASE call'[c] = call[c]
    BY <1>1, <2>1, <2>3 DEF EvidenceInv
  <2>4. CASE HeadObject(c)
    <3>1. CASE <<Form[c].trip, Form[c].pdf>> \in objects
      BY <2>1, <3>1
    <3>2. CASE Goto(c, "put")
      <4>1. call'[c].step = "put"
        BY <2>2, <3>2, GotoFacts
      <4> QED
        BY <1>1, <4>1
    <3> QED
      BY <2>4, <3>1, <3>2 DEF HeadObject
  <2>5. CASE PutObject(c)
    BY <2>5 DEF PutObject
  <2>6. CASE Parse(c)
    BY <2>1, <2>6 DEF Parse, EvidenceInv
  <2> QED
    BY <1>1, <2>3, <2>4, <2>5, <2>6, Reaches
<1>2. ASSUME NEW t \in Trip, trips'[t] # None
      PROVE  <<t, trips'[t].pdf>> \in objects'
  <2>1. objects \subseteq objects'
    BY Kept
  <2>2. CASE trips[t] # None
    BY <1>2, <2>1, <2>2, Kept DEF EvidenceInv, EvidenceStored
  <2>3. CASE trips[t] = None
    <3>1. PICK c \in Call : Save(c)
      BY <1>2, <2>3 DEF Next, Handle, Ask, Receive, Lookup, HeadObject, PutObject,
         Parse, PutTraceContext, Read, Fail, vars
    <3>2. Form[c].trip = t /\ trips'[t] = NewRow(c)
      BY <1>2, <2>3, <3>1, SaveFacts
    <3>3. NewRow(c).pdf = Form[c].pdf
      BY DEF NewRow
    <3> QED
      BY <2>1, <3>1, <3>2, <3>3 DEF Save, EvidenceInv
  <2> QED
    BY <2>2, <2>3
<1> QED
  BY <1>1, <1>2 DEF EvidenceInv, EvidenceStored

\* A trip is registered only once its document is in S3 (trip_orchestrator.py,
\* activate_trip; document_store.py, put_pdf).
THEOREM EvidenceFirst == Spec => []EvidenceStored
<1>1. EvidenceInv => EvidenceStored
  BY DEF EvidenceInv
<1> QED
  BY <1>1, InitType, NextType, InitEvidence, NextEvidence, PTL DEF Spec

-----------------------------------------------------------------------------
(* One call wins the insert of a trip, and the row is its own.              *)

ActivationInv ==
    /\ \A c \in Call : call[c].code = 200 /\ ~call[c].replay => call[c].inserted
    /\ \A c \in Call : call[c].inserted =>
          /\ trips[Form[c].trip] # None
          /\ trips[Form[c].trip].traveler = Form[c].traveler
          /\ trips[Form[c].trip].phone = Form[c].phone
    /\ \A c, d \in Call :
          call[c].inserted /\ call[d].inserted /\ Form[c].trip = Form[d].trip => c = d

\* The insert that a call may have won is not given away, and an answer that
\* is no replay is one of a call that won.
LEMMA Won ==
  ASSUME TypeInv, [Next]_vars, NEW c \in Call, ~Save(c)
  PROVE  \/ call'[c] = call[c]
         \/ /\ call'[c].inserted => call[c].inserted
            /\ call'[c].code = 200 /\ ~call'[c].replay => call'[c].inserted
<1> call \in [Call -> Progress]
  BY DEF TypeInv, TypeOK
<1>1. ASSUME NEW d \in Call \ {c}, Ask(d) \/ Handle(d) \/ Fail(d)
      PROVE  call'[c] = call[c]
  BY <1>1, StepFrame DEF Others
<1>2. CASE Ask(c)
  BY <1>2, AskFacts
<1>3. ASSUME NEW step, Goto(c, step), call[c].step # "answered"
      PROVE  call'[c].inserted = call[c].inserted /\ call'[c].code = 0
  BY <1>3, GotoFacts DEF TypeInv, Prepared
<1>4. CASE Parse(c)
  <2>1. call'[c].inserted = call[c].inserted /\ call'[c].code = 0
    BY <1>4, ParseFacts DEF Parse, TypeInv, Prepared
  <2> QED
    BY <2>1
<1> DEFINE replayed == Answer(c, 200, TRUE)
<1>5. CASE replayed
  <2>1. Answered(c, 200)
    BY <1>5, Answering
  <2>3. call'[c].inserted = call[c].inserted
    BY <2>1, AnsweredFacts
  <2>2. call'[c].replay
    BY <1>5 DEF Answer, Progress
  <2> QED
    BY <2>2, <2>3
<1>6. CASE Answer(c, 200, ~call[c].inserted)
  <2>1. call[c].inserted \in BOOLEAN
    BY DEF Progress
  <2>4. Answered(c, 200)
    BY <1>6, <2>1, Answering
  <2>2. call'[c].inserted = call[c].inserted
    BY <2>4, AnsweredFacts
  <2>3. call'[c].replay = ~call[c].inserted
    BY <1>6 DEF Answer, Progress
  <2> QED
    BY <2>1, <2>2, <2>3
<1>7. ASSUME NEW code \in {409, 413, 415, 422, 502}, Answered(c, code)
      PROVE  call'[c].inserted = call[c].inserted /\ call'[c].code # 200
  BY <1>7, AnsweredFacts
<1>8. CASE Lookup(c)
  <2>1. Goto(c, "head") \/ replayed \/ Answered(c, 409)
    BY <1>8, Answering DEF Lookup
  <2>2. call[c].step # "answered"
    BY <1>8 DEF Lookup
  <2>3. Goto(c, "head") =>
           call'[c].inserted = call[c].inserted /\ call'[c].code = 0
    BY <1>3, <2>2
  <2>4. Answered(c, 409) =>
           call'[c].inserted = call[c].inserted /\ call'[c].code # 200
    BY <1>7
  <2> HIDE DEF replayed
  <2> QED
    BY <1>5, <2>1, <2>3, <2>4
<1>9. CASE Read(c)
  <2>1. Answer(c, 200, ~call[c].inserted) \/ Answered(c, 409)
    <3>1. Answer(c, 409, FALSE) => Answered(c, 409)
      BY Answering
    <3> QED
      BY <1>9, <3>1 DEF Read
  <2> QED
    BY <1>6, <1>7, <2>1
<1>10. CASE Receive(c)
  <2> DEFINE code == Refusal(Form[c])
  <2>1. code \in {0, 413, 415, 422}
    BY RefusalType
  <2>2. Goto(c, "lookup") \/ (code # 0 /\ Answered(c, code))
    BY <1>10, Answering DEF Receive
  <2> HIDE DEF code
  <2>3. CASE Goto(c, "lookup")
    BY <1>3, <1>10, <2>3 DEF Receive
  <2>4. CASE code # 0 /\ Answered(c, code)
    BY <1>7, <2>1, <2>4
  <2> QED
    BY <2>2, <2>3, <2>4
<1>11. CASE Fail(c)
  <2>1. Answered(c, 502)
    BY <1>11, Answering DEF Fail
  <2> QED
    BY <1>7, <2>1
<1>12. CASE HeadObject(c) \/ PutObject(c) \/ PutTraceContext(c)
  BY <1>3, <1>12 DEF HeadObject, PutObject, PutTraceContext
<1> QED
  BY <1>1, <1>2, <1>4, <1>8, <1>9, <1>10, <1>11, <1>12 DEF Next, Handle, vars

LEMMA InitActivation == Init => ActivationInv
BY DEF Init, ActivationInv, Idle

LEMMA NextActivation == TypeInv /\ ActivationInv /\ [Next]_vars => ActivationInv'
<1> SUFFICES ASSUME TypeInv, ActivationInv, [Next]_vars PROVE ActivationInv'
  OBVIOUS
<1>1. ASSUME NEW c \in Call
      PROVE  /\ Form[c].trip \in Trip
             /\ trips[Form[c].trip] # None => trips'[Form[c].trip] = trips[Form[c].trip]
  BY Kept, FormType DEF FormFacts
<1>2. CASE \A c \in Call : ~Save(c)
  <2>1. \A c \in Call :
           /\ call'[c].inserted => call[c].inserted
           /\ call'[c].code = 200 /\ ~call'[c].replay =>
                 call'[c] = call[c] \/ call'[c].inserted
    BY <1>2, Won
  <2> QED
    BY <1>1, <2>1 DEF ActivationInv
<1>3. ASSUME NEW c \in Call, Save(c) PROVE ActivationInv'
  <2> DEFINE row == trips[Form[c].trip]
  <2>1. /\ \A d \in Call \ {c} : call'[d] = call[d]
        /\ call'[c].code = call[c].code /\ call'[c].replay = call[c].replay
        /\ call'[c].inserted = (row = None)
        /\ trips'[Form[c].trip] # None
        /\ row = None => trips'[Form[c].trip] = NewRow(c)
    BY <1>3, SaveFacts DEF Others
  <2>2. NewRow(c).traveler = Form[c].traveler /\ NewRow(c).phone = Form[c].phone
    BY DEF NewRow
  <2>3. ~(call[c].code = 200 /\ ~call[c].replay)
    BY <1>3 DEF Save, TypeInv, Prepared
  <2> DEFINE OwnRow(d, f) == /\ f[Form[d].trip] # None
                             /\ f[Form[d].trip].traveler = Form[d].traveler
                             /\ f[Form[d].trip].phone = Form[d].phone
  <2>4. ASSUME NEW d \in Call, call'[d].code = 200, ~call'[d].replay
        PROVE  call'[d].inserted
    BY <2>1, <2>3, <2>4 DEF ActivationInv
  <2>5. ASSUME NEW d \in Call, call'[d].inserted PROVE OwnRow(d, trips')
    <3>1. CASE d = c
      BY <2>1, <2>2, <2>5, <3>1
    <3>2. CASE d # c
      BY <1>1, <2>1, <2>5, <3>2 DEF ActivationInv
    <3> QED
      BY <3>1, <3>2
  <2>6. ASSUME NEW d \in Call \ {c}, call'[c].inserted, call'[d].inserted,
               Form[c].trip = Form[d].trip
        PROVE  FALSE
    <3>1. row = None
      BY <2>1, <2>6
    <3>2. call[d].inserted
      BY <2>1, <2>6
    <3> QED
      BY <2>6, <3>1, <3>2 DEF ActivationInv
  <2>7. ASSUME NEW d \in Call, NEW e \in Call, call'[d].inserted, call'[e].inserted,
               Form[d].trip = Form[e].trip
        PROVE  d = e
    BY <2>1, <2>6, <2>7 DEF ActivationInv
  <2> QED
    BY <2>4, <2>5, <2>7 DEF ActivationInv
<1> QED
  BY <1>2, <1>3

\* Of all the calls for a trip at most one is told that it activated the trip,
\* and the trip holds what that call sent (trip_orchestrator.py, activate_trip;
\* trip_store.py, save_parsed_trip).
THEOREM OneCallActivates == Spec => []OneActivation
<1>1. ActivationInv => OneActivation
  BY DEF ActivationInv, OneActivation
<1> QED
  BY <1>1, InitType, NextType, InitActivation, NextActivation, PTL DEF Spec

-----------------------------------------------------------------------------
(* The row of a trip is that of one upload: what a call holds when it saves *)
(* is an answer for its own document.                                       *)

\* The legs and the status that some answer for a document gives.
Explains(pdf, parsed) ==
    \E answer \in LlmAnswer :
        LET result == DocumentFlow(Content[pdf], answer)
        IN result.legs = parsed.legs /\ result.status = parsed.status

RowInv ==
    /\ RowOfOneUpload
    /\ \A c \in Call : call[c].step = "save" => Explains(Form[c].pdf, call[c].parsed)

LEMMA InitRow == Init => RowInv
BY DEF Init, RowInv, RowOfOneUpload, Idle

\* The row that a call inserts.
LEMMA NewRowExplained ==
  ASSUME TypeInv, RowInv, NEW c \in Call, call[c].step = "save"
  PROVE  LET row == NewRow(c)
         IN /\ row.traveler = Form[c].traveler /\ row.pdf = Form[c].pdf
            /\ row.phone = Form[c].phone
            /\ \E answer \in LlmAnswer :
                  LET result == DocumentFlow(Content[row.pdf], answer)
                  IN /\ result.legs = row.legs
                     /\ (result.status = "parsed") = (row.status = "active")
            /\ row.status = "review_required" => row.legs = <<>>
<1> DEFINE row == NewRow(c)
<1>1. /\ row.traveler = Form[c].traveler /\ row.pdf = Form[c].pdf
      /\ row.phone = Form[c].phone /\ row.legs = call[c].parsed.legs
      /\ row.status = IF call[c].parsed.status = "parsed" THEN "active"
                      ELSE "review_required"
  BY DEF NewRow
<1>2. PICK answer \in LlmAnswer :
         LET result == DocumentFlow(Content[Form[c].pdf], answer)
         IN result.legs = call[c].parsed.legs /\ result.status = call[c].parsed.status
  BY DEF RowInv, Explains
<1> DEFINE result == DocumentFlow(Content[Form[c].pdf], answer)
<1>3. Sensible(result)
  BY FlowSensible, FormType DEF FormFacts
<1>4. result.legs = call[c].parsed.legs /\ result.status = call[c].parsed.status
  BY <1>2
<1>5. DocumentFlow(Content[row.pdf], answer) = result
  BY <1>1
<1> HIDE DEF row, result
<1>6. /\ result.legs = row.legs
      /\ (result.status = "parsed") = (row.status = "active")
      /\ row.status = "review_required" => row.legs = <<>>
  BY <1>1, <1>3, <1>4 DEF Sensible
<1>7. \E a \in LlmAnswer :
         LET r == DocumentFlow(Content[row.pdf], a)
         IN r.legs = row.legs /\ (r.status = "parsed") = (row.status = "active")
  BY <1>5, <1>6
<1> QED
  BY <1>1, <1>6, <1>7 DEF row

LEMMA NextRow == TypeInv /\ RowInv /\ [Next]_vars => RowInv'
<1> SUFFICES ASSUME TypeInv, RowInv, [Next]_vars PROVE RowInv'
  OBVIOUS
<1> call \in [Call -> Progress]
  BY DEF TypeInv, TypeOK
<1> DEFINE Good(t, row) ==
        /\ \E c \in Call : /\ Form[c].trip = t
                            /\ Form[c].traveler = row.traveler
                            /\ Form[c].pdf = row.pdf
                            /\ Form[c].phone = row.phone
        /\ \E answer \in LlmAnswer :
              LET result == DocumentFlow(Content[row.pdf], answer)
              IN /\ result.legs = row.legs
                 /\ (result.status = "parsed") = (row.status = "active")
        /\ row.status = "review_required" => row.legs = <<>>
<1>1. RowOfOneUpload <=> \A t \in Trip : trips[t] # None => Good(t, trips[t])
  BY DEF RowOfOneUpload
<1>2. ASSUME NEW t \in Trip, trips'[t] # None PROVE Good(t, trips'[t])
  <2>1. CASE trips[t] # None
    <3>1. trips'[t] = trips[t] /\ Good(t, trips[t])
      BY <1>1, <2>1, Kept DEF RowInv
    <3> HIDE DEF Good
    <3> QED
      BY <3>1
  <2>2. CASE trips[t] = None
    <3>1. PICK c \in Call : Save(c)
      BY <1>2, <2>2 DEF Next, Handle, Ask, Receive, Lookup, HeadObject, PutObject,
         Parse, PutTraceContext, Read, Fail, vars
    <3>2. Form[c].trip = t /\ trips'[t] = NewRow(c)
      BY <1>2, <2>2, <3>1, SaveFacts
    <3>3. call[c].step = "save"
      BY <3>1 DEF Save
    <3>4. Good(t, NewRow(c))
      BY <3>2, <3>3, NewRowExplained
    <3> HIDE DEF Good
    <3> QED
      BY <3>2, <3>4
  <2> QED
    BY <2>1, <2>2
<1>3. RowOfOneUpload'
  BY <1>2 DEF RowOfOneUpload
<1>4. ASSUME NEW c \in Call, call'[c].step = "save"
      PROVE  Explains(Form[c].pdf, call'[c].parsed)
  <2>1. CASE call'[c] = call[c]
    BY <1>4, <2>1 DEF RowInv
  <2>2. CASE Parse(c)
    <3>1. PICK answer \in LlmAnswer :
             call'[c].parsed = [status |-> DocumentFlow(Content[Form[c].pdf], answer).status,
                                legs |-> DocumentFlow(Content[Form[c].pdf], answer).legs]
      BY <2>2, ParseFacts
    <3> QED
      BY <3>1 DEF Explains
  <2>3. ~HeadObject(c) /\ ~PutObject(c)
    <3>1. ASSUME NEW step \in {"put", "parse"}, Goto(c, step) PROVE FALSE
      BY <1>4, <3>1, GotoFacts
    <3>2. HeadObject(c) \/ PutObject(c) => Goto(c, "put") \/ Goto(c, "parse")
      BY DEF HeadObject, PutObject
    <3> QED
      BY <3>1, <3>2
  <2> QED
    BY <1>4, <2>1, <2>2, <2>3, Reaches
<1> QED
  BY <1>3, <1>4 DEF RowInv

\* A stored trip is what one upload asked for, with the legs that the Document
\* Agent read in its document (trip_store.py, save_parsed_trip, save_review_trip;
\* flow.py, DocumentParsingFlow).
THEOREM RowFromOneUpload == Spec => []RowOfOneUpload
<1>1. RowInv => RowOfOneUpload
  BY DEF RowInv
<1> QED
  BY <1>1, InitType, NextType, InitRow, NextRow, PTL DEF Spec

-----------------------------------------------------------------------------
(* What the legs of a trip rest on.                                         *)

\* The parser read them: every block of the text is legible and flies between
\* airports whose zone is known.
Printed(document, legs) ==
    /\ document.source \notin {"OCR_NOT_CONFIGURED", "OCR_PROCESSING_FAILED"}
    /\ Structured(document.text)
    /\ legs = [i \in DOMAIN document.text.blocks |->
                 BlockLeg(document.text.blocks[i])]

\* The model claimed them, with confidence, with evidence and in the order of
\* time, for a text the parser could not read and with a confirmed reference.
Claimed(document, answer, legs) ==
    /\ document.source \notin {"OCR_NOT_CONFIGURED", "OCR_PROCESSING_FAILED"}
    /\ LlmMode = "fallback" /\ ~Structured(document.text)
    /\ answer.call = "extracted" /\ answer.confirmed
    /\ DOMAIN legs = DOMAIN answer.legs
    /\ \A i \in DOMAIN legs :
          /\ answer.legs[i].confident /\ answer.legs[i].evidenced
          /\ answer.legs[i].timed
          /\ legs[i] = [departure |-> answer.legs[i].departure,
                        arrival   |-> answer.legs[i].arrival]
          /\ legs[i].arrival - legs[i].departure \in 1 .. LongestFlight

\* What the parser answers.
LEMMA StructuredOrNot ==
  ASSUME NEW text, NEW source
  PROVE  LET r == ParseExtractedText(text, source)
         IN  \/ /\ Structured(text) /\ r.status = "parsed"
                /\ r.legs = [i \in DOMAIN text.blocks |-> BlockLeg(text.blocks[i])]
             \/ ~Structured(text) /\ r.status = "review_required" /\ r.legs = <<>>
<1>1. CASE Structured(text)
  BY <1>1, Zenon DEF ParseExtractedText, Parsed
<1>2. CASE ~Structured(text)
  <2>1. \E reasons : ParseExtractedText(text, source) = Review(reasons)
    BY <1>2, Zenon DEF ParseExtractedText
  <2> QED
    BY <1>2, <2>1 DEF Review
<1> QED
  BY <1>1, <1>2

\* Of a leg that is accepted everything was asked.
LEMMA AcceptedLeg ==
  ASSUME NEW leg, LegFate(leg) = "accepted"
  PROVE  /\ leg.confident /\ leg.evidenced /\ leg.timed
         /\ leg.arrival - leg.departure \in 1 .. LongestFlight
BY DEF LegFate

\* The model is believed only about legs that are all accepted.
LEMMA ResolvedLegs ==
  ASSUME NEW answer, NEW base,
         answer.call \in {"not_configured", "failed", "abstained", "extracted"},
         ResolveReviewWithLlm(answer, base).status = "parsed"
  PROVE  LET legs == ResolveReviewWithLlm(answer, base).legs
         IN  /\ answer.call = "extracted" /\ answer.confirmed
             /\ answer.legs # <<>>
             /\ \A i \in DOMAIN answer.legs :
                   LegFate(answer.legs[i]) = "accepted"
             /\ legs = [i \in DOMAIN answer.legs |->
                          [departure |-> answer.legs[i].departure,
                           arrival   |-> answer.legs[i].arrival]]
<1> DEFINE bad == {i \in DOMAIN answer.legs :
                     LegFate(answer.legs[i]) # "accepted"}
           r   == ResolveReviewWithLlm(answer, base)
           told == [i \in DOMAIN answer.legs |->
                      [departure |-> answer.legs[i].departure,
                       arrival   |-> answer.legs[i].arrival]]
<1>1. \A reasons : Review(reasons).status # "parsed"
  BY DEF Review
<1>2. Raised.status # "parsed"
  BY DEF Raised
<1>3. \/ answer.call = "not_configured" /\ \E reasons : r = Review(reasons)
      \/ answer.call = "failed" /\ \E reasons : r = Review(reasons)
      \/ answer.call = "abstained" /\ \E reasons : r = Review(reasons)
      \/ /\ answer.call = "extracted"
         /\ \/ \E reasons : r = Review(reasons)
            \/ r = Raised
            \/ /\ answer.legs # <<>> /\ answer.confirmed /\ bad = {}
               /\ r = Parsed(told)
  <2>1. CASE answer.call = "not_configured"
    BY <2>1, Zenon DEF ResolveReviewWithLlm
  <2>2. CASE answer.call = "failed"
    <3>1. answer.call # "not_configured"
      BY <2>2
    <3>2. r = ExtractionFailed(base)
      BY <2>2, <3>1 DEF ResolveReviewWithLlm
    <3> QED
      BY <2>2, <3>2, Zenon DEF ExtractionFailed
  <2>3. CASE answer.call = "abstained"
    <3>1. r = Review(<<"LLM_ABSTAINED">>)
      BY <2>3 DEF ResolveReviewWithLlm
    <3> QED
      BY <2>3, <3>1, Zenon
  <2>4. CASE answer.call = "extracted"
    <3>1. r = IF answer.legs = <<>> \/ ~answer.confirmed
                THEN ExtractionFailed(base)
              ELSE IF bad = {} THEN Parsed(told)
              ELSE IF LegFate(answer.legs[CHOOSE i \in bad :
                                            \A j \in bad : i <= j]) = "raised"
                THEN Raised
              ELSE ExtractionFailed(base)
      BY <2>4 DEF ResolveReviewWithLlm
    <3> HIDE DEF r, bad, told
    <3>2. \/ r = ExtractionFailed(base)
          \/ r = Raised
          \/ answer.legs # <<>> /\ answer.confirmed /\ bad = {} /\ r = Parsed(told)
      BY <3>1, Zenon
    <3>3. r = ExtractionFailed(base) => \E reasons : r = Review(reasons)
      BY Zenon DEF ExtractionFailed
    <3> QED
      BY <2>4, <3>2, <3>3, Zenon
  <2> QED
    BY <2>1, <2>2, <2>3, <2>4
<1> HIDE DEF r, bad, told
<1>4. /\ answer.call = "extracted" /\ answer.legs # <<>> /\ answer.confirmed
      /\ bad = {} /\ r = Parsed(told)
  BY <1>1, <1>2, <1>3 DEF r
<1>5. r.legs = told
  BY <1>4 DEF Parsed
<1> QED
  BY <1>4, <1>5 DEF r, bad, told

\* Whatever a document is and the model answers, legs are read only where every
\* block can be, or taken from a model only with evidence for each of them; a
\* document of which neither is true yields none (parser.py, structure_itinerary;
\* itinerary_llm.py, resolve_review_with_llm; flow.py, DocumentParsingFlow).
THEOREM NoLegWithoutEvidence ==
  ASSUME NEW pdf \in Pdf, NEW answer \in LlmAnswer
  PROVE  LET document == Content[pdf]
             result   == DocumentFlow(document, answer)
         IN  /\ result.status = "parsed" =>
                   /\ result.legs # <<>>
                   /\ \/ Printed(document, result.legs)
                      \/ Claimed(document, answer, result.legs)
             /\ result.status # "parsed" => result.legs = <<>>
<1> DEFINE document == Content[pdf]
           text     == document.text
           read     == ParseExtractedText(text, document.source)
           result   == DocumentFlow(document, answer)
           told     == [i \in DOMAIN answer.legs |->
                          [departure |-> answer.legs[i].departure,
                           arrival   |-> answer.legs[i].arrival]]
           printed  == [i \in DOMAIN text.blocks |-> BlockLeg(text.blocks[i])]
<1>1. /\ answer.call \in {"not_configured", "failed", "abstained", "extracted"}
      /\ DOMAIN answer.legs = 1 .. Len(answer.legs) /\ Len(answer.legs) \in Nat
      /\ DOMAIN text.blocks = 1 .. Len(text.blocks) /\ Len(text.blocks) \in Nat
      /\ answer.legs # <<>> => Len(answer.legs) # 0
      /\ text.blocks # <<>> => Len(text.blocks) # 0
  BY ActivationAssumption
<1>2. Sensible(result)
  BY FlowSensible
<1>3. result.status # "parsed" => result.legs = <<>>
  BY <1>2 DEF Sensible
<1>4. ASSUME result.status = "parsed"
      PROVE  /\ result.legs # <<>>
             /\ Printed(document, result.legs)
                \/ Claimed(document, answer, result.legs)
  <2>1. document.source \notin {"OCR_NOT_CONFIGURED", "OCR_PROCESSING_FAILED"}
    <3> SUFFICES ASSUME document.source \in {"OCR_NOT_CONFIGURED",
                                            "OCR_PROCESSING_FAILED"}
                 PROVE  FALSE
      OBVIOUS
    <3>1. result = Review(<<document.source>>)
      BY DEF DocumentFlow
    <3>2. result.status = "review_required"
      BY <3>1 DEF Review
    <3> QED
      BY <1>4, <3>2
  <2>2. result = IF read.status = "review_required" /\ LlmMode = "fallback"
                   THEN ResolveReviewWithLlm(answer, read)
                 ELSE read
    BY <2>1 DEF DocumentFlow
  <2>3. \/ Structured(text) /\ read.status = "parsed" /\ read.legs = printed
        \/ ~Structured(text) /\ read.status = "review_required"
    BY StructuredOrNot
  <2>4. CASE Structured(text)
    <3>1. result.legs = printed
      BY <2>2, <2>3, <2>4
    <3>2. Printed(document, result.legs)
      BY <2>1, <2>4, <3>1 DEF Printed
    <3>3. text.blocks # <<>>
      BY <2>4 DEF Structured
    <3>4. DOMAIN printed = DOMAIN text.blocks
      OBVIOUS
    <3>5. DOMAIN printed # {}
      BY <1>1, <3>3, <3>4
    <3>6. printed # <<>>
      <4> HIDE DEF printed
      <4> QED
        BY <3>5
    <3> QED
      BY <3>1, <3>2, <3>6
  <2>5. CASE ~Structured(text)
    <3>1. LlmMode = "fallback" /\ result = ResolveReviewWithLlm(answer, read)
      BY <1>4, <2>2, <2>3, <2>5
    <3> HIDE DEF result, read
    <3>2. /\ answer.call = "extracted" /\ answer.confirmed
          /\ answer.legs # <<>>
          /\ \A i \in DOMAIN answer.legs :
                LegFate(answer.legs[i]) = "accepted"
          /\ result.legs = told
      BY <1>1, <1>4, <3>1, ResolvedLegs
    <3>3. \A i \in DOMAIN answer.legs :
             /\ answer.legs[i].confident /\ answer.legs[i].evidenced
             /\ answer.legs[i].timed
             /\ answer.legs[i].arrival - answer.legs[i].departure
                   \in 1 .. LongestFlight
      BY <3>2, AcceptedLeg
    <3>4. /\ DOMAIN told = DOMAIN answer.legs
          /\ \A i \in DOMAIN answer.legs :
                /\ told[i] = [departure |-> answer.legs[i].departure,
                              arrival   |-> answer.legs[i].arrival]
                /\ told[i].departure = answer.legs[i].departure
                /\ told[i].arrival = answer.legs[i].arrival
      OBVIOUS
    <3> HIDE DEF told
    <3>5. Claimed(document, answer, told)
      BY <2>1, <2>5, <3>1, <3>2, <3>3, <3>4 DEF Claimed
    <3>6. told # <<>>
      BY <1>1, <3>2, <3>4
    <3> QED
      BY <3>2, <3>5, <3>6
  <2> QED
    BY <2>4, <2>5
<1> QED
  BY <1>3, <1>4

\* A trip is active only with legs, and all of them printed in its document or
\* claimed with evidence by one answer of the model; a trip without such legs
\* waits for review and has none that is monitored.
LegsEvidenced ==
    \A t \in Trip : trips[t] # None =>
        IF trips[t].status = "active"
          THEN /\ trips[t].legs # <<>>
               /\ \/ Printed(Content[trips[t].pdf], trips[t].legs)
                  \/ \E answer \in LlmAnswer :
                        Claimed(Content[trips[t].pdf], answer, trips[t].legs)
        ELSE trips[t].legs = <<>>

\* So is the trip of every upload, whatever raced or failed (trip_store.py,
\* save_parsed_trip, save_review_trip).
THEOREM ActiveOnEvidence == Spec => []LegsEvidenced
<1>1. TypeInv /\ RowOfOneUpload => LegsEvidenced
  <2> SUFFICES ASSUME TypeInv, RowOfOneUpload, NEW t \in Trip, trips[t] # None
               PROVE  IF trips[t].status = "active"
                        THEN /\ trips[t].legs # <<>>
                             /\ \/ Printed(Content[trips[t].pdf], trips[t].legs)
                                \/ \E answer \in LlmAnswer :
                                      Claimed(Content[trips[t].pdf], answer,
                                              trips[t].legs)
                      ELSE trips[t].legs = <<>>
    BY DEF LegsEvidenced
  <2> DEFINE row == trips[t]
  <2>1. row \in Row
    BY DEF TypeInv, TypeOK
  <2>2. row.pdf \in Pdf
    BY <2>1 DEF Row
  <2>3. PICK answer \in LlmAnswer :
           LET result == DocumentFlow(Content[row.pdf], answer)
           IN /\ result.legs = row.legs
              /\ (result.status = "parsed") = (row.status = "active")
    BY DEF RowOfOneUpload
  <2> DEFINE result == DocumentFlow(Content[row.pdf], answer)
  <2>4. /\ result.status = "parsed" =>
              /\ result.legs # <<>>
              /\ \/ Printed(Content[row.pdf], result.legs)
                 \/ Claimed(Content[row.pdf], answer, result.legs)
        /\ result.status # "parsed" => result.legs = <<>>
    BY <2>2, NoLegWithoutEvidence
  <2>5. result.legs = row.legs /\ (result.status = "parsed") = (row.status = "active")
    BY <2>3
  <2> HIDE DEF result, row
  <2>6. CASE row.status = "active"
    BY <2>4, <2>5, <2>6 DEF row
  <2>7. CASE row.status # "active"
    BY <2>4, <2>5, <2>7 DEF row
  <2> QED
    BY <2>6, <2>7 DEF row
<1>2. RowInv => RowOfOneUpload
  BY DEF RowInv
<1> QED
  BY <1>1, <1>2, InitType, NextType, InitRow, NextRow, PTL DEF Spec
=============================================================================
