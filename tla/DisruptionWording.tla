--------------------------- MODULE DisruptionWording ---------------------------
(***************************************************************************)
(* The words a confirmed disruption is told in: the request that the        *)
(* notification action service makes of the event and the stored candidate  *)
(* (notification_action_service.py), the Communication Agent's answer to it *)
(* (communication_a2a.py), and the checks a model's sentence must pass      *)
(* before it replaces the fixed one (disruption_explanation.py).            *)
(*                                                                         *)
(* Of a sentence only what the checks look at is kept: the categories whose *)
(* terms it uses, the numbers in it, and three kinds of text it must not    *)
(* contain.                                                                 *)
(***************************************************************************)
EXTENDS Integers, FiniteSets

CONSTANT None

WeatherRisk == {"none", "low", "moderate", "severe"}

\* _optional_int: what is no whole number counts as not known.
OptionalInt(v) == IF v \in Int THEN v ELSE None

\* The fields DisruptionExplanationRequest accepts.
InContract(request) ==
    /\ request.delay = None \/ request.delay \in 0 .. 2880
    /\ request.buffer = None \/ request.buffer \in -1440 .. 2880
    /\ request.minimum = None \/ request.minimum \in 0 .. 1440
    /\ Cardinality(request.reasons) \in 1 .. 5

\* _explanation_request, of an event [category, verdict, reasons] and the
\* candidate [delay, buffer, minimum, weather, corroborated], or None.  The
\* contract's ValidationError, here None, is nobody's to catch in
\* process_confirmed_event.
ExplanationRequest(event, candidate) ==
    LET known(v) == IF candidate = None THEN None ELSE OptionalInt(v)
        request  ==
            [category |-> event.category, reasons |-> event.reasons,
             delay |-> known(candidate.delay), buffer |-> known(candidate.buffer),
             minimum |-> known(candidate.minimum),
             weather |-> IF candidate = None \/ candidate.weather \notin WeatherRisk
                         THEN None ELSE candidate.weather,
             corroborated |-> IF candidate = None THEN None
                              ELSE candidate.corroborated]
    IN  IF InContract(request) THEN request ELSE None

Measure == {"delay", "buffer", "minimum"}

Evidence == Measure \cup {"weather", "corroborated"}

\* deterministic_explanation: only a delay is stated in figures.
Deterministic(request, error) ==
    [status |-> "fallback", error |-> error, terms |-> {request.category},
     numbers |-> IF request.category = "DELAY" /\ request.delay # None
                 THEN {request.delay} ELSE {},
     unsupported |-> FALSE]

\* explain of the Azure provider; reply is None when the request fails or what
\* comes back is no JSON.  Of a sentence the checks below look at [terms,
\* numbers, facts, unsupported, short, confidence].
ModelExplanation(configured, reply) ==
    IF ~configured THEN [kind |-> "unconfigured"]
    ELSE IF reply = None \/ reply.refusal \/ ~reply.inSchema
    THEN [kind |-> "failed"]
    ELSE reply.sentence

\* Mutant: any figure will do.
SafeInWords(request, s) ==
    /\ s.confidence >= 80
    /\ ~s.unsupported
    /\ request.category \in s.terms
    /\ s.facts \subseteq {"category"} \cup {e \in Evidence : request[e] # None}

\* _validated_model_message.  Figures are compared as digits: a connection
\* missed by 20 minutes, a buffer of -20, cannot be stated.
Safe(request, s) ==
    /\ s.confidence >= 80
    /\ ~s.unsupported
    /\ request.category \in s.terms
    /\ s.facts \subseteq {"category"} \cup {e \in Evidence : request[e] # None}
    /\ \A n \in s.numbers : n \in {request[e] : e \in Measure} \ {None}

\* explain_disruption; without a provider the fixed sentence is no failure.  A
\* sentence that is too short once its blanks are collapsed fails the result's
\* own contract.
Explain(request, answer) ==
    IF answer = None THEN Deterministic(request, None)
    ELSE IF answer.kind = "unconfigured"
    THEN Deterministic(request, "EXPLANATION_LLM_NOT_CONFIGURED")
    ELSE IF answer.kind = "failed" THEN Deterministic(request, "EXPLANATION_LLM_FAILED")
    ELSE IF ~Safe(request, answer)
    THEN Deterministic(request, "EXPLANATION_LLM_UNSAFE")
    ELSE IF answer.short THEN Deterministic(request, "EXPLANATION_LLM_FAILED")
    ELSE [status |-> "generated", error |-> None, terms |-> answer.terms,
          numbers |-> answer.numbers, unsupported |-> answer.unsupported]

\* _friendly_explanation: an agent that cannot be reached, or that answers
\* with an A2A error, costs no more than the wording.
FriendlyExplanation(request, reached, answer) ==
    IF reached THEN Explain(request, answer)
    ELSE Deterministic(request, "EXPLANATION_AGENT_UNAVAILABLE")
=============================================================================
