------------------------------ MODULE Advisor -------------------------------
(***************************************************************************)
(* The cost advisor: what an LLM answers is validated and filtered by the  *)
(* service (advisor/app) and converted by the gateway's client             *)
(* (gateway/internal/proxy/advisor_client.go) before PolicyEngine sees it. *)
(*                                                                         *)
(* The service keeps no state.  It has its own copy of the price table     *)
(* (providers/pricing.py), equal to the gateway's.  The LLM is external;   *)
(* its answer is Raises, if the call fails, Unparsable, if it is not JSON  *)
(* of the right shape, or a list of suggestions that may be wrong in every *)
(* field.  A confidence is in percent; an absent model is None and an      *)
(* absent number Nil.                                                      *)
(***************************************************************************)
EXTENDS ConfigCache, PolicyEngine, SequencesExt

CONSTANTS
  Raises,       \* the LLM cannot be reached, or times out
  Unparsable    \* its answer cannot be read

ASSUME AdvisorAssumption == None \in Model \ DOMAIN PricingTable

(* What an answer that can be read is a list of. *)
LLMSuggestion ==
  [type : SuggestionType, model : Model, max : {Nil} \cup Int, confidence : Int]

(* schemas.py: the type is one of four, a number of tokens is positive and *)
(* a confidence lies between 0 and 1.                                      *)
WellFormed(s) ==
  /\ s.type \in SuggestionType \ {"other"}
  /\ s.max # Nil => s.max > 0
  /\ s.confidence \in 0 .. 100

(* A suggestion without what it suggests is dropped. *)
CrossFieldsValid(s) ==
  /\ s.type = "switch_model" => s.model # None
  /\ s.type = "reduce_max_tokens" => s.max # Nil

(* One suggestion that is ill-formed, or more than three of them, discard  *)
(* the whole answer.                                                       *)
parse_llm_output(text) ==
  IF text = Unparsable THEN <<>>
  ELSE IF Len(text) > 3 \/ \E i \in DOMAIN text : ~WellFormed(text[i]) THEN <<>>
  ELSE LET valid(out, s) == IF CrossFieldsValid(s) THEN Append(out, s) ELSE out
       IN  FoldLeft(valid, <<>>, text)

(* Mutant: the prices of input tokens are compared. *)
cheaper_by_input(model) ==
  {m \in DOMAIN PricingTable : /\ model \in DOMAIN PricingTable
                               /\ Family[m] = Family[model]
                               /\ PricingTable[m].input < PricingTable[model].input}
cheaper_alternatives(model) ==
  IF model \notin DOMAIN PricingTable THEN {}
  ELSE {m \in DOMAIN PricingTable :
          /\ m # model /\ Family[m] = Family[model]
          /\ PricingTable[m].output < PricingTable[model].output}

(* The first suggestion of each type, not counting switches to a model     *)
(* that is not cheaper.                                                    *)
apply_guardrails(model, suggestions) ==
  LET keep(out, s) ==
        IF \/ \E i \in DOMAIN out : out[i].type = s.type
           \/ s.type = "switch_model" /\ s.model \notin cheaper_alternatives(model)
          THEN out ELSE Append(out, s)
  IN  FoldLeft(keep, <<>>, suggestions)

get_suggestions(model, answer) ==
  IF answer = Raises THEN <<>> ELSE apply_guardrails(model, parse_llm_output(answer))

-----------------------------------------------------------------------------
(* MockLLMClient.complete: the alternative with the cheapest output, nine  *)
(* tenths of the remaining tokens, and a summary if the prompts of the     *)
(* recent calls have been growing.                                         *)
Says(type, model, max, confidence) ==
  [type |-> type, model |-> model, max |-> max, confidence |-> confidence]

MockComplete(model, estimated, remaining, growing) ==
  LET alts == cheaper_alternatives(model)
      best == CHOOSE m \in alts :
                \A n \in alts : PricingTable[m].output <= PricingTable[n].output
      fits == \/ CostUSD(best, estimated, 0, 0) <= remaining["usd"]
              \/ remaining["usd"] = 0
      reduced == (remaining["tokens"] * 9) \div 10
  IN  (IF alts = {} THEN <<>>
         ELSE <<Says("switch_model", best, Nil, IF fits THEN 85 ELSE 55)>>)
      \o (IF remaining["tokens"] > 0 /\ reduced > 0 /\ reduced < estimated
            THEN <<Says("reduce_max_tokens", None, reduced, 70)>> ELSE <<>>)
      \o (IF growing THEN <<Says("summarize_first", None, Nil, 65)>> ELSE <<>>)

(* AdvisorClient.Advise: a number that is absent is decoded as 0; a body   *)
(* that is not a list of suggestions is an error, and no advice.           *)
Decoded(s) == [s EXCEPT !.max = IF @ = Nil THEN 0 ELSE @]
Received(suggestions) ==
  LET parsed == [i \in DOMAIN suggestions |-> Decoded(suggestions[i])]
  IN  IF parsed \in Seq(Suggestion) THEN parsed ELSE <<>>

=============================================================================
