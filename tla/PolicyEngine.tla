---------------------------- MODULE PolicyEngine ----------------------------
(***************************************************************************)
(* Prices and the deterministic decision about an advisor's suggestions:   *)
(* gateway/internal/provider/pricing.go and                                *)
(* gateway/internal/policy/policy.go.                                      *)
(*                                                                         *)
(* Prices are in model units of a dollar per token; models stand for the   *)
(* normalized names.  A confidence is a natural number.                    *)
(***************************************************************************)
EXTENDS Integers, Sequences

CONSTANTS
  PricingTable,    \* priced model -> [input, cached, output]
  Family,          \* model -> provider family, priced or not
  MinConfidence,   \* Config.MinConfidence
  MinAllowance     \* Config.MinPartialAllowanceTokens

Model == DOMAIN Family

ASSUME PolicyAssumption ==
  /\ DOMAIN PricingTable \subseteq Model
  /\ \A m \in DOMAIN PricingTable :
       PricingTable[m] \in [input : Nat, cached : Nat, output : Nat]
  /\ MinConfidence \in Nat
  /\ MinAllowance \in Nat \ {0}

(* The cost of a call; a model that has no price costs nothing. *)
CostUSD(model, in, cached, out) ==
  IF model \notin DOMAIN PricingTable THEN 0
  ELSE LET p == PricingTable[model]
           uncached == IF in < cached THEN 0 ELSE in - cached
       IN  uncached * p.input + cached * p.cached + out * p.output

(* Models of the same family with a lower price for output tokens. *)
CheaperAlternatives(model) ==
  IF model \notin DOMAIN PricingTable THEN {}
  ELSE {m \in DOMAIN PricingTable \ {model} :
          /\ Family[m] = Family[model]
          /\ PricingTable[m].output < PricingTable[model].output}

-----------------------------------------------------------------------------
SuggestionType ==
  {"switch_model", "reduce_max_tokens", "summarize_first", "reduce_tool_calls", "other"}
Suggestion == [type : SuggestionType, model : Model, max : Int, confidence : Nat]

(* The output tokens granted for a reduce_max_tokens suggestion.  Mutant:  *)
(* what was suggested.                                                     *)
AllowanceAsSuggested(s, remaining) == s.max
Allowance(s, remaining) == IF s.max > remaining THEN remaining ELSE s.max

(* The gateway acts on a suggestion if it is confident and its claim holds *)
(* against the gateway's own figures.                                      *)
Acceptable(s, model, requested, remaining) ==
  /\ s.confidence >= MinConfidence
  /\ \/ s.type = "switch_model" /\ s.model \in CheaperAlternatives(model)
     \/ /\ s.type = "reduce_max_tokens"
        /\ Allowance(s, remaining) >= MinAllowance
        /\ Allowance(s, remaining) < requested

(* Decide: the first acceptable suggestion, or a rejection.  The advice    *)
(* attached to a rejection is text and left out.                           *)
Decide(model, requested, remaining, suggestions) ==
  LET good == {i \in DOMAIN suggestions :
                 Acceptable(suggestions[i], model, requested, remaining)}
      s == suggestions[CHOOSE i \in good : \A j \in good : i <= j]
  IN  CASE good = {} -> [action |-> "reject"]
        [] good # {} /\ s.type = "switch_model" ->
             [action |-> "retry_with_model", model |-> s.model]
        [] good # {} /\ s.type # "switch_model" ->
             [action |-> "partial_allowance", max |-> Allowance(s, remaining)]

=============================================================================
