---------------------------- MODULE ModelRouting ----------------------------
(***************************************************************************)
(* Which providers serve a request, in which order (api/model_router.py,   *)
(* config/settings.py), and the model ids the proxy lists (api/routes.py)  *)
(* from its settings and from what its providers told of their models      *)
(* (providers/model_listing.py, providers/registry.py), encoded so that    *)
(* clients accept them and the router finds its way back                   *)
(* (api/gateway_model_ids.py).                                             *)
(*                                                                         *)
(* A name is the sequence of its parts between slashes; a reference is one *)
(* that begins with a provider id.                                         *)
(***************************************************************************)
EXTENDS Integers, Sequences, SequencesExt, FiniteSets

CONSTANTS
  ProviderIds,   \* SUPPORTED_PROVIDER_IDS
  Describing,    \* those that tell what their models can do: open_router
  Keyless,       \* those with a static credential: the local ones
  Gateway, NoThinking,   \* the prefixes of listed ids
  Tiers,         \* opus, haiku, sonnet, in the order they are looked for
  TiersOf,       \* the tiers a part of a name contains
  ClaudeModels   \* SUPPORTED_CLAUDE_MODELS

ASSUME PrefixAssumption == Gateway # NoThinking /\ {Gateway, NoThinking} \cap ProviderIds = {}

-----------------------------------------------------------------------------
(* Settings: keys, the providers with one; model and thinking; models and
   thinks, for the tiers they are set for; fallbacks. *)

\* Of the first tier of the name that is set.
ForTier(name, byTier, default) ==
  LET i == SelectInSeq(Tiers, LAMBDA t :
             t \in DOMAIN byTier /\ \E j \in DOMAIN name : t \in TiersOf[name[j]])
  IN  IF i = 0 THEN default ELSE byTier[Tiers[i]]

ResolveModel(s, name) == ForTier(name, s.models, s.model)

ResolveThinking(s, name) == ForTier(name, s.thinks, s.thinking)

ConfiguredRefs(s) ==
  {s.model} \cup {s.models[t] : t \in DOMAIN s.models} \cup ToSet(s.fallbacks)

\* validate_model_format, validate_model_fallbacks: else there are no settings.
ValidSettings(s) ==
  \A ref \in ConfiguredRefs(s) : Len(ref) >= 2 /\ Head(ref) \in ProviderIds

\* create_provider: all but those that miss their key.
Creatable(s) == s.keys \cup Keyless

Referenced(s) == {Head(ref) : ref \in ConfiguredRefs(s)}

-----------------------------------------------------------------------------
(* The router *)

\* A reference split after its provider.
Target(ref, thinking) ==
  [provider |-> Head(ref), model |-> Tail(ref), thinking |-> thinking]

\* Faulty variant: the model is what stands behind the last slash.
DecodedFromEnd(name) ==
  IF Len(name) >= 3 /\ name[1] \in {Gateway, NoThinking}
  THEN <<name[2], Last(name)>> ELSE <<>>

\* decode_gateway_model_id: the reference in a listed id.
Decoded(name) ==
  IF Len(name) >= 3 /\ name[1] \in {Gateway, NoThinking} THEN Tail(name) ELSE <<>>

\* _direct_provider_model: the reference a name holds, if it holds one.
Direct(name) ==
  LET ref == IF Decoded(name) # <<>> THEN Decoded(name) ELSE name IN
  IF Len(ref) >= 2 /\ Head(ref) \in ProviderIds THEN ref ELSE <<>>

Resolve(s, name) ==
  LET ref == Direct(name) IN
  IF ref # <<>>
  THEN Target(ref, name[1] # NoThinking /\ ResolveThinking(s, Tail(ref)))
  ELSE Target(ResolveModel(s, name), ResolveThinking(s, name))

\* resolve_fallback_chain: no model twice, whether or not it would think.
Chain(s, name) ==
  LET Add(chain, ref) ==
        IF \E i \in DOMAIN chain : <<chain[i].provider>> \o chain[i].model = ref
        THEN chain ELSE Append(chain, Target(ref, ResolveThinking(s, Tail(ref))))
  IN  FoldLeft(Add, <<Resolve(s, name)>>, s.fallbacks)

-----------------------------------------------------------------------------
(* What providers tell: items with an id (<<>> if it is missing) and what their
   model can do. infos: by provider, whether the models it told can think. *)

\* The extract_*_model_ids functions refuse the whole answer.
Malformed(p, items) ==
  \/ \E item \in items : item.id = <<>>
  \/ items = {} /\ p \notin Describing

\* Only models with tools, of a provider that tells.
Infos(p, items) ==
  LET able == {item \in items : "tools" \in item.can} IN
  IF p \in Describing
  THEN [id \in {item.id : item \in able} |->
         IF \E item \in able : item.id = id /\ "reasoning" \in item.can THEN "yes" ELSE "no"]
  ELSE [id \in {item.id : item \in items} |-> "unknown"]

\* _model_list_provider_ids_for_settings
Discoverable(s) == s.keys \cup (Keyless \cap Referenced(s))

-----------------------------------------------------------------------------
(* The list *)

\* cached_model_supports_thinking
Supports(infos, ref) ==
  IF Tail(ref) \in DOMAIN infos[Head(ref)] THEN infos[Head(ref)][Tail(ref)] ELSE "unknown"

\* _append_provider_model_variants
Variants(infos, ref) ==
  {<<NoThinking>> \o ref} \cup
  IF Supports(infos, ref) = "no" THEN {} ELSE {<<Gateway>> \o ref}

\* cached_prefixed_model_refs
DiscoveredRefs(infos) == UNION {{<<p>> \o m : m \in DOMAIN infos[p]} : p \in ProviderIds}

\* _build_models_list_response
Listed(s, infos) ==
  (UNION {Variants(infos, ref) : ref \in ConfiguredRefs(s) \cup DiscoveredRefs(infos)})
  \cup ClaudeModels
=============================================================================
