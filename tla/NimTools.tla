------------------------------ MODULE NimTools ------------------------------
(***************************************************************************)
(* Tool schemas as NVIDIA NIM takes them (providers/nvidia_nim/request.py) *)
(* and the arguments it answers with (providers/openai_compat.py): boolean *)
(* subschemas are removed, a parameter with an unsafe name is sent under   *)
(* an alias and gets its name back in the arguments. A body NIM refuses is *)
(* sent once more without the field it names.                              *)
(*                                                                         *)
(* A schema is the set of its properties, by their paths.                  *)
(***************************************************************************)
EXTENDS Sequences, SequencesExt, FiniteSets

CONSTANTS
  Unsafe,     \* _NIM_UNSAFE_TOOL_PARAMETER_NAMES
  Aliases     \* _fcc_arg_<name>, _fcc_arg_<name>_2, ... in this order

\* No alias, in the body.
NoAlias == "none"

ASSUME AliasAssumption ==
  Aliases \in Seq(ToSet(Aliases)) /\ {Unsafe, NoAlias} \cap ToSet(Aliases) = {}

\* _sanitize_nim_schema_node.
Sanitized(properties, booleans) == properties \ booleans

\* Faulty variant: names of inner schemas are not collected.
OuterNames(properties) == {p[1] : p \in {q \in properties : Len(q) = 1}}

\* _collect_nim_tool_property_names.
PropertyNames(properties) == UNION {ToSet(p) : p \in properties}

\* _make_nim_tool_parameter_alias: the first that is no property's name.
AliasOf(properties) ==
  Aliases[SelectInSeq(Aliases, LAMBDA a : a \notin PropertyNames(properties))]

Renamed(path, old, new) ==
  [i \in DOMAIN path |-> IF path[i] = old THEN new ELSE path[i]]

\* _alias_nim_tool_parameters: each property under the name it is sent by.
Sent(properties) ==
  LET alias == AliasOf(properties) IN [p \in properties |-> Renamed(p, Unsafe, alias)]

-----------------------------------------------------------------------------
(* The body: tools; extra, the optional fields; reasoning, whether messages have
   reasoning_content; alias, the private entry with the alias in use. *)

\* build_request_body: the client gave some optional fields.
NimBody(properties, given, thinks) ==
  [tools |-> Sent(properties),
   extra |-> given \cup IF thinks THEN {"kwargs", "kwargs.reasoning_budget"} ELSE {},
   reasoning |-> thinks,
   alias |-> IF Unsafe \in PropertyNames(properties) THEN AliasOf(properties) ELSE NoAlias]

\* body_without_nim_tool_argument_aliases
CreateBody(body) == [body EXCEPT !.alias = NoAlias]

\* _get_retry_request_body: the first field the error mentions is dropped; the
\* same body, if it has no such field, is not sent again.
RetryBody(body, complaint) ==
  CASE "reasoning_budget" \in complaint ->
         [body EXCEPT !.extra = @ \ {"reasoning_budget", "kwargs.reasoning_budget"}]
    [] "chat_template" \in complaint /\ "reasoning_budget" \notin complaint ->
         [body EXCEPT !.extra = @ \ {"chat_template"}]
    [] complaint = {"reasoning_content"} -> [body EXCEPT !.reasoning = FALSE]
    [] OTHER -> body

\* nim_tool_argument_aliases_from_body and _restore_aliased_tool_argument_value:
\* at any depth, if there is an alias at all.
WithOwnNames(body, path) ==
  IF body.alias = NoAlias THEN path ELSE Renamed(path, body.alias, Unsafe)
=============================================================================
