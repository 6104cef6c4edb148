--------------------------- MODULE RequestBuilding ---------------------------
(***************************************************************************)
(* The requests a provider builds of a client's conversation as it grows:  *)
(* chat messages (ChatConversion), native bodies (NativeRequest) and the   *)
(* schema of a tool (NimTools).                                            *)
(*                                                                         *)
(* A client answers each call at most once and only calls of the last      *)
(* assistant message; it need not answer them, and roles need not          *)
(* alternate.                                                              *)
(***************************************************************************)
EXTENDS NativeRequest, NimTools

CONSTANTS
  MaxBlocks,        \* bound: blocks of a conversation
  MaxSpecial,       \* bound: those besides text, calls and results
  ParameterNames, MaxNames   \* property names; bound: properties of a schema

\* The code's series of aliases is endless.
ASSUME FreshAliasAssumption == ToSet(Aliases) \ ParameterNames # {}

VARIABLES
  history,     \* request.messages
  mode,        \* reasoning_replay
  converter,   \* the converter: the chat so far, and what is pending
  refused,     \* OpenAIConversionError was raised
  schema,      \* properties of a tool, by path
  booleans     \* those whose schema is a boolean

requestVars == <<history, mode, converter, refused, schema, booleans>>

RequestInit ==
  /\ history = <<>> /\ converter = NoChat /\ refused = FALSE
  /\ mode \in Modes
  /\ schema = {} /\ booleans = {}

Flat(messages) == FlattenSeq([i \in DOMAIN messages |-> messages[i].blocks])

AllBlocks == Flat(history)

\* The calls of the last assistant message without a result.
Unanswered ==
  LET m == SelectLastInSeq(history, LAMBDA x : x.role = "assistant")
      answered == {AllBlocks[i].of : i \in DOMAIN AllBlocks}
  IN  IF m = 0 THEN {}
      ELSE {b.at : b \in ToSet(Calls(history[m].blocks))} \ answered

\* Blocks of the kinds at the places of the next message.
Placed(kinds) ==
  [i \in DOMAIN kinds |-> [kind |-> kinds[i], at |-> <<Len(history) + 1, i>>, of |-> <<0, 0>>]]

Room(n) == Len(AllBlocks) + n <= MaxBlocks /\ schema = {} /\ ~refused

Specials(m) ==
  Len(m.top) + Cardinality({i \in DOMAIN m.blocks :
                              m.blocks[i].kind \notin {"text", "tool_use", "tool_result"}})

Say(m) ==
  /\ FoldLeft(LAMBDA n, x : n + Specials(x), Specials(m), history) <= MaxSpecial
  /\ history' = Append(history, m)
  /\ refused' = Refused(m)
  /\ converter' = Converted(converter, m, mode)
  /\ UNCHANGED <<mode, schema, booleans>>

Reasoning == [NoBlock EXCEPT !.kind = "reasoning", !.at = <<Len(history) + 1, 0>>]

AssistantKinds ==
  {"text", "thinking", "signed", "redacted", "tool_use", "server_tool_use"}

\* A message of the assistant in the history: a string, or blocks.
AssistantSays(n) ==
  /\ Room(n)
  /\ \E top \in {<<>>, <<Reasoning>>} :
       \/ n = 1 /\ Say([role |-> "assistant", plain |-> TRUE, top |-> top,
                        blocks |-> Placed(<<"text">>)])
       \/ \E kinds \in [1 .. n -> AssistantKinds] :
            Say([role |-> "assistant", plain |-> FALSE, top |-> top,
                 blocks |-> Placed(kinds)])

\* Results of unanswered calls at the places of results.
Answering(blocks) ==
  {[i \in DOMAIN blocks |-> [blocks[i] EXCEPT !.of = of[i]]] :
     of \in {f \in [DOMAIN blocks -> Unanswered \cup {<<0, 0>>}] :
               /\ \A i \in DOMAIN f : blocks[i].kind = "tool_result" <=> f[i] # <<0, 0>>
               /\ \A i, j \in DOMAIN f : i # j /\ f[i] # <<0, 0>> => f[i] # f[j]}}

UserKinds == {"text", "tool_result", "document", "image"}

UserSays(n) ==
  /\ Room(n)
  /\ \/ n = 1 /\ Say([role |-> "user", plain |-> TRUE, top |-> <<>>,
                      blocks |-> Placed(<<"text">>)])
     \/ \E kinds \in [1 .. n -> UserKinds] : \E blocks \in Answering(Placed(kinds)) :
          Say([role |-> "user", plain |-> FALSE, top |-> <<>>, blocks |-> blocks])

\* Apart from the conversation: the tool has one more property.
AddProperty(path, boolean) ==
  /\ history = <<>> /\ Cardinality(schema) < MaxNames
  /\ path \notin schema
  /\ Len(path) = 2 => SubSeq(path, 1, 1) \in schema \ booleans
  /\ schema' = schema \cup {path}
  /\ booleans' = IF boolean THEN booleans \cup {path} ELSE booleans
  /\ UNCHANGED <<history, mode, converter, refused>>

RequestNext ==
  \/ \E n \in 1 .. MaxBlocks : AssistantSays(n) \/ UserSays(n)
  \/ \E path \in BoundedSeq(ParameterNames, 2) \ {<<>>}, boolean \in BOOLEAN : AddProperty(path, boolean)

RequestSpec == RequestInit /\ [][RequestNext]_requestVars

-----------------------------------------------------------------------------
(* Properties *)

Request == ChatMessages(converter, mode)

\* Roles alternate, and calls are answered at once, all of them, before anything
\* else is said: what Anthropic's API asks of a client.
WellOrdered ==
  \A i \in DOMAIN history \ {1} :
    /\ history[i].role # history[i - 1].role
    /\ history[i].role = "user" =>
         LET calls == {b.at : b \in ToSet(Calls(history[i - 1].blocks))}
             n == Cardinality(calls)
         IN  /\ Len(history[i].blocks) >= n
             /\ {history[i].blocks[j].of : j \in 1 .. n} = calls \/ n = 0

\* Results stand behind their calls with nothing but results in between, as the
\* chat API demands, though the message has text behind its calls; and what one
\* side says is in the order it said it.
ResultsFollowCalls ==
  WellOrdered /\ ~refused =>
    LET chat == Request IN
    /\ \A i \in DOMAIN chat : chat[i].role = "tool" =>
         \E j \in 1 .. i - 1 :
           /\ chat[i].answers.of \in {b.at : b \in ToSet(chat[j].calls)}
           /\ \A k \in j + 1 .. i : chat[k].role = "tool"
    /\ \A role \in {"assistant", "user"} :
         LET said == FlattenSeq([i \in DOMAIN chat |->
                       IF chat[i].role = role THEN chat[i].words ELSE <<>>])
         IN  \A i, j \in DOMAIN said :
               i < j => \/ said[i].at[1] < said[j].at[1]
                        \/ said[i].at[1] = said[j].at[1] /\ said[i].at[2] < said[j].at[2]

\* Everything the chat messages hold, as often as they hold it.
WhatItHolds(m) ==
  m.words \o m.reasoning \o m.calls \o IF m.answers = NoBlock THEN <<>> ELSE <<m.answers>>

Told(chat) == FlattenSeq([i \in DOMAIN chat |-> WhatItHolds(chat[i])])

Times(told, b) == Cardinality({i \in DOMAIN told : told[i] = b})

\* Every text, call and result of the history is sent once, whatever is missing
\* or out of turn; thinking is sent once, or never where it is not replayed or
\* the message has its reasoning beside it.
SentOnce ==
  ~refused =>
    LET told == Told(Request) IN
    \A b \in ToSet(AllBlocks) :
      /\ b.kind \in {"text", "tool_use", "tool_result"} => Times(told, b) = 1
      /\ b.kind \in ThinkingKinds =>
           Times(told, b) = IF \/ mode = "disabled"
                               \/ mode = "reasoning_content" /\ history[b.at[1]].top # <<>>
                            THEN 0 ELSE 1
      /\ b.kind = "redacted" => Times(told, b) = 0

\* Native bodies send the calls and results of the history, and no thinking where
\* it is off, nor ask for it (a client's extra keys set aside). A DeepSeek
\* body that asks for thinking replays the thinking before some call, if there is
\* one; a body that does not, though it could, sends neither thinking nor the
\* client's hints that would make DeepSeek think.
NativeConsistent ==
  LET tools == {"tool_use", "tool_result"}
      said == OfKinds(AllBlocks, tools)
  IN  \A enabled \in BOOLEAN :
        /\ \A native \in {BaseBody(history, enabled, TRUE), OpenRouterBody(history, enabled, {})} :
             LET sent == Flat(native.messages) IN
             /\ OfKinds(sent, tools) = said
             /\ ~enabled =>
                  ~native.thinks /\ ~HasKind(sent, ThinkingKinds \cup Redacted)
        /\ ~DeepSeekRefuses(history) =>
             \A given \in {{}, {"effort", "clear_thinking", "compact"}} :
               LET body == DeepSeekBody(history, enabled, given)
                   sent == Flat(body.messages)
               IN  /\ OfKinds(sent, tools) = said
                   /\ body.thinks =>
                        \/ said = <<>>
                        \/ \E i \in DOMAIN body.messages : ThinkingBeforeCall(body.messages[i])
                   /\ ~body.thinks =>
                        /\ ~HasKind(sent, ThinkingKinds)
                        /\ enabled => body.hints = given \ {"effort", "clear_thinking"}
                   /\ ~HasKind(sent, Redacted)

\* No unsafe name and no alias table is sent to NIM, no two properties under one
\* name, and every property the tool has comes back under its own, also from an
\* answer to the body that is sent again without a field NIM refused.
NamesRestored ==
  LET kept == Sanitized(schema, booleans) IN
  schema # {} => \A given \in SUBSET {"chat_template", "reasoning_budget"},
                  thinks \in BOOLEAN,
                  complaint \in SUBSET {"reasoning_budget", "chat_template",
                                       "reasoning_content"} :
    LET body == NimBody(kept, given, thinks)
        again == RetryBody(body, complaint)
    IN  /\ \A p, q \in kept : again.tools[p] = again.tools[q] => p = q
        /\ \A p \in kept : /\ Unsafe \notin ToSet(again.tools[p])
                           /\ WithOwnNames(body, body.tools[p]) = p
                           /\ WithOwnNames(again, again.tools[p]) = p
        /\ CreateBody(again).alias = NoAlias
=============================================================================
