----------------------------- MODULE ProxyStream -----------------------------
(***************************************************************************)
(* The answer to one POST /v1/messages: the model the client picks of      *)
(* those listed and where it is routed (ModelRouting), what                *)
(* ClaudeProxyService decides before it streams (api/services.py), the     *)
(* providers it tries in turn                                              *)
(* (api/fallback.py), the transport of each (providers/openai_compat.py,   *)
(* providers/anthropic_messages.py) and the events the client receives.    *)
(*                                                                         *)
(* Generators are lazy: a provider is asked for its next chunk when the    *)
(* events of the one before have been delivered.                           *)
(***************************************************************************)
EXTENDS NativePolicy, SseContract, ModelRouting

CONSTANTS
  Configs,     \* settings the program may run with
  Payloads,    \* answers of a provider to the question for its models
  Names,       \* names a client may ask for besides listed ones
  Transport,   \* "chat" or "native", by provider
  Contents,    \* text a chat chunk may carry
  ToolChunks,  \* <<tool index, name fragments, argument pieces>>
  MaxChunks    \* bound: chunks of one request, for each kind of transport

ASSUME ConfigsAssumption ==
  \A s \in Configs :
    /\ ValidSettings(s)
    /\ s.fallbacks \in Seq(ConfiguredRefs(s))
    /\ \A ref \in ConfiguredRefs(s) : ref \in Seq(ToSet(ref))
    /\ s.thinking \in BOOLEAN /\ \A t \in DOMAIN s.thinks : s.thinks[t] \in BOOLEAN
ASSUME PayloadsAssumption ==
  \A items \in Payloads : \A item \in items : item.id \in Seq(ToSet(item.id))
ASSUME NamesAssumption == \A name \in Names \cup ClaudeModels : name \in Seq(ToSet(name))
ASSUME ContentsAssumption == Contents \subseteq Seq(Symbols)
ASSUME ToolChunksAssumption ==
  \A call \in ToolChunks :
    call[1] \in ToolIndexes /\ call[2] \in Seq(ToSet(call[2])) /\ call[3] \in Nat

VARIABLES
  settings,
  infos,       \* _model_infos_by_provider
  asked,       \* the model of the request
  chain,       \* the candidates; once decided, by which transport, their thinking,
               \* and whether the provider can be created
  phase,       \* of the request
  cand,        \* the candidate being tried
  stage,       \* of its generator
  chat,        \* a chat transport's builder and parsers, and the text it was fed
  native,      \* a native transport's policy and tracker, and its upstream
  held,        \* buffered: events before the first content
  committed,
  wire,        \* events the client is yet to pull, with the candidate they are of
  chunks,      \* history: chunks read
  served,      \* history: the candidates the client has events of
  said,        \* history: the text the client has
  ending       \* history: how the stream ended

routingVars == <<settings, infos, asked>>
streamVars == <<chat, native, held, committed, wire, chunks, ending>>
vars == <<view, reading, stray, routingVars, chain, phase, cand, stage, served, said, streamVars>>

Final == {"refused", "answered", "done", "broken", "gone"}

FreshChat == [b |-> FreshBuilder, think |-> FreshThink, tools |-> FreshTools,
              fed |-> <<>>]

FreshNative == [policy |-> FreshPolicy, tracker |-> FreshTracker, sent |-> FALSE,
                stopped |-> FALSE, up |-> [u \in Upstream |-> "new"]]

NoInfos == [p \in ProviderIds |-> [id \in {} |-> "unknown"]]

Init ==
  /\ ContractInit
  /\ settings \in Configs /\ infos = NoInfos /\ asked = <<>> /\ chain = <<>>
  /\ phase = "listing" /\ cand = 1 /\ stage = "start"
  /\ chat = FreshChat /\ native = FreshNative
  /\ held = <<>> /\ committed = FALSE /\ wire = <<>>
  /\ chunks = 0 /\ served = {} /\ said = <<>> /\ ending = "none"

IsLast == cand = Len(chain)
thinkingEnabled == chain[cand].thinking

-----------------------------------------------------------------------------
(* Models and routing *)

notStreaming == UNCHANGED <<view, reading, stray, cand, stage, served, said, streamVars>>

\* Providers are asked for their models, together; some fail.
Query(ps) ==
  /\ phase = "listing" /\ ps # {}
  /\ \E told \in [ps -> Payloads], failed \in SUBSET ps :
       infos' = [p \in ProviderIds |->
                  IF p \in ps \ failed /\ ~Malformed(p, told[p]) THEN Infos(p, told[p])
                  ELSE infos[p]]
  /\ UNCHANGED <<settings, asked, chain, phase>>
  /\ notStreaming

\* validate_configured_models, at the start.
Validate ==
  infos = NoInfos /\ Query(Referenced(settings) \cap Creatable(settings))

\* refresh_model_list_cache, and start_model_list_refresh for those missing.
Refresh == \E ps \in SUBSET Discoverable(settings) : Query(ps)

\* GET /v1/models shows the client this id; or it knows a name of its own.
Pick ==
  /\ phase = "listing"
  /\ asked' \in Listed(settings, infos) \cup Names
  /\ phase' = "picked"
  /\ UNCHANGED <<settings, infos, chain>>
  /\ notStreaming

\* New settings are applied, and a new registry knows no models.
Apply ==
  /\ phase = "picked"
  /\ settings' \in Configs \ {settings}
  /\ infos' = NoInfos
  /\ UNCHANGED <<asked, chain, phase>>
  /\ notStreaming

\* resolve_messages_request and resolve_fallback_chain.
Route ==
  /\ phase = "picked"
  /\ chain' = Chain(settings, asked)
  /\ phase' = "asked"
  /\ UNCHANGED <<settings, infos, asked>>
  /\ notStreaming

-----------------------------------------------------------------------------
(* Before the stream *)

\* What was decided on is not read again, and is forgotten.
ForgetRouting ==
  /\ settings' = CHOOSE s \in Configs : TRUE
  /\ infos' = NoInfos /\ asked' = <<>>

Answer(how) ==
  /\ phase = "asked"
  /\ phase' = how
  /\ ForgetRouting
  /\ chain' = [i \in DOMAIN chain |->
                 [by |-> Transport[chain[i].provider], thinking |-> chain[i].thinking,
                  able |-> chain[i].provider \in Creatable(settings)]]
  /\ notStreaming

\* No messages, a server tool a chat upstream cannot run, a provider without a
\* key, a body the provider refuses: an HTTP error, no stream.
Refuse == Answer("refused")

\* Quota probes, titles, prefixes, suggestions, file paths: a JSON answer.
Optimize == Answer("answered")

StartStream == chain # <<>> /\ Answer("streaming") /\ chain'[1].able

\* A forced web_search or web_fetch is run here; its failure is its result.
WebEvents ==
  <<MessageStart, StartBlock(0, "server_tool_use"), StopBlock(0),
    StartBlock(1, "web_tool_result"), StopBlock(1),
    StartBlock(2, "text"), DeltaBlock(2, "text", <<>>), StopBlock(2),
    MessageDelta, MessageStop>>

WebTool ==
  /\ phase = "asked"
  /\ phase' = "streaming"
  /\ stage' = "ended"
  /\ wire' = [j \in DOMAIN WebEvents |-> [by |-> 0, event |-> WebEvents[j]]]
  /\ ending' = "web"
  /\ ForgetRouting
  /\ UNCHANGED <<view, reading, stray, chain, cand, served, said, chat,
                 native, held, committed, chunks>>

-----------------------------------------------------------------------------
(* stream_with_fallback: events are held until the first content event. A chain
   of one is streamed directly. *)

ContentEvents == {"content_block_start", "content_block_delta"}

\* Faulty variant: nothing is held back.
CommitsAtOnce(events) == events # <<>>

Commits(events) ==
  Len(chain) = 1 \/ committed \/ \E j \in DOMAIN events : events[j].ev \in ContentEvents

Tagged(events) == [j \in DOMAIN events |-> [by |-> cand, event |-> events[j]]]

\* The candidate's generator yields these events, and returns if `ends`.
Yield(events, ends) ==
  IF Commits(events) \/ ends
  THEN /\ wire' = held \o Tagged(events)
       /\ held' = <<>>
       /\ committed' = (committed \/ Commits(events))
  ELSE /\ held' = held \o Tagged(events)
       /\ UNCHANGED <<wire, committed>>

\* A ProviderError: the next candidate, or an error message.
ProviderFails ==
  \/ /\ ~IsLast
     /\ cand' = cand + 1
     /\ stage' = "start"
     /\ held' = <<>>
     /\ chat' = FreshChat /\ native' = FreshNative
     /\ UNCHANGED <<phase, wire, committed, ending>>
  \/ /\ IsLast
     /\ Yield(ErrorMessage(committed), TRUE)
     /\ stage' = "ended"
     /\ ending' = "error"
     /\ UNCHANGED <<phase, cand, chat, native>>

\* Any other exception ends the response where it is.
StreamBreaks ==
  /\ phase' = "broken"
  /\ UNCHANGED <<cand, stage, chat, native, held, wire, committed, ending>>

\* The generator of the candidate is at this point, and is asked for more.
At(where) == phase = "streaming" /\ stage = where /\ wire = <<>>

unchangedRequest ==
  UNCHANGED <<view, reading, stray, routingVars, chain, served, said, chunks>>

\* provider_getter, and the request body: the first candidate has passed both.
SelectCandidate ==
  /\ At("start")
  /\ unchangedRequest
  /\ \/ /\ chain[cand].able
        /\ stage' = "opening"
        /\ Yield(IF chain[cand].by = "chat" THEN <<MessageStart>> ELSE <<>>, FALSE)
        /\ UNCHANGED <<phase, cand, chat, native, ending>>
     \/ cand > 1 /\ chain[cand].able /\ ProviderFails
     \/ cand > 1 /\ StreamBreaks

OpenStream ==
  /\ At("opening")
  /\ unchangedRequest
  /\ stage' = "open"
  /\ UNCHANGED <<phase, cand, chat, native, held, wire, committed, ending>>

\* The transport renders the last candidate's failure itself. A native transport
\* raises transport errors as they are: map_error knows them not.
OpenFails ==
  /\ At("opening")
  /\ unchangedRequest
  /\ \/ ~IsLast /\ ProviderFails
     \/ ~IsLast /\ chain[cand].by = "native" /\ StreamBreaks
     \/ /\ IsLast
        /\ Yield(IF chain[cand].by = "chat" THEN FailMessage(chat.b).out
                 ELSE ErrorMessage(FALSE), TRUE)
        /\ stage' = "ended"
        /\ ending' = "error"
        /\ UNCHANGED <<phase, cand, chat, native>>

-----------------------------------------------------------------------------
(* OpenAIChatTransport._stream_response_impl *)

ReadChunk ==
  /\ At("open")
  /\ chunks < MaxChunks[chain[cand].by]
  /\ chunks' = chunks + 1
  /\ UNCHANGED <<view, reading, routingVars, chain, served, said, phase, cand,
                 stage, ending>>

\* The chat transport's next state: the builder has been drained.
ChatYields(b) ==
  /\ Yield(b.out, FALSE)
  /\ chat' = [chat EXCEPT !.b = [b EXCEPT !.out = <<>>]]
  /\ UNCHANGED <<native, stray>>

\* A part of the text: thinking, or text that may hold tool calls.
EmitPart(s, part) ==
  LET tools == FeedTools(s.tools, part.text)
      b == IF tools.shown = <<>> THEN s.b ELSE EmitText(s.b, tools.shown)
  IN  IF part.kind = "thinking"
      THEN IF thinkingEnabled THEN [s EXCEPT !.b = EmitThinking(@, part.text)] ELSE s
      ELSE [b |-> EmitHeuristicTools(b, tools.calls), tools |-> tools]

ChatText ==
  /\ ReadChunk
  /\ chain[cand].by = "chat"
  /\ \E content \in Contents :
       LET think == FeedThink(chat.think, content)
           s == FoldLeft(EmitPart, [b |-> chat.b, tools |-> chat.tools], think.parts)
       IN  /\ Yield(s.b.out, FALSE)
           /\ chat' = [b |-> [s.b EXCEPT !.out = <<>>],
                       think |-> [think EXCEPT !.parts = <<>>],
                       tools |-> [s.tools EXCEPT !.shown = <<>>, !.calls = 0],
                       fed |-> chat.fed \o content]
           /\ UNCHANGED <<native, stray>>

ChatReasoning ==
  /\ ReadChunk
  /\ chain[cand].by = "chat"
  /\ IF thinkingEnabled THEN ChatYields(EmitThinking(chat.b, <<"word">>))
     ELSE UNCHANGED <<chat, native, stray, held, wire, committed>>

ChatTool ==
  /\ ReadChunk
  /\ chain[cand].by = "chat"
  /\ \E call \in ToolChunks : ChatYields(ToolDelta(chat.b, call[1], call[2], call[3]))

GeneratorEnds(events, how) ==
  /\ Yield(events, TRUE)
  /\ stage' = "ended"
  /\ ending' = how
  /\ unchangedRequest
  /\ UNCHANGED <<phase, cand>>

\* What the parsers still hold: text goes past the tool parser.
EmitRest(b, part) ==
  IF part.kind = "text" THEN EmitText(b, part.text)
  ELSE IF thinkingEnabled THEN EmitThinking(b, part.text) ELSE b

FlushedBuilder ==
  EmitHeuristicTools(FoldLeft(EmitRest, chat.b, FlushThink(chat.think).parts),
                     FlushTools(chat.tools).calls)

ChatEnds ==
  /\ At("open") /\ chain[cand].by = "chat"
  /\ LET b == FinishMessage(FlushedBuilder) IN
     /\ GeneratorEnds(b.out, "normal")
     /\ chat' = [chat EXCEPT !.b = [b EXCEPT !.out = <<>>]]
  /\ UNCHANGED native

ChatFails ==
  /\ At("open") /\ chain[cand].by = "chat"
  /\ GeneratorEnds(FailMessage(chat.b).out, "error")
  /\ UNCHANGED <<chat, native>>

-----------------------------------------------------------------------------
(* AnthropicMessagesTransport.stream_response. The upstream begins with
   message_start and closes the blocks it has started before message_stop; a
   block may begin with a delta, and any may be stopped. *)

NativeYields(policy, up) ==
  /\ Yield(policy.out, FALSE)
  /\ native' = [native EXCEPT
       !.policy = [policy EXCEPT !.out = <<>>],
       !.tracker = ObserveAll(@, policy.out),
       !.sent = @ \/ policy.out # <<>>,
       !.up = up]
  /\ UNCHANGED chat

NativeReads ==
  ReadChunk /\ chain[cand].by = "native" /\ ~native.stopped

NativeStart ==
  /\ NativeReads /\ ~native.sent
  /\ NativeYields(Yielding(native.policy, <<MessageStart>>), native.up)
  /\ UNCHANGED stray

NativeBlockStart ==
  /\ NativeReads /\ native.sent
  /\ \E u \in Upstream, kind \in {"text", "thinking", "tool_use"} :
       /\ native.up[u] = "new"
       /\ NativeYields(PolicyStart(native.policy, u, kind, thinkingEnabled),
                       [native.up EXCEPT ![u] = kind])
  /\ UNCHANGED stray

NativeDelta ==
  /\ NativeReads /\ native.sent
  /\ \E u \in Upstream, kind \in {"text", "thinking", "tool_use"} :
       /\ native.up[u] \in {kind, "new"}
       /\ NativeYields(PolicyDelta(native.policy, u, kind, thinkingEnabled),
                       [native.up EXCEPT ![u] = IF kind = "thinking" THEN @ ELSE kind])
       /\ stray' = (stray \/ PassesDelta(native.policy, u, kind, thinkingEnabled))

\* Also once more for a block that is closed, or for none.
NativeBlockStop ==
  /\ NativeReads /\ native.sent
  /\ \E u \in Upstream :
       /\ NativeYields(PolicyStop(native.policy, u, thinkingEnabled),
                       [native.up EXCEPT ![u] = IF @ = "new" THEN @ ELSE "closed"])
       /\ stray' = (stray \/ PassesStop(native.policy, u, thinkingEnabled))

NativeMessageStop ==
  /\ At("open") /\ chain[cand].by = "native"
  /\ native.sent /\ ~native.stopped
  /\ \A u \in Upstream : native.up[u] \in {"new", "closed"}
  /\ unchangedRequest
  /\ Yield(<<MessageDelta, MessageStop>>, FALSE)
  /\ native' = [native EXCEPT !.stopped = TRUE]
  /\ UNCHANGED <<phase, cand, stage, chat, ending>>

NativeEnds ==
  /\ At("open") /\ chain[cand].by = "native"
  /\ native.stopped
  /\ GeneratorEnds(<<>>, "normal")
  /\ UNCHANGED <<chat, native>>

NativeFails ==
  /\ At("open") /\ chain[cand].by = "native"
  /\ GeneratorEnds(IF native.sent THEN ErrorTail(native.tracker)
                   ELSE ErrorMessage(FALSE), "error")
  /\ UNCHANGED <<chat, native>>

-----------------------------------------------------------------------------
(* The client *)

Deliver ==
  /\ phase = "streaming" /\ wire # <<>>
  /\ LET e == Head(wire).event IN
     /\ view' = After(view, e)
     /\ said' = IF e.kind = "text" THEN said \o e.what ELSE said
  /\ served' = served \cup {Head(wire).by}
  /\ wire' = Tail(wire)
  /\ UNCHANGED <<reading, stray, routingVars, chain, phase, cand, stage, chat, native,
                 held, committed, chunks, ending>>

Completed ==
  /\ At("ended")
  /\ phase' = "done"
  /\ reading' = FALSE
  /\ UNCHANGED <<view, stray, routingVars, chain, cand, stage, served, said, streamVars>>

\* GeneratorExit at a yield.
Disconnect ==
  /\ phase = "streaming" /\ wire # <<>>
  /\ phase' = "gone"
  /\ UNCHANGED <<view, reading, stray, routingVars, chain, cand, stage, served, said,
                 streamVars>>

\* Nothing is left to do. A request that is stuck elsewhere is a deadlock.
Over == phase \in Final /\ UNCHANGED vars

Next ==
  \/ Validate \/ Refresh \/ Pick \/ Apply \/ Route
  \/ Refuse \/ Optimize \/ StartStream \/ WebTool
  \/ SelectCandidate \/ OpenStream \/ OpenFails
  \/ ChatText \/ ChatReasoning \/ ChatTool \/ ChatEnds \/ ChatFails
  \/ NativeStart \/ NativeBlockStart \/ NativeDelta \/ NativeBlockStop
  \/ NativeMessageStop \/ NativeEnds \/ NativeFails
  \/ Deliver \/ Completed \/ Disconnect \/ Over

Spec == Init /\ [][Next]_vars

-----------------------------------------------------------------------------
(* Properties *)

\* The client never gets events of two providers: after a candidate failed,
\* nothing it yielded is delivered, and after content no other one is tried.
OneProvider == Cardinality(served) <= 1

\* Whatever the chunks and the tool calls between them, the text of a completed
\* chat answer is the upstream's text without its <think> sections and nothing
\* else; text that may hold tool calls written as text is not covered.
TextFaithful ==
  LET whole == FeedThink(FreshThink, chat.fed) IN
  (/\ phase = "done" /\ ending = "normal" /\ chain[cand].by = "chat"
   /\ ~Contains(chat.fed, "bullet"))
  => said = TextOf(whole.parts) \o TextOf(FlushThink(whole).parts)

\* A tool whose name came in one piece has all its arguments when the message is
\* completed, those before its name and incomplete ones too; a Task gets one
\* delta with all of them.
ToolArgsWhole ==
  (phase = "done" /\ ending = "normal" /\ chain[cand].by = "chat") =>
    \A i \in ToolIndexes :
      LET t == chat.b.tools[i] IN
      (t.block # None /\ t.shown = t.name) =>
        IF t.name = TaskName
        THEN t.deltas = (IF t.got = 0 THEN 0 ELSE 1)
             /\ (t.got = ArgPieces => t.sent = t.got)
        ELSE t.sent = t.got

\* Whatever has been told or applied since it was listed, an id names its
\* provider and its model though there are slashes in it, and the one without
\* thinking is served without; then come the fallbacks, each once, and never a
\* model that has been tried.
RoutedAsListed ==
  phase = "asked" =>
    LET ref(i) == <<chain[i].provider>> \o chain[i].model
        encoded == /\ Len(asked) >= 3
                   /\ asked[1] \in {Gateway, NoThinking} /\ asked[2] \in ProviderIds
    IN
    /\ asked \notin Names \cup ClaudeModels => encoded
    /\ encoded =>
         ref(1) = Tail(asked) /\ (asked[1] = NoThinking => ~chain[1].thinking)
    /\ Len(asked) >= 2 /\ asked[1] \in ProviderIds => ref(1) = asked
    /\ \A i, j \in DOMAIN chain : i # j => ref(i) # ref(j)
    /\ {ref(i) : i \in DOMAIN chain} = {ref(1)} \cup ToSet(settings.fallbacks)
    /\ \A i \in DOMAIN chain : chain[i].provider \in ProviderIds
=============================================================================
