---------------------------- MODULE MCProxyStream ----------------------------
EXTENDS ProxyStream

MCDescribing == {"open_router"}
MCTransport == [p \in {"nvidia_nim", "open_router"} |->
                 IF p = "open_router" THEN "native" ELSE "chat"]

MCTiers == <<"opus", "haiku", "sonnet">>
MCParts == {"anthropic", "claude-3-freecc-no-thinking", "nvidia_nim", "open_router",
            "qwen", "claude-opus", "claude-haiku"}
MCTiersOf == [part \in MCParts |->
  CASE part = "claude-opus" -> {"opus"} [] part = "claude-haiku" -> {"haiku"} [] OTHER -> {}]

MCClaudeModels == {<<"claude-opus">>, <<"claude-haiku">>}

Qwen == <<"nvidia_nim", "qwen">>
Opus == <<"open_router", "anthropic", "claude-opus">>

\* Each alone, and each as the other's fallback.
MCConfigs ==
  {[keys |-> {"nvidia_nim", "open_router"}, model |-> Qwen, models |-> <<>>,
    thinking |-> TRUE, thinks |-> [t \in {"opus"} |-> FALSE], fallbacks |-> <<>>],
   [keys |-> {"nvidia_nim"}, model |-> Qwen, models |-> <<>>,
    thinking |-> FALSE, thinks |-> <<>>, fallbacks |-> <<Opus>>],
   [keys |-> {"nvidia_nim", "open_router"}, model |-> Qwen,
    models |-> [t \in {"opus"} |-> Opus],
    thinking |-> FALSE, thinks |-> [t \in {"opus"} |-> TRUE], fallbacks |-> <<Qwen>>],
   [keys |-> {"nvidia_nim", "open_router"}, model |-> Qwen, models |-> <<>>,
    thinking |-> TRUE, thinks |-> <<>>, fallbacks |-> <<Opus>>]}

MCPayloads ==
  {{[id |-> <<"qwen">>, can |-> {"tools"}]},
   {[id |-> <<"anthropic", "claude-opus">>, can |-> {"tools", "reasoning"}],
    [id |-> <<"claude-haiku">>, can |-> {}]},
   {[id |-> <<"qwen">>, can |-> {"tools"}], [id |-> <<>>, can |-> {"tools"}]}}

MCNames == {Qwen, <<"anthropic", "claude-opus">>, <<"anthropic", "qwen", "claude-haiku">>}

MCContents ==
  {<<"word">>, <<"lt">>, <<"think>">>, <<"lt", "/think>", "word">>, <<"bullet", "func">>,
   <<"param">>, <<"word", "bullet">>}

MCToolChunks ==
  {<<0, <<>>, 1>>, <<0, <<"Ta", "sk">>, 1>>, <<0, <<"Ta">>, 0>>, <<1, <<"Edit">>, 1>>,
   <<0, <<"sk">>, 1>>, <<1, <<>>, 1>>, <<1, <<"Bash">>, 0>>}

MCAliased == {<<"Edit">>}

MCMaxChunks == [chat |-> 3, native |-> 6]

MCIndexes == 0 .. 7
=============================================================================
