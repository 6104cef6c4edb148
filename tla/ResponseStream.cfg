SPECIFICATION Spec
CONSTANTS
  BulletWindow = 2
  ToolIndexes = {0, 1}
  Aliased <- MCAliased
  ArgPieces = 2
  Upstream = {0, 1}
  Indexes <- MCIndexes
  NoDelta = {"server_tool_use", "web_tool_result"}
  ProviderIds = {"nvidia_nim", "open_router"}
  Describing <- MCDescribing
  Keyless = {}
  Gateway = "anthropic"
  NoThinking = "claude-3-freecc-no-thinking"
  Tiers <- MCTiers
  TiersOf <- MCTiersOf
  ClaudeModels <- MCClaudeModels
  Configs <- MCConfigs
  Payloads <- MCPayloads
  Names <- MCNames
  Transport <- MCTransport
  Contents <- MCContents
  ToolChunks <- MCToolChunks
  MaxChunks <- MCMaxChunks
INVARIANTS
  OneProvider
  TextFaithful
  ToolArgsWhole
  RoutedAsListed
PROPERTIES
  ContractSpec
