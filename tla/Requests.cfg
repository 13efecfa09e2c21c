CONSTANTS
  Configs <- MCConfigs
  Requests <- MCRequests
  FirstIndex <- MCFirstIndex
  Batches <- MCBatches
  StopWords <- MCStopWords
  MaxPublishes = 1
  MaxWindow = 4
  MaxPageSize = 3
  MaxAutocomplete = 3
  MaxNonstarters = 2
  MaxTokenCharacters = 6
  LongToken = 6
  MaxExpressionDepth = 2
  MaxQueryTextBytes = 12
  MaxFields = 2
  DefaultTerms = 2
  DefaultClauses = 6
  ConfiguredTerms = 4
  ConfiguredClauses = 14
  MaxPrefixExpansions = 1
  MaxFuzzyTerms = 2
  MaxPhraseWork = 8
  MaxFuzzyWork = 8
  MinPrefix = 3
  MinFuzzyLength = 4
  MaxCandidates = 4
  CheapFilterClauses = 2
  Huge = 1000
  MaxResponseBytes = 24
  HitBytes = 6
  HeaderBytes = 3
  MaxAggregationDepth = 3
  MaxAggregationBuckets = 6
  MaxAggregationMemory = 36
  MaxTermKeyBytes = 38
  MaxSortMemory = 76
  MaxResultBytes = 20
  NameBytes = 1
  AggregationBytes = 1
  RangeBytes = 1
  CollectorBytes = 2
  KeyOverhead = 1
  BucketBytes = 1
  WorstKey = 12
  MaxRecordId = 8
  Oversampling = 2
  SegmentHeader = 1
  KeySlot = 1
  GlobalHeader = 1
  ValueSlot = 1
  Parallelism = 2
  MaxPosition = 3
  CacheEntries = 2
  MachineMax = 79
  MaxTraceTokensPerValue = 3
  MaxTraceExpressionTokens = 4
  MaxTraceExpressionValues = 2
  MaxTraceWork = 8
  MaxTraceSpans = 3
  MaxTraceBytes = 40
  MaxTraceRecords = 3
  MaxTraceSource = 40
  TraceHeader = 3
  RecordHeader = 4
  ValueHeader = 5
  SpanBytes = 4
SPECIFICATION Spec
INVARIANTS
  ClassificationSound
  ResponsesExact
  CatalogSound
  TraceSound
