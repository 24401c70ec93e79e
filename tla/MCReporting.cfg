CONSTANTS
  Events = {e1, e2, e3}
  Retries <- SomeRetries
  Aspects = {"hooks", "limits", "reports", "contexts", "calls", "settings", "submission",
           "streams", "prompts", "generations", "runs", "traces", "queries"}
  MaxGenerations = 2
  MaxChunks = 1
  CallsPrivate = {FALSE}
  Traces = {"t1", "t2"}
  Spans = {"s1", "s2", "s3"}
  KindOf <- SomeKinds
  Persons = {"callable", "fixed", "none"}
  Unknown = {"t2"}
  MaxTracked = 2
  TracesPrivate = {TRUE, FALSE}
  Modes = {"query", "session"}
  Streamed = {TRUE, FALSE}
  MaxPrompts = 2
  MaxModelCalls = 3
  Clients = {"a", "b"}
  Threads = {"main", "worker"}
  Main = "main"
  Size = 3
  Rate = 1
  Interval = 2
  MaxTime = 4
  MaxRaises = 4
  Tasks = {"t"}
  MaxScopes = 1
  MaxForks = 0
  Keys = {"k"}
  Settings <- SomeSettings
  Captures = {TRUE}
  Trials <- SomeTrials
INIT ReportingInit
NEXT ReportingNext
INVARIANTS
  HooksStay ReportedOnce ReportFaithful Lexical EventAsAsked TellsWhatItHeard ResendsTheUndecided
  StreamMatchesResponse PromptTold CallTold   
CHECK_DEADLOCK FALSE
