SPECIFICATION WebSpec
CONSTANTS
  Inputs = {i1, i2}
  MaxPolls = 2
  MaxSubmits = 2
  MaxAudits = 2
  MaxJobs = 2
  Filters = {f1, f2}
  MaxChoices = 4
  AccountProjects = {q1}
  MaxLoads = 3
  MaxPreviews = 3
  Latencies <- MCLatencies
  MaxRequests = 2
  MaxPicks = 2
  MaxRuns = 2
  Lines <- MCLines
  MaxLines = 3
  JsonTables <- MCJsonTables
  CsvTexts <- MCCsvTexts
  CsvLimits <- MCCsvLimits
  Names = {"a", "b", "c"}
  MaxCerts = 3
  Schemas <- MCSchemas
  Instances <- MCInstances
  MaxSchemaDepth = 6
  MaxErrors = 2
  YamlValues <- MCYamlValues
  MaxYamlDepth = 2
  XmlTexts <- MCXmlTexts
  MaxXmlDepth = 2
  MaxXmlNodes = 8
  TomlValues <- MCTomlValues
  MaxTomlDepth = 3
  Documents <- MCDocuments
  JsonPaths <- MCJsonPaths
  MaxVisits = 12
  MaxMatches = 5
  SqlTexts <- MCSqlTexts
  GraphqlTexts <- MCGraphqlTexts
  MaxNesting = 2
  UrlTexts <- MCUrlTexts
  QueryTexts <- MCQueryTexts
  MaxPairs = 3
  ManyPairs = 2
  CronFields <- MCCronFields
  CronSources <- MCCronSources
  CronExpressions <- MCCronExpressions
  Calendar <- MCCalendar
  MaxOccurrences = 3
  MaxListParts = 2
INVARIANTS
  WebTypeOK
  PageSpeedOfLatestAudit
  RestoredIsShown
  NoOrphanWorker
  FormShowsLastOutcome
  UrlsAreShownOrRevoked
  ToolsAnswerRight
  DocumentToolsAreRight
  AnswersAreRead
PROPERTIES
  RunSettles
  CrawlShownSettles
  FiltersAreAnswered
  ShellComesUp
CHECK_DEADLOCK FALSE
