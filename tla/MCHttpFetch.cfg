SPECIFICATION FairSpec
CONSTANTS
  None = None
  Never = Never
  Canon <- MCCanon
  MaxBytes = 1
  MaxRetryAfter = 2
  BackoffBase = 1
  Targets <- MCTargets
  Fetchers <- MCFetchers
  Interval <- MCInterval
  Retries <- MCRetries
  MaxRedirects = 2
  RespectRobots = TRUE
  CacheSeconds = 2
  Responses <- MCResponses
  Resolutions <- MCResolutions
  RobotsFiles <- MCRobotsFiles
  Navigations <- MCNavigations
  MaxGap = 2
INVARIANTS TypeOK ChainSafe RobotsObeyed RetryAfterHonoured
PROPERTIES CrawlDelayKept FetchEnds
