SPECIFICATION PartsSpec
CONSTANTS
  Listings <- ScanListings
  Sites <- ScanSites
  Searches <- ScanSearches
  GoalBands <- ScanBands
  Attempted = {"k7"}
  AppliedPage = {"d"}
  ScanNames = {"a", "b"}
  MaxCandidates = 3
  MaxPages = 2
  UnknownLimit = 1
  Handlers = {1, 2}
  Texts = {"none", "t1"}
  FitResumes = {"none", "r1"}
  Tracks = {"none", "k1"}
  Campaigns = {"c1"}
  FitContents = {"d1"}
  Refreshers = {1, 2}
  Applications = {"a1"}
  Stages = {"recruiter_response", "rejected"}
  GhostAfter = 1
  MaxDay = 1
  MaxEvents = 2
  MaxOpps = 2
  Workers = {1}
  Questions <- Asked
  Pages <- AskedPages
  Preferable = {3}
  Artifact <- ApprovedLabels
  Runs = {1, 2}
  Targets <- ExecTargets
  ExecLayouts <- LayoutsSeen
  ExecPlans <- PlansTried
  LabRuns = {1, 2}
  CliFlows = {"scraper-economy"}
  Deployed = {"scraper-economy", "end-to-end", "api-contracts"}
  MaxSecond = 1
  MaxQueued = 1
  Vendors = {"facebook", "linkedin"}
  Accounts = {"me"}
  EnvAccount <- NoVariables
  JarAccount <- SocialJars
  SocialFeed <- SocialFeeds
  Site <- WebSite
  Seed = "s"
  Forbidden = {"r"}
  Elsewhere = {"x", "out"}
  RuleSets <- CrawlRules
  MaxDepth = 2
  CrawlLimit = 4
  MaxCrawls = 2
  Repos <- Repositories
  BuildPosts <- TextIndustries
  TagsOf <- Answers
  Skills = {"py", "js"}
  Aliases <- Merging
  Slug <- Directories
  Formats <- ResumeFormats
  MaxRetries = 1
  MaxBuilds = 2
  Asks = {1, 2}
  Postings <- Vacancies
  Providers <- BothProviders
  Feeds <- MarketFeeds
  Imports <- MarketImports
  Modes = {"any", "onsite"}
  Threads = {1, 2}
  AnswerValues = {"v1"}
  Resumes <- OnboardResumes
  Preferred = "systems"
  MaxRevisions = 2
  MaxGoals = 3
  Inputs <- AIInputs
  Environments <- AIEnvironments
  Evidence = {"e1"}
INVARIANTS
  PartsTypeOK
  SelectionIsSafe
  JudgementsAreFresh
  GhostedOnSilence
  
  
  ConclusionsAreOwn
  
  CrawlIsWhole
  EveryProjectIsShown
  LabelIsHonest
  OneGoalPerRevision
  
CHECK_DEADLOCK FALSE
