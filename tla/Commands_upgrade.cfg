CONSTANTS
  Supervisor = supervisor
  ask = ask
  read = read
  edit = edit
  explorer = explorer
  research = research
  reviewer = reviewer
  s1 = s1
  s2 = s2
  m1 = m1
  m2 = m2
  wildcard = wildcard
  coder = coder
  thinker = thinker
  former = former
  near = near
  far = far
  Providers = {near, far}
  Profiles = {coder, thinker, former}
  Legacy = former
  TemplateProfile = thinker
  DefaultProvider = near
  Ask = ask
  All = wildcard
  Core = {ask, read, edit}
  Required = {ask, edit, explorer}
  Agents = {explorer, research, reviewer}
  Builtins = {explorer}
  BuiltinTools = {read}
  Skills = {reviewer}
  DefaultTools = {read}
  Servers = {s1, s2}
  Canon <- ThisCanon
  Offers <- ThisOffers
  Starts <- UpgradeStarts
  YamlFiles <- ThisYamlFiles
  MaxCommands = 1
  MaxEdits = 1
SPECIFICATION Spec

PROPERTIES UpgradeKeepsScope
CHECK_DEADLOCK FALSE
