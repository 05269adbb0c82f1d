SPECIFICATION FairSpec
CONSTANTS
  Words = {"athenz", "api"}
  Services = {"api"}
  Domains <- MCDomains
  Namespaces <- MCNamespaces
  ServiceAccounts <- MCServiceAccounts
  Flags <- MCFlags
  Volumes = {v}
  Others = {o}
  MaxAnnotations = 1
INVARIANTS TypeOK OwnRequestsApproved IdentityNotShared TenantsApart
PROPERTIES PodsGetCertificates
CHECK_DEADLOCK FALSE
