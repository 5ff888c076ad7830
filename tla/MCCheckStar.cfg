SPECIFICATION Spec
CONSTANTS
  A = A
  B = B
  None = None
  Components <- MCComponents
  Names <- MCNames
  Star = "*"
  Private <- MCPrivate
  External <- MCExternal
  PackageOf <- MCPackageOf
  EvidenceLimit = 2
  Policies <- MCPolicies
  ContractOf <- MCContractOf
  Codes <- MCCodes
  CodeOf <- MCCodeOf
  Readings <- MCReadings
  Repositories <- MCRepositories
  EditCodes <- MCEditCodes
  EditPolicies <- MCEditPolicies
  EditSelections <- MCEditSelections
  MaxCommits = 4
  MaxVersions = 3
INVARIANT
  PassNeedsEveryName
CHECK_DEADLOCK FALSE
