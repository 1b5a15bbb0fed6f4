\* Every audit of a few records: replay order, confirmed restorations, drill verdicts.
CONSTANTS
  None = None
  ChangeRef = ChangeRef
  Records <- MCRecords
  Identities <- MCIdentities
  Observations <- MCObservations
  Expectations <- MCExpectations
  Dangerous <- MCDangerous
  ExternalRoots <- MCExternalRoots
  MaxLog = 3
  MaxEvidence = 2
  MaxChanges = 1
  MaxReceipts = 1
  MaxDrill = 2
SPECIFICATION Spec
INVARIANTS
  ReplayDeterministic
  NeverFalselyConfirmed
  PassMeansAllExact
