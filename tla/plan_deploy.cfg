SPECIFICATION Spec
CONSTANTS
  NL = 4
  Device = {1, 2, 3}
  Jobs <- SmallJobs
  RiskUnit = 2
  Deployments <- SmallDeployments
INVARIANTS SearchOK BestPlan PlannersAgree Served EachLayerOnce
CHECK_DEADLOCK FALSE
