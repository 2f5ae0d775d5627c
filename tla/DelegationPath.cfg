SPECIFICATION Spec
CONSTANTS
  Mandates <- StrayMandates
  Tariffs <- SomeTariffs
  Bundles <- SomeBundles
  Documents <- SomeDocuments
  Revocable = {"root", "a1"}
  MaxRevocations = 2
  Nonces = {"n1", "n2"}
  MaxTime = 3
INVARIANT
  ChainIsAPath
