SPECIFICATION Spec
CONSTANTS
  Mandates <- PathMandates
  Tariffs <- SomeTariffs
  Bundles <- SomeBundles
  Documents <- SomeDocuments
  Revocable = {"root", "a1"}
  MaxRevocations = 2
  Nonces = {"n1", "n2"}
  MaxTime = 3
INVARIANTS
  TypeOK
  MandatesAreAttenuated
  GrantsEndForGood
  
  TariffVersionsIncrease
  TariffClassifiersAreBound
  BundlesRestOnAQuorum
  NoncesAdmitOnce
  DocumentChainsHold
