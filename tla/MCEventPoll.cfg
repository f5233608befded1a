CONSTANTS
  Workers = {t1, t2}
  MaxFds = 2
  MaxEvents = 3
SPECIFICATION Spec
INVARIANTS GuardsAreSound PointersAreSound DescriptorsAreFresh
PROPERTY IsServed
