\* The override against the fan's pin.
SPECIFICATION FairSpec
PROPERTIES
  OverrideMeansOn
