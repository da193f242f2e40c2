\* Pages of three slots, six granules, so two full pages.
CONSTANTS
  Index = {0, 1, 2, 3, 4, 5}
  Icv = {0, 1, 2}
  PageSize = 3
SPECIFICATION MapSpec
INVARIANT CountExact
PROPERTY ImplementsTable
