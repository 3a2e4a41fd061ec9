\* Every symbol and choice of the tree, read in any order, with up to two values
\* set or taken back between the reads.
CONSTANTS
  Defs <- MCDefs
  MODULES = "M"
  NoItem = "none"
  InputsOf <- MCInputs
  MaxSets = 2
  ReadCells <- MCReadCells
  Item <- Items
  Cell <- Cells
  ItemOf <- CellItem
  VisCell <- ItemVis
  User <- UserVals
  InputOf <- InputSet
  Value <- FreshValue
  Uses <- FreshUses
  Reads <- FreshReads
  Dependents <- _dependents
  Inputs <- PromptedItems
  Modules <- MODULES
SPECIFICATION Spec
INVARIANTS NoStale ValuesRight
PROPERTY ImplementsDepCache
CHECK_DEADLOCK FALSE
