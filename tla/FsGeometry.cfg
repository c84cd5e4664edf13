SPECIFICATION Spec
CONSTANT Totals <- MCTotals
INVARIANTS TypeOK NoWrap LayoutFits FatHoldsAll
CHECK_DEADLOCK FALSE
