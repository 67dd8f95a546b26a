SPECIFICATION Spec
CONSTANTS
  Texts = {t1}
  Blanks = {blank}
  Numbers = {number}
  Zeros = {zero}
  Floats = {float}
  Fractions = {half, large}
  Grouped = {grouped}
  Dates = {date}
  number = number
  zero = zero
  small = half
  Whole <- WholeOf
  Cells = {c1, c2, c3}
  Targets = {"io_number", "quantity", "delivery_date", "buyer_po_no", "stages", "metadata", "ignore"}
  Rated = {"io_number"}
  MaxLabels = 3
  Own = Own
  None = None
SYMMETRY AnyCells
INVARIANT ValuesCarryTheirAddress
CHECK_DEADLOCK FALSE
