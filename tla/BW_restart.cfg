\* Both sides, three orders; the bot is stopped and started once, at any point.
SPECIFICATION Spec
CONSTANTS
  Long = Long
  Short = Short
  Sides = {Long, Short}
  MaxOrders = 3
  Amount = 1
  Timeouts = FALSE
  Ends = TRUE
  Lossy = FALSE
  MaxRestarts = 1
INVARIANTS TypeOK OneInFlight CacheConverges Protected ExitsReached BooksBalance
