SPECIFICATION Spec
CONSTANTS
  Axes = {"X", "Y"}
  Blocks <- Blocks1
  MaxBlocks = 2
  Places <- Places1
  Saved <- Saved1
  HomeX <- Home1
PROPERTIES UnnamedAxesHold
CHECK_DEADLOCK FALSE
