SPECIFICATION Spec
CONSTANTS
  Addresses = {x1, x2}
  Accounts = {a1}
  NoOne = nobody
  Calls = {c1}
PROPERTY AddingKeepsTheOthers
CHECK_DEADLOCK FALSE
