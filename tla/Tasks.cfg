SPECIFICATION FairSpec
CONSTANTS
  Tasks = {u1, u2, decide, delegate}
  Typed = {u1, decide, delegate}
  Updates = {u1, u2}
  Delegated = {delegate}
  Decisions = {decide}
  Posts = {ticket}
  Retries = 2
  MaxHistory = 2
INVARIANTS TypeOK StatusAndHistory InventoryAddsUp PostsAddUp
PROPERTY OnlyClassificationWaits
CHECK_DEADLOCK FALSE
