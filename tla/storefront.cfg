SPECIFICATION FairSpec
CONSTANTS
  Suppliers = {1, 2}
  Keys = {1, 2, 3}
  KeyAt <- KeyPlaces
  Requests = {11, 12}
  RequestAt <- RequestPlaces
  Calls = {1, 2, 3}
  IdOf <- Ids
  Stocked = {1}
INVARIANTS TypeOK KeysMatchAnswers RepliesAgree 
PROPERTIES AnswerForEver CallsEnd GoodsReachTheShelf
CHECK_DEADLOCK FALSE
