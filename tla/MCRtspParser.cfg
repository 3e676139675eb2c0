\* Requests, frames and junk between them, in pieces of any size.
SPECIFICATION Spec
CONSTANTS
  Lengths <- GoodLengths
  Inputs <- GoodInputs
  MaxHeader = 9
  MaxBody = 2
INVARIANTS
  TypeOK
  MessagesInOrder
  NothingLeftBehind
  RequestsNotRefused
PROPERTY ExtractReturns
