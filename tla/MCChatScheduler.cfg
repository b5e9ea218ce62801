CONSTANTS
  c1 = c1
  c2 = c2
  p1 = p1
  p2 = p2
  r1 = r1
  i1 = i1
  w1 = w1
  w2 = w2
  NoChat = NoChat
  NoMessage = NoMessage
  Messages = {p1, r1, i1}
  Workers = {w1, w2}
  Chats <- MCChats
  ChatOf <- MCChatOf
  Kind <- MCKind
  MaxFaults = 1
SPECIFICATION Spec
SYMMETRY WorkerSymmetry
INVARIANTS OneExecutor
PROPERTIES ImplementsInbox
