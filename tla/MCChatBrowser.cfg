CONSTANTS
  c1 = c1
  c2 = c2
  p1 = p1
  p2 = p2
  q1 = q1
  k1 = k1
  k2 = k2
  NoChat = NoChat
  NoPrompt = NoPrompt
  BrowserChats = {c1, c2}
  Prompts = {p1, p2, q1}
  WithFiles = {p2}
  Makes = {p1, q1}
  Conversations = {k1, k2}
  Tabs = {1, 2}
  Reading = {"scheduled", k1}
  BrowserModes = {"dedicated", "embedded", "shared"}
  MaxCommands = 1
  MaxFailures = 1
  ChatOf <- MCChatOf
SPECIFICATION FairBrowser
CHECK_DEADLOCK FALSE
INVARIANTS AnswerIsItsOwn SentWithItsFiles
PROPERTIES SentWhereBound FileIsOfItsConversation  PromptsEnd
