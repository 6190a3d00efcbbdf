\* A session of an editor: it initializes and sends up to four more messages.
CONSTANTS
  Docs <- MCDocs
  Texts <- MCTexts
  Sayings <- MCSayings
  MaxMessages = 5
SPECIFICATION FairSpec
INVARIANTS
  LspTypeOK
  FreshWhenQuiet
  EndsForAReason
PROPERTIES
  ConversationKept
  RepliesArrive
  NoOrphan
