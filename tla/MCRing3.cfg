CONSTANTS
    Proc <- MCProc
    PidsOf <- MCPidsOf
    IpcSlots = 2
    UserWin <- MCUserWin
    WmSlot <- MCWmSlot
    App = App
    None = None
    Plans <- MCPlans
SPECIFICATION Spec
INVARIANTS MailInOrder NoWindowOutlivesOwner
PROPERTIES EachResumesItsOwn
