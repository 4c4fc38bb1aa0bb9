SPECIFICATION Spec
CONSTANTS
    invite = invite
    ringing = ringing
    bye = bye
    other = other
    call1 = call1
    call2 = call2
    co1 = co1
    co2 = co2
    None = None
    Packets = {invite, ringing, bye, other}
    CallIds = {call1, call2}
    CallId <- MCCallId
    Method <- MCMethod
    Companies = {co1, co2}
    Company <- MCCompany
    Chats = {ch1, ch2}
    BotEnabled = TRUE
INVARIANTS
    TypeOK
    OneSessionPerCall
    EveryChatIsTried
PROPERTY
    SessionsAreAtomic
