CONSTANTS
    Mailboxes = {m1}
    Claims = {c1, c2}
    Slots = {s1}
    None = None
    MailboxTtl = 2
    ClaimAttachTtl = 1
    MaxPerSlot = 1
    MaxLive = 1
    MaxPending = 1
    SlotLimit = 1
    GlobalLimit = 1
    Window = 1
    MaxTime = 3
SPECIFICATION Spec
INVARIANT ClaimantHears
