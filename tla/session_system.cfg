\* A tool result that does not end its batch stands for an assistant's message.
SPECIFICATION Spec
CONSTANTS
    MaxEntries = 5
    Roles = {"system", "user", "tool"}
INVARIANT SystemStays
CHECK_DEADLOCK FALSE
