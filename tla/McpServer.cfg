\* Two posts and one of them, or a request in its place, calls a module; one session whose queue holds one message.
SPECIFICATION Spec
CONSTANTS
    Calls = {p1}
    Posts = {p1, p2}
    Sessions = {s1}
    NoSession = NoSession
    Capacity = 1
CHECK_DEADLOCK FALSE
INVARIANT AcceptedInOrder
INVARIANT SessionsHaveReaders
PROPERTY PostsEnd
