\* Three goroutines: one holding d.lock in a collaborator call, one waiting
\* for it, and a third whose callback needs it.  The collaborator calls that
\* call back are the tree mutations, whose NotifyRemoval() calls Clean()'s
\* comment and spec 5 say could deadlock against d.lock.  Liveness rules
\* out symmetry.
CONSTANTS
    c1 = c1
    c2 = c2
    c3 = c3
    Free = Free
    Clients <- MCClients
    MaxEntries = 2
    CallsBack = {"RemoveAllChildren", "NotifyRemoval", "FilterChildren", "CreateChildren"}

SPECIFICATION LiveSpec

PROPERTY HandlersReturn
