CONSTANTS
    Errors = {e1, e2}
    NoError = NoError
    Unread = {NoError, e1}
    Instances = {i1, i2, i3}
    Functions = {f1}
    WithDel = {i1}
    Initial = {i1, i2, i3}
    Passes = 2
    Fuel <- Activity
    Work <- WorkOf
    MaxDepth = 2
SPECIFICATION Spec
INVARIANTS TypeOk ListsSound BytesCounted RenderingKept FinalizedOnce SweptFinalized NothingRefersToVm
PROPERTIES InstancesFirst Destroyed
CHECK_DEADLOCK FALSE
