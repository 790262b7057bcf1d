SPECIFICATION Spec
INVARIANTS ChildrenHaveStopped
