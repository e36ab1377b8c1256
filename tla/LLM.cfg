SPECIFICATION Spec
CONSTANT Items = {"rice", "noodles"}
INVARIANTS OnlyWhatTheCustomerSaid SandboxChangesNothing
CHECK_DEADLOCK FALSE
