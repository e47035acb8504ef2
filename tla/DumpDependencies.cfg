\* Every list of dependencies on seven lines.
CONSTANT Id <- MCId
SPECIFICATION Spec
INVARIANTS DumpInv RoundTrip
