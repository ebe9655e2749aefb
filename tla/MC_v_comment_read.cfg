CONSTANTS
  Files <- LongComments
  IoFaults = {}
SPECIFICATION Spec
INVARIANTS
  CommentsIgnored
