SPECIFICATION Safe
CONSTANTS
  v1 = v1
  v2 = v2
  Requests = {1, 2, 3}
  Resolvers <- TwoResolvers
INVARIANT
  SafeToDelete
