SPECIFICATION Spec
VIEW AllButCapacity
CONSTANTS
  n1 = n1
  n2 = n2
  None = None
  Nodes = {n1}
  Ttl = 2
  Free = {1, 2}
  OsFree = 9
  MaxBoots = 2
  MaxChanges = 2
  MaxLost = 1
INVARIANT SilentExpire
INVARIANT LivingStay
INVARIANT LeaverOffersNothing
INVARIANT OfferIsThePool
