SPECIFICATION FairSpec
CONSTANTS
  Streams <- JoiningStreams
  Op <- MCOp
  Link <- MCLink
  link <- MClink
  pcp <- MCpcp
  frame <- MCframe
  route_pred <- MCroute_pred
  route_succ <- MCroute_succ
  InitialArrangements <- MCInitial
INVARIANTS
  TypeOK
  OrderMatchesPosition
  InBounds
  QueuesAreFIFO
  InversionsAreCovered
  FlipProgress
  LogIsSound
PROPERTIES
  KeepsPromise
  FlipReturns
  FlipEndsInPlace
