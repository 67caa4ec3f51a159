SPECIFICATION Spec
CONSTANTS
  Cards <- TwoCards
  Texts <- OneText
  Tests <- TwoTests
  Pass = Pass
  TestCard = TestCard
  TestText = TestText
  Nothing = Nothing
  Targets = 2
  b1 = b1
  b2 = b2
  b3 = b3
  t1 = t1
  t2 = t2
INVARIANTS
  TypeOK
  CardsUnmixed
  CardForEach
  ModeTruthful
