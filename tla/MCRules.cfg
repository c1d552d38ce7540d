CONSTANTS
  SpaceFaces <- SpaceTrumpFaces
  SpaceTrump <- ClubsTwo
  Leads <- SpaceLeads
  Currents <- SomeCurrents
  ExchangeSizes <- SomeSizes
  HandWidths <- SomeWidths
  RuleHands <- BothHands
  RuleTrump <- ClubsTwo
SPECIFICATION Spec
INVARIANTS
  ChoicesExact
  DecisionsStand
  ThrowsStand
  WinnerUnbeaten
