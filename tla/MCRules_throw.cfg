CONSTANTS
  SpaceFaces <- SpaceTrumpFaces
  SpaceTrump <- ClubsTwo
  Leads <- ThrowLeads
  Currents <- NoCurrents
  ExchangeSizes <- SomeSizes
  HandWidths <- ThrowWidths
  RuleHands <- NoHands
  RuleTrump <- ClubsTwo
SPECIFICATION Spec
INVARIANTS
  TracesComplete
