SPECIFICATION Spec
CONSTANTS
  default = default
  alpha = alpha
  first = first
  second = second
  Characters <- MCCharacters
  Campaigns <- MCCampaigns
  DefaultCharacter = default
  DefaultCampaign = first
  NoRow = NoRow
  MaxChanges = 1
INVARIANTS RowsHoldTheirOwn
